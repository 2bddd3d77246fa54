---------------------------- MODULE ChunkedCookie ----------------------------
(***************************************************************************)
(* The transport of the session ticket in cookies (src/src/cookie.go): one  *)
(* cookie when the ticket fits, else a ".Chunks" cookie with the number of  *)
(* parts and a cookie for each part.  The browser keeps whatever no         *)
(* response overwrites or expires.  Several requests may be in flight; each *)
(* works on the cookies that were in the browser when it was sent, and the  *)
(* cookies of a response take effect together.                              *)
(*                                                                         *)
(* Tickets are numbered in the order they are made; only their number of    *)
(* chunks matters, and a part is represented by the ticket it belongs to.   *)
(***************************************************************************)
EXTENDS Integers

CONSTANTS Requests,    \* slots of requests in flight
          MaxTickets,  \* bound of the tickets made
          Sizes        \* numbers of 3072-byte chunks a ticket may need

ASSUME ChunkedCookieAssumption ==
  MaxTickets \in Nat /\ Sizes \subseteq Nat \ {0} /\ Sizes # {}

VARIABLES jar,     \* the cookies in the browser (0 = absent)
          size,    \* number of chunks of each ticket (0 = not made yet)
          flight,  \* the cookies each request was sent with
          latest,  \* history: the ticket attached last, none once it was ended
          overtaken \* history: it was attached before the late answer to an older
                    \* request cleared the cookies it is kept in

vars == <<jar, size, flight, latest, overtaken>>

Tickets == 1..MaxTickets
Positions == UNION {1..n : n \in Sizes}

Jars == [single : 0..MaxTickets, count : {0} \cup Sizes, part : [Positions -> 0..MaxTickets]]
NoCookies == [single |-> 0, count |-> 0, part |-> [i \in Positions |-> 0]]
NoRequest == [kind |-> "none", cookies |-> NoCookies]

TypeOK ==
  /\ jar \in Jars
  /\ size \in [Tickets -> {0} \cup Sizes]
  /\ flight \in [Requests -> [kind : {"none", "page", "login", "logout"}, cookies : Jars]]
  /\ latest \in 0..MaxTickets
  /\ overtaken \in BOOLEAN

None == 0
Unreadable == -1

\* readChunkedCookie, and the decryption of what it puts together: parts of
\* different tickets, or not all parts of one, do not decrypt.
Read(j) ==
  IF j.count = 0 THEN j.single
  ELSE IF /\ \A i \in 1..j.count : j.part[i] = j.part[1] /\ j.part[i] # 0
          /\ size[j.part[1]] = j.count
       THEN j.part[1]
       ELSE Unreadable

\* Fault: the number of chunks is not brought up to date.
SetCount_Fault(j, t, n) ==
  IF n = 1 THEN [j EXCEPT !.single = t]
  ELSE [j EXCEPT !.count = IF j.count = 0 THEN n ELSE @,
                 !.part = [i \in Positions |-> IF i <= n THEN t ELSE j.part[i]]]

\* setChunkedCookies for a ticket t of n chunks.
SetChunkedCookies(j, t, n) ==
  IF n = 1 THEN [j EXCEPT !.single = t]
  ELSE [j EXCEPT !.count = n,
                 !.part = [i \in Positions |-> IF i <= n THEN t ELSE j.part[i]]]

\* Fault: the cookie with the number is emptied instead of expired.
ClearCount_Fault(j, sent) ==
  IF sent.count = 0 THEN [j EXCEPT !.single = 0]
  ELSE [j EXCEPT !.count = Unreadable,
                 !.part = [i \in Positions |-> IF i <= sent.count THEN 0 ELSE j.part[i]]]

\* Fault: off by one, a ticket in two parts is taken for one in a single cookie.
Clear_Fault(j, sent) ==
  IF sent.count <= 2 THEN [j EXCEPT !.single = 0]
  ELSE [j EXCEPT !.count = 0,
                 !.part = [i \in Positions |-> IF i <= sent.count THEN 0 ELSE j.part[i]]]

\* clearChunkedCookie expires the cookies it finds on the request.
ClearChunkedCookie(j, sent) ==
  IF sent.count = 0 THEN [j EXCEPT !.single = 0]
  ELSE [j EXCEPT !.count = 0,
                 !.part = [i \in Positions |-> IF i <= sent.count THEN 0 ELSE j.part[i]]]

Send(r, kind) ==
  /\ flight[r].kind = "none"
  /\ flight' = [flight EXCEPT ![r] = [kind |-> kind, cookies |-> jar]]
  /\ UNCHANGED <<jar, size, latest, overtaken>>

Finish(r) == flight' = [flight EXCEPT ![r] = NoRequest]

Seen(r) == Read(flight[r].cookies)

\* storeSessionAndAttachCookie: after a login, or after a renewal of the
\* session a page request came with.
Attach(r) ==
  /\ \/ flight[r].kind = "login"
     \/ flight[r].kind = "page" /\ Seen(r) \in Tickets
  /\ \E t \in Tickets, n \in Sizes :
       /\ size[t] = 0 /\ \A u \in Tickets : u < t => size[u] # 0
       /\ size' = [size EXCEPT ![t] = n]
       /\ jar' = SetChunkedCookies(jar, t, n)
       /\ latest' = t
       /\ overtaken' = FALSE
  /\ Finish(r)

\* A page request whose session is used as it is, and a login that fails.
Keep(r) ==
  /\ \/ flight[r].kind = "page" /\ Seen(r) \in Tickets
     \/ flight[r].kind = "login"
  /\ Finish(r)
  /\ UNCHANGED <<jar, size, latest, overtaken>>

\* handleLogout, for a request that came with a session.
Logout(r) ==
  /\ flight[r].kind = "logout" /\ Seen(r) \in Tickets
  /\ jar' = ClearChunkedCookie(jar, flight[r].cookies)
  /\ latest' = None
  /\ Finish(r)
  /\ UNCHANGED <<size, overtaken>>

\* The request was sent before the latest ticket was attached, and its answer
\* expires cookies of that ticket's form: a request that came with nothing
\* expires the single cookie, one with a ticket the cookies this one came in.
Overtakes(r) ==
  /\ latest # None /\ Seen(r) # latest
  /\ Seen(r) = None => size[latest] = 1

\* A request without a session, or with one that is refused.  If it came with the
\* latest ticket, that session is over; otherwise it says nothing about it.
Deny(r) ==
  /\ flight[r].kind \in {"page", "logout"}
  /\ jar' = ClearChunkedCookie(jar, flight[r].cookies)
  /\ latest' = IF Seen(r) = latest THEN None ELSE latest
  /\ overtaken' = (overtaken \/ Overtakes(r))
  /\ Finish(r)
  /\ UNCHANGED size

Init ==
  /\ jar = NoCookies
  /\ size = [t \in Tickets |-> 0]
  /\ flight = [r \in Requests |-> NoRequest]
  /\ latest = None
  /\ overtaken = FALSE

Next == \E r \in Requests :
  \/ \E kind \in {"page", "login", "logout"} : Send(r, kind)
  \/ Attach(r) \/ Keep(r) \/ Logout(r) \/ Deny(r)

Spec == Init /\ [][Next]_vars

(***************************************************************************)
(* Properties                                                              *)
(***************************************************************************)

\* The browser never presents parts of different tickets, or only some parts
\* of one: whatever responses overlap, a cookie set reads as one whole ticket.
NeverTorn == Read(jar) # Unreadable

\* All tickets fit in one cookie, or none does.
Uniform == (\A t \in Tickets : size[t] <= 1) \/ \A t \in Tickets : size[t] # 1

\* As long as tickets do not change between one cookie and several, the browser
\* presents the ticket attached last, until a request that came with it is denied
\* or a logout is answered, or nothing at all: that only if the late denial of a
\* request sent before the ticket was attached expired cookies of its form
\* (main.go:182-185, cookie.go:94-116).  It never presents an older ticket, and a
\* late answer to a request that came with nothing leaves a ticket in parts alone.
PresentsLatest ==
  Uniform => Read(jar) = latest \/ (overtaken /\ Read(jar) = None)

\* After a logout the browser has no session to present.
LogoutClearsSession ==
  [][\A r \in Requests : Logout(r) => Read(jar)' = None]_vars

=============================================================================
