------------------------- MODULE ChunkedCookie_proofs -------------------------
(***************************************************************************)
(* What the browser presents is whole and, where tickets keep their form,   *)
(* the latest ticket, for any number of requests in flight and tickets of   *)
(* any sizes.                                                               *)
(***************************************************************************)
EXTENDS ChunkedCookie, TLAPS

\* With the tickets' sizes s, a single cookie has a ticket of one chunk, and a
\* number of chunks is that of one ticket, all of whose parts are there.
Intact(s, j) ==
  /\ j.single # 0 => s[j.single] = 1
  /\ j.count # 0 => /\ j.count # 1
                    /\ \E t \in Tickets : s[t] = j.count /\ \A i \in 1..j.count : j.part[i] = t

\* Also what a request in flight was sent with is intact: its response clears
\* the cookies that it names.
AllIntact == Intact(size, jar) /\ \A r \in Requests : Intact(size, flight[r].cookies)

\* The inductive invariant.
IInv == TypeOK /\ AllIntact /\ PresentsLatest

\* The types, with the sets named.
Flights == [kind : {"none", "page", "login", "logout"}, cookies : Jars]

LEMMA Typed ==
  TypeOK <=> /\ jar \in Jars /\ size \in [Tickets -> {0} \cup Sizes]
             /\ flight \in [Requests -> Flights] /\ latest \in 0..MaxTickets /\ overtaken \in BOOLEAN
  BY DEF TypeOK, Flights

\* The constants.
LEMMA Constants ==
  /\ NoCookies \in Jars /\ NoCookies.single = 0 /\ NoCookies.count = 0
  /\ NoRequest \in Flights /\ NoRequest.cookies = NoCookies
  /\ \A n \in Sizes : n \in Nat /\ n # 0 /\ \A i \in 1..n : i \in Positions
  BY ChunkedCookieAssumption DEF NoCookies, NoRequest, Jars, Flights, Positions

\* What a set of intact cookies reads as.
LEMMA ReadsWhole ==
  ASSUME NEW j \in Jars, Intact(size, j)
  PROVE  /\ j.count = 0 => Read(j) = j.single
         /\ j.count # 0 => Read(j) \in Tickets /\ size[Read(j)] = j.count /\ j.count # 1
  <1>1. CASE j.count = 0
    BY <1>1 DEF Read
  <1>2. CASE j.count # 0
    <2>1. PICK t \in Tickets : size[t] = j.count /\ \A i \in 1..j.count : j.part[i] = t
      BY <1>2 DEF Intact
    <2>2. 1 \in 1..j.count /\ t # 0
      BY <1>2, Constants DEF Jars, Tickets
    <2>3. Read(j) = t
      BY <1>2, <2>1, <2>2 DEF Read
    <2>4. QED
      BY <1>2, <2>1, <2>3 DEF Intact
  <1>3. QED
    BY <1>1, <1>2

\* setChunkedCookies leaves a whole ticket, also over the parts of a longer one,
\* and the making of a ticket changes no other.
LEMMA Setting ==
  ASSUME NEW s \in [Tickets -> {0} \cup Sizes], NEW t \in Tickets, NEW n \in Sizes, s[t] = 0,
         NEW j \in Jars, Intact(s, j)
  PROVE  LET u == [s EXCEPT ![t] = n] IN
         /\ u \in [Tickets -> {0} \cup Sizes] /\ Intact(u, j)
         /\ SetChunkedCookies(j, t, n) \in Jars /\ Intact(u, SetChunkedCookies(j, t, n))
  <1> DEFINE u == [s EXCEPT ![t] = n]
             k == SetChunkedCookies(j, t, n)
  <1>1. u \in [Tickets -> {0} \cup Sizes] /\ u[t] = n /\ \A v \in Tickets : s[v] # 0 => u[v] = s[v]
    OBVIOUS
  <1>2. n \in Nat /\ n # 0 /\ (\A i \in 1..n : i \in Positions) /\ t \in 0..MaxTickets
    BY Constants, ChunkedCookieAssumption DEF Tickets
  <1>3. /\ j.single \in 0..MaxTickets /\ j.count \in {0} \cup Sizes
        /\ j.part \in [Positions -> 0..MaxTickets]
    BY DEF Jars
  <1> HIDE DEF u
  <1>4. Intact(u, j)
    BY <1>1, <1>3, ChunkedCookieAssumption DEF Intact, Tickets
  <1>5. k \in Jars /\ Intact(u, k)
    <2>1. CASE n = 1
      <3>1. k = [j EXCEPT !.single = t]
        BY <2>1 DEF SetChunkedCookies
      <3>2. k \in Jars /\ k.single = t /\ k.count = j.count /\ k.part = j.part
        BY <1>2, <3>1 DEF Jars
      <3>3. QED
        BY <1>1, <1>4, <2>1, <3>2 DEF Intact
    <2>2. CASE n # 1
      <3> DEFINE parts == [i \in Positions |-> IF i <= n THEN t ELSE j.part[i]]
      <3>1. k = [j EXCEPT !.count = n, !.part = parts]
        BY <2>2 DEF SetChunkedCookies
      <3>2. parts \in [Positions -> 0..MaxTickets] /\ \A i \in 1..n : parts[i] = t
        BY <1>2, <1>3
      <3> HIDE DEF parts
      <3>3. k \in Jars /\ k.single = j.single /\ k.count = n /\ k.part = parts
        BY <3>1, <3>2 DEF Jars
      <3>4. QED
        BY <1>1, <1>4, <2>2, <3>2, <3>3 DEF Intact
    <2>3. QED
      BY <2>1, <2>2
  <1>6. QED
    BY <1>1, <1>4, <1>5 DEF u

\* clearChunkedCookie removes the single cookie or the number, so that parts it
\* does not know of are never read.
LEMMA Clearing ==
  ASSUME NEW s, NEW j \in Jars, Intact(s, j), NEW sent \in Jars
  PROVE  /\ ClearChunkedCookie(j, sent) \in Jars
         /\ Intact(s, ClearChunkedCookie(j, sent))
         /\ sent.count = 0 => /\ ClearChunkedCookie(j, sent).single = 0
                              /\ ClearChunkedCookie(j, sent).count = j.count
                              /\ ClearChunkedCookie(j, sent).part = j.part
         /\ sent.count # 0 => /\ ClearChunkedCookie(j, sent).single = j.single
                              /\ ClearChunkedCookie(j, sent).count = 0
  <1> DEFINE k == ClearChunkedCookie(j, sent)
  <1>1. 0 \in 0..MaxTickets /\ j.part \in [Positions -> 0..MaxTickets]
    BY ChunkedCookieAssumption DEF Jars
  <1>2. CASE sent.count = 0
    <2>1. k = [j EXCEPT !.single = 0]
      BY <1>2 DEF ClearChunkedCookie
    <2>2. k \in Jars /\ k.single = 0 /\ k.count = j.count /\ k.part = j.part
      BY <1>1, <2>1 DEF Jars
    <2>3. QED
      BY <1>2, <2>2 DEF Intact
  <1>3. CASE sent.count # 0
    <2> DEFINE parts == [i \in Positions |-> IF i <= sent.count THEN 0 ELSE j.part[i]]
    <2>1. k = [j EXCEPT !.count = 0, !.part = parts]
      BY <1>3 DEF ClearChunkedCookie
    <2>2. parts \in [Positions -> 0..MaxTickets]
      BY <1>1
    <2> HIDE DEF parts
    <2>3. k \in Jars /\ k.single = j.single /\ k.count = 0
      BY <2>1, <2>2 DEF Jars
    <2>4. QED
      BY <1>3, <2>3 DEF Intact
  <1>4. QED
    BY <1>2, <1>3

\* Where tickets keep their form, only single cookies or only parts are used.
LEMMA OneForm ==
  ASSUME size \in [Tickets -> {0} \cup Sizes], Uniform
  PROVE  \/ \A j \in Jars : Intact(size, j) => j.count = 0
         \/ \A j \in Jars : Intact(size, j) => j.single = 0
  <1>1. CASE \A t \in Tickets : size[t] <= 1
    <2>1. ASSUME NEW j \in Jars, Intact(size, j), j.count # 0 PROVE FALSE
      <3>1. j.count \in Nat /\ j.count # 1 /\ j.count <= 1
        BY <1>1, <2>1, Constants DEF Intact, Jars
      <3>2. QED
        BY <2>1, <3>1
    <2>2. QED
      BY <2>1
  <1>2. CASE \A t \in Tickets : size[t] # 1
    BY <1>2 DEF Intact, Jars, Tickets
  <1>3. QED
    BY <1>1, <1>2 DEF Uniform

\* No cookie is set before the first response.
THEOREM InitIInv == Init => IInv
  <1> SUFFICES ASSUME Init PROVE IInv
    OBVIOUS
  <1>1. TypeOK
    <2>1. overtaken \in BOOLEAN
      BY DEF Init
    <2>2. /\ jar \in Jars /\ size \in [Tickets -> {0} \cup Sizes]
          /\ flight \in [Requests -> Flights] /\ latest \in 0..MaxTickets
      BY Constants, ChunkedCookieAssumption DEF Init, None
    <2>3. QED
      BY <2>1, <2>2, Typed
  <1>2. AllIntact
    BY Constants DEF Init, AllIntact, Intact
  <1>3. PresentsLatest
    BY Constants DEF Init, PresentsLatest, Read, None
  <1>4. QED
    BY <1>1, <1>2, <1>3 DEF IInv

\* A request without effect on the cookies.
LEMMA QuietStep ==
  ASSUME IInv, UNCHANGED <<jar, size, latest, overtaken>>,
         flight' \in [Requests -> Flights],
         \A r \in Requests : flight'[r].cookies \in {flight[r].cookies, jar, NoCookies}
  PROVE  IInv'
  <1>1. TypeOK'
    BY Typed DEF IInv, TypeOK, Flights
  <1>2. AllIntact'
    BY Constants DEF IInv, AllIntact, Intact
  <1>3. PresentsLatest'
    BY DEF IInv, PresentsLatest, Uniform, Read
  <1>4. QED
    BY <1>1, <1>2, <1>3 DEF IInv

\* After the response nothing of the request is left.
LEMMA Finished ==
  ASSUME TypeOK, NEW r \in Requests, Finish(r)
  PROVE  /\ flight' \in [Requests -> Flights]
         /\ \A q \in Requests : flight'[q].cookies \in {flight[q].cookies, NoCookies}
  BY Typed, Constants DEF Finish

\* storeSessionAndAttachCookie: the ticket attached is the one presented.
LEMMA AttachStep ==
  ASSUME IInv, NEW r \in Requests, Attach(r)
  PROVE  IInv'
  <1>1. PICK t \in Tickets, n \in Sizes :
          /\ size[t] = 0 /\ size' = [size EXCEPT ![t] = n]
          /\ jar' = SetChunkedCookies(jar, t, n) /\ latest' = t /\ overtaken' = FALSE /\ Finish(r)
    BY DEF Attach
  <1>2. jar \in Jars /\ size \in [Tickets -> {0} \cup Sizes] /\ Intact(size, jar)
    BY Typed DEF IInv, AllIntact
  <1>3. /\ size' \in [Tickets -> {0} \cup Sizes] /\ jar' \in Jars /\ Intact(size', jar')
        /\ \A j \in Jars : Intact(size, j) => Intact(size', j)
    BY <1>1, <1>2, Setting
  <1>4. /\ flight' \in [Requests -> Flights]
        /\ \A q \in Requests : flight'[q].cookies \in {flight[q].cookies, NoCookies}
    BY <1>1, Finished DEF IInv
  <1>5. TypeOK'
    <2>1. overtaken' \in BOOLEAN
      BY <1>1
    <2>2. latest' \in 0..MaxTickets
      BY <1>1, ChunkedCookieAssumption DEF Tickets
    <2>3. QED
      BY <1>3, <1>4, <2>1, <2>2 DEF TypeOK, Flights
  <1>6. AllIntact'
    <2>1. ASSUME NEW q \in Requests PROVE Intact(size', flight'[q].cookies)
      <3>1. Intact(size, flight[q].cookies) /\ flight[q].cookies \in Jars
        BY Typed DEF IInv, AllIntact, Flights
      <3>2. Intact(size, NoCookies) /\ NoCookies \in Jars
        BY Constants DEF Intact
      <3>3. QED
        BY <1>3, <1>4, <3>1, <3>2
    <2>2. QED
      BY <1>3, <2>1 DEF AllIntact
  <1>7. PresentsLatest'
    <2> SUFFICES ASSUME Uniform' PROVE Read(jar)' = t
      BY <1>1 DEF PresentsLatest
    <2>1. t # 0 /\ n \in Nat /\ n # 0 /\ size'[t] = n
      BY <1>1, <1>2, Constants DEF Tickets
    <2>2. CASE n = 1
      <3>1. jar' = [jar EXCEPT !.single = t]
        BY <1>1, <2>2 DEF SetChunkedCookies
      <3>2. jar'.single = t /\ jar'.count = jar.count
        BY <1>2, <3>1 DEF Jars
      <3>3. jar'.count = 0
        <4>1. ASSUME jar'.count # 0 PROVE FALSE
          <5>1. PICK u \in Tickets : size'[u] = jar'.count /\ jar'.count # 1
            BY <1>3, <4>1 DEF Intact
          <5>2. size'[u] <= 1
            BY <2>1, <2>2 DEF Uniform
          <5>3. jar'.count \in Nat
            BY <1>3, Constants DEF Jars
          <5>4. QED
            BY <4>1, <5>1, <5>2, <5>3
        <4>2. QED
          BY <4>1
      <3>4. QED
        BY <3>2, <3>3 DEF Read
    <2>3. CASE n # 1
      <3> DEFINE parts == [i \in Positions |-> IF i <= n THEN t ELSE jar.part[i]]
      <3>1. jar' = [jar EXCEPT !.count = n, !.part = parts]
        BY <1>1, <2>3 DEF SetChunkedCookies
      <3>2. \A i \in 1..n : parts[i] = t
        BY <2>1, Constants
      <3> HIDE DEF parts
      <3>3. jar'.count = n /\ jar'.part = parts
        BY <1>2, <3>1 DEF Jars
      <3>4. 1 \in 1..n
        BY <2>1
      <3>5. QED
        BY <2>1, <3>2, <3>3, <3>4 DEF Read
    <2>4. QED
      BY <2>2, <2>3
  <1>8. QED
    BY <1>5, <1>6, <1>7 DEF IInv

\* A response that clears what its request came with keeps the types and the
\* cookies intact.  Where tickets keep their form, it leaves the single cookie or
\* the parts as they were if the request came in the other form, and else nothing.
LEMMA ClearStep ==
  ASSUME IInv, NEW r \in Requests, Finish(r), UNCHANGED size,
         jar' = ClearChunkedCookie(jar, flight[r].cookies),
         latest' \in {None, latest}, overtaken' \in BOOLEAN
  PROVE  /\ TypeOK' /\ AllIntact'
         /\ Uniform => Read(jar') \in {None, Read(jar)}
         /\ Uniform /\ Seen(r) # None => Read(jar') = None
         /\ Seen(r) = None /\ Read(jar) # None /\ size[Read(jar)] # 1 => Read(jar') = Read(jar)
  <1> DEFINE sent == flight[r].cookies
  <1>1. /\ jar \in Jars /\ Intact(size, jar) /\ sent \in Jars /\ Intact(size, sent)
        /\ size \in [Tickets -> {0} \cup Sizes]
    BY Typed DEF IInv, AllIntact, Flights
  <1>2. /\ jar' \in Jars /\ Intact(size, jar')
        /\ sent.count = 0 => jar'.single = 0 /\ jar'.count = jar.count /\ jar'.part = jar.part
        /\ sent.count # 0 => jar'.single = jar.single /\ jar'.count = 0
    BY <1>1, Clearing
  <1>3. /\ flight' \in [Requests -> Flights]
        /\ \A q \in Requests : flight'[q].cookies \in {flight[q].cookies, NoCookies}
    BY Finished DEF IInv
  <1>4. TypeOK'
    BY <1>1, <1>2, <1>3, ChunkedCookieAssumption DEF IInv, TypeOK, Flights, None
  <1>5. AllIntact'
    BY <1>2, <1>3, Constants DEF IInv, AllIntact, Intact
  <1>6. /\ jar.count = 0 => Read(jar) = jar.single
        /\ jar'.count = 0 => Read(jar') = jar'.single
        /\ sent.count = 0 => Seen(r) = sent.single
        /\ sent.count # 0 => Seen(r) # None
        /\ jar.count # 0 /\ jar'.count = jar.count /\ jar'.part = jar.part
             => Read(jar') = Read(jar)
    BY <1>1, <1>2, ReadsWhole DEF Seen, Read, Tickets, None
  <1>7. Uniform => \/ jar.count = 0 /\ jar'.count = 0 /\ sent.count = 0
                   \/ jar.single = 0 /\ jar'.single = 0 /\ sent.single = 0
    BY <1>1, <1>2, OneForm
  <1>8. Uniform => Read(jar') \in {None, Read(jar)}
    BY <1>2, <1>6, <1>7 DEF None
  <1>9. Uniform /\ Seen(r) # None => Read(jar') = None
    BY <1>2, <1>6, <1>7 DEF None
  <1>10. Seen(r) = None /\ Read(jar) # None /\ size[Read(jar)] # 1 => Read(jar') = Read(jar)
    BY <1>1, <1>2, <1>6 DEF None, Intact
  <1>11. QED
    BY <1>4, <1>5, <1>8, <1>9, <1>10

\* handleLogout ends the session, whichever ticket of it the request came with.
LEMMA LogoutStep ==
  ASSUME IInv, NEW r \in Requests, Logout(r)
  PROVE  IInv'
  <1>1. /\ TypeOK' /\ AllIntact'
        /\ Uniform /\ Seen(r) # None => Read(jar') = None
    BY ClearStep DEF Logout, IInv, TypeOK
  <1>2. Seen(r) # None /\ latest' = None /\ (Uniform' <=> Uniform) /\ Read(jar)' = Read(jar')
    BY ChunkedCookieAssumption DEF Logout, Tickets, None, Uniform, Read
  <1>3. QED
    BY <1>1, <1>2 DEF IInv, PresentsLatest

\* A denial ends the session of the latest ticket if it came with it.  If it came
\* with an older one, or with nothing, the latest ticket is still presented, or
\* the denial overtook it.
LEMMA DenyStep ==
  ASSUME IInv, NEW r \in Requests, Deny(r)
  PROVE  IInv'
  <1>1. /\ latest' = IF Seen(r) = latest THEN None ELSE latest
        /\ overtaken' = (overtaken \/ Overtakes(r))
    BY DEF Deny
  <1>2. /\ TypeOK' /\ AllIntact'
        /\ Uniform => Read(jar') \in {None, Read(jar)}
        /\ Uniform /\ Seen(r) # None => Read(jar') = None
        /\ Seen(r) = None /\ Read(jar) # None /\ size[Read(jar)] # 1 => Read(jar') = Read(jar)
    BY <1>1, ClearStep DEF Deny, IInv, TypeOK
  <1>3. (Uniform' <=> Uniform) /\ Read(jar)' = Read(jar')
    BY DEF Deny, Uniform, Read
  <1>4. ASSUME Uniform PROVE Read(jar') = latest' \/ (overtaken' /\ Read(jar') = None)
    <2>1. Read(jar) = latest \/ (overtaken /\ Read(jar) = None)
      BY <1>4 DEF IInv, PresentsLatest
    <2>2. CASE Seen(r) = latest
      BY <1>1, <1>2, <1>4, <2>1, <2>2
    <2>3. CASE Seen(r) # latest /\ Overtakes(r)
      BY <1>1, <1>2, <1>4, <2>1, <2>3
    <2>4. CASE Seen(r) # latest /\ ~Overtakes(r)
      <3>1. latest = None \/ (Seen(r) = None /\ size[latest] # 1)
        BY <2>4 DEF Overtakes
      <3>2. QED
        BY <1>1, <1>2, <1>4, <2>1, <2>4, <3>1
    <2>5. QED
      BY <2>2, <2>3, <2>4
  <1>5. QED
    BY <1>2, <1>3, <1>4 DEF IInv, PresentsLatest

\* No response, and no request that is sent, breaks the invariant.
THEOREM NextIInv == IInv /\ [Next]_vars => IInv'
  <1> SUFFICES ASSUME IInv, [Next]_vars PROVE IInv'
    OBVIOUS
  <1>1. flight \in [Requests -> Flights] /\ jar \in Jars
    BY Typed DEF IInv
  <1>2. ASSUME NEW r \in Requests, NEW kind \in {"page", "login", "logout"}, Send(r, kind)
        PROVE  IInv'
    <2>1. [kind |-> kind, cookies |-> jar] \in Flights
      BY <1>1 DEF Flights
    <2>2. /\ flight' = [flight EXCEPT ![r] = [kind |-> kind, cookies |-> jar]]
          /\ UNCHANGED <<jar, size, latest, overtaken>>
      BY <1>2 DEF Send
    <2>3. /\ flight' \in [Requests -> Flights]
          /\ \A q \in Requests : flight'[q].cookies \in {flight[q].cookies, jar, NoCookies}
      BY <1>1, <2>1, <2>2
    <2>4. QED
      BY <2>2, <2>3, QuietStep
  <1>3. ASSUME NEW r \in Requests, Attach(r) PROVE IInv'
    BY <1>3, AttachStep
  <1>4. ASSUME NEW r \in Requests, Keep(r) PROVE IInv'
    <2>1. Finish(r) /\ UNCHANGED <<jar, size, latest, overtaken>>
      BY <1>4 DEF Keep
    <2>2. /\ flight' \in [Requests -> Flights]
          /\ \A q \in Requests : flight'[q].cookies \in {flight[q].cookies, jar, NoCookies}
      BY <2>1, Finished DEF IInv
    <2>3. QED
      BY <2>1, <2>2, QuietStep
  <1>5. ASSUME NEW r \in Requests, Logout(r) PROVE IInv'
    BY <1>5, LogoutStep
  <1>6. ASSUME NEW r \in Requests, Deny(r) PROVE IInv'
    BY <1>6, DenyStep
  <1>7. CASE UNCHANGED vars
    BY <1>1, <1>7, QuietStep DEF vars
  <1>8. QED
    BY <1>2, <1>3, <1>4, <1>5, <1>6, <1>7 DEF Next

\* The inductive invariant holds in every reachable state.
THEOREM Invariance == Spec => []IInv
  BY InitIInv, NextIInv, PTL DEF Spec

\* The cookies have the values of their types, in the browser and in flight.
THEOREM TypeCorrect == Spec => []TypeOK
  <1>1. IInv => TypeOK
    BY DEF IInv
  <1>2. QED
    BY <1>1, Invariance, PTL

\* For any requests in flight and tickets of any sizes: however setChunkedCookies
\* and clearChunkedCookie overlap, readChunkedCookie never puts together parts of
\* different tickets, or some parts of one.
THEOREM TicketsAreWhole == Spec => []NeverTorn
  <1>1. ASSUME IInv PROVE NeverTorn
    <2>1. jar \in Jars /\ Intact(size, jar)
      BY <1>1, Typed DEF IInv, AllIntact
    <2>2. Read(jar) \in Int /\ Read(jar) >= 0
      BY <2>1, ReadsWhole, ChunkedCookieAssumption DEF Jars, Tickets
    <2>3. QED
      BY <2>2 DEF NeverTorn, Unreadable
  <1>2. QED
    BY <1>1, Invariance, PTL

\* For any requests in flight: where tickets do not change between one cookie and
\* several, the browser presents the ticket attached last until its session is
\* ended, never an older one, and nothing before only if the denial of a request
\* sent before that ticket was attached expired cookies of its form.
THEOREM LatestIsPresented == Spec => []PresentsLatest
  <1>1. IInv => PresentsLatest
    BY DEF IInv
  <1>2. QED
    BY <1>1, Invariance, PTL
=============================================================================
