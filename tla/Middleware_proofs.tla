-------------------------- MODULE Middleware_proofs --------------------------
(***************************************************************************)
(* The life of a session, for any number of requests and of tokens and for  *)
(* every configuration.                                                     *)
(***************************************************************************)
EXTENDS Middleware, TLAPS, FiniteSetTheorems

\* What sessions and requests depend on.
World == [config |-> config, age |-> age, entitled |-> entitled, usable |-> usable]

IssuedIn(w) == {n \in Tokens : w.age[n] # "none"}

\* A session as a login or a renewal makes it.
Full(w, s) ==
  /\ s.id \in IssuedIn(w) /\ s.at \in IssuedIn(w)
  /\ w.config.refreshTokens = "none" => s.rt = 0
  /\ w.config.refreshTokens = "rotating" => s.rt = s.at
  /\ w.config.refreshTokens = "reusable" => s.rt \in w.usable
  /\ ~w.config.checkOnEveryRequest => s.authorized = w.entitled[s.id]

\* A ticket is a session, or refers to one.
TicketRight(w, s) ==
  \/ s = NoSession
  \/ w.config.storage = "cookie" /\ Full(w, s)
  \/ w.config.storage = "server" /\ s.id \in IssuedIn(w) /\ s.at = 0 /\ s.rt = 0

\* The token of session s that is validated.
CheckedIn(w, s) == IF w.config.keptIdToken /\ s.id # 0 THEN s.id ELSE s.at

\* What is forwarded with session s satisfies the rules.
Passes(w, q) ==
  \/ w.config.forwardUnauthorized
  \/ IF w.config.checkOnEveryRequest \/ q.kind = "api" THEN w.entitled[CheckedIn(w, q.session)]
     ELSE w.entitled[q.session.id]

\* What is true of a request at each point of its way.
Right(w, q) ==
  /\ q.pc = "idle" => q = Idle
  /\ q.kind = "api" =>
       /\ q.pc \in {"validate", "authorize", "forward", "respond"}
       /\ q.session.id = 0 /\ q.session.rt = 0 /\ ~q.updated /\ q.cookie # "set"
       /\ q.ticket = NoSession /\ (q.session = NoSession \/ q.session.at \in IssuedIn(w))
  /\ q.kind # "api" => q.session = NoSession \/ Full(w, q.session)
  /\ q.pc \in {"validate", "renew", "revalidate", "authorize", "store", "finish"} =>
       q.session # NoSession
  /\ q.pc \notin {"forward", "respond"} => q.outcome = "none" /\ q.cookie = "keep"
  /\ q.pc = "forward" => q.outcome \in {"none", "error"}
  /\ q.updated => q.pc \in {"authorize", "store", "forward", "respond"}
  /\ q.cookie = "set" => q.session # NoSession
  /\ q.pc = "revalidate" /\ ~w.config.introspection /\ ~w.config.keptIdToken =>
       w.age[q.session.at] \in {"fresh", "stale"}
  /\ q.kind = "login" => q.pc \in {"exchange", "finish", "forward", "respond"}
  /\ q.pc \in {"exchange", "finish"} => q.kind = "login"
  /\ q.kind # "login" => q.session.id \in {0, q.ticket.id}
  /\ (q.pc \in {"store", "forward"} \/ q.outcome = "forwarded") /\ q.session # NoSession =>
       Passes(w, q)
  /\ TicketRight(w, q.ticket)

AllRight ==
  /\ \A i \in Tokens : \/ store[i] = NoSession
                       \/ config.storage = "server" /\ Full(World, store[i]) /\ store[i].id = i
  /\ TicketRight(World, jar)
  /\ \A r \in Requests : Right(World, req[r])

\* Tokens are numbered in the order of issue, and say what they may.
TokensAgree ==
  /\ Issued = 1..Cardinality(Issued) /\ Cardinality(Issued) \in 0..MaxTokens
  /\ config.entitlements = {TRUE} => \A n \in Issued : entitled[n]

\* A session that is final is in nobody's hands.
LogoutsAgree ==
  /\ final \subseteq ended /\ ended \subseteq Issued
  /\ \A id \in final : store[id] = NoSession
  /\ config.storage = "server" => \A r \in Requests : req[r].session.id \notin final

\* The request has tokens nobody else has and will store them.
Brings(w, q) ==
  \/ q.pc \in {"revalidate", "store"}
  \/ q.pc = "authorize" /\ q.updated
  \/ w.config.storage = "cookie" /\ q.cookie = "set"
Carrying(w, q) == Brings(w, q) \/ q.pc = "finish"

\* The tokens of a session, and where they are.
Key(s) == [id |-> s.id, at |-> s.at, rt |-> s.rt]
Kept == {Key(store[i]) : i \in Tokens} \cup {Key(jar)} \cup {Key(req[r].ticket) : r \in Requests}
Elsewhere(r) == Kept \cup {Key(req[q].session) : q \in Requests \ {r}}
Held == Kept \cup {Key(req[r].session) : r \in Requests}

\* Older tokens of a session are spent, tokens belong to one session, and new
\* ones are later than all others and not spent until they are stored.
Ordered ==
  config.refreshTokens # "reusable" =>
    /\ \A k, l \in Held : k.id # 0 /\ k.id = l.id /\ k.at < l.at => k.rt \notin usable
    /\ \A k, l \in Held : k.id # 0 /\ l.id # 0 /\ k.at # 0 /\ k.at = l.at => k.id = l.id
    /\ \A r \in Requests : Carrying(World, req[r]) =>
         /\ config.refreshTokens = "rotating" => req[r].session.rt \in usable
         /\ \A k \in Elsewhere(r) : k.id = req[r].session.id => k.at < req[r].session.at

\* The request sends the browser to the login page, or takes its session away.
Refusal(q) == q.outcome = "unauthenticated" \/ (q.cookie = "clear" /\ q.kind # "postLogout")
RefusedIsOver ==
  \A r \in Requests : Refusal(req[r]) /\ req[r].ticket # NoSession => Over(req[r].ticket.id)

\* The browser's session is in the store until it is logged out.
Alive(id) == id = 0 \/ store[id] # NoSession \/ id \in ended
TicketsLead ==
  Reliable =>
    /\ config.storage = "server" =>
         /\ Alive(jar.id)
         /\ \A r \in Requests : /\ Alive(req[r].ticket.id)
                                /\ req[r].cookie = "set" => Alive(req[r].session.id)
    /\ RefusedIsOver

\* A spent refresh token is being replaced.
SpentIsReplaced ==
  ~DropsRenewals /\ config.refreshTokens = "rotating" =>
    \A id \in Tokens \ ended :
      Current(id) # NoSession =>
        \/ Current(id).rt \in usable
        \/ \E r \in Requests : req[r].session.id = id /\ Brings(World, req[r])

\* The inductive invariant.
IInv == /\ TypeOK /\ TokensAgree /\ AllRight /\ LogoutsAgree
        /\ Ordered /\ TicketsLead /\ SpentIsReplaced

(***************************************************************************)
(* Types                                                                   *)
(***************************************************************************)
Places == {"idle", "load", "validate", "renew", "revalidate", "authorize", "store",
           "forward", "logout", "exchange", "finish", "respond"}
Outcomes == {"none", "forwarded", "unauthenticated", "unauthorized", "error",
             "loggedOut", "loggedIn", "panic"}
Records == [pc : Places, kind : {"page", "api", "login", "logout", "postLogout"},
            public : BOOLEAN, ticket : Sessions, session : Sessions, updated : BOOLEAN,
            cookie : {"keep", "set", "clear"}, outcome : Outcomes]

\* TypeOK, with the set of requests named.
LEMMA Typed ==
  TypeOK <=> /\ config \in Configurations /\ age \in [Tokens -> {"none", "fresh", "stale", "over"}]
             /\ entitled \in [Tokens -> BOOLEAN] /\ usable \subseteq Tokens
             /\ store \in [Tokens -> Sessions] /\ jar \in Sessions
             /\ req \in [Requests -> Records] /\ ended \subseteq Tokens /\ final \subseteq ended
  BY DEF TypeOK, Records, Places, Outcomes

\* The constants.
LEMMA Constants ==
  /\ NoSession \in Sessions /\ NoSession.id = 0 /\ NoSession.at = 0 /\ NoSession.rt = 0
  /\ \A n \in Tokens : n \in Nat /\ n # 0 /\ n \in 0..MaxTokens
  /\ 0 \in 0..MaxTokens /\ 0 \notin Tokens /\ \A n \in 0..MaxTokens : n # 0 => n \in Tokens
  /\ \A s \in Sessions : s.id \in 0..MaxTokens /\ s.at \in 0..MaxTokens /\ s.rt \in 0..MaxTokens
                         /\ s.authorized \in BOOLEAN
  BY MiddlewareAssumption DEF NoSession, Sessions, Tokens

\* A request that has not arrived.
LEMMA IdleIs ==
  /\ Idle \in Records /\ Idle.pc = "idle" /\ Idle.kind = "page" /\ Idle.public = FALSE
  /\ Idle.ticket = NoSession /\ Idle.session = NoSession /\ Idle.updated = FALSE
  /\ Idle.cookie = "keep" /\ Idle.outcome = "none"
  BY Constants DEF Idle, Records, Places, Outcomes

\* The configuration's parts.
LEMMA Configured ==
  ASSUME TypeOK
  PROVE  /\ config.storage \in {"server", "cookie"} /\ config.introspection \in BOOLEAN
         /\ config.keptIdToken \in BOOLEAN
         /\ config.refreshTokens \in {"none", "reusable", "rotating"}
         /\ config.checkOnEveryRequest \in BOOLEAN /\ config.forwardUnauthorized \in BOOLEAN
         /\ config.entitlements \subseteq BOOLEAN /\ config.faults \subseteq FaultKinds
         /\ config.bypass \in BOOLEAN
         /\ config.kinds \subseteq {"page", "api", "login", "logout", "postLogout"}
         /\ config.tokens \in 1..MaxTokens
  BY MiddlewareAssumption DEF TypeOK, AllConfigurations

\* World's parts.
LEMMA WorldIs ==
  /\ World.config = config /\ World.age = age /\ World.entitled = entitled
  /\ World.usable = usable /\ IssuedIn(World) = Issued
  /\ \A s : CheckedIn(World, s) = Checked(s)
  BY DEF World, IssuedIn, Issued, CheckedIn, Checked

(***************************************************************************)
(* How a request changes: only some of its fields do.                      *)
(***************************************************************************)
Became(n, q, pc, session, updated, cookie, outcome) ==
  /\ n \in Records /\ n.pc = pc /\ n.kind = q.kind /\ n.public = q.public
  /\ n.ticket = q.ticket /\ n.session = session /\ n.updated = updated
  /\ n.cookie = cookie /\ n.outcome = outcome

\* A request that moves keeps all its other fields.
LEMMA Moving ==
  ASSUME NEW r, req[r] \in Records, NEW p \in Places
  PROVE  LET q == req[r] IN Became(Moved(r, p), q, p, q.session, q.updated, q.cookie, q.outcome)
  <1> DEFINE q == req[r]
             n == [q EXCEPT !.pc = p]
  <1>1. q \in Records
    OBVIOUS
  <1> HIDE DEF q
  <1>2. Became(n, q, p, q.session, q.updated, q.cookie, q.outcome)
    BY <1>1 DEF Became, Records
  <1>3. QED
    BY <1>2 DEF Moved, q

\* So does one that is answered.
LEMMA Answering ==
  ASSUME NEW r, req[r] \in Records, NEW o \in Outcomes
  PROVE  LET q == req[r] IN Became(Answered(r, o), q, "respond", q.session, q.updated, q.cookie, o)
  <1> DEFINE q == req[r]
             n == [q EXCEPT !.pc = "respond", !.outcome = o]
  <1>1. q \in Records /\ "respond" \in Places
    BY DEF Places
  <1> HIDE DEF q
  <1>2. Became(n, q, "respond", q.session, q.updated, q.cookie, o)
    BY <1>1 DEF Became, Records
  <1>3. QED
    BY <1>2 DEF Answered, q

\* A request without session: public ones go on, others lose their cookie.
LEMMA Denying ==
  ASSUME NEW r, req[r] \in Records
  PROVE  LET q == req[r] IN
         IF q.public THEN Became(Refused(r, TRUE), q, "forward", NoSession, q.updated, q.cookie, q.outcome)
         ELSE Became(Refused(r, TRUE), q, "respond", NoSession, q.updated, "clear", "unauthenticated")
  <1> DEFINE q == req[r]
             n == [[q EXCEPT !.pc = "forward"] EXCEPT !.session = NoSession]
             m == [[q EXCEPT !.pc = "respond", !.outcome = "unauthenticated"]
                     EXCEPT !.session = NoSession, !.cookie = "clear"]
  <1>1. /\ q \in Records /\ "respond" \in Places /\ "forward" \in Places /\ NoSession \in Sessions
        /\ "unauthenticated" \in Outcomes
    BY Constants DEF Places, Outcomes
  <1> HIDE DEF q
  <1>2. Became(n, q, "forward", NoSession, q.updated, q.cookie, q.outcome)
    BY <1>1 DEF Became, Records
  <1>3. Became(m, q, "respond", NoSession, q.updated, "clear", "unauthenticated")
    BY <1>1 DEF Became, Records
  <1>4. QED
    BY <1>2, <1>3 DEF Refused, Moved, Answered, q

(***************************************************************************)
(* What is right stays right while tokens are issued and grow old.         *)
(***************************************************************************)
Grows(v, w) ==
  /\ v.config = w.config /\ IssuedIn(v) \subseteq IssuedIn(w)
  /\ \A n \in IssuedIn(v) : v.entitled[n] = w.entitled[n]
  /\ v.config.refreshTokens = "reusable" => v.usable \subseteq w.usable

\* Sessions and tickets stay right.
LEMMA StaysFull ==
  ASSUME NEW v, NEW w, Grows(v, w), NEW s
  PROVE  /\ Full(v, s) => Full(w, s)
         /\ TicketRight(v, s) => TicketRight(w, s)
  <1>1. Full(v, s) => Full(w, s)
    BY DEF Grows, Full
  <1>2. QED
    BY <1>1 DEF Grows, TicketRight

\* So do requests; only the check after a renewal depends on a token's age.
LEMMA StaysRight ==
  ASSUME NEW v, NEW w, Grows(v, w), NEW q, Right(v, q),
         q.pc = "revalidate" /\ ~v.config.introspection /\ ~v.config.keptIdToken =>
           w.age[q.session.at] \in {"fresh", "stale"}
  PROVE  Right(w, q)
  <1>1. q.kind # "api" /\ q.session # NoSession => Full(v, q.session) /\ Full(w, q.session)
    BY StaysFull DEF Right
  <1>2. TicketRight(w, q.ticket)
    BY StaysFull DEF Right
  <1>3. q.session # NoSession /\ Passes(v, q) => Passes(w, q)
    <2>1. q.session # NoSession => q.session.at \in IssuedIn(v)
      BY <1>1 DEF Right, Full
    <2>2. q.session # NoSession /\ q.kind # "api" => q.session.id \in IssuedIn(v)
      BY <1>1 DEF Full
    <2>3. QED
      BY <2>1, <2>2, Constants DEF Passes, Grows, CheckedIn, Right
  <1>4. v.config = w.config /\ IssuedIn(v) \subseteq IssuedIn(w)
    BY DEF Grows
  <1>5. QED
    BY <1>1, <1>2, <1>3, <1>4 DEF Right

\* The tokens in a session, or in a ticket, are issued ones.
LEMMA RightIsIssued ==
  ASSUME NEW w, NEW s, Full(w, s) \/ TicketRight(w, s), IssuedIn(w) \subseteq Tokens
  PROVE  /\ s.id \in IssuedIn(w) \/ s.id = 0
         /\ s.at \in IssuedIn(w) \/ s.at = 0
         /\ w.config.refreshTokens \in {"none", "rotating"} => s.rt \in IssuedIn(w) \/ s.rt = 0
         /\ w.config.refreshTokens = "none" => s.rt = 0
         /\ w.config.refreshTokens = "rotating" => s.rt = s.at
  BY Constants DEF Full, TicketRight

(***************************************************************************)
(* Steps of one request that change nothing else: what they keep.          *)
(***************************************************************************)
Continues(r, n) ==
  /\ n \in Records /\ Right(World, n)
  /\ n.ticket \in {req[r].ticket, jar, NoSession}
  /\ n.session.id = 0 \/ Key(n.session) \in Kept \cup {Key(req[r].session)}
  /\ config.storage = "server" => n.session.id \notin final
  /\ Carrying(World, n) => Carrying(World, req[r]) /\ Key(n.session) = Key(req[r].session)

Quietly(r, n) ==
  /\ Continues(r, n)
  /\ Brings(World, req[r]) /\ ~DropsRenewals =>
       Brings(World, n) /\ n.session.id = req[r].session.id
  /\ config.storage = "server" /\ n.cookie = "set" =>
       req[r].cookie = "set" /\ n.session.id = req[r].session.id
  /\ Reliable /\ Refusal(n) /\ n.ticket # NoSession => Over(n.ticket.id)

\* The parts of the invariant that are about one request.
LEMMA OfRequest ==
  ASSUME IInv, NEW r \in Requests
  PROVE  /\ req[r] \in Records /\ Right(World, req[r])
         /\ config.storage = "server" => req[r].session.id \notin final
         /\ 0 \notin final
         /\ Reliable /\ Refusal(req[r]) /\ req[r].ticket # NoSession => Over(req[r].ticket.id)
  BY Typed, Constants DEF IInv, AllRight, LogoutsAgree, TicketsLead, RefusedIsOver

\* A request whose session is refused.
LEMMA DeniedQuietly ==
  ASSUME IInv, NEW r \in Requests, req[r].pc \in {"load", "validate", "renew", "revalidate"},
         req[r].pc = "revalidate" => DropsRenewals,
         Reliable /\ ~req[r].public /\ req[r].ticket # NoSession => Over(req[r].ticket.id)
  PROVE  Quietly(r, Refused(r, TRUE))
  <1> DEFINE q == req[r]
             n == Refused(r, TRUE)
  <1>1. /\ q \in Records /\ Right(World, q) /\ 0 \notin final
    BY OfRequest
  <1>2. q.outcome = "none" /\ q.cookie = "keep" /\ q.updated = FALSE /\ q.public \in BOOLEAN
    BY <1>1 DEF Right, Records
  <1>3. IF q.public THEN Became(n, q, "forward", NoSession, FALSE, "keep", "none")
        ELSE Became(n, q, "respond", NoSession, FALSE, "clear", "unauthenticated")
    BY <1>1, <1>2, Denying
  <1> HIDE DEF n
  <1>4. /\ n \in Records /\ n.ticket = q.ticket /\ n.session = NoSession /\ n.updated = FALSE
        /\ n.kind = q.kind /\ n.pc \in {"forward", "respond"} /\ n.cookie # "set"
        /\ n.outcome \in {"none", "unauthenticated"}
        /\ n.pc = "forward" => n.outcome = "none"
        /\ Refusal(n) => ~q.public
    BY <1>2, <1>3 DEF Became, Refusal
  <1>5. Right(World, n)
    <2>1. n.kind = "api" => n.ticket = NoSession
      BY <1>1, <1>4 DEF Right
    <2>2. TicketRight(World, n.ticket)
      BY <1>1, <1>4 DEF Right
    <2>3. QED
      BY <1>4, <2>1, <2>2, Constants DEF Right
  <1>6. ~Carrying(World, n)
    BY <1>4 DEF Carrying, Brings
  <1>7. ~DropsRenewals => ~Brings(World, q)
    BY <1>2 DEF Brings
  <1>8. QED
    BY <1>1, <1>4, <1>5, <1>6, <1>7, Constants DEF Quietly, Continues, n

\* A request that is answered with an error.
LEMMA AnsweredQuietly ==
  ASSUME IInv, NEW r \in Requests, NEW o \in {"unauthorized", "error", "panic"},
         req[r].pc \in {"validate", "revalidate", "authorize", "exchange", "finish"},
         Brings(World, req[r]) => DropsRenewals
  PROVE  Quietly(r, Answered(r, o))
  <1> DEFINE q == req[r]
             n == Answered(r, o)
  <1>1. /\ q \in Records /\ Right(World, q)
        /\ config.storage = "server" => q.session.id \notin final
    BY OfRequest
  <1>2. q.outcome = "none" /\ q.cookie = "keep"
    BY <1>1 DEF Right, Records
  <1>3. o \in Outcomes
    BY DEF Outcomes
  <1>4. Became(n, q, "respond", q.session, q.updated, "keep", o)
    BY <1>1, <1>2, <1>3, Answering
  <1> HIDE DEF n
  <1>5. Right(World, n)
    BY <1>1, <1>2, <1>4, WorldIs DEF Right, Became
  <1>6. ~Carrying(World, n)
    BY <1>4 DEF Carrying, Brings, Became
  <1>7. n.session = q.session /\ n.ticket = q.ticket /\ ~Refusal(n) /\ n.cookie = "keep" /\ n \in Records
    BY <1>4 DEF Became, Refusal
  <1>8. QED
    BY <1>1, <1>5, <1>6, <1>7 DEF Quietly, Continues, n

\* A request that goes on with its session.
LEMMA MovedQuietly ==
  ASSUME IInv, NEW r \in Requests, NEW p \in {"authorize", "renew", "forward", "respond"},
         \/ req[r].pc = "validate" /\ p \in {"authorize", "renew"}
         \/ req[r].pc = "forward" /\ p = "respond" /\ req[r].outcome = "error",
         p = "renew" => req[r].kind # "api"
  PROVE  Quietly(r, Moved(r, p))
  <1> DEFINE q == req[r]
             n == Moved(r, p)
  <1>1. /\ q \in Records /\ Right(World, q)
        /\ config.storage = "server" => q.session.id \notin final
    BY OfRequest
  <1>2. p \in Places
    BY DEF Places
  <1>3. Became(n, q, p, q.session, q.updated, q.cookie, q.outcome)
    BY <1>1, <1>2, Moving
  <1> HIDE DEF n
  <1>4. Right(World, n)
    BY <1>1, <1>3 DEF Right, Became
  <1>5. /\ Carrying(World, n) => Carrying(World, q)
        /\ Brings(World, q) => Brings(World, n)
    BY <1>1, <1>3 DEF Carrying, Brings, Became, Right
  <1>6. QED
    BY <1>1, <1>3, <1>4, <1>5, OfRequest DEF Quietly, Continues, Became, Refusal, n

\* A request that arrives.
LEMMA ArrivedQuietly ==
  ASSUME IInv, NEW r \in Requests, req[r].pc = "idle", NEW n \in Records,
         n.updated = FALSE, n.cookie # "set",
         \/ /\ n.pc \in {"load", "exchange"} /\ n.kind # "api" /\ n.session = NoSession
            /\ n.ticket = jar /\ n.cookie = "keep" /\ n.outcome = "none"
            /\ n.kind = "login" <=> n.pc = "exchange"
         \/ /\ n.pc = "respond" /\ n.kind = "postLogout" /\ n.session = NoSession
            /\ n.ticket = jar /\ n.outcome = "loggedOut"
         \/ /\ n.pc = "validate" /\ n.kind = "api" /\ n.session # NoSession
            /\ n.session.id = 0 /\ n.session.rt = 0 /\ n.session.at \in Issued
            /\ n.ticket = NoSession /\ n.cookie = "keep" /\ n.outcome = "none"
  PROVE  Quietly(r, n)
  <1>1. Right(World, req[r]) /\ 0 \notin final /\ TicketRight(World, jar)
    BY OfRequest DEF IInv, AllRight
  <1>2. ~Brings(World, req[r])
    BY <1>1, IdleIs DEF Right, Brings
  <1>3. TicketRight(World, n.ticket)
    BY <1>1 DEF TicketRight
  <1>4. Right(World, n)
    BY <1>3, WorldIs, Constants DEF Right
  <1>5. ~Carrying(World, n)
    BY DEF Carrying, Brings
  <1>6. n.session.id = 0 /\ n.ticket \in {jar, NoSession}
    BY Constants
  <1>7. ~Refusal(n)
    BY DEF Refusal
  <1>8. QED
    BY <1>1, <1>2, <1>4, <1>5, <1>6, <1>7 DEF Quietly, Continues

\* getSessionForRequest returns what is in the cookie or in the storage.
LEMMA LoadedQuietly ==
  ASSUME IInv, NEW r \in Requests, Load(r)
  PROVE  \E n : Quietly(r, n) /\ Goto(r, n)
  <1> DEFINE q == req[r]
             t == q.ticket
             s == IF config.storage = "cookie" \/ t.id = 0 THEN t ELSE store[t.id]
             n == [Moved(r, "validate") EXCEPT !.session = s]
  <1>1. /\ q \in Records /\ Right(World, q) /\ q.pc = "load"
        /\ Goto(r, IF s = NoSession THEN Refused(r, TRUE) ELSE n)
    <2>1. /\ TryGetSession(t).session = s
          /\ s = NoSession => TryGetSession(t).err = TRUE
      BY DEF TryGetSession
    <2>2. /\ q.pc = "load"
          /\ Goto(r, IF TryGetSession(t).session = NoSession THEN Refused(r, TryGetSession(t).err)
                     ELSE [Moved(r, "validate") EXCEPT !.session = TryGetSession(t).session])
      BY DEF Load, At
    <2>3. QED
      BY <2>1, <2>2, OfRequest
  <1>2. /\ q.outcome = "none" /\ q.cookie = "keep" /\ q.updated = FALSE /\ q.kind # "api"
        /\ TicketRight(World, t)
    BY <1>1 DEF Right, Records
  <1>3. CASE s = NoSession
    <2>1. Reliable /\ t # NoSession => t.id \in ended
      <3>1. SUFFICES ASSUME Reliable, t # NoSession PROVE t.id \in ended
        OBVIOUS
      <3>2. config.storage = "server" /\ t.id \in Issued /\ t.id # 0 /\ store[t.id] = NoSession
        <4>1. t.id # 0
          BY <1>2, <3>1, WorldIs, Constants DEF TicketRight, Full, Issued
        <4>2. QED
          BY <1>2, <1>3, <3>1, <4>1, WorldIs DEF TicketRight
      <3>3. Alive(t.id)
        BY <3>1, <3>2 DEF IInv, TicketsLead, Reliable
      <3>4. QED
        BY <3>2, <3>3 DEF Alive
    <2>2. Quietly(r, Refused(r, TRUE))
      BY <1>1, <2>1, DeniedQuietly DEF Over
    <2>3. QED
      BY <1>1, <1>3, <2>2
  <1>4. CASE s # NoSession
    <2>1. s \in Sessions /\ Full(World, s) /\ s.id = t.id /\ Key(s) \in Kept /\ (config.storage = "server" => s.id \notin final)
      <3>1. CASE config.storage = "cookie" \/ t.id = 0
        <4>0. s = t
          BY <3>1
        <4>1. t \in Sessions /\ Key(t) \in Kept
          BY <1>1 DEF Records, Kept
        <4>2. config.storage = "server" => t.id # 0
          BY <1>2, <1>4, <4>0, WorldIs, Constants DEF TicketRight, Issued
        <4>3. Full(World, t) /\ config.storage = "cookie"
          BY <1>2, <1>4, <3>1, <4>0, <4>2, WorldIs, Configured DEF TicketRight, IInv
        <4>4. QED
          BY <4>0, <4>1, <4>3
      <3>2. CASE config.storage # "cookie" /\ t.id # 0
        <4>1. config.storage # "cookie" /\ t.id # 0 /\ s = store[t.id]
          BY <3>2
        <4>2. t.id \in Tokens
          BY <1>1, <4>1, Constants DEF Records
        <4>3. store \in [Tokens -> Sessions] /\ Full(World, store[t.id]) /\ store[t.id].id = t.id
          BY <1>4, <4>1, <4>2, Typed DEF IInv, AllRight
        <4>4. t.id \notin final
          BY <1>4, <4>1 DEF IInv, LogoutsAgree
        <4>5. QED
          BY <4>1, <4>2, <4>3, <4>4 DEF Kept
      <3>3. QED
        BY <3>1, <3>2
    <2> HIDE DEF s
    <2>2. "validate" \in Places
      BY DEF Places
    <2>3. Became(Moved(r, "validate"), q, "validate", q.session, FALSE, "keep", "none")
      BY <1>1, <1>2, <2>2, Moving
    <2>4. Became(n, q, "validate", s, FALSE, "keep", "none")
      BY <2>1, <2>3 DEF Became, Records
    <2> HIDE DEF n
    <2>5. Right(World, n)
      BY <1>1, <1>2, <1>4, <2>1, <2>4 DEF Right, Became
    <2>6. ~Carrying(World, n) /\ ~Brings(World, q)
      BY <1>1, <1>2, <2>4 DEF Carrying, Brings, Became
    <2>7. Quietly(r, n)
      BY <1>1, <2>1, <2>4, <2>5, <2>6 DEF Quietly, Continues, Became, Refusal
    <2>8. QED
      BY <1>1, <1>4, <2>7
  <1>5. QED
    BY <1>3, <1>4

\* validateToken and validateSessionTicket.
LEMMA ValidatedQuietly ==
  ASSUME IInv, NEW r \in Requests, ValidateHeader(r) \/ Validate(r)
  PROVE  \E n : Quietly(r, n) /\ Goto(r, n)
  <1> DEFINE q == req[r]
  <1>1. /\ q \in Records /\ Right(World, q) /\ q.pc = "validate" /\ ~Brings(World, q)
    BY OfRequest DEF ValidateHeader, Validate, At, Right, Brings
  <1>2. CASE ValidateHeader(r)
    <2>1. /\ q.kind = "api" /\ q.ticket = NoSession
      BY <1>1, <1>2 DEF ValidateHeader, Right
    <2>2. /\ Quietly(r, Refused(r, TRUE)) /\ Quietly(r, Moved(r, "authorize"))
          /\ Quietly(r, Answered(r, "panic"))
      BY <1>1, <2>1, DeniedQuietly, MovedQuietly, AnsweredQuietly
    <2>3. PICK v \in Results(Checked(q.session)) :
            Goto(r, IF v.ok THEN Moved(r, "authorize")
                    ELSE IF v.err THEN Refused(r, TRUE)
                    ELSE Answered(r, "panic"))
      BY <1>2 DEF ValidateHeader
    <2>4. QED
      BY <2>2, <2>3
  <1>3. CASE Validate(r)
    <2>1. /\ q.kind # "api"
          /\ \/ Goto(r, Moved(r, "authorize"))
             \/ Goto(r, Moved(r, "renew"))
             \/ Goto(r, Refused(r, TRUE)) /\ q.session.rt = 0
      BY <1>3 DEF Validate
    <2>2. Quietly(r, Moved(r, "authorize")) /\ Quietly(r, Moved(r, "renew"))
      BY <1>1, <2>1, MovedQuietly
    <2>3. ASSUME q.session.rt = 0
          PROVE  Quietly(r, Refused(r, TRUE))
      <3>1. Full(World, q.session)
        BY <1>1, <2>1 DEF Right
      <3>2. ~Reliable
        BY <2>3, <3>1, WorldIs, Constants DEF Full, Reliable, IInv, TypeOK
      <3>3. QED
        BY <1>1, <3>2, DeniedQuietly
    <2>4. QED
      BY <2>1, <2>2, <2>3
  <1>4. QED
    BY <1>2, <1>3

\* A renewal that the provider refuses, or that does not reach it.
LEMMA RefusedQuietly ==
  ASSUME IInv, NEW r \in Requests, At(r, "renew"),
         req[r].session.rt \notin usable \/ "provider" \in config.faults
  PROVE  Quietly(r, Refused(r, TRUE))
  <1> DEFINE q == req[r]
  <1>1. Right(World, q) /\ q.pc = "renew"
    BY OfRequest DEF At
  <1>2. Full(World, q.session)
    BY <1>1 DEF Right
  <1>3. ~Reliable
    BY <1>2, WorldIs DEF Full, Reliable
  <1>4. QED
    BY <1>1, <1>3, DeniedQuietly

\* What validateToken returns.
LEMMA ResultIs ==
  ASSUME TypeOK, NEW n, NEW v \in Results(n)
  PROVE  /\ v.ok \in BOOLEAN /\ v.err \in BOOLEAN
         /\ v.ok = FALSE => age[n] \notin {"fresh", "stale"} \/ "provider" \in config.faults
         /\ v.ok = FALSE /\ v.err = FALSE => config.introspection
         /\ v.ok = FALSE /\ v.err = TRUE => ~config.introspection \/ "provider" \in config.faults
  <1> DEFINE good == age[n] \in {"fresh", "stale"}
  <1>1. config.introspection \in BOOLEAN /\ good \in BOOLEAN
    BY Configured
  <1>2. CASE v = [ok |-> good, err |-> ~good /\ ~config.introspection]
    <2>1. v.ok = good /\ v.err = (~good /\ ~config.introspection)
      BY <1>2, Zenon
    <2>2. QED
      BY <1>1, <2>1, Zenon
  <1>3. CASE v = [ok |-> FALSE, err |-> TRUE] /\ "provider" \in config.faults
    BY <1>3
  <1>4. QED
    BY <1>2, <1>3, Zenon DEF Results

\* The check of a renewed token.
LEMMA RevalidatedQuietly ==
  ASSUME IInv, NEW r \in Requests, Revalidate(r)
  PROVE  \E n : Quietly(r, n) /\ Goto(r, n)
  <1> DEFINE q == req[r]
             n == [Moved(r, "authorize") EXCEPT !.updated = TRUE]
  <1>1. /\ q \in Records /\ Right(World, q) /\ q.pc = "revalidate"
        /\ config.storage = "server" => q.session.id \notin final
    BY OfRequest DEF Revalidate, At
  <1>2. q.kind # "api" /\ q.cookie = "keep" /\ q.outcome = "none" /\ q.public \in BOOLEAN
    BY <1>1 DEF Right, Records
  <1>3. PICK v \in Results(Checked(q.session)) : Goto(r, IF v.ok THEN n ELSE Refused(r, v.err))
    BY DEF Revalidate
  <1>4. CASE v.ok
    <2>1. "authorize" \in Places
      BY DEF Places
    <2>2. Became(Moved(r, "authorize"), q, "authorize", q.session, q.updated, "keep", "none")
      BY <1>1, <1>2, <2>1, Moving
    <2>3. Became(n, q, "authorize", q.session, TRUE, "keep", "none")
      BY <2>2 DEF Became, Records
    <2>4. Goto(r, n)
      BY <1>3, <1>4
    <2> HIDE DEF n
    <2>5. Right(World, n)
      BY <1>1, <1>2, <2>3 DEF Right, Became
    <2>6. Brings(World, n) /\ Carrying(World, q)
      BY <1>1, <2>3 DEF Carrying, Brings, Became
    <2>7. Quietly(r, n)
      BY <1>1, <2>3, <2>5, <2>6 DEF Quietly, Continues, Became, Refusal
    <2>8. QED
      BY <2>4, <2>7
  <1>5. CASE ~v.ok /\ v.err = TRUE
    <2>1. \/ "provider" \in config.faults
          \/ config.introspection
          \/ config.keptIdToken /\ age[q.session.id] \notin {"fresh", "stale"}
      <3>1. \/ config.introspection
            \/ config.keptIdToken /\ Checked(q.session) \in {q.session.id, q.session.at}
            \/ Checked(q.session) = q.session.at /\ age[q.session.at] \in {"fresh", "stale"}
        BY <1>1, WorldIs DEF Right, Checked
      <3>2. \/ "provider" \in config.faults
            \/ age[Checked(q.session)] \notin {"fresh", "stale"}
        BY <1>3, <1>5, ResultIs DEF IInv
      <3>3. q.session.id # 0
        BY <1>1, <1>2, WorldIs, Constants DEF Right, Full, Issued
      <3>4. QED
        BY <3>1, <3>2, <3>3 DEF Checked
    <2>2. DropsRenewals
      BY <2>1 DEF DropsRenewals
    <2>3. Reliable /\ q.ticket # NoSession => Over(q.ticket.id)
      <3>1. SUFFICES ASSUME Reliable, q.ticket # NoSession PROVE Over(q.ticket.id)
        OBVIOUS
      <3>2. age[Checked(q.session)] \notin {"fresh", "stale"} /\ ~config.introspection
        BY <1>3, <1>5, <3>1, ResultIs DEF IInv, Reliable
      <3>3. config.keptIdToken /\ age[q.session.id] \notin {"fresh", "stale"}
        BY <2>1, <3>1, <3>2 DEF Reliable
      <3>4. q.session.id \in Tokens /\ age[q.session.id] # "none" /\ q.session.id = q.ticket.id
        BY <1>1, <1>2, WorldIs, Constants DEF Right, Full, Issued
      <3>5. age[q.session.id] = "over"
        BY <3>3, <3>4 DEF IInv, TypeOK
      <3>6. QED
        BY <3>3, <3>4, <3>5 DEF Over
    <2>4. Quietly(r, Refused(r, TRUE))
      BY <1>1, <2>2, <2>3, DeniedQuietly
    <2>5. QED
      BY <1>3, <1>5, <2>4
  <1>6. CASE ~v.ok /\ v.err = FALSE
    <2>1. config.introspection /\ DropsRenewals
      BY <1>3, <1>6, ResultIs DEF IInv, DropsRenewals
    <2>2. Goto(r, Refused(r, FALSE))
      BY <1>3, <1>6
    <2>3. ~Reliable \/ q.public => Quietly(r, Refused(r, TRUE))
      BY <1>1, <2>1, DeniedQuietly
    <2>4. Quietly(r, Answered(r, "panic"))
      BY <1>1, <2>1, AnsweredQuietly
    <2>5. Refused(r, FALSE) = IF q.public THEN Refused(r, TRUE) ELSE Answered(r, "panic")
      BY DEF Refused
    <2>6. QED
      BY <2>2, <2>3, <2>4, <2>5
  <1>7. v.ok \in BOOLEAN /\ v.err \in BOOLEAN
    BY <1>3, ResultIs DEF IInv
  <1>8. QED
    BY <1>4, <1>5, <1>6, <1>7

\* ServeHTTP with a session, up to the storing of a renewed one.
LEMMA AuthorizedQuietly ==
  ASSUME IInv, NEW r \in Requests, Authorize(r)
  PROVE  \E n : Quietly(r, n) /\ Goto(r, n)
  <1> DEFINE q == req[r]
             a == Authorized(r)
             s == [q.session EXCEPT !.authorized = a]
             onward == IF q.updated THEN "store" ELSE "forward"
             n == [Moved(r, onward) EXCEPT !.session = s]
  <1>1. /\ q \in Records /\ Right(World, q) /\ q.pc = "authorize" /\ q.kind # "logout"
        /\ config.storage = "server" => q.session.id \notin final
        /\ Goto(r, IF ~a /\ ~config.forwardUnauthorized THEN Answered(r, "unauthorized") ELSE n)
    BY OfRequest DEF Authorize, At
  <1>2. /\ q.session \in Sessions /\ q.session # NoSession /\ q.updated \in BOOLEAN
        /\ q.cookie = "keep" /\ q.outcome = "none"
        /\ q.kind # "api" => Full(World, q.session)
        /\ q.kind = "api" => /\ q.session.at \in Issued /\ q.updated = FALSE
                             /\ q.session.id = 0 /\ q.session.rt = 0
    BY <1>1, WorldIs DEF Right, Records
  <1>3. /\ q.kind # "api" => q.session.at \in Issued /\ q.session.id \in Issued
        /\ q.kind # "api" /\ ~config.checkOnEveryRequest => q.session.authorized = entitled[q.session.id]
    BY <1>2, WorldIs DEF Full
  <1>4. /\ q.session.at \in Issued /\ Checked(q.session) \in Issued
        /\ q.kind = "api" \/ config.checkOnEveryRequest => a = entitled[Checked(q.session)]
        /\ q.kind # "api" /\ ~config.checkOnEveryRequest => a = entitled[q.session.id]
    BY <1>2, <1>3 DEF Authorized, Checked
  <1>5. /\ Issued \subseteq Tokens /\ entitled \in [Tokens -> BOOLEAN]
        /\ config.entitlements = {TRUE} => \A m \in Issued : entitled[m]
    BY DEF IInv, TypeOK, TokensAgree, Issued
  <1>6. a \in BOOLEAN
    BY <1>3, <1>4, <1>5
  <1>7. CASE ~a /\ ~config.forwardUnauthorized
    <2>1. Brings(World, q) => DropsRenewals
      <3>1. Brings(World, q) => q.kind # "api"
        BY <1>1, <1>2 DEF Brings
      <3>2. config.entitlements = {TRUE} => a = TRUE
        BY <1>3, <1>4, <1>5
      <3>3. QED
        BY <1>7, <3>2 DEF DropsRenewals
    <2>2. Quietly(r, Answered(r, "unauthorized"))
      BY <1>1, <2>1, AnsweredQuietly
    <2>3. QED
      BY <1>1, <1>7, <2>2
  <1>8. CASE a \/ config.forwardUnauthorized
    <2> HIDE DEF a
    <2>1. s \in Sessions /\ s.id = q.session.id /\ s.at = q.session.at /\ s.rt = q.session.rt /\ s.authorized = a
      BY <1>2, <1>6 DEF Sessions
    <2> HIDE DEF s
    <2>2. s # NoSession /\ Key(s) = Key(q.session)
      BY <1>3, <1>4, <1>5, <2>1, Constants DEF Key
    <2>3. q.kind # "api" => Full(World, s)
      BY <1>2, <1>4, <2>1, WorldIs DEF Full
    <2>4. onward \in Places
      BY DEF Places
    <2>5. Became(Moved(r, onward), q, onward, q.session, q.updated, "keep", "none")
      BY <1>1, <1>2, <2>4, Moving
    <2>6. Became(n, q, onward, s, q.updated, "keep", "none")
      BY <2>1, <2>5 DEF Became, Records
    <2>7. Goto(r, n)
      BY <1>1, <1>8
    <2> HIDE DEF n
    <2>8. Passes(World, n)
      BY <1>4, <1>8, <2>1, <2>6, WorldIs DEF Passes, Became, Checked
    <2>9. onward \in {"store", "forward"} /\ (q.updated <=> onward = "store")
      BY <1>2
    <2>10. /\ n.kind = q.kind /\ n.ticket = q.ticket /\ n.pc = onward /\ n.session = s /\ n.updated = q.updated
           /\ n.cookie = "keep" /\ n.outcome = "none" /\ n \in Records
      BY <2>6 DEF Became
    <2> HIDE DEF onward
    <2>11. Right(World, n)
      <3>1. n.kind = "api" => /\ n.pc = "forward" /\ n.session.id = 0 /\ n.session.rt = 0 /\ ~n.updated
                              /\ n.ticket = NoSession /\ n.session.at \in Issued
        BY <1>1, <1>2, <2>1, <2>9, <2>10 DEF Right
      <3>2. TicketRight(World, n.ticket)
        BY <1>1, <2>10 DEF Right
      <3>3. QED
        BY <1>1, <2>1, <2>2, <2>3, <2>8, <2>9, <2>10, <3>1, <3>2, WorldIs DEF Right
    <2>12. /\ Brings(World, q) => Brings(World, n)
           /\ Carrying(World, n) => Carrying(World, q)
      BY <1>1, <1>2, <2>9, <2>10 DEF Brings, Carrying
    <2>13. Quietly(r, n)
      BY <1>1, <2>1, <2>2, <2>10, <2>11, <2>12 DEF Quietly, Continues, Refusal
    <2>14. QED
      BY <2>7, <2>13
  <1>9. QED
    BY <1>6, <1>7, <1>8

\* The request goes to the upstream service.
LEMMA ForwardedQuietly ==
  ASSUME IInv, NEW r \in Requests, Forward(r)
  PROVE  \E n : Quietly(r, n) /\ Goto(r, n)
  <1> DEFINE q == req[r]
             n == Answered(r, "forwarded")
  <1>1. /\ q \in Records /\ Right(World, q) /\ q.pc = "forward"
        /\ config.storage = "server" => q.session.id \notin final
        /\ Goto(r, IF q.outcome = "error" THEN Moved(r, "respond") ELSE n)
    BY OfRequest DEF Forward, At
  <1>2. CASE q.outcome = "error"
    <2>1. Quietly(r, Moved(r, "respond"))
      BY <1>1, <1>2, MovedQuietly
    <2>2. QED
      BY <1>1, <1>2, <2>1
  <1>3. CASE q.outcome # "error"
    <2>1. "forwarded" \in Outcomes
      BY DEF Outcomes
    <2>2. Became(n, q, "respond", q.session, q.updated, q.cookie, "forwarded")
      BY <1>1, <2>1, Answering
    <2>3. Goto(r, n)
      BY <1>1, <1>3
    <2> HIDE DEF n
    <2>4. n.session # NoSession => Passes(World, n)
      BY <1>1, <2>2 DEF Right, Passes, Became
    <2>5. Right(World, n)
      BY <1>1, <2>2, <2>4 DEF Right, Became
    <2>6. /\ Brings(World, q) => Brings(World, n)
          /\ Carrying(World, n) => Carrying(World, q)
      BY <1>1, <2>2 DEF Carrying, Brings, Became
    <2>7. Reliable /\ Refusal(n) /\ n.ticket # NoSession => Over(n.ticket.id)
      BY <2>2, OfRequest DEF Refusal, Became
    <2>8. Quietly(r, n)
      BY <1>1, <2>2, <2>5, <2>6, <2>7 DEF Quietly, Continues, Became
    <2>9. QED
      BY <2>3, <2>8
  <1>4. QED
    BY <1>2, <1>3

\* A request whose session has been stored, in the cookie that its response sets.
LEMMA StoredContinues ==
  ASSUME IInv, NEW r \in Requests, NEW n, req[r].pc \in {"store", "finish"},
         LET q == req[r] IN
         \/ /\ q.pc = "store"
            /\ Became(n, q, "forward", q.session, q.updated, "set", q.outcome)
         \/ /\ q.pc = "finish"
            /\ \E o \in {"loggedIn", "forwarded", "unauthorized"} :
                 /\ Became(n, q, "respond", q.session, q.updated, "set", o)
                 /\ o = "forwarded" => config.forwardUnauthorized
  PROVE  /\ Continues(r, n) /\ n.cookie = "set" /\ n.session = req[r].session
         /\ n.ticket = req[r].ticket /\ n.outcome # "unauthenticated"
         /\ n.pc \in {"forward", "respond"} /\ n.outcome # "error"
  <1> DEFINE q == req[r]
  <1>1. /\ q \in Records /\ Right(World, q)
        /\ config.storage = "server" => q.session.id \notin final
    BY OfRequest
  <1>2. q.session # NoSession /\ q.kind # "api" /\ q.outcome = "none"
    BY <1>1 DEF Right
  <1>3. /\ n \in Records /\ n.kind = q.kind /\ n.ticket = q.ticket /\ n.session = q.session
        /\ n.updated = q.updated /\ n.cookie = "set" /\ n.pc \in {"forward", "respond"}
        /\ n.pc = "forward" => n.outcome = "none" /\ q.pc = "store"
        /\ n.outcome \in {"none", "loggedIn", "forwarded", "unauthorized"}
        /\ n.outcome = "forwarded" => config.forwardUnauthorized
    BY <1>2 DEF Became
  <1>4. n.pc = "forward" \/ n.outcome = "forwarded" => Passes(World, n)
    BY <1>1, <1>2, <1>3, WorldIs DEF Right, Passes
  <1>5. Right(World, n)
    <2>1. TicketRight(World, n.ticket) /\ (q.session = NoSession \/ Full(World, q.session))
      BY <1>1, <1>2, <1>3 DEF Right
    <2>2. QED
      BY <1>1, <1>2, <1>3, <1>4, <2>1 DEF Right
  <1>6. Carrying(World, q)
    BY DEF Carrying, Brings
  <1>7. QED
    BY <1>1, <1>3, <1>5, <1>6 DEF Continues

\* A request whose session could not be stored, and that is forwarded all the same.
LEMMA StoreFailsQuietly ==
  ASSUME IInv, NEW r \in Requests,
         \/ StoreFails(r)
         \/ FinishLoginFails(r) /\ config.forwardUnauthorized /\ ~req[r].session.authorized
  PROVE  \E n : Quietly(r, n) /\ Goto(r, n)
  <1> DEFINE q == req[r]
             n == [Moved(r, "forward") EXCEPT !.outcome = "error"]
  <1>1. /\ q \in Records /\ Right(World, q) /\ q.pc \in {"store", "finish"}
        /\ q.pc = "finish" => config.forwardUnauthorized
        /\ DropsRenewals /\ config.storage = "server" => q.session.id \notin final
        /\ DropsRenewals /\ Goto(r, n)
    BY OfRequest DEF StoreFails, FinishLoginFails, At, DropsRenewals
  <1>2. q.session # NoSession /\ q.kind # "api" /\ q.cookie = "keep"
    BY <1>1 DEF Right
  <1>3. "forward" \in Places /\ "error" \in Outcomes
    BY DEF Places, Outcomes
  <1>4. Became(Moved(r, "forward"), q, "forward", q.session, q.updated, q.cookie, q.outcome)
    BY <1>1, <1>3, Moving
  <1>5. Became(n, q, "forward", q.session, q.updated, "keep", "error")
    BY <1>2, <1>3, <1>4 DEF Became, Records
  <1> HIDE DEF n
  <1>6. Passes(World, n)
    BY <1>1, <1>2, <1>5, WorldIs DEF Right, Passes, Became
  <1>7. Right(World, n)
    BY <1>1, <1>2, <1>5, <1>6 DEF Right, Became
  <1>8. ~Carrying(World, n) /\ ~Refusal(n)
    BY <1>5 DEF Carrying, Brings, Became, Refusal
  <1>9. QED
    BY <1>1, <1>5, <1>7, <1>8 DEF Quietly, Continues, Became

\* handleLogout's response, and a request that has been answered.
LEMMA LoggedOutContinues ==
  ASSUME IInv, NEW r \in Requests, req[r].pc = "authorize", req[r].kind = "logout"
  PROVE  Continues(r, [Answered(r, "loggedOut") EXCEPT !.cookie = "clear", !.session = NoSession])
  <1> DEFINE q == req[r]
             n == [Answered(r, "loggedOut") EXCEPT !.cookie = "clear", !.session = NoSession]
  <1>1. q \in Records /\ Right(World, q) /\ 0 \notin final
    BY OfRequest
  <1>2. "loggedOut" \in Outcomes
    BY DEF Outcomes
  <1>3. Became(Answered(r, "loggedOut"), q, "respond", q.session, q.updated, q.cookie, "loggedOut")
    BY <1>1, <1>2, Answering
  <1>4. Became(n, q, "respond", NoSession, q.updated, "clear", "loggedOut")
    BY <1>3, Constants DEF Became, Records
  <1> HIDE DEF n
  <1>5. Right(World, n)
    BY <1>1, <1>4, Constants DEF Right, Became
  <1>6. ~Carrying(World, n)
    BY <1>4 DEF Carrying, Brings, Became
  <1>7. Continues(r, n)
    BY <1>1, <1>4, <1>5, <1>6, Constants DEF Continues, Became
  <1>8. QED
    BY <1>7 DEF n

\* A request that has been answered.
LEMMA IdleContinues ==
  ASSUME IInv, NEW r \in Requests
  PROVE  Continues(r, Idle)
  <1>1. Right(World, Idle) /\ ~Carrying(World, Idle)
    BY IdleIs DEF Right, TicketRight, Carrying, Brings
  <1>2. QED
    BY <1>1, IdleIs, Constants, OfRequest DEF Continues

\* The requests that arrive.
LEMMA ArrivalsQuietly ==
  ASSUME IInv, NEW r \in Requests,
         \/ \E kind \in config.kinds, public \in {FALSE, config.bypass} : Arrive(r, kind, public)
         \/ \E public \in {FALSE, config.bypass} : ArriveWithToken(r, public)
         \/ ArriveAtCallback(r) \/ ArriveAfterLogout(r)
  PROVE  \E n : Quietly(r, n) /\ Goto(r, n)
  <1>0. /\ config.bypass \in BOOLEAN /\ jar \in Sessions
        /\ {"load", "validate", "exchange", "respond"} \subseteq Places /\ "loggedOut" \in Outcomes
    BY Configured DEF IInv, TypeOK, Places, Outcomes
  <1>1. ASSUME NEW kind \in config.kinds, NEW public \in {FALSE, config.bypass}, Arrive(r, kind, public)
        PROVE  \E n : Quietly(r, n) /\ Goto(r, n)
    <2> DEFINE n == [Idle EXCEPT !.pc = "load", !.kind = kind, !.public = public, !.ticket = jar]
    <2>1. req[r].pc = "idle" /\ kind \in {"page", "logout"} /\ Goto(r, n)
      BY <1>1 DEF Arrive, At
    <2>2. /\ n \in Records /\ n.updated = FALSE /\ n.cookie = "keep" /\ n.pc = "load" /\ n.kind = kind
          /\ n.session = NoSession /\ n.ticket = jar /\ n.outcome = "none"
      BY <1>0, <2>1, IdleIs DEF Records
    <2> HIDE DEF n
    <2>3. Quietly(r, n)
      BY <2>1, <2>2, ArrivedQuietly
    <2>4. QED
      BY <2>1, <2>3
  <1>2. ASSUME NEW public \in {FALSE, config.bypass}, ArriveWithToken(r, public)
        PROVE  \E n : Quietly(r, n) /\ Goto(r, n)
    <2>1. PICK m \in Issued :
            Goto(r, [Idle EXCEPT !.pc = "validate", !.kind = "api", !.public = public,
                                 !.session = [NoSession EXCEPT !.at = m]])
      BY <1>2 DEF ArriveWithToken
    <2> DEFINE s == [NoSession EXCEPT !.at = m]
               n == [Idle EXCEPT !.pc = "validate", !.kind = "api", !.public = public, !.session = s]
    <2>2. req[r].pc = "idle" /\ Goto(r, n)
      BY <1>2, <2>1 DEF ArriveWithToken, At
    <2>3. m \in 0..MaxTokens /\ m # 0
      BY Constants DEF Issued
    <2>4. s \in Sessions /\ s.id = 0 /\ s.rt = 0 /\ s.at = m
      BY <2>3, Constants DEF Sessions
    <2> HIDE DEF s
    <2>5. /\ n \in Records /\ n.updated = FALSE /\ n.cookie = "keep" /\ n.pc = "validate" /\ n.kind = "api"
          /\ n.session = s /\ n.ticket = NoSession /\ n.outcome = "none"
      BY <1>0, <2>4, IdleIs DEF Records
    <2> HIDE DEF n
    <2>6. s # NoSession
      BY <2>3, <2>4, Constants
    <2>7. Quietly(r, n)
      BY <2>2, <2>4, <2>5, <2>6, ArrivedQuietly
    <2>8. QED
      BY <2>2, <2>7
  <1>3. ASSUME ArriveAtCallback(r)
        PROVE  \E n : Quietly(r, n) /\ Goto(r, n)
    <2> DEFINE n == [Idle EXCEPT !.pc = "exchange", !.kind = "login", !.ticket = jar]
    <2>1. req[r].pc = "idle" /\ Goto(r, n)
      BY <1>3 DEF ArriveAtCallback, At
    <2>2. /\ n \in Records /\ n.updated = FALSE /\ n.cookie = "keep" /\ n.pc = "exchange" /\ n.kind = "login"
          /\ n.session = NoSession /\ n.ticket = jar /\ n.outcome = "none"
      BY <1>0, IdleIs DEF Records
    <2> HIDE DEF n
    <2>3. Quietly(r, n)
      BY <2>1, <2>2, ArrivedQuietly
    <2>4. QED
      BY <2>1, <2>3
  <1>4. ASSUME ArriveAfterLogout(r)
        PROVE  \E n : Quietly(r, n) /\ Goto(r, n)
    <2> DEFINE n == [Idle EXCEPT !.pc = "respond", !.kind = "postLogout", !.ticket = jar,
                                 !.cookie = "clear", !.outcome = "loggedOut"]
    <2>1. req[r].pc = "idle" /\ Goto(r, n)
      BY <1>4 DEF ArriveAfterLogout, At
    <2>2. /\ n \in Records /\ n.updated = FALSE /\ n.cookie = "clear" /\ n.pc = "respond"
          /\ n.kind = "postLogout" /\ n.session = NoSession /\ n.ticket = jar /\ n.outcome = "loggedOut"
      BY <1>0, IdleIs DEF Records
    <2> HIDE DEF n
    <2>3. Quietly(r, n)
      BY <2>1, <2>2, ArrivedQuietly
    <2>4. QED
      BY <2>1, <2>3
  <1>5. QED
    BY <1>1, <1>2, <1>3, <1>4

(***************************************************************************)
(* What a step of one request keeps that issues no token.                  *)
(***************************************************************************)
LEMMA RightOfStep ==
  ASSUME IInv, NEW r \in Requests, NEW n, Continues(r, n), Goto(r, n),
         UNCHANGED <<config, age, entitled, usable>>,
         store' \in [Tokens -> Sessions], jar' \in Sessions, TicketRight(World, jar'),
         \A i \in Tokens : store'[i] # store[i] =>
           \/ store'[i] = NoSession
           \/ config.storage = "server" /\ Full(World, store'[i]) /\ store'[i].id = i,
         ended' \subseteq Tokens, final' \subseteq ended'
  PROVE  TypeOK' /\ TokensAgree' /\ AllRight'
  <1>1. World' = World
    BY DEF World
  <1>2. n \in Records /\ Right(World, n) /\ req \in [Requests -> Records]
    BY Typed DEF Continues, IInv
  <1>3. req' = [req EXCEPT ![r] = n]
    BY DEF Goto
  <1>4. req' \in [Requests -> Records] /\ \A q \in Requests : Right(World, req'[q])
    BY <1>2, <1>3 DEF IInv, AllRight
  <1>5. TypeOK'
    <2>1. TypeOK
      BY DEF IInv
    <2>2. QED
      BY <1>4, <2>1 DEF TypeOK, Records, Places, Outcomes
  <1>6. TokensAgree'
    BY DEF IInv, TokensAgree, Issued
  <1>7. AllRight'
    <2>1. \A i \in Tokens : \/ store'[i] = NoSession
                            \/ config.storage = "server" /\ Full(World, store'[i]) /\ store'[i].id = i
      BY DEF IInv, AllRight
    <2>2. QED
      BY <1>1, <1>4, <2>1 DEF AllRight
  <1>8. QED
    BY <1>5, <1>6, <1>7

\* Keys that tell nothing.
Harmless(k) == k.id = 0 \/ (k.at = 0 /\ k.rt = 0)

\* A session's key.
LEMMA KeyIs ==
  /\ \A s : Key(s).id = s.id /\ Key(s).at = s.at /\ Key(s).rt = s.rt
  /\ Harmless(Key(NoSession))
  BY Constants DEF Key, Harmless

\* Who carries tokens has a session with them.
LEMMA CarryingIsFull ==
  ASSUME NEW w, NEW q, Right(w, q), Carrying(w, q)
  PROVE  q.session # NoSession /\ Full(w, q.session) /\ q.kind # "api"
  BY DEF Right, Carrying, Brings

\* Keys that only move, or become harmless, keep the order.
LEMMA OrderKept ==
  ASSUME IInv, UNCHANGED <<config, usable>>,
         \A k \in Held' : k \in Held \/ Harmless(k),
         \A q \in Requests : Carrying(World', req'[q]) =>
           /\ Carrying(World, req[q]) /\ Key(req'[q].session) = Key(req[q].session)
           /\ \A k \in Elsewhere(q)' : k \in Elsewhere(q) \/ Harmless(k)
  PROVE  Ordered'
  <1>1. SUFFICES ASSUME config.refreshTokens # "reusable"
                 PROVE  /\ \A k, l \in Held' : k.id # 0 /\ k.id = l.id /\ k.at < l.at => k.rt \notin usable
                        /\ \A k, l \in Held' : k.id # 0 /\ l.id # 0 /\ k.at # 0 /\ k.at = l.at => k.id = l.id
                        /\ \A q \in Requests : Carrying(World', req'[q]) =>
                             /\ config.refreshTokens = "rotating" => req'[q].session.rt \in usable
                             /\ \A k \in Elsewhere(q)' : k.id = req'[q].session.id => k.at < req'[q].session.at
    BY DEF Ordered
  <1>2. /\ 0 \notin usable /\ usable \subseteq Tokens
    BY Constants DEF IInv, TypeOK
  <1>3. \A k \in Held : k.at \in Nat
    BY Typed, Constants, KeyIs DEF IInv, Held, Kept, Records
  <1>4. /\ \A k, l \in Held : k.id # 0 /\ k.id = l.id /\ k.at < l.at => k.rt \notin usable
        /\ \A k, l \in Held : k.id # 0 /\ l.id # 0 /\ k.at # 0 /\ k.at = l.at => k.id = l.id
        /\ \A q \in Requests : Carrying(World, req[q]) =>
             /\ config.refreshTokens = "rotating" => req[q].session.rt \in usable
             /\ \A k \in Elsewhere(q) : k.id = req[q].session.id => k.at < req[q].session.at
    BY <1>1 DEF IInv, Ordered
  <1>5. ASSUME NEW k \in Held', NEW l \in Held', k.id # 0, k.id = l.id, k.at < l.at
        PROVE  k.rt \notin usable
    <2>1. CASE Harmless(k)
      BY <1>2, <1>5, <2>1 DEF Harmless
    <2>2. CASE ~Harmless(k)
      <3>1. k \in Held
        BY <2>2
      <3>2. l \in Held
        <4>1. ~Harmless(l)
          BY <1>3, <1>5, <3>1 DEF Harmless
        <4>2. QED
          BY <4>1
      <3>3. QED
        BY <1>4, <1>5, <3>1, <3>2
    <2>3. QED
      BY <2>1, <2>2
  <1>6. ASSUME NEW k \in Held', NEW l \in Held', k.id # 0, l.id # 0, k.at # 0, k.at = l.at
        PROVE  k.id = l.id
    <2>1. ~Harmless(k) /\ ~Harmless(l)
      BY <1>6 DEF Harmless
    <2>2. QED
      BY <1>4, <1>6, <2>1
  <1>7. ASSUME NEW q \in Requests, Carrying(World', req'[q])
        PROVE  /\ config.refreshTokens = "rotating" => req'[q].session.rt \in usable
               /\ \A k \in Elsewhere(q)' : k.id = req'[q].session.id => k.at < req'[q].session.at
    <2>1. /\ Carrying(World, req[q])
          /\ req'[q].session.rt = req[q].session.rt /\ req'[q].session.at = req[q].session.at
          /\ req'[q].session.id = req[q].session.id
      BY <1>7, KeyIs
    <2>2. Full(World, req[q].session)
      BY <2>1, CarryingIsFull DEF IInv, AllRight
    <2>3. req[q].session.id # 0 /\ req[q].session.at \in Nat /\ req[q].session.at > 0
      <3>1. req[q].session.id \in Tokens /\ req[q].session.at \in Tokens
        BY <2>2, WorldIs DEF Full, Issued
      <3>2. QED
        BY <3>1, Constants
    <2>4. ASSUME NEW k \in Elsewhere(q)', k.id = req'[q].session.id
          PROVE  k.at < req'[q].session.at
      <3>1. k \in Elsewhere(q) \/ Harmless(k)
        BY <1>7
      <3>2. CASE k \in Elsewhere(q)
        BY <1>4, <2>1, <2>4, <3>2
      <3>3. CASE Harmless(k)
        BY <2>1, <2>3, <2>4, <3>3 DEF Harmless
      <3>4. QED
        BY <3>1, <3>2, <3>3
    <2>5. QED
      BY <1>4, <2>1, <2>4
  <1>8. QED
    BY <1>5, <1>6, <1>7

\* One request moves keys: its own to storage and cookie, or theirs to itself.
LEMMA OrderOfStep ==
  ASSUME IInv, NEW r \in Requests, NEW n, Continues(r, n), Goto(r, n),
         UNCHANGED <<config, usable>>,
         \A i \in Tokens : \/ store'[i] = store[i] \/ Harmless(Key(store'[i]))
                           \/ Key(store'[i]) = Key(req[r].session) /\ ~Carrying(World, n),
         \/ jar' = jar \/ Harmless(Key(jar'))
         \/ Key(jar') = Key(req[r].session) /\ ~Carrying(World, n)
  PROVE  Ordered'
  <1>1. /\ req' = [req EXCEPT ![r] = n] /\ req \in [Requests -> Records]
        /\ n.ticket \in {req[r].ticket, jar, NoSession}
        /\ n.session.id = 0 \/ Key(n.session) \in Kept \cup {Key(req[r].session)}
        /\ Carrying(World, n) => Carrying(World, req[r]) /\ Key(n.session) = Key(req[r].session)
    BY Typed DEF Goto, Continues, IInv
  <1>2. req'[r] = n /\ \A q \in Requests \ {r} : req'[q] = req[q]
    BY <1>1
  <1>3. \A q : Carrying(World', q) <=> Carrying(World, q)
    BY WorldIs DEF Carrying, Brings, World
  <1>4. Held = Kept \cup {Key(req[q].session) : q \in Requests}
    BY DEF Held
  <1>5. ASSUME NEW k \in Kept'
        PROVE  \/ k \in Kept \/ Harmless(k)
               \/ k = Key(req[r].session) /\ ~Carrying(World, n)
    <2>1. CASE \E i \in Tokens : k = Key(store'[i])
      BY <2>1 DEF Kept
    <2>2. CASE k = Key(jar')
      BY <2>2 DEF Kept
    <2>3. CASE \E q \in Requests : k = Key(req'[q].ticket)
      <3>1. PICK q \in Requests : k = Key(req'[q].ticket)
        BY <2>3
      <3>2. CASE q = r
        BY <1>1, <1>2, <3>1, <3>2, KeyIs DEF Kept
      <3>3. CASE q # r
        BY <1>2, <3>1, <3>3 DEF Kept
      <3>4. QED
        BY <3>2, <3>3
    <2>4. QED
      BY <2>1, <2>2, <2>3 DEF Kept
  <1>6. ASSUME NEW q \in Requests
        PROVE  \/ Key(req'[q].session) \in Kept \cup {Key(req[q].session)}
               \/ Harmless(Key(req'[q].session))
    BY <1>1, <1>2, KeyIs DEF Harmless
  <1>7. ASSUME NEW k \in Held'
        PROVE  k \in Held \/ Harmless(k)
    <2>1. k \in Kept' \/ \E q \in Requests : k = Key(req'[q].session)
      BY DEF Held
    <2>2. QED
      BY <1>4, <1>5, <1>6, <2>1
  <1>8. ASSUME NEW q \in Requests, Carrying(World', req'[q])
        PROVE  /\ Carrying(World, req[q]) /\ Key(req'[q].session) = Key(req[q].session)
               /\ \A k \in Elsewhere(q)' : k \in Elsewhere(q) \/ Harmless(k)
    <2>1. Carrying(World, req[q]) /\ Key(req'[q].session) = Key(req[q].session)
      BY <1>1, <1>2, <1>3, <1>8
    <2>2. ASSUME NEW k \in Elsewhere(q)'
          PROVE  k \in Elsewhere(q) \/ Harmless(k)
      <3>1. /\ k \in Kept' \/ \E p \in Requests \ {q} : k = Key(req'[p].session)
            /\ Elsewhere(q) = Kept \cup {Key(req[p].session) : p \in Requests \ {q}}
        BY DEF Elsewhere
      <3>2. CASE k \in Kept'
        <4>1. CASE q = r
          BY <1>2, <1>3, <1>5, <1>8, <3>1, <3>2, <4>1
        <4>2. CASE q # r
          BY <1>5, <3>1, <3>2, <4>2
        <4>3. QED
          BY <4>1, <4>2
      <3>3. CASE \E p \in Requests \ {q} : k = Key(req'[p].session)
        BY <1>6, <3>1, <3>3
      <3>4. QED
        BY <3>1, <3>2, <3>3
    <2>3. QED
      BY <2>1, <2>2
  <1>9. QED
    BY <1>7, <1>8, OrderKept

\* Storage and cookie lose only what has been logged out.
LEMMA LeadOfStep ==
  ASSUME IInv, NEW r \in Requests, NEW n, Continues(r, n), Goto(r, n), UNCHANGED <<config, age>>,
         ended \subseteq ended',
         Reliable /\ Refusal(n) /\ n.ticket # NoSession =>
           n.ticket.id \in ended' \/ (config.keptIdToken /\ age[n.ticket.id] = "over"),
         Reliable => \A i \in Tokens : store[i] # NoSession => store'[i] # NoSession \/ i \in ended',
         Reliable /\ config.storage = "server" =>
           /\ jar'.id \in {0, jar.id} \/ (req[r].cookie = "set" /\ jar'.id = req[r].session.id)
           /\ n.cookie = "set" => \/ req[r].cookie = "set" /\ n.session.id = req[r].session.id
                                  \/ store'[n.session.id] # NoSession
  PROVE  TicketsLead'
  <1>1. SUFFICES ASSUME Reliable
                 PROVE  /\ config.storage = "server" =>
                             /\ Alive(jar.id)'
                             /\ \A q \in Requests : /\ Alive(req[q].ticket.id)'
                                                    /\ req'[q].cookie = "set" => Alive(req[q].session.id)'
                        /\ RefusedIsOver'
    BY DEF TicketsLead, Reliable
  <1>2. /\ req' = [req EXCEPT ![r] = n] /\ req \in [Requests -> Records] /\ jar \in Sessions
        /\ n.ticket \in {req[r].ticket, jar, NoSession}
    BY <1>1, Typed DEF Goto, Continues, IInv
  <1>3. req'[r] = n /\ \A q \in Requests \ {r} : req'[q] = req[q]
    BY <1>2
  <1>4. /\ config.storage = "server" =>
             /\ Alive(jar.id)
             /\ \A q \in Requests : /\ Alive(req[q].ticket.id)
                                    /\ req[q].cookie = "set" => Alive(req[q].session.id)
        /\ RefusedIsOver
    BY <1>1 DEF IInv, TicketsLead
  <1>5. /\ jar.id \in 0..MaxTokens
        /\ \A q \in Requests : req[q].ticket.id \in 0..MaxTokens /\ req[q].session.id \in 0..MaxTokens
    BY <1>2, Constants DEF Records
  <1> DEFINE Lives(i) == i = 0 \/ store'[i] # NoSession \/ i \in ended'
  <1>6. \A i \in 0..MaxTokens : Alive(i) => Lives(i)
    BY <1>1, Constants DEF Alive
  <1>7. ASSUME config.storage = "server"
        PROVE  /\ Lives(jar'.id)
               /\ \A q \in Requests : /\ Lives(req'[q].ticket.id)
                                      /\ req'[q].cookie = "set" => Lives(req'[q].session.id)
    <2>1. Lives(jar'.id)
      BY <1>1, <1>4, <1>5, <1>6, <1>7
    <2>2. ASSUME NEW q \in Requests
          PROVE  Lives(req'[q].ticket.id)
      <3>1. CASE q = r
        BY <1>2, <1>3, <1>4, <1>5, <1>6, <1>7, <3>1, Constants
      <3>2. CASE q # r
        BY <1>3, <1>4, <1>5, <1>6, <1>7, <3>2
      <3>3. QED
        BY <3>1, <3>2
    <2>3. ASSUME NEW q \in Requests, req'[q].cookie = "set"
          PROVE  Lives(req'[q].session.id)
      <3>1. CASE q = r
        BY <1>1, <1>3, <1>4, <1>5, <1>6, <1>7, <2>3, <3>1
      <3>2. CASE q # r
        BY <1>3, <1>4, <1>5, <1>6, <1>7, <2>3, <3>2
      <3>3. QED
        BY <3>1, <3>2
    <2>4. QED
      BY <2>1, <2>2, <2>3
  <1>8. RefusedIsOver'
    <2>1. ASSUME NEW q \in Requests, Refusal(req'[q]), req'[q].ticket # NoSession
          PROVE  req'[q].ticket.id \in ended' \/ (config.keptIdToken /\ age[req'[q].ticket.id] = "over")
      <3>1. CASE q = r
        BY <1>1, <1>3, <2>1, <3>1
      <3>2. CASE q # r
        BY <1>3, <1>4, <2>1, <3>2 DEF RefusedIsOver, Over
      <3>3. QED
        BY <3>1, <3>2
    <2>2. QED
      BY <2>1 DEF RefusedIsOver, Refusal, Over
  <1>9. QED
    BY <1>7, <1>8 DEF Alive

\* What one request stores are tokens that the provider accepts.
LEMMA ReplacedOfStep ==
  ASSUME IInv, NEW r \in Requests, NEW n, Goto(r, n), UNCHANGED <<config, usable>>,
         ended \subseteq ended',
         ~DropsRenewals /\ config.refreshTokens = "rotating" =>
           /\ \A i \in Tokens \ ended' :
                Current(i)' \in {Current(i), NoSession} \/ Current(i)'.rt \in usable
           /\ Brings(World, req[r]) =>
                \/ Brings(World, n) /\ n.session.id = req[r].session.id
                \/ \A i \in Tokens \ ended' : i = req[r].session.id =>
                      Current(i)' = NoSession \/ Current(i)'.rt \in usable
  PROVE  SpentIsReplaced'
  <1>1. SUFFICES ASSUME ~DropsRenewals, config.refreshTokens = "rotating",
                        NEW i \in Tokens \ ended', Current(i)' # NoSession, Current(i)'.rt \notin usable
                 PROVE  \E q \in Requests : req'[q].session.id = i /\ Brings(World', req'[q])
    <2>1. DropsRenewals' <=> DropsRenewals
      BY DEF DropsRenewals
    <2>2. QED
      BY <2>1 DEF SpentIsReplaced
  <1>2. Current(i)' = Current(i)
    BY <1>1
  <1>3. PICK q \in Requests : req[q].session.id = i /\ Brings(World, req[q])
    BY <1>1, <1>2 DEF IInv, SpentIsReplaced
  <1>4. /\ req' = [req EXCEPT ![r] = n] /\ req \in [Requests -> Records]
        /\ \A p : Brings(World', p) <=> Brings(World, p)
    BY Typed DEF Goto, IInv, World, Brings
  <1>5. CASE q = r
    BY <1>1, <1>3, <1>4, <1>5
  <1>6. CASE q # r
    BY <1>3, <1>4, <1>6
  <1>7. QED
    BY <1>5, <1>6

\* The logouts are known.
LEMMA LogoutsOfStep ==
  ASSUME IInv, NEW r \in Requests, NEW n, Continues(r, n), Goto(r, n),
         UNCHANGED <<config, age, ended, final>>,
         \A i \in final : store'[i] = NoSession
  PROVE  LogoutsAgree'
  <1>1. /\ req' = [req EXCEPT ![r] = n] /\ req \in [Requests -> Records]
        /\ config.storage = "server" => n.session.id \notin final
    BY Typed DEF Goto, Continues, IInv
  <1>2. Issued' = Issued
    BY DEF Issued
  <1>3. config.storage = "server" => \A q \in Requests : req'[q].session.id \notin final
    BY <1>1 DEF IInv, LogoutsAgree
  <1>4. QED
    BY <1>2, <1>3 DEF IInv, LogoutsAgree

\* A quiet step keeps the invariant,
LEMMA QuietKeeps ==
  ASSUME IInv, NEW r \in Requests, NEW n, Quietly(r, n), Goto(r, n),
         UNCHANGED <<config, provider, store, jar, ended, final>>
  PROVE  IInv'
  <1>1. /\ Continues(r, n) /\ UNCHANGED <<config, age, entitled, usable, store, jar, ended, final>>
        /\ TypeOK /\ TicketRight(World, jar)
    BY DEF Quietly, provider, IInv, AllRight
  <1>2. TypeOK' /\ TokensAgree' /\ AllRight'
    BY <1>1, RightOfStep DEF TypeOK
  <1>3. LogoutsAgree'
    BY <1>1, LogoutsOfStep DEF IInv, LogoutsAgree
  <1>4. Ordered'
    BY <1>1, OrderOfStep
  <1>5. TicketsLead'
    <2>1. config.storage = "server" /\ n.cookie = "set" =>
            req[r].cookie = "set" /\ n.session.id = req[r].session.id
      BY DEF Quietly
    <2>2. /\ jar'.id = jar.id /\ UNCHANGED config /\ ended \subseteq ended'
          /\ \A i \in Tokens : store'[i] = store[i]
      BY <1>1
    <2>3. Reliable => \A i \in Tokens : store[i] # NoSession => store'[i] # NoSession \/ i \in ended'
      BY <2>2
    <2>4. Reliable /\ config.storage = "server" =>
           /\ jar'.id \in {0, jar.id} \/ (req[r].cookie = "set" /\ jar'.id = req[r].session.id)
           /\ n.cookie = "set" => \/ req[r].cookie = "set" /\ n.session.id = req[r].session.id
                                  \/ store'[n.session.id] # NoSession
      BY <2>1, <2>2
    <2>5. Reliable /\ Refusal(n) /\ n.ticket # NoSession =>
            n.ticket.id \in ended' \/ (config.keptIdToken /\ age[n.ticket.id] = "over")
      BY <1>1 DEF Quietly, Over
    <2>6. QED
      BY <1>1, <2>2, <2>3, <2>4, <2>5, LeadOfStep
  <1>6. SpentIsReplaced'
    <2>1. \A i \in Tokens : Current(i)' = Current(i)
      BY <1>1 DEF Current
    <2>2. QED
      BY <1>1, <2>1, ReplacedOfStep DEF Quietly
  <1>7. QED
    BY <1>2, <1>3, <1>4, <1>5, <1>6 DEF IInv

\* The steps that change nothing but the request.
QuietStep(r) ==
  \/ \E kind \in config.kinds, public \in {FALSE, config.bypass} : Arrive(r, kind, public)
  \/ \E public \in {FALSE, config.bypass} : ArriveWithToken(r, public)
  \/ ArriveAtCallback(r) \/ ArriveAfterLogout(r)
  \/ Load(r) \/ LoadFails(r) \/ ValidateHeader(r) \/ Validate(r) \/ RenewRefused(r)
  \/ RenewFails(r) /\ UNCHANGED provider
  \/ Revalidate(r) \/ Authorize(r) \/ AttachHeadersFails(r) \/ StoreFails(r) \/ Forward(r)
  \/ Logout(r) /\ "storage" \in config.faults /\ UNCHANGED <<store, ended, final>>
  \/ LogoutRefused(r) \/ ExchangeFails(r) \/ FinishLoginFails(r)

\* and all these steps are quiet.
LEMMA QuietStepsKeep ==
  ASSUME IInv, NEW r \in Requests, QuietStep(r)
  PROVE  IInv'
  <1>1. UNCHANGED <<config, provider, store, jar, ended, final>>
    BY DEF QuietStep, Arrive, ArriveWithToken, ArriveAtCallback, ArriveAfterLogout, Load, LoadFails,
           ValidateHeader, Validate, RenewRefused, RenewFails, Revalidate, Authorize,
           AttachHeadersFails, StoreFails, Forward, Logout, LogoutRefused, ExchangeFails,
           FinishLoginFails, fixed
  <1>2. \E n : Quietly(r, n) /\ Goto(r, n)
    <2>1. CASE \/ \E kind \in config.kinds, public \in {FALSE, config.bypass} : Arrive(r, kind, public)
               \/ \E public \in {FALSE, config.bypass} : ArriveWithToken(r, public)
               \/ ArriveAtCallback(r) \/ ArriveAfterLogout(r)
      BY <2>1, ArrivalsQuietly
    <2>2. CASE Load(r)
      BY <2>2, LoadedQuietly
    <2>3. CASE LoadFails(r)
      <3>1. req[r].pc = "load" /\ ~Reliable /\ Goto(r, Refused(r, TRUE))
        BY <2>3 DEF LoadFails, At, Reliable
      <3>2. QED
        BY <3>1, DeniedQuietly
    <2>4. CASE ValidateHeader(r) \/ Validate(r)
      BY <2>4, ValidatedQuietly
    <2>5. CASE RenewRefused(r) \/ RenewFails(r)
      <3>1. /\ At(r, "renew") /\ Goto(r, Refused(r, TRUE))
            /\ req[r].session.rt \notin usable \/ "provider" \in config.faults
        BY <2>5 DEF RenewRefused, RenewFails
      <3>2. QED
        BY <3>1, RefusedQuietly
    <2>6. CASE Revalidate(r)
      BY <2>6, RevalidatedQuietly
    <2>7. CASE Authorize(r)
      BY <2>7, AuthorizedQuietly
    <2>8. CASE AttachHeadersFails(r) \/ LogoutRefused(r)
      <3>1. req[r].pc = "authorize" /\ DropsRenewals /\ Goto(r, Answered(r, "error"))
        BY <2>8 DEF AttachHeadersFails, LogoutRefused, At, DropsRenewals
      <3>2. QED
        BY <3>1, AnsweredQuietly
    <2>9. CASE StoreFails(r)
      BY <2>9, StoreFailsQuietly
    <2>10. CASE Forward(r)
      BY <2>10, ForwardedQuietly
    <2>11. CASE Logout(r) /\ "storage" \in config.faults
      <3> DEFINE n == [Answered(r, "loggedOut") EXCEPT !.cookie = "clear", !.session = NoSession]
      <3>1. req[r].pc = "authorize" /\ req[r].kind = "logout" /\ Goto(r, n) /\ DropsRenewals
            /\ ~Reliable
        BY <2>11 DEF Logout, At, DropsRenewals, Reliable
      <3>2. Continues(r, n)
        BY <3>1, LoggedOutContinues
      <3>3. n.cookie = "clear"
        <4>1. "loggedOut" \in Outcomes /\ req[r] \in Records
          BY OfRequest DEF Outcomes
        <4>2. Answered(r, "loggedOut") \in Records
          BY <4>1, Answering DEF Became
        <4>3. QED
          BY <4>2 DEF Records
      <3> HIDE DEF n
      <3>4. Quietly(r, n)
        BY <3>1, <3>2, <3>3 DEF Quietly
      <3>5. QED
        BY <3>1, <3>4
    <2>12. CASE ExchangeFails(r) \/ FinishLoginFails(r)
      <3>1. CASE FinishLoginFails(r) /\ config.forwardUnauthorized /\ ~req[r].session.authorized
        BY <3>1, StoreFailsQuietly
      <3>2. CASE ~(FinishLoginFails(r) /\ config.forwardUnauthorized /\ ~req[r].session.authorized)
        <4>1. req[r].pc \in {"exchange", "finish"} /\ DropsRenewals /\ Goto(r, Answered(r, "error"))
          BY <2>12, <3>2 DEF ExchangeFails, FinishLoginFails, At, DropsRenewals
        <4>2. QED
          BY <4>1, AnsweredQuietly
      <3>3. QED
        BY <3>1, <3>2
    <2>13. QED
      BY <2>1, <2>2, <2>3, <2>4, <2>5, <2>6, <2>7, <2>8, <2>9, <2>10, <2>11, <2>12 DEF QuietStep
  <1>3. QED
    BY <1>1, <1>2, QuietKeeps

(***************************************************************************)
(* The steps that store a session, delete it or set the cookie.            *)
(***************************************************************************)
LEMMA StoringKeeps ==
  ASSUME IInv, NEW r \in Requests, Store(r) \/ FinishLogin(r)
  PROVE  IInv'
  <1> DEFINE q == req[r]
             s == q.session
  <1>1. /\ q \in Records /\ Right(World, q) /\ q.pc \in {"store", "finish"} /\ Put(s)
        /\ UNCHANGED <<config, age, entitled, usable, jar, ended, final>>
        /\ config.storage = "server" => s.id \notin final
        /\ TypeOK /\ TicketRight(World, jar)
    BY OfRequest DEF Store, FinishLogin, At, provider, fixed, IInv, AllRight
  <1>2. \E n : Continues(r, n) /\ Goto(r, n) /\ n.cookie = "set" /\ n.session = s
               /\ n.pc \in {"forward", "respond"} /\ ~Refusal(n)
    <2>1. CASE Store(r)
      <3> DEFINE n == [Moved(r, "forward") EXCEPT !.cookie = "set"]
      <3>1. "forward" \in Places /\ Goto(r, n) /\ q.pc = "store"
        BY <2>1 DEF Places, Store, At
      <3>2. Became(Moved(r, "forward"), q, "forward", q.session, q.updated, q.cookie, q.outcome)
        BY <1>1, <3>1, Moving
      <3>3. Became(n, q, "forward", q.session, q.updated, "set", q.outcome)
        BY <3>2 DEF Became, Records
      <3> HIDE DEF n
      <3>4. QED
        BY <3>1, <3>3, StoredContinues DEF Refusal
    <2>2. CASE FinishLogin(r)
      <3> DEFINE o == IF s.authorized THEN "loggedIn"
                      ELSE IF config.forwardUnauthorized THEN "forwarded" ELSE "unauthorized"
                 n == [Answered(r, o) EXCEPT !.cookie = "set"]
      <3>1. Goto(r, n) /\ q.pc = "finish"
        BY <2>2 DEF FinishLogin, At
      <3>2. /\ o \in {"loggedIn", "forwarded", "unauthorized"} /\ o \in Outcomes
            /\ o = "forwarded" => config.forwardUnauthorized
        BY DEF Outcomes
      <3> HIDE DEF o
      <3>3. Became(Answered(r, o), q, "respond", q.session, q.updated, q.cookie, o)
        BY <1>1, <3>2, Answering
      <3>4. Became(n, q, "respond", q.session, q.updated, "set", o)
        BY <3>3 DEF Became, Records
      <3> HIDE DEF n
      <3>5. QED
        BY <3>1, <3>2, <3>4, StoredContinues DEF Refusal
    <2>3. QED
      BY <2>1, <2>2
  <1>3. PICK n : Continues(r, n) /\ Goto(r, n) /\ n.cookie = "set" /\ n.session = s
                 /\ n.pc \in {"forward", "respond"} /\ ~Refusal(n)
    BY <1>2
  <1>4. Carrying(World, q) /\ s # NoSession /\ Full(World, s) /\ s \in Sessions
    BY <1>1, CarryingIsFull DEF Carrying, Brings, Records
  <1>5. s.id \in Tokens /\ config.storage \in {"server", "cookie"}
    BY <1>1, <1>4, WorldIs, Configured DEF Full, Issued
  <1>6. /\ config.storage = "cookie" => store' = store
        /\ config.storage = "server" => store' = [store EXCEPT ![s.id] = s]
    BY <1>1 DEF Put
  <1> HIDE DEF s
  <1>7. /\ store' \in [Tokens -> Sessions]
        /\ \A i \in Tokens : \/ store'[i] = store[i]
                             \/ config.storage = "server" /\ i = s.id /\ store'[i] = s
        /\ config.storage = "server" => store'[s.id] = s
    BY <1>1, <1>4, <1>5, <1>6 DEF TypeOK
  <1>8. TypeOK' /\ TokensAgree' /\ AllRight'
    BY <1>1, <1>3, <1>4, <1>7, RightOfStep DEF TypeOK
  <1>9. LogoutsAgree'
    <2>1. \A i \in final : store'[i] = NoSession
      BY <1>1, <1>7 DEF IInv, LogoutsAgree, TypeOK
    <2>2. QED
      BY <1>1, <1>3, <2>1, LogoutsOfStep
  <1>10. Ordered'
    <2>1. config.storage = "server" => ~Carrying(World, n)
      BY <1>3, WorldIs DEF Carrying, Brings
    <2>2. QED
      BY <1>1, <1>3, <1>7, <2>1, OrderOfStep DEF s
  <1>11. TicketsLead'
    <2>1. \A i \in Tokens : store[i] # NoSession => store'[i] # NoSession \/ i \in ended'
      BY <1>4, <1>7
    <2>2. config.storage = "server" => store'[n.session.id] # NoSession
      BY <1>3, <1>4, <1>7
    <2>3. ended \subseteq ended' /\ jar'.id = jar.id
      BY <1>1
    <2>4. QED
      BY <1>1, <1>3, <2>1, <2>2, <2>3, LeadOfStep
  <1>12. SpentIsReplaced'
    <2>1. config.refreshTokens = "rotating" => s.rt \in usable
      BY <1>4 DEF IInv, Ordered, s
    <2>2. \A i \in Tokens : \/ Current(i)' = Current(i)
                            \/ config.storage = "server" /\ i = s.id /\ Current(i)' = s
      BY <1>1, <1>7 DEF Current
    <2>3. config.storage = "server" => \A i \in Tokens : i = s.id => Current(i)' = s
      BY <1>1, <1>7 DEF Current
    <2>4. config.storage = "cookie" => Brings(World, n)
      BY <1>3, WorldIs DEF Brings
    <2>5. ended \subseteq ended' /\ UNCHANGED <<config, usable>>
      BY <1>1
    <2>6. ~DropsRenewals /\ config.refreshTokens = "rotating" =>
           /\ \A i \in Tokens \ ended' :
                Current(i)' \in {Current(i), NoSession} \/ Current(i)'.rt \in usable
           /\ Brings(World, req[r]) =>
                \/ Brings(World, n) /\ n.session.id = req[r].session.id
                \/ \A i \in Tokens \ ended' : i = req[r].session.id =>
                      Current(i)' = NoSession \/ Current(i)'.rt \in usable
      BY <1>3, <1>5, <2>1, <2>2, <2>3, <2>4 DEF s
    <2>7. QED
      BY <1>3, <2>5, <2>6, ReplacedOfStep
  <1>13. QED
    BY <1>8, <1>9, <1>10, <1>11, <1>12 DEF IInv

\* A logout deletes the session, and its response clears the cookie.
LEMMA LogoutKeeps ==
  ASSUME IInv, NEW r \in Requests, Logout(r), store' = [store EXCEPT ![req[r].session.id] = NoSession],
         ended' = ended \cup {req[r].session.id},
         final' = IF Others(r, req[r].session.id) = {} THEN final \cup {req[r].session.id} ELSE final
  PROVE  IInv'
  <1> DEFINE q == req[r]
             id == q.session.id
             n == [Answered(r, "loggedOut") EXCEPT !.cookie = "clear", !.session = NoSession]
  <1>1. /\ q \in Records /\ Right(World, q) /\ q.pc = "authorize" /\ q.kind = "logout" /\ Goto(r, n)
        /\ UNCHANGED <<config, age, entitled, usable, jar>>
        /\ TypeOK /\ TicketRight(World, jar) /\ LogoutsAgree
    BY OfRequest DEF Logout, At, provider, IInv, AllRight
  <1>2. Continues(r, n)
    BY <1>1, LoggedOutContinues
  <1>3. n.cookie = "clear" /\ n.session = NoSession /\ n.ticket = q.ticket
    <2>1. "loggedOut" \in Outcomes
      BY DEF Outcomes
    <2>2. Answered(r, "loggedOut") \in Records /\ Answered(r, "loggedOut").ticket = q.ticket
      BY <1>1, <2>1, Answering DEF Became
    <2>3. QED
      BY <2>2 DEF Records
  <1> HIDE DEF n
  <1>4. id \in Issued /\ id \in Tokens
    <2>1. q.session # NoSession /\ Full(World, q.session)
      BY <1>1 DEF Right
    <2>2. QED
      BY <2>1, WorldIs DEF Full, Issued
  <1>5. /\ store' \in [Tokens -> Sessions] /\ store'[id] = NoSession
        /\ \A i \in Tokens : i # id => store'[i] = store[i]
        /\ ended' = ended \cup {id} /\ ended' \subseteq Tokens
        /\ final \subseteq final' /\ final' \subseteq ended'
        /\ id \in final' \ final => Others(r, id) = {}
        /\ final' \subseteq final \cup {id}
    BY <1>1, <1>4, Constants DEF TypeOK
  <1>6. TypeOK' /\ TokensAgree' /\ AllRight'
    <2>1. \A i \in Tokens : store'[i] # store[i] => store'[i] = NoSession
      BY <1>5
    <2>2. jar' \in Sessions /\ TicketRight(World, jar')
      BY <1>1 DEF TypeOK
    <2>3. QED
      BY <1>1, <1>2, <1>5, <2>1, <2>2, RightOfStep
  <1>7. LogoutsAgree'
    <2>1. Issued' = Issued
      BY <1>1 DEF Issued
    <2>2. \A i \in final' : store'[i] = NoSession
      BY <1>5 DEF IInv, LogoutsAgree, TypeOK
    <2>3. ASSUME config.storage = "server", NEW p \in Requests
          PROVE  req'[p].session.id \notin final'
      <3>1. req' = [req EXCEPT ![r] = n] /\ req \in [Requests -> Records]
        BY <1>1, Typed DEF Goto
      <3>2. CASE p = r
        BY <1>3, <1>4, <1>5, <3>1, <3>2, Constants DEF TypeOK
      <3>3. CASE p # r
        <4>1. req'[p] = req[p] /\ req[p].session.id \notin final
          BY <1>1, <2>3, <3>1, <3>3 DEF LogoutsAgree
        <4>2. req[p].session.id = id => p \in Others(r, id)
          BY <3>3 DEF Others
        <4>3. QED
          BY <1>5, <4>1, <4>2
      <3>4. QED
        BY <3>2, <3>3
    <2>4. QED
      BY <1>1, <1>4, <1>5, <2>1, <2>2, <2>3 DEF LogoutsAgree
  <1>8. Ordered'
    <2>1. \A i \in Tokens : store'[i] = store[i] \/ Harmless(Key(store'[i]))
      BY <1>5, KeyIs
    <2>2. QED
      BY <1>1, <1>2, <2>1, OrderOfStep
  <1>9. TicketsLead'
    <2>1. \A i \in Tokens : store[i] # NoSession => store'[i] # NoSession \/ i \in ended'
      BY <1>5
    <2>2. ended \subseteq ended' /\ jar'.id = jar.id /\ n.cookie # "set"
      BY <1>1, <1>3, <1>5
    <2>3. n.ticket.id \in ended'
      BY <1>1, <1>3, <1>4, <1>5, Constants DEF Right
    <2>4. QED
      BY <1>1, <1>2, <2>1, <2>2, <2>3, LeadOfStep
  <1>10. SpentIsReplaced'
    <2>1. \A i \in Tokens \ ended' : Current(i)' = Current(i) /\ i # id
      BY <1>1, <1>5 DEF Current
    <2>2. ended \subseteq ended' /\ UNCHANGED <<config, usable>>
      BY <1>1, <1>5
    <2>3. QED
      BY <1>1, <2>1, <2>2, ReplacedOfStep
  <1>11. QED
    BY <1>6, <1>7, <1>8, <1>9, <1>10 DEF IInv

\* The browser takes the cookie of a response.
LEMMA DeliverKeeps ==
  ASSUME IInv, NEW r \in Requests, Deliver(r)
  PROVE  IInv'
  <1> DEFINE q == req[r]
             s == q.session
  <1>1. /\ q \in Records /\ Right(World, q) /\ q.pc = "respond" /\ Goto(r, Idle)
        /\ UNCHANGED <<config, age, entitled, usable, store, ended, final>>
        /\ TypeOK /\ TicketRight(World, jar) /\ Continues(r, Idle)
    BY OfRequest, IdleContinues DEF Deliver, At, provider, fixed, IInv, AllRight
  <1>2. /\ s \in Sessions /\ config.storage \in {"server", "cookie"}
        /\ q.cookie = "set" => s # NoSession /\ Full(World, s)
    BY <1>1, Configured DEF Right, Records
  <1>3. /\ Ticket(s) \in Sessions /\ Ticket(s).id = s.id
        /\ config.storage = "cookie" => Ticket(s) = s
        /\ config.storage = "server" => Ticket(s).at = 0 /\ Ticket(s).rt = 0
    <2>1. s.id \in 0..MaxTokens
      BY <1>2, Constants
    <2>2. LET t == [NoSession EXCEPT !.id = s.id] IN
            t \in Sessions /\ t.id = s.id /\ t.at = 0 /\ t.rt = 0
      BY <2>1, Constants DEF Sessions
    <2>3. QED
      BY <1>2, <2>2 DEF Ticket
  <1>4. \/ q.cookie # "set" /\ jar' \in {jar, NoSession} /\ (q.cookie = "keep" => jar' = jar)
        \/ q.cookie = "set" /\ jar' = Ticket(s)
    BY <1>1 DEF Deliver, Records
  <1>5. q.cookie # "keep" => jar' = NoSession \/ q.cookie = "set"
    BY <1>1 DEF Deliver, Records
  <1> HIDE DEF s
  <1>6. jar' \in Sessions /\ TicketRight(World, jar')
    BY <1>1, <1>2, <1>3, <1>4, WorldIs, Constants DEF TypeOK, TicketRight, Full
  <1>7. TypeOK' /\ TokensAgree' /\ AllRight'
    BY <1>1, <1>6, RightOfStep DEF TypeOK
  <1>8. LogoutsAgree'
    BY <1>1, LogoutsOfStep DEF IInv, LogoutsAgree
  <1>9. Ordered'
    <2>1. ~Carrying(World, Idle)
      BY IdleIs DEF Carrying, Brings
    <2>2. \/ jar' = jar \/ Harmless(Key(jar')) \/ Key(jar') = Key(s)
      BY <1>2, <1>3, <1>4, KeyIs DEF Harmless
    <2>3. QED
      BY <1>1, <2>1, <2>2, OrderOfStep DEF s
  <1>10. TicketsLead'
    <2>1. \/ jar'.id \in {0, jar.id} \/ (req[r].cookie = "set" /\ jar'.id = req[r].session.id)
      BY <1>3, <1>4, Constants DEF s
    <2>2. /\ Idle.cookie # "set" /\ ended \subseteq ended' /\ \A i \in Tokens : store'[i] = store[i]
          /\ ~Refusal(Idle)
      BY <1>1, IdleIs DEF Refusal
    <2>3. QED
      BY <1>1, <2>1, <2>2, LeadOfStep
  <1>11. SpentIsReplaced'
    <2>1. CASE config.storage = "server"
      <3>1. (\A i \in Tokens : Current(i)' = Current(i)) /\ ~Brings(World, q)
        BY <1>1, <2>1, WorldIs DEF Current, Brings
      <3>2. ended \subseteq ended' /\ UNCHANGED <<config, usable>>
        BY <1>1
      <3>3. QED
        BY <1>1, <3>1, <3>2, ReplacedOfStep
    <2>2. CASE config.storage = "cookie"
      <3>1. config.refreshTokens = "rotating" /\ q.cookie = "set" => s.rt \in usable
        BY <2>2, WorldIs DEF IInv, Ordered, Carrying, Brings, s
      <3>2. Brings(World, q) => q.cookie = "set"
        BY <1>1 DEF Brings
      <3>3. \A i \in Tokens : \/ Current(i)' \in {Current(i), NoSession}
                              \/ q.cookie = "set" /\ Current(i)' = s
        BY <1>1, <1>3, <1>4, <2>2, Constants DEF Current
      <3>4. q.cookie = "set" => \A i \in Tokens : Current(i)' = NoSession \/ Current(i)' = s
        BY <1>1, <1>3, <1>4, <2>2 DEF Current
      <3>5. ended \subseteq ended' /\ UNCHANGED <<config, usable>>
        BY <1>1
      <3>6. ~DropsRenewals /\ config.refreshTokens = "rotating" =>
              /\ \A i \in Tokens \ ended' :
                   Current(i)' \in {Current(i), NoSession} \/ Current(i)'.rt \in usable
              /\ Brings(World, req[r]) =>
                   \A i \in Tokens \ ended' : i = req[r].session.id =>
                         Current(i)' = NoSession \/ Current(i)'.rt \in usable
        BY <3>1, <3>2, <3>3, <3>4
      <3>7. QED
        BY <1>1, <3>5, <3>6, ReplacedOfStep
    <2>3. QED
      BY <1>2, <2>1, <2>2
  <1>12. QED
    BY <1>7, <1>8, <1>9, <1>10, <1>11 DEF IInv

\* A session reaches its maximum age.
LEMMA LapseKeeps ==
  ASSUME IInv, NEW i \in Tokens, Lapse(i)
  PROVE  IInv'
  <1>1. /\ UNCHANGED <<config, age, entitled, usable, jar, req, ended, final>>
        /\ store' = [store EXCEPT ![i] = NoSession]
        /\ ~Reliable /\ DropsRenewals /\ TypeOK
    BY DEF Lapse, provider, fixed, Reliable, DropsRenewals, IInv
  <1>2. /\ store' \in [Tokens -> Sessions]
        /\ \A j \in Tokens : store'[j] = NoSession \/ store'[j] = store[j]
    BY <1>1, Constants DEF TypeOK
  <1>3. TypeOK'
    BY <1>1, <1>2 DEF TypeOK
  <1>4. World' = World /\ Issued' = Issued
    BY <1>1 DEF World, Issued
  <1>5. AllRight'
    BY <1>1, <1>2, <1>4 DEF IInv, AllRight
  <1>6. TokensAgree' /\ LogoutsAgree'
    BY <1>1, <1>2, <1>4 DEF IInv, TokensAgree, LogoutsAgree, TypeOK
  <1>7. Ordered'
    <2>1. \A k \in Kept' : k \in Kept \/ Harmless(k)
      BY <1>1, <1>2, KeyIs DEF Kept
    <2>2. /\ \A k \in Held' : k \in Held \/ Harmless(k)
          /\ \A q \in Requests : \A k \in Elsewhere(q)' : k \in Elsewhere(q) \/ Harmless(k)
      BY <1>1, <2>1 DEF Held, Elsewhere
    <2>3. \A q \in Requests : Carrying(World', req'[q]) =>
            Carrying(World, req[q]) /\ Key(req'[q].session) = Key(req[q].session)
      BY <1>1, <1>4
    <2>4. QED
      BY <1>1, <2>2, <2>3, OrderKept
  <1>8. TicketsLead' /\ SpentIsReplaced'
    BY <1>1 DEF TicketsLead, SpentIsReplaced, Reliable, DropsRenewals
  <1>9. QED
    BY <1>3, <1>5, <1>6, <1>7, <1>8 DEF IInv

\* A token grows old; the one that was just renewed does not.
LEMMA AgeKeeps ==
  ASSUME IInv, NEW m \in Tokens, Age(m)
  PROVE  IInv'
  <1>1. /\ UNCHANGED <<config, entitled, usable, store, jar, req, ended, final>>
        /\ age[m] \in {"fresh", "stale"} /\ TypeOK
        /\ config.introspection \/ \A r \in Requests : req[r].pc = "revalidate" => req[r].session.at # m
    BY DEF Age, fixed, IInv
  <1>2. PICK later \in {"stale", "over"} : age' = [age EXCEPT ![m] = later]
    BY DEF Age
  <1>3. /\ age' \in [Tokens -> {"none", "fresh", "stale", "over"}]
        /\ \A i \in Tokens : i # m => age'[i] = age[i]
        /\ age'[m] # "none"
    BY <1>1, <1>2 DEF TypeOK
  <1>4. TypeOK' /\ Issued' = Issued
    BY <1>1, <1>3 DEF TypeOK, Issued
  <1>5. TokensAgree' /\ LogoutsAgree'
    BY <1>1, <1>4 DEF IInv, TokensAgree, LogoutsAgree
  <1>6. Grows(World, World')
    <2>1. World'.config = config /\ World'.entitled = entitled /\ World'.usable = usable /\ World'.age = age'
      BY <1>1 DEF World
    <2>2. IssuedIn(World') = Issued'
      BY <2>1 DEF IssuedIn, Issued
    <2>3. QED
      BY <1>4, <2>1, <2>2, WorldIs DEF Grows
  <1>7. AllRight'
    <2>1. ASSUME NEW r \in Requests
          PROVE  Right(World', req[r])
      <3>1. Right(World, req[r])
        BY DEF IInv, AllRight
      <3>2. req[r].pc = "revalidate" /\ ~World.config.introspection /\ ~World.config.keptIdToken =>
              World'.age[req[r].session.at] \in {"fresh", "stale"}
        <4>1. SUFFICES ASSUME req[r].pc = "revalidate", ~config.introspection, ~config.keptIdToken
                       PROVE  age'[req[r].session.at] \in {"fresh", "stale"}
          BY WorldIs DEF World
        <4>2. Full(World, req[r].session) /\ age[req[r].session.at] \in {"fresh", "stale"}
          BY <3>1, <4>1, WorldIs DEF Right
        <4>3. req[r].session.at \in Tokens /\ req[r].session.at # m
          BY <1>1, <4>1, <4>2, WorldIs DEF Full, Issued
        <4>4. QED
          BY <1>3, <4>2, <4>3
      <3>3. QED
        BY <1>6, <3>1, <3>2, StaysRight
    <2>2. TicketRight(World', jar)
      BY <1>6, StaysFull DEF IInv, AllRight
    <2>3. \A i \in Tokens : \/ store[i] = NoSession
                            \/ config.storage = "server" /\ Full(World', store[i]) /\ store[i].id = i
      BY <1>6, StaysFull DEF IInv, AllRight
    <2>4. QED
      BY <1>1, <2>1, <2>2, <2>3 DEF AllRight
  <1>8. Ordered' /\ TicketsLead' /\ SpentIsReplaced'
    <2>1. /\ Held' = Held /\ \A q \in Requests : Elsewhere(q)' = Elsewhere(q)
      BY <1>1 DEF Held, Elsewhere, Kept
    <2>2. \A q : /\ Brings(World', q) <=> Brings(World, q)
                 /\ Carrying(World', q) <=> Carrying(World, q)
      BY <1>1 DEF World, Brings, Carrying
    <2>3. Ordered'
      BY <1>1, <2>1, <2>2 DEF IInv, Ordered
    <2>4. TicketsLead'
      <3>1. Reliable' <=> Reliable
        BY <1>1 DEF Reliable
      <3>2. \A i \in Tokens : Over(i) => Over(i)'
        BY <1>1, <1>3 DEF Over
      <3>3. \A r \in Requests : req[r].ticket # NoSession => req[r].ticket.id \in Tokens
        <4>1. \A r \in Requests : TicketRight(World, req[r].ticket)
          BY DEF IInv, AllRight, Right
        <4>2. QED
          BY <4>1, WorldIs DEF TicketRight, Full, Issued
      <3>4. RefusedIsOver => RefusedIsOver'
        BY <1>1, <3>2, <3>3 DEF RefusedIsOver
      <3>5. QED
        BY <1>1, <3>1, <3>4 DEF IInv, TicketsLead, Alive
    <2>5. SpentIsReplaced'
      BY <1>1, <2>2 DEF IInv, SpentIsReplaced, DropsRenewals, Current
    <2>6. QED
      BY <2>3, <2>4, <2>5
  <1>9. QED
    BY <1>4, <1>5, <1>7, <1>8 DEF IInv

(***************************************************************************)
(* The steps that issue tokens.                                            *)
(***************************************************************************)
LEMMA Issuing ==
  ASSUME IInv, NEW spent, Issue(Fresh, spent), UNCHANGED config
  PROVE  /\ Fresh \in Tokens /\ Fresh \notin Issued /\ Issued' = Issued \cup {Fresh}
         /\ \A i \in Issued : i \in Nat /\ i < Fresh
         /\ TokensAgree' /\ Grows(World, World') /\ 0 \notin usable' /\ usable' \subseteq Tokens
         /\ age' \in [Tokens -> {"none", "fresh", "stale", "over"}] /\ age'[Fresh] = "fresh"
         /\ \A i \in Issued : age'[i] = age[i]
         /\ entitled' \in [Tokens -> BOOLEAN]
  <1> DEFINE f == Fresh
             c == Cardinality(Issued)
  <1>1. /\ f \in Tokens /\ f = c + 1 /\ c \in Nat /\ Issued = 1..c /\ TypeOK
        /\ age' = [age EXCEPT ![f] = "fresh"]
        /\ \E e \in config.entitlements : entitled' = [entitled EXCEPT ![f] = e]
    <2>1. /\ Fresh \in Tokens /\ age' = [age EXCEPT ![Fresh] = "fresh"]
          /\ \E e \in config.entitlements : entitled' = [entitled EXCEPT ![Fresh] = e]
      BY DEF Issue
    <2>2. c \in 0..MaxTokens /\ Issued = 1..c /\ TypeOK
      BY DEF IInv, TokensAgree
    <2>3. c \in Nat
      BY <2>2, MiddlewareAssumption
    <2>4. f = c + 1
      BY DEF Fresh
    <2>5. QED
      BY <2>1, <2>2, <2>3, <2>4
  <1>2. usable' = CASE config.refreshTokens = "rotating" -> (usable \ spent) \cup {f}
                    [] config.refreshTokens = "reusable" -> IF spent = {} THEN usable \cup {f} ELSE usable
                    [] OTHER -> usable
    BY DEF Issue
  <1>3. f \in 1..MaxTokens /\ MaxTokens \in Nat
    BY <1>1, MiddlewareAssumption DEF Tokens
  <1> HIDE DEF f, c
  <1>4. f \notin Issued /\ \A i \in Issued : i \in Nat /\ i < f
    BY <1>1
  <1>5. PICK e \in config.entitlements : entitled' = [entitled EXCEPT ![f] = e]
    BY <1>1
  <1>6. e \in BOOLEAN /\ (config.entitlements = {TRUE} => e = TRUE)
    BY <1>1, <1>5, Configured
  <1>7. /\ age' \in [Tokens -> {"none", "fresh", "stale", "over"}] /\ age'[f] = "fresh"
        /\ \A i \in Tokens \ {f} : age'[i] = age[i]
        /\ entitled' \in [Tokens -> BOOLEAN] /\ entitled'[f] = e
        /\ \A i \in Tokens \ {f} : entitled'[i] = entitled[i]
    BY <1>1, <1>5, <1>6 DEF TypeOK
  <1>8. Issued' = Issued \cup {f} /\ Issued \subseteq Tokens
    BY <1>1, <1>7 DEF Issued
  <1>9. usable' \subseteq Tokens /\ 0 \notin usable'
        /\ (config.refreshTokens = "reusable" => usable \subseteq usable')
    <2>1. usable' \subseteq usable \cup {f} /\ (config.refreshTokens = "reusable" => usable \subseteq usable')
      BY <1>1, <1>2, Configured
    <2>2. QED
      BY <1>1, <2>1, Constants DEF TypeOK
  <1>10. Issued' = 1..Cardinality(Issued') /\ Cardinality(Issued') \in 0..MaxTokens
    <2>1. Issued' = 1..f
      BY <1>1, <1>3, <1>8
    <2>2. Cardinality(1..f) = f
      <3>1. 1 \in Int /\ f \in Int /\ ~(1 > f)
        BY <1>3
      <3>2. Cardinality(1..f) = f - 1 + 1
        BY <3>1, FS_Interval, Zenon
      <3>3. QED
        BY <1>3, <3>2
    <2>3. QED
      BY <1>3, <2>1, <2>2
  <1>11. TokensAgree'
    <2>1. config.entitlements = {TRUE} => \A i \in Issued' : entitled'[i]
      BY <1>6, <1>7, <1>8 DEF IInv, TokensAgree
    <2>2. QED
      BY <1>10, <2>1 DEF TokensAgree
  <1>12. Grows(World, World')
    <2>1. World'.config = config /\ World'.entitled = entitled' /\ World'.usable = usable' /\ World'.age = age'
      BY DEF World
    <2>2. IssuedIn(World') = Issued'
      BY <2>1 DEF IssuedIn, Issued
    <2>3. QED
      BY <1>4, <1>7, <1>8, <1>9, <2>1, <2>2, WorldIs DEF Grows
  <1>13. \A i \in Issued : age'[i] = age[i]
    BY <1>4, <1>7, <1>8
  <1>14. QED
    BY <1>1, <1>4, <1>7, <1>8, <1>9, <1>11, <1>12, <1>13 DEF f

\* Everything stays right, if the request that got the tokens is.
LEMMA RightOfIssue ==
  ASSUME IInv, NEW r \in Requests, NEW n \in Records, NEW spent, Issue(Fresh, spent),
         UNCHANGED <<config, store, jar, ended, final>>, Goto(r, n), Right(World', n)
  PROVE  TypeOK' /\ AllRight'
  <1>1. req' = [req EXCEPT ![r] = n] /\ req \in [Requests -> Records] /\ TypeOK
    BY Typed DEF Goto, IInv
  <1>2. TypeOK'
    <2>1. req' \in [Requests -> Records]
      BY <1>1
    <2>2. QED
      BY <1>1, <2>1, Issuing DEF TypeOK, Records, Places, Outcomes
  <1>3. Grows(World, World')
    BY Issuing
  <1>4. ASSUME NEW q \in Requests
        PROVE  Right(World', req'[q])
    <2>1. CASE q = r
      BY <1>1, <2>1
    <2>2. CASE q # r
      <3>1. req'[q] = req[q] /\ Right(World, req[q])
        BY <1>1, <2>2 DEF IInv, AllRight
      <3>2. req[q].pc = "revalidate" /\ ~World.config.introspection /\ ~World.config.keptIdToken =>
              World'.age[req[q].session.at] \in {"fresh", "stale"}
        <4>1. SUFFICES ASSUME req[q].pc = "revalidate", ~config.introspection, ~config.keptIdToken
                       PROVE  age'[req[q].session.at] \in {"fresh", "stale"}
          BY WorldIs DEF World
        <4>2. Full(World, req[q].session) /\ age[req[q].session.at] \in {"fresh", "stale"}
          BY <3>1, <4>1, WorldIs DEF Right
        <4>3. req[q].session.at \in Issued
          BY <4>2, WorldIs DEF Full
        <4>4. QED
          BY <4>2, <4>3, Issuing
      <3>3. Right(World', req[q])
        BY <1>3, <3>1, <3>2, StaysRight
      <3>4. QED
        BY <3>1, <3>3
    <2>3. QED
      BY <2>1, <2>2
  <1>5. TicketRight(World', jar)
    BY <1>3, StaysFull DEF IInv, AllRight
  <1>6. \A i \in Tokens : \/ store[i] = NoSession
                          \/ config.storage = "server" /\ Full(World', store[i]) /\ store[i].id = i
    BY <1>3, StaysFull DEF IInv, AllRight
  <1>7. AllRight'
    BY <1>4, <1>5, <1>6 DEF AllRight
  <1>8. QED
    BY <1>2, <1>7

\* The keys that are about tokens name issued ones.
LEMMA HeldIsIssued ==
  ASSUME IInv, config.refreshTokens # "reusable", NEW k \in Held, k.id # 0
  PROVE  /\ k.id \in Issued /\ k.at \in Issued \cup {0} /\ k.rt \in Issued \cup {0}
         /\ config.refreshTokens = "none" => k.rt = 0
         /\ config.refreshTokens = "rotating" => k.rt = k.at
  <1>1. \A s : Full(World, s) \/ TicketRight(World, s) =>
          /\ s.id \in Issued \/ s.id = 0
          /\ s.at \in Issued \/ s.at = 0
          /\ s.rt \in Issued \/ s.rt = 0
          /\ config.refreshTokens = "none" => s.rt = 0
          /\ config.refreshTokens = "rotating" => s.rt = s.at
    <2>1. config.refreshTokens \in {"none", "rotating"} /\ Issued \subseteq Tokens
      BY Configured DEF IInv, Issued
    <2>2. QED
      BY <2>1, RightIsIssued, WorldIs
  <1>2. \E s : k = Key(s) /\ (Full(World, s) \/ TicketRight(World, s))
    <2>1. TicketRight(World, NoSession)
      BY DEF TicketRight
    <2>2. CASE \E i \in Tokens : k = Key(store[i])
      BY <2>1, <2>2 DEF IInv, AllRight
    <2>3. CASE k = Key(jar)
      BY <2>3 DEF IInv, AllRight
    <2>4. CASE \E r \in Requests : k = Key(req[r].ticket)
      BY <2>4 DEF IInv, AllRight, Right
    <2>5. CASE \E r \in Requests : k = Key(req[r].session)
      <3>1. PICK r \in Requests : k = Key(req[r].session)
        BY <2>5
      <3>2. Right(World, req[r]) /\ req[r].session.id # 0
        BY <3>1, KeyIs DEF IInv, AllRight
      <3>3. Full(World, req[r].session)
        BY <3>2, Constants DEF Right
      <3>4. QED
        BY <3>1, <3>3
    <2>6. QED
      BY <2>2, <2>3, <2>4, <2>5 DEF Held, Kept
  <1>3. PICK s : k = Key(s) /\ (Full(World, s) \/ TicketRight(World, s))
    BY <1>2
  <1>4. k.id = s.id /\ k.at = s.at /\ k.rt = s.rt
    BY <1>3, KeyIs
  <1>5. QED
    BY <1>1, <1>3, <1>4

\* A renewal spends the latest tokens of the session and brings later ones; a
\* login brings tokens of a session nobody has.
LEMMA OrderOfIssue ==
  ASSUME IInv, NEW r \in Requests, NEW n \in Records, NEW spent, Issue(Fresh, spent),
         UNCHANGED <<config, store, jar>>, Goto(r, n), n.ticket = req[r].ticket,
         \/ spent = {}
         \/ /\ spent = {req[r].session.rt} /\ req[r].session.rt \in usable
            /\ req[r].kind # "api" /\ req[r].session # NoSession,
         \/ n.session.id = 0 /\ ~Carrying(World', n)
         \/ /\ n.session.at = Fresh
            /\ config.refreshTokens = "rotating" => n.session.rt = Fresh
            /\ n.session.id = Fresh \/ (n.session.id = req[r].session.id /\ spent # {})
  PROVE  Ordered'
  <1> DEFINE f == Fresh
             old == Key(req[r].session)
             new == Key(n.session)
  <1>1. SUFFICES ASSUME config.refreshTokens # "reusable"
                 PROVE  /\ \A k, l \in Held' : k.id # 0 /\ k.id = l.id /\ k.at < l.at => k.rt \notin usable'
                        /\ \A k, l \in Held' : k.id # 0 /\ l.id # 0 /\ k.at # 0 /\ k.at = l.at => k.id = l.id
                        /\ \A q \in Requests : Carrying(World', req'[q]) =>
                             /\ config.refreshTokens = "rotating" => req'[q].session.rt \in usable'
                             /\ \A k \in Elsewhere(q)' : k.id = req'[q].session.id => k.at < req'[q].session.at
    BY DEF Ordered
  <1>2. /\ f \in Nat /\ f # 0 /\ f \notin Issued /\ \A i \in Issued : i \in Nat /\ i < f
        /\ 0 \notin usable /\ 0 \notin usable' /\ config.refreshTokens \in {"none", "rotating"}
    BY <1>1, Issuing, Constants, Configured DEF IInv, TypeOK
  <1>3. /\ \A k, l \in Held : k.id # 0 /\ k.id = l.id /\ k.at < l.at => k.rt \notin usable
        /\ \A k, l \in Held : k.id # 0 /\ l.id # 0 /\ k.at # 0 /\ k.at = l.at => k.id = l.id
        /\ \A q \in Requests : Carrying(World, req[q]) =>
             /\ config.refreshTokens = "rotating" => req[q].session.rt \in usable
             /\ \A k \in Elsewhere(q) : k.id = req[q].session.id => k.at < req[q].session.at
    BY <1>1 DEF IInv, Ordered
  <1>4. /\ req' = [req EXCEPT ![r] = n] /\ req \in [Requests -> Records]
        /\ req'[r] = n /\ \A q \in Requests \ {r} : req'[q] = req[q]
    BY Typed DEF Goto, IInv
  <1>5. Kept' = Kept
    <2>1. \A q \in Requests : req'[q].ticket = req[q].ticket
      BY <1>4
    <2>2. {Key(req'[q].ticket) : q \in Requests} = {Key(req[q].ticket) : q \in Requests}
      BY <2>1
    <2>3. {Key(store'[i]) : i \in Tokens} = {Key(store[i]) : i \in Tokens} /\ Key(jar') = Key(jar)
      OBVIOUS
    <2>4. QED
      BY <2>2, <2>3 DEF Kept
  <1>6. ASSUME NEW k \in Held'
        PROVE  k \in Held \/ k = new
    BY <1>4, <1>5 DEF Held
  <1>7. /\ config.refreshTokens = "none" => usable' = usable
        /\ config.refreshTokens = "rotating" => usable' = (usable \ spent) \cup {f}
    BY DEF Issue
  <1>8. /\ old.id = req[r].session.id /\ old.at = req[r].session.at /\ old.rt = req[r].session.rt
        /\ new.id = n.session.id /\ new.at = n.session.at /\ new.rt = n.session.rt
        /\ \A q : Key(req[q].session).id = req[q].session.id /\ Key(req[q].session).at = req[q].session.at
                  /\ Key(req[q].session).rt = req[q].session.rt
    BY KeyIs
  <1>9. old \in Held /\ \A q \in Requests : Key(req[q].session) \in Held /\ Elsewhere(q) \subseteq Held
    BY DEF Held, Elsewhere
  <1>10. spent # {} => /\ config.refreshTokens = "rotating" /\ spent = {old.rt} /\ old.rt \in usable
                       /\ old.id # 0 /\ old.rt = old.at
    <2>1. SUFFICES ASSUME spent # {}
                   PROVE  /\ config.refreshTokens = "rotating" /\ spent = {old.rt} /\ old.rt \in usable
                          /\ old.id # 0 /\ old.rt = old.at
      OBVIOUS
    <2>2. Full(World, req[r].session)
      BY <2>1 DEF IInv, AllRight, Right
    <2>3. old.id \in Issued /\ 0 \notin Issued
      BY <1>8, <2>2, WorldIs, Constants DEF Full, Issued
    <2>4. config.refreshTokens = "none" => old.rt = 0
      BY <1>8, <2>2, WorldIs DEF Full
    <2>5. config.refreshTokens = "rotating" => old.rt = old.at
      BY <1>8, <2>2, WorldIs DEF Full
    <2>6. QED
      BY <1>2, <1>8, <2>1, <2>3, <2>4, <2>5
  <1> HIDE DEF f, old, new
  <1>11. ASSUME NEW k \in Held, k.id # 0
         PROVE  /\ k.id \in Nat /\ k.at \in Nat /\ k.rt \in Nat /\ k.id < f /\ k.at < f /\ k.rt < f
                /\ config.refreshTokens = "none" => k.rt = 0
                /\ config.refreshTokens = "rotating" => k.rt = k.at
    BY <1>1, <1>2, <1>11, HeldIsIssued
  <1>12. \/ new.id = 0
         \/ new.at = f /\ new.id = f
         \/ new.at = f /\ new.id = old.id /\ spent # {}
    BY <1>8 DEF f
  \* Older tokens of the session are spent.
  <1>13. ASSUME NEW k \in Held, k.id # 0, k.rt \in usable, spent # {}, k.id = old.id
         PROVE  k.rt \in spent
    <2>1. ~(k.at < old.at) /\ ~(old.at < k.at)
      BY <1>3, <1>9, <1>10, <1>13
    <2>2. k.at = old.at
      BY <1>9, <1>10, <1>11, <1>13, <2>1
    <2>3. QED
      BY <1>10, <1>11, <1>13, <2>2
  \* Who carries tokens has others than those that are spent.
  <1>14. ASSUME NEW q \in Requests \ {r}, Carrying(World, req[q]), spent # {}
         PROVE  req[q].session.id # old.id /\ req[q].session.rt # old.rt
    <2>1. old \in Elsewhere(q)
      BY DEF Elsewhere, old
    <2>2. req[q].session.id # old.id
      <3>1. SUFFICES ASSUME req[q].session.id = old.id PROVE FALSE
        OBVIOUS
      <3>2. old.at < req[q].session.at
        BY <1>3, <1>14, <2>1, <3>1
      <3>3. old.rt \notin usable
        BY <1>3, <1>8, <1>9, <1>10, <1>14, <3>1, <3>2
      <3>4. QED
        BY <1>10, <1>14, <3>3
    <2>3. req[q].session.id # 0
      <3>1. Full(World, req[q].session)
        BY <1>14, CarryingIsFull DEF IInv, AllRight
      <3>2. QED
        BY <3>1, WorldIs, Constants DEF Full, Issued
    <2>4. req[q].session.rt # old.rt
      <3>1. SUFFICES ASSUME req[q].session.rt = old.rt PROVE FALSE
        OBVIOUS
      <3>2. req[q].session.at = old.at /\ old.at # 0
        BY <1>2, <1>8, <1>9, <1>10, <1>11, <1>14, <2>3, <3>1
      <3>3. req[q].session.id = old.id
        BY <1>3, <1>8, <1>9, <1>10, <1>14, <2>3, <3>2
      <3>4. QED
        BY <2>2, <3>3
    <2>5. QED
      BY <2>2, <2>4
  <1>15. ASSUME NEW k \in Held', NEW l \in Held', k.id # 0, k.id = l.id, k.at < l.at
         PROVE  k.rt \notin usable'
    <2>1. CASE k \in Held
      <3>1. k.rt # f /\ k.at < f
        BY <1>2, <1>11, <1>15, <2>1
      <3>2. CASE l \in Held
        <4>1. k.rt \notin usable
          BY <1>3, <1>15, <2>1, <3>2
        <4>2. QED
          BY <1>2, <1>7, <3>1, <4>1
      <3>3. CASE l = new
        <4>1. new.id # f
          BY <1>2, <1>11, <1>15, <2>1, <3>3
        <4>2. spent # {} /\ k.id = old.id
          BY <1>12, <1>15, <3>3, <4>1
        <4>3. k.rt \in usable => k.rt \in spent
          BY <1>13, <1>15, <2>1, <4>2
        <4>4. QED
          BY <1>7, <1>10, <3>1, <4>2, <4>3
      <3>4. QED
        BY <1>6, <3>2, <3>3
    <2>2. CASE k = new
      <3>1. l = new \/ l \in Held
        BY <1>6
      <3>2. k.at = f
        BY <1>12, <1>15, <2>2
      <3>3. CASE l = new
        BY <1>2, <1>15, <2>2, <3>2, <3>3
      <3>4. CASE l \in Held
        BY <1>2, <1>11, <1>15, <3>2, <3>4
      <3>5. QED
        BY <3>1, <3>3, <3>4
    <2>3. QED
      BY <1>6, <2>1, <2>2
  <1>16. ASSUME NEW k \in Held', NEW l \in Held', k.id # 0, l.id # 0, k.at # 0, k.at = l.at
         PROVE  k.id = l.id
    <2>1. /\ k \in Held \/ (k = new /\ k.at = f)
          /\ l \in Held \/ (l = new /\ l.at = f)
      BY <1>6, <1>12, <1>16
    <2>2. CASE k \in Held /\ l \in Held
      BY <1>3, <1>16, <2>2
    <2>3. CASE k \in Held /\ l = new /\ l.at = f
      BY <1>2, <1>11, <1>16, <2>3
    <2>4. CASE k = new /\ k.at = f /\ l \in Held
      BY <1>2, <1>11, <1>16, <2>4
    <2>5. CASE k = new /\ l = new
      BY <2>5
    <2>6. QED
      BY <2>1, <2>2, <2>3, <2>4, <2>5
  <1>17. ASSUME NEW q \in Requests, Carrying(World', req'[q])
         PROVE  /\ config.refreshTokens = "rotating" => req'[q].session.rt \in usable'
                /\ \A k \in Elsewhere(q)' : k.id = req'[q].session.id => k.at < req'[q].session.at
    <2>1. CASE q = r
      <3>1. req'[q] = n /\ n.session.at = f /\ (config.refreshTokens = "rotating" => n.session.rt = f)
            /\ n.session.id # 0
        BY <1>2, <1>4, <1>10, <1>17, <2>1, <1>8 DEF f
      <3>2. ASSUME NEW k \in Elsewhere(q)', k.id = n.session.id
            PROVE  k.at < f
        <4>1. Elsewhere(q)' = Elsewhere(q)
          BY <1>4, <1>5, <2>1 DEF Elsewhere
        <4>2. QED
          BY <1>9, <1>11, <3>1, <3>2, <4>1
      <3>3. QED
        BY <1>7, <3>1, <3>2
    <2>2. CASE q # r
      <3>1. req'[q] = req[q] /\ Carrying(World, req[q])
        BY <1>4, <1>17, <2>2, WorldIs DEF Carrying, Brings, World
      <3>2. /\ config.refreshTokens = "rotating" => req[q].session.rt \in usable
            /\ \A k \in Elsewhere(q) : k.id = req[q].session.id => k.at < req[q].session.at
        BY <1>3, <3>1
      <3>3. config.refreshTokens = "rotating" => req[q].session.rt \in usable'
        BY <1>7, <1>10, <1>14, <2>2, <3>1, <3>2
      <3>4. req[q].session.id # 0 /\ req[q].session.id # f
        <4>1. Full(World, req[q].session)
          BY <3>1, CarryingIsFull DEF IInv, AllRight
        <4>2. QED
          BY <1>2, <4>1, WorldIs, Constants DEF Full, Issued
      <3>5. ASSUME NEW k \in Elsewhere(q)', k.id = req[q].session.id
            PROVE  k.at < req[q].session.at
        <4>1. k \in Elsewhere(q) \/ k = new
          BY <1>4, <1>5 DEF Elsewhere, new
        <4>2. k # new
          BY <1>12, <1>14, <2>2, <3>1, <3>4, <3>5
        <4>3. QED
          BY <3>2, <3>5, <4>1, <4>2
      <3>6. QED
        BY <3>1, <3>3, <3>5
    <2>3. QED
      BY <2>1, <2>2
  <1>18. QED
    BY <1>15, <1>16, <1>17

\* What else a step keeps that issues tokens.
LEMMA RestOfIssue ==
  ASSUME IInv, NEW r \in Requests, NEW n \in Records, NEW spent, Issue(Fresh, spent),
         UNCHANGED <<config, store, jar, ended, final>>, Goto(r, n), n.ticket = req[r].ticket,
         n.cookie # "set",
         Reliable => ~Refusal(n),
         config.storage = "server" => n.session.id \notin final
  PROVE  LogoutsAgree' /\ TicketsLead'
  <1>1. /\ req' = [req EXCEPT ![r] = n] /\ req \in [Requests -> Records]
        /\ req'[r] = n /\ \A q \in Requests \ {r} : req'[q] = req[q]
    BY Typed DEF Goto, IInv
  <1>2. LogoutsAgree'
    <2>1. Issued \subseteq Issued'
      BY Issuing
    <2>2. config.storage = "server" => \A q \in Requests : req'[q].session.id \notin final
      BY <1>1 DEF IInv, LogoutsAgree
    <2>3. QED
      BY <2>1, <2>2 DEF IInv, LogoutsAgree
  <1>3. TicketsLead'
    <2>1. SUFFICES ASSUME Reliable
                   PROVE  /\ config.storage = "server" =>
                               /\ Alive(jar.id)'
                               /\ \A q \in Requests : /\ Alive(req[q].ticket.id)'
                                                      /\ req'[q].cookie = "set" => Alive(req[q].session.id)'
                          /\ RefusedIsOver'
      BY DEF TicketsLead, Reliable
    <2>2. /\ config.storage = "server" =>
               /\ Alive(jar.id)
               /\ \A q \in Requests : /\ Alive(req[q].ticket.id)
                                      /\ req[q].cookie = "set" => Alive(req[q].session.id)
          /\ RefusedIsOver
      BY <2>1 DEF IInv, TicketsLead
    <2>3. RefusedIsOver'
      <3>1. \A i \in Issued : Over(i) => Over(i)'
        BY Issuing DEF Over
      <3>2. ASSUME NEW q \in Requests, Refusal(req[q])', req'[q].ticket # NoSession
            PROVE  Over(req[q].ticket.id)'
        <4>1. q # r /\ req'[q] = req[q] /\ Refusal(req[q])
          BY <1>1, <2>1, <3>2 DEF Refusal
        <4>2. Over(req[q].ticket.id) /\ TicketRight(World, req[q].ticket)
          BY <2>2, <3>2, <4>1 DEF RefusedIsOver, IInv, AllRight, Right
        <4>3. req[q].ticket.id \in Issued
          BY <3>2, <4>1, <4>2, WorldIs DEF TicketRight, Full
        <4>4. QED
          BY <3>1, <4>1, <4>2, <4>3 DEF Over
      <3>3. QED
        BY <3>2 DEF RefusedIsOver
    <2>4. QED
      BY <1>1, <2>1, <2>2, <2>3 DEF Alive
  <1>4. QED
    BY <1>2, <1>3

\* A login.
LEMMA ExchangeKeeps ==
  ASSUME IInv, NEW r \in Requests, Exchange(r)
  PROVE  IInv'
  <1> DEFINE q == req[r]
             s == [id |-> Fresh, at |-> Fresh,
                   rt |-> IF config.refreshTokens = "none" THEN 0 ELSE Fresh,
                   authorized |-> entitled'[Fresh]]
             n == [Moved(r, "finish") EXCEPT !.session = s]
  <1>1. /\ q \in Records /\ Right(World, q) /\ q.pc = "exchange" /\ Goto(r, n) /\ Issue(Fresh, {})
        /\ UNCHANGED <<config, store, jar, ended, final>> /\ TypeOK
    BY OfRequest DEF Exchange, At, fixed, IInv
  <1>2. q.cookie = "keep" /\ q.outcome = "none" /\ q.updated = FALSE /\ q.kind # "api"
    BY <1>1 DEF Right, Records
  <1>3. /\ Fresh \in Tokens /\ Fresh \notin Issued /\ Issued' = Issued \cup {Fresh}
        /\ entitled' \in [Tokens -> BOOLEAN] /\ Grows(World, World')
    BY <1>1, Issuing
  <1>4. /\ s \in Sessions /\ s.id = Fresh /\ s.at = Fresh /\ s.authorized = entitled'[Fresh]
        /\ s.rt = IF config.refreshTokens = "none" THEN 0 ELSE Fresh
    BY <1>3, Constants DEF Sessions
  <1> HIDE DEF s
  <1>5. "finish" \in Places
    BY DEF Places
  <1>6. Became(Moved(r, "finish"), q, "finish", q.session, FALSE, "keep", "none")
    BY <1>1, <1>2, <1>5, Moving
  <1>7. Became(n, q, "finish", s, FALSE, "keep", "none")
    BY <1>4, <1>6 DEF Became, Records
  <1> HIDE DEF n
  <1>8. s # NoSession /\ Full(World', s)
    <2>1. s # NoSession
      BY <1>3, <1>4, Constants
    <2>2. /\ World'.config = config /\ World'.entitled = entitled' /\ World'.usable = usable'
          /\ IssuedIn(World') = Issued'
      BY <1>1 DEF World, IssuedIn, Issued
    <2>3. config.refreshTokens \in {"reusable", "rotating"} => Fresh \in usable'
      BY <1>1 DEF Issue
    <2>4. QED
      BY <1>3, <1>4, <2>1, <2>2, <2>3 DEF Full
  <1>9. Right(World', n)
    <2>1. TicketRight(World', n.ticket)
      BY <1>1, <1>3, <1>7, StaysFull DEF Right, Became
    <2>2. QED
      BY <1>1, <1>2, <1>7, <1>8, <2>1 DEF Right, Became
  <1>10. n \in Records /\ n.session = s /\ n.ticket = q.ticket /\ n.cookie # "set" /\ n.outcome = "none"
         /\ ~Refusal(n)
    BY <1>7 DEF Became, Refusal
  <1>11. TypeOK' /\ TokensAgree' /\ AllRight'
    BY <1>1, <1>9, <1>10, Issuing, RightOfIssue
  <1>12. LogoutsAgree' /\ TicketsLead'
    <2>1. s.id \notin final
      BY <1>3, <1>4 DEF IInv, LogoutsAgree
    <2>2. QED
      BY <1>1, <1>10, <2>1, RestOfIssue
  <1>13. Ordered'
    BY <1>1, <1>4, <1>10, OrderOfIssue
  <1>14. SpentIsReplaced'
    <2>1. SUFFICES ASSUME ~DropsRenewals, config.refreshTokens = "rotating",
                          NEW i \in Tokens \ ended, Current(i)' # NoSession, Current(i)'.rt \notin usable'
                   PROVE  \E p \in Requests : req'[p].session.id = i /\ Brings(World', req'[p])
      <3>1. DropsRenewals' <=> DropsRenewals
        BY <1>1 DEF DropsRenewals
      <3>2. QED
        BY <1>1, <3>1 DEF SpentIsReplaced
    <2>2. Current(i)' = Current(i) /\ usable \subseteq usable'
      BY <1>1, <2>1 DEF Current, Issue
    <2>3. PICK p \in Requests : req[p].session.id = i /\ Brings(World, req[p])
      BY <2>1, <2>2 DEF IInv, SpentIsReplaced
    <2>4. ~Brings(World, q)
      BY <1>1, <1>2 DEF Brings
    <2>5. req'[p] = req[p]
      BY <1>1, <2>3, <2>4 DEF Goto, TypeOK
    <2>6. QED
      BY <1>1, <2>3, <2>5 DEF Brings, World
  <1>15. QED
    BY <1>11, <1>12, <1>13, <1>14 DEF IInv

\* A renewal whose answer is lost.
LEMMA LostRenewalKeeps ==
  ASSUME IInv, NEW r \in Requests, RenewFails(r), req[r].session.rt \in usable,
         Issue(Fresh, {req[r].session.rt})
  PROVE  IInv'
  <1> DEFINE q == req[r]
             n == Refused(r, TRUE)
  <1>1. /\ q \in Records /\ Right(World, q) /\ q.pc = "renew" /\ Goto(r, n)
        /\ UNCHANGED <<config, store, jar, ended, final>> /\ TypeOK
        /\ DropsRenewals /\ ~Reliable /\ 0 \notin final
    BY OfRequest DEF RenewFails, At, fixed, IInv, DropsRenewals, Reliable
  <1>2. q.kind # "api" /\ q.session # NoSession /\ q.cookie = "keep"
    BY <1>1 DEF Right
  <1>3. Right(World, n) /\ n \in Records
    BY <1>1, RefusedQuietly DEF RenewFails, Quietly, Continues
  <1>4. n.session = NoSession /\ n.pc \in {"forward", "respond"} /\ n.ticket = q.ticket /\ n.cookie # "set"
    BY <1>1, <1>2, Denying DEF Became
  <1> HIDE DEF n
  <1>5. Right(World', n) /\ ~Carrying(World', n)
    <2>1. Grows(World, World')
      BY <1>1, Issuing
    <2>2. QED
      BY <1>3, <1>4, <2>1, StaysRight DEF Carrying, Brings
  <1>6. TypeOK' /\ TokensAgree' /\ AllRight'
    BY <1>1, <1>3, <1>5, Issuing, RightOfIssue
  <1>7. LogoutsAgree' /\ TicketsLead'
    BY <1>1, <1>3, <1>4, Constants, RestOfIssue
  <1>8. Ordered'
    BY <1>1, <1>2, <1>3, <1>4, <1>5, Constants, OrderOfIssue
  <1>9. SpentIsReplaced'
    BY <1>1 DEF SpentIsReplaced, DropsRenewals
  <1>10. QED
    BY <1>6, <1>7, <1>8, <1>9 DEF IInv

\* A renewal.
LEMMA RenewKeeps ==
  ASSUME IInv, NEW r \in Requests, Renew(r)
  PROVE  IInv'
  <1> DEFINE q == req[r]
             f == Fresh
             rt == q.session.rt
             s == [[q.session EXCEPT !.at = f]
                     EXCEPT !.rt = IF config.refreshTokens = "rotating" THEN f ELSE rt]
             n == [Moved(r, "revalidate") EXCEPT
                     !.session.at = f,
                     !.session.rt = IF config.refreshTokens = "rotating" THEN f ELSE rt]
  <1>1. /\ q \in Records /\ Right(World, q) /\ q.pc = "renew" /\ Goto(r, n)
        /\ rt \in usable /\ Issue(f, {rt})
        /\ UNCHANGED <<config, store, jar, ended, final>> /\ TypeOK
        /\ config.storage = "server" => q.session.id \notin final
    BY OfRequest DEF Renew, At, fixed, IInv
  <1>2. /\ q.kind # "api" /\ q.session # NoSession /\ q.cookie = "keep" /\ q.outcome = "none"
        /\ q.updated = FALSE /\ Full(World, q.session) /\ q.session \in Sessions
    BY <1>1 DEF Right, Records
  <1>3. /\ f \in Tokens /\ f \notin Issued /\ Issued' = Issued \cup {f}
        /\ Grows(World, World') /\ age'[f] = "fresh" /\ 0 \notin usable
    BY <1>1, Issuing, Constants DEF TypeOK
  <1>4. q.session.id \in Issued /\ (config.refreshTokens = "none" => rt = 0)
    BY <1>2, WorldIs DEF Full
  <1> HIDE DEF f
  <1>5. s \in Sessions /\ s.id = q.session.id /\ s.at = f /\ s.authorized = q.session.authorized
        /\ s.rt = IF config.refreshTokens = "rotating" THEN f ELSE rt
    BY <1>2, <1>3, Constants DEF Sessions
  <1>6. "revalidate" \in Places
    BY DEF Places
  <1>7. Became(Moved(r, "revalidate"), q, "revalidate", q.session, FALSE, "keep", "none")
    BY <1>1, <1>2, <1>6, Moving
  <1>8. Became(n, q, "revalidate", s, FALSE, "keep", "none")
    BY <1>5, <1>7 DEF Became, Records
  <1> HIDE DEF s, n
  <1>9. s # NoSession /\ Full(World', s)
    <2>1. s # NoSession
      BY <1>3, <1>5, Constants
    <2>2. /\ World'.config = config /\ World'.entitled = entitled' /\ World'.usable = usable'
          /\ IssuedIn(World') = Issued'
      BY <1>1 DEF World, IssuedIn, Issued
    <2>3. config.refreshTokens = "reusable" => rt \in usable'
      BY <1>1 DEF Issue
    <2>4. ~config.checkOnEveryRequest => s.authorized = entitled'[s.id]
      <3>1. Full(World', q.session)
        BY <1>2, <1>3, StaysFull
      <3>2. QED
        BY <1>5, <2>2, <3>1 DEF Full
    <2>5. QED
      BY <1>1, <1>3, <1>4, <1>5, <2>1, <2>2, <2>3, <2>4 DEF Full
  <1>10. Right(World', n)
    <2>1. TicketRight(World', n.ticket)
      BY <1>1, <1>3, <1>8, StaysFull DEF Right, Became
    <2>2. World'.age[s.at] = "fresh"
      BY <1>3, <1>5 DEF World
    <2>3. QED
      BY <1>1, <1>2, <1>5, <1>8, <1>9, <2>1, <2>2 DEF Right, Became
  <1>11. n \in Records /\ n.session = s /\ n.ticket = q.ticket /\ n.cookie # "set" /\ n.outcome = "none"
         /\ n.pc = "revalidate" /\ ~Refusal(n)
    BY <1>8 DEF Became, Refusal
  <1>12. TypeOK' /\ TokensAgree' /\ AllRight'
    BY <1>1, <1>10, <1>11, Issuing, RightOfIssue DEF f
  <1>13. LogoutsAgree' /\ TicketsLead'
    BY <1>1, <1>5, <1>11, RestOfIssue DEF f
  <1>14. Ordered'
    BY <1>1, <1>2, <1>5, <1>11, OrderOfIssue DEF f
  <1>15. SpentIsReplaced'
    <2>1. SUFFICES ASSUME ~DropsRenewals, config.refreshTokens = "rotating",
                          NEW i \in Tokens \ ended, Current(i)' # NoSession, Current(i)'.rt \notin usable'
                   PROVE  \E p \in Requests : req'[p].session.id = i /\ Brings(World', req'[p])
      <3>1. DropsRenewals' <=> DropsRenewals
        BY <1>1 DEF DropsRenewals
      <3>2. QED
        BY <1>1, <3>1 DEF SpentIsReplaced
    <2>2. Current(i)' = Current(i) /\ usable' = (usable \ {rt}) \cup {f}
      BY <1>1, <2>1 DEF Current, Issue
    <2>3. req'[r] = n /\ \A p \in Requests \ {r} : req'[p] = req[p]
      BY <1>1 DEF Goto, TypeOK
    <2>4. CASE Current(i).rt = rt
      <3>1. Key(Current(i)) \in Held /\ Key(q.session) \in Held /\ Current(i).id = i
        <4>1. \/ Current(i) = store[i] /\ config.storage = "server"
              \/ Current(i) = jar /\ jar.id = i
          BY <2>1, <2>2 DEF Current
        <4>2. Current(i).id = i
          BY <2>1, <2>2, <4>1 DEF IInv, AllRight
        <4>3. QED
          BY <4>1, <4>2 DEF Held, Kept
      <3>2. Current(i).at = rt /\ q.session.at = rt
        <4>1. i # 0
          BY Constants
        <4>2. Current(i).rt = Current(i).at /\ q.session.rt = q.session.at
          BY <1>2, <2>1, <3>1, <4>1, HeldIsIssued, KeyIs, WorldIs DEF Full
        <4>3. QED
          BY <2>4, <4>2
      <3>3. q.session.id = i
        <4>1. i # 0 /\ q.session.id # 0 /\ rt # 0
          BY <1>1, <1>3, <1>4, Constants DEF Issued
        <4>2. QED
          BY <2>1, <3>1, <3>2, <4>1, KeyIs DEF IInv, Ordered
      <3>4. QED
        BY <1>5, <1>11, <2>3, <3>3 DEF Brings
    <2>5. CASE Current(i).rt # rt
      <3>1. Current(i).rt \notin usable
        BY <2>1, <2>2, <2>5
      <3>2. PICK p \in Requests : req[p].session.id = i /\ Brings(World, req[p])
        BY <2>1, <2>2, <3>1 DEF IInv, SpentIsReplaced
      <3>3. ~Brings(World, q)
        BY <1>1, <1>2 DEF Brings
      <3>4. req'[p] = req[p]
        BY <2>3, <3>2, <3>3
      <3>5. QED
        BY <1>1, <3>2, <3>4 DEF Brings, World
    <2>6. QED
      BY <2>4, <2>5
  <1>16. QED
    BY <1>12, <1>13, <1>14, <1>15 DEF IInv

(***************************************************************************)
(* The invariant                                                           *)
(***************************************************************************)
\* At the start there are no tokens, no sessions and no requests.
THEOREM InitIInv == Init => IInv
  <1> SUFFICES ASSUME Init PROVE IInv
    OBVIOUS
  <1>1. TypeOK
    <2>1. /\ config \in Configurations /\ age = [n \in Tokens |-> "none"]
          /\ entitled = [n \in Tokens |-> FALSE] /\ usable = {} /\ store = [n \in Tokens |-> NoSession]
          /\ jar = NoSession /\ req = [r \in Requests |-> Idle] /\ ended = {} /\ final = {}
      BY DEF Init
    <2>2. age \in [Tokens -> {"none", "fresh", "stale", "over"}] /\ entitled \in [Tokens -> BOOLEAN]
      BY <2>1
    <2>3. /\ store \in [Tokens -> Sessions] /\ req \in [Requests -> Records] /\ jar \in Sessions
      BY <2>1, Constants, IdleIs
    <2>4. QED
      BY <2>1, <2>2, <2>3, Typed
  <1>2. Issued = {} /\ Cardinality(Issued) = 0
    <2>1. Issued = {}
      BY DEF Init, Issued
    <2>2. QED
      BY <2>1, FS_EmptySet
  <1>3. TokensAgree
    <2>1. Issued = 1..0 /\ 0 \in 0..MaxTokens
      BY <1>2, Constants
    <2>2. QED
      BY <1>2, <2>1 DEF TokensAgree
  <1>4. AllRight
    <2>1. Right(World, Idle) /\ TicketRight(World, NoSession)
      BY IdleIs DEF Right, TicketRight
    <2>2. QED
      BY <2>1 DEF AllRight, Init
  <1>5. LogoutsAgree
    BY <1>2 DEF LogoutsAgree, Init
  <1>6. Ordered
    <2>1. \A k \in Held : k = Key(NoSession)
      BY IdleIs DEF Held, Kept, Init
    <2>2. \A r \in Requests : ~Carrying(World, req[r])
      BY IdleIs DEF Init, Carrying, Brings
    <2>3. QED
      BY <2>1, <2>2, KeyIs, Constants DEF Ordered
  <1>7. TicketsLead
    BY IdleIs, Constants DEF TicketsLead, Alive, RefusedIsOver, Refusal, Init
  <1>8. SpentIsReplaced
    BY Constants DEF SpentIsReplaced, Current, Init
  <1>9. QED
    BY <1>1, <1>3, <1>4, <1>5, <1>6, <1>7, <1>8 DEF IInv

\* Every step of the browser, the provider and the requests keeps it.
THEOREM NextIInv == IInv /\ [Next]_vars => IInv'
  <1> SUFFICES ASSUME IInv, [Next]_vars PROVE IInv'
    OBVIOUS
  <1>1. CASE UNCHANGED vars
    <2>1. UNCHANGED <<config, age, entitled, usable, store, jar, req, ended, final>>
      BY <1>1 DEF vars
    <2>2. World' = World /\ Issued' = Issued /\ Kept' = Kept /\ Held' = Held
          /\ \A q \in Requests : Elsewhere(q)' = Elsewhere(q)
      BY <2>1 DEF World, Issued, Kept, Held, Elsewhere
    <2>3. TypeOK' /\ TokensAgree' /\ LogoutsAgree'
      BY <2>1, <2>2 DEF IInv, TypeOK, TokensAgree, LogoutsAgree
    <2>4. AllRight' /\ Ordered'
      BY <2>1, <2>2 DEF IInv, AllRight, Ordered
    <2>5. TicketsLead' /\ SpentIsReplaced'
      BY <2>1, <2>2 DEF IInv, TicketsLead, Reliable, Alive, RefusedIsOver, Over, SpentIsReplaced, DropsRenewals, Current
    <2>6. QED
      BY <2>3, <2>4, <2>5 DEF IInv
  <1>2. ASSUME NEW n \in Tokens, Age(n) \/ Lapse(n)
        PROVE  IInv'
    BY <1>2, AgeKeeps, LapseKeeps
  <1>3. ASSUME NEW r \in Requests,
               \/ \E kind \in config.kinds, public \in {FALSE, config.bypass} : Arrive(r, kind, public)
               \/ \E public \in {FALSE, config.bypass} : ArriveWithToken(r, public)
               \/ ArriveAtCallback(r) \/ ArriveAfterLogout(r) \/ Handle(r)
        PROVE  IInv'
    <2>1. CASE QuietStep(r)
      BY <2>1, QuietStepsKeep
    <2>2. CASE Renew(r) \/ Exchange(r) \/ Store(r) \/ FinishLogin(r) \/ Deliver(r)
      BY <2>2, RenewKeeps, ExchangeKeeps, StoringKeeps, DeliverKeeps
    <2>3. CASE RenewFails(r)
      <3>1. \/ UNCHANGED provider
            \/ req[r].session.rt \in usable /\ Issue(Fresh, {req[r].session.rt})
        BY <2>3 DEF RenewFails
      <3>2. UNCHANGED provider => QuietStep(r)
        BY <2>3 DEF QuietStep
      <3>3. QED
        BY <2>3, <3>1, <3>2, QuietStepsKeep, LostRenewalKeeps
    <2>4. CASE Logout(r)
      <3>1. \/ /\ store' = [store EXCEPT ![req[r].session.id] = NoSession]
               /\ ended' = ended \cup {req[r].session.id}
               /\ final' = IF Others(r, req[r].session.id) = {} THEN final \cup {req[r].session.id} ELSE final
            \/ "storage" \in config.faults /\ UNCHANGED <<store, ended, final>>
        BY <2>4 DEF Logout
      <3>2. "storage" \in config.faults /\ UNCHANGED <<store, ended, final>> => QuietStep(r)
        BY <2>4 DEF QuietStep
      <3>3. QED
        BY <2>4, <3>1, <3>2, QuietStepsKeep, LogoutKeeps
    <2>5. QED
      BY <1>3, <2>1, <2>2, <2>3, <2>4 DEF Handle, QuietStep
  <1>4. QED
    BY <1>1, <1>2, <1>3 DEF Next, Exhausted

\* The invariant holds in every state of every behaviour.
THEOREM Invariance == Spec => []IInv
  <1>1. Init => IInv
    BY InitIInv
  <1>2. IInv /\ [Next]_vars => IInv'
    BY NextIInv
  <1>3. QED
    BY <1>1, <1>2, PTL DEF Spec

(***************************************************************************)
(* What follows                                                            *)
(***************************************************************************)

\* The requests, the sessions in storage and cookie and the provider's tokens
\* have the types that are declared for them.
THEOREM TypeCorrect == Spec => []TypeOK
  <1>1. IInv => TypeOK
    BY DEF IInv
  <1>2. QED
    BY Invariance, <1>1, PTL

\* What reaches the upstream service with a session satisfies the authorization
\* rules, by the claims of its token or of the session's login, whatever other
\* requests renew or log out in between and whatever fails.
THEOREM OnlyEntitledIsForwarded == Spec => []ForwardedIsEntitled
  <1>1. IInv => ForwardedIsEntitled
    <2> SUFFICES ASSUME IInv, NEW r \in Requests, req[r].pc = "forward" \/ req[r].outcome = "forwarded",
                        req[r].session # NoSession
                 PROVE  \/ config.forwardUnauthorized
                        \/ IF config.checkOnEveryRequest \/ req[r].kind = "api"
                           THEN entitled[Checked(req[r].session)] ELSE entitled[req[r].session.id]
      BY DEF ForwardedIsEntitled, At
    <2>1. Passes(World, req[r])
      BY DEF IInv, AllRight, Right
    <2>2. QED
      BY <2>1, WorldIs DEF Passes
  <1>2. QED
    BY Invariance, <1>1, PTL

\* A session deleted by a logout that no other request was using is never stored
\* again.
THEOREM CleanLogoutsAreFinal == Spec => []CleanLogoutIsFinal
  <1>1. IInv => CleanLogoutIsFinal
    BY DEF IInv, LogoutsAgree, CleanLogoutIsFinal
  <1>2. QED
    BY Invariance, <1>1, PTL

\* With refresh tokens that can be used again, and while storage and provider work:
\* however many requests renew a session at once, none of them ends at the login
\* page and no response takes the session from the browser before it is over, but
\* for a login, the callback after a logout, and responses to requests that were
\* sent before the browser had the session.
THEOREM BrowsersStayLoggedIn == Spec => StaysLoggedIn
  <1> DEFINE Stays ==
               Reliable =>
                 \A r \in Requests : Deliver(r) =>
                   /\ req[r].outcome = "unauthenticated" /\ req[r].ticket # NoSession =>
                        Over(req[r].ticket.id)
                   /\ jar # NoSession /\ jar'.id # jar.id =>
                        \/ Over(jar.id)
                        \/ req[r].kind \in {"login", "postLogout"}
                        \/ req[r].ticket.id # jar.id
  <1>1. IInv /\ [Next]_vars => [Stays]_vars
    <2> SUFFICES ASSUME IInv, Reliable, NEW r \in Requests, Deliver(r)
                 PROVE  /\ req[r].outcome = "unauthenticated" /\ req[r].ticket # NoSession =>
                             Over(req[r].ticket.id)
                        /\ jar # NoSession /\ jar'.id # jar.id =>
                             \/ Over(jar.id)
                             \/ req[r].kind \in {"login", "postLogout"}
                             \/ req[r].ticket.id # jar.id
      OBVIOUS
    <2>1. /\ req[r] \in Records /\ Right(World, req[r])
          /\ Refusal(req[r]) /\ req[r].ticket # NoSession => Over(req[r].ticket.id)
      BY OfRequest
    <2>2. req[r].outcome = "unauthenticated" /\ req[r].ticket # NoSession => Over(req[r].ticket.id)
      BY <2>1 DEF Refusal
    <2>3. ASSUME jar # NoSession, jar'.id # jar.id, req[r].kind \notin {"login", "postLogout"},
                 req[r].ticket.id = jar.id
          PROVE  Over(jar.id)
      <3>1. req[r].ticket.id # 0 /\ req[r].ticket # NoSession
        BY <2>3, WorldIs, Constants DEF IInv, AllRight, TicketRight, Full, Issued
      <3>2. CASE req[r].cookie = "keep"
        BY <2>3, <3>2 DEF Deliver
      <3>3. CASE req[r].cookie = "clear"
        BY <2>1, <2>3, <3>1, <3>3 DEF Refusal
      <3>4. CASE req[r].cookie = "set"
        <4>1. req[r].session.id = jar.id
          BY <2>1, <2>3, <3>4, WorldIs, Constants DEF Right, Full, Issued
        <4>2. jar'.id = req[r].session.id
          <5>1. jar' = Ticket(req[r].session) /\ req[r].session \in Sessions
            BY <2>1, <3>4 DEF Deliver, Records
          <5>2. Ticket(req[r].session).id = req[r].session.id
            BY <5>1, Constants DEF Ticket, NoSession
          <5>3. QED
            BY <5>1, <5>2
        <4>3. QED
          BY <2>3, <4>1, <4>2
      <3>5. QED
        BY <2>1, <3>2, <3>3, <3>4 DEF Records
    <2>4. QED
      BY <2>2, <2>3
  <1>2. QED
    BY Invariance, <1>1, PTL DEF Spec, StaysLoggedIn

\* The refresh token in a session is one the provider accepts, or a request in
\* flight is bringing its successor, where nothing ends requests before they
\* store what they have renewed.
THEOREM RefreshTokensAreKept == Spec => []RefreshTokenIsKept
  <1>1. IInv => RefreshTokenIsKept
    <2> SUFFICES ASSUME IInv, ~DropsRenewals, NEW id \in Tokens \ ended,
                        Current(id) # NoSession, Current(id).rt # 0
                 PROVE  Current(id).rt \in usable \/ \E r \in Requests : Carries(r, id)
      BY DEF RefreshTokenIsKept
    <2>1. config.refreshTokens \in {"none", "reusable", "rotating"} /\ config.storage \in {"server", "cookie"}
      BY Configured DEF IInv
    <2>2. CASE config.refreshTokens = "rotating"
      <3>1. \/ Current(id).rt \in usable
            \/ \E r \in Requests : req[r].session.id = id /\ Brings(World, req[r])
        BY <2>2 DEF IInv, SpentIsReplaced
      <3>2. ASSUME NEW r \in Requests, req[r].session.id = id, Brings(World, req[r])
            PROVE  Carries(r, id)
        <4>1. req[r].session.rt \in usable
          BY <2>2, <3>2 DEF IInv, Ordered, Carrying
        <4>2. Right(World, req[r])
          BY DEF IInv, AllRight
        <4>3. \/ req[r].pc \in {"revalidate", "authorize", "store"}
              \/ req[r].pc \in {"forward", "respond"} /\ req[r].cookie = "set"
          BY <3>2, <4>2 DEF Brings, Right
        <4>4. QED
          BY <3>2, <4>1, <4>3 DEF Carries
      <3>3. QED
        BY <3>1, <3>2
    <2>3. CASE config.refreshTokens # "rotating"
      <3>1. Full(World, Current(id))
        <4>1. CASE config.storage = "server"
          BY <4>1 DEF IInv, AllRight, Current
        <4>2. CASE config.storage = "cookie"
          <5>1. Current(id) = jar /\ TicketRight(World, jar)
            BY <4>2 DEF IInv, AllRight, Current
          <5>2. QED
            BY <4>2, <5>1, WorldIs DEF TicketRight
        <4>3. QED
          BY <2>1, <4>1, <4>2
      <3>2. config.refreshTokens = "reusable"
        BY <2>1, <2>3, <3>1, WorldIs DEF Full
      <3>3. QED
        BY <3>1, <3>2, WorldIs DEF Full
    <2>4. QED
      BY <2>2, <2>3
  <1>2. QED
    BY Invariance, <1>1, PTL

\* A request that stores a session, or brings it to the browser, has later tokens
\* than are there: a slow request never overwrites a later renewal.
THEOREM SessionsOnlyAdvance == Spec => SessionsNeverRollBack
  <1> DEFINE Advances ==
               config.refreshTokens # "reusable" =>
                 \A id \in Tokens :
                   Current(id) # NoSession /\ Current(id)' # NoSession =>
                     Current(id).at <= Current(id)'.at
  <1>1. IInv /\ [Next]_vars => [Advances]_<<store, jar>>
    <2> SUFFICES ASSUME IInv, [Next]_vars, config.refreshTokens # "reusable", NEW id \in Tokens,
                        Current(id) # NoSession, Current(id)' # NoSession, <<store, jar>>' # <<store, jar>>
                 PROVE  Current(id).at <= Current(id)'.at
      OBVIOUS
    <2>1. Next
      BY DEF vars
    <2>2. Current(id).at \in Nat
      <3>1. Current(id) \in Sessions
        BY DEF IInv, TypeOK, Current
      <3>2. QED
        BY <3>1, Constants
    <2>3. Current(id)' = Current(id) => Current(id).at <= Current(id)'.at
      BY <2>2
    <2>4. ASSUME NEW r \in Requests, Carrying(World, req[r]), Key(Current(id)) \in Kept,
                 Current(id).id = id, Current(id)' = req[r].session, req[r].session.id = id
          PROVE  Current(id).at <= Current(id)'.at
      <3>1. Key(Current(id)) \in Elsewhere(r) /\ Key(Current(id)).id = req[r].session.id
        BY <2>4, KeyIs DEF Elsewhere
      <3>2. Key(Current(id)).at < req[r].session.at
        BY <2>4, <3>1 DEF IInv, Ordered
      <3>3. req[r].session.at \in Nat
        <4>1. Full(World, req[r].session)
          BY <2>4, CarryingIsFull DEF IInv, AllRight
        <4>2. QED
          BY <4>1, WorldIs, Constants DEF Full, Issued
      <3>4. QED
        BY <2>2, <2>4, <3>2, <3>3, KeyIs
    <2>5. ASSUME NEW r \in Requests, Store(r) \/ FinishLogin(r)
          PROVE  Current(id).at <= Current(id)'.at
      <3>1. /\ Put(req[r].session) /\ jar' = jar /\ Carrying(World, req[r]) /\ UNCHANGED config
            /\ store \in [Tokens -> Sessions]
        BY <2>5 DEF Store, FinishLogin, At, Carrying, Brings, fixed, IInv, TypeOK
      <3>2. CASE config.storage = "cookie"
        BY <2>3, <3>1, <3>2 DEF Current, Put
      <3>3. CASE config.storage # "cookie"
        <4>1. store' = [store EXCEPT ![req[r].session.id] = req[r].session] /\ config.storage = "server"
          BY <3>1, <3>3, Configured DEF Put, IInv
        <4>2. CASE id = req[r].session.id
          <5>1. Current(id)' = req[r].session /\ Current(id) = store[id]
            BY <3>1, <4>1, <4>2 DEF Current
          <5>2. Current(id).id = id /\ Key(Current(id)) \in Kept
            BY <5>1 DEF IInv, AllRight, Kept
          <5>3. QED
            BY <2>4, <3>1, <4>2, <5>1, <5>2
        <4>3. CASE id # req[r].session.id
          BY <2>3, <3>1, <4>1, <4>3 DEF Current
        <4>4. QED
          BY <4>2, <4>3
      <3>4. QED
        BY <3>2, <3>3
    <2>6. ASSUME NEW r \in Requests, Deliver(r)
          PROVE  Current(id).at <= Current(id)'.at
      <3>1. /\ UNCHANGED <<store, config>> /\ req[r].pc = "respond" /\ req[r].cookie \in {"keep", "set", "clear"}
            /\ jar' = CASE req[r].cookie = "keep" -> jar
                        [] req[r].cookie = "clear" -> NoSession
                        [] req[r].cookie = "set" -> Ticket(req[r].session)
        BY <2>6, OfRequest DEF Deliver, At, fixed, Records
      <3>2. CASE config.storage = "server"
        BY <2>3, <3>1, <3>2 DEF Current
      <3>3. CASE config.storage # "server"
        <4>1. config.storage = "cookie" /\ jar.id = id /\ Current(id) = jar /\ jar'.id = id /\ Current(id)' = jar'
          BY <3>1, <3>3, Configured DEF Current, IInv
        <4>2. CASE req[r].cookie = "keep"
          BY <2>3, <3>1, <4>1, <4>2
        <4>3. CASE req[r].cookie = "clear"
          BY <3>1, <4>1, <4>3, Constants
        <4>4. CASE req[r].cookie = "set"
          <5>1. jar' = req[r].session /\ Carrying(World, req[r])
            BY <3>1, <4>1, <4>4, WorldIs DEF Ticket, Carrying, Brings
          <5>2. Key(jar) \in Kept
            BY DEF Kept
          <5>3. QED
            BY <2>4, <4>1, <5>1, <5>2
        <4>5. QED
          BY <3>1, <4>2, <4>3, <4>4
      <3>4. QED
        BY <3>2, <3>3
    <2>7. ASSUME \/ \E i \in Tokens : Lapse(i)
                 \/ \E r \in Requests : Logout(r)
          PROVE  Current(id).at <= Current(id)'.at
      <3>1. PICK i : store' = [store EXCEPT ![i] = NoSession] \/ store' = store
        BY <2>7 DEF Lapse, Logout
      <3>2. jar' = jar /\ UNCHANGED config /\ store \in [Tokens -> Sessions]
        BY <2>7 DEF Lapse, Logout, fixed, IInv, TypeOK
      <3>3. Current(id)' = Current(id)
        BY <3>1, <3>2 DEF Current
      <3>4. QED
        BY <2>3, <3>3
    <2>8. \/ \E r \in Requests : Store(r) \/ FinishLogin(r) \/ Deliver(r) \/ Logout(r)
          \/ \E i \in Tokens : Lapse(i)
          \/ UNCHANGED <<store, jar>>
      <3>1. ASSUME NEW i \in Tokens, Age(i)
            PROVE  UNCHANGED <<store, jar>>
        BY <3>1 DEF Age
      <3>2. ASSUME NEW r \in Requests, Handle(r),
                   ~(Store(r) \/ FinishLogin(r) \/ Deliver(r) \/ Logout(r))
            PROVE  UNCHANGED <<store, jar>>
        BY <3>2 DEF Handle, Load, LoadFails, ValidateHeader, Validate, Renew, RenewRefused, RenewFails,
                    Revalidate, Authorize, AttachHeadersFails, StoreFails, Forward, LogoutRefused,
                    Exchange, ExchangeFails, FinishLoginFails
      <3>3. ASSUME NEW r \in Requests,
                   \/ \E kind \in config.kinds, public \in {FALSE, config.bypass} : Arrive(r, kind, public)
                   \/ \E public \in {FALSE, config.bypass} : ArriveWithToken(r, public)
                   \/ ArriveAtCallback(r) \/ ArriveAfterLogout(r)
            PROVE  UNCHANGED <<store, jar>>
        BY <3>3 DEF Arrive, ArriveWithToken, ArriveAtCallback, ArriveAfterLogout
      <3>4. Exhausted => UNCHANGED <<store, jar>>
        BY DEF Exhausted, vars
      <3>5. QED
        BY <2>1, <3>1, <3>2, <3>3, <3>4 DEF Next
    <2>9. QED
      BY <2>5, <2>6, <2>7, <2>8
  <1>2. QED
    BY Invariance, <1>1, PTL DEF Spec, SessionsNeverRollBack

=============================================================================
