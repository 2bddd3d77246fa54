----------------------------- MODULE Middleware -----------------------------
(***************************************************************************)
(* The life of a session as concurrent requests of one browser see it:      *)
(* ServeHTTP, handleCallback (login), handleLogout and handleUnauthorized   *)
(* (src/src/main.go), validateSessionTicket and the renewal of tokens       *)
(* (src/src/session.go), the session storage, and the identity provider.    *)
(*                                                                         *)
(* A request is cut where it leaves the process: at the session storage,    *)
(* at the provider, at the upstream service and at its response.  Between   *)
(* these points other requests run.  Tokens are numbered in the order the   *)
(* provider issues them; a session is named after the token of its login    *)
(* and a refresh token after the access token it came with (0 = none).      *)
(***************************************************************************)
EXTENDS Integers, FiniteSets

CONSTANTS Requests,        \* slots of requests in flight
          MaxTokens,       \* bound of the tokens issued
          Configurations   \* of the middleware and its environment, see below

\* What may go wrong: the storage or the provider cannot be reached, a header
\* template fails, a request asks for a redirect_uri that is not allowed,
\* sessions outlive MaxAge.
FaultKinds == {"storage", "provider", "headers", "request", "expiry"}

AllConfigurations ==
  [storage : {"server", "cookie"},         \* SessionStorage (InMemory, Redis / Cookie)
   introspection : BOOLEAN,                \* TokenValidation is "Introspection"
   keptIdToken : BOOLEAN,                  \* TokenValidation is "IdToken", and the provider
                                           \* returns no new IdToken when it renews
   refreshTokens : {"none", "reusable", "rotating"},   \* what the provider gives
   bypass : BOOLEAN,                       \* a BypassAuthenticationRule is configured
   checkOnEveryRequest : BOOLEAN,          \* Authorization.CheckOnEveryRequest
   forwardUnauthorized : BOOLEAN,          \* UnauthorizedBehavior is "Forward"
   entitlements : SUBSET BOOLEAN,          \* what the claims of tokens say of the rules
   kinds : SUBSET {"page", "api", "login", "logout", "postLogout"},
   faults : SUBSET FaultKinds,
   tokens : 1..MaxTokens]                  \* bound of the tokens issued in this configuration

ASSUME MiddlewareAssumption ==
  /\ MaxTokens \in Nat \ {0} /\ Configurations \subseteq AllConfigurations
  /\ \A c \in Configurations : ~(c.introspection /\ c.keptIdToken)

VARIABLES config,    \* the configuration, chosen once
          age,       \* of each token: "none", "fresh", "stale" (past the
                     \* renewal threshold) or "over" (expired or revoked)
          entitled,  \* whether the token's claims satisfy Authorization
          usable,    \* the refresh tokens the provider accepts
          store,     \* server-side sessions
          jar,       \* the session cookie in the browser
          req,       \* the requests
          ended,     \* history: the sessions a logout has deleted, and ...
          final      \* ... those deleted when no other request was using them

vars == <<config, age, entitled, usable, store, jar, req, ended, final>>
provider == <<age, entitled, usable>>
fixed == <<config, ended, final>>

Tokens == 1..MaxTokens
Sessions == [id : 0..MaxTokens, at : 0..MaxTokens, rt : 0..MaxTokens, authorized : BOOLEAN]
NoSession == [id |-> 0, at |-> 0, rt |-> 0, authorized |-> FALSE]

\* The token of a session that validateToken looks at: the one issued last, or the
\* IdToken of the login, which renewals keep if the provider returns no new one.
\* A token from a header or cookie of its own is always looked at itself.
Checked(s) == IF config.keptIdToken /\ s.id # 0 THEN s.id ELSE s.at

\* What is in the cookie: the session itself, or only its id.
Ticket(s) == IF config.storage = "cookie" THEN s ELSE [NoSession EXCEPT !.id = s.id]

Idle == [pc |-> "idle", kind |-> "page", public |-> FALSE, ticket |-> NoSession,
         session |-> NoSession, updated |-> FALSE, cookie |-> "keep", outcome |-> "none"]

TypeOK ==
  /\ config \in Configurations
  /\ age \in [Tokens -> {"none", "fresh", "stale", "over"}]
  /\ entitled \in [Tokens -> BOOLEAN]
  /\ usable \subseteq Tokens
  /\ store \in [Tokens -> Sessions]
  /\ jar \in Sessions
  /\ req \in [Requests ->
       [pc : {"idle", "load", "validate", "renew", "revalidate", "authorize", "store",
              "forward", "logout", "exchange", "finish", "respond"},
        kind : {"page", "api", "login", "logout", "postLogout"}, public : BOOLEAN, ticket : Sessions,
        session : Sessions, updated : BOOLEAN, cookie : {"keep", "set", "clear"},
        outcome : {"none", "forwarded", "unauthenticated", "unauthorized", "error",
                   "loggedOut", "loggedIn", "panic"}]]
  /\ ended \subseteq Tokens /\ final \subseteq ended

At(r, where) == req[r].pc = where
Goto(r, next) == req' = [req EXCEPT ![r] = next]
Moved(r, where) == [req[r] EXCEPT !.pc = where]
Answered(r, outcome) == [req[r] EXCEPT !.pc = "respond", !.outcome = outcome]

(***************************************************************************)
(* The provider: tokens age, and a revoked one is over at once (which only  *)
(* introspection notices).  It issues tokens at a login and at a renewal.   *)
(* A new token that is not revoked outlives the request that has renewed it *)
(* (an IdToken that the renewal kept may not); the age of a token that      *)
(* nobody holds any more does not matter.                                   *)
(***************************************************************************)
Uses(s) == {s.at, Checked(s)}
InUse(n) ==
  \/ n \in Uses(jar)
  \/ \E id \in Tokens : n \in Uses(store[id])
  \/ \E r \in Requests : n \in Uses(req[r].session) \cup Uses(req[r].ticket)

Age(n) ==
  /\ InUse(n) \/ "api" \in config.kinds
  /\ age[n] \in {"fresh", "stale"}
  /\ config.introspection \/ \A r \in Requests : req[r].pc = "revalidate" => req[r].session.at # n
  /\ \E later \in {"stale", "over"} \ {age[n]} : age' = [age EXCEPT ![n] = later]
  /\ UNCHANGED <<entitled, usable, store, jar, req, fixed>>

Issued == {n \in Tokens : age[n] # "none"}
Fresh == Cardinality(Issued) + 1

\* Fault: off by one, the refresh token is numbered before its access token.
Issue_Fault(n, spent) ==
  /\ n \in Tokens /\ n <= config.tokens
  /\ age' = [age EXCEPT ![n] = "fresh"]
  /\ \E e \in config.entitlements : entitled' = [entitled EXCEPT ![n] = e]
  /\ usable' = IF config.refreshTokens = "none" THEN usable ELSE (usable \ spent) \cup {n - 1}

\* A new token pair n replaces refresh token spent.
Issue(n, spent) ==
  /\ n \in Tokens /\ n <= config.tokens
  /\ age' = [age EXCEPT ![n] = "fresh"]
  /\ \E e \in config.entitlements : entitled' = [entitled EXCEPT ![n] = e]
  /\ usable' = CASE config.refreshTokens = "rotating" -> (usable \ spent) \cup {n}
                 [] config.refreshTokens = "reusable" -> IF spent = {} THEN usable \cup {n} ELSE usable
                 [] OTHER -> usable

(***************************************************************************)
(* A request arrives.  The browser sends the cookie it has at that moment;  *)
(* an "api" request brings its own token (AuthorizationHeader or Cookie).   *)
(* public: the BypassAuthenticationRule matches.                            *)
(***************************************************************************)
Arrive(r, kind, public) ==
  /\ At(r, "idle") /\ kind \in config.kinds \cap {"page", "logout"}
  /\ Goto(r, [Idle EXCEPT !.pc = "load", !.kind = kind, !.public = public, !.ticket = jar])
  /\ UNCHANGED <<provider, store, jar, fixed>>

ArriveWithToken(r, public) ==
  /\ At(r, "idle") /\ "api" \in config.kinds
  /\ \E n \in Issued :
       Goto(r, [Idle EXCEPT !.pc = "validate", !.kind = "api", !.public = public,
                            !.session = [NoSession EXCEPT !.at = n]])
  /\ UNCHANGED <<provider, store, jar, fixed>>

ArriveAtCallback(r) ==
  /\ At(r, "idle") /\ "login" \in config.kinds
  /\ Goto(r, [Idle EXCEPT !.pc = "exchange", !.kind = "login", !.ticket = jar])
  /\ UNCHANGED <<provider, store, jar, fixed>>

\* The provider sends the browser back after a logout; the callback clears
\* the cookie (once more).
ArriveAfterLogout(r) ==
  /\ At(r, "idle") /\ "postLogout" \in config.kinds /\ ended # {}
  /\ Goto(r, [Idle EXCEPT !.pc = "respond", !.kind = "postLogout", !.ticket = jar,
                          !.cookie = "clear", !.outcome = "loggedOut"])
  /\ UNCHANGED <<provider, store, jar, fixed>>

\* ServeHTTP without a session: a public request goes on as it is, any other gets
\* its cookie cleared and goes to handleUnauthenticated - after err.Error() was
\* logged, so that without an error it ends there, with nothing sent.
Refused(r, err) ==
  IF req[r].public
  THEN [Moved(r, "forward") EXCEPT !.session = NoSession]
  ELSE IF err
  THEN [Answered(r, "unauthenticated") EXCEPT !.session = NoSession, !.cookie = "clear"]
  ELSE Answered(r, "panic")

(***************************************************************************)
(* getSessionForRequest: the cookie and the storage.  There is an error     *)
(* when no cookie came, and each storage has one for a session that it does *)
(* not find or cannot decrypt (the case without either, session.go:99-101,  *)
(* is one that no storage has).                                             *)
(***************************************************************************)
TryGetSession(t) ==
  LET s == IF config.storage = "cookie" \/ t.id = 0 THEN t ELSE store[t.id]
  IN  [session |-> s, err |-> s = NoSession]

Load(r) ==
  LET found == TryGetSession(req[r].ticket) IN
  /\ At(r, "load")
  /\ Goto(r, IF found.session = NoSession THEN Refused(r, found.err)
             ELSE [Moved(r, "validate") EXCEPT !.session = found.session])
  /\ UNCHANGED <<provider, store, jar, fixed>>

LoadFails(r) ==
  /\ At(r, "load") /\ "storage" \in config.faults
  /\ Goto(r, Refused(r, TRUE))
  /\ UNCHANGED <<provider, store, jar, fixed>>

(***************************************************************************)
(* validateToken: its success and whether it returns an error.  A token     *)
(* that is over gives an error when it is parsed locally, and none when the *)
(* provider introspects it.  JWKS, introspection and userinfo requests may  *)
(* fail.                                                                    *)
(***************************************************************************)
Results(n) ==
  LET good == age[n] \in {"fresh", "stale"} IN
  {[ok |-> good, err |-> ~good /\ ~config.introspection]}
  \cup (IF "provider" \in config.faults THEN {[ok |-> FALSE, err |-> TRUE]} ELSE {})

\* A header or cookie with a token: err.Error() is part of the error returned, also
\* for a public request.
ValidateHeader(r) ==
  /\ At(r, "validate") /\ req[r].kind = "api"
  /\ \E v \in Results(Checked(req[r].session)) :
       Goto(r, IF v.ok THEN Moved(r, "authorize")
               ELSE IF v.err THEN Refused(r, TRUE)
               ELSE Answered(r, "panic"))
  /\ UNCHANGED <<provider, store, jar, fixed>>

\* validateSessionTicket: a token that is not valid any more, or is past the
\* renewal threshold, is renewed; without refresh token the session is refused,
\* with an error of its own if validateToken had none.
Validate(r) ==
  LET s == req[r].session IN
  /\ At(r, "validate") /\ req[r].kind # "api"
  /\ \E v \in Results(Checked(s)) :
       Goto(r, IF v.ok /\ age[s.at] = "fresh" THEN Moved(r, "authorize")
               ELSE IF s.rt # 0 THEN Moved(r, "renew")
               ELSE Refused(r, TRUE))
  /\ UNCHANGED <<provider, store, jar, fixed>>

\* Fault: the refresh token is dropped when the provider returns no new one.
RenewDrop_Fault(r) ==
  LET rt == req[r].session.rt IN
  /\ At(r, "renew") /\ rt \in usable
  /\ Issue(Fresh, {rt})
  /\ Goto(r, [Moved(r, "revalidate") EXCEPT
                !.session.at = Fresh,
                !.session.rt = IF config.refreshTokens = "rotating" THEN Fresh ELSE 0])
  /\ UNCHANGED <<store, jar, fixed>>

\* Fault: the new refresh token is not taken over.
RenewKeep_Fault(r) ==
  LET rt == req[r].session.rt IN
  /\ At(r, "renew") /\ rt \in usable
  /\ Issue(Fresh, {rt})
  /\ Goto(r, [Moved(r, "revalidate") EXCEPT !.session.at = Fresh])
  /\ UNCHANGED <<store, jar, fixed>>

\* The IdToken is kept with keptIdToken, and the age of the access token tells when
\* the next renewal is due.
Renew(r) ==
  LET rt == req[r].session.rt IN
  /\ At(r, "renew") /\ rt \in usable
  /\ Issue(Fresh, {rt})
  /\ Goto(r, [Moved(r, "revalidate") EXCEPT
                !.session.at = Fresh,
                !.session.rt = IF config.refreshTokens = "rotating" THEN Fresh ELSE rt])
  /\ UNCHANGED <<store, jar, fixed>>

RenewRefused(r) ==
  /\ At(r, "renew") /\ req[r].session.rt \notin usable
  /\ Goto(r, Refused(r, TRUE))
  /\ UNCHANGED <<provider, store, jar, fixed>>

\* The provider cannot be reached, or its answer is lost after it has renewed.
RenewFails(r) ==
  /\ At(r, "renew") /\ "provider" \in config.faults
  /\ \/ UNCHANGED provider
     \/ req[r].session.rt \in usable /\ Issue(Fresh, {req[r].session.rt})
  /\ Goto(r, Refused(r, TRUE))
  /\ UNCHANGED <<store, jar, fixed>>

\* The session is validated again, with the IdToken of its login if that was kept.
Revalidate(r) ==
  /\ At(r, "revalidate")
  /\ \E v \in Results(Checked(req[r].session)) :
       Goto(r, IF v.ok THEN [Moved(r, "authorize") EXCEPT !.updated = TRUE]
               ELSE Refused(r, v.err))
  /\ UNCHANGED <<provider, store, jar, fixed>>

(***************************************************************************)
(* ServeHTTP with a session.  An unauthorized request, and one for which    *)
(* attachHeaders fails, is answered before a renewed session is stored.     *)
(***************************************************************************)
\* Fault: the result cached in the session is trusted whatever the configuration says.
AuthorizedCached_Fault(r) ==
  IF req[r].kind = "api" THEN entitled[Checked(req[r].session)] ELSE req[r].session.authorized

\* Fault: an unauthorized session is let through once it has been renewed.
AuthorizedRenewed_Fault(r) ==
  \/ req[r].updated
  \/ IF config.checkOnEveryRequest \/ req[r].kind = "api" THEN entitled[Checked(req[r].session)]
     ELSE req[r].session.authorized

Authorized(r) ==
  IF config.checkOnEveryRequest \/ req[r].kind = "api" THEN entitled[Checked(req[r].session)]
  ELSE req[r].session.authorized

\* Fault: the session is stored on every request, not only after a renewal.
Authorize_Fault(r) ==
  LET a == Authorized(r)
      s == [req[r].session EXCEPT !.authorized = a]
  IN
  /\ At(r, "authorize") /\ req[r].kind # "logout"
  /\ Goto(r, IF ~a /\ ~config.forwardUnauthorized THEN Answered(r, "unauthorized")
             ELSE [Moved(r, "store") EXCEPT !.session = s])
  /\ UNCHANGED <<provider, store, jar, fixed>>

Authorize(r) ==
  LET a == Authorized(r)
      s == [req[r].session EXCEPT !.authorized = a]
      onward == IF req[r].updated THEN "store" ELSE "forward"
  IN
  /\ At(r, "authorize") /\ req[r].kind # "logout"
  /\ Goto(r, IF ~a /\ ~config.forwardUnauthorized THEN Answered(r, "unauthorized")
             ELSE [Moved(r, onward) EXCEPT !.session = s])
  /\ UNCHANGED <<provider, store, jar, fixed>>

AttachHeadersFails(r) ==
  /\ At(r, "authorize") /\ req[r].kind # "logout" /\ "headers" \in config.faults
  /\ Authorized(r) \/ config.forwardUnauthorized
  /\ Goto(r, Answered(r, "error"))
  /\ UNCHANGED <<provider, store, jar, fixed>>

Put(s) == store' = IF config.storage = "cookie" THEN store ELSE [store EXCEPT ![s.id] = s]

Store(r) ==
  /\ At(r, "store")
  /\ Put(req[r].session)
  /\ Goto(r, [Moved(r, "forward") EXCEPT !.cookie = "set"])
  /\ UNCHANGED <<provider, jar, fixed>>

\* A 500 is written, and the request is forwarded all the same.
StoreFails(r) ==
  /\ At(r, "store") /\ "storage" \in config.faults
  /\ Goto(r, [Moved(r, "forward") EXCEPT !.outcome = "error"])
  /\ UNCHANGED <<provider, store, jar, fixed>>

Forward(r) ==
  /\ At(r, "forward")
  /\ Goto(r, IF req[r].outcome = "error" THEN Moved(r, "respond") ELSE Answered(r, "forwarded"))
  /\ UNCHANGED <<provider, store, jar, fixed>>

(***************************************************************************)
(* handleLogout and the login part of handleCallback                        *)
(***************************************************************************)
Others(r, id) == {q \in Requests \ {r} : req[q].session.id = id}

\* Fault: only the cookie is cleared.
Logout_Fault(r) ==
  LET id == req[r].session.id IN
  /\ At(r, "authorize") /\ req[r].kind = "logout"
  /\ ended' = ended \cup {id}
  /\ final' = IF Others(r, id) = {} THEN final \cup {id} ELSE final
  /\ Goto(r, [Answered(r, "loggedOut") EXCEPT !.cookie = "clear", !.session = NoSession])
  /\ UNCHANGED <<provider, store, jar, config>>

Logout(r) ==
  LET id == req[r].session.id IN
  /\ At(r, "authorize") /\ req[r].kind = "logout"
  /\ \/ /\ store' = [store EXCEPT ![id] = NoSession]
        /\ ended' = ended \cup {id}
        /\ final' = IF Others(r, id) = {} THEN final \cup {id} ELSE final
     \/ "storage" \in config.faults /\ UNCHANGED <<store, ended, final>>
  /\ Goto(r, [Answered(r, "loggedOut") EXCEPT !.cookie = "clear", !.session = NoSession])
  /\ UNCHANGED <<provider, jar, config>>

\* A redirect_uri that is not allowed ends the logout before it has begun.
LogoutRefused(r) ==
  /\ At(r, "authorize") /\ req[r].kind = "logout" /\ "request" \in config.faults
  /\ Goto(r, Answered(r, "error"))
  /\ UNCHANGED <<provider, store, jar, fixed>>

\* exchangeAuthCode, and the check of the token it returns (whose "active"
\* flag the callback does not look at).
Exchange(r) ==
  /\ At(r, "exchange")
  /\ Issue(Fresh, {})
  /\ Goto(r, [Moved(r, "finish") EXCEPT
                !.session = [id |-> Fresh, at |-> Fresh,
                             rt |-> IF config.refreshTokens = "none" THEN 0 ELSE Fresh,
                             authorized |-> entitled'[Fresh]]])
  /\ UNCHANGED <<store, jar, fixed>>

ExchangeFails(r) ==
  /\ At(r, "exchange") /\ "provider" \in config.faults
  /\ Goto(r, Answered(r, "error"))
  /\ UNCHANGED <<provider, store, jar, fixed>>

\* The session is stored and its cookie set whether it is authorized or not.
FinishLogin(r) ==
  /\ At(r, "finish")
  /\ Put(req[r].session)
  /\ Goto(r, [Answered(r, IF req[r].session.authorized THEN "loggedIn"
                          ELSE IF config.forwardUnauthorized THEN "forwarded" ELSE "unauthorized")
                EXCEPT !.cookie = "set"])
  /\ UNCHANGED <<provider, jar, fixed>>

\* After the 500 an unauthorized login is still forwarded where that is configured.
FinishLoginFails(r) ==
  /\ At(r, "finish") /\ "storage" \in config.faults
  /\ Goto(r, IF req[r].session.authorized \/ ~config.forwardUnauthorized
             THEN Answered(r, "error")
             ELSE [Moved(r, "forward") EXCEPT !.outcome = "error"])
  /\ UNCHANGED <<provider, store, jar, fixed>>

\* The response reaches the browser, in any order with the other responses.
Deliver(r) ==
  /\ At(r, "respond")
  /\ jar' = CASE req[r].cookie = "keep" -> jar
              [] req[r].cookie = "clear" -> NoSession
              [] req[r].cookie = "set" -> Ticket(req[r].session)
  /\ Goto(r, Idle)
  /\ UNCHANGED <<provider, store, fixed>>

\* A server-side session reaches its maximum age.
Lapse(id) ==
  /\ "expiry" \in config.faults /\ store[id] # NoSession
  /\ store' = [store EXCEPT ![id] = NoSession]
  /\ UNCHANGED <<provider, jar, req, fixed>>

Init ==
  /\ config \in Configurations
  /\ age = [n \in Tokens |-> "none"]
  /\ entitled = [n \in Tokens |-> FALSE]
  /\ usable = {}
  /\ store = [n \in Tokens |-> NoSession]
  /\ jar = NoSession
  /\ req = [r \in Requests |-> Idle]
  /\ ended = {} /\ final = {}

\* The bound of the model: no token is left to issue.
Exhausted == Issued = 1..config.tokens /\ UNCHANGED vars

Handle(r) ==
  \/ Load(r) \/ LoadFails(r)
  \/ ValidateHeader(r) \/ Validate(r)
  \/ Renew(r) \/ RenewRefused(r) \/ RenewFails(r) \/ Revalidate(r)
  \/ Authorize(r) \/ AttachHeadersFails(r) \/ Store(r) \/ StoreFails(r)
  \/ Forward(r) \/ Logout(r) \/ LogoutRefused(r)
  \/ Exchange(r) \/ ExchangeFails(r) \/ FinishLogin(r) \/ FinishLoginFails(r)
  \/ Deliver(r)

Next ==
  \/ \E n \in Tokens : Age(n) \/ Lapse(n)
  \/ \E r \in Requests :
       \/ \E kind \in config.kinds, public \in {FALSE, config.bypass} : Arrive(r, kind, public)
       \/ \E public \in {FALSE, config.bypass} : ArriveWithToken(r, public)
       \/ ArriveAtCallback(r) \/ ArriveAfterLogout(r)
       \/ Handle(r)
  \/ Exhausted

Spec == Init /\ [][Next]_vars

(***************************************************************************)
(* Properties                                                              *)
(***************************************************************************)

\* Every request gets an answer: ServeHTTP never dereferences an error that is
\* not there.
EveryRequestIsAnswered == \A r \in Requests : req[r].outcome # "panic"

\* What is handed to the upstream service with a session satisfies the rules:
\* by the claims of the very token that was validated for it when they are checked
\* on every request, else by those of the session's login - whatever renewals,
\* also by other requests, have replaced in the session since, and also when the
\* renewed session could not be stored.
ForwardedIsEntitled ==
  \A r \in Requests :
    ((At(r, "forward") \/ req[r].outcome = "forwarded") /\ req[r].session # NoSession) =>
      \/ config.forwardUnauthorized
      \/ IF config.checkOnEveryRequest \/ req[r].kind = "api"
         THEN entitled[Checked(req[r].session)]
         ELSE entitled[req[r].session.id]

\* Nothing is left that would let the session go on: a logout has deleted it, or
\* the IdToken of its login, which no renewal replaces, is over.
Over(id) == id \in ended \/ (config.keptIdToken /\ age[id] = "over")

Reliable == config.refreshTokens = "reusable" /\ config.faults \subseteq {"headers", "request"}

\* With refresh tokens that can be used again, and while storage and provider work,
\* requests that renew a session at the same time, in whatever order their results
\* are stored and their responses arrive, never make one of them end at the login
\* page, and no response takes the session out of the browser, unless it is over.
\* The exceptions: a login replaces it, the callback after a logout clears whatever
\* session the browser has, and so may (main.go:182-185, session.go:237) the late
\* response to a request that was sent before the browser had this session.
StaysLoggedIn ==
  [][Reliable =>
       \A r \in Requests : Deliver(r) =>
         /\ req[r].outcome = "unauthenticated" /\ req[r].ticket # NoSession =>
              Over(req[r].ticket.id)
         /\ jar # NoSession /\ jar'.id # jar.id =>
              \/ Over(jar.id)
              \/ req[r].kind \in {"login", "postLogout"}
              \/ req[r].ticket.id # jar.id]_vars

\* The session as a new request would find it.
Current(id) == IF config.storage = "server" THEN store[id] ELSE IF jar.id = id THEN jar ELSE NoSession

\* The request has the session's tokens and will store them (or sends the
\* cookie they are in).
Carries(r, id) ==
  /\ req[r].session.id = id /\ req[r].session.rt \in usable
  /\ \/ req[r].pc \in {"revalidate", "authorize", "store"}
     \/ req[r].pc \in {"forward", "respond"} /\ req[r].cookie = "set"

\* Requests may end before they have stored the tokens they have renewed: a fault,
\* a new token that is revoked at once, an IdToken that was kept and is over, or a
\* 403 for a session that fails the rules.
DropsRenewals ==
  config.faults # {} \/ config.introspection \/ config.keptIdToken
    \/ (~config.forwardUnauthorized /\ config.entitlements # {TRUE})

\* A renewed refresh token is not lost, unless requests end before they store
\* it: when the provider has replaced the one in a session, a request in flight is
\* bringing the new one to the session.
RefreshTokenIsKept ==
  ~DropsRenewals =>
    \A id \in Tokens \ ended :
      LET s == Current(id)
      IN  (s # NoSession /\ s.rt # 0) =>
            s.rt \in usable \/ \E r \in Requests : Carries(r, id)

\* A request that is slow to store its renewed session never overwrites a
\* later renewal: a provider that rotates refresh tokens serialises renewals.
SessionsNeverRollBack ==
  [][config.refreshTokens # "reusable" =>
       \A id \in Tokens :
         Current(id) # NoSession /\ Current(id)' # NoSession =>
           Current(id).at <= Current(id)'.at]_<<store, jar>>

\* A session that was deleted by a logout while no other request was using it
\* stays deleted: a cookie that comes back later does not revive it.
CleanLogoutIsFinal == \A id \in final : store[id] = NoSession

\* A logout removes the session for good.
LogoutRemovesSession == \A id \in ended : store[id] = NoSession

=============================================================================
