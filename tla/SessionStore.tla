---------------------------- MODULE SessionStore ----------------------------
(***************************************************************************)
(* What the middleware expects of a server-side session storage: the      *)
(* SessionStorage interface (Store / TryGet / Delete) over a map of        *)
(* sessions with a limited lifetime, each call taking effect at one        *)
(* instant between its start and its return.                               *)
(***************************************************************************)
EXTENDS Integers

CONSTANTS Callers,      \* requests that use the storage concurrently
          Ids,          \* session ids
          States,       \* session contents (tokens and flags), left abstract
          NoSession,    \* stands for an id the storage has no entry for
          Idle,         \* stands for a caller that is in no call
          MaxAge,       \* lifetime of a stored session
          MaxTime       \* bound of the clock

Outcomes == {"pending", "done", "notFound"}

Entries == [state : States, expiresAt : Nat]

Requests == [op : {"store"}, id : Ids, state : States]
              \cup [op : {"get", "delete"}, id : Ids]

\* A call: what it asks for, when it started, and its result once it has one.
Calls == [req : Requests, since : Nat, result : States \cup Outcomes]

VARIABLES clock,    \* the time now() reads
          live,     \* the sessions in the storage
          call      \* the call each caller is in, or has just finished

vars == <<clock, live, call>>

(***************************************************************************)
(* Time and the life of a call.                                            *)
(***************************************************************************)
Tick == clock < MaxTime /\ clock' = clock + 1 /\ UNCHANGED <<live, call>>

Begin(c, request) ==
  /\ call[c] = Idle
  /\ call' = [call EXCEPT ![c] = [req |-> request, since |-> clock,
                                  result |-> "pending"]]
  /\ UNCHANGED <<clock, live>>

Pending(c, op) ==
  call[c] # Idle /\ call[c].req.op = op /\ call[c].result = "pending"

Resolve(c, outcome) == call' = [call EXCEPT ![c].result = outcome]

Return(c) ==
  /\ call[c] # Idle /\ call[c].result # "pending"
  /\ call' = [call EXCEPT ![c] = Idle]
  /\ UNCHANGED <<clock, live>>

(***************************************************************************)
(* The instant at which a call takes effect.                               *)
(***************************************************************************)
HasExpired(id, t) == live[id] # NoSession /\ live[id].expiresAt <= t

Without(gone) == [id \in Ids |-> IF id \in gone THEN NoSession ELSE live[id]]

\* A store sets the session, which lives for MaxAge from the start of the
\* call, and may drop sessions that are over.
Store(c) ==
  /\ Pending(c, "store")
  /\ \E gone \in SUBSET {id \in Ids : HasExpired(id, clock)} :
       live' = [Without(gone) EXCEPT ![call[c].req.id] =
                  [state |-> call[c].req.state, expiresAt |-> call[c].since + MaxAge]]
  /\ Resolve(c, "done")
  /\ UNCHANGED clock

\* A lookup finds a session that was not over when the lookup started.
Find(c) ==
  /\ Pending(c, "get")
  /\ live[call[c].req.id] # NoSession
  /\ ~HasExpired(call[c].req.id, call[c].since)
  /\ Resolve(c, live[call[c].req.id].state)
  /\ UNCHANGED <<clock, live>>

\* It misses only when there is no session or the session was already over;
\* it may drop the latter.
Miss(c) ==
  /\ Pending(c, "get")
  /\ \/ live[call[c].req.id] = NoSession
     \/ HasExpired(call[c].req.id, call[c].since)
  /\ live' \in {live, Without({call[c].req.id})}
  /\ Resolve(c, "notFound")
  /\ UNCHANGED clock

Delete(c) ==
  /\ Pending(c, "delete")
  /\ live' = Without({call[c].req.id})
  /\ Resolve(c, "done")
  /\ UNCHANGED clock

Init ==
  /\ clock = 0
  /\ live = [id \in Ids |-> NoSession]
  /\ call = [c \in Callers |-> Idle]

Next ==
  \/ Tick
  \/ \E c \in Callers :
       \/ \E request \in Requests : Begin(c, request)
       \/ Store(c) \/ Find(c) \/ Miss(c) \/ Delete(c) \/ Return(c)

Spec == Init /\ [][Next]_vars
=============================================================================
