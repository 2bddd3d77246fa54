----------------------- MODULE InMemorySessionStorage -----------------------
(***************************************************************************)
(* InMemorySessionStorage (src/src/session/inMemorySessionStorage.go) used  *)
(* by concurrent requests.  A call reads the clock first and then enters    *)
(* one critical section of the RWMutex; a lookup that finds an expired      *)
(* entry under the read lock enters a second one, under the write lock, and *)
(* looks again.  What happens between two acquisitions of the lock is one   *)
(* step, so the lock itself is not a variable.  Ids are well-formed UUIDs:  *)
(* any other ticket is refused before the storage is touched.               *)
(***************************************************************************)
EXTENDS Integers

CONSTANTS Callers, Ids, States, NoSession, Idle, MaxAge, MaxTime

VARIABLES clock,     \* storage.now()
          entries,   \* storage.entries
          call,      \* arguments, "now" and result of each caller's call
          pc         \* where each caller is

vars == <<clock, entries, call, pc>>

Abstract == INSTANCE SessionStore WITH live <- entries

Entries == [state : States, expiresAt : Nat]

Requests == [op : {"store"}, id : Ids, state : States]
              \cup [op : {"get", "delete"}, id : Ids]

Calls == [req : Requests, since : Nat,
          result : States \cup {"pending", "done", "notFound"}]

ASSUME InMemoryAssumption ==
  /\ MaxAge \in Nat \ {0}
  /\ MaxTime \in Nat
  /\ NoSession \notin Entries
  /\ Idle \notin Calls
  /\ {"pending", "done", "notFound"} \cap States = {}

TypeOK ==
  /\ clock \in 0..MaxTime
  /\ entries \in [Ids -> Entries \cup {NoSession}]
  /\ call \in [Callers -> Calls \cup {Idle}]
  /\ pc \in [Callers -> {"idle", "lock", "relock", "return"}]

Tick == clock < MaxTime /\ clock' = clock + 1 /\ UNCHANGED <<entries, call, pc>>

\* A call starts: now is read before the lock is asked for.
Begin(c, request) ==
  /\ pc[c] = "idle"
  /\ call' = [call EXCEPT ![c] = [req |-> request, since |-> clock,
                                  result |-> "pending"]]
  /\ pc' = [pc EXCEPT ![c] = "lock"]
  /\ UNCHANGED <<clock, entries>>

\* !now.Before(entry.expiresAt), for the now of caller c
Expired(c, id) == entries[id] # NoSession /\ entries[id].expiresAt <= call[c].since

EvictExpired(c) ==
  [id \in Ids |-> IF Expired(c, id) THEN NoSession ELSE entries[id]]

Finish(c, result) ==
  /\ call' = [call EXCEPT ![c].result = result]
  /\ pc' = [pc EXCEPT ![c] = "return"]
  /\ UNCHANGED clock

\* Fault: the lifetime is subtracted.
StoreSession_Fault(c) ==
  /\ pc[c] = "lock" /\ call[c].req.op = "store"
  /\ entries' = [EvictExpired(c) EXCEPT ![call[c].req.id] =
                   [state |-> call[c].req.state, expiresAt |-> call[c].since - MaxAge]]
  /\ Finish(c, "done")

StoreSession(c) ==
  /\ pc[c] = "lock" /\ call[c].req.op = "store"
  /\ entries' = [EvictExpired(c) EXCEPT ![call[c].req.id] =
                   [state |-> call[c].req.state, expiresAt |-> call[c].since + MaxAge]]
  /\ Finish(c, "done")

DeleteSession(c) ==
  /\ pc[c] = "lock" /\ call[c].req.op = "delete"
  /\ entries' = [entries EXCEPT ![call[c].req.id] = NoSession]
  /\ Finish(c, "done")

(***************************************************************************)
(* TryGetSession: the look under the read lock ...                         *)
(***************************************************************************)
AtRead(c) == pc[c] = "lock" /\ call[c].req.op = "get"

ReadAbsent(c) ==
  /\ AtRead(c)
  /\ entries[call[c].req.id] = NoSession
  /\ Finish(c, "notFound")
  /\ UNCHANGED entries

ReadLive(c) ==
  /\ AtRead(c)
  /\ entries[call[c].req.id] # NoSession
  /\ ~Expired(c, call[c].req.id)
  /\ Finish(c, entries[call[c].req.id].state)
  /\ UNCHANGED entries

ReadExpired(c) ==
  /\ AtRead(c)
  /\ Expired(c, call[c].req.id)
  /\ pc' = [pc EXCEPT ![c] = "relock"]
  /\ UNCHANGED <<clock, entries, call>>

(***************************************************************************)
(* ... and the second look, under the write lock, with the same now.        *)
(***************************************************************************)
\* Fault: the second look returns whatever entry is there.
RecheckRefreshed_Fault(c) ==
  /\ pc[c] = "relock"
  /\ entries[call[c].req.id] # NoSession
  /\ Finish(c, entries[call[c].req.id].state)
  /\ UNCHANGED entries

RecheckRefreshed(c) ==
  /\ pc[c] = "relock"
  /\ entries[call[c].req.id] # NoSession
  /\ ~Expired(c, call[c].req.id)
  /\ Finish(c, entries[call[c].req.id].state)
  /\ UNCHANGED entries

\* Fault: the entry is removed without looking at it again.
RecheckRemove_Fault(c) ==
  /\ pc[c] = "relock"
  /\ entries' = [entries EXCEPT ![call[c].req.id] = NoSession]
  /\ Finish(c, "notFound")

RecheckRemove(c) ==
  /\ pc[c] = "relock"
  /\ entries[call[c].req.id] = NoSession \/ Expired(c, call[c].req.id)
  /\ entries' = [entries EXCEPT ![call[c].req.id] = NoSession]
  /\ Finish(c, "notFound")

Return(c) ==
  /\ pc[c] = "return"
  /\ pc' = [pc EXCEPT ![c] = "idle"]
  /\ call' = [call EXCEPT ![c] = Idle]
  /\ UNCHANGED <<clock, entries>>

Init ==
  /\ clock = 0
  /\ entries = [id \in Ids |-> NoSession]
  /\ call = [c \in Callers |-> Idle]
  /\ pc = [c \in Callers |-> "idle"]

Next ==
  \/ Tick
  \/ \E c \in Callers :
       \/ \E request \in Requests : Begin(c, request)
       \/ StoreSession(c) \/ DeleteSession(c)
       \/ ReadAbsent(c) \/ ReadLive(c) \/ ReadExpired(c)
       \/ RecheckRefreshed(c) \/ RecheckRemove(c)
       \/ Return(c)

Spec == Init /\ [][Next]_vars

(***************************************************************************)
(* Properties                                                              *)
(***************************************************************************)

\* The storage promises what the abstract session store promises, for every
\* interleaving of its critical sections: a lookup never returns a session
\* that was over when the lookup began, never misses one that was live, and
\* the second look under the write lock never drops what a concurrent
\* StoreSession has just refreshed.
ImplementsSessionStore == Abstract!Spec

\* An entry disappears only in a DeleteSession of its id or after its expiry:
\* neither the eviction in StoreSession nor the removal in TryGetSession, both
\* working with a "now" read before the lock was taken, drops a live session.
LiveEntriesStay ==
  [][\A id \in Ids :
       (entries[id] # NoSession /\ entries'[id] = NoSession) =>
         \/ entries[id].expiresAt <= clock
         \/ \E c \in Callers : DeleteSession(c) /\ call[c].req.id = id]_vars

=============================================================================
