-------------------- MODULE InMemorySessionStorage_proofs --------------------
(***************************************************************************)
(* InMemorySessionStorage is type correct, keeps live entries, and          *)
(* implements SessionStore, for any callers, ids, contents and lifetime.    *)
(***************************************************************************)
EXTENDS InMemorySessionStorage, TLAPS

\* What relates a caller's position to its call; the clock conjunct is what
\* makes an expiry seen with an old "now" an expiry at the current time.
CallsAgree ==
  \A c \in Callers :
    /\ pc[c] = "idle" <=> call[c] = Idle
    /\ pc[c] = "return" => call[c].result # "pending"
    /\ pc[c] \in {"lock", "relock"} => call[c].result = "pending"
    /\ pc[c] = "relock" => call[c].req.op = "get"
    /\ pc[c] # "idle" => call[c].since <= clock

IInv == TypeOK /\ CallsAgree

\* The arguments of a caller that is in a call.
LEMMA CallTypes ==
  ASSUME TypeOK, NEW c \in Callers, call[c] # Idle
  PROVE  /\ call[c] \in Calls
         /\ call[c].req.id \in Ids
         /\ call[c].req.op = "store" => call[c].req.state \in States
         /\ call[c].since \in Nat
         /\ call[c].since + MaxAge \in Nat
  <1>1. call[c] \in Calls
    BY DEF TypeOK
  <1>2. call[c].req \in Requests /\ call[c].since \in Nat
    BY <1>1 DEF Calls
  <1>3. QED
    BY <1>1, <1>2, InMemoryAssumption DEF Requests

LEMMA InitIInv == Init => IInv
  BY InMemoryAssumption DEF Init, IInv, TypeOK, CallsAgree

\* A step that gives a call its result.
LEMMA FinishStep ==
  ASSUME IInv, NEW c \in Callers, pc[c] \in {"lock", "relock"},
         NEW result \in States \cup {"done", "notFound"},
         entries' \in [Ids -> Entries \cup {NoSession}],
         Finish(c, result)
  PROVE  IInv'
  <1>0. call[c] # Idle
    BY DEF IInv, CallsAgree
  <1>1. call[c] \in Calls
    BY <1>0, CallTypes DEF IInv
  <1>2. [call[c] EXCEPT !.result = result] \in Calls
    BY <1>1 DEF Calls
  <1>3. call' \in [Callers -> Calls \cup {Idle}]
    BY <1>2 DEF IInv, TypeOK, Finish
  <1>4. TypeOK'
    BY <1>3 DEF IInv, TypeOK, Finish
  <1>5. /\ call'[c] = [call[c] EXCEPT !.result = result] /\ pc'[c] = "return"
        /\ \A d \in Callers \ {c} : call'[d] = call[d] /\ pc'[d] = pc[d]
        /\ clock' = clock
    BY DEF IInv, TypeOK, Finish
  <1>6. call'[c].result = result /\ call'[c].since = call[c].since
    BY <1>1, <1>5 DEF Calls
  <1>7. call'[c] # Idle
    BY <1>2, <1>5, InMemoryAssumption
  <1>8. result # "pending"
    BY InMemoryAssumption
  <1>9. ASSUME NEW d \in Callers
        PROVE  /\ pc'[d] = "idle" <=> call'[d] = Idle
               /\ pc'[d] = "return" => call'[d].result # "pending"
               /\ pc'[d] \in {"lock", "relock"} => call'[d].result = "pending"
               /\ pc'[d] = "relock" => call'[d].req.op = "get"
               /\ pc'[d] # "idle" => call'[d].since <= clock'
    <2>1. CASE d = c
      BY <2>1, <1>5, <1>6, <1>7, <1>8 DEF IInv, CallsAgree
    <2>2. CASE d # c
      BY <2>2, <1>5 DEF IInv, CallsAgree
    <2>3. QED
      BY <2>1, <2>2
  <1>10. CallsAgree'
    BY <1>9 DEF CallsAgree
  <1>11. QED
    BY <1>4, <1>10 DEF IInv

\* What the storage holds after eviction and a store.
LEMMA EntriesAfterStore ==
  ASSUME TypeOK, NEW c \in Callers, call[c] # Idle, call[c].req.op = "store"
  PROVE  [EvictExpired(c) EXCEPT ![call[c].req.id] =
            [state |-> call[c].req.state, expiresAt |-> call[c].since + MaxAge]]
           \in [Ids -> Entries \cup {NoSession}]
  <1>1. EvictExpired(c) \in [Ids -> Entries \cup {NoSession}]
    BY DEF TypeOK, EvictExpired
  <1>2. [state |-> call[c].req.state, expiresAt |-> call[c].since + MaxAge] \in Entries
    BY CallTypes DEF Entries
  <1>3. QED
    BY <1>1, <1>2

\* Every step preserves the inductive invariant.
LEMMA NextIInv == IInv /\ [Next]_vars => IInv'
  <1> SUFFICES ASSUME IInv, [Next]_vars PROVE IInv'
    OBVIOUS
  <1>1. CASE Tick
    <2>1. TypeOK'
      BY <1>1, InMemoryAssumption DEF Tick, IInv, TypeOK
    <2>2. \A c \in Callers : pc[c] # "idle" => call[c].since \in Nat
      BY CallTypes DEF IInv, CallsAgree
    <2>3. CallsAgree'
      BY <1>1, <2>2 DEF Tick, IInv, TypeOK, CallsAgree
    <2>4. QED
      BY <2>1, <2>3 DEF IInv
  <1>2. ASSUME NEW c \in Callers, NEW request \in Requests, Begin(c, request)
        PROVE  IInv'
    <2> DEFINE k == [req |-> request, since |-> clock, result |-> "pending"]
    <2>1. k \in Calls /\ k.result = "pending" /\ k.since = clock
      BY DEF Calls, IInv, TypeOK
    <2>2. k # Idle
      BY <2>1, InMemoryAssumption
    <2>3. call' = [call EXCEPT ![c] = k] /\ pc' = [pc EXCEPT ![c] = "lock"]
          /\ UNCHANGED <<clock, entries>>
      BY <1>2 DEF Begin
    <2> HIDE DEF k
    <2>4. TypeOK'
      BY <2>1, <2>3 DEF IInv, TypeOK
    <2>5. CallsAgree'
      BY <2>1, <2>2, <2>3 DEF IInv, TypeOK, CallsAgree
    <2>6. QED
      BY <2>4, <2>5 DEF IInv
  <1>3. ASSUME NEW c \in Callers, StoreSession(c) PROVE IInv'
    <2>1. call[c] # Idle
      BY <1>3 DEF StoreSession, IInv, CallsAgree
    <2>2. entries' \in [Ids -> Entries \cup {NoSession}]
      BY <1>3, <2>1, EntriesAfterStore DEF StoreSession, IInv
    <2>3. QED
      BY <1>3, <2>2, FinishStep DEF StoreSession
  <1>4. ASSUME NEW c \in Callers, DeleteSession(c) PROVE IInv'
    <2>1. entries' \in [Ids -> Entries \cup {NoSession}]
      BY <1>4 DEF DeleteSession, IInv, TypeOK
    <2>2. QED
      BY <1>4, <2>1, FinishStep DEF DeleteSession
  <1>5. ASSUME NEW c \in Callers,
               ReadAbsent(c) \/ RecheckRemove(c)
        PROVE  IInv'
    <2>1. entries' \in [Ids -> Entries \cup {NoSession}]
      BY <1>5 DEF ReadAbsent, RecheckRemove, IInv, TypeOK
    <2>2. pc[c] \in {"lock", "relock"} /\ Finish(c, "notFound")
      BY <1>5 DEF ReadAbsent, RecheckRemove, AtRead
    <2>3. QED
      BY <2>1, <2>2, FinishStep
  <1>6. ASSUME NEW c \in Callers,
               ReadLive(c) \/ RecheckRefreshed(c)
        PROVE  IInv'
    <2>1. pc[c] \in {"lock", "relock"} /\ UNCHANGED entries
          /\ entries[call[c].req.id] # NoSession
          /\ Finish(c, entries[call[c].req.id].state)
      BY <1>6 DEF ReadLive, RecheckRefreshed, AtRead
    <2>2. call[c].req.id \in Ids
      BY <2>1, CallTypes DEF IInv, CallsAgree
    <2>3. entries[call[c].req.id] \in Entries
      BY <2>1, <2>2 DEF IInv, TypeOK
    <2>4. entries[call[c].req.id].state \in States
      BY <2>3 DEF Entries
    <2>5. entries' \in [Ids -> Entries \cup {NoSession}]
      BY <2>1 DEF IInv, TypeOK
    <2>6. QED
      BY <2>1, <2>4, <2>5, FinishStep
  <1>7. ASSUME NEW c \in Callers, ReadExpired(c) PROVE IInv'
    BY <1>7 DEF ReadExpired, AtRead, IInv, TypeOK, CallsAgree
  <1>8. ASSUME NEW c \in Callers, Return(c) PROVE IInv'
    BY <1>8 DEF Return, IInv, TypeOK, CallsAgree
  <1>9. CASE UNCHANGED vars
    BY <1>9 DEF vars, IInv, TypeOK, CallsAgree
  <1>10. QED
    BY <1>1, <1>2, <1>3, <1>4, <1>5, <1>6, <1>7, <1>8, <1>9 DEF Next

\* The variables keep their types, and a caller's position agrees with its
\* call: the invariant the other theorems rest on.
THEOREM TypeCorrect == Spec => []TypeOK
  <1>1. Spec => []IInv
    BY InitIInv, NextIInv, PTL DEF Spec
  <1>2. IInv => TypeOK
    BY DEF IInv
  <1>3. QED
    BY <1>1, <1>2, PTL

\* Evicted entries had expired by the clock as well as by the caller's "now".
LEMMA ExpiredIsOver ==
  ASSUME IInv, NEW c \in Callers, call[c] # Idle, NEW id \in Ids, Expired(c, id)
  PROVE  entries[id] \in Entries /\ entries[id].expiresAt <= clock
  <1>1. entries[id] \in Entries /\ entries[id].expiresAt \in Nat
    BY DEF IInv, TypeOK, Expired, Entries
  <1>2. call[c].since \in Nat /\ call[c].since <= clock
    BY CallTypes DEF IInv, CallsAgree
  <1>3. QED
    BY <1>1, <1>2 DEF Expired, IInv, TypeOK

\* No step drops a live entry unless it is a DeleteSession of that id: the
\* eviction of StoreSession and the removal of TryGetSession take only entries
\* that are over, although their "now" is older than the lock they hold.
THEOREM LiveEntriesAreKept == Spec => LiveEntriesStay
  <1> DEFINE Kept ==
        \A id \in Ids :
          (entries[id] # NoSession /\ entries'[id] = NoSession) =>
            \/ entries[id].expiresAt <= clock
            \/ \E c \in Callers : DeleteSession(c) /\ call[c].req.id = id
  <1>1. ASSUME IInv, [Next]_vars PROVE Kept
    <2> SUFFICES ASSUME NEW id \in Ids, entries[id] # NoSession,
                        entries'[id] = NoSession,
                        ~ (entries[id].expiresAt <= clock)
                 PROVE  \E c \in Callers : DeleteSession(c) /\ call[c].req.id = id
      OBVIOUS
    <2>1. ASSUME NEW c \in Callers, StoreSession(c) PROVE FALSE
      <3>1. call[c] # Idle /\ call[c].req.op = "store"
        BY <2>1, <1>1 DEF StoreSession, IInv, CallsAgree
      <3>2. [state |-> call[c].req.state, expiresAt |-> call[c].since + MaxAge] \in Entries
        BY <3>1, <1>1, CallTypes DEF Entries, IInv
      <3>3. ~Expired(c, id)
        BY <3>1, <1>1, ExpiredIsOver
      <3>4. EvictExpired(c)[id] # NoSession
        BY <3>3 DEF EvictExpired
      <3>5. entries'[id] # NoSession
        BY <2>1, <3>2, <3>4, InMemoryAssumption DEF StoreSession, EvictExpired
      <3>6. QED
        BY <3>5
    <2>2. ASSUME NEW c \in Callers, RecheckRemove(c) PROVE FALSE
      <3>1. call[c] # Idle
        BY <2>2, <1>1 DEF RecheckRemove, IInv, CallsAgree
      <3>2. ~Expired(c, id)
        BY <3>1, <1>1, ExpiredIsOver
      <3>3. QED
        BY <2>2, <3>2, <1>1 DEF RecheckRemove, IInv, TypeOK
    <2>3. ASSUME NEW c \in Callers, DeleteSession(c) PROVE call[c].req.id = id
      BY <2>3, <1>1 DEF DeleteSession, IInv, TypeOK
    <2>4. entries' # entries
      OBVIOUS
    <2>5. QED
      BY <2>1, <2>2, <2>3, <2>4, <1>1
         DEF Next, vars, Tick, Begin, ReadAbsent, ReadLive, ReadExpired,
             RecheckRefreshed, Return
  <1>2. Kept => [Kept]_vars
    OBVIOUS
  <1>3. Spec => []IInv
    BY InitIInv, NextIInv, PTL DEF Spec
  <1>4. IInv /\ [Next]_vars => [Kept]_vars
    BY <1>1
  <1>5. QED
    BY <1>3, <1>4, PTL DEF Spec, LiveEntriesStay

\* The abstract store reads the same expiry, with the caller's own "now".
LEMMA SameExpiry ==
  ASSUME NEW c \in Callers, NEW id \in Ids
  PROVE  Expired(c, id) <=> Abstract!HasExpired(id, call[c].since)
  BY DEF Expired, Abstract!HasExpired

\* Removing one id.
LEMMA RemoveOne ==
  ASSUME TypeOK, NEW id \in Ids
  PROVE  [entries EXCEPT ![id] = NoSession] = Abstract!Without({id})
  BY DEF TypeOK, Abstract!Without

\* Every step of the storage is a step of the abstract store or changes
\* nothing the abstract store sees.
LEMMA StepRefines == IInv /\ [Next]_vars => [Abstract!Next]_(Abstract!vars)
  <1> SUFFICES ASSUME IInv, [Next]_vars
               PROVE  Abstract!Next \/ UNCHANGED <<clock, entries, call>>
    BY DEF Abstract!vars
  <1>1. CASE Tick
    BY <1>1 DEF Tick, Abstract!Tick, Abstract!Next
  <1>2. ASSUME NEW c \in Callers, NEW request \in Requests, Begin(c, request)
        PROVE  Abstract!Next
    <2>1. call[c] = Idle /\ request \in Abstract!Requests
      BY <1>2 DEF Begin, IInv, CallsAgree, Requests, Abstract!Requests
    <2>2. Abstract!Begin(c, request)
      BY <1>2, <2>1 DEF Begin, Abstract!Begin
    <2>3. QED
      BY <2>1, <2>2 DEF Abstract!Next
  <1>3. ASSUME NEW c \in Callers, StoreSession(c) PROVE Abstract!Next
    <2> DEFINE gone == {id \in Ids : Expired(c, id)}
    <2>1. call[c] # Idle /\ Abstract!Pending(c, "store")
      BY <1>3 DEF StoreSession, IInv, CallsAgree, Abstract!Pending
    <2>2. \A id \in gone : Abstract!HasExpired(id, clock)
      BY <2>1, ExpiredIsOver DEF Expired, Abstract!HasExpired
    <2>3. EvictExpired(c) = Abstract!Without(gone)
      BY DEF EvictExpired, Abstract!Without
    <2>4. entries' = [Abstract!Without(gone) EXCEPT ![call[c].req.id] =
                        [state |-> call[c].req.state,
                         expiresAt |-> call[c].since + MaxAge]]
      BY <1>3, <2>3 DEF StoreSession
    <2>5. gone \in SUBSET {id \in Ids : Abstract!HasExpired(id, clock)}
      BY <2>2
    <2> HIDE DEF gone
    <2>6. Abstract!Store(c)
      BY <1>3, <2>1, <2>4, <2>5
         DEF StoreSession, Finish, Abstract!Store, Abstract!Resolve
    <2>7. QED
      BY <2>6 DEF Abstract!Next
  <1>4. ASSUME NEW c \in Callers, DeleteSession(c) PROVE Abstract!Next
    <2>1. call[c] # Idle /\ Abstract!Pending(c, "delete")
      BY <1>4 DEF DeleteSession, IInv, CallsAgree, Abstract!Pending
    <2>2. entries' = Abstract!Without({call[c].req.id})
      BY <1>4, <2>1, CallTypes, RemoveOne DEF DeleteSession, IInv
    <2>3. Abstract!Delete(c)
      BY <1>4, <2>1, <2>2
         DEF DeleteSession, Finish, Abstract!Delete, Abstract!Resolve
    <2>4. QED
      BY <2>3 DEF Abstract!Next
  <1>5. ASSUME NEW c \in Callers, ReadAbsent(c) \/ RecheckRemove(c)
        PROVE  Abstract!Next
    <2>1. call[c] # Idle /\ Abstract!Pending(c, "get") /\ call[c].req.id \in Ids
      BY <1>5, CallTypes
         DEF ReadAbsent, RecheckRemove, AtRead, IInv, CallsAgree, Abstract!Pending
    <2>2. \/ entries[call[c].req.id] = NoSession
          \/ Abstract!HasExpired(call[c].req.id, call[c].since)
      BY <1>5, <2>1, SameExpiry DEF ReadAbsent, RecheckRemove
    <2>3. entries' \in {entries, Abstract!Without({call[c].req.id})}
      BY <1>5, <2>1, RemoveOne DEF ReadAbsent, RecheckRemove, IInv
    <2>4. Abstract!Miss(c)
      BY <1>5, <2>1, <2>2, <2>3
         DEF ReadAbsent, RecheckRemove, Finish, Abstract!Miss, Abstract!Resolve
    <2>5. QED
      BY <2>4 DEF Abstract!Next
  <1>6. ASSUME NEW c \in Callers, ReadLive(c) \/ RecheckRefreshed(c)
        PROVE  Abstract!Next
    <2>1. call[c] # Idle /\ Abstract!Pending(c, "get") /\ call[c].req.id \in Ids
      BY <1>6, CallTypes
         DEF ReadLive, RecheckRefreshed, AtRead, IInv, CallsAgree, Abstract!Pending
    <2>2. /\ entries[call[c].req.id] # NoSession
          /\ ~Abstract!HasExpired(call[c].req.id, call[c].since)
      BY <1>6, <2>1, SameExpiry DEF ReadLive, RecheckRefreshed
    <2>3. Abstract!Find(c)
      BY <1>6, <2>1, <2>2
         DEF ReadLive, RecheckRefreshed, Finish, Abstract!Find, Abstract!Resolve
    <2>4. QED
      BY <2>3 DEF Abstract!Next
  <1>7. ASSUME NEW c \in Callers, ReadExpired(c) PROVE UNCHANGED <<clock, entries, call>>
    BY <1>7 DEF ReadExpired
  <1>8. ASSUME NEW c \in Callers, Return(c) PROVE Abstract!Next
    <2>1. call[c] # Idle /\ call[c].result # "pending"
      BY <1>8 DEF Return, IInv, CallsAgree
    <2>2. Abstract!Return(c)
      BY <1>8, <2>1 DEF Return, Abstract!Return
    <2>3. QED
      BY <2>2 DEF Abstract!Next
  <1>9. CASE UNCHANGED vars
    BY <1>9 DEF vars
  <1>10. QED
    BY <1>1, <1>2, <1>3, <1>4, <1>5, <1>6, <1>7, <1>8, <1>9 DEF Next

\* The storage implements the abstract session store: whatever the order in
\* which concurrent calls take the lock, each of them takes effect at one
\* instant, and lookups neither return a session that was over when they began
\* nor miss one that was live.
THEOREM Refinement == Spec => ImplementsSessionStore
  <1>1. Init => Abstract!Init
    BY DEF Init, Abstract!Init
  <1>2. Spec => []IInv
    BY InitIInv, NextIInv, PTL DEF Spec
  <1>3. QED
    BY <1>1, <1>2, StepRefines, PTL DEF Spec, ImplementsSessionStore, Abstract!Spec
=============================================================================
