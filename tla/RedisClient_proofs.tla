------------------------- MODULE RedisClient_proofs -------------------------
(***************************************************************************)
(* The safety of RedisClient for any callers, keys, pools, connections and  *)
(* limits.  The inductive invariant says where each connection, slot and    *)
(* pool is at every point of a call; that the sets counted are finite is    *)
(* part of it, so that none of the constant sets has to be.                 *)
(***************************************************************************)
EXTENDS RedisClient, FiniteSetTheorems, SequenceTheorems, TLAPS

\* The values of the fields, named.
Places == {"idle", "slot", "pop", "dial", "write", "read", "put", "free", "release"}
Results == {Nothing, Error, ServerError} \cup Numbers
Kinds == {"value", "error"}
Entries == [pool : Pools \cup {None}, inUse : Nat]
PoolRecords == [key : Keys \cup {None}, slots : Nat, idle : Seq(Conns)]
ConnRecords == [open : BOOLEAN, key : Keys \cup {None}, up : BOOLEAN,
                inbox : Seq(Numbers), outbox : Seq(Numbers \X Kinds)]
CallerRecords == [pc : Places, key : Keys \cup {None}, pool : Pools \cup {None},
                  conn : Conns \cup {None}, reused : BOOLEAN,
                  attempt : 0..2, call : 0..MaxCalls, got : Results]

\* The places of a caller that has a slot, and of one that has a connection.
Holding == {"pop", "dial", "write", "read", "put", "free"}
Connected == {"write", "read", "put"}
Holders(p) == {c \in Callers : callers[c].pool = p /\ callers[c].pc \in Holding}
IsRegistered(p) == \E k \in Keys : registry[k].pool = p

\* A caller in a call works with the pool its key is registered with, has a
\* connection from take to put and a result of its own command only.
CallersAgree ==
  \A c \in Callers :
    /\ callers[c].pc = "idle" => callers[c] = Resting
    /\ callers[c].pc # "idle" =>
         /\ callers[c].key \in Keys /\ callers[c].pool \in Pools /\ callers[c].call \in Numbers
         /\ registry[callers[c].key].pool = callers[c].pool
    /\ callers[c].conn # None <=> callers[c].pc \in Connected
    /\ callers[c].pc \in {"slot", "pop", "dial", "write", "read"} => callers[c].got = Nothing
    /\ callers[c].got \in Numbers => callers[c].got = callers[c].call

\* A registered pool is its key's own, and inUse counts the callers of the key.
RegistryAgrees ==
  \A k \in Keys :
    /\ registry[k].pool = None => registry[k] = NoEntry
    /\ registry[k].pool # None =>
         /\ pools[registry[k].pool].key = k
         /\ \A j \in Keys : registry[j].pool = registry[k].pool => j = k
    /\ IsFiniteSet(Using(k)) /\ registry[k].inUse = Cardinality(Using(k))

\* Eviction makes room before a pool is added.
PoolsAreFew == IsFiniteSet(Registered) /\ Cardinality(Registered) <= MaxPools

\* The slots taken are those of the callers between take and put's release.
SlotsAgree ==
  \A p \in Pools :
    /\ IsFiniteSet(Holders(p)) /\ pools[p].slots = Cardinality(Holders(p))
    /\ pools[p].slots <= MaxConnections

\* Nothing is in transit on d.
Clean(d) == conns[d].inbox = <<>> /\ conns[d].outbox = <<>>

\* The i-th idle connection of p is open, authenticated for p's key, has nothing
\* in transit and is nobody else's.
IdleRight(p, i) ==
  LET d == pools[p].idle[i] IN
  /\ conns[d].open /\ conns[d].key = pools[p].key /\ Clean(d)
  /\ \A j \in DOMAIN pools[p].idle : pools[p].idle[j] = d => j = i
  /\ \A c \in Callers : callers[c].conn # d

\* An evicted pool is left empty, and what lies in a stack may be reused.
IdleAgrees ==
  \A p \in Pools : /\ ~IsRegistered(p) => pools[p].idle = <<>>
                   /\ \A i \in DOMAIN pools[p].idle : IdleRight(p, i)

\* On d there is at most command n or its reply.
Awaits(d, n) ==
  \/ Clean(d)
  \/ conns[d].inbox = <<n>> /\ conns[d].outbox = <<>>
  \/ conns[d].inbox = <<>> /\ \E kind \in Kinds : conns[d].outbox = <<<<n, kind>>>>

\* The connection of caller c is its own, and carries no command but c's; it has
\* nothing in transit before c writes and once c has read a reply.
HeldRight(c) ==
  LET d == callers[c].conn IN
  /\ conns[d].open /\ conns[d].key = callers[c].key
  /\ \A b \in Callers : callers[b].conn = d => b = c
  /\ callers[c].pc = "write" => Clean(d)
  /\ callers[c].pc = "read" => Awaits(d, callers[c].call)
  /\ callers[c].pc = "put" /\ callers[c].got \in Numbers => Clean(d)

HeldAgrees == \A c \in Callers : callers[c].conn # None => HeldRight(c)

\* No connection is open that neither a caller nor a stack has.
OpenIsOwned ==
  \A d \in Conns : conns[d].open =>
    \/ \E c \in Callers : callers[c].conn = d
    \/ \E p \in Pools : \E i \in DOMAIN pools[p].idle : pools[p].idle[i] = d

\* The connections open to a key and those being dialed, of the first conjunct of
\* ConnectionLimit.
LimitAgrees ==
  \A k \in Keys :
    /\ IsFiniteSet(OpenTo(k)) /\ IsFiniteSet(Dialing(k))
    /\ Cardinality(OpenTo(k)) + Cardinality(Dialing(k)) <= MaxConnections

\* The inductive invariant.
IInv == /\ TypeOK /\ CallersAgree /\ RegistryAgrees /\ PoolsAreFew /\ SlotsAgree
        /\ IdleAgrees /\ HeldAgrees /\ OpenIsOwned /\ LimitAgrees

\* TypeOK with its sets named, in this state and in the next one.
LEMMA Typed ==
  TypeOK <=> /\ registry \in [Keys -> Entries]
             /\ recency \in SUBSET (Keys \X Keys)
             /\ pools \in [Pools -> PoolRecords]
             /\ conns \in [Conns -> ConnRecords]
             /\ callers \in [Callers -> CallerRecords]
             /\ calls \in 0..MaxCalls
  BY DEF TypeOK, Entries, PoolRecords, ConnRecords, CallerRecords, Places, Results, Kinds

LEMMA TypedNext ==
  TypeOK' <=> /\ registry' \in [Keys -> Entries]
             /\ recency' \in SUBSET (Keys \X Keys)
             /\ pools' \in [Pools -> PoolRecords]
             /\ conns' \in [Conns -> ConnRecords]
             /\ callers' \in [Callers -> CallerRecords]
             /\ calls' \in 0..MaxCalls
  BY DEF TypeOK, Entries, PoolRecords, ConnRecords, CallerRecords, Places, Results, Kinds

\* The fields of the constant records.
LEMMA Rests ==
  /\ Resting \in CallerRecords /\ Resting.pc = "idle" /\ Resting.key = None
  /\ Resting.pool = None /\ Resting.conn = None /\ Resting.call = 0 /\ Resting.got = Nothing
  BY RedisClientAssumption DEF Resting, CallerRecords, Places, Results

LEMMA Constants ==
  /\ NoEntry \in Entries /\ NoEntry.pool = None /\ NoEntry.inUse = 0
  /\ FreshPool \in PoolRecords /\ FreshPool.key = None /\ FreshPool.slots = 0 /\ FreshPool.idle = <<>>
  /\ NoConnection \in ConnRecords /\ ~NoConnection.open /\ ~NoConnection.up
  /\ NoConnection.inbox = <<>> /\ NoConnection.outbox = <<>>
  BY DEF NoEntry, FreshPool, NoConnection, Entries, PoolRecords, ConnRecords

\* The sets of callers after caller c has become r.
LEMMA Regrouped ==
  ASSUME callers \in [Callers -> CallerRecords], NEW c \in Callers, NEW r, Goto(c, r)
  PROVE  /\ \A d \in Callers : callers'[d] = IF d = c THEN r ELSE callers[d]
         /\ \A p \in Pools : Holders(p)' = IF r.pool = p /\ r.pc \in Holding
                                           THEN Holders(p) \cup {c} ELSE Holders(p) \ {c}
         /\ \A k \in Keys : Using(k)' = IF r.key = k THEN Using(k) \cup {c} ELSE Using(k) \ {c}
         /\ \A k \in Keys : Dialing(k)' = IF r.key = k /\ r.pc = "dial"
                                          THEN Dialing(k) \cup {c} ELSE Dialing(k) \ {c}
  <1>1. \A d \in Callers : callers'[d] = IF d = c THEN r ELSE callers[d]
    BY DEF Goto
  <1>2. ASSUME NEW p \in Pools
        PROVE  Holders(p)' = IF r.pool = p /\ r.pc \in Holding
                             THEN Holders(p) \cup {c} ELSE Holders(p) \ {c}
    BY <1>1 DEF Holders
  <1>3. ASSUME NEW k \in Keys
        PROVE  /\ Using(k)' = IF r.key = k THEN Using(k) \cup {c} ELSE Using(k) \ {c}
               /\ Dialing(k)' = IF r.key = k /\ r.pc = "dial"
                                THEN Dialing(k) \cup {c} ELSE Dialing(k) \ {c}
    BY <1>1 DEF Using, Dialing, At
  <1>4. QED
    BY <1>1, <1>2, <1>3

\* How a count changes with one element.
LEMMA Counted ==
  ASSUME NEW S, IsFiniteSet(S), NEW x
  PROVE  /\ IsFiniteSet(S \cup {x}) /\ IsFiniteSet(S \ {x}) /\ Cardinality(S) \in Nat
         /\ Cardinality(S \cup {x}) = IF x \in S THEN Cardinality(S) ELSE Cardinality(S) + 1
         /\ Cardinality(S \ {x}) = IF x \in S THEN Cardinality(S) - 1 ELSE Cardinality(S)
         /\ x \in S => Cardinality(S) >= 1
  <1>1. /\ IsFiniteSet(S \ {x}) /\ Cardinality(S) \in Nat /\ Cardinality(S \ {x}) \in Nat
        /\ Cardinality(S \ {x}) = IF x \in S THEN Cardinality(S) - 1 ELSE Cardinality(S)
    BY FS_RemoveElement, FS_CardinalityType
  <1>2. QED
    BY <1>1, FS_AddElement

\* What is known of a caller between acquire and release.
LEMMA InCall ==
  ASSUME TypeOK, CallersAgree, RegistryAgrees, NEW c \in Callers, callers[c].pc # "idle"
  PROVE  /\ callers[c] \in CallerRecords
         /\ callers[c].key \in Keys /\ callers[c].pool \in Pools /\ callers[c].call \in Numbers
         /\ registry[callers[c].key].pool = callers[c].pool
         /\ pools[callers[c].pool] \in PoolRecords
         /\ pools[callers[c].pool].key = callers[c].key
         /\ IsRegistered(callers[c].pool)
         /\ callers[c].conn \in Conns <=> callers[c].pc \in Connected
         /\ callers[c].conn = None <=> callers[c].pc \notin Connected
  <1>1. /\ callers[c] \in CallerRecords
        /\ callers[c].key \in Keys /\ callers[c].pool \in Pools /\ callers[c].call \in Numbers
        /\ registry[callers[c].key].pool = callers[c].pool
        /\ callers[c].conn # None <=> callers[c].pc \in Connected
    BY Typed DEF CallersAgree
  <1>2. pools[callers[c].pool] \in PoolRecords /\ callers[c].conn \in Conns \cup {None}
    BY <1>1, Typed DEF CallerRecords
  <1>3. pools[callers[c].pool].key = callers[c].key /\ IsRegistered(callers[c].pool)
    BY <1>1, RedisClientAssumption DEF RegistryAgrees, IsRegistered
  <1>4. QED
    BY <1>1, <1>2, <1>3, RedisClientAssumption

\* A step of one caller that neither begins nor ends its call.
LEMMA CallersStep ==
  ASSUME IInv, NEW c \in Callers, callers[c].pc # "idle",
         NEW r \in CallerRecords, r.pc # "idle", Goto(c, r),
         r.key = callers[c].key, r.pool = callers[c].pool, r.call = callers[c].call,
         r.conn # None <=> r.pc \in Connected,
         r.pc \in {"slot", "pop", "dial", "write", "read"} => r.got = Nothing,
         r.got \in Numbers => r.got = r.call,
         UNCHANGED <<registry, recency, calls>>,
         pools' \in [Pools -> PoolRecords], \A p \in Pools : pools'[p].key = pools[p].key,
         conns' \in [Conns -> ConnRecords]
  PROVE  /\ TypeOK' /\ CallersAgree' /\ RegistryAgrees' /\ PoolsAreFew'
         /\ \A k \in Keys : Using(k)' = Using(k)
         /\ \A p \in Pools : IsRegistered(p)' = IsRegistered(p)
  <1>1. callers \in [Callers -> CallerRecords] /\ registry \in [Keys -> Entries]
    BY Typed DEF IInv
  <1>2. \A d \in Callers : callers'[d] = IF d = c THEN r ELSE callers[d]
    BY <1>1, Regrouped
  <1>3. TypeOK'
    <2>1. callers' \in [Callers -> CallerRecords]
      BY <1>1 DEF Goto
    <2>2. QED
      BY <2>1, Typed, TypedNext DEF IInv
  <1>4. \A k \in Keys : Using(k)' = Using(k)
    <2> SUFFICES ASSUME NEW k \in Keys PROVE Using(k)' = Using(k)
      OBVIOUS
    <2>1. Using(k)' = IF r.key = k THEN Using(k) \cup {c} ELSE Using(k) \ {c}
      BY <1>1, Regrouped
    <2>2. c \in Using(k) <=> r.key = k
      BY DEF Using
    <2>3. QED
      BY <2>1, <2>2
  <1>5. CallersAgree'
    <2>1. /\ callers[c].key \in Keys /\ callers[c].pool \in Pools /\ callers[c].call \in Numbers
          /\ registry[callers[c].key].pool = callers[c].pool
      BY InCall DEF IInv
    <2>2. registry' = registry
      OBVIOUS
    <2>3. QED
      BY <1>2, <2>1, <2>2 DEF IInv, CallersAgree
  <1>6. RegistryAgrees'
    <2> SUFFICES ASSUME NEW k \in Keys
                 PROVE  /\ registry[k].pool = None => registry[k] = NoEntry
                        /\ registry[k].pool # None =>
                             /\ pools'[registry[k].pool].key = k
                             /\ \A j \in Keys : registry[j].pool = registry[k].pool => j = k
                        /\ IsFiniteSet(Using(k)') /\ registry[k].inUse = Cardinality(Using(k)')
      BY DEF RegistryAgrees
    <2>1. Using(k)' = Using(k)
      BY <1>4
    <2>2. registry[k].pool \in Pools \cup {None}
      BY <1>1 DEF Entries
    <2>3. QED
      BY <2>1, <2>2 DEF IInv, RegistryAgrees
  <1>7. PoolsAreFew'
    BY DEF IInv, PoolsAreFew, Registered
  <1>8. \A p \in Pools : IsRegistered(p)' = IsRegistered(p)
    BY DEF IsRegistered
  <1>9. QED
    BY <1>3, <1>4, <1>5, <1>6, <1>7, <1>8

\* The caller keeps or leaves its slot, or takes one.
LEMMA SlotsStep ==
  ASSUME IInv, NEW c \in Callers, NEW r \in CallerRecords, Goto(c, r),
         r.pool = callers[c].pool, r.pool \in Pools,
         NEW n \in Nat, pools'[r.pool].slots = n, n <= MaxConnections,
         \A p \in Pools \ {r.pool} : pools'[p].slots = pools[p].slots,
         \/ (callers[c].pc \in Holding <=> r.pc \in Holding) /\ n = pools[r.pool].slots
         \/ callers[c].pc \notin Holding /\ r.pc \in Holding /\ n = pools[r.pool].slots + 1
         \/ callers[c].pc \in Holding /\ r.pc \notin Holding /\ n = pools[r.pool].slots - 1
  PROVE  SlotsAgree'
  <1> SUFFICES ASSUME NEW p \in Pools
               PROVE  /\ IsFiniteSet(Holders(p)') /\ pools'[p].slots = Cardinality(Holders(p)')
                      /\ pools'[p].slots <= MaxConnections
    BY DEF SlotsAgree
  <1>1. /\ IsFiniteSet(Holders(p)) /\ pools[p].slots = Cardinality(Holders(p))
        /\ pools[p].slots <= MaxConnections
    BY DEF IInv, SlotsAgree
  <1>2. Holders(p)' = IF r.pool = p /\ r.pc \in Holding
                      THEN Holders(p) \cup {c} ELSE Holders(p) \ {c}
    BY Typed, Regrouped DEF IInv
  <1>3. c \in Holders(p) <=> r.pool = p /\ callers[c].pc \in Holding
    BY DEF Holders
  <1>4. CASE p # r.pool
    <2>1. Holders(p)' = Holders(p)
      BY <1>2, <1>3, <1>4
    <2>2. QED
      BY <1>1, <1>4, <2>1
  <1>5. CASE p = r.pool
    <2>1. /\ IsFiniteSet(Holders(p) \cup {c}) /\ IsFiniteSet(Holders(p) \ {c})
          /\ Cardinality(Holders(p)) \in Nat
          /\ Cardinality(Holders(p) \cup {c}) = IF c \in Holders(p) THEN Cardinality(Holders(p))
                                                ELSE Cardinality(Holders(p)) + 1
          /\ Cardinality(Holders(p) \ {c}) = IF c \in Holders(p) THEN Cardinality(Holders(p)) - 1
                                             ELSE Cardinality(Holders(p))
      BY <1>1, Counted
    <2>2. QED
      BY <1>1, <1>2, <1>3, <1>5, <2>1
  <1>6. QED
    BY <1>4, <1>5

\* A step that leaves the connections and who has them as they are.
LEMMA ConnectionsKept ==
  ASSUME IInv, NEW c \in Callers, NEW r \in CallerRecords, Goto(c, r),
         r.conn = callers[c].conn,
         r.conn # None => /\ r.key = callers[c].key
                          /\ r.pc = "write" => Clean(r.conn)
                          /\ r.pc = "read" => Awaits(r.conn, r.call)
                          /\ r.pc = "put" /\ r.got \in Numbers => Clean(r.conn),
         UNCHANGED conns,
         \A p \in Pools : /\ pools'[p].idle = pools[p].idle /\ pools'[p].key = pools[p].key
                          /\ IsRegistered(p)' = IsRegistered(p)
  PROVE  IdleAgrees' /\ HeldAgrees' /\ OpenIsOwned'
  <1>1. \A d \in Callers : callers'[d] = IF d = c THEN r ELSE callers[d]
    BY Typed, Regrouped DEF IInv
  <1>2. \A d \in Callers : callers'[d].conn = callers[d].conn
    BY <1>1
  <1>3. \A d, n : Clean(d)' = Clean(d) /\ Awaits(d, n)' = Awaits(d, n)
    BY DEF Clean, Awaits
  <1>4. IdleAgrees'
    BY <1>2, <1>3 DEF IInv, IdleAgrees, IdleRight
  <1>5. OpenIsOwned'
    BY <1>2 DEF IInv, OpenIsOwned
  <1>6. HeldAgrees'
    BY <1>1, <1>2, <1>3 DEF IInv, HeldAgrees, HeldRight
  <1>7. QED
    BY <1>4, <1>5, <1>6

\* No connection is opened and nobody starts to dial.
LEMMA LimitKept ==
  ASSUME IInv, NEW c \in Callers, NEW r \in CallerRecords, Goto(c, r),
         r.pc # "dial",
         \A d \in Conns : conns'[d].open => conns[d].open /\ conns'[d].key = conns[d].key
  PROVE  LimitAgrees'
  <1> SUFFICES ASSUME NEW k \in Keys
               PROVE  /\ IsFiniteSet(OpenTo(k)') /\ IsFiniteSet(Dialing(k)')
                      /\ Cardinality(OpenTo(k)') + Cardinality(Dialing(k)') <= MaxConnections
    BY DEF LimitAgrees
  <1>1. OpenTo(k)' \subseteq OpenTo(k)
    BY DEF OpenTo
  <1>2. Dialing(k)' \subseteq Dialing(k)
    BY Typed, Regrouped DEF IInv
  <1>3. /\ IsFiniteSet(OpenTo(k)) /\ IsFiniteSet(Dialing(k))
        /\ Cardinality(OpenTo(k)) + Cardinality(Dialing(k)) <= MaxConnections
    BY DEF IInv, LimitAgrees
  <1>4. IsFiniteSet(OpenTo(k)') /\ Cardinality(OpenTo(k)') <= Cardinality(OpenTo(k))
    BY <1>1, <1>3, FS_Subset
  <1>5. IsFiniteSet(Dialing(k)') /\ Cardinality(Dialing(k)') <= Cardinality(Dialing(k))
    BY <1>2, <1>3, FS_Subset
  <1>6. /\ Cardinality(OpenTo(k)) \in Nat /\ Cardinality(Dialing(k)) \in Nat
        /\ Cardinality(OpenTo(k)') \in Nat /\ Cardinality(Dialing(k)') \in Nat
    BY <1>3, <1>4, <1>5, FS_CardinalityType
  <1>7. QED
    BY <1>3, <1>4, <1>5, <1>6, RedisClientAssumption

\* The fields of a caller that only moves on.
LEMMA Becomes ==
  ASSUME NEW r \in CallerRecords, NEW w \in Places
  PROVE  LET n == [r EXCEPT !.pc = w] IN
         /\ n \in CallerRecords /\ n.pc = w /\ n.key = r.key /\ n.pool = r.pool /\ n.conn = r.conn
         /\ n.reused = r.reused /\ n.attempt = r.attempt /\ n.call = r.call /\ n.got = r.got
  BY DEF CallerRecords

\* A step that sets the slots of one pool.
LEMMA SlotsSet ==
  ASSUME pools \in [Pools -> PoolRecords], NEW p \in Pools, NEW n \in Nat,
         pools' = [pools EXCEPT ![p].slots = n]
  PROVE  /\ pools' \in [Pools -> PoolRecords] /\ pools'[p].slots = n
         /\ \A q \in Pools : /\ pools'[q].key = pools[q].key /\ pools'[q].idle = pools[q].idle
                             /\ q # p => pools'[q].slots = pools[q].slots
  BY DEF PoolRecords

\* A step that sets the stack of one pool.
LEMMA IdleSet ==
  ASSUME pools \in [Pools -> PoolRecords], NEW p \in Pools, NEW s \in Seq(Conns),
         pools' = [pools EXCEPT ![p].idle = s]
  PROVE  /\ pools' \in [Pools -> PoolRecords] /\ pools'[p].idle = s
         /\ \A q \in Pools : /\ pools'[q].key = pools[q].key /\ pools'[q].slots = pools[q].slots
                             /\ q # p => pools'[q].idle = pools[q].idle
  BY DEF PoolRecords

\* pool.take: a slot of the pool.
LEMMA TakeSlotStep ==
  ASSUME IInv, NEW c \in Callers, TakeSlot(c)
  PROVE  IInv'
  <1> DEFINE r == [callers[c] EXCEPT !.pc = "pop"]
             p == callers[c].pool
             n == pools[p].slots + 1
  <1>1. callers[c].pc = "slot"
    BY DEF TakeSlot, At
  <1>2. /\ callers[c] \in CallerRecords /\ callers[c].key \in Keys /\ p \in Pools
        /\ pools[p] \in PoolRecords /\ callers[c].conn = None
    BY <1>1, InCall DEF IInv, Connected
  <1>3. /\ r \in CallerRecords /\ r.pc = "pop" /\ r.key = callers[c].key /\ r.pool = p
        /\ r.conn = None /\ r.call = callers[c].call /\ r.got = callers[c].got
    <2>1. "pop" \in Places
      BY DEF Places
    <2>2. QED
      BY <1>2, <2>1, Becomes
  <1>4. callers[c].got = Nothing
    BY <1>1 DEF IInv, CallersAgree
  <1>5. n \in Nat /\ n <= MaxConnections
    BY <1>2, RedisClientAssumption DEF PoolRecords, TakeSlot
  <1>6. /\ Goto(c, r) /\ pools' = [pools EXCEPT ![p].slots = n]
        /\ UNCHANGED <<registry, recency, conns, calls>>
    BY DEF TakeSlot
  <1> HIDE DEF r, n
  <1>7. /\ pools' \in [Pools -> PoolRecords] /\ pools'[p].slots = n
        /\ \A q \in Pools : /\ pools'[q].key = pools[q].key /\ pools'[q].idle = pools[q].idle
                            /\ q # p => pools'[q].slots = pools[q].slots
    BY <1>2, <1>5, <1>6, SlotsSet, Typed DEF IInv
  <1>8. Nothing \notin Numbers /\ conns' \in [Conns -> ConnRecords]
    BY <1>6, Typed, RedisClientAssumption DEF Nothing, Numbers, IInv
  <1>9. /\ TypeOK' /\ CallersAgree' /\ RegistryAgrees' /\ PoolsAreFew'
        /\ \A q \in Pools : IsRegistered(q)' = IsRegistered(q)
    BY <1>1, <1>2, <1>3, <1>4, <1>6, <1>7, <1>8, CallersStep DEF Connected
  <1>10. SlotsAgree'
    <2>1. callers[c].pc \notin Holding /\ r.pc \in Holding /\ n = pools[r.pool].slots + 1
      BY <1>1, <1>3 DEF Holding, n
    <2>2. /\ r.pool = callers[c].pool /\ r.pool \in Pools /\ pools'[r.pool].slots = n
          /\ \A q \in Pools \ {r.pool} : pools'[q].slots = pools[q].slots
      BY <1>2, <1>3, <1>7
    <2>3. QED
      BY <1>3, <1>5, <1>6, <2>1, <2>2, SlotsStep
  <1>11. IdleAgrees' /\ HeldAgrees' /\ OpenIsOwned'
    BY <1>2, <1>3, <1>6, <1>7, <1>9, ConnectionsKept
  <1>12. LimitAgrees'
    BY <1>3, <1>6, LimitKept
  <1>13. QED
    BY <1>9, <1>10, <1>11, <1>12 DEF IInv

\* The time to get a slot is over.
LEMMA SlotTimeoutStep ==
  ASSUME IInv, NEW c \in Callers, SlotTimeout(c)
  PROVE  IInv'
  <1> DEFINE r == [callers[c] EXCEPT !.pc = "release", !.got = Error]
             p == callers[c].pool
  <1>1. callers[c].pc = "slot"
    BY DEF SlotTimeout, At
  <1>2. /\ callers[c] \in CallerRecords /\ callers[c].key \in Keys /\ p \in Pools
        /\ pools[p] \in PoolRecords /\ callers[c].conn = None
    BY <1>1, InCall DEF IInv, Connected
  <1>3. /\ r \in CallerRecords /\ r.pc = "release" /\ r.key = callers[c].key /\ r.pool = p
        /\ r.conn = None /\ r.call = callers[c].call /\ r.got = Error
    <2>1. "release" \in Places /\ Error \in Results
      BY DEF Places, Results
    <2>2. QED
      BY <1>2, <2>1 DEF CallerRecords
  <1>4. pools[p].slots \in Nat /\ pools[p].slots <= MaxConnections
    BY <1>2 DEF PoolRecords, IInv, SlotsAgree
  <1>5. Goto(c, r) /\ UNCHANGED <<registry, recency, pools, conns, calls>>
    BY DEF SlotTimeout
  <1> HIDE DEF r
  <1>6. /\ Error \notin Numbers /\ conns' \in [Conns -> ConnRecords]
        /\ pools' \in [Pools -> PoolRecords]
    BY <1>5, Typed, RedisClientAssumption DEF Error, Numbers, IInv
  <1>7. /\ TypeOK' /\ CallersAgree' /\ RegistryAgrees' /\ PoolsAreFew'
        /\ \A q \in Pools : IsRegistered(q)' = IsRegistered(q)
    BY <1>1, <1>2, <1>3, <1>5, <1>6, CallersStep DEF Connected
  <1>8. SlotsAgree'
    BY <1>1, <1>2, <1>3, <1>4, <1>5, SlotsStep DEF Holding
  <1>9. IdleAgrees' /\ HeldAgrees' /\ OpenIsOwned'
    BY <1>2, <1>3, <1>5, <1>7, ConnectionsKept
  <1>10. LimitAgrees'
    BY <1>3, <1>5, LimitKept
  <1>11. QED
    BY <1>7, <1>8, <1>9, <1>10 DEF IInv

\* The command fails on its connection.
LEMMA CommandFailsStep ==
  ASSUME IInv, NEW c \in Callers, CommandFails(c)
  PROVE  IInv'
  <1> DEFINE r == [callers[c] EXCEPT !.pc = "put", !.got = Error]
             p == callers[c].pool
  <1>1. callers[c].pc \in {"write", "read"}
    BY DEF CommandFails, At
  <1>2. /\ callers[c] \in CallerRecords /\ callers[c].key \in Keys /\ p \in Pools
        /\ pools[p] \in PoolRecords /\ callers[c].conn \in Conns
    BY <1>1, InCall DEF IInv, Connected
  <1>3. /\ r \in CallerRecords /\ r.pc = "put" /\ r.key = callers[c].key /\ r.pool = p
        /\ r.conn = callers[c].conn /\ r.call = callers[c].call /\ r.got = Error
    <2>1. "put" \in Places /\ Error \in Results
      BY DEF Places, Results
    <2>2. QED
      BY <1>2, <2>1 DEF CallerRecords
  <1>4. pools[p].slots \in Nat /\ pools[p].slots <= MaxConnections
    BY <1>2 DEF PoolRecords, IInv, SlotsAgree
  <1>5. Goto(c, r) /\ UNCHANGED <<registry, recency, pools, conns, calls>>
    BY DEF CommandFails
  <1> HIDE DEF r
  <1>6. /\ Error \notin Numbers /\ conns' \in [Conns -> ConnRecords]
        /\ pools' \in [Pools -> PoolRecords]
    BY <1>5, Typed, RedisClientAssumption DEF Error, Numbers, IInv
  <1>7. /\ TypeOK' /\ CallersAgree' /\ RegistryAgrees' /\ PoolsAreFew'
        /\ \A q \in Pools : IsRegistered(q)' = IsRegistered(q)
    BY <1>1, <1>2, <1>3, <1>5, <1>6, CallersStep, RedisClientAssumption DEF Connected
  <1>8. SlotsAgree'
    BY <1>1, <1>2, <1>3, <1>4, <1>5, SlotsStep DEF Holding
  <1>9. IdleAgrees' /\ HeldAgrees' /\ OpenIsOwned'
    BY <1>2, <1>3, <1>5, <1>6, <1>7, ConnectionsKept
  <1>10. LimitAgrees'
    BY <1>3, <1>5, LimitKept
  <1>11. QED
    BY <1>7, <1>8, <1>9, <1>10 DEF IInv

\* A step that gives the slot back: of a call that has no connection, or none any more.
LEMMA SlotGivenBack ==
  ASSUME IInv, NEW c \in Callers, callers[c].pc \in {"dial", "free"},
         NEW r \in CallerRecords, Goto(c, r), r.pc \in {"slot", "release"},
         r.key = callers[c].key, r.pool = callers[c].pool, r.call = callers[c].call,
         r.conn = callers[c].conn,
         r.pc = "slot" => r.got = Nothing,
         r.got \in Numbers => r.got = r.call,
         pools' = [pools EXCEPT ![callers[c].pool].slots = @ - 1],
         UNCHANGED <<registry, recency, conns, calls>>
  PROVE  IInv'
  <1> DEFINE p == callers[c].pool
             n == pools[p].slots - 1
  <1>1. /\ callers[c] \in CallerRecords /\ callers[c].key \in Keys /\ p \in Pools
        /\ pools[p] \in PoolRecords /\ callers[c].conn = None
    BY InCall DEF IInv, Connected
  <1>2. n \in Nat /\ n <= MaxConnections
    <2>1. c \in Holders(p)
      BY DEF Holders, Holding
    <2>2. /\ IsFiniteSet(Holders(p)) /\ pools[p].slots = Cardinality(Holders(p))
          /\ pools[p].slots <= MaxConnections
      BY <1>1 DEF IInv, SlotsAgree
    <2>3. Cardinality(Holders(p)) \in Nat /\ Cardinality(Holders(p)) >= 1
      BY <2>1, <2>2, Counted
    <2>4. QED
      BY <2>2, <2>3, RedisClientAssumption
  <1>3. pools' = [pools EXCEPT ![p].slots = n]
    OBVIOUS
  <1> HIDE DEF n
  <1>4. /\ pools' \in [Pools -> PoolRecords] /\ pools'[p].slots = n
        /\ \A q \in Pools : /\ pools'[q].key = pools[q].key /\ pools'[q].idle = pools[q].idle
                            /\ q # p => pools'[q].slots = pools[q].slots
    BY <1>1, <1>2, <1>3, SlotsSet, Typed DEF IInv
  <1>5. conns' \in [Conns -> ConnRecords]
    BY Typed DEF IInv
  <1>6. /\ TypeOK' /\ CallersAgree' /\ RegistryAgrees' /\ PoolsAreFew'
        /\ \A q \in Pools : IsRegistered(q)' = IsRegistered(q)
    BY <1>1, <1>4, <1>5, CallersStep DEF Connected
  <1>7. SlotsAgree'
    <2>1. callers[c].pc \in Holding /\ r.pc \notin Holding /\ n = pools[r.pool].slots - 1
      BY DEF Holding, n
    <2>2. /\ r.pool = callers[c].pool /\ r.pool \in Pools /\ pools'[r.pool].slots = n
          /\ \A q \in Pools \ {r.pool} : pools'[q].slots = pools[q].slots
      BY <1>1, <1>4
    <2>3. QED
      BY <1>2, <2>1, <2>2, SlotsStep
  <1>8. IdleAgrees' /\ HeldAgrees' /\ OpenIsOwned'
    BY <1>1, <1>4, <1>6, ConnectionsKept
  <1>9. LimitAgrees'
    BY LimitKept
  <1>10. QED
    BY <1>6, <1>7, <1>8, <1>9 DEF IInv

\* The connection cannot be opened: the slot is given back.
LEMMA DialFailsStep ==
  ASSUME IInv, NEW c \in Callers, DialFails(c)
  PROVE  IInv'
  <1> DEFINE r == [callers[c] EXCEPT !.pc = "release", !.got = Error]
  <1>1. callers[c].pc = "dial" /\ callers[c] \in CallerRecords
    BY InCall DEF DialFails, At, IInv
  <1>2. /\ r \in CallerRecords /\ r.pc = "release" /\ r.key = callers[c].key
        /\ r.pool = callers[c].pool /\ r.conn = callers[c].conn /\ r.call = callers[c].call
        /\ r.got = Error
    <2>1. "release" \in Places /\ Error \in Results
      BY DEF Places, Results
    <2>2. QED
      BY <1>1, <2>1 DEF CallerRecords
  <1>3. /\ Goto(c, r) /\ pools' = [pools EXCEPT ![callers[c].pool].slots = @ - 1]
        /\ UNCHANGED <<registry, recency, conns, calls>>
    BY DEF DialFails
  <1> HIDE DEF r
  <1>4. Error \notin Numbers
    BY RedisClientAssumption DEF Error, Numbers
  <1>5. QED
    BY <1>1, <1>2, <1>3, <1>4, SlotGivenBack

\* The slot is given back after put, and the command may be retried.
LEMMA FreeStep ==
  ASSUME IInv, NEW c \in Callers, Free(c)
  PROVE  IInv'
  <1>1. callers[c].pc = "free" /\ callers[c] \in CallerRecords
    BY InCall DEF Free, At, IInv
  <1>2. /\ pools' = [pools EXCEPT ![callers[c].pool].slots = @ - 1]
        /\ UNCHANGED <<registry, recency, conns, calls>>
    BY DEF Free
  <1>3. CASE Retries(c)
    <2> DEFINE r == [callers[c] EXCEPT !.pc = "slot", !.attempt = 2, !.got = Nothing,
                                       !.reused = FALSE]
    <2>1. /\ r \in CallerRecords /\ r.pc = "slot" /\ r.key = callers[c].key
          /\ r.pool = callers[c].pool /\ r.conn = callers[c].conn /\ r.call = callers[c].call
          /\ r.got = Nothing
      <3>1. "slot" \in Places /\ 2 \in 0..2 /\ Nothing \in Results
        BY DEF Places, Results
      <3>2. QED
        BY <1>1, <3>1 DEF CallerRecords
    <2>2. Goto(c, r)
      BY <1>3 DEF Free
    <2> HIDE DEF r
    <2>3. Nothing \notin Numbers
      BY RedisClientAssumption DEF Nothing, Numbers
    <2>4. QED
      BY <1>1, <1>2, <2>1, <2>2, <2>3, SlotGivenBack
  <1>4. CASE ~Retries(c)
    <2> DEFINE r == [callers[c] EXCEPT !.pc = "release"]
    <2>1. /\ r \in CallerRecords /\ r.pc = "release" /\ r.key = callers[c].key
          /\ r.pool = callers[c].pool /\ r.conn = callers[c].conn /\ r.call = callers[c].call
          /\ r.got = callers[c].got
      BY <1>1, Becomes DEF Places
    <2>2. Goto(c, r)
      BY <1>4 DEF Free
    <2> HIDE DEF r
    <2>3. callers[c].got \in Numbers => callers[c].got = callers[c].call
      BY DEF IInv, CallersAgree
    <2>4. QED
      BY <1>1, <1>2, <2>1, <2>2, <2>3, SlotGivenBack
  <1>5. QED
    BY <1>3, <1>4

\* A key is registered when its entry has a pool.
LEMMA RegisteredPools ==
  ASSUME RegistryAgrees
  PROVE  Registered = {k \in Keys : registry[k].pool # None}
  BY Constants DEF RegistryAgrees, Registered

\* registry.release: the caller no longer counts, and its key is used now.
LEMMA ReleaseStep ==
  ASSUME IInv, NEW c \in Callers, Release(c)
  PROVE  IInv'
  <1> DEFINE k == callers[c].key
             n == registry[k].inUse - 1
  <1>1. callers[c].pc = "release" /\ Goto(c, Resting) /\ UNCHANGED <<pools, conns, calls>>
    BY DEF Release, At
  <1>2. /\ callers[c] \in CallerRecords /\ k \in Keys /\ callers[c].pool \in Pools
        /\ registry[k].pool = callers[c].pool /\ callers[c].conn = None
    BY <1>1, InCall DEF IInv, Connected
  <1>3. /\ IsFiniteSet(Using(k)) /\ registry[k].inUse = Cardinality(Using(k))
        /\ IsFiniteSet(Using(k) \ {c}) /\ Cardinality(Using(k) \ {c}) = n /\ n \in Nat
        /\ registry[k].inUse > 0
    <2>1. IsFiniteSet(Using(k)) /\ registry[k].inUse = Cardinality(Using(k)) /\ c \in Using(k)
      BY <1>2 DEF IInv, RegistryAgrees, Using
    <2>2. /\ Cardinality(Using(k)) \in Nat /\ Cardinality(Using(k)) >= 1
          /\ IsFiniteSet(Using(k) \ {c}) /\ Cardinality(Using(k) \ {c}) = Cardinality(Using(k)) - 1
      BY <2>1, Counted
    <2>3. QED
      BY <2>1, <2>2
  <1>4. registry' = [registry EXCEPT ![k].inUse = n] /\ recency' = Touch(k)
    BY <1>3 DEF Release
  <1> HIDE DEF n
  <1>5. registry \in [Keys -> Entries]
    BY Typed DEF IInv
  <1>6. /\ registry' \in [Keys -> Entries] /\ registry'[k].inUse = n
        /\ \A j \in Keys : /\ registry'[j].pool = registry[j].pool
                           /\ j # k => registry'[j] = registry[j]
    BY <1>2, <1>3, <1>4, <1>5 DEF Entries
  <1>7. recency' \in SUBSET (Keys \X Keys)
    BY <1>2, <1>4, Typed DEF IInv, Touch, Without, Registered
  <1>8. callers \in [Callers -> CallerRecords]
    BY Typed DEF IInv
  <1>9. \A d \in Callers : callers'[d] = IF d = c THEN Resting ELSE callers[d]
    BY <1>1, <1>8, Regrouped
  <1>10. TypeOK'
    <2>1. callers' \in [Callers -> CallerRecords]
      BY <1>1, <1>8, Rests DEF Goto
    <2>2. QED
      BY <1>1, <1>6, <1>7, <2>1, Typed, TypedNext DEF IInv
  <1>11. CallersAgree'
    <2>1. \A b \in Callers : callers[b].pc # "idle" =>
            registry'[callers[b].key].pool = registry[callers[b].key].pool
      BY <1>6 DEF IInv, CallersAgree
    <2>2. Nothing \notin Numbers
      BY RedisClientAssumption DEF Nothing, Numbers
    <2>3. QED
      BY <1>9, <2>1, <2>2, Rests DEF IInv, CallersAgree, Connected
  <1>12. \A j \in Keys : Using(j)' = IF j = k THEN Using(j) \ {c} ELSE Using(j)
    <2> SUFFICES ASSUME NEW j \in Keys PROVE Using(j)' = IF j = k THEN Using(j) \ {c} ELSE Using(j)
      OBVIOUS
    <2>1. Using(j)' = IF Resting.key = j THEN Using(j) \cup {c} ELSE Using(j) \ {c}
      BY <1>1, <1>8, Regrouped
    <2>2. Resting.key # j
      BY Rests, RedisClientAssumption
    <2>3. j # k => c \notin Using(j)
      BY DEF Using
    <2>4. QED
      BY <2>1, <2>2, <2>3
  <1>13. RegistryAgrees'
    <2> SUFFICES ASSUME NEW j \in Keys
                 PROVE  /\ registry'[j].pool = None => registry'[j] = NoEntry
                        /\ registry'[j].pool # None =>
                             /\ pools'[registry'[j].pool].key = j
                             /\ \A i \in Keys : registry'[i].pool = registry'[j].pool => i = j
                        /\ IsFiniteSet(Using(j)') /\ registry'[j].inUse = Cardinality(Using(j)')
      BY DEF RegistryAgrees
    <2>1. registry[k].pool # None
      BY <1>2, RedisClientAssumption
    <2>2. /\ registry[j].pool = None => registry[j] = NoEntry
          /\ registry[j].pool # None =>
               /\ pools[registry[j].pool].key = j
               /\ \A i \in Keys : registry[i].pool = registry[j].pool => i = j
          /\ IsFiniteSet(Using(j)) /\ registry[j].inUse = Cardinality(Using(j))
      BY DEF IInv, RegistryAgrees
    <2>3. IsFiniteSet(Using(j)') /\ registry'[j].inUse = Cardinality(Using(j)')
      BY <1>3, <1>6, <1>12, <2>2
    <2>4. registry'[j].pool = registry[j].pool /\ pools' = pools
      BY <1>1, <1>6
    <2>5. registry'[j].pool = None => registry'[j] = NoEntry
      BY <1>6, <2>1, <2>2
    <2>6. QED
      BY <1>6, <2>2, <2>3, <2>4, <2>5
  <1>14. PoolsAreFew'
    <2>1. Registered = {j \in Keys : registry[j].pool # None}
      BY RegisteredPools DEF IInv
    <2>2. Registered' = {j \in Keys : registry'[j].pool # None}
      BY <1>6, <1>13, Constants DEF RegistryAgrees, Registered
    <2>3. Registered' = Registered
      BY <1>6, <2>1, <2>2
    <2>4. QED
      BY <2>3 DEF IInv, PoolsAreFew
  <1>15. SlotsAgree'
    <2>1. \A p \in Pools : Holders(p)' = Holders(p)
      BY <1>1, <1>9, Rests DEF Holders, Holding
    <2>2. QED
      BY <1>1, <2>1 DEF IInv, SlotsAgree
  <1>16. IdleAgrees' /\ HeldAgrees' /\ OpenIsOwned'
    <2>1. \A p : IsRegistered(p)' = IsRegistered(p)
      BY <1>6 DEF IsRegistered
    <2>2. QED
      BY <1>1, <1>2, <2>1, Rests, ConnectionsKept
  <1>17. LimitAgrees'
    BY <1>1, Rests, LimitKept
  <1>18. QED
    BY <1>10, <1>11, <1>13, <1>14, <1>15, <1>16, <1>17 DEF IInv

\* Traffic on one connection changes nothing for those it does not belong to.
LEMMA OthersUndisturbed ==
  ASSUME IInv, NEW d \in Conns,
         \A e \in Conns \ {d} : conns'[e] = conns[e],
         conns'[d].open = conns[d].open, conns'[d].key = conns[d].key \/ ~conns[d].open,
         Clean(d) /\ conns[d].open =>
           Clean(d)' \/ \E c \in Callers : callers[c].conn = d,
         \A c \in Callers : callers'[c].conn = callers[c].conn,
         UNCHANGED <<pools, registry>>
  PROVE  IdleAgrees' /\ OpenIsOwned'
  <1>1. \A e \in Conns : conns'[e].open = conns[e].open
    OBVIOUS
  <1>2. OpenIsOwned'
    BY <1>1 DEF IInv, OpenIsOwned
  <1>3. ASSUME NEW p \in Pools, NEW i \in DOMAIN pools[p].idle
        PROVE  IdleRight(p, i)'
    <2> DEFINE e == pools[p].idle[i]
    <2>1. e \in Conns
      BY Typed, ElementOfSeq DEF IInv, PoolRecords
    <2>2. /\ conns[e].open /\ conns[e].key = pools[p].key /\ Clean(e)
          /\ \A j \in DOMAIN pools[p].idle : pools[p].idle[j] = e => j = i
          /\ \A c \in Callers : callers[c].conn # e
      BY DEF IInv, IdleAgrees, IdleRight
    <2>3. Clean(e)'
      BY <2>1, <2>2 DEF Clean
    <2>4. QED
      BY <2>1, <2>2, <2>3 DEF IdleRight
  <1>4. IdleAgrees'
    BY <1>3 DEF IInv, IdleAgrees, IdleRight, IsRegistered
  <1>5. QED
    BY <1>2, <1>4

\* A caller keeps what it has when neither it nor its connection changes.
LEMMA StillHeld ==
  ASSUME IInv, NEW b \in Callers, callers[b].conn # None, callers'[b] = callers[b],
         conns'[callers[b].conn] = conns[callers[b].conn],
         \A a \in Callers : callers'[a].conn = callers[b].conn => a = b
  PROVE  HeldRight(b)'
  <1> DEFINE d == callers[b].conn
  <1>1. HeldRight(b)
    BY DEF IInv, HeldAgrees
  <1>2. (Clean(d)' <=> Clean(d)) /\ \A n : Awaits(d, n)' <=> Awaits(d, n)
    BY DEF Clean, Awaits
  <1>3. QED
    BY <1>1, <1>2 DEF HeldRight

\* executeRedisCommand: the command is written on a clean connection.
LEMMA WriteStep ==
  ASSUME IInv, NEW c \in Callers, Write(c)
  PROVE  IInv'
  <1> DEFINE r == [callers[c] EXCEPT !.pc = "read"]
             d == callers[c].conn
             q == Append(conns[d].inbox, callers[c].call)
             s == [conns[d] EXCEPT !.inbox = q]
  <1>1. callers[c].pc = "write"
    BY DEF Write, At
  <1>2. /\ callers[c] \in CallerRecords /\ callers[c].key \in Keys /\ callers[c].pool \in Pools
        /\ callers[c].call \in Numbers /\ pools[callers[c].pool] \in PoolRecords /\ d \in Conns
    BY <1>1, InCall DEF IInv, Connected
  <1>3. /\ conns[d].open /\ conns[d].key = callers[c].key
        /\ \A b \in Callers : callers[b].conn = d => b = c
        /\ conns[d].inbox = <<>> /\ conns[d].outbox = <<>>
    BY <1>1, <1>2, RedisClientAssumption DEF IInv, HeldAgrees, HeldRight, Clean
  <1>4. /\ r \in CallerRecords /\ r.pc = "read" /\ r.key = callers[c].key
        /\ r.pool = callers[c].pool /\ r.conn = d /\ r.call = callers[c].call
        /\ r.got = callers[c].got
    BY <1>2 DEF CallerRecords, Places
  <1>5. q \in Seq(Numbers) /\ q = <<callers[c].call>>
    BY <1>2, <1>3
  <1>6. /\ s \in ConnRecords /\ s.open /\ s.key = callers[c].key
        /\ s.inbox = <<callers[c].call>> /\ s.outbox = <<>>
    <2>1. conns[d] \in ConnRecords
      BY <1>2, Typed DEF IInv
    <2> HIDE DEF q
    <2>2. QED
      BY <1>3, <1>5, <2>1 DEF ConnRecords
  <1>7. /\ Goto(c, r) /\ conns' = [conns EXCEPT ![d] = s]
        /\ UNCHANGED <<registry, recency, pools, calls>>
    BY DEF Write
  <1> HIDE DEF r, s, q
  <1>8. /\ conns' \in [Conns -> ConnRecords] /\ pools' \in [Pools -> PoolRecords]
        /\ conns'[d] = s /\ \A e \in Conns \ {d} : conns'[e] = conns[e]
    BY <1>2, <1>6, <1>7, Typed DEF IInv
  <1>9. callers[c].got = Nothing /\ Nothing \notin Numbers
    BY <1>1, RedisClientAssumption DEF IInv, CallersAgree, Nothing, Numbers
  <1>10. /\ TypeOK' /\ CallersAgree' /\ RegistryAgrees' /\ PoolsAreFew'
    BY <1>1, <1>2, <1>4, <1>7, <1>8, <1>9, CallersStep, RedisClientAssumption DEF Connected
  <1>11. SlotsAgree'
    <2>1. /\ pools[callers[c].pool].slots \in Nat
          /\ pools[callers[c].pool].slots <= MaxConnections
      BY <1>2 DEF PoolRecords, IInv, SlotsAgree
    <2>2. QED
      BY <1>1, <1>2, <1>4, <1>7, <2>1, SlotsStep DEF Holding
  <1>12. \A b \in Callers : callers'[b] = IF b = c THEN r ELSE callers[b]
    BY <1>7, Typed, Regrouped DEF IInv
  <1>13. IdleAgrees' /\ OpenIsOwned'
    <2>1. /\ conns'[d].open = conns[d].open /\ conns'[d].key = conns[d].key
          /\ \A e \in Conns \ {d} : conns'[e] = conns[e]
      BY <1>3, <1>6, <1>8
    <2>2. callers[c].conn = d /\ \A b \in Callers : callers'[b].conn = callers[b].conn
      BY <1>4, <1>12
    <2>3. UNCHANGED <<pools, registry>>
      BY <1>7
    <2>4. QED
      BY <1>2, <2>1, <2>2, <2>3, OthersUndisturbed
  <1>14. HeldAgrees'
    <2> SUFFICES ASSUME NEW b \in Callers, callers'[b].conn # None PROVE HeldRight(b)'
      BY DEF HeldAgrees
    <2>1. CASE b = c
      BY <1>3, <1>4, <1>6, <1>8, <1>12, <2>1 DEF HeldRight, Awaits
    <2>2. CASE b # c
      <3>1. callers'[b] = callers[b] /\ callers[b].conn \in Conns \ {d}
        BY <1>3, <1>12, <2>2, Typed DEF IInv, CallerRecords
      <3>2. \A a \in Callers : callers'[a].conn = callers[a].conn
        BY <1>4, <1>12
      <3>3. \A a \in Callers : callers[a].conn = callers[b].conn => a = b
        BY <3>1, RedisClientAssumption DEF IInv, HeldAgrees, HeldRight
      <3>4. QED
        BY <1>8, <3>1, <3>2, <3>3, StillHeld, RedisClientAssumption
    <2>3. QED
      BY <2>1, <2>2
  <1>15. LimitAgrees'
    BY <1>3, <1>4, <1>6, <1>7, <1>8, LimitKept
  <1>16. QED
    BY <1>10, <1>11, <1>13, <1>14, <1>15 DEF IInv

\* executeRedisCommand: the reply read is the one to the command written.
LEMMA ReadStep ==
  ASSUME IInv, NEW c \in Callers, Read(c)
  PROVE  IInv'
  <1> DEFINE d == callers[c].conn
             reply == Head(conns[d].outbox)
             g == IF reply[2] = "error" THEN ServerError ELSE reply[1]
             r == [callers[c] EXCEPT !.pc = "put", !.got = g]
             q == Tail(conns[d].outbox)
             s == [conns[d] EXCEPT !.outbox = q]
  <1>1. callers[c].pc = "read" /\ conns[d].outbox # <<>>
    BY DEF Read, At
  <1>2. /\ callers[c] \in CallerRecords /\ callers[c].key \in Keys /\ callers[c].pool \in Pools
        /\ callers[c].call \in Numbers /\ pools[callers[c].pool] \in PoolRecords /\ d \in Conns
    BY <1>1, InCall DEF IInv, Connected
  <1>3. /\ conns[d].open /\ conns[d].key = callers[c].key
        /\ \A b \in Callers : callers[b].conn = d => b = c
        /\ Awaits(d, callers[c].call)
    BY <1>1, <1>2, RedisClientAssumption DEF IInv, HeldAgrees, HeldRight
  <1>4. /\ conns[d].inbox = <<>>
        /\ \E kind \in Kinds : conns[d].outbox = <<<<callers[c].call, kind>>>>
    BY <1>1, <1>3 DEF Awaits, Clean
  <1>5. q = <<>> /\ g \in {ServerError, callers[c].call}
    BY <1>4
  <1>6. ServerError \in Results /\ callers[c].call \in Results /\ "put" \in Places
        /\ ServerError \notin Numbers
    BY <1>2, RedisClientAssumption DEF Results, Places, ServerError, Numbers
  <1> HIDE DEF g, q
  <1>7. /\ r \in CallerRecords /\ r.pc = "put" /\ r.key = callers[c].key
        /\ r.pool = callers[c].pool /\ r.conn = d /\ r.call = callers[c].call
        /\ r.got = g
    BY <1>2, <1>5, <1>6 DEF CallerRecords
  <1>8. /\ s \in ConnRecords /\ s.open /\ s.key = callers[c].key
        /\ s.inbox = <<>> /\ s.outbox = <<>>
    <2>1. conns[d] \in ConnRecords
      BY <1>2, Typed DEF IInv
    <2>2. QED
      BY <1>3, <1>4, <1>5, <2>1 DEF ConnRecords
  <1>9. /\ Goto(c, r) /\ conns' = [conns EXCEPT ![d] = s]
        /\ UNCHANGED <<registry, recency, pools, calls>>
    BY DEF Read, g, q
  <1> HIDE DEF r, s
  <1>10. /\ conns' \in [Conns -> ConnRecords] /\ pools' \in [Pools -> PoolRecords]
         /\ conns'[d] = s /\ \A e \in Conns \ {d} : conns'[e] = conns[e]
    BY <1>2, <1>8, <1>9, Typed DEF IInv
  <1>11. /\ TypeOK' /\ CallersAgree' /\ RegistryAgrees' /\ PoolsAreFew'
    BY <1>1, <1>2, <1>5, <1>6, <1>7, <1>9, <1>10, CallersStep, RedisClientAssumption DEF Connected
  <1>12. SlotsAgree'
    <2>1. /\ pools[callers[c].pool].slots \in Nat
          /\ pools[callers[c].pool].slots <= MaxConnections
      BY <1>2 DEF PoolRecords, IInv, SlotsAgree
    <2>2. QED
      BY <1>1, <1>2, <1>7, <1>9, <2>1, SlotsStep DEF Holding
  <1>13. \A b \in Callers : callers'[b] = IF b = c THEN r ELSE callers[b]
    BY <1>9, Typed, Regrouped DEF IInv
  <1>14. IdleAgrees' /\ OpenIsOwned'
    <2>1. /\ conns'[d].open = conns[d].open /\ conns'[d].key = conns[d].key
          /\ \A e \in Conns \ {d} : conns'[e] = conns[e]
      BY <1>3, <1>8, <1>10
    <2>2. callers[c].conn = d /\ \A b \in Callers : callers'[b].conn = callers[b].conn
      BY <1>7, <1>13
    <2>3. UNCHANGED <<pools, registry>>
      BY <1>9
    <2>4. QED
      BY <1>2, <2>1, <2>2, <2>3, OthersUndisturbed
  <1>15. HeldAgrees'
    <2> SUFFICES ASSUME NEW b \in Callers, callers'[b].conn # None PROVE HeldRight(b)'
      BY DEF HeldAgrees
    <2>1. CASE b = c
      BY <1>3, <1>7, <1>8, <1>10, <1>13, <2>1 DEF HeldRight, Clean
    <2>2. CASE b # c
      <3>1. callers'[b] = callers[b] /\ callers[b].conn \in Conns \ {d}
        BY <1>3, <1>13, <2>2, Typed DEF IInv, CallerRecords
      <3>2. \A a \in Callers : callers'[a].conn = callers[a].conn
        BY <1>7, <1>13
      <3>3. \A a \in Callers : callers[a].conn = callers[b].conn => a = b
        BY <3>1, RedisClientAssumption DEF IInv, HeldAgrees, HeldRight
      <3>4. QED
        BY <1>10, <3>1, <3>2, <3>3, StillHeld, RedisClientAssumption
    <2>3. QED
      BY <2>1, <2>2
  <1>16. LimitAgrees'
    BY <1>3, <1>7, <1>8, <1>9, <1>10, LimitKept
  <1>17. QED
    BY <1>11, <1>12, <1>14, <1>15, <1>16 DEF IInv

\* A step of the server on one connection: what its caller awaits stays what it
\* awaits, and an idle connection stays clean.
LEMMA ServerStep ==
  ASSUME IInv, NEW d \in Conns, NEW s \in ConnRecords, conns' = [conns EXCEPT ![d] = s],
         s.open = conns[d].open, conns[d].open => s.key = conns[d].key,
         conns[d].open /\ Clean(d) => s.inbox = <<>> /\ s.outbox = <<>>,
         \A n \in Numbers : conns[d].open /\ Awaits(d, n) => Awaits(d, n)',
         UNCHANGED <<registry, recency, pools, callers, calls>>
  PROVE  IInv'
  <1>1. /\ conns' \in [Conns -> ConnRecords] /\ conns'[d] = s
        /\ \A e \in Conns \ {d} : conns'[e] = conns[e]
    BY Typed DEF IInv
  <1>2. TypeOK'
    BY <1>1, Typed, TypedNext DEF IInv
  <1>3. CallersAgree' /\ RegistryAgrees' /\ PoolsAreFew' /\ SlotsAgree'
    <2>1. CallersAgree'
      BY DEF IInv, CallersAgree
    <2>2. RegistryAgrees'
      <3>1. \A k \in Keys : Using(k)' = Using(k)
        BY DEF Using
      <3>2. QED
        BY <3>1 DEF IInv, RegistryAgrees
    <2>3. PoolsAreFew' /\ SlotsAgree'
      BY DEF IInv, PoolsAreFew, SlotsAgree, Registered, Holders
    <2>4. QED
      BY <2>1, <2>2, <2>3
  <1>4. conns[d].open /\ Clean(d) => Clean(d)'
    BY <1>1 DEF Clean
  <1>5. IdleAgrees' /\ OpenIsOwned'
    BY <1>1, <1>4, OthersUndisturbed
  <1>6. HeldAgrees'
    <2> SUFFICES ASSUME NEW b \in Callers, callers[b].conn # None PROVE HeldRight(b)'
      BY DEF HeldAgrees
    <2>1. HeldRight(b) /\ callers[b].conn \in Conns
      BY Typed DEF IInv, HeldAgrees, CallerRecords
    <2>2. CASE callers[b].conn = d
      <3>1. callers[b].pc # "idle"
        BY Rests DEF IInv, CallersAgree
      <3>2. callers[b].call \in Numbers
        BY <3>1 DEF IInv, CallersAgree
      <3>3. QED
        BY <1>1, <1>4, <2>1, <2>2, <3>2 DEF HeldRight
    <2>3. CASE callers[b].conn # d
      BY <1>1, <2>1, <2>3, StillHeld DEF HeldRight
    <2>4. QED
      BY <2>2, <2>3
  <1>7. LimitAgrees'
    <2>1. \A k \in Keys : OpenTo(k)' = OpenTo(k) /\ Dialing(k)' = Dialing(k)
      BY <1>1 DEF OpenTo, Dialing, Using, At
    <2>2. QED
      BY <2>1 DEF IInv, LimitAgrees
  <1>8. QED
    BY <1>2, <1>3, <1>5, <1>6, <1>7 DEF IInv

\* The server drops a connection.
LEMMA DropStep ==
  ASSUME IInv, NEW d \in Conns, Drop(d)
  PROVE  IInv'
  <1> DEFINE s == IF conns[d].open THEN [conns[d] EXCEPT !.up = FALSE, !.inbox = <<>>]
                                   ELSE NoConnection
  <1>1. conns[d] \in ConnRecords
    BY Typed DEF IInv
  <1>2. conns[d].open => /\ s \in ConnRecords /\ s.open /\ s.key = conns[d].key
                         /\ s.inbox = <<>> /\ s.outbox = conns[d].outbox
    <2>1. <<>> \in Seq(Numbers) /\ FALSE \in BOOLEAN
      OBVIOUS
    <2>2. /\ [conns[d] EXCEPT !.up = FALSE, !.inbox = <<>>] \in ConnRecords
          /\ [conns[d] EXCEPT !.up = FALSE, !.inbox = <<>>].open = conns[d].open
          /\ [conns[d] EXCEPT !.up = FALSE, !.inbox = <<>>].key = conns[d].key
          /\ [conns[d] EXCEPT !.up = FALSE, !.inbox = <<>>].inbox = <<>>
          /\ [conns[d] EXCEPT !.up = FALSE, !.inbox = <<>>].outbox = conns[d].outbox
      BY <1>1, <2>1 DEF ConnRecords
    <2>3. QED
      BY <2>2
  <1>3. ~conns[d].open => s \in ConnRecords /\ ~s.open
    BY Constants
  <1>4. conns' = [conns EXCEPT ![d] = s] /\ UNCHANGED <<registry, recency, pools, callers, calls>>
    BY DEF Drop
  <1> HIDE DEF s
  <1>5. conns'[d] = s
    BY <1>4, Typed DEF IInv
  <1>6. \A n \in Numbers : conns[d].open /\ Awaits(d, n) => Awaits(d, n)'
    BY <1>2, <1>5 DEF Awaits, Clean
  <1>7. s \in ConnRecords /\ s.open = conns[d].open
    BY <1>1, <1>2, <1>3 DEF ConnRecords
  <1>8. QED
    BY <1>2, <1>4, <1>6, <1>7, ServerStep DEF Clean

\* The server executes a command, also one whose caller has gone.
LEMMA ServeStep ==
  ASSUME IInv, NEW d \in Conns, NEW kind \in Kinds, Serve(d, kind)
  PROVE  IInv'
  <1> DEFINE in == conns[d].inbox
             served == [conns[d] EXCEPT !.inbox = Tail(in)]
             out == Append(conns[d].outbox, <<Head(in), kind>>)
             s == IF served.open THEN [served EXCEPT !.outbox = out] ELSE Closed(served)
  <1>1. conns[d] \in ConnRecords /\ in # <<>> /\ in \in Seq(Numbers)
    BY Typed DEF IInv, Serve, ConnRecords
  <1>2. Tail(in) \in Seq(Numbers) /\ Head(in) \in Numbers
    BY <1>1
  <1>3. /\ served \in ConnRecords /\ served.open = conns[d].open /\ served.key = conns[d].key
        /\ served.inbox = Tail(in) /\ served.outbox = conns[d].outbox
    BY <1>1, <1>2 DEF ConnRecords
  <1>4. conns' = [conns EXCEPT ![d] = s] /\ UNCHANGED <<registry, recency, pools, callers, calls>>
    BY DEF Serve
  <1>5. out \in Seq(Numbers \X Kinds)
    BY <1>1, <1>2 DEF ConnRecords
  <1>6. conns[d].open => /\ s \in ConnRecords /\ s.open /\ s.key = conns[d].key
                         /\ s.inbox = Tail(in) /\ s.outbox = out
    <2> HIDE DEF served, out
    <2>1. QED
      BY <1>3, <1>5 DEF ConnRecords
  <1>7. ~conns[d].open => s \in ConnRecords /\ ~s.open
    <2> HIDE DEF served, out
    <2>1. [served EXCEPT !.open = FALSE, !.outbox = <<>>] \in ConnRecords
          /\ ~[served EXCEPT !.open = FALSE, !.outbox = <<>>].open
      <3>1. <<>> \in Seq(Numbers \X Kinds) /\ FALSE \in BOOLEAN
        OBVIOUS
      <3>2. QED
        BY <1>3, <3>1 DEF ConnRecords
    <2>2. QED
      BY <1>3, <2>1, Constants DEF Closed
  <1> HIDE DEF s
  <1>8. conns'[d] = s
    BY <1>4, Typed DEF IInv
  <1>9. ASSUME NEW n \in Numbers, conns[d].open, Awaits(d, n)
        PROVE  Awaits(d, n)'
    <2>1. in = <<n>> /\ conns[d].outbox = <<>>
      BY <1>1, <1>9 DEF Awaits, Clean
    <2>2. Tail(in) = <<>> /\ out = <<<<n, kind>>>>
      BY <2>1
    <2>3. QED
      BY <1>6, <1>8, <1>9, <2>2 DEF Awaits
  <1>10. s \in ConnRecords /\ s.open = conns[d].open
    BY <1>1, <1>6, <1>7 DEF ConnRecords
  <1>11. QED
    BY <1>1, <1>4, <1>6, <1>9, <1>10, ServerStep DEF Clean

\* An idle connection lies in one stack only.
LEMMA IdleInOnePool ==
  ASSUME RegistryAgrees, IdleAgrees, registry \in [Keys -> Entries],
         NEW p \in Pools, NEW i \in DOMAIN pools[p].idle, NEW q \in Pools,
         NEW j \in DOMAIN pools[q].idle, pools[p].idle[i] = pools[q].idle[j]
  PROVE  p = q
  <1>1. pools[p].idle # <<>> /\ pools[q].idle # <<>>
    OBVIOUS
  <1>2. PICK k \in Keys, l \in Keys : registry[k].pool = p /\ registry[l].pool = q
    BY <1>1 DEF IdleAgrees, IsRegistered
  <1>3. pools[p].key = k /\ pools[q].key = l
    BY <1>2, RedisClientAssumption DEF RegistryAgrees
  <1>4. pools[p].key = pools[q].key
    BY DEF IdleAgrees, IdleRight
  <1>5. QED
    BY <1>2, <1>3, <1>4

\* pool.take: the connection used last is taken from the stack.
LEMMA PopIdleStep ==
  ASSUME IInv, NEW c \in Callers, PopIdle(c)
  PROVE  IInv'
  <1> DEFINE p == callers[c].pool
             idle == pools[p].idle
             d == Top(idle)
             rest == Pop(idle)
             r == [callers[c] EXCEPT !.pc = "write", !.conn = d, !.reused = TRUE]
  <1>1. callers[c].pc = "pop" /\ idle # <<>>
    BY DEF PopIdle, At
  <1>2. /\ callers[c] \in CallerRecords /\ callers[c].key \in Keys /\ p \in Pools
        /\ pools[p] \in PoolRecords /\ pools[p].key = callers[c].key /\ callers[c].conn = None
        /\ IsRegistered(p)
    BY <1>1, InCall DEF IInv, Connected
  <1>3. /\ idle \in Seq(Conns) /\ rest \in Seq(Conns) /\ Len(idle) \in DOMAIN idle
        /\ d = idle[Len(idle)] /\ d \in Conns
        /\ DOMAIN rest = DOMAIN idle \ {Len(idle)} /\ \A i \in DOMAIN rest : rest[i] = idle[i]
    <2>1. idle \in Seq(Conns)
      BY <1>2 DEF PoolRecords
    <2>2. Len(idle) \in Nat /\ Len(idle) >= 1
      BY <1>1, <2>1
    <2>3. rest \in Seq(Conns) /\ DOMAIN rest = 1..(Len(idle) - 1)
          /\ \A i \in 1..(Len(idle) - 1) : rest[i] = idle[i]
      BY <2>1, <2>2 DEF Pop
    <2>4. DOMAIN idle = 1..Len(idle)
      BY <2>1
    <2>5. QED
      <3>1. DOMAIN rest = DOMAIN idle \ {Len(idle)} /\ \A i \in DOMAIN rest : rest[i] = idle[i]
        <4>1. \A m \in Nat : m >= 1 => 1..(m - 1) = (1..m) \ {m}
          OBVIOUS
        <4>2. DOMAIN rest = DOMAIN idle \ {Len(idle)}
          BY <2>2, <2>3, <2>4, <4>1
        <4>3. QED
          BY <2>3, <4>2
      <3>2. d = idle[Len(idle)] /\ Len(idle) \in DOMAIN idle
        BY <2>2, <2>4 DEF Top
      <3>3. d \in Conns
        BY <2>1, <3>2, ElementOfSeq
      <3> HIDE DEF d, rest, idle
      <3>4. QED
        BY <2>1, <2>3, <3>1, <3>2, <3>3
  <1>4. /\ r \in CallerRecords /\ r.pc = "write" /\ r.key = callers[c].key /\ r.pool = p
        /\ r.conn = d /\ r.call = callers[c].call /\ r.got = callers[c].got
    <2>1. "write" \in Places /\ TRUE \in BOOLEAN
      BY DEF Places
    <2> HIDE DEF d
    <2>2. QED
      BY <1>2, <1>3, <2>1 DEF CallerRecords
  <1>5. /\ Goto(c, r) /\ pools' = [pools EXCEPT ![p].idle = rest]
        /\ UNCHANGED <<registry, recency, conns, calls>>
    BY DEF PopIdle
  <1>6. /\ conns[d].open /\ conns[d].key = callers[c].key /\ Clean(d)
        /\ \A j \in DOMAIN idle : idle[j] = d => j = Len(idle)
        /\ \A b \in Callers : callers[b].conn # d
    <2>1. IdleRight(p, Len(idle))
      BY <1>2, <1>3 DEF IInv, IdleAgrees
    <2> HIDE DEF d
    <2>2. QED
      BY <1>2, <1>3, <2>1 DEF IdleRight
  <1> HIDE DEF r, d, rest
  <1>7. /\ pools' \in [Pools -> PoolRecords] /\ pools'[p].idle = rest
        /\ \A q \in Pools : /\ pools'[q].key = pools[q].key /\ pools'[q].slots = pools[q].slots
                            /\ q # p => pools'[q].idle = pools[q].idle
    BY <1>2, <1>3, <1>5, IdleSet, Typed DEF IInv
  <1>8. callers[c].got = Nothing /\ Nothing \notin Numbers
    BY <1>1, RedisClientAssumption DEF IInv, CallersAgree, Nothing, Numbers
  <1>9. /\ TypeOK' /\ CallersAgree' /\ RegistryAgrees' /\ PoolsAreFew'
        /\ \A q \in Pools : IsRegistered(q)' = IsRegistered(q)
    <2>1. conns' \in [Conns -> ConnRecords] /\ d # None
      BY <1>3, <1>5, Typed, RedisClientAssumption DEF IInv
    <2>2. QED
      BY <1>1, <1>2, <1>3, <1>4, <1>5, <1>7, <1>8, <2>1, CallersStep DEF Connected
  <1>10. SlotsAgree'
    <2>1. pools[p].slots \in Nat /\ pools[p].slots <= MaxConnections
      BY <1>2 DEF PoolRecords, IInv, SlotsAgree
    <2>2. QED
      BY <1>1, <1>2, <1>4, <1>5, <1>7, <2>1, SlotsStep DEF Holding
  <1>11. \A b \in Callers : callers'[b] = IF b = c THEN r ELSE callers[b]
    BY <1>5, Typed, Regrouped DEF IInv
  <1>12. IdleAgrees'
    <2> SUFFICES ASSUME NEW q \in Pools
                 PROVE  /\ ~IsRegistered(q)' => pools'[q].idle = <<>>
                        /\ \A i \in DOMAIN pools'[q].idle : IdleRight(q, i)'
      BY DEF IdleAgrees
    <2>1. ~IsRegistered(q)' => pools'[q].idle = <<>>
      BY <1>2, <1>7, <1>9 DEF IInv, IdleAgrees
    <2>2. ASSUME NEW i \in DOMAIN pools'[q].idle
          PROVE  IdleRight(q, i)'
      <3>1. i \in DOMAIN pools[q].idle /\ pools'[q].idle[i] = pools[q].idle[i]
            /\ DOMAIN pools'[q].idle \subseteq DOMAIN pools[q].idle
            /\ \A j \in DOMAIN pools'[q].idle : pools'[q].idle[j] = pools[q].idle[j]
        BY <1>3, <1>7
      <3>2. IdleRight(q, i)
        BY <3>1 DEF IInv, IdleAgrees
      <3>3. pools[q].idle[i] # d
        <4>1. CASE q = p
          BY <1>3, <1>6, <1>7, <4>1
        <4>2. CASE q # p
          <5>1. RegistryAgrees /\ IdleAgrees /\ registry \in [Keys -> Entries]
            BY Typed DEF IInv
          <5>2. /\ p \in Pools /\ Len(idle) \in DOMAIN pools[p].idle
                /\ pools[p].idle[Len(idle)] = d /\ i \in DOMAIN pools[q].idle
            BY <1>2, <1>3, <3>1
          <5>3. QED
            BY <4>2, <5>1, <5>2, IdleInOnePool
        <4>3. QED
          BY <4>1, <4>2
      <3>4. \A b \in Callers : callers'[b].conn # pools[q].idle[i]
        BY <1>4, <1>11, <3>2, <3>3 DEF IdleRight
      <3>5. conns[pools[q].idle[i]].open /\ conns[pools[q].idle[i]].key = pools[q].key
            /\ Clean(pools[q].idle[i])
            /\ \A j \in DOMAIN pools[q].idle : pools[q].idle[j] = pools[q].idle[i] => j = i
        BY <3>2 DEF IdleRight
      <3>6. UNCHANGED conns /\ pools'[q].key = pools[q].key
        BY <1>5, <1>7
      <3>7. QED
        BY <3>1, <3>4, <3>5, <3>6 DEF IdleRight, Clean
    <2>3. QED
      BY <2>1, <2>2
  <1>13. OpenIsOwned'
    <2> SUFFICES ASSUME NEW e \in Conns, conns[e].open
                 PROVE  \/ \E b \in Callers : callers'[b].conn = e
                        \/ \E q \in Pools : \E i \in DOMAIN pools'[q].idle : pools'[q].idle[i] = e
      BY <1>5 DEF OpenIsOwned
    <2>1. CASE e = d
      BY <1>4, <1>11, <2>1
    <2>2. CASE \E b \in Callers : callers[b].conn = e
      BY <1>2, <1>11, <2>2, RedisClientAssumption
    <2>3. ASSUME e # d, NEW q \in Pools, NEW i \in DOMAIN pools[q].idle, pools[q].idle[i] = e
          PROVE  \E j \in DOMAIN pools'[q].idle : pools'[q].idle[j] = e
      BY <1>3, <1>7, <2>3
    <2>4. QED
      BY <2>1, <2>2, <2>3 DEF IInv, OpenIsOwned
  <1>14. HeldAgrees'
    <2> SUFFICES ASSUME NEW b \in Callers, callers'[b].conn # None PROVE HeldRight(b)'
      BY DEF HeldAgrees
    <2>1. CASE b = c
      BY <1>4, <1>5, <1>6, <1>11, <2>1 DEF HeldRight, Clean
    <2>2. CASE b # c
      <3>1. callers'[b] = callers[b] /\ conns' = conns /\ callers[b].conn # d
        BY <1>5, <1>6, <1>11, <2>2
      <3>2. \A a \in Callers : callers[a].conn = callers[b].conn => a = b
        BY <3>1 DEF IInv, HeldAgrees, HeldRight
      <3>3. \A a \in Callers : callers'[a].conn = callers[b].conn => a = b
        BY <1>4, <1>11, <3>1, <3>2
      <3>4. QED
        BY <3>1, <3>3, StillHeld
    <2>3. QED
      BY <2>1, <2>2
  <1>15. LimitAgrees'
    BY <1>4, <1>5, LimitKept
  <1>16. QED
    BY <1>9, <1>10, <1>12, <1>13, <1>14, <1>15 DEF IInv

\* What closing some connections does.
LEMMA Closing ==
  ASSUME conns \in [Conns -> ConnRecords], NEW S, conns' = CloseAll(S)
  PROVE  /\ conns' \in [Conns -> ConnRecords]
         /\ \A d \in Conns : /\ d \notin S => conns'[d] = conns[d]
                             /\ d \in S => ~conns'[d].open
  <1>1. ASSUME NEW s \in ConnRecords
        PROVE  Closed(s) \in ConnRecords /\ ~Closed(s).open
    <2>1. /\ [s EXCEPT !.open = FALSE, !.outbox = <<>>] \in ConnRecords
          /\ ~[s EXCEPT !.open = FALSE, !.outbox = <<>>].open
      <3>1. <<>> \in Seq(Numbers \X Kinds) /\ FALSE \in BOOLEAN
        OBVIOUS
      <3>2. QED
        BY <3>1 DEF ConnRecords
    <2>2. QED
      BY <2>1, Constants DEF Closed
  <1>2. \A d \in Conns : conns'[d] = IF d \in S THEN Closed(conns[d]) ELSE conns[d]
    BY DEF CloseAll
  <1>3. \A d \in Conns : conns'[d] \in ConnRecords
    BY <1>1, <1>2
  <1>4. conns' \in [Conns -> ConnRecords]
    BY <1>3 DEF CloseAll
  <1>5. QED
    BY <1>1, <1>2, <1>4

\* The idle connections are past their timeout, or there is none.  Afterwards the
\* connections open to the key are those its callers hold, so that one more may be dialed.
LEMMA PopNothingStep ==
  ASSUME IInv, NEW c \in Callers, PopNothing(c)
  PROVE  IInv'
  <1> DEFINE p == callers[c].pool
             k == callers[c].key
             r == [callers[c] EXCEPT !.pc = "dial"]
  <1>1. callers[c].pc = "pop"
    BY DEF PopNothing, At
  <1>2. /\ callers[c] \in CallerRecords /\ k \in Keys /\ p \in Pools /\ registry[k].pool = p
        /\ pools[p] \in PoolRecords /\ pools[p].key = k /\ callers[c].conn = None
        /\ IsRegistered(p)
    BY <1>1, InCall DEF IInv, Connected
  <1>3. /\ r \in CallerRecords /\ r.pc = "dial" /\ r.key = k /\ r.pool = p
        /\ r.conn = None /\ r.call = callers[c].call /\ r.got = callers[c].got
    BY <1>2 DEF CallerRecords, Places
  <1>4. /\ Goto(c, r) /\ pools' = [pools EXCEPT ![p].idle = <<>>]
        /\ conns' = CloseAll(IdleOf(p)) /\ UNCHANGED <<registry, recency, calls>>
    BY DEF PopNothing
  <1> HIDE DEF r
  <1>5. /\ pools' \in [Pools -> PoolRecords] /\ pools'[p].idle = <<>>
        /\ \A q \in Pools : /\ pools'[q].key = pools[q].key /\ pools'[q].slots = pools[q].slots
                            /\ q # p => pools'[q].idle = pools[q].idle
    <2>1. <<>> \in Seq(Conns)
      OBVIOUS
    <2>2. QED
      BY <1>2, <1>4, <2>1, IdleSet, Typed DEF IInv
  <1>6. /\ conns' \in [Conns -> ConnRecords]
        /\ \A d \in Conns : /\ d \notin IdleOf(p) => conns'[d] = conns[d]
                            /\ d \in IdleOf(p) => ~conns'[d].open
    BY <1>4, Closing, Typed DEF IInv
  <1>7. callers[c].got = Nothing /\ Nothing \notin Numbers
    BY <1>1, RedisClientAssumption DEF IInv, CallersAgree, Nothing, Numbers
  <1>8. /\ TypeOK' /\ CallersAgree' /\ RegistryAgrees' /\ PoolsAreFew'
        /\ \A q \in Pools : IsRegistered(q)' = IsRegistered(q)
    BY <1>1, <1>2, <1>3, <1>4, <1>5, <1>6, <1>7, CallersStep DEF Connected
  <1>9. SlotsAgree'
    <2>1. pools[p].slots \in Nat /\ pools[p].slots <= MaxConnections
      BY <1>2 DEF PoolRecords, IInv, SlotsAgree
    <2>2. (callers[c].pc \in Holding <=> r.pc \in Holding) /\ r.pool = callers[c].pool
      BY <1>1, <1>3 DEF Holding
    <2>3. /\ r.pool \in Pools /\ pools'[r.pool].slots = pools[r.pool].slots
          /\ \A q \in Pools \ {r.pool} : pools'[q].slots = pools[q].slots
      BY <1>2, <1>3, <1>5
    <2>4. QED
      BY <1>3, <1>4, <2>1, <2>2, <2>3, SlotsStep
  <1>10. \A b \in Callers : callers'[b] = IF b = c THEN r ELSE callers[b]
    BY <1>4, Typed, Regrouped DEF IInv
  <1>11. \A b \in Callers : callers'[b].conn = callers[b].conn
    BY <1>2, <1>3, <1>10
  <1>12. \A b \in Callers : callers[b].conn \notin IdleOf(p)
    <2>1. \A i \in DOMAIN pools[p].idle : IdleRight(p, i)
      BY <1>2 DEF IInv, IdleAgrees
    <2>2. QED
      BY <2>1 DEF IdleRight, IdleOf
  <1>13. IdleAgrees'
    <2> SUFFICES ASSUME NEW q \in Pools
                 PROVE  /\ ~IsRegistered(q)' => pools'[q].idle = <<>>
                        /\ \A i \in DOMAIN pools'[q].idle : IdleRight(q, i)'
      BY DEF IdleAgrees
    <2>1. CASE q = p
      BY <1>5, <2>1
    <2>2. CASE q # p
      <3>1. pools'[q].idle = pools[q].idle /\ (~IsRegistered(q)' => pools'[q].idle = <<>>)
        BY <1>5, <1>8, <2>2 DEF IInv, IdleAgrees
      <3>2. ASSUME NEW i \in DOMAIN pools[q].idle
            PROVE  IdleRight(q, i)'
        <4>1. IdleRight(q, i) /\ pools[q].idle[i] \in Conns /\ registry \in [Keys -> Entries]
          BY Typed, ElementOfSeq DEF IInv, IdleAgrees, PoolRecords
        <4>2. pools[q].idle[i] \notin IdleOf(p)
          BY <1>2, <2>2, <4>1, IdleInOnePool DEF IInv, IdleOf
        <4>3. conns'[pools[q].idle[i]] = conns[pools[q].idle[i]]
          BY <1>6, <4>1, <4>2
        <4>4. QED
          BY <1>5, <1>11, <3>1, <4>1, <4>3 DEF IdleRight, Clean
      <3>3. QED
        BY <3>1, <3>2
    <2>3. QED
      BY <2>1, <2>2
  <1>14. OpenIsOwned'
    <2> SUFFICES ASSUME NEW e \in Conns, conns'[e].open
                 PROVE  \/ \E b \in Callers : callers'[b].conn = e
                        \/ \E q \in Pools : \E i \in DOMAIN pools'[q].idle : pools'[q].idle[i] = e
      BY DEF OpenIsOwned
    <2>1. e \notin IdleOf(p) /\ conns[e].open
      BY <1>6
    <2>2. CASE \E b \in Callers : callers[b].conn = e
      BY <1>11, <2>2
    <2>3. ASSUME NEW q \in Pools, NEW i \in DOMAIN pools[q].idle, pools[q].idle[i] = e
          PROVE  pools'[q].idle = pools[q].idle
      BY <1>5, <2>1, <2>3 DEF IdleOf
    <2>4. QED
      BY <2>1, <2>2, <2>3 DEF IInv, OpenIsOwned
  <1>15. HeldAgrees'
    <2> SUFFICES ASSUME NEW b \in Callers, callers'[b].conn # None PROVE HeldRight(b)'
      BY DEF HeldAgrees
    <2>1. /\ callers'[b] = callers[b] /\ callers[b].conn \in Conns
      BY <1>3, <1>10, <1>11, Typed DEF IInv, CallerRecords
    <2>2. conns'[callers[b].conn] = conns[callers[b].conn]
      BY <1>6, <1>12, <2>1
    <2>3. \A a \in Callers : callers'[a].conn = callers[b].conn => a = b
      BY <1>11, <2>1, RedisClientAssumption DEF IInv, HeldAgrees, HeldRight
    <2>4. QED
      BY <2>1, <2>2, <2>3, StillHeld, RedisClientAssumption
  <1>16. LimitAgrees'
    <2> SUFFICES ASSUME NEW j \in Keys
                 PROVE  /\ IsFiniteSet(OpenTo(j)') /\ IsFiniteSet(Dialing(j)')
                        /\ Cardinality(OpenTo(j)') + Cardinality(Dialing(j)') <= MaxConnections
      BY DEF LimitAgrees
    <2>1. OpenTo(j)' \subseteq OpenTo(j)
      BY <1>6 DEF OpenTo
    <2>2. Dialing(j)' = IF j = k THEN Dialing(j) \cup {c} ELSE Dialing(j) \ {c}
      BY <1>3, <1>4, Typed, Regrouped DEF IInv
    <2>3. /\ IsFiniteSet(OpenTo(j)) /\ IsFiniteSet(Dialing(j))
          /\ Cardinality(OpenTo(j)) + Cardinality(Dialing(j)) <= MaxConnections
      BY DEF IInv, LimitAgrees
    <2>4. /\ IsFiniteSet(OpenTo(j)') /\ IsFiniteSet(Dialing(j)')
          /\ Cardinality(OpenTo(j)') <= Cardinality(OpenTo(j))
          /\ Cardinality(OpenTo(j)) \in Nat /\ Cardinality(OpenTo(j)') \in Nat
          /\ Cardinality(Dialing(j)) \in Nat
      BY <2>1, <2>2, <2>3, FS_Subset, FS_CardinalityType, Counted
    <2>5. CASE j # k
      <3>1. c \notin Dialing(j)
        BY <2>5 DEF Dialing, Using
      <3>2. Dialing(j)' = Dialing(j)
        BY <2>2, <2>5, <3>1
      <3>3. QED
        BY <2>3, <2>4, <3>2, RedisClientAssumption
    <2>6. CASE j = k
      <3> DEFINE Busy == {b \in Holders(p) : callers[b].pc \in Connected}
      <3>1. /\ IsFiniteSet(Holders(p)) /\ Cardinality(Holders(p)) <= MaxConnections
        BY <1>2 DEF IInv, SlotsAgree
      <3>2. Busy \cap Dialing(j)' = {} /\ Busy \cup Dialing(j)' \subseteq Holders(p)
        <4>1. \A b \in Dialing(j)' : b = c \/ (callers[b].pc = "dial" /\ callers[b].key = k)
          BY <2>2, <2>6 DEF Dialing, Using, At
        <4>2. \A b \in Dialing(j)' : b \in Callers /\ callers[b].pc \in {"pop", "dial"} /\ callers[b].pool = p
          <5>1. Dialing(j)' \subseteq Callers
            BY DEF Dialing, Using
          <5>2. QED
            BY <1>1, <1>2, <4>1, <5>1 DEF IInv, CallersAgree
        <4>3. QED
          BY <4>2 DEF Holders, Holding, Connected
      <3>3. /\ IsFiniteSet(Busy) /\ Cardinality(Busy) + Cardinality(Dialing(j)') <= MaxConnections
            /\ Cardinality(Busy) \in Nat /\ Cardinality(Dialing(j)') \in Nat
        <4>1. IsFiniteSet(Busy)
          BY <3>1, FS_Subset
        <4>2. /\ IsFiniteSet(Busy \cup Dialing(j)')
              /\ Cardinality(Busy \cup Dialing(j)') =
                   Cardinality(Busy) + Cardinality(Dialing(j)') - Cardinality({})
          BY <2>4, <2>6, <3>2, <4>1, FS_Union
        <4>3. Cardinality(Busy \cup Dialing(j)') <= Cardinality(Holders(p))
          BY <3>1, <3>2, FS_Subset
        <4>4. /\ Cardinality(Busy) \in Nat /\ Cardinality(Dialing(j)') \in Nat
              /\ Cardinality(Holders(p)) \in Nat /\ Cardinality({}) = 0
          BY <2>4, <2>6, <3>1, <4>1, FS_CardinalityType, FS_EmptySet
        <4>5. QED
          BY <3>1, <4>1, <4>2, <4>3, <4>4, RedisClientAssumption
      <3>4. Cardinality(OpenTo(j)') <= Cardinality(Busy)
        <4> DEFINE f == [b \in Busy |-> callers[b].conn]
        <4>1. ASSUME NEW d \in OpenTo(j)'
              PROVE  \E b \in Busy : callers[b].conn = d
          <5>1. d \in Conns /\ conns'[d].open /\ conns'[d].key = k
            BY <2>6 DEF OpenTo
          <5>2. d \notin IdleOf(p) /\ conns[d].open /\ conns[d].key = k
            BY <1>6, <5>1
          <5>3. ASSUME NEW q \in Pools, NEW i \in DOMAIN pools[q].idle, pools[q].idle[i] = d
                PROVE  FALSE
            <6>1. IdleRight(q, i) /\ pools[q].idle # <<>>
              BY DEF IInv, IdleAgrees
            <6>2. pools[q].key = k /\ IsRegistered(q)
              BY <5>2, <5>3, <6>1 DEF IInv, IdleAgrees, IdleRight
            <6>3. q = p
              BY <1>2, <6>2, RedisClientAssumption DEF IInv, RegistryAgrees, IsRegistered
            <6>4. QED
              BY <5>2, <5>3, <6>3 DEF IdleOf
          <5>4. PICK b \in Callers : callers[b].conn = d
            BY <5>1, <5>2, <5>3 DEF IInv, OpenIsOwned
          <5>5. callers[b].conn # None
            BY <5>1, <5>4, RedisClientAssumption
          <5>6. callers[b].pc \in Connected /\ callers[b].key = k
            BY <5>2, <5>4, <5>5 DEF IInv, HeldAgrees, HeldRight, CallersAgree
          <5>7. callers[b].pool = p
            BY <1>2, <5>6 DEF IInv, CallersAgree, Connected
          <5>8. QED
            BY <5>4, <5>6, <5>7 DEF Holders, Holding, Connected
        <4>2. ASSUME NEW b \in Busy
              PROVE  callers[b].conn \in OpenTo(j)'
          <5>1. b \in Callers /\ callers[b].pc \in Connected /\ callers[b].pool = p
            BY DEF Holders
          <5>2. callers[b].conn \in Conns /\ callers[b].conn # None
                /\ registry[callers[b].key].pool = p /\ callers[b].key \in Keys
            BY <5>1, InCall DEF IInv, Connected
          <5>3. callers[b].key = k
            BY <1>2, <5>2, RedisClientAssumption DEF IInv, RegistryAgrees
          <5>4. conns[callers[b].conn].open /\ conns[callers[b].conn].key = k
            BY <5>1, <5>2, <5>3 DEF IInv, HeldAgrees, HeldRight
          <5>5. conns'[callers[b].conn] = conns[callers[b].conn]
            BY <1>6, <1>12, <5>1, <5>2
          <5>6. QED
            BY <2>6, <5>2, <5>4, <5>5 DEF OpenTo
        <4>3. f \in Surjection(Busy, OpenTo(j)')
          BY <4>1, <4>2 DEF Surjection
        <4>4. QED
          BY <3>3, <4>3, FS_Surjection
      <3>5. QED
        BY <2>4, <2>6, <3>3, <3>4, RedisClientAssumption
    <2>7. QED
      BY <2>5, <2>6
  <1>17. QED
    BY <1>8, <1>9, <1>13, <1>14, <1>15, <1>16 DEF IInv

\* dialRedisConnection: a connection of the pool's key is opened for the caller.
LEMMA DialStep ==
  ASSUME IInv, NEW c \in Callers, Dial(c)
  PROVE  IInv'
  <1> DEFINE p == callers[c].pool
             k == callers[c].key
  <1>1. callers[c].pc = "dial"
    BY DEF Dial, At
  <1>2. /\ callers[c] \in CallerRecords /\ k \in Keys /\ p \in Pools
        /\ pools[p] \in PoolRecords /\ pools[p].key = k /\ callers[c].conn = None
    BY <1>1, InCall DEF IInv, Connected
  <1>3. PICK d \in Conns :
          /\ conns[d] = NoConnection
          /\ conns' = [conns EXCEPT ![d] = [open |-> TRUE, key |-> pools[p].key, up |-> TRUE,
                                            inbox |-> <<>>, outbox |-> <<>>]]
          /\ Goto(c, [callers[c] EXCEPT !.pc = "write", !.conn = d, !.reused = FALSE])
          /\ UNCHANGED <<registry, recency, pools, calls>>
    BY DEF Dial
  <1> DEFINE r == [callers[c] EXCEPT !.pc = "write", !.conn = d, !.reused = FALSE]
             s == [open |-> TRUE, key |-> pools[p].key, up |-> TRUE,
                   inbox |-> <<>>, outbox |-> <<>>]
  <1>4. /\ r \in CallerRecords /\ r.pc = "write" /\ r.key = k /\ r.pool = p
        /\ r.conn = d /\ r.call = callers[c].call /\ r.got = callers[c].got
    <2>1. "write" \in Places /\ FALSE \in BOOLEAN
      BY DEF Places
    <2>2. QED
      BY <1>2, <1>3, <2>1 DEF CallerRecords
  <1>5. s \in ConnRecords /\ s.open /\ s.key = k /\ s.inbox = <<>> /\ s.outbox = <<>>
    BY <1>2 DEF ConnRecords
  <1>6. Goto(c, r) /\ conns' = [conns EXCEPT ![d] = s]
    BY <1>3
  <1> HIDE DEF r, s
  <1>7. /\ conns' \in [Conns -> ConnRecords] /\ pools' \in [Pools -> PoolRecords]
        /\ conns'[d] = s /\ \A e \in Conns \ {d} : conns'[e] = conns[e]
    BY <1>3, <1>5, <1>6, Typed DEF IInv
  <1>8. callers[c].got = Nothing /\ Nothing \notin Numbers /\ d # None
    BY <1>1, RedisClientAssumption DEF IInv, CallersAgree, Nothing, Numbers
  <1>9. /\ TypeOK' /\ CallersAgree' /\ RegistryAgrees' /\ PoolsAreFew'
        /\ \A q \in Pools : IsRegistered(q)' = IsRegistered(q)
    BY <1>1, <1>2, <1>3, <1>4, <1>6, <1>7, <1>8, CallersStep DEF Connected
  <1>10. SlotsAgree'
    <2>1. pools[p].slots \in Nat /\ pools[p].slots <= MaxConnections
      BY <1>2 DEF PoolRecords, IInv, SlotsAgree
    <2>2. QED
      BY <1>1, <1>2, <1>3, <1>4, <1>6, <2>1, SlotsStep DEF Holding
  <1>11. \A b \in Callers : callers'[b] = IF b = c THEN r ELSE callers[b]
    BY <1>6, Typed, Regrouped DEF IInv
  <1>12. /\ ~conns[d].open
         /\ \A b \in Callers : callers[b].conn # d
         /\ \A q \in Pools : \A i \in DOMAIN pools[q].idle : pools[q].idle[i] # d
    <2>1. ~conns[d].open
      BY <1>3, Constants
    <2>2. \A b \in Callers : callers[b].conn # d
      BY <1>8, <2>1 DEF IInv, HeldAgrees, HeldRight
    <2>3. \A q \in Pools : \A i \in DOMAIN pools[q].idle : IdleRight(q, i)
      BY DEF IInv, IdleAgrees
    <2>4. QED
      BY <2>1, <2>2, <2>3 DEF IdleRight
  <1>13. IdleAgrees'
    <2>1. ASSUME NEW q \in Pools, NEW i \in DOMAIN pools[q].idle
          PROVE  IdleRight(q, i)'
      <3>1. IdleRight(q, i) /\ pools[q].idle[i] \in Conns \ {d}
        BY <1>12, Typed, ElementOfSeq DEF IInv, IdleAgrees, PoolRecords
      <3>2. conns'[pools[q].idle[i]] = conns[pools[q].idle[i]]
        BY <1>7, <3>1
      <3>3. \A b \in Callers : callers'[b].conn # pools[q].idle[i]
        BY <1>4, <1>11, <3>1 DEF IdleRight
      <3>4. QED
        BY <1>3, <3>1, <3>2, <3>3 DEF IdleRight, Clean
    <2>2. QED
      BY <1>3, <1>9, <2>1 DEF IInv, IdleAgrees
  <1>14. OpenIsOwned'
    <2> SUFFICES ASSUME NEW e \in Conns, conns'[e].open
                 PROVE  \/ \E b \in Callers : callers'[b].conn = e
                        \/ \E q \in Pools : \E i \in DOMAIN pools[q].idle : pools[q].idle[i] = e
      BY <1>3 DEF OpenIsOwned
    <2>1. CASE e = d
      BY <1>4, <1>11, <2>1
    <2>2. CASE e # d
      <3>1. conns[e].open
        BY <1>7, <2>2
      <3>2. \A b \in Callers : callers[b].conn = e => callers'[b].conn = e
        BY <1>2, <1>11, RedisClientAssumption
      <3>3. QED
        BY <3>1, <3>2 DEF IInv, OpenIsOwned
    <2>3. QED
      BY <2>1, <2>2
  <1>15. HeldAgrees'
    <2> SUFFICES ASSUME NEW b \in Callers, callers'[b].conn # None PROVE HeldRight(b)'
      BY DEF HeldAgrees
    <2>1. CASE b = c
      BY <1>4, <1>5, <1>7, <1>11, <1>12, <2>1 DEF HeldRight, Clean
    <2>2. CASE b # c
      <3>1. callers'[b] = callers[b] /\ callers[b].conn \in Conns \ {d}
        BY <1>11, <1>12, <2>2, Typed DEF IInv, CallerRecords
      <3>2. \A a \in Callers : callers[a].conn = callers[b].conn => a = b
        BY <3>1, RedisClientAssumption DEF IInv, HeldAgrees, HeldRight
      <3>3. \A a \in Callers : callers'[a].conn = callers[b].conn => a = b
        BY <1>4, <1>11, <3>1, <3>2
      <3>4. QED
        BY <1>7, <3>1, <3>3, StillHeld, RedisClientAssumption
    <2>3. QED
      BY <2>1, <2>2
  <1>16. LimitAgrees'
    <2> SUFFICES ASSUME NEW j \in Keys
                 PROVE  /\ IsFiniteSet(OpenTo(j)') /\ IsFiniteSet(Dialing(j)')
                        /\ Cardinality(OpenTo(j)') + Cardinality(Dialing(j)') <= MaxConnections
      BY DEF LimitAgrees
    <2>1. /\ IsFiniteSet(OpenTo(j)) /\ IsFiniteSet(Dialing(j))
          /\ Cardinality(OpenTo(j)) + Cardinality(Dialing(j)) <= MaxConnections
      BY DEF IInv, LimitAgrees
    <2>2. Dialing(j)' = Dialing(j) \ {c}
      BY <1>4, <1>6, Typed, Regrouped DEF IInv
    <2>3. c \in Dialing(j) <=> j = k
      BY <1>1 DEF Dialing, Using, At
    <2>4. OpenTo(j)' = IF j = k THEN OpenTo(j) \cup {d} ELSE OpenTo(j)
      BY <1>5, <1>7, <1>12 DEF OpenTo
    <2>5. d \notin OpenTo(j)
      BY <1>12 DEF OpenTo
    <2>6. /\ IsFiniteSet(OpenTo(j) \cup {d}) /\ Cardinality(OpenTo(j)) \in Nat
          /\ Cardinality(OpenTo(j) \cup {d}) = Cardinality(OpenTo(j)) + 1
      BY <2>1, <2>5, Counted
    <2>7. /\ IsFiniteSet(Dialing(j) \ {c}) /\ Cardinality(Dialing(j)) \in Nat
          /\ Cardinality(Dialing(j) \ {c}) = IF j = k THEN Cardinality(Dialing(j)) - 1
                                             ELSE Cardinality(Dialing(j))
      BY <2>1, <2>3, Counted
    <2>8. QED
      BY <2>1, <2>2, <2>4, <2>6, <2>7, RedisClientAssumption
  <1>17. QED
    BY <1>9, <1>10, <1>13, <1>14, <1>15, <1>16 DEF IInv

\* What the stack is after a push.
LEMMA Pushed ==
  ASSUME NEW S, NEW s \in Seq(S), NEW d \in S
  PROVE  /\ Append(s, d) \in Seq(S)
         /\ DOMAIN Append(s, d) = DOMAIN s \cup {Len(s) + 1}
         /\ Len(s) + 1 \notin DOMAIN s
         /\ Append(s, d)[Len(s) + 1] = d
         /\ \A i \in DOMAIN s : Append(s, d)[i] = s[i]
  <1>1. Len(s) \in Nat /\ DOMAIN s = 1..Len(s)
    OBVIOUS
  <1>2. /\ Append(s, d) \in Seq(S) /\ Len(Append(s, d)) = Len(s) + 1
        /\ \A i \in 1..Len(s) : Append(s, d)[i] = s[i]
        /\ Append(s, d)[Len(s) + 1] = d
    BY AppendProperties
  <1>3. DOMAIN Append(s, d) = 1..(Len(s) + 1)
    BY <1>1, <1>2
  <1>4. QED
    BY <1>1, <1>2, <1>3

\* pool.put: a connection whose command succeeded may be kept, any other is closed.
LEMMA PutStep ==
  ASSUME IInv, NEW c \in Callers, Put(c)
  PROVE  IInv'
  <1> DEFINE p == callers[c].pool
             d == callers[c].conn
             keep == callers[c].got \in Numbers /\ Len(pools[p].idle) < MaxIdle
             stack == IF keep THEN Append(pools[p].idle, d) ELSE pools[p].idle
             r == [callers[c] EXCEPT !.pc = "free", !.conn = None]
  <1>1. callers[c].pc = "put"
    BY DEF Put, At
  <1>2. /\ callers[c] \in CallerRecords /\ callers[c].key \in Keys /\ p \in Pools
        /\ pools[p] \in PoolRecords /\ pools[p].key = callers[c].key /\ d \in Conns
        /\ IsRegistered(p) /\ pools[p].idle \in Seq(Conns)
    BY <1>1, InCall DEF IInv, Connected, PoolRecords
  <1>3. /\ r \in CallerRecords /\ r.pc = "free" /\ r.key = callers[c].key /\ r.pool = p
        /\ r.conn = None /\ r.call = callers[c].call /\ r.got = callers[c].got
    BY <1>2 DEF CallerRecords, Places
  <1>4. /\ stack \in Seq(Conns)
        /\ keep => /\ DOMAIN stack = DOMAIN pools[p].idle \cup {Len(pools[p].idle) + 1}
                   /\ Len(pools[p].idle) + 1 \notin DOMAIN pools[p].idle
                   /\ stack[Len(pools[p].idle) + 1] = d
        /\ ~keep => stack = pools[p].idle
        /\ \A i \in DOMAIN pools[p].idle : i \in DOMAIN stack /\ stack[i] = pools[p].idle[i]
    <2>1. CASE keep
      <3> DEFINE old == pools[p].idle
      <3>1. stack = Append(old, d)
        BY <2>1
      <3>2. old \in Seq(Conns) /\ d \in Conns
        BY <1>2
      <3> HIDE DEF stack, old, d
      <3>3. /\ stack \in Seq(Conns)
            /\ DOMAIN stack = DOMAIN old \cup {Len(old) + 1}
            /\ Len(old) + 1 \notin DOMAIN old
            /\ stack[Len(old) + 1] = d
            /\ \A i \in DOMAIN old : stack[i] = old[i]
        BY <3>1, <3>2, Pushed
      <3>4. \A i \in DOMAIN old : i \in DOMAIN stack
        BY <3>3
      <3> HIDE DEF keep
      <3>5. QED
        BY <2>1, <3>3, <3>4 DEF old
    <2>2. CASE ~keep
      BY <1>2, <2>2
    <2>3. QED
      BY <2>1, <2>2
  <1>5. /\ Goto(c, r) /\ UNCHANGED <<registry, recency, calls>>
        /\ keep => conns' = conns
        /\ ~keep => conns' = CloseAll({d})
        /\ pools' = [pools EXCEPT ![p].idle = stack]
    <2>1. pools = [pools EXCEPT ![p].idle = pools[p].idle]
      BY <1>2, Typed DEF IInv, PoolRecords
    <2>2. QED
      BY <2>1 DEF Put
  <1>6. /\ conns[d].open /\ conns[d].key = callers[c].key
        /\ \A b \in Callers : callers[b].conn = d => b = c
        /\ callers[c].got \in Numbers => Clean(d)
    BY <1>1, <1>2, RedisClientAssumption DEF IInv, HeldAgrees, HeldRight
  <1>7. /\ callers[c].got \in Numbers => callers[c].got = callers[c].call
    BY DEF IInv, CallersAgree
  <1> HIDE DEF r, stack
  <1>8. /\ pools' \in [Pools -> PoolRecords] /\ pools'[p].idle = stack
        /\ \A q \in Pools : /\ pools'[q].key = pools[q].key /\ pools'[q].slots = pools[q].slots
                            /\ q # p => pools'[q].idle = pools[q].idle
    BY <1>2, <1>4, <1>5, IdleSet, Typed DEF IInv
  <1>9. /\ conns' \in [Conns -> ConnRecords]
        /\ \A e \in Conns \ {d} : conns'[e] = conns[e]
        /\ keep => conns'[d] = conns[d]
        /\ ~keep => ~conns'[d].open
    <2>1. conns \in [Conns -> ConnRecords]
      BY Typed DEF IInv
    <2>2. CASE keep
      BY <1>5, <2>1, <2>2
    <2>3. CASE ~keep
      BY <1>2, <1>5, <2>1, <2>3, Closing
    <2>4. QED
      BY <2>2, <2>3
  <1>10. /\ TypeOK' /\ CallersAgree' /\ RegistryAgrees' /\ PoolsAreFew'
         /\ \A q \in Pools : IsRegistered(q)' = IsRegistered(q)
    BY <1>1, <1>2, <1>3, <1>5, <1>7, <1>8, <1>9, CallersStep DEF Connected
  <1>11. SlotsAgree'
    <2>1. pools[p].slots \in Nat /\ pools[p].slots <= MaxConnections
      BY <1>2 DEF PoolRecords, IInv, SlotsAgree
    <2>2. QED
      BY <1>1, <1>2, <1>3, <1>5, <1>8, <2>1, SlotsStep DEF Holding
  <1>12. \A b \in Callers : callers'[b] = IF b = c THEN r ELSE callers[b]
    BY <1>5, Typed, Regrouped DEF IInv
  <1>13. \A q \in Pools : \A i \in DOMAIN pools[q].idle :
            /\ IdleRight(q, i) /\ pools[q].idle[i] \in Conns \ {d}
    <2> SUFFICES ASSUME NEW q \in Pools, NEW i \in DOMAIN pools[q].idle
                 PROVE  IdleRight(q, i) /\ pools[q].idle[i] \in Conns \ {d}
      OBVIOUS
    <2>1. IdleRight(q, i) /\ pools[q].idle[i] \in Conns
      BY Typed, ElementOfSeq DEF IInv, IdleAgrees, PoolRecords
    <2>2. QED
      BY <2>1 DEF IdleRight
  <1>14. IdleAgrees'
    <2> SUFFICES ASSUME NEW q \in Pools
                 PROVE  /\ ~IsRegistered(q)' => pools'[q].idle = <<>>
                        /\ \A i \in DOMAIN pools'[q].idle : IdleRight(q, i)'
      BY DEF IdleAgrees
    <2>1. ~IsRegistered(q)' => pools'[q].idle = <<>>
      BY <1>2, <1>8, <1>10 DEF IInv, IdleAgrees
    <2>2. ASSUME NEW i \in DOMAIN pools'[q].idle, i \in DOMAIN pools[q].idle
          PROVE  IdleRight(q, i)'
      <3>1. IdleRight(q, i) /\ pools[q].idle[i] \in Conns \ {d}
        BY <1>13, <2>2
      <3>2. pools'[q].idle[i] = pools[q].idle[i]
        BY <1>4, <1>8, <2>2
      <3>3. conns'[pools[q].idle[i]] = conns[pools[q].idle[i]]
        BY <1>9, <3>1
      <3>4. \A b \in Callers : callers'[b].conn # pools[q].idle[i]
        BY <1>3, <1>12, <3>1, RedisClientAssumption DEF IdleRight
      <3>5. \A j \in DOMAIN pools'[q].idle : pools'[q].idle[j] = pools[q].idle[i] => j = i
        <4>1. ASSUME NEW j \in DOMAIN pools'[q].idle, j \notin DOMAIN pools[q].idle
              PROVE  pools'[q].idle[j] = d
          <5>1. q = p /\ keep
            BY <1>4, <1>8, <4>1
          <5>2. QED
            BY <1>4, <1>8, <4>1, <5>1
        <4>2. \A j \in DOMAIN pools[q].idle : pools'[q].idle[j] = pools[q].idle[j]
          BY <1>4, <1>8
        <4>3. QED
          BY <3>1, <4>1, <4>2 DEF IdleRight
      <3>6. QED
        BY <1>8, <3>1, <3>2, <3>3, <3>4, <3>5 DEF IdleRight, Clean
    <2>3. ASSUME NEW i \in DOMAIN pools'[q].idle, i \notin DOMAIN pools[q].idle
          PROVE  IdleRight(q, i)'
      <3>1. q = p /\ keep /\ i = Len(pools[p].idle) + 1 /\ pools'[q].idle[i] = d
        <4>1. q = p /\ keep
          BY <1>4, <1>8, <2>3
        <4>2. QED
          BY <1>4, <1>8, <2>3, <4>1
      <3>2. conns'[d] = conns[d] /\ Clean(d)
        BY <1>6, <1>9, <3>1
      <3>3. \A b \in Callers : callers'[b].conn # d
        BY <1>2, <1>3, <1>6, <1>12, RedisClientAssumption
      <3>4. \A j \in DOMAIN pools'[q].idle : pools'[q].idle[j] = d => j = i
        <4>1. \A j \in DOMAIN pools[q].idle : pools'[q].idle[j] # d
          BY <1>4, <1>8, <1>13
        <4>2. \A j \in DOMAIN pools'[q].idle : j \in DOMAIN pools[q].idle \/ j = i
          BY <1>4, <1>8, <3>1
        <4>3. QED
          BY <4>1, <4>2
      <3>5. pools'[q].key = callers[c].key
        BY <1>2, <1>8, <3>1
      <3>6. QED
        BY <1>6, <3>1, <3>2, <3>3, <3>4, <3>5 DEF IdleRight, Clean
    <2>4. QED
      BY <2>1, <2>2, <2>3
  <1>15. OpenIsOwned'
    <2> SUFFICES ASSUME NEW e \in Conns, conns'[e].open
                 PROVE  \/ \E b \in Callers : callers'[b].conn = e
                        \/ \E q \in Pools : \E i \in DOMAIN pools'[q].idle : pools'[q].idle[i] = e
      BY DEF OpenIsOwned
    <2>1. CASE e = d
      <3>1. keep
        BY <1>9, <2>1
      <3>2. Len(pools[p].idle) + 1 \in DOMAIN pools'[p].idle
            /\ pools'[p].idle[Len(pools[p].idle) + 1] = d
        BY <1>4, <1>8, <3>1
      <3>3. QED
        BY <1>2, <2>1, <3>2
    <2>2. CASE e # d
      <3>1. conns[e].open
        BY <1>9, <2>2
      <3>2. \A b \in Callers : callers[b].conn = e => callers'[b].conn = e
        BY <1>12, <2>2
      <3>3. \A q \in Pools : \A i \in DOMAIN pools[q].idle :
               i \in DOMAIN pools'[q].idle /\ pools'[q].idle[i] = pools[q].idle[i]
        BY <1>4, <1>8
      <3>4. QED
        BY <3>1, <3>2, <3>3 DEF IInv, OpenIsOwned
    <2>3. QED
      BY <2>1, <2>2
  <1>16. HeldAgrees'
    <2> SUFFICES ASSUME NEW b \in Callers, callers'[b].conn # None PROVE HeldRight(b)'
      BY DEF HeldAgrees
    <2>1. b # c
      BY <1>3, <1>12
    <2>2. callers'[b] = callers[b] /\ callers[b].conn \in Conns \ {d}
      BY <1>6, <1>12, <2>1, Typed DEF IInv, CallerRecords
    <2>3. \A a \in Callers : callers[a].conn = callers[b].conn => a = b
      BY <2>2, RedisClientAssumption DEF IInv, HeldAgrees, HeldRight
    <2>4. \A a \in Callers : callers'[a].conn = callers[b].conn => a = b
      BY <1>3, <1>12, <2>2, <2>3
    <2>5. QED
      BY <1>9, <2>2, <2>4, StillHeld, RedisClientAssumption
  <1>17. LimitAgrees'
    <2>1. \A e \in Conns : conns'[e].open => conns[e].open /\ conns'[e].key = conns[e].key
      BY <1>9
    <2>2. QED
      BY <1>3, <1>5, <2>1, LimitKept
  <1>18. QED
    BY <1>10, <1>11, <1>14, <1>15, <1>16, <1>17 DEF IInv

\* What a caller is once its call has begun.
LEMMA Begun ==
  ASSUME IInv, NEW c \in Callers, callers[c].pc = "idle", NEW k \in Keys, NEW p \in Pools,
         Start(c, k, p)
  PROVE  /\ callers[c] = Resting
         /\ callers' \in [Callers -> CallerRecords] /\ calls' \in 0..MaxCalls
         /\ \E r \in CallerRecords :
              /\ Goto(c, r) /\ r.pc = "slot" /\ r.key = k /\ r.pool = p /\ r.conn = None
              /\ r.call \in Numbers /\ r.got = Nothing
              /\ \A b \in Callers : callers'[b] = IF b = c THEN r ELSE callers[b]
              /\ \A j \in Keys : /\ Using(j)' = IF j = k THEN Using(j) \cup {c} ELSE Using(j)
                                 /\ c \notin Using(j)
              /\ \A q \in Pools : Holders(q)' = Holders(q)
  <1> DEFINE r == [Resting EXCEPT !.pc = "slot", !.key = k, !.pool = p, !.attempt = 1,
                                  !.call = calls + 1]
  <1>1. callers[c] = Resting
    BY DEF IInv, CallersAgree
  <1>2. calls + 1 \in Numbers /\ calls + 1 \in 0..MaxCalls /\ calls' = calls + 1
    BY Typed, RedisClientAssumption DEF IInv, Start, Numbers
  <1>3. /\ r \in CallerRecords /\ r.pc = "slot" /\ r.key = k /\ r.pool = p /\ r.conn = None
        /\ r.call = calls + 1 /\ r.got = Nothing
    <2>1. "slot" \in Places /\ 1 \in 0..2
      BY DEF Places
    <2>2. QED
      BY <1>2, <2>1, Rests DEF CallerRecords
  <1>4. Goto(c, r)
    BY DEF Start
  <1> HIDE DEF r
  <1>5. callers \in [Callers -> CallerRecords]
    BY Typed DEF IInv
  <1>6. callers' \in [Callers -> CallerRecords]
    BY <1>3, <1>4, <1>5 DEF Goto
  <1>7. \A b \in Callers : callers'[b] = IF b = c THEN r ELSE callers[b]
    BY <1>4, <1>5, Regrouped
  <1>8. ASSUME NEW j \in Keys
        PROVE  /\ Using(j)' = IF j = k THEN Using(j) \cup {c} ELSE Using(j)
               /\ c \notin Using(j)
    <2>1. Using(j)' = IF r.key = j THEN Using(j) \cup {c} ELSE Using(j) \ {c}
      BY <1>4, <1>5, Regrouped
    <2>2. c \notin Using(j)
      BY <1>1, Rests, RedisClientAssumption DEF Using
    <2>3. QED
      BY <1>3, <2>1, <2>2
  <1>9. ASSUME NEW q \in Pools PROVE Holders(q)' = Holders(q)
    <2>1. Holders(q)' = IF r.pool = q /\ r.pc \in Holding
                        THEN Holders(q) \cup {c} ELSE Holders(q) \ {c}
      BY <1>4, <1>5, Regrouped
    <2>2. c \notin Holders(q) /\ r.pc \notin Holding
      BY <1>3 DEF Holders, Holding
    <2>3. QED
      BY <2>1, <2>2
  <1>10. QED
    BY <1>1, <1>2, <1>3, <1>4, <1>6, <1>7, <1>8, <1>9

\* registry.acquire of a key that has a pool.
LEMMA AcquireKnownStep ==
  ASSUME IInv, NEW c \in Callers, NEW k \in Keys, AcquireKnown(c, k)
  PROVE  IInv'
  <1> DEFINE p == registry[k].pool
             n == registry[k].inUse + 1
  <1>1. /\ callers[c].pc = "idle" /\ k \in Registered /\ Start(c, k, p) /\ recency' = Touch(k)
        /\ registry' = [registry EXCEPT ![k].inUse = n] /\ UNCHANGED <<pools, conns>>
    BY DEF AcquireKnown, At
  <1>2. registry \in [Keys -> Entries] /\ registry[k].inUse \in Nat /\ p \in Pools
    <2>1. registry \in [Keys -> Entries] /\ registry[k] \in Entries
      BY Typed DEF IInv
    <2>2. p # None
      BY <1>1, RegisteredPools DEF IInv
    <2>3. QED
      BY <2>1, <2>2 DEF Entries
  <1>3. n \in Nat
    BY <1>2
  <1> HIDE DEF n
  <1>4. /\ registry' \in [Keys -> Entries] /\ registry'[k].inUse = n
        /\ \A j \in Keys : /\ registry'[j].pool = registry[j].pool
                           /\ j # k => registry'[j] = registry[j]
    BY <1>1, <1>2, <1>3 DEF Entries
  <1>5. PICK r \in CallerRecords :
          /\ Goto(c, r) /\ r.pc = "slot" /\ r.key = k /\ r.pool = p /\ r.conn = None
          /\ r.call \in Numbers /\ r.got = Nothing
          /\ \A b \in Callers : callers'[b] = IF b = c THEN r ELSE callers[b]
          /\ \A j \in Keys : /\ Using(j)' = IF j = k THEN Using(j) \cup {c} ELSE Using(j)
                             /\ c \notin Using(j)
          /\ \A q \in Pools : Holders(q)' = Holders(q)
    <2> HIDE DEF p
    <2>1. QED
      BY <1>1, <1>2, Begun
  <1>6. /\ callers[c] = Resting
        /\ callers' \in [Callers -> CallerRecords] /\ calls' \in 0..MaxCalls
    BY <1>1, <1>2, Begun
  <1>7. TypeOK'
    <2>1. recency' \in SUBSET (Keys \X Keys)
      BY <1>1, Typed DEF IInv, Touch, Without, Registered
    <2>2. QED
      BY <1>1, <1>4, <1>6, <2>1, Typed, TypedNext DEF IInv
  <1>8. CallersAgree'
    <2>1. \A b \in Callers : callers[b].pc # "idle" =>
            registry'[callers[b].key].pool = registry[callers[b].key].pool
      BY <1>4 DEF IInv, CallersAgree
    <2>2. Nothing \notin Numbers
      BY RedisClientAssumption DEF Nothing, Numbers
    <2>3. registry'[k].pool = p
      BY <1>4
    <2>4. QED
      BY <1>2, <1>5, <2>1, <2>2, <2>3 DEF IInv, CallersAgree, Connected
  <1>9. RegistryAgrees'
    <2> SUFFICES ASSUME NEW j \in Keys
                 PROVE  /\ registry'[j].pool = None => registry'[j] = NoEntry
                        /\ registry'[j].pool # None =>
                             /\ pools'[registry'[j].pool].key = j
                             /\ \A i \in Keys : registry'[i].pool = registry'[j].pool => i = j
                        /\ IsFiniteSet(Using(j)') /\ registry'[j].inUse = Cardinality(Using(j)')
      BY DEF RegistryAgrees
    <2>1. /\ registry[j].pool = None => registry[j] = NoEntry
          /\ registry[j].pool # None =>
               /\ pools[registry[j].pool].key = j
               /\ \A i \in Keys : registry[i].pool = registry[j].pool => i = j
          /\ IsFiniteSet(Using(j)) /\ registry[j].inUse = Cardinality(Using(j))
      BY DEF IInv, RegistryAgrees
    <2>2. /\ IsFiniteSet(Using(j) \cup {c})
          /\ Cardinality(Using(j) \cup {c}) = Cardinality(Using(j)) + 1
      BY <1>5, <2>1, Counted
    <2>3. IsFiniteSet(Using(j)') /\ registry'[j].inUse = Cardinality(Using(j)')
      BY <1>4, <1>5, <2>1, <2>2 DEF n
    <2>4. registry'[j].pool = registry[j].pool /\ pools' = pools
      BY <1>1, <1>4
    <2>5. registry'[j].pool = None => registry'[j] = NoEntry
      BY <1>2, <1>4, <2>1, RedisClientAssumption
    <2>6. QED
      BY <1>4, <2>1, <2>3, <2>4, <2>5
  <1>10. PoolsAreFew'
    <2>1. Registered = {j \in Keys : registry[j].pool # None}
      BY RegisteredPools DEF IInv
    <2>2. Registered' = {j \in Keys : registry'[j].pool # None}
      BY <1>4, <1>9, Constants DEF RegistryAgrees, Registered
    <2>3. Registered' = Registered
      BY <1>4, <2>1, <2>2
    <2>4. QED
      BY <2>3 DEF IInv, PoolsAreFew
  <1>11. SlotsAgree'
    BY <1>1, <1>5 DEF IInv, SlotsAgree
  <1>12. IdleAgrees' /\ HeldAgrees' /\ OpenIsOwned'
    <2>1. \A q : IsRegistered(q)' = IsRegistered(q)
      BY <1>4 DEF IsRegistered
    <2>2. QED
      BY <1>1, <1>5, <1>6, <2>1, Rests, ConnectionsKept
  <1>13. LimitAgrees'
    BY <1>1, <1>5, LimitKept
  <1>14. QED
    BY <1>7, <1>8, <1>9, <1>10, <1>11, <1>12, <1>13 DEF IInv

\* Key k is registered with the new pool p in the place of the keys in gone, which are unused.
Enters(k, p, gone) ==
  /\ Unreferenced(p)
  /\ registry' \in [Keys -> Entries] /\ registry'[k] = [pool |-> p, inUse |-> 1]
  /\ \A j \in gone : registry[j].inUse = 0
  /\ \A j \in gone : registry'[j] = NoEntry
  /\ \A j \in Keys : j # k /\ j \notin gone => registry'[j] = registry[j]
  /\ pools' \in [Pools -> PoolRecords] /\ pools'[p] = [FreshPool EXCEPT !.key = k]
  /\ \A j \in gone : pools'[registry[j].pool] = FreshPool
  /\ \A q \in Pools : q # p /\ (\A j \in gone : registry[j].pool # q) => pools'[q] = pools[q]
  /\ conns' \in [Conns -> ConnRecords]
  /\ \A d \in Conns : \/ conns'[d] = conns[d] /\ \A j \in gone : d \notin IdleOf(registry[j].pool)
                      \/ ~conns'[d].open /\ \E j \in gone : d \in IdleOf(registry[j].pool)

\* A pool is registered for a key that has none, in the place of some that are evicted.
LEMMA Entered ==
  ASSUME IInv, NEW c \in Callers, NEW k \in Keys, k \notin Registered, callers[c].pc = "idle",
         NEW p \in Pools, Start(c, k, p), NEW gone \in SUBSET Registered, Enters(k, p, gone),
         recency' \in SUBSET (Keys \X Keys),
         IsFiniteSet(Registered'), Cardinality(Registered') <= MaxPools
  PROVE  IInv'
  <1> SUFFICES ASSUME Unreferenced(p), \A j \in gone : registry[j].inUse = 0,
                      registry' \in [Keys -> Entries], registry'[k] = [pool |-> p, inUse |-> 1],
                      \A j \in gone : registry'[j] = NoEntry,
                      \A j \in Keys : j # k /\ j \notin gone => registry'[j] = registry[j],
                      pools' \in [Pools -> PoolRecords], pools'[p] = [FreshPool EXCEPT !.key = k],
                      \A j \in gone : pools'[registry[j].pool] = FreshPool,
                      \A q \in Pools : q # p /\ (\A j \in gone : registry[j].pool # q) => pools'[q] = pools[q],
                      conns' \in [Conns -> ConnRecords],
                      \A d \in Conns : \/ conns'[d] = conns[d] /\ \A j \in gone : d \notin IdleOf(registry[j].pool)
                                       \/ ~conns'[d].open /\ \E j \in gone : d \in IdleOf(registry[j].pool)
               PROVE  IInv'
    BY DEF Enters
  <1>1. PICK r \in CallerRecords :
          /\ Goto(c, r) /\ r.pc = "slot" /\ r.key = k /\ r.pool = p /\ r.conn = None
          /\ r.call \in Numbers /\ r.got = Nothing
          /\ \A b \in Callers : callers'[b] = IF b = c THEN r ELSE callers[b]
          /\ \A j \in Keys : /\ Using(j)' = IF j = k THEN Using(j) \cup {c} ELSE Using(j)
                             /\ c \notin Using(j)
          /\ \A q \in Pools : Holders(q)' = Holders(q)
    BY Begun
  <1>2. /\ callers[c] = Resting
        /\ callers' \in [Callers -> CallerRecords] /\ calls' \in 0..MaxCalls
    BY Begun
  <1>3. p # None /\ (\A j \in Keys : registry[j].pool # p) /\ \A b \in Callers : callers[b].pool # p
    BY RedisClientAssumption DEF Unreferenced
  <1>4. Using(k) = {} /\ registry[k].pool = None
    <2>1. registry[k] = NoEntry
      BY DEF Registered
    <2>2. IsFiniteSet(Using(k)) /\ Cardinality(Using(k)) = 0
      BY <2>1, Constants DEF IInv, RegistryAgrees
    <2>3. QED
      BY <2>1, <2>2, FS_EmptySet, Constants
  <1>5. ASSUME NEW j \in gone
        PROVE  /\ j \in Keys /\ j # k /\ registry[j].pool \in Pools /\ registry[j].pool # p
               /\ Using(j) = {} /\ Holders(registry[j].pool) = {}
               /\ \A i \in Keys : registry[i].pool = registry[j].pool => i = j
               /\ pools[registry[j].pool].key = j
    <2>1. j \in Keys /\ j # k /\ registry[j].pool # None /\ registry[j].pool # p
      BY <1>3, RegisteredPools DEF IInv, Registered
    <2>2. registry[j].pool \in Pools
      BY <2>1, Typed DEF IInv, Entries
    <2>3. IsFiniteSet(Using(j)) /\ Cardinality(Using(j)) = 0
      BY <2>1 DEF IInv, RegistryAgrees
    <2>4. Using(j) = {}
      BY <2>3, FS_EmptySet
    <2>5. /\ \A i \in Keys : registry[i].pool = registry[j].pool => i = j
          /\ pools[registry[j].pool].key = j
      BY <2>1 DEF IInv, RegistryAgrees
    <2>6. Holders(registry[j].pool) = {}
      <3> SUFFICES ASSUME NEW b \in Callers, callers[b].pool = registry[j].pool,
                          callers[b].pc \in Holding
                   PROVE  FALSE
        BY DEF Holders
      <3>1. callers[b].key \in Keys /\ registry[callers[b].key].pool = registry[j].pool
        BY DEF Holding, IInv, CallersAgree
      <3>2. callers[b].key = j
        BY <2>5, <3>1
      <3>3. QED
        BY <2>4, <3>2 DEF Using
    <2>7. QED
      BY <2>1, <2>2, <2>4, <2>5, <2>6
  <1>6. TypeOK'
    BY <1>2, TypedNext
  <1>7. /\ registry'[k].pool = p /\ registry'[k].inUse = 1
        /\ pools'[p].key = k /\ pools'[p].slots = 0 /\ pools'[p].idle = <<>>
    BY DEF FreshPool
  <1>8. CallersAgree'
    <2>1. ASSUME NEW b \in Callers, callers[b].pc # "idle"
          PROVE  callers[b].key \in Keys /\ registry'[callers[b].key] = registry[callers[b].key]
      <3>1. callers[b].key \in Keys /\ b \in Using(callers[b].key)
        BY <2>1 DEF IInv, CallersAgree, Using
      <3>2. callers[b].key # k /\ callers[b].key \notin gone
        BY <1>4, <1>5, <3>1
      <3>3. QED
        BY <3>1, <3>2
    <2>2. Nothing \notin Numbers
      BY RedisClientAssumption DEF Nothing, Numbers
    <2>3. QED
      BY <1>1, <1>7, <2>1, <2>2 DEF IInv, CallersAgree, Connected
  <1>9. RegistryAgrees'
    <2> SUFFICES ASSUME NEW j \in Keys
                 PROVE  /\ registry'[j].pool = None => registry'[j] = NoEntry
                        /\ registry'[j].pool # None =>
                             /\ pools'[registry'[j].pool].key = j
                             /\ \A i \in Keys : registry'[i].pool = registry'[j].pool => i = j
                        /\ IsFiniteSet(Using(j)') /\ registry'[j].inUse = Cardinality(Using(j)')
      BY DEF RegistryAgrees
    <2>1. CASE j = k
      <3>1. Using(j)' = {c}
        BY <1>1, <1>4, <2>1
      <3>2. IsFiniteSet({c}) /\ Cardinality({c}) = 1
        BY FS_Singleton
      <3>3. \A i \in Keys : registry'[i].pool = p => i = k
        BY <1>3, Constants
      <3>4. QED
        BY <1>3, <1>7, <2>1, <3>1, <3>2, <3>3
    <2>2. CASE j \in gone
      <3>1. Using(j)' = {}
        BY <1>1, <1>5, <2>2
      <3>2. QED
        BY <2>2, <3>1, FS_EmptySet, Constants
    <2>3. CASE j # k /\ j \notin gone
      <3>1. registry'[j] = registry[j] /\ Using(j)' = Using(j)
        BY <1>1, <2>3
      <3>2. /\ registry[j].pool = None => registry[j] = NoEntry
            /\ registry[j].pool # None =>
                 /\ pools[registry[j].pool].key = j
                 /\ \A i \in Keys : registry[i].pool = registry[j].pool => i = j
            /\ IsFiniteSet(Using(j)) /\ registry[j].inUse = Cardinality(Using(j))
        BY DEF IInv, RegistryAgrees
      <3>3. ASSUME registry[j].pool # None
            PROVE  pools'[registry[j].pool] = pools[registry[j].pool]
        <4>1. registry[j].pool \in Pools
          BY <3>3, Typed DEF IInv, Entries
        <4>2. QED
          BY <1>3, <1>5, <2>3, <4>1
      <3>4. ASSUME registry[j].pool # None, NEW i \in Keys, registry'[i].pool = registry[j].pool
            PROVE  i = j
        BY <1>3, <1>7, <3>2, <3>4, Constants
      <3>5. QED
        BY <3>1, <3>2, <3>3, <3>4
    <2>4. QED
      BY <2>1, <2>2, <2>3
  <1>10. PoolsAreFew'
    BY DEF PoolsAreFew
  <1>11. SlotsAgree'
    <2> SUFFICES ASSUME NEW q \in Pools
                 PROVE  /\ IsFiniteSet(Holders(q)') /\ pools'[q].slots = Cardinality(Holders(q)')
                        /\ pools'[q].slots <= MaxConnections
      BY DEF SlotsAgree
    <2>1. /\ IsFiniteSet(Holders(q)) /\ pools[q].slots = Cardinality(Holders(q))
          /\ pools[q].slots <= MaxConnections
      BY DEF IInv, SlotsAgree
    <2>0. IsFiniteSet({}) /\ Cardinality({}) = 0 /\ 0 <= MaxConnections
      BY FS_EmptySet, RedisClientAssumption
    <2>2. CASE q = p
      <3>1. Holders(q) = {}
        BY <1>3, <2>2 DEF Holders
      <3>2. Holders(q)' = {} /\ pools'[q].slots = 0
        BY <1>1, <1>7, <2>2, <3>1
      <3>3. QED
        BY <2>0, <3>2
    <2>3. CASE \E j \in gone : q = registry[j].pool
      <3>1. pools'[q].slots = 0
        BY <2>3, Constants
      <3>2. Holders(q) = {}
        <4>1. PICK j \in gone : q = registry[j].pool
          BY <2>3
        <4>2. Holders(registry[j].pool) = {}
          BY <1>5
        <4>3. QED
          BY <4>1, <4>2 DEF Holders
      <3>3. Holders(q)' = {}
        BY <1>1, <3>2
      <3>4. QED
        BY <2>0, <3>1, <3>3
    <2>4. CASE q # p /\ \A j \in gone : q # registry[j].pool
      BY <1>1, <2>1, <2>4
    <2>5. QED
      BY <2>2, <2>3, <2>4
  <1>12. \A b \in Callers : callers'[b].conn = callers[b].conn
    BY <1>1, <1>2, Rests
  <1>13. ASSUME NEW q \in Pools
         PROVE  \/ pools'[q].idle = <<>>
                \/ pools'[q] = pools[q] /\ \A i \in DOMAIN pools[q].idle :
                                             conns'[pools[q].idle[i]] = conns[pools[q].idle[i]]
    <2>1. CASE q = p
      BY <1>7, <2>1
    <2>2. CASE \E j \in gone : q = registry[j].pool
      BY <2>2, Constants
    <2>3. CASE q # p /\ \A j \in gone : q # registry[j].pool
      <3>1. pools'[q] = pools[q]
        BY <2>3
      <3>2. ASSUME NEW i \in DOMAIN pools[q].idle
            PROVE  conns'[pools[q].idle[i]] = conns[pools[q].idle[i]]
        <4>1. pools[q].idle[i] \in Conns
          BY Typed, ElementOfSeq DEF IInv, PoolRecords
        <4>2. ASSUME NEW j \in gone, pools[q].idle[i] \in IdleOf(registry[j].pool)
              PROVE  FALSE
          <5>1. registry[j].pool \in Pools
            BY <1>5
          <5>2. PICK m \in DOMAIN pools[registry[j].pool].idle :
                  pools[q].idle[i] = pools[registry[j].pool].idle[m]
            BY <4>2 DEF IdleOf
          <5>3. q = registry[j].pool
            BY <5>1, <5>2, IdleInOnePool, Typed DEF IInv
          <5>4. QED
            BY <2>3, <5>3
        <4>3. QED
          BY <4>1, <4>2
      <3>3. QED
        BY <3>1, <3>2
    <2>4. QED
      BY <2>1, <2>2, <2>3
  <1>14. IdleAgrees'
    <2> SUFFICES ASSUME NEW q \in Pools
                 PROVE  /\ ~IsRegistered(q)' => pools'[q].idle = <<>>
                        /\ \A i \in DOMAIN pools'[q].idle : IdleRight(q, i)'
      BY DEF IdleAgrees
    <2>1. CASE pools'[q].idle = <<>>
      BY <2>1
    <2>2. CASE pools'[q] = pools[q] /\ \A i \in DOMAIN pools[q].idle :
                                         conns'[pools[q].idle[i]] = conns[pools[q].idle[i]]
      <3>1. ASSUME NEW i \in DOMAIN pools[q].idle PROVE IdleRight(q, i)'
        <4>1. IdleRight(q, i)
          BY DEF IInv, IdleAgrees
        <4>2. Clean(pools[q].idle[i])' <=> Clean(pools[q].idle[i])
          BY <2>2 DEF Clean
        <4>3. QED
          BY <1>12, <2>2, <4>1, <4>2 DEF IdleRight
      <3>2. ASSUME IsRegistered(q), ~IsRegistered(q)' PROVE pools'[q].idle = <<>>
        <4>1. PICK j \in Keys : registry[j].pool = q
          BY <3>2 DEF IsRegistered
        <4>2. j \in gone
          BY <1>4, <3>2, <4>1, RedisClientAssumption DEF IsRegistered
        <4>3. QED
          BY <4>1, <4>2, Constants
      <3>3. QED
        BY <2>2, <3>1, <3>2 DEF IInv, IdleAgrees
    <2>3. QED
      BY <1>13, <2>1, <2>2
  <1>15. HeldAgrees'
    <2> SUFFICES ASSUME NEW b \in Callers, callers'[b].conn # None PROVE HeldRight(b)'
      BY DEF HeldAgrees
    <2>1. b # c /\ callers'[b] = callers[b] /\ callers[b].conn \in Conns
      BY <1>1, Typed DEF IInv, CallerRecords
    <2>2. \A j \in gone : callers[b].conn \notin IdleOf(registry[j].pool)
      <3>1. \A q \in Pools : \A i \in DOMAIN pools[q].idle : IdleRight(q, i)
        BY DEF IInv, IdleAgrees
      <3>2. \A q \in Pools : callers[b].conn \notin IdleOf(q)
        BY <3>1 DEF IdleOf, IdleRight
      <3>3. QED
        BY <1>5, <3>2
    <2>3. conns'[callers[b].conn] = conns[callers[b].conn]
      BY <2>1, <2>2
    <2>4. \A a \in Callers : callers[a].conn = callers[b].conn => a = b
      BY <2>1, RedisClientAssumption DEF IInv, HeldAgrees, HeldRight
    <2>5. QED
      BY <1>12, <2>1, <2>3, <2>4, StillHeld, RedisClientAssumption
  <1>16. OpenIsOwned'
    <2> SUFFICES ASSUME NEW d \in Conns, conns'[d].open
                 PROVE  \/ \E b \in Callers : callers'[b].conn = d
                        \/ \E q \in Pools : \E i \in DOMAIN pools'[q].idle : pools'[q].idle[i] = d
      BY DEF OpenIsOwned
    <2>1. conns'[d] = conns[d] /\ \A j \in gone : d \notin IdleOf(registry[j].pool)
      OBVIOUS
    <2>2. CASE \E b \in Callers : callers[b].conn = d
      BY <1>12, <2>2
    <2>3. ASSUME NEW q \in Pools, NEW i \in DOMAIN pools[q].idle, pools[q].idle[i] = d
          PROVE  pools'[q].idle = pools[q].idle
      <3>1. q # p
        <4>1. ~IsRegistered(p)
          BY <1>3 DEF IsRegistered
        <4>2. QED
          BY <2>3, <4>1 DEF IInv, IdleAgrees
      <3>2. \A j \in gone : registry[j].pool # q
        <4> SUFFICES ASSUME NEW j \in gone, registry[j].pool = q PROVE FALSE
          OBVIOUS
        <4>1. IdleOf(registry[j].pool) = {pools[q].idle[m] : m \in DOMAIN pools[q].idle}
          BY DEF IdleOf
        <4>2. d \notin IdleOf(registry[j].pool)
          BY <2>1
        <4>3. QED
          BY <2>3, <4>1, <4>2
      <3>3. QED
        BY <3>1, <3>2
    <2>4. QED
      BY <2>1, <2>2, <2>3 DEF IInv, OpenIsOwned
  <1>17. LimitAgrees'
    <2>1. \A d \in Conns : conns'[d].open => conns[d].open /\ conns'[d].key = conns[d].key
      OBVIOUS
    <2>2. QED
      BY <1>1, <2>1, LimitKept
  <1>18. QED
    BY <1>6, <1>8, <1>9, <1>10, <1>11, <1>14, <1>15, <1>16, <1>17 DEF IInv

\* registry.acquire of a new key while there may be one more pool.
LEMMA AcquireNewStep ==
  ASSUME IInv, NEW c \in Callers, NEW k \in Keys, AcquireNew(c, k)
  PROVE  IInv'
  <1>1. /\ callers[c].pc = "idle" /\ k \notin Registered /\ Cardinality(Registered) < MaxPools
        /\ recency' = Touch(k) /\ UNCHANGED conns
    BY DEF AcquireNew, At
  <1>2. PICK p \in Pools :
          /\ Unreferenced(p)
          /\ registry' = [registry EXCEPT ![k] = [pool |-> p, inUse |-> 1]]
          /\ pools' = NewPool(k, p) /\ Start(c, k, p)
    BY DEF AcquireNew
  <1>3. /\ registry \in [Keys -> Entries] /\ pools \in [Pools -> PoolRecords]
        /\ conns \in [Conns -> ConnRecords] /\ recency \in SUBSET (Keys \X Keys)
    BY Typed DEF IInv
  <1>4. /\ registry' \in [Keys -> Entries] /\ registry'[k] = [pool |-> p, inUse |-> 1]
        /\ \A j \in Keys : j # k => registry'[j] = registry[j]
    BY <1>2, <1>3 DEF Entries
  <1>5. /\ pools' \in [Pools -> PoolRecords] /\ pools'[p] = [FreshPool EXCEPT !.key = k]
        /\ \A q \in Pools : q # p => pools'[q] = pools[q]
    <2>1. [FreshPool EXCEPT !.key = k] \in PoolRecords
      BY Constants DEF PoolRecords
    <2>2. QED
      BY <1>2, <1>3, <2>1 DEF NewPool
  <1>6. recency' \in SUBSET (Keys \X Keys)
    BY <1>1, <1>3 DEF Touch, Without, Registered
  <1>7. IsFiniteSet(Registered') /\ Cardinality(Registered') <= MaxPools
    <2>1. Registered' = Registered \cup {k}
      <3>1. registry'[k] # NoEntry
        BY <1>4, RedisClientAssumption DEF NoEntry
      <3>2. QED
        BY <1>4, <3>1 DEF Registered
    <2>2. IsFiniteSet(Registered)
      BY DEF IInv, PoolsAreFew
    <2>3. /\ IsFiniteSet(Registered \cup {k}) /\ Cardinality(Registered) \in Nat
          /\ Cardinality(Registered \cup {k}) = Cardinality(Registered) + 1
      BY <1>1, <2>2, Counted
    <2>4. QED
      BY <1>1, <2>1, <2>3, RedisClientAssumption
  <1> DEFINE gone == {}
  <1>8. gone \in SUBSET Registered /\ \A j \in gone : FALSE
    OBVIOUS
  <1> HIDE DEF gone
  <1>9. QED
    <2>1. Enters(k, p, gone)
      BY <1>1, <1>2, <1>3, <1>4, <1>5, <1>8 DEF Enters
    <2>2. QED
      BY <1>1, <1>2, <1>6, <1>7, <1>8, <2>1, Entered

\* registry.acquire of a new key in the place of the one unused for the longest time.
LEMMA AcquireByEvictionStep ==
  ASSUME IInv, NEW c \in Callers, NEW k \in Keys, AcquireByEviction(c, k)
  PROVE  IInv'
  <1>1. callers[c].pc = "idle" /\ k \notin Registered
    BY DEF AcquireByEviction, At
  <1>2. PICK old \in Keys, p \in Pools :
          /\ Oldest(old) /\ Unreferenced(p)
          /\ registry' = [registry EXCEPT ![old] = NoEntry, ![k] = [pool |-> p, inUse |-> 1]]
          /\ recency' = Replace(old, k)
          /\ pools' = [NewPool(k, p) EXCEPT ![registry[old].pool] = FreshPool]
          /\ conns' = CloseAll(IdleOf(registry[old].pool))
          /\ Start(c, k, p)
    BY DEF AcquireByEviction
  <1>3. /\ registry \in [Keys -> Entries] /\ pools \in [Pools -> PoolRecords]
        /\ conns \in [Conns -> ConnRecords] /\ recency \in SUBSET (Keys \X Keys)
    BY Typed DEF IInv
  <1>4. old \in Registered /\ registry[old].inUse = 0 /\ old # k
    BY <1>1, <1>2 DEF Oldest, Evictable
  <1> DEFINE g == registry[old].pool
  <1>5. g \in Pools /\ g # p
    <2>1. g # None
      BY <1>4, RegisteredPools DEF IInv
    <2>2. QED
      BY <1>2, <1>3, <2>1 DEF Entries, Unreferenced
  <1>6. /\ registry' \in [Keys -> Entries] /\ registry'[k] = [pool |-> p, inUse |-> 1]
        /\ registry'[old] = NoEntry
        /\ \A j \in Keys : j # k /\ j # old => registry'[j] = registry[j]
    <2>1. [pool |-> p, inUse |-> 1] \in Entries /\ NoEntry \in Entries
      BY Constants DEF Entries
    <2>2. QED
      BY <1>2, <1>3, <1>4, <2>1
  <1>7. /\ pools' \in [Pools -> PoolRecords] /\ pools'[p] = [FreshPool EXCEPT !.key = k]
        /\ pools'[g] = FreshPool
        /\ \A q \in Pools : q # p /\ q # g => pools'[q] = pools[q]
    <2>1. [FreshPool EXCEPT !.key = k] \in PoolRecords /\ FreshPool \in PoolRecords
      BY Constants DEF PoolRecords
    <2>2. NewPool(k, p) \in [Pools -> PoolRecords]
      BY <1>3, <2>1 DEF NewPool
    <2>3. \A q \in Pools : NewPool(k, p)[q] = IF q = p THEN [FreshPool EXCEPT !.key = k] ELSE pools[q]
      BY <1>3 DEF NewPool
    <2> HIDE DEF g
    <2>4. pools' = [NewPool(k, p) EXCEPT ![g] = FreshPool]
      BY <1>2 DEF g
    <2>5. QED
      BY <1>5, <2>1, <2>2, <2>3, <2>4
  <1>8. recency' \in SUBSET (Keys \X Keys)
    BY <1>2, <1>3 DEF Replace, Without, Registered
  <1>9. /\ conns' \in [Conns -> ConnRecords]
        /\ \A d \in Conns : /\ d \notin IdleOf(g) => conns'[d] = conns[d]
                            /\ d \in IdleOf(g) => ~conns'[d].open
    BY <1>2, <1>3, Closing
  <1>10. IsFiniteSet(Registered') /\ Cardinality(Registered') <= MaxPools
    <2>1. Registered' = (Registered \ {old}) \cup {k}
      <3>1. registry'[k] # NoEntry
        BY <1>6, RedisClientAssumption DEF NoEntry
      <3>2. QED
        BY <1>4, <1>6, <3>1 DEF Registered
    <2>2. IsFiniteSet(Registered) /\ Cardinality(Registered) <= MaxPools
      BY DEF IInv, PoolsAreFew
    <2>3. /\ IsFiniteSet(Registered \ {old}) /\ Cardinality(Registered) \in Nat
          /\ Cardinality(Registered \ {old}) = Cardinality(Registered) - 1
      BY <1>4, <2>2, Counted
    <2>4. /\ IsFiniteSet((Registered \ {old}) \cup {k})
          /\ Cardinality((Registered \ {old}) \cup {k}) = Cardinality(Registered \ {old}) + 1
      BY <1>1, <2>3, Counted
    <2>5. QED
      BY <2>1, <2>2, <2>3, <2>4
  <1> DEFINE gone == {old}
  <1>11. /\ gone \in SUBSET Registered /\ \A j \in gone : j = old
         /\ old \in gone
    BY <1>4
  <1>12. \A d \in Conns : \/ conns'[d] = conns[d] /\ \A j \in gone : d \notin IdleOf(registry[j].pool)
                          \/ ~conns'[d].open /\ \E j \in gone : d \in IdleOf(registry[j].pool)
    BY <1>9
  <1> HIDE DEF gone, g
  <1>13. /\ \A j \in gone : registry[j].inUse = 0
         /\ \A j \in gone : registry'[j] = NoEntry
         /\ \A j \in Keys : j # k /\ j \notin gone => registry'[j] = registry[j]
         /\ \A j \in gone : pools'[registry[j].pool] = FreshPool
         /\ \A q \in Pools : q # p /\ (\A j \in gone : registry[j].pool # q) => pools'[q] = pools[q]
    BY <1>4, <1>6, <1>7, <1>11 DEF g
  <1>14. QED
    <2>1. /\ registry' \in [Keys -> Entries] /\ registry'[k] = [pool |-> p, inUse |-> 1]
          /\ pools' \in [Pools -> PoolRecords] /\ pools'[p] = [FreshPool EXCEPT !.key = k]
          /\ conns' \in [Conns -> ConnRecords] /\ Unreferenced(p) /\ Start(c, k, p)
          /\ gone \in SUBSET Registered
      BY <1>2, <1>6, <1>7, <1>9, <1>11
    <2>2. QED
      <3>1. Enters(k, p, gone)
        BY <1>12, <1>13, <2>1 DEF Enters
      <3>2. QED
        BY <1>1, <1>8, <1>10, <2>1, <3>1, Entered

\* A call that changes nothing but its number.
LEMMA RestStep ==
  ASSUME IInv, UNCHANGED <<registry, recency, pools, conns, callers>>, calls' \in 0..MaxCalls
  PROVE  IInv'
  <1>1. TypeOK'
    BY Typed, TypedNext DEF IInv
  <1>2. CallersAgree' /\ HeldAgrees'
    BY DEF IInv, CallersAgree, HeldAgrees, HeldRight, Clean, Awaits
  <1>3. RegistryAgrees' /\ PoolsAreFew'
    BY DEF IInv, RegistryAgrees, PoolsAreFew, Using, Registered
  <1>4. SlotsAgree' /\ LimitAgrees'
    BY DEF IInv, SlotsAgree, LimitAgrees, Holders, OpenTo, Dialing, Using, At
  <1>5. IdleAgrees' /\ OpenIsOwned'
    BY DEF IInv, IdleAgrees, IdleRight, OpenIsOwned, Clean, IsRegistered
  <1>6. QED
    BY <1>1, <1>2, <1>3, <1>4, <1>5 DEF IInv

\* Before the first call nothing is open, taken or registered.
THEOREM InitIInv == Init => IInv
  <1> SUFFICES ASSUME Init PROVE IInv
    OBVIOUS
  <1> USE DEF Init
  <1>1. /\ \A k \in Keys : registry[k] = NoEntry
        /\ \A p \in Pools : pools[p] = FreshPool
        /\ \A d \in Conns : conns[d] = NoConnection
        /\ \A c \in Callers : callers[c] = Resting
    OBVIOUS
  <1>2. TypeOK
    BY Constants, Rests, RedisClientAssumption, Typed
  <1>3. Nothing \notin Numbers
    BY RedisClientAssumption DEF Nothing, Numbers
  <1>4. CallersAgree
    BY <1>1, <1>3, Rests DEF CallersAgree, Connected
  <1>5. IsFiniteSet({}) /\ Cardinality({}) = 0 /\ 0 <= MaxConnections
    BY FS_EmptySet, RedisClientAssumption
  <1>6. \A k \in Keys : Using(k) = {} /\ OpenTo(k) = {} /\ Dialing(k) = {}
    BY <1>1, Rests, Constants, RedisClientAssumption DEF Using, OpenTo, Dialing
  <1>7. \A p \in Pools : Holders(p) = {}
    BY <1>1, Rests DEF Holders, Holding
  <1>8. RegistryAgrees
    BY <1>1, <1>5, <1>6, Constants DEF RegistryAgrees
  <1>9. PoolsAreFew
    <2>1. Registered = {}
      BY <1>1 DEF Registered
    <2>2. QED
      BY <1>5, <2>1, RedisClientAssumption DEF PoolsAreFew
  <1>10. SlotsAgree
    BY <1>1, <1>5, <1>7, Constants DEF SlotsAgree
  <1>11. IdleAgrees
    BY <1>1, Constants DEF IdleAgrees
  <1>12. HeldAgrees
    BY <1>1, Rests DEF HeldAgrees
  <1>13. OpenIsOwned
    BY <1>1, Constants DEF OpenIsOwned
  <1>14. LimitAgrees
    BY <1>5, <1>6, RedisClientAssumption DEF LimitAgrees
  <1>15. QED
    BY <1>2, <1>4, <1>8, <1>9, <1>10, <1>11, <1>12, <1>13, <1>14 DEF IInv

\* No step of a caller or of the server breaks the invariant.
THEOREM NextIInv == IInv /\ [Next]_vars => IInv'
  <1> SUFFICES ASSUME IInv, [Next]_vars PROVE IInv'
    OBVIOUS
  <1>1. calls \in 0..MaxCalls
    BY Typed DEF IInv
  <1>2. ASSUME NEW c \in Callers, Proceed(c) PROVE IInv'
    BY <1>2, TakeSlotStep, SlotTimeoutStep, PopIdleStep, PopNothingStep, DialStep, DialFailsStep,
       WriteStep, ReadStep, CommandFailsStep, PutStep, FreeStep, ReleaseStep DEF Proceed
  <1>3. ASSUME NEW c \in Callers, NEW k \in Keys, Acquire(c, k) PROVE IInv'
    <2>1. CASE AcquireKnown(c, k)
      BY <2>1, AcquireKnownStep
    <2>2. CASE AcquireNew(c, k)
      BY <2>2, AcquireNewStep
    <2>3. CASE AcquireByEviction(c, k)
      BY <2>3, AcquireByEvictionStep
    <2>4. CASE AcquireRefused(c, k)
      <3>1. UNCHANGED <<registry, recency, pools, conns, callers>> /\ calls' \in 0..MaxCalls
        BY <1>1, <2>4, RedisClientAssumption DEF AcquireRefused
      <3>2. QED
        BY <3>1, RestStep
    <2>5. QED
      BY <1>3, <2>1, <2>2, <2>3, <2>4 DEF Acquire
  <1>4. ASSUME NEW d \in Conns, Drop(d) PROVE IInv'
    BY <1>4, DropStep
  <1>5. ASSUME NEW d \in Conns, NEW kind \in {"value", "error"}, Serve(d, kind) PROVE IInv'
    BY <1>5, ServeStep DEF Kinds
  <1>6. CASE UNCHANGED vars
    BY <1>1, <1>6, RestStep DEF vars
  <1>7. QED
    BY <1>2, <1>3, <1>4, <1>5, <1>6 DEF Next, Finished

\* The inductive invariant holds in every reachable state.
THEOREM Invariance == Spec => []IInv
  BY InitIInv, NextIInv, PTL DEF Spec

\* The registry, pools, connections and callers have the values of their types.
THEOREM TypeCorrect == Spec => []TypeOK
  <1>1. IInv => TypeOK
    BY DEF IInv
  <1>2. QED
    BY <1>1, Invariance, PTL

\* For any constants: the slots taken of a pool's semaphore are those of the
\* callers that have yet to give one back; no path of execute leaks a slot.
THEOREM EverySlotIsOwned == Spec => []SlotsAreOwned
  <1>1. IInv => SlotsAreOwned
    BY DEF IInv, SlotsAgree, SlotsAreOwned, Holders, Holding
  <1>2. QED
    BY <1>1, Invariance, PTL

\* For any constants: inUse counts exactly the callers between acquire and
\* release, and all of them work with the pool that is registered.
THEOREM CallersInUseAreCounted == Spec => []InUseIsExact
  <1>1. ASSUME IInv PROVE InUseIsExact
    <2> SUFFICES ASSUME NEW k \in Keys
                 PROVE  /\ registry[k].inUse = Cardinality(Using(k))
                        /\ \A c \in Using(k) : callers[c].pool = registry[k].pool
      BY DEF InUseIsExact
    <2>1. registry[k].inUse = Cardinality(Using(k))
      BY <1>1 DEF IInv, RegistryAgrees
    <2>2. ASSUME NEW c \in Using(k) PROVE callers[c].pool = registry[k].pool
      <3>1. c \in Callers /\ callers[c].key = k
        BY DEF Using
      <3>2. callers[c].pc # "idle"
        BY <1>1, <3>1, Rests, RedisClientAssumption DEF IInv, CallersAgree
      <3>3. QED
        BY <1>1, <3>1, <3>2 DEF IInv, CallersAgree
    <2>3. QED
      BY <2>1, <2>2
  <1>2. QED
    BY <1>1, Invariance, PTL

\* For any constants: no caller gets the reply to another caller's command, late
\* replies, retries and reused connections notwithstanding.
THEOREM RepliesAreNotConfused == Spec => []NoCrossTalk
  <1>1. IInv => NoCrossTalk
    BY DEF IInv, CallersAgree, NoCrossTalk
  <1>2. QED
    BY <1>1, Invariance, PTL

\* For any constants: an open connection is held by one caller or lies once in the
\* stack of the one registered pool of its key.
THEOREM EveryConnectionIsOwned == Spec => []ConnectionsAreOwned
  <1>1. ASSUME IInv PROVE ConnectionsAreOwned
    <2>1. /\ registry \in [Keys -> Entries] /\ callers \in [Callers -> CallerRecords]
          /\ pools \in [Pools -> PoolRecords]
      BY <1>1, Typed DEF IInv
    <2>2. ASSUME NEW k \in Keys
          PROVE  \/ IdleIn(k) = <<>>
                 \/ /\ registry[k].pool \in Pools /\ IdleIn(k) = pools[registry[k].pool].idle
                    /\ pools[registry[k].pool].key = k
      <3>1. registry[k].pool = None => registry[k] = NoEntry
        BY <1>1 DEF IInv, RegistryAgrees
      <3>2. registry[k].pool # None => /\ registry[k] # NoEntry /\ registry[k].pool \in Pools
                                       /\ pools[registry[k].pool].key = k
        BY <1>1, <2>1, Constants DEF IInv, RegistryAgrees, Entries
      <3>3. QED
        BY <3>1, <3>2 DEF IdleIn
    <2>3. ASSUME NEW k \in Keys, NEW i \in DOMAIN IdleIn(k)
          PROVE  /\ registry[k].pool \in Pools /\ IdleIn(k) = pools[registry[k].pool].idle
                 /\ IdleRight(registry[k].pool, i) /\ pools[registry[k].pool].key = k
      BY <1>1, <2>2 DEF IInv, IdleAgrees
    <2>4. ASSUME NEW c \in Callers, callers[c].conn # None
          PROVE  callers[c].conn \in Conns /\ HeldRight(c)
      BY <1>1, <2>1, <2>4 DEF IInv, HeldAgrees, CallerRecords
    <2>5. ASSUME NEW d \in Conns
          PROVE  conns[d].open <=> \/ \E c \in Callers : callers[c].conn = d
                                   \/ \E k \in Keys : \E i \in DOMAIN IdleIn(k) : IdleIn(k)[i] = d
      <3>1. ASSUME NEW c \in Callers, callers[c].conn = d PROVE conns[d].open
        BY <2>4, <3>1, RedisClientAssumption DEF HeldRight
      <3>2. ASSUME NEW k \in Keys, NEW i \in DOMAIN IdleIn(k), IdleIn(k)[i] = d
            PROVE  conns[d].open
        BY <2>3, <3>2 DEF IdleRight
      <3>3. ASSUME NEW p \in Pools, NEW i \in DOMAIN pools[p].idle, pools[p].idle[i] = d
            PROVE  \E k \in Keys : \E j \in DOMAIN IdleIn(k) : IdleIn(k)[j] = d
        <4>1. PICK k \in Keys : registry[k].pool = p
          BY <1>1 DEF IInv, IdleAgrees, IsRegistered
        <4>2. registry[k] # NoEntry
          BY <4>1, Constants, RedisClientAssumption
        <4>3. IdleIn(k) = pools[p].idle
          BY <4>1, <4>2 DEF IdleIn
        <4>4. QED
          BY <3>3, <4>3
      <3>4. QED
        BY <1>1, <3>1, <3>2, <3>3 DEF IInv, OpenIsOwned
    <2>6. \A b, c \in Callers : callers[b].conn = callers[c].conn /\ callers[b].conn # None => b = c
      BY <2>4 DEF HeldRight
    <2>7. \A c \in Callers : callers[c].conn # None => conns[callers[c].conn].key = callers[c].key
      BY <2>4 DEF HeldRight
    <2>8. ASSUME NEW k \in Keys, NEW i \in DOMAIN IdleIn(k), NEW j \in DOMAIN IdleIn(k)
          PROVE  /\ IdleIn(k)[i] = IdleIn(k)[j] => i = j
                 /\ \A c \in Callers : callers[c].conn # IdleIn(k)[i]
                 /\ conns[IdleIn(k)[i]].key = k
      <3>1. /\ IdleIn(k) = pools[registry[k].pool].idle /\ IdleRight(registry[k].pool, i)
            /\ pools[registry[k].pool].key = k
        BY <2>3
      <3>2. QED
        BY <3>1 DEF IdleRight
    <2>9. QED
      BY <2>5, <2>6, <2>7, <2>8 DEF ConnectionsAreOwned
  <1>2. QED
    BY <1>1, Invariance, PTL

\* A smallest one of some subsets of a finite set.
LEMMA SmallestSubset ==
  ASSUME NEW S, IsFiniteSet(S), NEW T, T \subseteq SUBSET S, T # {}
  PROVE  \E X \in T : \A x \in X : X \ {x} \notin T
  <1>1. IsWellFoundedOn(StrictSubsetOrdering(S), SUBSET S)
    BY FS_StrictSubsetOrderingWellFounded, FS_FiniteSubsetsOfFinite
  <1>2. PICK X \in T : \A Y \in T : <<Y, X>> \notin StrictSubsetOrdering(S)
    BY <1>1, WFMin
  <1>3. ASSUME NEW x \in X, X \ {x} \in T PROVE FALSE
    <2>1. <<X \ {x}, X>> \in StrictSubsetOrdering(S)
      BY <1>3 DEF StrictSubsetOrdering
    <2>2. QED
      BY <1>2, <1>3, <2>1
  <1>4. QED
    BY <1>2, <1>3

\* What the connections open and being dialed to some keys count for.
Opened(S) == UNION {OpenTo(k) : k \in S}
Dialed(S) == UNION {Dialing(k) : k \in S}

\* MaxConnections for each of the keys in S.
Few(S) == /\ IsFiniteSet(Opened(S)) /\ IsFiniteSet(Dialed(S))
          /\ Cardinality(Opened(S)) + Cardinality(Dialed(S)) <= Cardinality(S) * MaxConnections

\* Products with a fixed factor.
LEMMA Distributes ==
  ASSUME NEW m \in Nat, NEW n \in Nat, NEW l \in Nat
  PROVE  /\ m * l + l = (m + 1) * l
         /\ m <= n => m * l <= n * l
  OBVIOUS

\* A union has no more elements than its parts together.
LEMMA AtMostBoth ==
  ASSUME NEW S, IsFiniteSet(S), NEW T, IsFiniteSet(T)
  PROVE  /\ IsFiniteSet(S \cup T) /\ Cardinality(S) \in Nat /\ Cardinality(T) \in Nat
         /\ Cardinality(S \cup T) \in Nat
         /\ Cardinality(S \cup T) <= Cardinality(S) + Cardinality(T)
  <1>1. IsFiniteSet(S \cap T) /\ IsFiniteSet(S \cup T)
        /\ Cardinality(S \cup T) = Cardinality(S) + Cardinality(T) - Cardinality(S \cap T)
    BY FS_Union, FS_Intersection
  <1>2. /\ Cardinality(S) \in Nat /\ Cardinality(T) \in Nat /\ Cardinality(S \cap T) \in Nat
        /\ Cardinality(S \cup T) \in Nat
    BY <1>1, FS_CardinalityType
  <1>3. QED
    BY <1>1, <1>2

\* The limits of single keys add up: a smallest set of keys for which they do not
\* would be empty or have a key whose removal leaves one for which they do not.
LEMMA FewOfEach ==
  ASSUME LimitAgrees, NEW S \in SUBSET Keys, IsFiniteSet(S)
  PROVE  Few(S)
  <1> DEFINE T == {X \in SUBSET S : ~Few(X)}
  <1> SUFFICES ASSUME T # {} PROVE FALSE
    OBVIOUS
  <1>1. PICK X \in T : \A x \in X : X \ {x} \notin T
    <2>1. T \subseteq SUBSET S
      OBVIOUS
    <2> HIDE DEF T
    <2>2. QED
      BY <2>1, SmallestSubset
  <1>2. X \subseteq S /\ ~Few(X) /\ IsFiniteSet(X)
    BY FS_Subset
  <1>3. CASE X = {}
    <2>1. Opened(X) = {} /\ Dialed(X) = {}
      BY <1>3 DEF Opened, Dialed
    <2>2. IsFiniteSet({}) /\ Cardinality({}) = 0 /\ 0 <= 0 * MaxConnections
      BY FS_EmptySet, RedisClientAssumption
    <2>3. Cardinality(X) = 0 /\ 0 + 0 <= 0 * MaxConnections
      BY <1>3, <2>2, RedisClientAssumption
    <2>4. /\ IsFiniteSet(Opened(X)) /\ IsFiniteSet(Dialed(X))
          /\ Cardinality(Opened(X)) = 0 /\ Cardinality(Dialed(X)) = 0
      BY <2>1, <2>2
    <2>5. Few(X)
      BY <2>3, <2>4 DEF Few
    <2>6. QED
      BY <1>2, <2>5
  <1>4. ASSUME NEW k \in X PROVE FALSE
    <2> DEFINE R == X \ {k}
    <2>1. k \in Keys /\ R \subseteq S
      BY <1>2
    <2>2. Few(R)
      BY <1>1, <2>1
    <2>3. Opened(X) = Opened(R) \cup OpenTo(k) /\ Dialed(X) = Dialed(R) \cup Dialing(k)
      BY DEF Opened, Dialed
    <2>4. /\ IsFiniteSet(OpenTo(k)) /\ IsFiniteSet(Dialing(k))
          /\ Cardinality(OpenTo(k)) + Cardinality(Dialing(k)) <= MaxConnections
      BY <2>1 DEF LimitAgrees
    <2> HIDE DEF R
    <2>5. /\ IsFiniteSet(Opened(R)) /\ IsFiniteSet(Dialed(R))
          /\ Cardinality(Opened(R)) + Cardinality(Dialed(R)) <= Cardinality(R) * MaxConnections
      BY <2>2 DEF Few
    <2>6. /\ IsFiniteSet(Opened(X)) /\ Cardinality(Opened(R)) \in Nat /\ Cardinality(OpenTo(k)) \in Nat
          /\ Cardinality(Opened(X)) \in Nat
          /\ Cardinality(Opened(X)) <= Cardinality(Opened(R)) + Cardinality(OpenTo(k))
      BY <2>3, <2>4, <2>5, AtMostBoth
    <2>7. /\ IsFiniteSet(Dialed(X)) /\ Cardinality(Dialed(R)) \in Nat /\ Cardinality(Dialing(k)) \in Nat
          /\ Cardinality(Dialed(X)) \in Nat
          /\ Cardinality(Dialed(X)) <= Cardinality(Dialed(R)) + Cardinality(Dialing(k))
      BY <2>3, <2>4, <2>5, AtMostBoth
    <2>8. Cardinality(R) \in Nat /\ Cardinality(X) = Cardinality(R) + 1
      BY <1>2, Counted DEF R
    <2>9. Cardinality(R) * MaxConnections + MaxConnections = Cardinality(X) * MaxConnections
      BY <2>8, Distributes, RedisClientAssumption
    <2>10. Cardinality(R) * MaxConnections \in Int
      BY <2>8, RedisClientAssumption
    <2>11. Cardinality(Opened(X)) + Cardinality(Dialed(X))
             <= Cardinality(R) * MaxConnections + MaxConnections
      BY <2>4, <2>5, <2>6, <2>7, <2>10, RedisClientAssumption
    <2>12. Few(X)
      BY <2>6, <2>7, <2>9, <2>11 DEF Few
    <2>13. QED
      BY <1>2, <2>12
  <1>5. QED
    BY <1>3, <1>4

\* For any constants: maxConnections limits the connections open or being dialed
\* for each configuration, and times maxPools those of the process.
THEOREM ConnectionsAreLimited == Spec => []ConnectionLimit
  <1>1. ASSUME IInv PROVE ConnectionLimit
    <2>1. Opened(Keys) = Opened(Registered) /\ Dialed(Keys) = Dialed(Registered)
      <3>1. ASSUME NEW k \in Keys, Using(k) # {} PROVE k \in Registered
        <4>1. PICK c \in Callers : callers[c].key = k
          BY <3>1 DEF Using
        <4>2. callers[c].pc # "idle"
          BY <1>1, <4>1, Rests, RedisClientAssumption DEF IInv, CallersAgree
        <4>3. registry[k].pool # None
          BY <1>1, <4>1, <4>2, RedisClientAssumption DEF IInv, CallersAgree
        <4>4. QED
          BY <1>1, <4>3, RegisteredPools DEF IInv
      <3>2. ASSUME NEW k \in Keys, NEW d \in OpenTo(k) PROVE k \in Registered
        <4>1. d \in Conns /\ conns[d].open /\ conns[d].key = k
          BY DEF OpenTo
        <4>2. CASE \E c \in Callers : callers[c].conn = d
          <5>1. PICK c \in Callers : callers[c].conn = d
            BY <4>2
          <5>2. callers[c].key = k
            BY <1>1, <4>1, <5>1, RedisClientAssumption DEF IInv, HeldAgrees, HeldRight
          <5>3. QED
            BY <3>1, <5>2 DEF Using
        <4>3. CASE \E p \in Pools : \E i \in DOMAIN pools[p].idle : pools[p].idle[i] = d
          <5>0. PICK p \in Pools : \E i \in DOMAIN pools[p].idle : pools[p].idle[i] = d
            BY <4>3
          <5>1. PICK i \in DOMAIN pools[p].idle : pools[p].idle[i] = d
            BY <5>0
          <5>2. IsRegistered(p) /\ pools[p].key = k
            BY <1>1, <4>1, <5>1 DEF IInv, IdleAgrees, IdleRight
          <5>3. PICK j \in Keys : registry[j].pool = p
            BY <5>2 DEF IsRegistered
          <5>4. registry[j].pool # None /\ j = k
            BY <1>1, <5>2, <5>3, RedisClientAssumption DEF IInv, RegistryAgrees
          <5>5. QED
            BY <1>1, <5>4, RegisteredPools DEF IInv
        <4>4. QED
          BY <1>1, <4>1, <4>2, <4>3 DEF IInv, OpenIsOwned
      <3>3. Registered \subseteq Keys
        BY DEF Registered
      <3>4. Opened(Keys) = Opened(Registered)
        BY <3>2, <3>3 DEF Opened
      <3>5. Dialed(Keys) = Dialed(Registered)
        BY <3>1, <3>3 DEF Dialed, Dialing
      <3>6. QED
        BY <3>4, <3>5
    <2>2. /\ IsFiniteSet(Registered) /\ Cardinality(Registered) \in Nat
          /\ Cardinality(Registered) <= MaxPools
      BY <1>1, FS_CardinalityType DEF IInv, PoolsAreFew
    <2>3. /\ IsFiniteSet(Opened(Registered)) /\ IsFiniteSet(Dialed(Registered))
          /\ Cardinality(Opened(Registered)) + Cardinality(Dialed(Registered))
               <= Cardinality(Registered) * MaxConnections
      <3>1. Registered \in SUBSET Keys
        BY DEF Registered
      <3>2. QED
        BY <1>1, <2>2, <3>1, FewOfEach DEF IInv, Few
    <2>4. Cardinality(Registered) * MaxConnections <= MaxPools * MaxConnections
      BY <2>2, Distributes, RedisClientAssumption
    <2>5. Cardinality(Opened(Registered)) \in Nat /\ Cardinality(Dialed(Registered)) \in Nat
      BY <2>3, FS_CardinalityType
    <2>6. /\ Cardinality(Registered) * MaxConnections \in Int
          /\ MaxPools * MaxConnections \in Int
      BY <2>2, RedisClientAssumption
    <2>7. Cardinality(Opened(Registered)) + Cardinality(Dialed(Registered))
            <= MaxPools * MaxConnections
      BY <2>3, <2>4, <2>5, <2>6
    <2>8. Cardinality(Opened(Keys)) + Cardinality(Dialed(Keys)) <= MaxPools * MaxConnections
      BY <2>1, <2>7
    <2>9. QED
      BY <1>1, <2>8 DEF IInv, LimitAgrees, ConnectionLimit, Opened, Dialed
  <1>2. QED
    BY <1>1, Invariance, PTL

=============================================================================
