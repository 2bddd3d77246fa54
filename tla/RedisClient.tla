----------------------------- MODULE RedisClient -----------------------------
(***************************************************************************)
(* The Redis client behind RedisSessionStorage                              *)
(* (src/src/session/redisClient.go): a process-wide registry of connection  *)
(* pools, one per configuration, each with a semaphore of slots and a stack *)
(* of idle connections, and the connections' other end, the Redis server.   *)
(* A caller is a goroutine that runs commands through registry.execute.     *)
(*                                                                         *)
(* Sections under registry.mu or pool.mu are one step each.  Deadlines are  *)
(* steps that are enabled as long as their operation may be waiting.  A     *)
(* command is represented by the number of the call that issued it, and so  *)
(* is its reply.                                                            *)
(***************************************************************************)
EXTENDS Integers, Sequences, FiniteSets

CONSTANTS Callers,         \* goroutines
          Keys,            \* redisPoolKey: address, credentials, limits
          Pools,           \* identities of redisPool objects
          Conns,           \* identities of TCP connections
          None,            \* no pool, no connection
          MaxPools,        \* registry.maxPools
          MaxConnections,  \* config.maxConnections
          MaxIdle,         \* config.maxIdleConnections
          MaxCalls         \* bound of the calls made

ASSUME RedisClientAssumption ==
  /\ MaxPools \in Nat \ {0} /\ MaxConnections \in Nat \ {0}
  /\ MaxIdle \in Nat /\ MaxCalls \in Nat
  /\ None \notin Keys /\ None \notin Pools /\ None \notin Conns

VARIABLES registry,  \* registry.pools: key -> entry
          recency,   \* the pairs <<j, k>> of keys with j used before k (lastUsed)
          pools,     \* the redisPool objects
          conns,     \* the connections, with what is in transit on them
          callers,   \* the goroutines
          calls      \* number of calls made so far

vars == <<registry, recency, pools, conns, callers, calls>>

\* What an attempt got: the number of the command whose reply it read, or
Nothing == 0
Error == -1
ServerError == -2

NoEntry == [pool |-> None, inUse |-> 0]
FreshPool == [key |-> None, slots |-> 0, idle |-> <<>>]
NoConnection == [open |-> FALSE, key |-> None, up |-> FALSE, inbox |-> <<>>, outbox |-> <<>>]
Resting == [pc |-> "idle", key |-> None, pool |-> None, conn |-> None,
            reused |-> FALSE, attempt |-> 0, call |-> 0, got |-> Nothing]

Numbers == 1..MaxCalls

TypeOK ==
  /\ registry \in [Keys -> [pool : Pools \cup {None}, inUse : Nat]]
  /\ recency \in SUBSET (Keys \X Keys)
  /\ pools \in [Pools -> [key : Keys \cup {None}, slots : Nat, idle : Seq(Conns)]]
  /\ conns \in [Conns -> [open : BOOLEAN, key : Keys \cup {None}, up : BOOLEAN,
                          inbox : Seq(Numbers), outbox : Seq(Numbers \X {"value", "error"})]]
  /\ callers \in [Callers -> [pc : {"idle", "slot", "pop", "dial", "write", "read", "put",
                                    "free", "release"},
                              key : Keys \cup {None}, pool : Pools \cup {None},
                              conn : Conns \cup {None}, reused : BOOLEAN,
                              attempt : 0..2, call : 0..MaxCalls, got : {Nothing, Error, ServerError} \cup Numbers]]
  /\ calls \in 0..MaxCalls

At(c, where) == callers[c].pc = where

\* Caller c moves on with some fields changed.
Goto(c, next) == callers' = [callers EXCEPT ![c] = next]

Registered == {k \in Keys : registry[k] # NoEntry}

\* The order of the other keys.
Without(k) == {pair \in recency : pair[1] # k /\ pair[2] # k}

\* Key k is used now.
Touch(k) == Without(k) \cup {<<j, k>> : j \in Registered \ {k}}

(***************************************************************************)
(* registry.acquire                                                         *)
(***************************************************************************)
Start(c, k, p) ==
  /\ calls < MaxCalls /\ calls' = calls + 1
  /\ Goto(c, [Resting EXCEPT !.pc = "slot", !.key = k, !.pool = p, !.attempt = 1,
                             !.call = calls + 1])

AcquireKnown(c, k) ==
  /\ At(c, "idle") /\ k \in Registered
  /\ registry' = [registry EXCEPT ![k].inUse = @ + 1]
  /\ recency' = Touch(k)
  /\ Start(c, k, registry[k].pool)
  /\ UNCHANGED <<pools, conns>>

\* A pool object nobody refers to: a new allocation.
Unreferenced(p) ==
  /\ \A k \in Keys : registry[k].pool # p
  /\ \A d \in Callers : callers[d].pool # p

NewPool(k, p) == [pools EXCEPT ![p] = [FreshPool EXCEPT !.key = k]]

\* Fault: off by one in the limit of pools.
AcquireNew_Fault(c, k) ==
  /\ At(c, "idle") /\ k \notin Registered
  /\ Cardinality(Registered) <= MaxPools
  /\ \E p \in Pools :
       /\ Unreferenced(p)
       /\ registry' = [registry EXCEPT ![k] = [pool |-> p, inUse |-> 1]]
       /\ pools' = NewPool(k, p)
       /\ Start(c, k, p)
  /\ recency' = Touch(k)
  /\ UNCHANGED conns

AcquireNew(c, k) ==
  /\ At(c, "idle") /\ k \notin Registered
  /\ Cardinality(Registered) < MaxPools
  /\ \E p \in Pools :
       /\ Unreferenced(p)
       /\ registry' = [registry EXCEPT ![k] = [pool |-> p, inUse |-> 1]]
       /\ pools' = NewPool(k, p)
       /\ Start(c, k, p)
  /\ recency' = Touch(k)
  /\ UNCHANGED conns

\* Fault: a pool is evicted while callers are using it.
Evictable_Fault == Registered

\* The pools the registry may evict: those no caller is using.
Evictable == {k \in Registered : registry[k].inUse = 0}

\* No other one has been unused for longer.
Oldest(k) == k \in Evictable /\ \A j \in Evictable : <<j, k>> \notin recency

\* Key old is evicted for key k.
Replace(old, k) == Without(old) \cup {<<j, k>> : j \in Registered \ {old}}

\* Closing drops what was on its way to the client, not what the server has
\* received already.
Closed(conn) == IF conn.inbox = <<>> THEN NoConnection
                ELSE [conn EXCEPT !.open = FALSE, !.outbox = <<>>]

CloseAll(cs) == [d \in Conns |-> IF d \in cs THEN Closed(conns[d]) ELSE conns[d]]

IdleOf(p) == {pools[p].idle[i] : i \in DOMAIN pools[p].idle}

\* Fault: closeIdle is not called on the evicted pool.
AcquireByEviction_Fault(c, k) ==
  /\ At(c, "idle") /\ k \notin Registered
  /\ Cardinality(Registered) >= MaxPools
  /\ \E old \in Keys, p \in Pools :
       /\ Oldest(old) /\ Unreferenced(p)
       /\ registry' = [registry EXCEPT ![old] = NoEntry, ![k] = [pool |-> p, inUse |-> 1]]
       /\ recency' = Replace(old, k)
       /\ pools' = [NewPool(k, p) EXCEPT ![registry[old].pool] = FreshPool]
       /\ UNCHANGED conns
       /\ Start(c, k, p)

AcquireByEviction(c, k) ==
  /\ At(c, "idle") /\ k \notin Registered
  /\ Cardinality(Registered) >= MaxPools
  /\ \E old \in Keys, p \in Pools :
       /\ Oldest(old) /\ Unreferenced(p)
       /\ registry' = [registry EXCEPT ![old] = NoEntry, ![k] = [pool |-> p, inUse |-> 1]]
       /\ recency' = Replace(old, k)
       /\ pools' = [NewPool(k, p) EXCEPT ![registry[old].pool] = FreshPool]
       /\ conns' = CloseAll(IdleOf(registry[old].pool))
       /\ Start(c, k, p)

\* "too many Redis connection pools in use": the call fails at once.
AcquireRefused(c, k) ==
  /\ At(c, "idle") /\ k \notin Registered
  /\ Cardinality(Registered) >= MaxPools /\ Evictable = {}
  /\ calls < MaxCalls /\ calls' = calls + 1
  /\ UNCHANGED <<registry, recency, pools, conns, callers>>

(***************************************************************************)
(* pool.take: a slot, then an idle connection or a new one                  *)
(***************************************************************************)
\* Fault: the semaphore has one slot too many.
TakeSlot_Fault(c) ==
  /\ At(c, "slot") /\ pools[callers[c].pool].slots <= MaxConnections
  /\ pools' = [pools EXCEPT ![callers[c].pool].slots = @ + 1]
  /\ Goto(c, [callers[c] EXCEPT !.pc = "pop"])
  /\ UNCHANGED <<registry, recency, conns, calls>>

TakeSlot(c) ==
  /\ At(c, "slot") /\ pools[callers[c].pool].slots < MaxConnections
  /\ pools' = [pools EXCEPT ![callers[c].pool].slots = @ + 1]
  /\ Goto(c, [callers[c] EXCEPT !.pc = "pop"])
  /\ UNCHANGED <<registry, recency, conns, calls>>

SlotTimeout(c) ==
  /\ At(c, "slot")
  /\ Goto(c, [callers[c] EXCEPT !.pc = "release", !.got = Error])
  /\ UNCHANGED <<registry, recency, pools, conns, calls>>

Top(s) == s[Len(s)]
Pop(s) == SubSeq(s, 1, Len(s) - 1)

PopIdle(c) ==
  LET p == callers[c].pool IN
  /\ At(c, "pop") /\ pools[p].idle # <<>>
  /\ pools' = [pools EXCEPT ![p].idle = Pop(@)]
  /\ Goto(c, [callers[c] EXCEPT !.pc = "write", !.conn = Top(pools[p].idle), !.reused = TRUE])
  /\ UNCHANGED <<registry, recency, conns, calls>>

\* Fault: idle connections past their timeout are dropped but not closed.
PopNothing_Fault(c) ==
  /\ At(c, "pop")
  /\ pools' = [pools EXCEPT ![callers[c].pool].idle = <<>>]
  /\ Goto(c, [callers[c] EXCEPT !.pc = "dial"])
  /\ UNCHANGED <<registry, recency, conns, calls>>

\* The stack is ordered by lastUsed, so when its top is past the idle timeout
\* the loop discards all of it.
PopNothing(c) ==
  LET p == callers[c].pool IN
  /\ At(c, "pop")
  /\ conns' = CloseAll(IdleOf(p))
  /\ pools' = [pools EXCEPT ![p].idle = <<>>]
  /\ Goto(c, [callers[c] EXCEPT !.pc = "dial"])
  /\ UNCHANGED <<registry, recency, calls>>

\* dialRedisConnection: connect, AUTH and SELECT as the configuration asks.
Dial(c) ==
  /\ At(c, "dial")
  /\ \E d \in Conns :
       /\ conns[d] = NoConnection
       /\ conns' = [conns EXCEPT ![d] = [open |-> TRUE, key |-> pools[callers[c].pool].key,
                                         up |-> TRUE, inbox |-> <<>>, outbox |-> <<>>]]
       /\ Goto(c, [callers[c] EXCEPT !.pc = "write", !.conn = d, !.reused = FALSE])
  /\ UNCHANGED <<registry, recency, pools, calls>>

\* Fault: the slot is kept when the connection cannot be opened.
DialFails_Fault(c) ==
  /\ At(c, "dial")
  /\ Goto(c, [callers[c] EXCEPT !.pc = "release", !.got = Error])
  /\ UNCHANGED <<registry, recency, pools, conns, calls>>

DialFails(c) ==
  /\ At(c, "dial")
  /\ pools' = [pools EXCEPT ![callers[c].pool].slots = @ - 1]
  /\ Goto(c, [callers[c] EXCEPT !.pc = "release", !.got = Error])
  /\ UNCHANGED <<registry, recency, conns, calls>>

(***************************************************************************)
(* executeRedisCommand: write the command, read one reply                   *)
(***************************************************************************)
Write(c) ==
  LET d == callers[c].conn IN
  /\ At(c, "write") /\ conns[d].up
  /\ conns' = [conns EXCEPT ![d].inbox = Append(@, callers[c].call)]
  /\ Goto(c, [callers[c] EXCEPT !.pc = "read"])
  /\ UNCHANGED <<registry, recency, pools, calls>>

\* Fault: an error reply is not told from a value.
Read_Fault(c) ==
  LET d == callers[c].conn IN
  /\ At(c, "read") /\ conns[d].outbox # <<>>
  /\ conns' = [conns EXCEPT ![d].outbox = Tail(@)]
  /\ Goto(c, [callers[c] EXCEPT !.pc = "put", !.got = Head(conns[d].outbox)[1]])
  /\ UNCHANGED <<registry, recency, pools, calls>>

\* A reply with a '-' is a redisServerError.
Read(c) ==
  LET d == callers[c].conn IN
  /\ At(c, "read") /\ conns[d].outbox # <<>>
  /\ conns' = [conns EXCEPT ![d].outbox = Tail(@)]
  /\ LET reply == Head(conns[d].outbox)
     IN  Goto(c, [callers[c] EXCEPT !.pc = "put",
                    !.got = IF reply[2] = "error" THEN ServerError ELSE reply[1]])
  /\ UNCHANGED <<registry, recency, pools, calls>>

\* Fault: a deadline that passes is not taken for an error.
CommandFailsUnnoticed_Fault(c) ==
  /\ At(c, "write") \/ At(c, "read")
  /\ Goto(c, [callers[c] EXCEPT !.pc = "put", !.got = callers[c].call])
  /\ UNCHANGED <<registry, recency, pools, conns, calls>>

\* Fault: no deadline is set for the reply.
CommandFails_Fault(c) ==
  /\ At(c, "write")
  /\ Goto(c, [callers[c] EXCEPT !.pc = "put", !.got = Error])
  /\ UNCHANGED <<registry, recency, pools, conns, calls>>

\* The peer is gone, a deadline passes, or the reply is malformed.
CommandFails(c) ==
  /\ At(c, "write") \/ At(c, "read")
  /\ Goto(c, [callers[c] EXCEPT !.pc = "put", !.got = Error])
  /\ UNCHANGED <<registry, recency, pools, conns, calls>>

(***************************************************************************)
(* pool.put, the retry of pool.execute, registry.release                    *)
(***************************************************************************)
\* Fault: the connection of a failed command goes back to the idle stack.
Put_Fault(c) ==
  LET p == callers[c].pool IN
  /\ At(c, "put")
  /\ IF Len(pools[p].idle) < MaxIdle
     THEN /\ pools' = [pools EXCEPT ![p].idle = Append(@, callers[c].conn)]
          /\ UNCHANGED conns
     ELSE /\ conns' = CloseAll({callers[c].conn})
          /\ UNCHANGED pools
  /\ Goto(c, [callers[c] EXCEPT !.pc = "free", !.conn = None])
  /\ UNCHANGED <<registry, recency, calls>>

Put(c) ==
  LET p == callers[c].pool
      d == callers[c].conn
      keep == callers[c].got \in Numbers /\ Len(pools[p].idle) < MaxIdle
  IN
  /\ At(c, "put")
  /\ IF keep
     THEN /\ pools' = [pools EXCEPT ![p].idle = Append(@, d)]
          /\ UNCHANGED conns
     ELSE /\ conns' = CloseAll({d})
          /\ UNCHANGED pools
  /\ Goto(c, [callers[c] EXCEPT !.pc = "free", !.conn = None])
  /\ UNCHANGED <<registry, recency, calls>>

\* A failure on a reused connection may mean that it was stale: try once more.
Retries(c) == callers[c].got = Error /\ callers[c].reused /\ callers[c].attempt < 2

\* Fault: the slot is given back twice.
FreeTwice_Fault(c) ==
  /\ At(c, "free")
  /\ pools' = [pools EXCEPT ![callers[c].pool].slots = @ - 2]
  /\ Goto(c, IF Retries(c)
             THEN [callers[c] EXCEPT !.pc = "slot", !.attempt = 2, !.got = Nothing,
                                     !.reused = FALSE]
             ELSE [callers[c] EXCEPT !.pc = "release"])
  /\ UNCHANGED <<registry, recency, conns, calls>>

\* Fault: the attempts are not counted.
Free_Fault(c) ==
  /\ At(c, "free")
  /\ pools' = [pools EXCEPT ![callers[c].pool].slots = @ - 1]
  /\ Goto(c, IF Retries(c)
             THEN [callers[c] EXCEPT !.pc = "slot", !.got = Nothing, !.reused = FALSE]
             ELSE [callers[c] EXCEPT !.pc = "release"])
  /\ UNCHANGED <<registry, recency, conns, calls>>

Free(c) ==
  /\ At(c, "free")
  /\ pools' = [pools EXCEPT ![callers[c].pool].slots = @ - 1]
  /\ Goto(c, IF Retries(c)
             THEN [callers[c] EXCEPT !.pc = "slot", !.attempt = 2, !.got = Nothing,
                                     !.reused = FALSE]
             ELSE [callers[c] EXCEPT !.pc = "release"])
  /\ UNCHANGED <<registry, recency, conns, calls>>

Release(c) ==
  LET k == callers[c].key IN
  /\ At(c, "release")
  /\ IF registry[k].inUse > 0
     THEN /\ registry' = [registry EXCEPT ![k].inUse = @ - 1]
          /\ recency' = Touch(k)
     ELSE UNCHANGED <<registry, recency>>
  /\ Goto(c, Resting)
  /\ UNCHANGED <<pools, conns, calls>>

(***************************************************************************)
(* The Redis server: it serves each connection in order, may answer with an *)
(* error, and may drop a connection (restart, client timeout).  A command   *)
(* it has received is executed even when the client has given up waiting.   *)
(***************************************************************************)
Serve(d, kind) ==
  LET served == [conns[d] EXCEPT !.inbox = Tail(@)] IN
  /\ conns[d].up /\ conns[d].inbox # <<>>
  /\ conns' = [conns EXCEPT ![d] =
                  IF served.open
                  THEN [served EXCEPT !.outbox = Append(@, <<Head(conns[d].inbox), kind>>)]
                  ELSE Closed(served)]
  /\ UNCHANGED <<registry, recency, pools, callers, calls>>

Drop(d) ==
  /\ conns[d].up
  /\ conns' = [conns EXCEPT ![d] = IF conns[d].open
                                   THEN [conns[d] EXCEPT !.up = FALSE, !.inbox = <<>>]
                                   ELSE NoConnection]
  /\ UNCHANGED <<registry, recency, pools, callers, calls>>

Init ==
  /\ registry = [k \in Keys |-> NoEntry]
  /\ recency = {}
  /\ pools = [p \in Pools |-> FreshPool]
  /\ conns = [d \in Conns |-> NoConnection]
  /\ callers = [c \in Callers |-> Resting]
  /\ calls = 0

Acquire(c, k) ==
  \/ AcquireKnown(c, k) \/ AcquireNew(c, k)
  \/ AcquireByEviction(c, k) \/ AcquireRefused(c, k)

\* The steps of a call that has begun; each of them ends by itself or by a deadline.
Proceed(c) ==
  \/ TakeSlot(c) \/ SlotTimeout(c)
  \/ PopIdle(c) \/ PopNothing(c) \/ Dial(c) \/ DialFails(c)
  \/ Write(c) \/ Read(c) \/ CommandFails(c)
  \/ Put(c) \/ Free(c) \/ Release(c)

\* The bound of the model: every call has been made and has returned.
Finished == calls = MaxCalls /\ (\A c \in Callers : At(c, "idle")) /\ UNCHANGED vars

Next ==
  \/ \E c \in Callers : Proceed(c) \/ \E k \in Keys : Acquire(c, k)
  \/ \E d \in Conns : Drop(d) \/ \E kind \in {"value", "error"} : Serve(d, kind)
  \/ Finished

Spec == Init /\ [][Next]_vars
FairSpec == Spec /\ \A c \in Callers : WF_vars(Proceed(c))

(***************************************************************************)
(* Properties                                                              *)
(***************************************************************************)
Using(k) == {c \in Callers : callers[c].key = k}
OpenTo(k) == {d \in Conns : conns[d].open /\ conns[d].key = k}
Dialing(k) == {c \in Using(k) : At(c, "dial")}

\* MaxConnections is a hard limit of the connections open to one
\* configuration in this process, those being dialed included: releasing a
\* slot while its connection goes to the idle stack, discarding idle
\* connections, evicting and rebuilding a pool never let one more be opened.
\* With MaxPools it limits those of the whole process.
ConnectionLimit ==
  /\ \A k \in Keys : Cardinality(OpenTo(k)) + Cardinality(Dialing(k)) <= MaxConnections
  /\ Cardinality(UNION {OpenTo(k) : k \in Keys}) + Cardinality(UNION {Dialing(k) : k \in Keys})
       <= MaxPools * MaxConnections

\* inUse counts exactly the callers between acquire and release, and they all
\* work with the registered pool: a pool in use is never evicted, and release,
\* which finds the entry by its key, always finds the one acquire counted in.
InUseIsExact ==
  \A k \in Keys : /\ registry[k].inUse = Cardinality(Using(k))
                  /\ \A c \in Using(k) : callers[c].pool = registry[k].pool

\* Every slot of a pool's semaphore belongs to a caller that has yet to give it
\* back: no failing path leaks one, and none is given back twice.
SlotsAreOwned ==
  \A p \in Pools :
    pools[p].slots = Cardinality({c \in Callers : callers[c].pool = p
                                    /\ callers[c].pc \in {"pop", "dial", "write", "read", "put", "free"}})

\* A caller never reads the reply to another command: a late reply stays on the
\* connection whose command failed, and that one is never handed out again.
NoCrossTalk ==
  \A c \in Callers : callers[c].got \in Numbers => callers[c].got = callers[c].call

\* Every open connection is held by one caller or lies once in the stack of one
\* registered pool of the configuration it was dialed and authenticated for:
\* none leaks when a command fails or a pool is evicted, none is shared.
IdleIn(k) == IF registry[k] = NoEntry THEN <<>> ELSE pools[registry[k].pool].idle

ConnectionsAreOwned ==
  /\ \A d \in Conns : conns[d].open <=>
       \/ \E c \in Callers : callers[c].conn = d
       \/ \E k \in Keys : \E i \in DOMAIN IdleIn(k) : IdleIn(k)[i] = d
  /\ \A b, c \in Callers : callers[b].conn = callers[c].conn /\ callers[b].conn # None => b = c
  /\ \A c \in Callers : callers[c].conn # None => conns[callers[c].conn].key = callers[c].key
  /\ \A k \in Keys : \A i, j \in DOMAIN IdleIn(k) :
       /\ IdleIn(k)[i] = IdleIn(k)[j] => i = j
       /\ \A c \in Callers : callers[c].conn # IdleIn(k)[i]
       /\ conns[IdleIn(k)[i]].key = k

\* Every call returns, whatever the server does: the slot, dial, write and read
\* deadlines and the two attempts bound it.
EveryCallReturns == \A c \in Callers : ~At(c, "idle") ~> At(c, "idle")

=============================================================================
