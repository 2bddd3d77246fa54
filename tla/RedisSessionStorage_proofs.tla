---------------------- MODULE RedisSessionStorage_proofs ----------------------
(***************************************************************************)
(* What the Redis storage keeps of its sessions, for any callers, ids and   *)
(* number of calls, on top of the client's invariant: every step of the     *)
(* storage is one of the client or leaves the client alone.                 *)
(***************************************************************************)
EXTENDS RedisSessionStorage, RedisClient_proofs

\* In log l, call n does op with session id of configuration k; call n was over before m.
DoesIn(l, n, k, id, op) == l[n].key = k /\ l[n].command = [op |-> op, id |-> id]
OverIn(l, n, m) == n \in l[m].earlier /\ l[n].outcome = "clean"
SucceededIn(l, n) == l[n].outcome \in {"clean", "retried"}

\* Content v of a session was stored as such.
StoredIn(l, k, id, v) == v \in Numbers => DoesIn(l, v, k, id, "set")

\* Content v of a session is what it may be after call m has been executed: not older
\* than m, and missing after a store only if it was deleted.
Agrees(l, k, id, v, m) ==
  /\ (v \in Numbers /\ (DoesIn(l, m, k, id, "set") \/ DoesIn(l, m, k, id, "del"))) =>
       ~OverIn(l, v, m)
  /\ (v = Missing /\ DoesIn(l, m, k, id, "set")) =>
       \E x \in Numbers : DoesIn(l, x, k, id, "del") /\ ~OverIn(l, x, m)

\* Lookup n may find v.
Explained(l, n, v) ==
  \A k \in Keys, id \in Ids :
    DoesIn(l, n, k, id, "get") =>
      /\ StoredIn(l, k, id, v)
      /\ \A m \in l[n].earlier : SucceededIn(l, m) => Agrees(l, k, id, v, m)

\* A value is on its way to caller record q, with the connections cs.
Answered(q, cs) == q.pc = "read" /\ cs[q.conn].outbox = <<<<q.call, "value">>>>

\* Command m has been executed: its call has succeeded or is about to.
Done(m) ==
  \/ SucceededIn(log, m)
  \/ \E c \in Callers : /\ callers[c].call = m
                        /\ (callers[c].got \in Numbers \/ Answered(callers[c], conns))

\* Connection s has command n for the server.
Waits(s, n) == \E i \in DOMAIN s.inbox : s.inbox[i] = n

\* A copy of the command of caller record q may be on connection d: it was sent
\* there just now, or an attempt has failed.
MayBeOn(q, d) == q.attempt = 2 \/ q.got \in {Error, ServerError} \/ (q.pc = "read" /\ q.conn = d)

\* The log has an entry for each call that was made; those before it have returned,
\* and those of callers have not.
LogAgrees ==
  /\ \A n \in Numbers :
       /\ n > calls => log[n] = Unused
       /\ n <= calls => /\ log[n].key \in Keys /\ log[n].command \in Commands
                        /\ log[n].outcome # "none"
       /\ log[n].earlier \subseteq Returned \ {n}
  /\ \A c \in Callers : callers[c].pc # "idle" =>
       /\ callers[c].call <= calls /\ log[callers[c].call].outcome = "pending"
       /\ \A b \in Callers : callers[b].call = callers[c].call => b = c

\* A command that a connection has for the server is that of a call which is not
\* over, or which was sent more than once or has failed.
CopiesAgree ==
  \A d \in Conns, n \in Numbers : Waits(conns[d], n) =>
    /\ n <= calls /\ log[n].outcome # "clean"
    /\ \A c \in Callers : callers[c].call = n => MayBeOn(callers[c], d)

\* The server's sessions agree with all commands that have been executed.
SessionsAgree ==
  \A k \in Keys, id \in Ids :
    /\ StoredIn(log, k, id, db[k][id])
    /\ \A m \in Numbers : Done(m) => Agrees(log, k, id, db[k][id], m)

\* So do the replies, those on their way and those that were read.
AnswersAgree ==
  \A c \in Callers : Answered(callers[c], conns) =>
    Explained(log, callers[c].call, payload[callers[c].conn])

Found(n) == SucceededIn(log, n) \/ \E c \in Callers : callers[c].call = n /\ callers[c].got \in Numbers

FindingsAgree == \A n \in Numbers : Found(n) => Explained(log, n, log[n].found)

\* The invariant that, with the client's, is inductive.
StorageIInv == /\ StorageTypeOK /\ LogAgrees /\ CopiesAgree
               /\ SessionsAgree /\ AnswersAgree /\ FindingsAgree

\* The sets of StorageTypeOK.
Contents == {Missing, Expired} \cup Numbers
Ends == {"none", "pending", "clean", "retried", "failed"}
LogRecords == [key : Keys \cup {None}, command : Commands \cup {None},
               earlier : SUBSET Numbers, outcome : Ends, found : Contents]

\* What StorageTypeOK says of each variable.
LEMMA StorageTyped ==
  StorageTypeOK <=> /\ db \in [Keys -> [Ids -> Contents]]
                    /\ payload \in [Conns -> Contents]
                    /\ log \in [Numbers -> LogRecords]
  BY DEF StorageTypeOK, Contents, Ends, LogRecords

\* An entry of the log with another finding or another outcome is an entry, and keeps the rest.
LEMMA EntryFields ==
  ASSUME NEW q \in LogRecords
  PROVE  /\ \A v \in Contents : LET f == [q EXCEPT !.found = v]
                                IN  /\ f \in LogRecords /\ f.key = q.key /\ f.command = q.command
                                    /\ f.earlier = q.earlier /\ f.outcome = q.outcome /\ f.found = v
         /\ \A o \in Ends : LET f == [q EXCEPT !.outcome = o]
                            IN  /\ f \in LogRecords /\ f.key = q.key /\ f.command = q.command
                                /\ f.earlier = q.earlier /\ f.outcome = o /\ f.found = q.found
  BY DEF LogRecords

\* The same of the next state.
LEMMA StorageTypedNext ==
  StorageTypeOK' <=> /\ db' \in [Keys -> [Ids -> Contents]]
                     /\ payload' \in [Conns -> Contents]
                     /\ log' \in [Numbers -> LogRecords]
  BY DEF StorageTypeOK, Contents, Ends, LogRecords

\* The numbers of calls are none of the other values.
LEMMA NumbersApart ==
  /\ Numbers \subseteq Nat
  /\ Missing \notin Numbers /\ Expired \notin Numbers /\ Missing # Expired
  /\ 0 \notin Numbers /\ Nothing \notin Numbers /\ Error \notin Numbers
  /\ ServerError \notin Numbers /\ Error # Nothing /\ ServerError # Nothing
  BY RedisClientAssumption DEF Numbers, Missing, Expired, Nothing, Error, ServerError

\* An invariant reads the fields of an unused entry.
LEMMA UnusedFields ==
  /\ Unused \in LogRecords /\ Unused.key = None /\ Unused.earlier = {}
  /\ Unused.outcome = "none" /\ Unused.found = Missing
  BY DEF Unused, LogRecords, Ends, Contents

---------------------------------------------------------------------------
(***************************************************************************)
(* The log                                                                 *)
(***************************************************************************)
\* Log l becomes log l2: what was asked stays, as do the ends of calls.
Grows(l, l2) ==
  \A n \in Numbers :
    /\ l[n].outcome # "none" =>
         /\ l2[n].key = l[n].key /\ l2[n].command = l[n].command
         /\ l2[n].earlier = l[n].earlier /\ l2[n].outcome # "none"
    /\ l[n].outcome \in {"clean", "retried", "failed"} => l2[n].outcome = l[n].outcome

\* A log with an entry for each call that was made.
Orderly(l) ==
  \A n \in Numbers :
    /\ l[n].outcome = "none" => l[n].key = None
    /\ \A m \in l[n].earlier : m \in Numbers /\ l[m].outcome \in {"clean", "retried", "failed"}

\* What was said of a content stays true.
LEMMA AgreesStays ==
  ASSUME NEW l, NEW l2, Grows(l, l2), Orderly(l), NEW k \in Keys, NEW id, NEW v,
         NEW m \in Numbers, l[m].outcome # "none", Agrees(l, k, id, v, m), StoredIn(l, k, id, v)
  PROVE  Agrees(l2, k, id, v, m)
  <1>1. l2[m].key = l[m].key /\ l2[m].command = l[m].command /\ l2[m].earlier = l[m].earlier
    BY DEF Grows
  <1>2. ASSUME NEW x \in Numbers, ~OverIn(l, x, m) PROVE ~OverIn(l2, x, m)
    BY <1>1, <1>2 DEF OverIn, Grows, Orderly
  <1>3. ASSUME v \in Numbers, DoesIn(l2, m, k, id, "set") \/ DoesIn(l2, m, k, id, "del")
        PROVE  ~OverIn(l2, v, m)
    BY <1>1, <1>2, <1>3 DEF Agrees, DoesIn
  <1>4. ASSUME v = Missing, DoesIn(l2, m, k, id, "set")
        PROVE  \E x \in Numbers : DoesIn(l2, x, k, id, "del") /\ ~OverIn(l2, x, m)
    <2>1. PICK x \in Numbers : DoesIn(l, x, k, id, "del") /\ ~OverIn(l, x, m)
      BY <1>1, <1>4 DEF Agrees, DoesIn
    <2>2. l[x].outcome # "none"
      BY <2>1, RedisClientAssumption DEF DoesIn, Orderly
    <2>3. DoesIn(l2, x, k, id, "del")
      BY <2>1, <2>2 DEF DoesIn, Grows
    <2>4. QED
      BY <1>2, <2>1, <2>3
  <1>5. QED
    BY <1>3, <1>4 DEF Agrees

\* A session stored by a call stays its session when the log grows.
LEMMA StoredStays ==
  ASSUME NEW l, NEW l2, Grows(l, l2), Orderly(l), NEW k \in Keys, NEW id, NEW v,
         StoredIn(l, k, id, v)
  PROVE  StoredIn(l2, k, id, v)
  BY RedisClientAssumption DEF StoredIn, DoesIn, Grows, Orderly

\* What explains a missing session stays true when the log grows.
LEMMA ExplainedStays ==
  ASSUME NEW l, NEW l2, Grows(l, l2), Orderly(l), NEW n \in Numbers, l[n].outcome # "none",
         NEW v, Explained(l, n, v)
  PROVE  Explained(l2, n, v)
  <1> SUFFICES ASSUME NEW k \in Keys, NEW id \in Ids, DoesIn(l2, n, k, id, "get")
               PROVE  /\ StoredIn(l2, k, id, v)
                      /\ \A m \in l2[n].earlier : SucceededIn(l2, m) => Agrees(l2, k, id, v, m)
    BY DEF Explained
  <1>1. DoesIn(l, n, k, id, "get") /\ l2[n].earlier = l[n].earlier
    BY DEF Grows, DoesIn
  <1>2. StoredIn(l, k, id, v) /\ StoredIn(l2, k, id, v)
    BY <1>1, StoredStays DEF Explained
  <1>3. ASSUME NEW m \in l[n].earlier, SucceededIn(l2, m) PROVE Agrees(l2, k, id, v, m)
    <2>1. m \in Numbers /\ SucceededIn(l, m)
      BY <1>3 DEF Orderly, Grows, SucceededIn
    <2>2. Agrees(l, k, id, v, m) /\ l[m].outcome # "none"
      BY <1>1, <2>1 DEF Explained, SucceededIn
    <2>3. QED
      BY <1>2, <2>1, <2>2, AgreesStays
  <1>4. QED
    BY <1>1, <1>2, <1>3

\* The log of the storage is one.
LEMMA LogIsOrderly ==
  ASSUME StorageTypeOK, LogAgrees, calls \in 0..MaxCalls
  PROVE  Orderly(log)
  <1>1. ASSUME NEW n \in Numbers
        PROVE  /\ log[n].outcome = "none" => log[n].key = None
               /\ \A m \in log[n].earlier : m \in Numbers
                    /\ log[m].outcome \in {"clean", "retried", "failed"}
    <2>1. n \in Int /\ calls \in Int
      BY NumbersApart
    <2>2. n > calls \/ n <= calls
      BY <2>1
    <2>3. log[n].outcome = "none" => log[n].key = None
      BY <2>2, UnusedFields DEF LogAgrees
    <2>4. log[n].earlier \subseteq Returned
      BY DEF LogAgrees
    <2>5. QED
      BY <2>3, <2>4 DEF Returned
  <1>2. QED
    BY <1>1 DEF Orderly

---------------------------------------------------------------------------
(***************************************************************************)
(* Steps that leave the sessions alone                                     *)
(***************************************************************************)
\* A caller without a call has nothing; one that reads has a connection of its own, which
\* carries its command or the reply.
LEMMA CallerFacts ==
  ASSUME IInv, NEW c \in Callers
  PROVE  /\ callers[c] \in CallerRecords
         /\ callers[c].pc = "idle" => callers[c].call = 0 /\ callers[c].got = Nothing
         /\ callers[c].pc # "idle" => callers[c].call \in Numbers
         /\ callers[c].got \in Numbers => callers[c].pc # "idle" /\ callers[c].got = callers[c].call
         /\ callers[c].pc \in Connected =>
              /\ callers[c].conn \in Conns /\ conns[callers[c].conn].open
              /\ \A b \in Callers : callers[b].conn = callers[c].conn => b = c
         /\ callers[c].pc = "read" => Awaits(callers[c].conn, callers[c].call)
  <1>1. callers[c] \in CallerRecords
    BY Typed DEF IInv
  <1>2. callers[c].pc = "idle" => callers[c].call = 0 /\ callers[c].got = Nothing
    BY Rests DEF IInv, CallersAgree
  <1>3. callers[c].pc # "idle" => callers[c].call \in Numbers
    BY DEF IInv, CallersAgree
  <1>4. callers[c].got \in Numbers => callers[c].pc # "idle" /\ callers[c].got = callers[c].call
    BY <1>2, NumbersApart DEF IInv, CallersAgree
  <1>5. ASSUME callers[c].pc \in Connected
        PROVE  /\ callers[c].conn \in Conns /\ HeldRight(c)
    BY <1>1, <1>5 DEF IInv, CallersAgree, HeldAgrees, CallerRecords
  <1>6. "read" \in Connected
    BY DEF Connected
  <1>7. QED
    BY <1>1, <1>2, <1>3, <1>4, <1>5, <1>6 DEF HeldRight

\* A command that has been executed or has found something is that of a call.
LEMMA DoneIsCalled ==
  ASSUME IInv, StorageIInv, NEW m \in Numbers, Done(m) \/ Found(m)
  PROVE  log[m].outcome # "none"
  <1>1. CASE SucceededIn(log, m)
    BY <1>1 DEF SucceededIn
  <1>2. CASE \E c \in Callers : callers[c].call = m
    BY <1>2, CallerFacts, NumbersApart DEF StorageIInv, LogAgrees
  <1>3. QED
    BY <1>1, <1>2 DEF Done, Found

\* The sessions agree after a step that executes no command.
LEMMA SessionsKept ==
  ASSUME IInv, StorageIInv, Grows(log, log'), UNCHANGED db,
         \A m \in Numbers : Done(m)' => Done(m)
  PROVE  SessionsAgree'
  <1>1. Orderly(log)
    BY LogIsOrderly, Typed DEF IInv, StorageIInv
  <1>2. ASSUME NEW k \in Keys, NEW id \in Ids
        PROVE  /\ StoredIn(log', k, id, db[k][id])
               /\ \A m \in Numbers : Done(m) => Agrees(log', k, id, db[k][id], m)
    <2>1. StoredIn(log, k, id, db[k][id])
      BY DEF StorageIInv, SessionsAgree
    <2>2. ASSUME NEW m \in Numbers, Done(m) PROVE Agrees(log', k, id, db[k][id], m)
      <3>1. Agrees(log, k, id, db[k][id], m)
        BY <2>2 DEF StorageIInv, SessionsAgree
      <3>2. QED
        BY <1>1, <2>1, <2>2, <3>1, AgreesStays, DoneIsCalled
    <2>3. QED
      BY <1>1, <2>1, <2>2, StoredStays
  <1>3. QED
    BY <1>2 DEF SessionsAgree

\* The replies agree after a step in which the server sends none.
LEMMA AnswersKept ==
  ASSUME IInv, StorageIInv, Grows(log, log'),
         \A c \in Callers : Answered(callers'[c], conns') =>
           /\ Answered(callers[c], conns) /\ callers'[c].call = callers[c].call
           /\ payload'[callers'[c].conn] = payload[callers[c].conn]
  PROVE  AnswersAgree'
  <1>1. Orderly(log)
    BY LogIsOrderly, Typed DEF IInv, StorageIInv
  <1>2. ASSUME NEW c \in Callers, Answered(callers[c], conns)
        PROVE  Explained(log', callers[c].call, payload[callers[c].conn])
    <2>1. callers[c].pc # "idle" /\ callers[c].call \in Numbers
      BY <1>2, CallerFacts DEF Answered
    <2>2. log[callers[c].call].outcome # "none"
      BY <2>1 DEF StorageIInv, LogAgrees
    <2>3. Explained(log, callers[c].call, payload[callers[c].conn])
      BY <1>2 DEF StorageIInv, AnswersAgree
    <2>4. QED
      BY <1>1, <2>1, <2>2, <2>3, ExplainedStays
  <1>3. QED
    BY <1>2 DEF AnswersAgree

\* What was found agrees after a step in which nothing is found.
LEMMA FindingsKept ==
  ASSUME IInv, StorageIInv, Grows(log, log'),
         \A n \in Numbers : Found(n)' =>
           \/ Found(n) /\ log'[n].found = log[n].found
           \/ log[n].outcome # "none" /\ Explained(log, n, log'[n].found)
  PROVE  FindingsAgree'
  <1>1. Orderly(log)
    BY LogIsOrderly, Typed DEF IInv, StorageIInv
  <1>2. ASSUME NEW n \in Numbers, Found(n)'
        PROVE  log[n].outcome # "none" /\ Explained(log, n, log'[n].found)
    <2>1. Found(n) => log[n].outcome # "none" /\ Explained(log, n, log[n].found)
      BY DoneIsCalled DEF StorageIInv, FindingsAgree
    <2>2. QED
      BY <1>2, <2>1
  <1>3. ASSUME NEW n \in Numbers, Found(n)' PROVE Explained(log', n, log'[n].found)
    BY <1>1, <1>2, <1>3, ExplainedStays
  <1>4. QED
    BY <1>3 DEF FindingsAgree

\* A caller goes on in its call, and at most its own command is new on a connection.
LEMMA Moves ==
  ASSUME IInv, StorageIInv, NEW c \in Callers, NEW r, Goto(c, r),
         callers[c].pc # "idle", r.pc # "idle", r.call = callers[c].call,
         UNCHANGED <<db, log, calls>>,
         payload' = [d \in Conns |-> IF conns'[d].open THEN payload[d] ELSE Missing],
         \A b \in Callers \ {c} :
           callers[b].pc = "read" => conns'[callers[b].conn] = conns[callers[b].conn],
         \A d \in Conns, n \in Numbers :
           Waits(conns'[d], n) => Waits(conns[d], n) \/ (n = r.call /\ MayBeOn(r, d)),
         r.got \in Numbers => callers[c].got = r.got,
         ~Answered(r, conns'),
         \A d \in Conns : MayBeOn(callers[c], d) => MayBeOn(r, d)
  PROVE  StorageIInv'
  <1>1. \A b \in Callers : callers'[b] = IF b = c THEN r ELSE callers[b]
    BY Typed, Regrouped DEF IInv
  <1>2. StorageTypeOK'
    <2>1. payload \in [Conns -> Contents] /\ Missing \in Contents
      BY StorageTyped DEF StorageIInv, Contents
    <2>2. payload' \in [Conns -> Contents]
      BY <2>1
    <2>3. QED
      BY <2>2, StorageTyped, StorageTypedNext DEF StorageIInv
  <1>3. Grows(log, log')
    BY DEF Grows
  <1>4. /\ callers[c].call \in Numbers /\ callers[c].call <= calls
        /\ log[callers[c].call].outcome = "pending"
        /\ \A b \in Callers : callers[b].call = callers[c].call => b = c
    BY CallerFacts DEF StorageIInv, LogAgrees
  <1>5. LogAgrees'
    <2>1. \A b \in Callers : callers'[b].pc # "idle" <=> callers[b].pc # "idle"
      BY <1>1
    <2>2. \A b \in Callers : callers'[b].call = callers[b].call
      BY <1>1
    <2>3. QED
      BY <2>1, <2>2 DEF StorageIInv, LogAgrees, Returned
  <1>6. CopiesAgree'
    <2> SUFFICES ASSUME NEW d \in Conns, NEW n \in Numbers, Waits(conns'[d], n)
                 PROVE  /\ n <= calls /\ log[n].outcome # "clean"
                        /\ \A b \in Callers : callers'[b].call = n => MayBeOn(callers'[b], d)
      BY DEF CopiesAgree
    <2>1. CASE Waits(conns[d], n)
      BY <1>1, <2>1 DEF StorageIInv, CopiesAgree
    <2>2. CASE n = r.call /\ MayBeOn(r, d)
      BY <1>1, <1>4, <2>2
    <2>3. QED
      BY <2>1, <2>2
  <1>7. ASSUME NEW b \in Callers, Answered(callers'[b], conns')
        PROVE  /\ Answered(callers[b], conns) /\ callers'[b] = callers[b]
               /\ payload'[callers[b].conn] = payload[callers[b].conn]
    <2>1. b # c /\ callers'[b] = callers[b] /\ callers[b].pc = "read"
      BY <1>1, <1>7 DEF Answered
    <2>2. callers[b].conn \in Conns /\ conns[callers[b].conn].open
      BY <2>1, CallerFacts DEF Connected
    <2>3. conns'[callers[b].conn] = conns[callers[b].conn]
      BY <2>1
    <2>4. QED
      BY <1>7, <2>1, <2>2, <2>3 DEF Answered
  <1>8. AnswersAgree'
    BY <1>3, <1>7, AnswersKept
  <1>9. \A b \in Callers : /\ callers'[b].call = callers[b].call
                           /\ callers'[b].got \in Numbers => callers[b].got \in Numbers
    BY <1>1
  <1>10. \A m \in Numbers : (Done(m)' => Done(m)) /\ (Found(m)' => Found(m))
    BY <1>7, <1>9 DEF Done, Found
  <1>11. SessionsAgree' /\ FindingsAgree'
    BY <1>3, <1>10, SessionsKept, FindingsKept
  <1>12. QED
    BY <1>2, <1>5, <1>6, <1>8, <1>11 DEF StorageIInv

\* Closing a connection adds nothing to it.
LEMMA ClosingKeeps ==
  ASSUME conns \in [Conns -> ConnRecords], NEW S, conns' = CloseAll(S)
  PROVE  \A d \in Conns : /\ d \notin S => conns'[d] = conns[d]
                          /\ \A n \in Numbers : Waits(conns'[d], n) => Waits(conns[d], n)
  <1>1. ASSUME NEW d \in Conns, NEW n \in Numbers, Waits(Closed(conns[d]), n)
        PROVE  Waits(conns[d], n)
    <2>1. CASE conns[d].inbox = <<>>
      BY <1>1, <2>1, Constants DEF Closed, Waits
    <2>2. CASE conns[d].inbox # <<>>
      <3>1. Closed(conns[d]).inbox = conns[d].inbox
        BY <2>2 DEF Closed, ConnRecords
      <3>2. QED
        BY <1>1, <3>1 DEF Waits
    <2>3. QED
      BY <2>1, <2>2
  <1>2. \A d \in Conns : conns'[d] = IF d \in S THEN Closed(conns[d]) ELSE conns[d]
    BY DEF CloseAll
  <1>3. QED
    BY <1>1, <1>2

\* No connection changes, and the caller neither has sent nor got anything.
LEMMA MovesOnly ==
  ASSUME IInv, StorageIInv, NEW c \in Callers, NEW r, Goto(c, r),
         callers[c].pc # "idle", r.pc \notin {"idle", "read"}, r.call = callers[c].call,
         UNCHANGED <<db, log, calls, conns>>,
         payload' = [d \in Conns |-> IF conns'[d].open THEN payload[d] ELSE Missing],
         r.got \in Numbers => callers[c].got = r.got,
         \A d \in Conns : MayBeOn(callers[c], d) => MayBeOn(r, d)
  PROVE  StorageIInv'
  BY Moves DEF Answered

\* pool.take as far as a slot is concerned, and the end of an attempt.
LEMMA WaitingSteps ==
  ASSUME IInv, StorageIInv, NEW c \in Callers, UNCHANGED <<db, log>>,
         payload' = [d \in Conns |-> IF conns'[d].open THEN payload[d] ELSE Missing],
         TakeSlot(c) \/ SlotTimeout(c) \/ PopIdle(c) \/ DialFails(c) \/ CommandFails(c) \/ Free(c)
  PROVE  StorageIInv'
  <1>1. callers[c] \in CallerRecords
    BY CallerFacts
  <1>2. CASE TakeSlot(c)
    <2> DEFINE r == [callers[c] EXCEPT !.pc = "pop"]
    <2>1. /\ callers[c].pc = "slot" /\ Goto(c, r) /\ UNCHANGED <<calls, conns>>
      BY <1>2 DEF TakeSlot, At
    <2>2. /\ r.pc = "pop" /\ r.call = callers[c].call /\ r.got = callers[c].got
          /\ r.attempt = callers[c].attempt
      BY <1>1 DEF CallerRecords
    <2> HIDE DEF r
    <2>3. QED
      BY <2>1, <2>2, MovesOnly DEF MayBeOn
  <1>3. CASE SlotTimeout(c)
    <2> DEFINE r == [callers[c] EXCEPT !.pc = "release", !.got = Error]
    <2>1. /\ callers[c].pc = "slot" /\ Goto(c, r) /\ UNCHANGED <<calls, conns>>
      BY <1>3 DEF SlotTimeout, At
    <2>2. r.pc = "release" /\ r.call = callers[c].call /\ r.got = Error
      BY <1>1 DEF CallerRecords
    <2> HIDE DEF r
    <2>3. QED
      BY <2>1, <2>2, MovesOnly, NumbersApart DEF MayBeOn
  <1>4. CASE PopIdle(c)
    <2> DEFINE r == [callers[c] EXCEPT !.pc = "write", !.conn = Top(pools[callers[c].pool].idle),
                                       !.reused = TRUE]
    <2>1. /\ callers[c].pc = "pop" /\ Goto(c, r) /\ UNCHANGED <<calls, conns>>
      BY <1>4 DEF PopIdle, At
    <2>2. /\ r.pc = "write" /\ r.call = callers[c].call /\ r.got = callers[c].got
          /\ r.attempt = callers[c].attempt
      BY <1>1 DEF CallerRecords
    <2> HIDE DEF r
    <2>3. QED
      BY <2>1, <2>2, MovesOnly DEF MayBeOn
  <1>5. CASE DialFails(c)
    <2> DEFINE r == [callers[c] EXCEPT !.pc = "release", !.got = Error]
    <2>1. /\ callers[c].pc = "dial" /\ Goto(c, r) /\ UNCHANGED <<calls, conns>>
      BY <1>5 DEF DialFails, At
    <2>2. r.pc = "release" /\ r.call = callers[c].call /\ r.got = Error
      BY <1>1 DEF CallerRecords
    <2> HIDE DEF r
    <2>3. QED
      BY <2>1, <2>2, MovesOnly, NumbersApart DEF MayBeOn
  <1>6. CASE CommandFails(c)
    <2> DEFINE r == [callers[c] EXCEPT !.pc = "put", !.got = Error]
    <2>1. /\ callers[c].pc \in {"write", "read"} /\ Goto(c, r) /\ UNCHANGED <<calls, conns>>
      BY <1>6 DEF CommandFails, At
    <2>2. r.pc = "put" /\ r.call = callers[c].call /\ r.got = Error
      BY <1>1 DEF CallerRecords
    <2> HIDE DEF r
    <2>3. QED
      BY <2>1, <2>2, MovesOnly, NumbersApart DEF MayBeOn
  <1>7. CASE Free(c)
    <2>1. callers[c].pc = "free" /\ UNCHANGED <<calls, conns>>
      BY <1>7 DEF Free, At
    <2>2. CASE Retries(c)
      <3> DEFINE r == [callers[c] EXCEPT !.pc = "slot", !.attempt = 2, !.got = Nothing,
                                         !.reused = FALSE]
      <3>1. Goto(c, r)
        BY <1>7, <2>2 DEF Free
      <3>2. r.pc = "slot" /\ r.call = callers[c].call /\ r.attempt = 2 /\ r.got = Nothing
        BY <1>1 DEF CallerRecords
      <3> HIDE DEF r
      <3>3. QED
        BY <2>1, <3>1, <3>2, MovesOnly, NumbersApart DEF MayBeOn
    <2>3. CASE ~Retries(c)
      <3> DEFINE r == [callers[c] EXCEPT !.pc = "release"]
      <3>1. Goto(c, r)
        BY <1>7, <2>3 DEF Free
      <3>2. /\ r.pc = "release" /\ r.call = callers[c].call /\ r.got = callers[c].got
            /\ r.attempt = callers[c].attempt
        BY <1>1 DEF CallerRecords
      <3> HIDE DEF r
      <3>3. QED
        BY <2>1, <3>1, <3>2, MovesOnly DEF MayBeOn
    <2>4. QED
      BY <2>2, <2>3
  <1>8. QED
    BY <1>2, <1>3, <1>4, <1>5, <1>6, <1>7

\* The idle connections that are closed are nobody's.
LEMMA PopNothingMoves ==
  ASSUME IInv, StorageIInv, NEW c \in Callers, UNCHANGED <<db, log>>, PopNothing(c),
         payload' = [d \in Conns |-> IF conns'[d].open THEN payload[d] ELSE Missing]
  PROVE  StorageIInv'
  <1> DEFINE r == [callers[c] EXCEPT !.pc = "dial"]
             p == callers[c].pool
  <1>1. /\ callers[c].pc = "pop" /\ Goto(c, r) /\ conns' = CloseAll(IdleOf(p))
        /\ UNCHANGED calls
    BY DEF PopNothing, At
  <1>2. callers[c] \in CallerRecords /\ p \in Pools
    BY <1>1, InCall DEF IInv
  <1>3. /\ r.pc = "dial" /\ r.call = callers[c].call /\ r.got = callers[c].got
        /\ r.attempt = callers[c].attempt
    BY <1>2 DEF CallerRecords
  <1>4. \A b \in Callers : callers[b].conn \notin IdleOf(p)
    BY <1>2 DEF IInv, IdleAgrees, IdleRight, IdleOf
  <1> HIDE DEF r
  <1>5. \A d \in Conns : /\ d \notin IdleOf(p) => conns'[d] = conns[d]
                         /\ \A n \in Numbers : Waits(conns'[d], n) => Waits(conns[d], n)
    BY <1>1, ClosingKeeps, Typed DEF IInv
  <1>6. ASSUME NEW b \in Callers, callers[b].pc = "read"
        PROVE  conns'[callers[b].conn] = conns[callers[b].conn]
    BY <1>4, <1>5, <1>6, CallerFacts DEF Connected
  <1>7. QED
    BY <1>1, <1>3, <1>5, <1>6, Moves DEF Answered, MayBeOn

\* The connection that is opened is nobody's.
LEMMA DialMoves ==
  ASSUME IInv, StorageIInv, NEW c \in Callers, UNCHANGED <<db, log>>, Dial(c),
         payload' = [d \in Conns |-> IF conns'[d].open THEN payload[d] ELSE Missing]
  PROVE  StorageIInv'
  <1>1. PICK e \in Conns :
          /\ conns[e] = NoConnection
          /\ conns' = [conns EXCEPT ![e] = [open |-> TRUE, key |-> pools[callers[c].pool].key,
                                            up |-> TRUE, inbox |-> <<>>, outbox |-> <<>>]]
          /\ Goto(c, [callers[c] EXCEPT !.pc = "write", !.conn = e, !.reused = FALSE])
    BY DEF Dial
  <1> DEFINE r == [callers[c] EXCEPT !.pc = "write", !.conn = e, !.reused = FALSE]
             s == [open |-> TRUE, key |-> pools[callers[c].pool].key,
                   up |-> TRUE, inbox |-> <<>>, outbox |-> <<>>]
  <1>2. callers[c].pc = "dial" /\ UNCHANGED calls /\ Goto(c, r) /\ conns' = [conns EXCEPT ![e] = s]
    BY <1>1 DEF Dial, At
  <1>3. /\ r.pc = "write" /\ r.call = callers[c].call /\ r.got = callers[c].got
        /\ r.attempt = callers[c].attempt /\ s.inbox = <<>>
    BY CallerFacts DEF CallerRecords
  <1> HIDE DEF r, s
  <1>4. \A d \in Conns : conns'[d] = IF d = e THEN s ELSE conns[d]
    BY <1>2, Typed DEF IInv
  <1>5. \A d \in Conns, n \in Numbers : Waits(conns'[d], n) => Waits(conns[d], n)
    BY <1>3, <1>4 DEF Waits
  <1>6. ASSUME NEW b \in Callers, callers[b].pc = "read"
        PROVE  conns'[callers[b].conn] = conns[callers[b].conn]
    BY <1>1, <1>4, <1>6, CallerFacts, Constants DEF Connected
  <1>7. QED
    BY <1>2, <1>3, <1>5, <1>6, Moves DEF Answered, MayBeOn

\* The connection written to is the caller's.
LEMMA WriteMoves ==
  ASSUME IInv, StorageIInv, NEW c \in Callers, UNCHANGED <<db, log>>, Write(c),
         payload' = [d \in Conns |-> IF conns'[d].open THEN payload[d] ELSE Missing]
  PROVE  StorageIInv'
  <1> DEFINE e == callers[c].conn
             r == [callers[c] EXCEPT !.pc = "read"]
             s == [conns[e] EXCEPT !.inbox = Append(@, callers[c].call)]
  <1>1. callers[c].pc = "write" /\ UNCHANGED calls /\ Goto(c, r) /\ conns' = [conns EXCEPT ![e] = s]
    BY DEF Write, At
  <1>2. /\ callers[c] \in CallerRecords /\ callers[c].call \in Numbers
        /\ e \in Conns /\ conns[e] \in ConnRecords
        /\ \A b \in Callers : callers[b].conn = e => b = c
    BY <1>1, CallerFacts, Typed DEF IInv, Connected
  <1>3. conns[e].inbox = <<>> /\ conns[e].outbox = <<>>
    BY <1>1, <1>2, RedisClientAssumption DEF IInv, HeldAgrees, HeldRight, Clean
  <1>4. /\ r.pc = "read" /\ r.call = callers[c].call /\ r.got = callers[c].got
        /\ r.attempt = callers[c].attempt /\ r.conn = e
    BY <1>2 DEF CallerRecords
  <1>5. s.inbox = <<callers[c].call>> /\ s.outbox = <<>>
    BY <1>2, <1>3 DEF ConnRecords
  <1> HIDE DEF r, s
  <1>6. \A d \in Conns : conns'[d] = IF d = e THEN s ELSE conns[d]
    BY <1>1, Typed DEF IInv
  <1>7. ASSUME NEW d \in Conns, NEW n \in Numbers, Waits(conns'[d], n)
        PROVE  Waits(conns[d], n) \/ (n = r.call /\ MayBeOn(r, d))
    <2>1. CASE d = e
      <3>1. n = callers[c].call
        BY <1>5, <1>6, <1>7, <2>1 DEF Waits
      <3>2. QED
        BY <1>4, <2>1, <3>1 DEF MayBeOn
    <2>2. CASE d # e
      BY <1>6, <1>7, <2>2
    <2>3. QED
      BY <2>1, <2>2
  <1>8. ASSUME NEW b \in Callers \ {c}, callers[b].pc = "read"
        PROVE  conns'[callers[b].conn] = conns[callers[b].conn]
    BY <1>2, <1>6, <1>8, CallerFacts DEF Connected
  <1>9. ~Answered(r, conns')
    BY <1>2, <1>4, <1>5, <1>6 DEF Answered
  <1>10. \A d \in Conns : MayBeOn(callers[c], d) => MayBeOn(r, d)
    BY <1>1, <1>4 DEF MayBeOn
  <1>11. callers[c].pc # "idle" /\ r.pc # "idle"
    BY <1>1, <1>4
  <1>12. QED
    BY <1>1, <1>4, <1>7, <1>8, <1>9, <1>10, <1>11, Moves

\* The connection that is kept or closed is the caller's.
LEMMA PutMoves ==
  ASSUME IInv, StorageIInv, NEW c \in Callers, UNCHANGED <<db, log>>, Put(c),
         payload' = [d \in Conns |-> IF conns'[d].open THEN payload[d] ELSE Missing]
  PROVE  StorageIInv'
  <1> DEFINE e == callers[c].conn
             r == [callers[c] EXCEPT !.pc = "free", !.conn = None]
  <1>1. callers[c].pc = "put" /\ UNCHANGED calls /\ Goto(c, r)
    BY DEF Put, At
  <1>2. conns' = conns \/ conns' = CloseAll({e})
    BY DEF Put
  <1>3. /\ r.pc = "free" /\ r.call = callers[c].call /\ r.got = callers[c].got
        /\ r.attempt = callers[c].attempt
    BY CallerFacts DEF CallerRecords
  <1> HIDE DEF r
  <1>4. \A d \in Conns : /\ d # e => conns'[d] = conns[d]
                         /\ \A n \in Numbers : Waits(conns'[d], n) => Waits(conns[d], n)
    BY <1>2, ClosingKeeps, Typed DEF IInv
  <1>5. ASSUME NEW b \in Callers \ {c}, callers[b].pc = "read"
        PROVE  conns'[callers[b].conn] = conns[callers[b].conn]
    <2>1. callers[b].conn \in Conns /\ e # callers[b].conn
      BY <1>5, CallerFacts DEF Connected
    <2>2. QED
      BY <1>4, <2>1
  <1>6. QED
    BY <1>1, <1>3, <1>4, <1>5, Moves DEF Answered, MayBeOn

\* No step of the client by itself breaks the invariant.
LEMMA ClientStepKeeps ==
  ASSUME IInv, StorageIInv, NEW c \in Callers, ClientStep(c)
  PROVE  StorageIInv'
  BY WaitingSteps, PopNothingMoves, DialMoves, WriteMoves, PutMoves DEF ClientStep

---------------------------------------------------------------------------
(***************************************************************************)
(* The beginning and the end of calls, and replies                         *)
(***************************************************************************)
\* What is read is the answer to the caller's command.
LEMMA ReceiveStep ==
  ASSUME IInv, StorageIInv, NEW c \in Callers, Receive(c)
  PROVE  StorageIInv'
  <1> DEFINE e == callers[c].conn
             n == callers[c].call
             reply == Head(conns[e].outbox)
             g == IF reply[2] = "error" THEN ServerError ELSE reply[1]
             r == [callers[c] EXCEPT !.pc = "put", !.got = g]
             s == [conns[e] EXCEPT !.outbox = Tail(@)]
             f == [log[n] EXCEPT !.found = payload[e]]
  <1>1. /\ callers[c].pc = "read" /\ conns[e].outbox # <<>> /\ Goto(c, r)
        /\ conns' = [conns EXCEPT ![e] = s] /\ UNCHANGED <<calls, db>>
        /\ log' = [log EXCEPT ![n].found = payload[e]]
        /\ payload' = [payload EXCEPT ![e] = Missing]
    BY DEF Receive, Read, At
  <1>2. /\ callers[c] \in CallerRecords /\ n \in Numbers /\ e \in Conns
        /\ conns[e] \in ConnRecords /\ Awaits(e, n)
        /\ \A b \in Callers : callers[b].conn = e => b = c
    BY <1>1, CallerFacts, Typed DEF IInv, Connected
  <1>3. /\ conns[e].inbox = <<>>
        /\ \E kind \in Kinds : conns[e].outbox = <<<<n, kind>>>>
    BY <1>1, <1>2 DEF Awaits, Clean
  <1>4. g = ServerError \/ (g = n /\ Answered(callers[c], conns))
    BY <1>1, <1>3 DEF Kinds, Answered
  <1>5. callers[c].got = Nothing
    BY <1>1 DEF IInv, CallersAgree
  <1> HIDE DEF g
  <1>6. /\ r.pc = "put" /\ r.call = n /\ r.got = g /\ r.attempt = callers[c].attempt
        /\ s.inbox = conns[e].inbox
    BY <1>2 DEF CallerRecords, ConnRecords
  <1> HIDE DEF r, s
  <1>7. /\ \A b \in Callers : callers'[b] = IF b = c THEN r ELSE callers[b]
        /\ \A d \in Conns : conns'[d] = IF d = e THEN s ELSE conns[d]
    BY <1>1, Typed, Regrouped DEF IInv
  <1>8. /\ log \in [Numbers -> LogRecords] /\ db \in [Keys -> [Ids -> Contents]]
        /\ payload \in [Conns -> Contents] /\ Missing \in Contents
    BY StorageTyped DEF StorageIInv, Contents
  <1>9. /\ f \in LogRecords /\ f.key = log[n].key /\ f.command = log[n].command
        /\ f.earlier = log[n].earlier /\ f.outcome = log[n].outcome /\ f.found = payload[e]
    <2>1. log[n] \in LogRecords /\ payload[e] \in Contents
      BY <1>2, <1>8
    <2>2. QED
      BY <2>1, EntryFields
  <1>10. log' = [log EXCEPT ![n] = f]
    BY <1>1
  <1> HIDE DEF f
  <1>11. \A m \in Numbers : log'[m] = IF m = n THEN f ELSE log[m]
    BY <1>8, <1>10
  <1>12. StorageTypeOK'
    <2>1. log' \in [Numbers -> LogRecords] /\ payload' \in [Conns -> Contents]
      BY <1>1, <1>2, <1>8, <1>9, <1>10
    <2>2. QED
      BY <1>1, <1>8, <2>1, StorageTypedNext
  <1>13. /\ n <= calls /\ log[n].outcome = "pending"
         /\ \A b \in Callers : callers[b].call = n => b = c
    BY <1>1 DEF StorageIInv, LogAgrees
  <1>14. \A m \in Numbers :
           /\ log'[m].key = log[m].key /\ log'[m].command = log[m].command
           /\ log'[m].earlier = log[m].earlier /\ log'[m].outcome = log[m].outcome
    BY <1>9, <1>11
  <1>15. Grows(log, log')
    BY <1>14 DEF Grows
  <1>16. \A b \in Callers : /\ callers'[b].call = callers[b].call
                            /\ callers'[b].pc # "idle" <=> callers[b].pc # "idle"
    BY <1>1, <1>6, <1>7
  <1>17. LogAgrees'
    <2>1. Returned' = Returned
      BY <1>14 DEF Returned
    <2>2. \A m \in Numbers : m > calls => log'[m] = log[m]
      <3>1. calls \in 0..MaxCalls
        BY Typed DEF IInv
      <3>2. \A m \in Numbers : m > calls => m # n
        BY <1>2, <1>13, <3>1, NumbersApart
      <3>3. QED
        BY <1>11, <3>2
    <2>3. \A m \in Numbers :
            /\ m > calls => log'[m] = Unused
            /\ m <= calls => /\ log'[m].key \in Keys /\ log'[m].command \in Commands
                             /\ log'[m].outcome # "none"
            /\ log'[m].earlier \subseteq Returned \ {m}
      BY <1>14, <2>2 DEF StorageIInv, LogAgrees
    <2>4. ASSUME NEW b \in Callers, callers'[b].pc # "idle"
          PROVE  /\ callers'[b].call <= calls /\ log'[callers'[b].call].outcome = "pending"
                 /\ \A a \in Callers : callers'[a].call = callers'[b].call => a = b
      BY <1>14, <1>16, <2>4, CallerFacts DEF StorageIInv, LogAgrees
    <2>5. QED
      BY <1>1, <2>1, <2>3, <2>4 DEF LogAgrees
  <1>18. CopiesAgree'
    <2> SUFFICES ASSUME NEW d \in Conns, NEW m \in Numbers, Waits(conns'[d], m)
                 PROVE  /\ m <= calls /\ log'[m].outcome # "clean"
                        /\ \A b \in Callers : callers'[b].call = m => MayBeOn(callers'[b], d)
      BY <1>1 DEF CopiesAgree
    <2>1. Waits(conns[d], m)
      BY <1>6, <1>7 DEF Waits
    <2>2. m <= calls /\ log[m].outcome # "clean"
      BY <2>1 DEF StorageIInv, CopiesAgree
    <2>3. ASSUME NEW b \in Callers, callers'[b].call = m PROVE MayBeOn(callers'[b], d)
      <3>1. MayBeOn(callers[b], d)
        BY <1>16, <2>1, <2>3 DEF StorageIInv, CopiesAgree
      <3>2. CASE b = c
        <4>1. d # e
          BY <1>3, <2>1 DEF Waits
        <4>2. callers[c].attempt = 2
          BY <1>5, <3>1, <3>2, <4>1, NumbersApart DEF MayBeOn
        <4>3. QED
          BY <1>6, <1>7, <3>2, <4>2 DEF MayBeOn
      <3>3. CASE b # c
        BY <1>7, <3>1, <3>3
      <3>4. QED
        BY <3>2, <3>3
    <2>4. QED
      BY <1>14, <2>2, <2>3
  <1>19. ASSUME NEW b \in Callers, Answered(callers'[b], conns')
         PROVE  /\ Answered(callers[b], conns) /\ callers'[b] = callers[b] /\ callers[b].conn # e
                /\ payload'[callers[b].conn] = payload[callers[b].conn]
    <2>1. b # c /\ callers'[b] = callers[b] /\ callers[b].pc = "read"
      BY <1>6, <1>7, <1>19 DEF Answered
    <2>2. callers[b].conn \in Conns /\ callers[b].conn # e
      BY <1>2, <2>1, CallerFacts DEF Connected
    <2>3. conns'[callers[b].conn] = conns[callers[b].conn]
          /\ payload'[callers[b].conn] = payload[callers[b].conn]
      BY <1>1, <1>7, <1>8, <2>2
    <2>4. QED
      BY <1>19, <2>1, <2>2, <2>3 DEF Answered
  <1>20. AnswersAgree'
    BY <1>15, <1>19, AnswersKept
  <1>21. ASSUME NEW b \in Callers, callers'[b].got \in Numbers
         PROVE  \/ callers[b].got \in Numbers /\ callers[b].call # n
                \/ b = c /\ callers'[b].call = n /\ Answered(callers[c], conns)
    BY <1>4, <1>6, <1>7, <1>13, <1>21, NumbersApart
  <1>22. \A m \in Numbers : SucceededIn(log', m) <=> SucceededIn(log, m)
    BY <1>14 DEF SucceededIn
  <1>23. ASSUME NEW m \in Numbers, Done(m)' PROVE Done(m)
    BY <1>16, <1>19, <1>21, <1>22, <1>23 DEF Done
  <1>24. ASSUME NEW m \in Numbers, Found(m)'
         PROVE  \/ Found(m) /\ log'[m].found = log[m].found
                \/ log[m].outcome # "none" /\ Explained(log, m, log'[m].found)
    <2>1. CASE m # n
      BY <1>11, <1>16, <1>21, <1>22, <1>24, <2>1 DEF Found
    <2>2. CASE m = n
      <3>1. ~SucceededIn(log, n)
        BY <1>13 DEF SucceededIn
      <3>2. Answered(callers[c], conns)
        BY <1>16, <1>21, <1>22, <1>24, <2>2, <3>1 DEF Found
      <3>3. Explained(log, n, payload[e])
        BY <3>2 DEF StorageIInv, AnswersAgree
      <3>4. QED
        BY <1>2, <1>9, <1>11, <1>13, <2>2, <3>3
    <2>3. QED
      BY <2>1, <2>2
  <1>25. SessionsAgree' /\ FindingsAgree'
    BY <1>1, <1>15, <1>23, <1>24, SessionsKept, FindingsKept
  <1>26. QED
    BY <1>12, <1>17, <1>18, <1>20, <1>25 DEF StorageIInv

\* A call that returns at its first attempt has left no copy behind.
LEMMA ReturnStep ==
  ASSUME IInv, StorageIInv, NEW c \in Callers, Return(c)
  PROVE  StorageIInv'
  <1> DEFINE n == callers[c].call
             o == IF callers[c].got \notin Numbers THEN "failed"
                  ELSE IF callers[c].attempt = 1 THEN "clean" ELSE "retried"
             f == [log[n] EXCEPT !.outcome = o]
  <1>1. /\ callers[c].pc = "release" /\ Goto(c, Resting) /\ UNCHANGED <<conns, calls, db, payload>>
        /\ log' = [log EXCEPT ![n] = f]
    BY DEF Return, Release, At
  <1>2. /\ callers[c] \in CallerRecords /\ n \in Numbers /\ n <= calls
        /\ log[n].outcome = "pending"
        /\ \A b \in Callers : callers[b].call = n => b = c
    BY <1>1, CallerFacts DEF StorageIInv, LogAgrees
  <1>3. \A b \in Callers : callers'[b] = IF b = c THEN Resting ELSE callers[b]
    BY <1>1, Typed, Regrouped DEF IInv
  <1>4. /\ log \in [Numbers -> LogRecords] /\ db \in [Keys -> [Ids -> Contents]]
        /\ payload \in [Conns -> Contents]
    BY StorageTyped DEF StorageIInv
  <1>5. o \in {"clean", "retried", "failed"} /\ (o # "failed" => callers[c].got \in Numbers)
    OBVIOUS
  <1>6. /\ f \in LogRecords /\ f.key = log[n].key /\ f.command = log[n].command
        /\ f.earlier = log[n].earlier /\ f.outcome = o /\ f.found = log[n].found
    <2>1. o \in Ends
      BY <1>5 DEF Ends
    <2> HIDE DEF o
    <2>2. QED
      BY <1>2, <1>4, <2>1, EntryFields
  <1>7. ASSUME NEW d \in Conns, Waits(conns[d], n) PROVE o # "clean"
    <2>1. MayBeOn(callers[c], d)
      BY <1>2, <1>7 DEF StorageIInv, CopiesAgree
    <2>2. callers[c].attempt = 2 \/ callers[c].got \notin Numbers
      BY <1>1, <2>1, NumbersApart DEF MayBeOn
    <2>3. QED
      BY <2>2
  <1> HIDE DEF o, f
  <1>8. \A m \in Numbers : log'[m] = IF m = n THEN f ELSE log[m]
    BY <1>1, <1>4
  <1>9. StorageTypeOK'
    <2>1. log' \in [Numbers -> LogRecords]
      BY <1>1, <1>4, <1>6
    <2>2. QED
      BY <1>1, <1>4, <2>1, StorageTypedNext
  <1>10. Grows(log, log')
    BY <1>2, <1>5, <1>6, <1>8 DEF Grows
  <1>11. \A b \in Callers : callers'[b].call \in Numbers => b # c /\ callers'[b] = callers[b]
    BY <1>3, Rests, NumbersApart
  <1>12. LogAgrees'
    <2>1. Returned \subseteq Returned'
      BY <1>5, <1>6, <1>8 DEF Returned
    <2>2. ASSUME NEW m \in Numbers, m > calls PROVE log'[m] = log[m]
      <3>1. m # n
        BY <1>2, <2>2, NumbersApart, Typed DEF IInv
      <3>2. QED
        BY <1>8, <3>1
    <2>3. \A m \in Numbers :
            /\ m > calls => log'[m] = Unused
            /\ m <= calls => /\ log'[m].key \in Keys /\ log'[m].command \in Commands
                             /\ log'[m].outcome # "none"
            /\ log'[m].earlier \subseteq Returned' \ {m}
      BY <1>5, <1>6, <1>8, <2>1, <2>2 DEF StorageIInv, LogAgrees
    <2>4. ASSUME NEW b \in Callers, callers'[b].pc # "idle"
          PROVE  /\ callers'[b].call <= calls /\ log'[callers'[b].call].outcome = "pending"
                 /\ \A a \in Callers : callers'[a].call = callers'[b].call => a = b
      <3>1. b # c /\ callers'[b] = callers[b]
        BY <1>3, <2>4, Rests
      <3>2. /\ callers[b].call <= calls /\ log[callers[b].call].outcome = "pending"
            /\ \A a \in Callers : callers[a].call = callers[b].call => a = b
        BY <2>4, <3>1 DEF StorageIInv, LogAgrees
      <3>3. callers[b].call \in Numbers /\ callers[b].call # n
        BY <1>2, <2>4, <3>1, CallerFacts
      <3>4. QED
        BY <1>8, <1>11, <3>1, <3>2, <3>3
    <2>5. QED
      BY <1>1, <2>3, <2>4 DEF LogAgrees
  <1>13. CopiesAgree'
    <2> SUFFICES ASSUME NEW d \in Conns, NEW m \in Numbers, Waits(conns[d], m)
                 PROVE  /\ m <= calls /\ log'[m].outcome # "clean"
                        /\ \A b \in Callers : callers'[b].call = m => MayBeOn(callers'[b], d)
      BY <1>1 DEF CopiesAgree
    <2>1. /\ m <= calls /\ log[m].outcome # "clean"
          /\ \A b \in Callers : callers[b].call = m => MayBeOn(callers[b], d)
      BY DEF StorageIInv, CopiesAgree
    <2>2. QED
      BY <1>6, <1>7, <1>8, <1>11, <2>1
  <1>14. ASSUME NEW b \in Callers, Answered(callers'[b], conns')
         PROVE  Answered(callers[b], conns) /\ callers'[b] = callers[b]
    BY <1>1, <1>3, <1>14, Rests DEF Answered
  <1>15. AnswersAgree'
    BY <1>1, <1>10, <1>14, AnswersKept
  <1>16. ASSUME NEW m \in Numbers, SucceededIn(log', m)
         PROVE  \/ SucceededIn(log, m)
                \/ callers[c].call = m /\ callers[c].got \in Numbers
    BY <1>5, <1>6, <1>8, <1>16 DEF SucceededIn
  <1>17. ASSUME NEW m \in Numbers, Done(m)' PROVE Done(m)
    BY <1>11, <1>14, <1>16, <1>17 DEF Done
  <1>18. ASSUME NEW m \in Numbers, Found(m)' PROVE Found(m) /\ log'[m].found = log[m].found
    BY <1>6, <1>8, <1>11, <1>16, <1>18 DEF Found
  <1>19. SessionsAgree' /\ FindingsAgree'
    BY <1>1, <1>10, <1>17, <1>18, SessionsKept, FindingsKept
  <1>20. QED
    BY <1>9, <1>12, <1>13, <1>15, <1>19 DEF StorageIInv

\* The entry of a call that begins; the caller waits for a slot, or the call has failed.
LEMMA Begins ==
  ASSUME IInv, StorageIInv, NEW c \in Callers, NEW k \in Keys, NEW command \in Commands,
         NEW o \in {"pending", "failed"}, Record(k, command, o),
         calls + 1 \in Numbers, calls' = calls + 1, UNCHANGED <<db, payload>>,
         \A b \in Callers \ {c} : callers'[b] = callers[b],
         callers[c].pc = "idle",
         \/ callers'[c] = callers[c]
         \/ /\ callers'[c].pc = "slot" /\ callers'[c].call = calls + 1
            /\ callers'[c].got = Nothing /\ o = "pending",
         \A d \in Conns, m \in Numbers : Waits(conns'[d], m) => Waits(conns[d], m),
         \A b \in Callers :
           callers[b].pc = "read" => conns'[callers[b].conn] = conns[callers[b].conn]
  PROVE  StorageIInv'
  <1> DEFINE n == calls + 1
             f == [key |-> k, command |-> command, earlier |-> Returned,
                   outcome |-> o, found |-> Missing]
  <1>1. /\ log \in [Numbers -> LogRecords] /\ db \in [Keys -> [Ids -> Contents]]
        /\ payload \in [Conns -> Contents]
    BY StorageTyped DEF StorageIInv
  <1>2. n \in Numbers /\ calls' = n /\ calls \in Nat /\ log' = [log EXCEPT ![n] = f]
    BY Typed DEF IInv, Record
  <1>3. n \in Nat /\ n > calls
    BY <1>2
  <1>4. f \in LogRecords
    BY DEF LogRecords, Ends, Contents, Returned
  <1>5. /\ f.key = k /\ f.command = command /\ f.earlier = Returned /\ f.outcome = o
        /\ f.found = Missing
    OBVIOUS
  <1>6. log[n] = Unused
    BY <1>2, <1>3 DEF StorageIInv, LogAgrees
  <1> HIDE DEF n, f
  <1>7. \A m \in Numbers : log'[m] = IF m = n THEN f ELSE log[m]
    BY <1>1, <1>2
  <1>8. StorageTypeOK'
    <2>1. log' \in [Numbers -> LogRecords]
      BY <1>1, <1>2, <1>4
    <2>2. QED
      BY <1>1, <2>1, StorageTypedNext
  <1>9. Grows(log, log')
    BY <1>6, <1>7, UnusedFields DEF Grows
  <1>10. ASSUME NEW m \in Numbers
         PROVE  /\ m <= n => m = n \/ m <= calls
                /\ m <= calls => m # n
                /\ m <= calls \/ m > calls
                /\ m <= calls => m <= n
    BY <1>2, <1>3, NumbersApart DEF n
  <1>11. ASSUME NEW b \in Callers, callers[b].pc # "idle"
         PROVE  /\ b # c /\ callers'[b] = callers[b]
                /\ callers[b].call \in Numbers /\ callers[b].call <= calls /\ callers[b].call # n
                /\ log[callers[b].call].outcome = "pending"
                /\ \A a \in Callers : callers[a].call = callers[b].call => a = b
    BY <1>10, <1>11, CallerFacts DEF StorageIInv, LogAgrees
  <1>12. ASSUME NEW b \in Callers, callers'[b].call \in Numbers
         PROVE  \/ callers[b].pc # "idle"
                \/ /\ b = c /\ callers'[b].call = n /\ callers'[b].got = Nothing
                   /\ callers'[b].pc = "slot" /\ o = "pending"
    BY <1>12, CallerFacts, NumbersApart DEF n
  <1>13. LogAgrees'
    <2>1. Returned \subseteq Returned' /\ n \notin Returned
      BY <1>2, <1>5, <1>6, <1>7, UnusedFields DEF Returned
    <2>2. ASSUME NEW m \in Numbers
          PROVE  /\ m > n => log'[m] = Unused
                 /\ m <= n => /\ log'[m].key \in Keys /\ log'[m].command \in Commands
                              /\ log'[m].outcome # "none"
                 /\ log'[m].earlier \subseteq Returned \ {m}
      <3>1. CASE m = n
        BY <1>3, <1>5, <1>7, <2>1, <3>1
      <3>2. CASE m # n
        <4>1. m > n => m > calls
          BY <1>2, <1>3, NumbersApart
        <4>2. QED
          BY <1>7, <1>10, <3>2, <4>1 DEF StorageIInv, LogAgrees
      <3>3. QED
        BY <3>1, <3>2
    <2>3. ASSUME NEW b \in Callers, callers'[b].pc # "idle"
          PROVE  /\ callers'[b].call <= n /\ log'[callers'[b].call].outcome = "pending"
                 /\ \A a \in Callers : callers'[a].call = callers'[b].call => a = b
      <3>1. CASE callers[b].pc # "idle"
        <4>1. callers'[b] = callers[b] /\ log'[callers[b].call].outcome = "pending"
              /\ callers[b].call <= n
          BY <1>7, <1>10, <1>11, <3>1
        <4>2. ASSUME NEW a \in Callers, callers'[a].call = callers[b].call PROVE a = b
          BY <1>11, <1>12, <3>1, <4>2
        <4>3. QED
          BY <4>1, <4>2
      <3>2. CASE callers[b].pc = "idle"
        <4>1. b = c /\ callers'[b].call = n /\ o = "pending"
          BY <2>3, <3>2 DEF n
        <4>2. ASSUME NEW a \in Callers, callers'[a].call = n PROVE a = b
          BY <1>2, <1>11, <1>12, <4>1, <4>2
        <4>3. QED
          BY <1>2, <1>3, <1>5, <1>7, <4>1, <4>2
      <3>3. QED
        BY <3>1, <3>2
    <2>4. QED
      BY <1>2, <2>1, <2>2, <2>3 DEF LogAgrees
  <1>14. CopiesAgree'
    <2> SUFFICES ASSUME NEW d \in Conns, NEW m \in Numbers, Waits(conns'[d], m)
                 PROVE  /\ m <= n /\ log'[m].outcome # "clean"
                        /\ \A b \in Callers : callers'[b].call = m => MayBeOn(callers'[b], d)
      BY <1>2 DEF CopiesAgree
    <2>1. /\ m <= calls /\ log[m].outcome # "clean"
          /\ \A b \in Callers : callers[b].call = m => MayBeOn(callers[b], d)
      BY DEF StorageIInv, CopiesAgree
    <2>2. m <= n /\ m # n /\ log'[m] = log[m]
      BY <1>7, <1>10, <2>1
    <2>3. ASSUME NEW b \in Callers, callers'[b].call = m PROVE MayBeOn(callers'[b], d)
      BY <1>11, <1>12, <2>1, <2>2, <2>3
    <2>4. QED
      BY <2>1, <2>2, <2>3
  <1>15. ASSUME NEW b \in Callers, Answered(callers'[b], conns')
         PROVE  Answered(callers[b], conns) /\ callers'[b] = callers[b]
    <2>1. callers'[b] = callers[b] /\ callers[b].pc = "read"
      BY <1>15 DEF Answered
    <2>2. QED
      BY <1>15, <2>1 DEF Answered
  <1>16. AnswersAgree'
    BY <1>9, <1>15, AnswersKept
  <1>17. \A m \in Numbers : SucceededIn(log', m) => m # n /\ SucceededIn(log, m)
    BY <1>5, <1>7 DEF SucceededIn
  <1>18. ASSUME NEW b \in Callers, callers'[b].call \in Numbers, callers'[b].got \in Numbers
         PROVE  callers'[b] = callers[b] /\ callers[b].call # n
    BY <1>11, <1>12, <1>18, NumbersApart
  <1>19. ASSUME NEW m \in Numbers, Done(m)' PROVE Done(m)
    BY <1>15, <1>17, <1>18, <1>19 DEF Done
  <1>20. ASSUME NEW m \in Numbers, Found(m)' PROVE Found(m) /\ log'[m].found = log[m].found
    BY <1>7, <1>17, <1>18, <1>20 DEF Found
  <1>21. SessionsAgree' /\ FindingsAgree'
    BY <1>9, <1>19, <1>20, SessionsKept, FindingsKept
  <1>22. QED
    BY <1>8, <1>13, <1>14, <1>16, <1>21 DEF StorageIInv

\* registry.acquire touches idle connections at most.
LEMMA CallStep ==
  ASSUME IInv, StorageIInv, NEW c \in Callers, NEW k \in Keys, NEW command \in Commands,
         Call(c, k, command)
  PROVE  StorageIInv'
  <1> DEFINE o == IF callers'[c].pc = "idle" THEN "failed" ELSE "pending"
  <1>1. Acquire(c, k) /\ Record(k, command, o) /\ UNCHANGED <<db, payload>>
    BY DEF Call
  <1>2. callers[c].pc = "idle" /\ calls \in 0..MaxCalls
    BY <1>1, Typed DEF IInv, Acquire, AcquireKnown, AcquireNew, AcquireByEviction,
                           AcquireRefused, At
  <1>3. ASSUME NEW p, Start(c, k, p)
        PROVE  /\ calls < MaxCalls /\ calls' = calls + 1
               /\ \A b \in Callers \ {c} : callers'[b] = callers[b]
               /\ callers'[c].pc = "slot" /\ callers'[c].call = calls + 1
               /\ callers'[c].got = Nothing
    <2> DEFINE r == [Resting EXCEPT !.pc = "slot", !.key = k, !.pool = p, !.attempt = 1,
                                    !.call = calls + 1]
    <2>1. r.pc = "slot" /\ r.call = calls + 1 /\ r.got = Nothing
      BY DEF Resting
    <2> HIDE DEF r
    <2>2. Goto(c, r) /\ calls < MaxCalls /\ calls' = calls + 1
      BY <1>3 DEF Start, r
    <2>3. \A b \in Callers : callers'[b] = IF b = c THEN r ELSE callers[b]
      BY <2>2, Typed, Regrouped DEF IInv
    <2>4. QED
      BY <2>1, <2>2, <2>3
  <1>4. /\ calls < MaxCalls /\ calls' = calls + 1
        /\ \A b \in Callers \ {c} : callers'[b] = callers[b]
        /\ \/ callers'[c] = callers[c]
           \/ callers'[c].pc = "slot" /\ callers'[c].call = calls + 1 /\ callers'[c].got = Nothing
    <2>1. CASE AcquireRefused(c, k)
      BY <2>1 DEF AcquireRefused
    <2>2. CASE \E p : Start(c, k, p)
      BY <1>3, <2>2
    <2>3. QED
      BY <1>1, <2>1, <2>2 DEF Acquire, AcquireKnown, AcquireNew, AcquireByEviction
  <1>5. /\ o \in {"pending", "failed"}
        /\ callers'[c].pc = "slot" => o = "pending"
    OBVIOUS
  <1>6. calls + 1 \in Numbers
    BY <1>2, <1>4, RedisClientAssumption DEF Numbers
  <1>7. conns' = conns \/ \E p \in Pools : conns' = CloseAll(IdleOf(p))
    <2>1. CASE AcquireByEviction(c, k)
      <3>1. PICK old \in Keys : /\ old \in Registered /\ conns' = CloseAll(IdleOf(registry[old].pool))
        BY <2>1 DEF AcquireByEviction, Oldest, Evictable
      <3>2. registry[old].pool \in Pools
        BY <3>1, Typed DEF IInv, Registered, RegistryAgrees, Entries
      <3>3. QED
        BY <3>1, <3>2
    <2>2. QED
      BY <1>1, <2>1 DEF Acquire, AcquireKnown, AcquireNew, AcquireRefused
  <1>8. /\ \A d \in Conns, m \in Numbers : Waits(conns'[d], m) => Waits(conns[d], m)
        /\ \A b \in Callers :
             callers[b].pc = "read" => conns'[callers[b].conn] = conns[callers[b].conn]
    <2>1. CASE conns' = conns
      BY <2>1
    <2>2. ASSUME NEW p \in Pools, conns' = CloseAll(IdleOf(p))
          PROVE  /\ \A d \in Conns, m \in Numbers : Waits(conns'[d], m) => Waits(conns[d], m)
                 /\ \A b \in Callers :
                      callers[b].pc = "read" => conns'[callers[b].conn] = conns[callers[b].conn]
      <3>1. \A b \in Callers : callers[b].conn \notin IdleOf(p)
        BY DEF IInv, IdleAgrees, IdleRight, IdleOf
      <3>2. \A b \in Callers : callers[b].pc = "read" => callers[b].conn \in Conns
        BY CallerFacts DEF Connected
      <3>3. QED
        BY <2>2, <3>1, <3>2, ClosingKeeps, Typed DEF IInv
    <2>3. QED
      BY <1>7, <2>1, <2>2
  <1> HIDE DEF o
  <1>9. QED
    BY <1>1, <1>2, <1>4, <1>5, <1>6, <1>8, Begins

---------------------------------------------------------------------------
(***************************************************************************)
(* The server                                                              *)
(***************************************************************************)
\* The server executes commands in the order in which they came.
LEMMA ServedWaits ==
  ASSUME conns \in [Conns -> ConnRecords], NEW d \in Conns, NEW kind \in Kinds, Serve(d, kind)
  PROVE  /\ Head(conns[d].inbox) \in Numbers /\ Waits(conns[d], Head(conns[d].inbox))
         /\ \A e \in Conns : e # d => conns'[e] = conns[e]
         /\ \A e \in Conns, n \in Numbers : Waits(conns'[e], n) => Waits(conns[e], n)
         /\ conns[d].open =>
              conns'[d].outbox = Append(conns[d].outbox, <<Head(conns[d].inbox), kind>>)
  <1> DEFINE in == conns[d].inbox
             served == [conns[d] EXCEPT !.inbox = Tail(in)]
             out == Append(conns[d].outbox, <<Head(in), kind>>)
             s == IF served.open THEN [served EXCEPT !.outbox = out] ELSE Closed(served)
  <1>1. /\ conns' = [conns EXCEPT ![d] = s] /\ in # <<>> /\ in \in Seq(Numbers)
        /\ conns[d] \in ConnRecords
    BY DEF Serve, ConnRecords
  <1>2. /\ Head(in) \in Numbers /\ Head(in) = in[1] /\ 1 \in DOMAIN in /\ Tail(in) \in Seq(Numbers)
        /\ \A n : (\E i \in DOMAIN Tail(in) : Tail(in)[i] = n) => \E i \in DOMAIN in : in[i] = n
    <2>1. Len(in) \in Nat /\ Len(in) >= 1 /\ DOMAIN in = 1..Len(in)
      BY <1>1
    <2>2. /\ Tail(in) \in Seq(Numbers) /\ Len(Tail(in)) = Len(in) - 1
          /\ \A i \in 1..Len(in) - 1 : Tail(in)[i] = in[i + 1]
      BY <1>1
    <2>3. \A i \in DOMAIN Tail(in) : i + 1 \in DOMAIN in /\ Tail(in)[i] = in[i + 1]
      BY <2>1, <2>2
    <2>4. QED
      BY <1>1, <2>1, <2>2, <2>3
  <1>3. served.open = conns[d].open /\ served.inbox = Tail(in)
    BY <1>1 DEF ConnRecords
  <1>4. served \in ConnRecords
    BY <1>1, <1>2 DEF ConnRecords
  <1>5. conns[d].open => s.inbox = Tail(in) /\ s.outbox = out
    <2> HIDE DEF served, out
    <2>1. QED
      BY <1>3, <1>4 DEF ConnRecords
  <1>6. ~conns[d].open => s.inbox = Tail(in) \/ s.inbox = <<>>
    <2> HIDE DEF served, out
    <2>1. QED
      BY <1>3, <1>4, Constants DEF Closed, ConnRecords
  <1> HIDE DEF s, served
  <1>7. \A e \in Conns : conns'[e] = IF e = d THEN s ELSE conns[e]
    BY <1>1
  <1>8. ASSUME NEW n \in Numbers, Waits(s, n) PROVE Waits(conns[d], n)
    <2>1. s.inbox # <<>>
      BY <1>8 DEF Waits
    <2>2. \E i \in DOMAIN Tail(in) : Tail(in)[i] = n
      BY <1>5, <1>6, <1>8, <2>1 DEF Waits
    <2>3. QED
      BY <1>2, <2>2 DEF Waits
  <1>9. QED
    BY <1>2, <1>5, <1>7, <1>8 DEF Waits

\* A reply reaches at most the caller that waits for it.
LEMMA ReplyReaches ==
  ASSUME IInv, NEW d \in Conns, NEW kind \in Kinds, Serve(d, kind),
         NEW b \in Callers, Answered(callers[b], conns')
  PROVE  \/ callers[b].conn # d /\ Answered(callers[b], conns)
         \/ /\ callers[b].conn = d /\ conns[d].open /\ kind = "value"
            /\ callers[b].call = Head(conns[d].inbox)
  <1> DEFINE in == conns[d].inbox
             n == callers[b].call
  <1>1. callers[b].pc = "read" /\ callers[b].conn \in Conns
    BY CallerFacts DEF Answered, Connected
  <1>2. CASE callers[b].conn # d
    BY <1>1, <1>2, ServedWaits, Typed DEF IInv, Answered
  <1>3. CASE callers[b].conn = d
    <2>1. Awaits(d, n) /\ conns[d].open /\ in # <<>>
      BY <1>1, <1>3, CallerFacts DEF Connected, Serve
    <2>2. in = <<n>> /\ conns[d].outbox = <<>>
      BY <2>1 DEF Awaits, Clean
    <2>3. conns'[d].outbox = Append(conns[d].outbox, <<Head(in), kind>>)
      BY <2>1, ServedWaits, Typed DEF IInv
    <2> HIDE DEF in
    <2>4. Head(in) = n
      BY <2>2
    <2>5. conns'[d].outbox = <<<<n, kind>>>>
      BY <2>2, <2>3, <2>4
    <2>6. conns'[d].outbox = <<<<n, "value">>>>
      BY <1>3 DEF Answered
    <2>7. QED
      BY <1>3, <2>1, <2>4, <2>5, <2>6 DEF in
  <1>4. QED
    BY <1>2, <1>3

\* What a command does to a session agrees with the commands before it and with itself.
LEMMA EffectAgrees ==
  ASSUME IInv, StorageIInv, NEW n \in Numbers, n <= calls, log[n].outcome # "clean",
         NEW k \in Keys, NEW id \in Ids
  PROVE  /\ Effect(n) \in [Keys -> [Ids -> Contents]]
         /\ StoredIn(log, k, id, Effect(n)[k][id])
         /\ \A m \in Numbers : Done(m) \/ m = n => Agrees(log, k, id, Effect(n)[k][id], m)
         /\ log[n].command.op = "get" => Effect(n) = db
  <1> DEFINE j == log[n].key
             i == log[n].command.id
             op == log[n].command.op
             before == db[k][id]
  <1>1. /\ j \in Keys /\ i \in Ids /\ op \in {"set", "get", "del"}
        /\ log[n].command = [op |-> op, id |-> i]
    <2>1. j \in Keys /\ log[n].command \in Commands
      BY DEF StorageIInv, LogAgrees
    <2>2. QED
      BY <2>1 DEF Commands
  <1>2. db \in [Keys -> [Ids -> Contents]] /\ n \in Contents /\ Missing \in Contents
    BY StorageTyped DEF StorageIInv, Contents
  <1>3. /\ \A x \in {"set", "get", "del"} : DoesIn(log, n, k, id, x) <=> k = j /\ id = i /\ op = x
        /\ \A m \in Numbers : ~OverIn(log, n, m)
    BY <1>1 DEF DoesIn, OverIn
  <1>4. /\ StoredIn(log, k, id, before)
        /\ \A m \in Numbers : Done(m) => Agrees(log, k, id, before, m)
    BY DEF StorageIInv, SessionsAgree
  <1>5. CASE op = "set"
    <2>1. Effect(n) = [db EXCEPT ![j][i] = n]
      BY <1>5 DEF Effect
    <2>2. Effect(n)[k][id] = IF k = j /\ id = i THEN n ELSE before
      BY <1>1, <1>2, <2>1
    <2>3. Effect(n) \in [Keys -> [Ids -> Contents]]
      BY <1>1, <1>2, <2>1
    <2>4. CASE k = j /\ id = i
      <3>1. Effect(n)[k][id] = n
        BY <2>2, <2>4
      <3>2. StoredIn(log, k, id, n) /\ \A m \in Numbers : Agrees(log, k, id, n, m)
        BY <1>3, <1>5, <2>4, NumbersApart DEF StoredIn, Agrees
      <3>3. QED
        BY <1>5, <2>3, <3>1, <3>2
    <2>5. CASE ~(k = j /\ id = i)
      <3>1. Effect(n)[k][id] = before
        BY <2>2, <2>5
      <3>2. Agrees(log, k, id, before, n)
        BY <1>3, <2>5 DEF Agrees
      <3>3. QED
        BY <1>4, <1>5, <2>3, <3>1, <3>2
    <2>6. QED
      BY <2>4, <2>5
  <1>6. CASE op = "del"
    <2>1. Effect(n) = [db EXCEPT ![j][i] = Missing]
      BY <1>6 DEF Effect
    <2>2. Effect(n)[k][id] = IF k = j /\ id = i THEN Missing ELSE before
      BY <1>1, <1>2, <2>1
    <2>3. Effect(n) \in [Keys -> [Ids -> Contents]]
      BY <1>1, <1>2, <2>1
    <2>4. CASE k = j /\ id = i
      <3>1. Effect(n)[k][id] = Missing
        BY <2>2, <2>4
      <3>2. StoredIn(log, k, id, Missing) /\ \A m \in Numbers : Agrees(log, k, id, Missing, m)
        BY <1>3, <1>6, <2>4, NumbersApart DEF StoredIn, Agrees
      <3>3. QED
        BY <1>6, <2>3, <3>1, <3>2
    <2>5. CASE ~(k = j /\ id = i)
      <3>1. Effect(n)[k][id] = before
        BY <2>2, <2>5
      <3>2. Agrees(log, k, id, before, n)
        BY <1>3, <2>5 DEF Agrees
      <3>3. QED
        BY <1>4, <1>6, <2>3, <3>1, <3>2
    <2>6. QED
      BY <2>4, <2>5
  <1>7. CASE op = "get"
    <2>1. Effect(n) = db
      BY <1>7 DEF Effect
    <2>2. Agrees(log, k, id, before, n)
      BY <1>3, <1>7 DEF Agrees
    <2>3. QED
      BY <1>2, <1>4, <2>1, <2>2
  <1>8. QED
    BY <1>1, <1>5, <1>6, <1>7

\* The server executes a command, also one whose caller has gone, or refuses to.
LEMMA ExecuteStep ==
  ASSUME IInv, StorageIInv, NEW d \in Conns, NEW kind \in Kinds, Execute(d, kind)
  PROVE  StorageIInv'
  <1> DEFINE n == Head(conns[d].inbox)
  <1>1. /\ Serve(d, kind) /\ UNCHANGED <<log, callers, calls>>
        /\ db' = IF kind = "value" THEN Effect(n) ELSE db
        /\ payload' = IF kind = "value" /\ log[n].command.op = "get" /\ conns[d].open
                      THEN [payload EXCEPT ![d] = db[log[n].key][log[n].command.id]] ELSE payload
    BY DEF Execute, Serve
  <1>2. n \in Numbers /\ Waits(conns[d], n)
        /\ \A e \in Conns, m \in Numbers : Waits(conns'[e], m) => Waits(conns[e], m)
    BY <1>1, ServedWaits, Typed DEF IInv
  <1>3. n <= calls /\ log[n].outcome # "clean"
    BY <1>2 DEF StorageIInv, CopiesAgree
  <1>4. log[n].key \in Keys /\ log[n].command \in Commands /\ log[n].outcome # "none"
    BY <1>2, <1>3 DEF StorageIInv, LogAgrees
  <1> HIDE DEF n
  <1>5. /\ log \in [Numbers -> LogRecords] /\ db \in [Keys -> [Ids -> Contents]]
        /\ payload \in [Conns -> Contents]
    BY StorageTyped DEF StorageIInv
  <1>6. db' \in [Keys -> [Ids -> Contents]]
    <2>1. Effect(n) \in [Keys -> [Ids -> Contents]]
      <3>1. CASE Ids = {}
        BY <1>4, <3>1 DEF Commands
      <3>2. CASE Ids # {}
        BY <1>2, <1>3, <1>4, <3>2, EffectAgrees
      <3>3. QED
        BY <3>1, <3>2
    <2>2. QED
      BY <1>1, <1>5, <2>1
  <1>7. StorageTypeOK'
    <2>1. log[n].command.id \in Ids
      BY <1>4 DEF Commands
    <2>2. db[log[n].key][log[n].command.id] \in Contents
      BY <1>4, <1>5, <2>1
    <2>3. payload' \in [Conns -> Contents]
      BY <1>1, <1>5, <2>2
    <2>4. QED
      BY <1>1, <1>5, <1>6, <2>3, StorageTypedNext
  <1>8. Grows(log, log')
    BY <1>1 DEF Grows
  <1>9. LogAgrees'
    BY <1>1 DEF StorageIInv, LogAgrees, Returned
  <1>10. CopiesAgree'
    BY <1>1, <1>2 DEF StorageIInv, CopiesAgree
  <1>11. ASSUME NEW b \in Callers, Answered(callers[b], conns')
         PROVE  \/ callers[b].conn # d /\ Answered(callers[b], conns)
                \/ /\ callers[b].conn = d /\ conns[d].open /\ kind = "value"
                   /\ callers[b].call = n
    BY <1>1, <1>11, ReplyReaches DEF n
  <1>12. ASSUME NEW m \in Numbers, Done(m)' PROVE Done(m) \/ (m = n /\ kind = "value")
    BY <1>1, <1>11, <1>12 DEF Done
  <1>13. SessionsAgree'
    <2>1. CASE kind = "value"
      <3>1. ASSUME NEW k \in Keys, NEW id \in Ids
            PROVE  /\ StoredIn(log, k, id, Effect(n)[k][id])
                   /\ \A m \in Numbers : Done(m) \/ m = n => Agrees(log, k, id, Effect(n)[k][id], m)
        BY <1>2, <1>3, EffectAgrees
      <3>2. QED
        BY <1>1, <1>12, <2>1, <3>1 DEF SessionsAgree
    <2>2. CASE kind # "value"
      BY <1>1, <1>8, <1>12, <2>2, SessionsKept
    <2>3. QED
      BY <2>1, <2>2
  <1>14. AnswersAgree'
    <2>1. ASSUME NEW b \in Callers, Answered(callers[b], conns')
          PROVE  Explained(log, callers[b].call, payload'[callers[b].conn])
      <3>1. CASE callers[b].conn # d /\ Answered(callers[b], conns)
        <4>1. callers[b].conn \in Conns
          BY <3>1, CallerFacts DEF Answered, Connected
        <4>2. payload'[callers[b].conn] = payload[callers[b].conn]
          BY <1>1, <1>5, <3>1, <4>1
        <4>3. QED
          BY <3>1, <4>2 DEF StorageIInv, AnswersAgree
      <3>2. CASE callers[b].conn = d /\ conns[d].open /\ kind = "value" /\ callers[b].call = n
        <4> SUFFICES ASSUME NEW k \in Keys, NEW id \in Ids, DoesIn(log, n, k, id, "get")
                     PROVE  /\ StoredIn(log, k, id, payload'[d])
                            /\ \A m \in log[n].earlier :
                                 SucceededIn(log, m) => Agrees(log, k, id, payload'[d], m)
          BY <3>2 DEF Explained
        <4>1. log[n].key = k /\ log[n].command.id = id /\ log[n].command.op = "get"
          BY DEF DoesIn
        <4>2. payload'[d] = db[k][id]
          BY <1>1, <1>5, <3>2, <4>1
        <4>3. log[n].earlier \subseteq Numbers
          BY <1>2, <1>5 DEF LogRecords
        <4>4. \A m \in Numbers : SucceededIn(log, m) => Done(m)
          BY DEF Done
        <4>5. QED
          BY <4>2, <4>3, <4>4 DEF StorageIInv, SessionsAgree
      <3>3. QED
        BY <1>11, <2>1, <3>1, <3>2
    <2>2. QED
      BY <1>1, <2>1 DEF AnswersAgree
  <1>15. FindingsAgree'
    BY <1>1, <1>8, FindingsKept DEF Found
  <1>16. QED
    BY <1>7, <1>9, <1>10, <1>13, <1>14, <1>15 DEF StorageIInv

\* A connection that is dropped takes with it what the server has not executed.
LEMMA DropKeeps ==
  ASSUME IInv, StorageIInv, NEW d \in Conns, Drop(d), UNCHANGED storageVars
  PROVE  StorageIInv'
  <1> DEFINE s == IF conns[d].open THEN [conns[d] EXCEPT !.up = FALSE, !.inbox = <<>>]
                                   ELSE NoConnection
  <1>1. /\ conns' = [conns EXCEPT ![d] = s] /\ UNCHANGED <<callers, calls, db, log, payload>>
        /\ conns[d] \in ConnRecords
    BY Typed DEF Drop, storageVars, IInv
  <1>2. s.inbox = <<>> /\ (conns[d].open => s.outbox = conns[d].outbox)
    BY <1>1, Constants DEF ConnRecords
  <1> HIDE DEF s
  <1>3. \A e \in Conns : conns'[e] = IF e = d THEN s ELSE conns[e]
    BY <1>1, Typed DEF IInv
  <1>4. \A e \in Conns, m \in Numbers : Waits(conns'[e], m) => Waits(conns[e], m)
    BY <1>2, <1>3 DEF Waits
  <1>5. ASSUME NEW b \in Callers, Answered(callers[b], conns') PROVE Answered(callers[b], conns)
    <2>1. callers[b].conn \in Conns /\ conns[callers[b].conn].open
      BY <1>5, CallerFacts DEF Answered, Connected
    <2>2. QED
      BY <1>2, <1>3, <1>5, <2>1 DEF Answered
  <1>6. Grows(log, log')
    BY <1>1 DEF Grows
  <1>7. StorageTypeOK'
    BY <1>1, StorageTyped, StorageTypedNext DEF StorageIInv
  <1>8. LogAgrees' /\ CopiesAgree'
    BY <1>1, <1>4 DEF StorageIInv, LogAgrees, Returned, CopiesAgree
  <1>9. AnswersAgree'
    BY <1>1, <1>5, <1>6, AnswersKept
  <1>10. \A m \in Numbers : (Done(m)' => Done(m)) /\ (Found(m)' => Found(m))
    BY <1>1, <1>5 DEF Done, Found
  <1>11. SessionsAgree' /\ FindingsAgree'
    BY <1>1, <1>6, <1>10, SessionsKept, FindingsKept
  <1>12. QED
    BY <1>7, <1>8, <1>9, <1>11 DEF StorageIInv

\* A session that expires is neither stored nor missing.
LEMMA ExpireStep ==
  ASSUME IInv, StorageIInv, NEW k \in Keys, NEW id \in Ids, Expire(k, id)
  PROVE  StorageIInv'
  <1>1. /\ db' = [db EXCEPT ![k][id] = Expired]
        /\ UNCHANGED <<callers, calls, conns, log, payload>>
    BY DEF Expire, vars
  <1>2. db \in [Keys -> [Ids -> Contents]] /\ Expired \in Contents
    BY StorageTyped DEF StorageIInv, Contents
  <1>3. StorageTypeOK'
    <2>1. db' \in [Keys -> [Ids -> Contents]]
      BY <1>1, <1>2
    <2>2. QED
      BY <1>1, <2>1, StorageTyped, StorageTypedNext DEF StorageIInv
  <1>4. LogAgrees' /\ CopiesAgree' /\ AnswersAgree' /\ FindingsAgree'
    BY <1>1 DEF StorageIInv, LogAgrees, Returned, CopiesAgree, AnswersAgree, FindingsAgree,
                Found, Answered
  <1>5. \A m \in Numbers : Done(m)' => Done(m)
    BY <1>1 DEF Done, Answered
  <1>6. ASSUME NEW j \in Keys, NEW i \in Ids
        PROVE  db'[j][i] = IF j = k /\ i = id THEN Expired ELSE db[j][i]
    BY <1>1, <1>2
  <1>7. SessionsAgree'
    <2>1. ASSUME NEW j \in Keys, NEW i \in Ids
          PROVE  /\ StoredIn(log, j, i, db'[j][i])
                 /\ \A m \in Numbers : Done(m) => Agrees(log, j, i, db'[j][i], m)
      <3>1. CASE j = k /\ i = id
        BY <1>6, <3>1, NumbersApart DEF StoredIn, Agrees
      <3>2. CASE ~(j = k /\ i = id)
        BY <1>6, <3>2 DEF StorageIInv, SessionsAgree
      <3>3. QED
        BY <3>1, <3>2
    <2>2. QED
      BY <1>1, <1>5, <2>1 DEF SessionsAgree
  <1>8. QED
    BY <1>3, <1>4, <1>7 DEF StorageIInv

---------------------------------------------------------------------------
(***************************************************************************)
(* Invariance                                                              *)
(***************************************************************************)
\* A step of the storage is one of the client, or leaves the client alone.
LEMMA StorageImplementsClient == [StorageNext]_allVars => [Next]_vars
  <1> SUFFICES ASSUME [StorageNext]_allVars PROVE [Next]_vars
    OBVIOUS
  <1>1. ASSUME NEW c \in Callers, StorageProceed(c) PROVE Next
    BY <1>1 DEF StorageProceed, ClientStep, Receive, Return, Next, Proceed
  <1>2. ASSUME NEW c \in Callers, NEW k \in Keys, NEW command \in Commands, Call(c, k, command)
        PROVE  Next
    BY <1>2 DEF Call, Next
  <1>3. ASSUME NEW d \in Conns, Drop(d) \/ \E kind \in {"value", "error"} : Execute(d, kind)
        PROVE  Next
    BY <1>3 DEF Execute, Next
  <1>4. ASSUME NEW k \in Keys, NEW id \in Ids, Expire(k, id) PROVE UNCHANGED vars
    BY <1>4 DEF Expire
  <1>5. UNCHANGED allVars => UNCHANGED vars
    BY DEF allVars, vars
  <1>6. Finished => Next
    BY DEF Next
  <1>7. QED
    BY <1>1, <1>2, <1>3, <1>4, <1>5, <1>6 DEF StorageNext

\* No session, no copy and no call before the first one.
LEMMA StorageStart == StorageInit => IInv /\ StorageIInv
  <1> SUFFICES ASSUME StorageInit PROVE IInv /\ StorageIInv
    OBVIOUS
  <1>1. IInv
    BY InitIInv DEF StorageInit
  <1>2. /\ \A k \in Keys, id \in Ids : db[k][id] = Missing
        /\ \A n \in Numbers : log[n] = Unused
        /\ \A d \in Conns : conns[d] = NoConnection
        /\ \A c \in Callers : callers[c] = Resting
        /\ calls = 0
    BY DEF StorageInit, Init
  <1>3. StorageTypeOK
    <2>1. Missing \in Contents
      BY DEF Contents
    <2>2. QED
      BY <2>1, UnusedFields, StorageTyped DEF StorageInit
  <1>4. LogAgrees
    BY <1>2, UnusedFields, Rests, NumbersApart DEF LogAgrees, Numbers
  <1>5. CopiesAgree
    BY <1>2, Constants DEF CopiesAgree, Waits
  <1>6. \A n \in Numbers : ~Done(n) /\ ~Found(n)
    BY <1>2, UnusedFields, Rests, NumbersApart DEF Done, Found, SucceededIn, Answered
  <1>7. SessionsAgree /\ FindingsAgree
    BY <1>2, <1>6, NumbersApart DEF SessionsAgree, FindingsAgree, StoredIn
  <1>8. AnswersAgree
    BY <1>2, Rests DEF AnswersAgree, Answered
  <1>9. QED
    BY <1>1, <1>3, <1>4, <1>5, <1>7, <1>8 DEF StorageIInv

\* Every step of the storage keeps both invariants.
LEMMA StorageSteps == IInv /\ StorageIInv /\ [StorageNext]_allVars => IInv' /\ StorageIInv'
  <1> SUFFICES ASSUME IInv, StorageIInv, [StorageNext]_allVars PROVE IInv' /\ StorageIInv'
    OBVIOUS
  <1>1. IInv'
    BY NextIInv, StorageImplementsClient
  <1>2. ASSUME NEW c \in Callers, StorageProceed(c) PROVE StorageIInv'
    BY <1>2, ClientStepKeeps, ReceiveStep, ReturnStep DEF StorageProceed
  <1>3. ASSUME NEW c \in Callers, NEW k \in Keys, NEW command \in Commands, Call(c, k, command)
        PROVE  StorageIInv'
    BY <1>3, CallStep
  <1>4. ASSUME NEW d \in Conns, Drop(d), UNCHANGED storageVars PROVE StorageIInv'
    BY <1>4, DropKeeps
  <1>5. ASSUME NEW d \in Conns, NEW kind \in {"value", "error"}, Execute(d, kind)
        PROVE  StorageIInv'
    BY <1>5, ExecuteStep DEF Kinds
  <1>6. ASSUME NEW k \in Keys, NEW id \in Ids, Expire(k, id) PROVE StorageIInv'
    BY <1>6, ExpireStep
  <1>7. CASE UNCHANGED allVars
    <2>1. UNCHANGED <<calls, conns, callers, db, payload, log>>
      BY <1>7 DEF allVars
    <2>2. StorageTypeOK' /\ LogAgrees' /\ CopiesAgree'
      BY <2>1 DEF StorageIInv, StorageTypeOK, LogAgrees, Returned, CopiesAgree
    <2>3. SessionsAgree' /\ AnswersAgree' /\ FindingsAgree'
      BY <2>1 DEF StorageIInv, SessionsAgree, Done, AnswersAgree, FindingsAgree, Found, Answered
    <2>4. QED
      BY <1>1, <2>2, <2>3 DEF StorageIInv
  <1>8. Finished /\ UNCHANGED storageVars => UNCHANGED allVars
    BY DEF Finished, storageVars, vars, allVars
  <1>9. QED
    BY <1>1, <1>2, <1>3, <1>4, <1>5, <1>6, <1>7, <1>8 DEF StorageNext

\* Both invariants hold in every reachable state of the storage.
THEOREM StorageInvariance == StorageSpec => [](IInv /\ StorageIInv)
  BY StorageStart, StorageSteps, PTL DEF StorageSpec

\* The storage runs the client of RedisClient: whatever that promises holds below it.
THEOREM StorageRunsClient == StorageSpec => Spec
  <1>1. StorageInit => Init
    BY DEF StorageInit
  <1>2. QED
    BY <1>1, StorageImplementsClient, PTL DEF StorageSpec, Spec

\* Sessions, replies and log have the values of their types.
THEOREM StorageTypeCorrect == StorageSpec => []StorageTypeOK
  <1>1. StorageIInv => StorageTypeOK
    BY DEF StorageIInv
  <1>2. QED
    BY <1>1, StorageInvariance, PTL

\* For any number of callers and calls: what the server has of a session that was deleted
\* was stored by a call that the delete did not find over.
THEOREM DeletesAreFinal == StorageSpec => []DeletedStaysDeleted
  <1>1. ASSUME StorageIInv PROVE DeletedStaysDeleted
    <2> SUFFICES ASSUME NEW k \in Keys, NEW id \in Ids, NEW n \in Numbers,
                        Does(n, k, id, "del"), Succeeded(n), db[k][id] \in Numbers
                 PROVE  ~OverBefore(db[k][id], n)
      BY DEF DeletedStaysDeleted
    <2>1. Done(n) /\ DoesIn(log, n, k, id, "del")
      BY DEF Done, SucceededIn, Succeeded, Does, DoesIn
    <2>2. Agrees(log, k, id, db[k][id], n)
      BY <1>1, <2>1 DEF StorageIInv, SessionsAgree
    <2>3. QED
      BY <2>1, <2>2 DEF Agrees, OverIn, OverBefore
  <1>2. QED
    BY <1>1, StorageInvariance, PTL

\* For any number of callers and calls: a lookup finds what was stored under its id and no call
\* before it has replaced or deleted.
THEOREM LookupsAreCurrent == StorageSpec => []FoundIsCurrent
  <1>1. ASSUME StorageIInv PROVE FoundIsCurrent
    <2> SUFFICES ASSUME NEW k \in Keys, NEW id \in Ids, NEW n \in Numbers,
                        Does(n, k, id, "get"), Succeeded(n), log[n].found \in Numbers
                 PROVE  /\ Does(log[n].found, k, id, "set")
                        /\ \A m \in log[n].earlier :
                             Succeeded(m) /\ (Does(m, k, id, "set") \/ Does(m, k, id, "del")) =>
                               ~OverBefore(log[n].found, m)
      BY DEF FoundIsCurrent
    <2>1. Found(n) /\ DoesIn(log, n, k, id, "get")
      BY DEF Found, SucceededIn, Succeeded, Does, DoesIn
    <2>2. /\ StoredIn(log, k, id, log[n].found)
          /\ \A m \in log[n].earlier :
               SucceededIn(log, m) => Agrees(log, k, id, log[n].found, m)
      BY <1>1, <2>1 DEF StorageIInv, FindingsAgree, Explained
    <2>3. Does(log[n].found, k, id, "set")
      BY <2>2 DEF StoredIn, Does, DoesIn
    <2>4. ASSUME NEW m \in log[n].earlier, Succeeded(m), Does(m, k, id, "set") \/ Does(m, k, id, "del")
          PROVE  ~OverBefore(log[n].found, m)
      <3>1. Agrees(log, k, id, log[n].found, m)
        BY <2>2, <2>4 DEF Succeeded, SucceededIn
      <3>2. QED
        BY <2>4, <3>1 DEF Agrees, OverIn, OverBefore, Does, DoesIn
    <2>5. QED
      BY <2>3, <2>4
  <1>2. QED
    BY <1>1, StorageInvariance, PTL

\* For any number of callers and calls: a session whose store has succeeded is missing only
\* after it expired or a delete that was not over before.
THEOREM StoresAreFound == StorageSpec => []StoredIsFound
  <1>1. ASSUME StorageIInv PROVE StoredIsFound
    <2> SUFFICES ASSUME NEW k \in Keys, NEW id \in Ids, NEW n \in Numbers,
                        Does(n, k, id, "get"), Succeeded(n), log[n].found = Missing,
                        NEW m \in log[n].earlier, Does(m, k, id, "set"), Succeeded(m)
                 PROVE  \E l \in Numbers : Does(l, k, id, "del") /\ ~OverBefore(l, m)
      BY DEF StoredIsFound
    <2>1. Found(n) /\ DoesIn(log, n, k, id, "get") /\ SucceededIn(log, m)
      BY DEF Found, SucceededIn, Succeeded, Does, DoesIn
    <2>2. Agrees(log, k, id, log[n].found, m)
      BY <1>1, <2>1 DEF StorageIInv, FindingsAgree, Explained
    <2>3. QED
      BY <2>2 DEF Agrees, OverIn, OverBefore, Does, DoesIn
  <1>2. QED
    BY <1>1, StorageInvariance, PTL

=============================================================================
