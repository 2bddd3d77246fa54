------------------------ MODULE RedisSessionStorage ------------------------
(***************************************************************************)
(* RedisSessionStorage (src/src/session/redisSessionStorage.go) on top of   *)
(* the Redis client: StoreSession, TryGetSession and DeleteSession are the  *)
(* commands SET EX, GET and DEL, which the client may send twice and the    *)
(* server may execute after the client has given up.  A session's content   *)
(* is the number of the call that stored it.  Ids are well-formed UUIDs:    *)
(* any other ticket is refused before a command is sent.                    *)
(***************************************************************************)
EXTENDS RedisClient

CONSTANTS Ids

VARIABLES db,       \* the sessions each server has
          payload,  \* the content of the reply on a connection
          log       \* what each call asks and, history, how it went

storageVars == <<db, payload, log>>
allVars == <<registry, recency, pools, conns, callers, calls, db, payload, log>>

\* Both read as nil.
Missing == 0
Expired == -1

Commands == [op : {"set", "get", "del"}, id : Ids]

\* earlier: the calls that had returned when this one began.
Unused == [key |-> None, command |-> None, earlier |-> {}, outcome |-> "none", found |-> Missing]

StorageTypeOK ==
  /\ db \in [Keys -> [Ids -> {Missing, Expired} \cup Numbers]]
  /\ payload \in [Conns -> {Missing, Expired} \cup Numbers]
  /\ log \in [Numbers -> [key : Keys \cup {None}, command : Commands \cup {None},
                          earlier : SUBSET Numbers,
                          outcome : {"none", "pending", "clean", "retried", "failed"},
                          found : {Missing, Expired} \cup Numbers]]

Returned == {n \in Numbers : log[n].outcome \in {"clean", "retried", "failed"}}

Record(k, command, outcome) ==
  log' = [log EXCEPT ![calls + 1] = [key |-> k, command |-> command, earlier |-> Returned,
                                     outcome |-> outcome, found |-> Missing]]

\* StoreSession, TryGetSession or DeleteSession is called; without a pool it fails at once.
Call(c, k, command) ==
  /\ Acquire(c, k)
  /\ Record(k, command, IF callers'[c].pc = "idle" THEN "failed" ELSE "pending")
  /\ UNCHANGED <<db, payload>>

\* Fault: SET does not replace the session that is there.
Effect_Fault(n) ==
  LET k == log[n].key
      id == log[n].command.id
  IN  CASE log[n].command.op = "set" /\ db[k][id] \notin Numbers -> [db EXCEPT ![k][id] = n]
        [] log[n].command.op = "del" -> [db EXCEPT ![k][id] = Missing]
        [] OTHER -> db

\* Fault: DEL is sent without the key's prefix and finds nothing.
EffectDelete_Fault(n) ==
  IF log[n].command.op = "set" THEN [db EXCEPT ![log[n].key][log[n].command.id] = n] ELSE db

\* The sessions after command n has been executed.
Effect(n) ==
  LET k == log[n].key
      id == log[n].command.id
  IN  CASE log[n].command.op = "set" -> [db EXCEPT ![k][id] = n]
        [] log[n].command.op = "del" -> [db EXCEPT ![k][id] = Missing]
        [] OTHER -> db

\* The server executes the next command of a connection, or answers with an error.
Execute(d, kind) ==
  LET n == Head(conns[d].inbox) IN
  /\ Serve(d, kind)
  /\ db' = IF kind = "value" THEN Effect(n) ELSE db
  /\ payload' = IF kind = "value" /\ log[n].command.op = "get" /\ conns[d].open
                THEN [payload EXCEPT ![d] = db[log[n].key][log[n].command.id]] ELSE payload
  /\ UNCHANGED log

\* EX: the session's lifetime is over.
Expire(k, id) ==
  /\ db[k][id] \in Numbers
  /\ db' = [db EXCEPT ![k][id] = Expired]
  /\ UNCHANGED <<vars, payload, log>>

\* Fault: whatever was received is decoded as a session.
Receive_Fault(c) ==
  /\ Read(c)
  /\ log' = [log EXCEPT ![callers[c].call].found = callers'[c].got]
  /\ payload' = [payload EXCEPT ![callers[c].conn] = Missing]
  /\ UNCHANGED db

Receive(c) ==
  /\ Read(c)
  /\ log' = [log EXCEPT ![callers[c].call].found = payload[callers[c].conn]]
  /\ payload' = [payload EXCEPT ![callers[c].conn] = Missing]
  /\ UNCHANGED db

Return(c) ==
  /\ Release(c)
  /\ log' = [log EXCEPT ![callers[c].call].outcome =
               IF callers[c].got \notin Numbers THEN "failed"
               ELSE IF callers[c].attempt = 1 THEN "clean" ELSE "retried"]
  /\ UNCHANGED <<db, payload>>

StorageInit ==
  /\ Init
  /\ db = [k \in Keys |-> [id \in Ids |-> Missing]]
  /\ payload = [d \in Conns |-> Missing]
  /\ log = [n \in Numbers |-> Unused]

\* What was on its way is lost with a connection.
ClientStep(c) ==
  /\ \/ TakeSlot(c) \/ SlotTimeout(c)
     \/ PopIdle(c) \/ PopNothing(c) \/ Dial(c) \/ DialFails(c)
     \/ Write(c) \/ CommandFails(c)
     \/ Put(c) \/ Free(c)
  /\ payload' = [d \in Conns |-> IF conns'[d].open THEN payload[d] ELSE Missing]
  /\ UNCHANGED <<db, log>>

StorageProceed(c) == ClientStep(c) \/ Receive(c) \/ Return(c)

StorageNext ==
  \/ \E c \in Callers : StorageProceed(c)
  \/ \E c \in Callers, k \in Keys, command \in Commands : Call(c, k, command)
  \/ \E d \in Conns : \/ Drop(d) /\ UNCHANGED storageVars
                      \/ \E kind \in {"value", "error"} : Execute(d, kind)
  \/ \E k \in Keys, id \in Ids : Expire(k, id)
  \/ Finished /\ UNCHANGED storageVars

StorageSpec == StorageInit /\ [][StorageNext]_allVars

(***************************************************************************)
(* Properties                                                              *)
(***************************************************************************)
Succeeded(n) == log[n].outcome \in {"clean", "retried"}

\* Call n is about session id of configuration k, and does op.
Does(n, k, id, op) == log[n].key = k /\ log[n].command = [op |-> op, id |-> id]

\* The server may execute call n until it returns; a retried or failed call may
\* have left a copy that is executed later still.
OverBefore(n, m) == n \in log[m].earlier /\ log[n].outcome = "clean"

\* A session that was deleted stays deleted: what the server has of it was stored by a
\* call that overlaps the delete, that is later, or that was sent more than once
\* or has failed.
DeletedStaysDeleted ==
  \A k \in Keys, id \in Ids, n \in Numbers :
    Does(n, k, id, "del") /\ Succeeded(n) /\ db[k][id] \in Numbers =>
      ~OverBefore(db[k][id], n)

\* A lookup that finds a session finds one that was stored under its id, in its
\* configuration, and that no later call has stored anew or deleted.
FoundIsCurrent ==
  \A k \in Keys, id \in Ids, n \in Numbers :
    Does(n, k, id, "get") /\ Succeeded(n) /\ log[n].found \in Numbers =>
      /\ Does(log[n].found, k, id, "set")
      /\ \A m \in log[n].earlier :
           Succeeded(m) /\ (Does(m, k, id, "set") \/ Does(m, k, id, "del")) =>
             ~OverBefore(log[n].found, m)

\* A session whose store has succeeded is not missing until it expires or a
\* delete drops it that was not over before.
StoredIsFound ==
  \A k \in Keys, id \in Ids, n \in Numbers :
    Does(n, k, id, "get") /\ Succeeded(n) /\ log[n].found = Missing =>
      \A m \in log[n].earlier :
        Does(m, k, id, "set") /\ Succeeded(m) =>
          \E l \in Numbers : Does(l, k, id, "del") /\ ~OverBefore(l, m)

=============================================================================
