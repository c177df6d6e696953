---------------------------- MODULE PostgresRepo ----------------------------
(***************************************************************************)
(* The Postgres adapter of the EntityRepo port (repo/postgres): several    *)
(* replicas of the service, each with one PostgresConnectionManager and    *)
(* several handler threads, over one database.  A manager has a single     *)
(* connection behind a mutex, throws it away when libpqxx says that it is  *)
(* broken and repeats the operation on a new one.                          *)
(*                                                                         *)
(* Modelled from how the code uses them: libpqxx (broken_connection when   *)
(* a transaction is begun or a statement is run on a lost connection,      *)
(* in_doubt_error when the connection is lost around COMMIT), the retry    *)
(* and exception-mapping request hooks, and the server.                    *)
(***************************************************************************)
EXTENDS Naturals

CONSTANTS
  Managers,       \* the connection managers, one per replica
  Threads,        \* the handler threads of all replicas
  ManagerOf,      \* the manager each thread works with
  Ids, Values, Absent, NoRequest,
  NoThread,       \* a mutex that nobody holds
  MaxRetryCount   \* retries of one call (repo-postgres.h has 3)

Requests ==
  [op: {"store"}, id: Ids, value: Values]
    \cup [op: {"retrieve"}, id: Ids, value: {Absent}]

ASSUME ConstantsAssumption ==
  /\ ManagerOf \in [Threads -> Managers]
  /\ MaxRetryCount \in Nat
  /\ NoThread \notin Threads
  /\ NoRequest \notin Requests

VARIABLES
  connection,   \* _connection of each manager, "down" when there is no process
  mutex,        \* holder of _mutex
  table,        \* entity.entity as committed
  pc,           \* where each thread is in WithConnection
  request,      \* the port call it is in
  answer,       \* entity_opt of Retrieve
  retries,      \* retries done in this call
  orphan,       \* a COMMIT sent on a connection that was then lost
  faulted       \* history: has the database or the network failed this call?

vars == <<connection, mutex, table, pc, request, answer, retries, orphan, faulted>>

Inside == {"locked", "executed", "committed", "selected"}   \* holding _mutex
Outcomes == {"done", "failed"}

\* The types of the variables; the retries of a call stay within their limit.
TypeOK ==
  /\ connection \in [Managers -> {"down", "null", "open", "dead"}]
  /\ mutex \in [Managers -> Threads \cup {NoThread}]
  /\ table \in [Ids -> Values \cup {Absent}]
  /\ pc \in [Threads -> {"idle", "locking", "backoff"} \cup Inside \cup Outcomes]
  /\ request \in [Threads -> Requests \cup {NoRequest}]
  /\ answer \in [Threads -> Values \cup {Absent}]
  /\ retries \in [Threads -> 0..MaxRetryCount]
  /\ orphan \in [Threads -> Requests \cup {NoRequest}]
  /\ faulted \in [Threads -> BOOLEAN]

Connection(t) == connection[ManagerOf[t]]
ThreadsOf(m)  == {t \in Threads : ManagerOf[t] = m}
Active(t)     == pc[t] # "idle"

Init ==
  /\ connection = [m \in Managers |-> "down"]
  /\ mutex = [m \in Managers |-> NoThread]
  /\ table = [i \in Ids |-> Absent]
  /\ pc = [t \in Threads |-> "idle"]
  /\ request = [t \in Threads |-> NoRequest]
  /\ answer = [t \in Threads |-> Absent]
  /\ retries = [t \in Threads |-> 0]
  /\ orphan = [t \in Threads |-> NoRequest]
  /\ faulted = [t \in Threads |-> FALSE]

-----------------------------------------------------------------------------
(* The process of a replica. *)

\* The constructor connects once; when it is refused the process ends, which
\* leaves the manager down.
Start(m) ==
  /\ connection[m] = "down"
  /\ connection' = [connection EXCEPT ![m] = "open"]
  /\ UNCHANGED <<mutex, table, pc, request, answer, retries, orphan, faulted>>

\* A COMMIT on the wire outlives the process that sent it.
Orphan(D) ==
  /\ \A t \in D : /\ pc[t] = "executed"
                  /\ orphan[t] = NoRequest
  /\ orphan' = [t \in Threads |-> IF t \in D THEN request[t] ELSE orphan[t]]

Crash(m) ==
  /\ connection[m] # "down"
  /\ connection' = [connection EXCEPT ![m] = "down"]
  /\ mutex' = [mutex EXCEPT ![m] = NoThread]
  /\ pc' = [t \in Threads |-> IF ManagerOf[t] = m THEN "idle" ELSE pc[t]]
  /\ request' = [t \in Threads |-> IF ManagerOf[t] = m THEN NoRequest ELSE request[t]]
  /\ answer' = [t \in Threads |-> IF ManagerOf[t] = m THEN Absent ELSE answer[t]]
  /\ retries' = [t \in Threads |-> IF ManagerOf[t] = m THEN 0 ELSE retries[t]]
  /\ faulted' = [t \in Threads |-> IF ManagerOf[t] = m THEN FALSE ELSE faulted[t]]
  /\ \E D \in SUBSET ThreadsOf(m) : Orphan(D)
  /\ UNCHANGED table

-----------------------------------------------------------------------------
(* The database and the network. *)

\* The server closes the connection, or the network loses it: nobody notices
\* before the connection is used.
LoseConnection(m) ==
  /\ connection[m] = "open"
  /\ connection' = [connection EXCEPT ![m] = "dead"]
  /\ faulted' = [t \in Threads |-> faulted[t] \/ (ManagerOf[t] = m /\ Active(t))]
  /\ UNCHANGED <<mutex, table, pc, request, answer, retries, orphan>>

\* The server reaches a COMMIT whose client is gone, or never does.
Settle(t) ==
  /\ orphan[t] # NoRequest
  /\ orphan' = [orphan EXCEPT ![t] = NoRequest]
  /\ table' \in {table, [table EXCEPT ![orphan[t].id] = orphan[t].value]}
  /\ UNCHANGED <<connection, mutex, pc, request, answer, retries, faulted>>

-----------------------------------------------------------------------------
(* A call of Store or Retrieve. *)

WithConnection(t, r) ==
  /\ pc[t] = "idle"
  /\ Connection(t) # "down"
  /\ pc' = [pc EXCEPT ![t] = "locking"]
  /\ request' = [request EXCEPT ![t] = r]
  /\ UNCHANGED <<connection, mutex, table, answer, retries, orphan, faulted>>

MayLockAlways(t) == TRUE   \* mutant: no lock taken
MayLock(t) == mutex[ManagerOf[t]] = NoThread

Lock(t) ==
  /\ pc[t] = "locking"
  /\ MayLock(t)
  /\ mutex' = [mutex EXCEPT ![ManagerOf[t]] = t]
  /\ pc' = [pc EXCEPT ![t] = "locked"]
  /\ UNCHANGED <<connection, table, request, answer, retries, orphan, faulted>>

CreateConnection(t) ==
  /\ pc[t] = "locked"
  /\ Connection(t) = "null"
  /\ connection' = [connection EXCEPT ![ManagerOf[t]] = "open"]
  /\ UNCHANGED <<mutex, table, pc, request, answer, retries, orphan, faulted>>

Unlock(t) == [mutex EXCEPT ![ManagerOf[t]] = NoThread]

AfterBrokenKept == "dead"                      \* mutant: connection not reset
AfterBroken == "null"                          \* _connection = nullptr
MayRetryOnceMore(t) == retries[t] <= MaxRetryCount   \* mutant
MayRetry(t) == retries[t] < MaxRetryCount

\* mutant: the mutex is not released when the operation throws
BrokenKeepsMutex(t) ==
  /\ connection' = [connection EXCEPT ![ManagerOf[t]] = AfterBroken]
  /\ pc' = [pc EXCEPT ![t] = IF MayRetry(t) THEN "backoff" ELSE "failed"]
  /\ UNCHANGED <<mutex, table, request, answer, retries, orphan>>

\* broken_connection: caught under the mutex, then mapped to UNAVAILABLE, which
\* the retry hook repeats after a pause until the retries are used up.
Broken(t) ==
  /\ connection' = [connection EXCEPT ![ManagerOf[t]] = AfterBroken]
  /\ mutex' = Unlock(t)
  /\ pc' = [pc EXCEPT ![t] = IF MayRetry(t) THEN "backoff" ELSE "failed"]
  /\ UNCHANGED <<table, request, answer, retries, orphan>>

ConnectionRefused(t) ==
  /\ pc[t] = "locked"
  /\ Connection(t) = "null"
  /\ faulted' = [faulted EXCEPT ![t] = TRUE]
  /\ Broken(t)

\* Beginning the transaction or running the statement on a lost connection.
WorkOnDead(t) ==
  /\ pc[t] = "locked"
  /\ Connection(t) = "dead"
  /\ Broken(t)
  /\ UNCHANGED faulted

Retry(t) ==
  /\ pc[t] = "backoff"
  /\ retries' = [retries EXCEPT ![t] = @ + 1]
  /\ pc' = [pc EXCEPT ![t] = "locking"]
  /\ UNCHANGED <<connection, mutex, table, request, answer, orphan, faulted>>

\* The upsert is done inside its transaction, nobody else sees it yet.
Execute(t) ==
  /\ pc[t] = "locked"
  /\ Connection(t) = "open"
  /\ request[t].op = "store"
  /\ pc' = [pc EXCEPT ![t] = "executed"]
  /\ UNCHANGED <<connection, mutex, table, request, answer, retries, orphan, faulted>>

\* The server commits; the reply is on its way.
Commit(t) ==
  /\ pc[t] = "executed"
  /\ Connection(t) = "open"
  /\ table' = [table EXCEPT ![request[t].id] = request[t].value]
  /\ pc' = [pc EXCEPT ![t] = "committed"]
  /\ UNCHANGED <<connection, mutex, request, answer, retries, orphan, faulted>>

Select(t) ==
  /\ pc[t] = "locked"
  /\ Connection(t) = "open"
  /\ request[t].op = "retrieve"
  /\ answer' = [answer EXCEPT ![t] = table[request[t].id]]
  /\ pc' = [pc EXCEPT ![t] = "selected"]
  /\ UNCHANGED <<connection, mutex, table, request, retries, orphan, faulted>>

Finish(t) ==
  /\ \/ pc[t] = "committed" /\ Connection(t) = "open"
     \/ pc[t] = "selected"
  /\ mutex' = Unlock(t)
  /\ pc' = [pc EXCEPT ![t] = "done"]
  /\ UNCHANGED <<connection, table, request, answer, retries, orphan, faulted>>

\* mutant: an uncertain commit is repeated like a broken connection
InDoubtRetried(t) ==
  /\ pc[t] \in {"executed", "committed"}
  /\ Connection(t) = "dead"
  /\ Broken(t)
  /\ UNCHANGED faulted

\* in_doubt_error is not a broken_connection: the catch block does not see it
\* (_connection keeps the lost connection) and no hook maps it (no retry).
InDoubt(t) ==
  /\ pc[t] \in {"executed", "committed"}
  /\ Connection(t) = "dead"
  /\ mutex' = Unlock(t)
  /\ pc' = [pc EXCEPT ![t] = "failed"]
  /\ \E D \in SUBSET {t} : Orphan(D)
  /\ UNCHANGED <<connection, table, request, answer, retries, faulted>>

\* Any other error of the server: neither a new connection nor a retry.
SqlError(t) ==
  /\ pc[t] \in {"locked", "executed"}
  /\ Connection(t) = "open"
  /\ mutex' = Unlock(t)
  /\ pc' = [pc EXCEPT ![t] = "failed"]
  /\ faulted' = [faulted EXCEPT ![t] = TRUE]
  /\ UNCHANGED <<connection, table, request, answer, retries, orphan>>

Return(t) ==
  /\ pc[t] \in Outcomes
  /\ pc' = [pc EXCEPT ![t] = "idle"]
  /\ request' = [request EXCEPT ![t] = NoRequest]
  /\ answer' = [answer EXCEPT ![t] = Absent]
  /\ retries' = [retries EXCEPT ![t] = 0]
  /\ faulted' = [faulted EXCEPT ![t] = FALSE]
  /\ UNCHANGED <<connection, mutex, table, orphan>>

-----------------------------------------------------------------------------
Proceed(t) ==
  \/ Lock(t) \/ CreateConnection(t) \/ ConnectionRefused(t) \/ WorkOnDead(t)
  \/ Retry(t) \/ Execute(t) \/ Commit(t) \/ Select(t) \/ Finish(t)
  \/ InDoubt(t) \/ SqlError(t) \/ Return(t)

Call(t) == \E r \in Requests : WithConnection(t, r)

Next ==
  \/ \E m \in Managers : Start(m) \/ Crash(m) \/ LoseConnection(m)
  \/ \E t \in Threads : Call(t) \/ Proceed(t) \/ Settle(t)

Spec == Init /\ [][Next]_vars

\* A thread that can go on does so.  Nothing is assumed of the order in which
\* std::mutex serves its waiters, of the environment, or of crashed replicas.
FairSpec == Spec /\ \A t \in Threads : WF_vars(Proceed(t))

-----------------------------------------------------------------------------
(* Properties *)

\* Only the holder of a manager's mutex is inside a call of that manager, and a
\* held mutex has such a thread: "should have exclusive access"
\* (postgres-connection-manager_test.cpp).
ExclusiveAccess ==
  \A t \in Threads : pc[t] \in Inside <=> mutex[ManagerOf[t]] = t

\* One stale connection never costs a call: when neither the server nor the
\* network fails while a call runs, it does not fail, whatever happened to
\* the connection before and whatever other threads do with it meanwhile.
FailureNeedsFault ==
  MaxRetryCount >= 1 => \A t \in Threads : pc[t] = "failed" => faulted[t]

\* Every call ends once no new calls come in: no lost unlock, no endless retry.
\* (Under a steady stream of calls std::mutex may starve a thread.)
DrainsWhenIntakeStops ==
  <>[][\A t \in Threads : ~Call(t)]_vars => \A t \in Threads : []<>(request[t] = NoRequest)

PhaseOf(p) ==
  CASE p \in {"locking", "locked", "executed", "backoff"} -> "pending"
    [] p \in {"committed", "selected"} -> "applied"
    [] OTHER -> p

Port == INSTANCE EntityStore WITH
          Clients <- Threads, stored <- table,
          phase <- [t \in Threads |-> PhaseOf(pc[t])]

\* The adapter keeps the promise of the port: replicas, reconnects, retries and
\* crashes never make a Store take effect twice, or a Retrieve answer with
\* something that was not there during the call.
ImplementsPort == Port!Spec
=============================================================================
