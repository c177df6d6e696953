------------------------ MODULE PostgresRepo_proofs ------------------------
(* Theorems about PostgresRepo for any number of replicas, threads and ids. *)
EXTENDS PostgresRepo, TLAPS

\* What a thread's position says about its request and its retries.
InCall ==
  \A t \in Threads :
    /\ pc[t] = "idle" <=> request[t] = NoRequest
    /\ pc[t] = "idle" => retries[t] = 0
    /\ pc[t] = "backoff" => retries[t] < MaxRetryCount
    /\ pc[t] \in {"executed", "committed"} => request[t].op = "store"

\* While nothing fails during a call of t, its first retry finds the connection
\* reset or renewed, and its transaction keeps the connection it was begun on.
Fresh(t) ==
  /\ pc[t] # "idle" /\ (pc[t] = "backoff" \/ retries[t] > 0) => Connection(t) # "dead"
  /\ pc[t] \in {"executed", "committed"} => Connection(t) = "open"
  /\ pc[t] # "failed"

FaultFree == MaxRetryCount >= 1 => \A t \in Threads : ~faulted[t] => Fresh(t)

\* The inductive invariant.
IInv == TypeOK /\ ExclusiveAccess /\ InCall /\ FaultFree

\* What a request holds fits the table.
LEMMA RequestFields ==
  ASSUME NEW r \in Requests
  PROVE  r.id \in Ids /\ r.value \in Values \cup {Absent}
BY DEF Requests

\* The inductive invariant holds when nothing has been called yet.
LEMMA InitIInv == Init => IInv
<1> SUFFICES ASSUME Init PROVE IInv
  OBVIOUS
<1>1. TypeOK
  BY ConstantsAssumption DEF Init, TypeOK
<1>2. ExclusiveAccess
  BY ConstantsAssumption DEF Init, ExclusiveAccess, Inside
<1>3. InCall
  BY DEF Init, InCall
<1>4. FaultFree
  BY DEF Init, FaultFree, Fresh
<1> QED
  BY <1>1, <1>2, <1>3, <1>4 DEF IInv

\* Every step keeps the types; a committed entity comes from a request.
LEMMA TypeStep == TypeOK /\ InCall /\ [Next]_vars => TypeOK'
<1> SUFFICES ASSUME TypeOK /\ InCall, [Next]_vars PROVE TypeOK'
  OBVIOUS
<1> USE ConstantsAssumption DEF TypeOK, InCall, Inside, Outcomes, Connection
<1>1. ASSUME NEW m \in Managers, Start(m) PROVE TypeOK'
  BY <1>1 DEF Start
<1>2. ASSUME NEW m \in Managers, Crash(m) PROVE TypeOK'
  <2>1. PICK D \in SUBSET ThreadsOf(m) : Orphan(D)
    BY <1>2 DEF Crash
  <2>2. orphan' \in [Threads -> Requests \cup {NoRequest}]
    BY <2>1 DEF Orphan
  <2>3. connection' \in [Managers -> {"down", "null", "open", "dead"}]
    BY <1>2 DEF Crash
  <2>4. mutex' \in [Managers -> Threads \cup {NoThread}]
    BY <1>2 DEF Crash
  <2>5. pc' \in [Threads -> {"idle", "locking", "backoff"} \cup Inside \cup Outcomes]
    BY <1>2 DEF Crash
  <2>6. request' \in [Threads -> Requests \cup {NoRequest}]
    BY <1>2 DEF Crash
  <2>7. answer' \in [Threads -> Values \cup {Absent}]
    BY <1>2 DEF Crash
  <2>8. retries' \in [Threads -> 0..MaxRetryCount]
    BY <1>2 DEF Crash
  <2>9. faulted' \in [Threads -> BOOLEAN]
    BY <1>2 DEF Crash
  <2>10. table' \in [Ids -> Values \cup {Absent}]
    BY <1>2 DEF Crash
  <2> QED
    BY <2>2, <2>3, <2>4, <2>5, <2>6, <2>7, <2>8, <2>9, <2>10
<1>3. ASSUME NEW m \in Managers, LoseConnection(m) PROVE TypeOK'
  BY <1>3 DEF LoseConnection
<1>4. ASSUME NEW t \in Threads, NEW r \in Requests, WithConnection(t, r) PROVE TypeOK'
  BY <1>4 DEF WithConnection
<1>5. ASSUME NEW t \in Threads, Lock(t) PROVE TypeOK'
  BY <1>5 DEF Lock
<1>6. ASSUME NEW t \in Threads, CreateConnection(t) PROVE TypeOK'
  BY <1>6 DEF CreateConnection
<1>7. ASSUME NEW t \in Threads, ConnectionRefused(t) PROVE TypeOK'
  BY <1>7 DEF ConnectionRefused, Broken, AfterBroken, Unlock
<1>8. ASSUME NEW t \in Threads, WorkOnDead(t) PROVE TypeOK'
  BY <1>8 DEF WorkOnDead, Broken, AfterBroken, Unlock
<1>9. ASSUME NEW t \in Threads, Retry(t) PROVE TypeOK'
  BY <1>9 DEF Retry
<1>10. ASSUME NEW t \in Threads, Execute(t) PROVE TypeOK'
  BY <1>10 DEF Execute
<1>11. ASSUME NEW t \in Threads, Commit(t) PROVE TypeOK'
  BY <1>11, RequestFields DEF Commit
<1>12. ASSUME NEW t \in Threads, Select(t) PROVE TypeOK'
  BY <1>12, RequestFields DEF Select
<1>13. ASSUME NEW t \in Threads, Finish(t) PROVE TypeOK'
  BY <1>13 DEF Finish, Unlock
<1>14. ASSUME NEW t \in Threads, InDoubt(t) PROVE TypeOK'
  BY <1>14 DEF InDoubt, Unlock, Orphan
<1>15. ASSUME NEW t \in Threads, SqlError(t) PROVE TypeOK'
  BY <1>15 DEF SqlError, Unlock
<1>16. ASSUME NEW t \in Threads, Return(t) PROVE TypeOK'
  BY <1>16 DEF Return
<1>17. ASSUME NEW t \in Threads, Settle(t) PROVE TypeOK'
  BY <1>17, RequestFields DEF Settle
<1>18. CASE UNCHANGED vars
  BY <1>18 DEF vars
<1> QED
  BY <1>1, <1>2, <1>3, <1>4, <1>5, <1>6, <1>7, <1>8, <1>9, <1>10, <1>11, <1>12, <1>13, <1>14, <1>15, <1>16, <1>17, <1>18 DEF Next, Call, Proceed

\* Locking takes a free mutex; whoever leaves frees the one it holds.
LEMMA ExclusiveStep == TypeOK /\ ExclusiveAccess /\ [Next]_vars => ExclusiveAccess'
<1> SUFFICES ASSUME TypeOK /\ ExclusiveAccess, [Next]_vars PROVE ExclusiveAccess'
  OBVIOUS
<1> USE ConstantsAssumption DEF TypeOK, ExclusiveAccess, Inside, Outcomes, Connection
<1>1. ASSUME NEW m \in Managers, Start(m) PROVE ExclusiveAccess'
  BY <1>1 DEF Start
<1>2. ASSUME NEW m \in Managers, Crash(m) PROVE ExclusiveAccess'
  BY <1>2 DEF Crash
<1>3. ASSUME NEW m \in Managers, LoseConnection(m) PROVE ExclusiveAccess'
  BY <1>3 DEF LoseConnection
<1>4. ASSUME NEW t \in Threads, NEW r \in Requests, WithConnection(t, r) PROVE ExclusiveAccess'
  BY <1>4 DEF WithConnection
<1>5. ASSUME NEW t \in Threads, Lock(t) PROVE ExclusiveAccess'
  BY <1>5 DEF Lock, MayLock
<1>6. ASSUME NEW t \in Threads, CreateConnection(t) PROVE ExclusiveAccess'
  BY <1>6 DEF CreateConnection
<1>7. ASSUME NEW t \in Threads, ConnectionRefused(t) PROVE ExclusiveAccess'
  BY <1>7 DEF ConnectionRefused, Broken, Unlock
<1>8. ASSUME NEW t \in Threads, WorkOnDead(t) PROVE ExclusiveAccess'
  BY <1>8 DEF WorkOnDead, Broken, Unlock
<1>9. ASSUME NEW t \in Threads, Retry(t) PROVE ExclusiveAccess'
  BY <1>9 DEF Retry
<1>10. ASSUME NEW t \in Threads, Execute(t) PROVE ExclusiveAccess'
  BY <1>10 DEF Execute
<1>11. ASSUME NEW t \in Threads, Commit(t) PROVE ExclusiveAccess'
  BY <1>11 DEF Commit
<1>12. ASSUME NEW t \in Threads, Select(t) PROVE ExclusiveAccess'
  BY <1>12 DEF Select
<1>13. ASSUME NEW t \in Threads, Finish(t) PROVE ExclusiveAccess'
  BY <1>13 DEF Finish, Unlock
<1>14. ASSUME NEW t \in Threads, InDoubt(t) PROVE ExclusiveAccess'
  BY <1>14 DEF InDoubt, Unlock
<1>15. ASSUME NEW t \in Threads, SqlError(t) PROVE ExclusiveAccess'
  BY <1>15 DEF SqlError, Unlock
<1>16. ASSUME NEW t \in Threads, Return(t) PROVE ExclusiveAccess'
  BY <1>16 DEF Return
<1>17. ASSUME NEW t \in Threads, Settle(t) PROVE ExclusiveAccess'
  BY <1>17 DEF Settle
<1>18. CASE UNCHANGED vars
  BY <1>18 DEF vars
<1> QED
  BY <1>1, <1>2, <1>3, <1>4, <1>5, <1>6, <1>7, <1>8, <1>9, <1>10, <1>11, <1>12, <1>13, <1>14, <1>15, <1>16, <1>17, <1>18 DEF Next, Call, Proceed

\* A call starts with a request and without retries.
LEMMA InCallStep == TypeOK /\ InCall /\ [Next]_vars => InCall'
<1> SUFFICES ASSUME TypeOK /\ InCall, [Next]_vars PROVE InCall'
  OBVIOUS
<1> USE ConstantsAssumption DEF TypeOK, InCall, Inside, Outcomes, Connection
<1>1. ASSUME NEW m \in Managers, Start(m) PROVE InCall'
  BY <1>1 DEF Start
<1>2. ASSUME NEW m \in Managers, Crash(m) PROVE InCall'
  BY <1>2 DEF Crash
<1>3. ASSUME NEW m \in Managers, LoseConnection(m) PROVE InCall'
  BY <1>3 DEF LoseConnection
<1>4. ASSUME NEW t \in Threads, NEW r \in Requests, WithConnection(t, r) PROVE InCall'
  BY <1>4 DEF WithConnection
<1>5. ASSUME NEW t \in Threads, Lock(t) PROVE InCall'
  BY <1>5 DEF Lock
<1>6. ASSUME NEW t \in Threads, CreateConnection(t) PROVE InCall'
  BY <1>6 DEF CreateConnection
<1>7. ASSUME NEW t \in Threads, ConnectionRefused(t) PROVE InCall'
  BY <1>7 DEF ConnectionRefused, Broken, MayRetry
<1>8. ASSUME NEW t \in Threads, WorkOnDead(t) PROVE InCall'
  BY <1>8 DEF WorkOnDead, Broken, MayRetry
<1>9. ASSUME NEW t \in Threads, Retry(t) PROVE InCall'
  BY <1>9 DEF Retry
<1>10. ASSUME NEW t \in Threads, Execute(t) PROVE InCall'
  BY <1>10 DEF Execute
<1>11. ASSUME NEW t \in Threads, Commit(t) PROVE InCall'
  BY <1>11 DEF Commit
<1>12. ASSUME NEW t \in Threads, Select(t) PROVE InCall'
  BY <1>12 DEF Select
<1>13. ASSUME NEW t \in Threads, Finish(t) PROVE InCall'
  BY <1>13 DEF Finish
<1>14. ASSUME NEW t \in Threads, InDoubt(t) PROVE InCall'
  BY <1>14 DEF InDoubt
<1>15. ASSUME NEW t \in Threads, SqlError(t) PROVE InCall'
  BY <1>15 DEF SqlError
<1>16. ASSUME NEW t \in Threads, Return(t) PROVE InCall'
  BY <1>16 DEF Return
<1>17. ASSUME NEW t \in Threads, Settle(t) PROVE InCall'
  BY <1>17 DEF Settle
<1>18. CASE UNCHANGED vars
  BY <1>18 DEF vars
<1> QED
  BY <1>1, <1>2, <1>3, <1>4, <1>5, <1>6, <1>7, <1>8, <1>9, <1>10, <1>11, <1>12, <1>13, <1>14, <1>15, <1>16, <1>17, <1>18 DEF Next, Call, Proceed

\* Only a fault makes a connection bad again once this call has replaced it.
LEMMA FaultFreeStep == IInv /\ [Next]_vars => FaultFree'
<1> SUFFICES ASSUME IInv, [Next]_vars PROVE FaultFree'
  OBVIOUS
<1> USE ConstantsAssumption DEF IInv, TypeOK, ExclusiveAccess, InCall, FaultFree, Fresh, Inside, Outcomes, Connection
<1>1. ASSUME NEW m \in Managers, Start(m) PROVE FaultFree'
  BY <1>1 DEF Start
<1>2. ASSUME NEW m \in Managers, Crash(m) PROVE FaultFree'
  BY <1>2 DEF Crash
<1>3. ASSUME NEW m \in Managers, LoseConnection(m) PROVE FaultFree'
  <2> SUFFICES ASSUME MaxRetryCount >= 1, NEW u \in Threads, ~faulted'[u]
               PROVE  Fresh(u)'
    OBVIOUS
  <2>1. ~faulted[u] /\ ~(ManagerOf[u] = m /\ Active(u))
    BY <1>3 DEF LoseConnection
  <2>2. Fresh(u)
    BY <2>1
  <2> QED
    BY <1>3, <2>1, <2>2 DEF LoseConnection, Active
<1>4. ASSUME NEW t \in Threads, NEW r \in Requests, WithConnection(t, r) PROVE FaultFree'
  BY <1>4 DEF WithConnection
<1>5. ASSUME NEW t \in Threads, Lock(t) PROVE FaultFree'
  BY <1>5 DEF Lock
<1>6. ASSUME NEW t \in Threads, CreateConnection(t) PROVE FaultFree'
  BY <1>6 DEF CreateConnection
<1>7. ASSUME NEW t \in Threads, ConnectionRefused(t) PROVE FaultFree'
  BY <1>7 DEF ConnectionRefused, Broken, AfterBroken
<1>8. ASSUME NEW t \in Threads, WorkOnDead(t) PROVE FaultFree'
  BY <1>8 DEF WorkOnDead, Broken, MayRetry, AfterBroken
<1>9. ASSUME NEW t \in Threads, Retry(t) PROVE FaultFree'
  BY <1>9 DEF Retry
<1>10. ASSUME NEW t \in Threads, Execute(t) PROVE FaultFree'
  BY <1>10 DEF Execute
<1>11. ASSUME NEW t \in Threads, Commit(t) PROVE FaultFree'
  BY <1>11 DEF Commit
<1>12. ASSUME NEW t \in Threads, Select(t) PROVE FaultFree'
  BY <1>12 DEF Select
<1>13. ASSUME NEW t \in Threads, Finish(t) PROVE FaultFree'
  BY <1>13 DEF Finish
<1>14. ASSUME NEW t \in Threads, InDoubt(t) PROVE FaultFree'
  BY <1>14 DEF InDoubt
<1>15. ASSUME NEW t \in Threads, SqlError(t) PROVE FaultFree'
  BY <1>15 DEF SqlError
<1>16. ASSUME NEW t \in Threads, Return(t) PROVE FaultFree'
  BY <1>16 DEF Return
<1>17. ASSUME NEW t \in Threads, Settle(t) PROVE FaultFree'
  BY <1>17 DEF Settle
<1>18. CASE UNCHANGED vars
  BY <1>18 DEF vars
<1> QED
  BY <1>1, <1>2, <1>3, <1>4, <1>5, <1>6, <1>7, <1>8, <1>9, <1>10, <1>11, <1>12, <1>13, <1>14, <1>15, <1>16, <1>17, <1>18 DEF Next, Call, Proceed

\* Every reachable state satisfies the inductive invariant.
THEOREM Invariance == Spec => []IInv
<1>1. IInv /\ [Next]_vars => IInv'
  BY TypeStep, ExclusiveStep, InCallStep, FaultFreeStep DEF IInv
<1> QED
  BY InitIInv, <1>1, PTL DEF Spec

\* The types hold in every reachable state.
THEOREM TypeCorrect == Spec => []TypeOK
<1>1. IInv => TypeOK
  BY DEF IInv
<1> QED
  BY Invariance, <1>1, PTL

\* A connection is never used by two threads, whatever breaks meanwhile.
THEOREM MutualExclusion == Spec => []ExclusiveAccess
<1>1. IInv => ExclusiveAccess
  BY DEF IInv
<1> QED
  BY Invariance, <1>1, PTL

\* With at least one retry a call only fails if something failed during it.
THEOREM StaleConnectionsAreAbsorbed == Spec => []FailureNeedsFault
<1>1. IInv => FailureNeedsFault
  BY DEF IInv, FaultFree, Fresh, FailureNeedsFault
<1> QED
  BY Invariance, <1>1, PTL

-----------------------------------------------------------------------------
(* Refinement *)

Phase == [t \in Threads |-> PhaseOf(pc[t])]

\* What the port sees of a thread's position.
LEMMA PhaseValues ==
  /\ PhaseOf("idle") = "idle" /\ PhaseOf("done") = "done" /\ PhaseOf("failed") = "failed"
  /\ \A p \in {"locking", "locked", "executed", "backoff"} : PhaseOf(p) = "pending"
  /\ \A p \in {"committed", "selected"} : PhaseOf(p) = "applied"
BY DEF PhaseOf

\* Moving one thread moves its phase.
LEMMA PhaseMoves ==
  ASSUME TypeOK, NEW t \in Threads, pc' = [pc EXCEPT ![t] = pc'[t]]
  PROVE  /\ Phase[t] = PhaseOf(pc[t])
         /\ Phase' = [Phase EXCEPT ![t] = PhaseOf(pc'[t])]
BY DEF Phase, TypeOK

\* Moving a thread within one phase is not seen at all.
LEMMA PhaseStays ==
  ASSUME TypeOK, NEW t \in Threads, pc' = [pc EXCEPT ![t] = pc'[t]],
         PhaseOf(pc'[t]) = PhaseOf(pc[t])
  PROVE  Phase' = Phase
BY DEF Phase, TypeOK

\* A step that leaves no orphan.
LEMMA NoOrphan ==
  ASSUME TypeOK, UNCHANGED orphan, NEW C
  PROVE  \E D \in SUBSET C : Port!Orphan(D)
<1>1. Port!Orphan({})
  BY DEF TypeOK, Port!Orphan
<1> QED
  BY <1>1

\* Initial states map to initial states of the port.
LEMMA InitRefines == Init => Port!Init
BY PhaseValues DEF Init, Port!Init

\* A step of a thread that only the adapter sees.
LEMMA InnerStep ==
  ASSUME IInv, NEW t \in Threads, pc' = [pc EXCEPT ![t] = pc'[t]],
         PhaseOf(pc'[t]) = PhaseOf(pc[t]), UNCHANGED <<table, request, answer, orphan>>
  PROVE  UNCHANGED Port!vars
BY PhaseStays DEF IInv, Phase, Port!vars

\* A call that fails before its commit, or after it, fails for the port.
LEMMA FailRefines ==
  ASSUME IInv, NEW t \in Threads, pc[t] \in {"locked", "executed", "committed"},
         pc' = [pc EXCEPT ![t] = "failed"], UNCHANGED <<table, request, answer>>,
         \E D \in SUBSET {t} : Port!Orphan(D)
  PROVE  Port!Fail(t)
<1>1. pc' = [pc EXCEPT ![t] = pc'[t]] /\ pc'[t] = "failed"
  BY DEF IInv, TypeOK
<1>2. Phase' = [Phase EXCEPT ![t] = PhaseOf(pc'[t])]
  BY <1>1, PhaseMoves DEF IInv
<1>3. PhaseOf(pc'[t]) = "failed"
  BY <1>1, PhaseValues
<1>4. Phase[t] \in {"pending", "applied"}
  BY PhaseValues DEF Phase
<1> QED
  BY <1>2, <1>3, <1>4 DEF Phase, Port!Fail

\* A lost connection is retried within the call, or ends it without an effect.
LEMMA BrokenRefines ==
  ASSUME IInv, NEW t \in Threads, pc[t] = "locked", Broken(t)
  PROVE  Port!Fail(t) \/ UNCHANGED Port!vars
<1>1. CASE MayRetry(t)
  <2>1. pc' = [pc EXCEPT ![t] = pc'[t]] /\ pc'[t] = "backoff"
    BY <1>1 DEF Broken, IInv, TypeOK
  <2>2. PhaseOf(pc'[t]) = PhaseOf(pc[t])
    BY <2>1, PhaseValues
  <2> QED
    BY <2>1, <2>2, InnerStep DEF Broken
<1>2. CASE ~MayRetry(t)
  <2>1. pc' = [pc EXCEPT ![t] = "failed"]
    BY <1>2 DEF Broken
  <2>2. \E D \in SUBSET {t} : Port!Orphan(D)
    BY NoOrphan DEF Broken, IInv
  <2> QED
    BY <2>1, <2>2, FailRefines DEF Broken
<1> QED
  BY <1>1, <1>2

\* Every step is a step of the port, or one it does not see.
LEMMA StepRefines == IInv /\ [Next]_vars => [Port!Next]_(Port!vars)
<1> SUFFICES ASSUME IInv, [Next]_vars PROVE [Port!Next]_(Port!vars)
  OBVIOUS
<1>1. ASSUME NEW m \in Managers, Start(m) \/ LoseConnection(m) PROVE UNCHANGED Port!vars
  BY <1>1 DEF Start, LoseConnection, Port!vars
<1>2. ASSUME NEW m \in Managers, Crash(m) PROVE Port!Leave(ThreadsOf(m))
  <2>1. Phase' = [t \in Threads |-> IF t \in ThreadsOf(m) THEN "idle" ELSE Phase[t]]
    BY <1>2, PhaseValues DEF Crash, Phase, ThreadsOf
  <2>2. PICK D \in SUBSET ThreadsOf(m) : Orphan(D)
    BY <1>2 DEF Crash
  <2>3. \A t \in D : Phase[t] = "pending" /\ request[t].op = "store"
    BY <2>2, PhaseValues DEF Orphan, Phase, ThreadsOf, IInv, InCall
  <2>4. Port!Orphan(D)
    BY <2>2, <2>3 DEF Orphan, Phase, Port!Orphan
  <2>5. request' = [t \in Threads |-> IF t \in ThreadsOf(m) THEN NoRequest ELSE request[t]]
    BY <1>2 DEF Crash, ThreadsOf
  <2>6. answer' = [t \in Threads |-> IF t \in ThreadsOf(m) THEN Absent ELSE answer[t]]
    BY <1>2 DEF Crash, ThreadsOf
  <2> QED
    BY <1>2, <2>1, <2>4, <2>5, <2>6 DEF Crash, Phase, Port!Leave
<1>3. ASSUME NEW t \in Threads, NEW r \in Requests, WithConnection(t, r) PROVE Port!Invoke(t, r)
  <2>1. pc' = [pc EXCEPT ![t] = pc'[t]]
    BY <1>3 DEF WithConnection
  <2>2. PhaseOf(pc[t]) = "idle" /\ PhaseOf(pc'[t]) = "pending"
    BY <1>3, PhaseValues DEF WithConnection, IInv, TypeOK
  <2>3. Phase[t] = "idle" /\ Phase' = [Phase EXCEPT ![t] = "pending"]
    BY <2>1, <2>2, PhaseMoves DEF IInv
  <2> QED
    BY <1>3, <2>3 DEF WithConnection, Phase, Port!Invoke
<1>4. ASSUME NEW t \in Threads, Lock(t) \/ Retry(t) \/ Execute(t) PROVE UNCHANGED Port!vars
  <2>1. pc' = [pc EXCEPT ![t] = pc'[t]]
    BY <1>4 DEF Lock, Retry, Execute
  <2>2. {pc[t], pc'[t]} \subseteq {"locking", "locked", "executed", "backoff"}
    BY <1>4 DEF Lock, Retry, Execute, IInv, TypeOK
  <2> QED
    BY <1>4, <2>1, <2>2, InnerStep, PhaseValues DEF Lock, Retry, Execute
<1>5. ASSUME NEW t \in Threads, CreateConnection(t) PROVE UNCHANGED Port!vars
  BY <1>5 DEF CreateConnection, Port!vars
<1>6. ASSUME NEW t \in Threads, ConnectionRefused(t) \/ WorkOnDead(t)
      PROVE  Port!Fail(t) \/ UNCHANGED Port!vars
  BY <1>6, BrokenRefines DEF ConnectionRefused, WorkOnDead
<1>7. ASSUME NEW t \in Threads, Commit(t) PROVE Port!StoreTakesEffect(t)
  <2>1. pc' = [pc EXCEPT ![t] = pc'[t]]
    BY <1>7 DEF Commit
  <2>2. PhaseOf(pc[t]) = "pending" /\ PhaseOf(pc'[t]) = "applied"
    BY <1>7, PhaseValues DEF Commit, IInv, TypeOK
  <2>3. Phase[t] = "pending" /\ Phase' = [Phase EXCEPT ![t] = "applied"]
    BY <2>1, <2>2, PhaseMoves DEF IInv
  <2>4. request[t].op = "store"
    BY <1>7 DEF Commit, IInv, InCall
  <2> QED
    BY <1>7, <2>3, <2>4 DEF Commit, Phase, Port!StoreTakesEffect
<1>8. ASSUME NEW t \in Threads, Select(t) PROVE Port!RetrieveTakesEffect(t)
  <2>1. pc' = [pc EXCEPT ![t] = pc'[t]]
    BY <1>8 DEF Select
  <2>2. PhaseOf(pc[t]) = "pending" /\ PhaseOf(pc'[t]) = "applied"
    BY <1>8, PhaseValues DEF Select, IInv, TypeOK
  <2>3. Phase[t] = "pending" /\ Phase' = [Phase EXCEPT ![t] = "applied"]
    BY <2>1, <2>2, PhaseMoves DEF IInv
  <2> QED
    BY <1>8, <2>3 DEF Select, Phase, Port!RetrieveTakesEffect
<1>9. ASSUME NEW t \in Threads, Finish(t) PROVE Port!Succeed(t)
  <2>1. pc' = [pc EXCEPT ![t] = pc'[t]]
    BY <1>9 DEF Finish
  <2>2. PhaseOf(pc[t]) = "applied" /\ PhaseOf(pc'[t]) = "done"
    BY <1>9, PhaseValues DEF Finish, IInv, TypeOK
  <2>3. Phase[t] = "applied" /\ Phase' = [Phase EXCEPT ![t] = "done"]
    BY <2>1, <2>2, PhaseMoves DEF IInv
  <2> QED
    BY <1>9, <2>3 DEF Finish, Phase, Port!Succeed
<1>10. ASSUME NEW t \in Threads, InDoubt(t) PROVE Port!Fail(t)
  <2>1. PICK D \in SUBSET {t} : Orphan(D)
    BY <1>10 DEF InDoubt
  <2>2. \A u \in D : Phase[u] = "pending" /\ request[u].op = "store"
    BY <2>1, PhaseValues DEF Orphan, Phase, IInv, InCall
  <2>3. Port!Orphan(D)
    BY <2>1, <2>2 DEF Orphan, Phase, Port!Orphan
  <2> QED
    BY <1>10, <2>3, FailRefines DEF InDoubt
<1>11. ASSUME NEW t \in Threads, SqlError(t) PROVE Port!Fail(t)
  <2>1. \E D \in SUBSET {t} : Port!Orphan(D)
    BY <1>11, NoOrphan DEF SqlError, IInv
  <2> QED
    BY <1>11, <2>1, FailRefines DEF SqlError
<1>12. ASSUME NEW t \in Threads, Return(t) PROVE Port!Leave({t})
  <2>1. pc' = [pc EXCEPT ![t] = pc'[t]]
    BY <1>12 DEF Return
  <2>2. PhaseOf(pc'[t]) = "idle"
    BY <1>12, PhaseValues DEF Return, IInv, TypeOK
  <2>3. Phase' = [Phase EXCEPT ![t] = "idle"]
    BY <2>1, <2>2, PhaseMoves DEF IInv
  <2>4. Phase' = [u \in Threads |-> IF u \in {t} THEN "idle" ELSE Phase[u]]
    BY <2>3 DEF Phase
  <2>5. request' = [u \in Threads |-> IF u \in {t} THEN NoRequest ELSE request[u]]
    BY <1>12 DEF Return, IInv, TypeOK
  <2>6. answer' = [u \in Threads |-> IF u \in {t} THEN Absent ELSE answer[u]]
    BY <1>12 DEF Return, IInv, TypeOK
  <2>7. \E D \in SUBSET {t} : Port!Orphan(D)
    BY <1>12, NoOrphan DEF Return, IInv
  <2> QED
    BY <1>12, <2>4, <2>5, <2>6, <2>7 DEF Return, Phase, Port!Leave
<1>13. ASSUME NEW t \in Threads, Settle(t) PROVE Port!Settle(t)
  BY <1>13 DEF Settle, Port!Settle
<1>14. CASE UNCHANGED vars
  BY <1>14 DEF vars, Port!vars
<1>15. Requests = Port!Requests
  BY DEF Requests, Port!Requests
<1>16. ASSUME NEW m \in Managers PROVE ThreadsOf(m) \in SUBSET Threads
  BY DEF ThreadsOf
<1>17. CASE \E m \in Managers : Start(m) \/ Crash(m) \/ LoseConnection(m)
  BY <1>1, <1>2, <1>16, <1>17 DEF Port!Next
<1>18. CASE \E t \in Threads : Call(t)
  BY <1>3, <1>15, <1>18 DEF Call, Port!Next
<1>19. CASE \E t \in Threads : Proceed(t) \/ Settle(t)
  BY <1>4, <1>5, <1>6, <1>7, <1>8, <1>9, <1>10, <1>11, <1>12, <1>13, <1>19
     DEF Proceed, Port!Next
<1> QED
  BY <1>14, <1>17, <1>18, <1>19 DEF Next

\* Postgres keeps the promise of the port, with any number of replicas.
THEOREM Implementation == Spec => ImplementsPort
BY InitRefines, StepRefines, Invariance, PTL DEF Spec, ImplementsPort, Port!Spec
=============================================================================
