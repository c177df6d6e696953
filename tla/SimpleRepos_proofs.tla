------------------------- MODULE SimpleRepos_proofs -------------------------
(* The redis, cloud storage and in-memory adapters implement the repo port, for any     *)
(* number of clients, ids and values.                                                   *)
EXTENDS SimpleRepos, TLAPS

\* What a client's position says about its call.
InCall ==
  \A c \in Clients :
    /\ pc[c] = "idle" <=> request[c] = NoRequest
    /\ hidden[c] => pc[c] = "done"

\* The inductive invariant.
IInv == TypeOK /\ InCall

\* What a request holds fits the table.
LEMMA RequestFields ==
  ASSUME NEW r \in Requests
  PROVE  r.op \in {"store", "retrieve"} /\ r.id \in Ids /\ r.value \in Values \cup {Absent}
BY DEF Requests

\* The inductive invariant holds before the first call.
LEMMA InitIInv == Init => IInv
<1> SUFFICES ASSUME Init PROVE IInv
  OBVIOUS
<1>1. TypeOK
  BY DEF Init, TypeOK
<1>2. InCall
  BY DEF Init, InCall
<1> QED
  BY <1>1, <1>2 DEF IInv

\* Every step keeps the types; only cloud storage hides an error, and only of a Retrieve.
LEMMA TypeStep == TypeOK /\ InCall /\ [Next]_vars => TypeOK'
<1> SUFFICES ASSUME TypeOK /\ InCall, [Next]_vars PROVE TypeOK'
  OBVIOUS
<1>1. ASSUME NEW c \in Clients, Access(c) PROVE TypeOK'
  BY <1>1, RequestFields DEF Access, Effect, TypeOK, InCall
<1>2. ASSUME NEW c \in Clients, Send(c) PROVE TypeOK'
  BY <1>2 DEF Send, TypeOK
<1>3. ASSUME NEW c \in Clients, CannotSend(c) PROVE TypeOK'
  BY <1>3 DEF CannotSend, TypeOK
<1>4. ASSUME NEW c \in Clients, Execute(c) PROVE TypeOK'
  BY <1>4, RequestFields DEF Execute, Effect, TypeOK, InCall
<1>5. ASSUME NEW c \in Clients, Succeed(c) PROVE TypeOK'
  BY <1>5 DEF Succeed, TypeOK
<1>6. ASSUME NEW c \in Clients, Fails(c) PROVE TypeOK'
  BY <1>6 DEF Fails, Abandon, AfterError, TypeOK
<1>7. ASSUME NEW c \in Clients, FailsAsNotFound(c) PROVE TypeOK'
  BY <1>7, RequestFields DEF FailsAsNotFound, Hides, Storing, TypeOK, InCall
<1>8. ASSUME NEW c \in Clients, Return(c) PROVE TypeOK'
  BY <1>8 DEF Return, Leave, TypeOK
<1>9. ASSUME NEW c \in Clients, Settle(c) PROVE TypeOK'
  BY <1>9, RequestFields DEF Settle, TypeOK
<1>10. ASSUME NEW c \in Clients, NEW r \in Requests, Call(c, r) PROVE TypeOK'
  BY <1>10 DEF Call, TypeOK, InCall
<1>11. ASSUME NEW C \in SUBSET Clients, Crash(C) PROVE TypeOK'
  <2>1. request' \in [Clients -> Requests \cup {NoRequest}] /\ answer' \in [Clients -> Values \cup {Absent}]
    BY <1>11 DEF Crash, Leave, TypeOK
  <2>2. orphan' \in [Clients -> Requests \cup {NoRequest}]
    BY <1>11 DEF Crash, Abandon, TypeOK
  <2>3. hidden' \in [Clients -> BOOLEAN]
    BY <1>11 DEF Crash, Leave
  <2> QED
    BY <1>11, <2>1, <2>2, <2>3 DEF Crash, Leave, TypeOK
<1>12. CASE UNCHANGED vars
  BY <1>12 DEF vars, TypeOK
<1> QED
  BY <1>1, <1>2, <1>3, <1>4, <1>5, <1>6, <1>7, <1>8, <1>9, <1>10, <1>11, <1>12 DEF Next, Proceed

\* A call has a request from its start to its end; only one that is over can have hidden
\* an error.
LEMMA InCallStep == TypeOK /\ InCall /\ [Next]_vars => InCall'
<1> SUFFICES ASSUME TypeOK /\ InCall, [Next]_vars PROVE InCall'
  OBVIOUS
<1>1. ASSUME NEW c \in Clients, Access(c) PROVE InCall'
  BY <1>1 DEF Access, InCall
<1>2. ASSUME NEW c \in Clients, Send(c) PROVE InCall'
  BY <1>2 DEF Send, InCall
<1>3. ASSUME NEW c \in Clients, CannotSend(c) PROVE InCall'
  BY <1>3 DEF CannotSend, InCall
<1>4. ASSUME NEW c \in Clients, Execute(c) PROVE InCall'
  BY <1>4 DEF Execute, InCall
<1>5. ASSUME NEW c \in Clients, Succeed(c) PROVE InCall'
  BY <1>5 DEF Succeed, InCall
<1>6. ASSUME NEW c \in Clients, Fails(c) PROVE InCall'
  BY <1>6 DEF Fails, AfterError, InCall
<1>7. ASSUME NEW c \in Clients, FailsAsNotFound(c) PROVE InCall'
  BY <1>7 DEF FailsAsNotFound, TypeOK, InCall
<1>8. ASSUME NEW c \in Clients, Return(c) PROVE InCall'
  BY <1>8 DEF Return, Leave, InCall
<1>9. ASSUME NEW c \in Clients, Settle(c) PROVE InCall'
  BY <1>9 DEF Settle, InCall
<1>10. ASSUME NEW c \in Clients, NEW r \in Requests, Call(c, r) PROVE InCall'
  BY <1>10, AdaptersAssumption DEF Call, TypeOK, InCall
<1>11. ASSUME NEW C \in SUBSET Clients, Crash(C) PROVE InCall'
  BY <1>11 DEF Crash, Leave, InCall
<1>12. CASE UNCHANGED vars
  BY <1>12 DEF vars, InCall
<1> QED
  BY <1>1, <1>2, <1>3, <1>4, <1>5, <1>6, <1>7, <1>8, <1>9, <1>10, <1>11, <1>12 DEF Next, Proceed

\* Every reachable state satisfies the inductive invariant.
THEOREM Invariance == Spec => []IInv
<1>1. IInv /\ [Next]_vars => IInv'
  BY TypeStep, InCallStep DEF IInv
<1> QED
  BY InitIInv, <1>1, PTL DEF Spec

\* The types hold, and no adapter but cloud storage takes an error for a missing entity.
THEOREM TypeCorrect == Spec => []TypeOK
<1>1. IInv => TypeOK
  BY DEF IInv
<1> QED
  BY Invariance, <1>1, PTL

-----------------------------------------------------------------------------
(* Refinement *)

Phase == [c \in Clients |-> PhaseOf(c)]

\* Where a client is that has not hidden an error.
LEMMA PhaseValues ==
  ASSUME NEW c \in Clients, ~hidden[c]
  PROVE  /\ pc[c] \in {"called", "sent"} => Phase[c] = "pending"
         /\ pc[c] = "executed" => Phase[c] = "applied"
         /\ pc[c] \in {"idle", "done", "failed"} => Phase[c] = pc[c]
BY DEF Phase, PhaseOf

\* A client that is in the middle of its call has not hidden an error.
LEMMA OpenCalls ==
  ASSUME IInv, NEW c \in Clients
  PROVE  /\ pc[c] # "done" => ~hidden[c]
         /\ pc[c] \in {"called", "sent"} => Phase[c] = "pending"
         /\ pc[c] = "executed" => Phase[c] = "applied"
         /\ pc[c] = "idle" => Phase[c] = "idle"
BY PhaseValues DEF IInv, InCall

\* A step of one client moves the phase of that client.
LEMMA PhaseMoves ==
  ASSUME TypeOK, NEW c \in Clients,
         \A d \in Clients \ {c} : pc'[d] = pc[d] /\ hidden'[d] = hidden[d]
  PROVE  Phase' = [Phase EXCEPT ![c] = PhaseOf(c)']
<1>1. ASSUME NEW d \in Clients \ {c} PROVE PhaseOf(d)' = PhaseOf(d)
  BY DEF PhaseOf
<1> QED
  BY <1>1 DEF Phase

\* A step that leaves no orphan.
LEMMA NoOrphan ==
  ASSUME TypeOK, UNCHANGED orphan, NEW C
  PROVE  \E D \in SUBSET C : Port!Orphan(D)
<1>1. Port!Orphan({})
  BY DEF TypeOK, Port!Orphan
<1> QED
  BY <1>1

\* A write the adapter leaves under way is an orphan of the port.
LEMMA AbandonedIsOrphan ==
  ASSUME IInv, NEW D \in SUBSET Clients, Abandon(D)
  PROVE  Port!Orphan(D)
<1>1. \A c \in D : Phase[c] = "pending" /\ request[c].op = "store" /\ orphan[c] = NoRequest
  BY OpenCalls DEF Abandon, Storing
<1> QED
  BY <1>1 DEF Abandon, Phase, Port!Orphan

\* Initial states map to initial states of the port.
LEMMA InitRefines == Init => Port!Init
<1> SUFFICES ASSUME Init PROVE Port!Init
  OBVIOUS
<1>1. \A c \in Clients : PhaseOf(c) = "idle"
  BY DEF Init, PhaseOf
<1> QED
  BY <1>1 DEF Init, Port!Init

\* A call that takes effect takes effect for the port.
LEMMA EffectRefines ==
  ASSUME IInv, NEW c \in Clients, pc[c] \in {"called", "sent"}, Effect(c),
         pc' = [pc EXCEPT ![c] = "executed"], UNCHANGED <<request, orphan, hidden>>
  PROVE  Port!StoreTakesEffect(c) \/ Port!RetrieveTakesEffect(c)
<1>1. Phase[c] = "pending" /\ ~hidden[c]
  BY OpenCalls
<1>2. Phase' = [Phase EXCEPT ![c] = PhaseOf(c)']
  BY PhaseMoves DEF IInv
<1>3. PhaseOf(c)' = "applied"
  BY DEF PhaseOf, IInv, TypeOK
<1>4. request[c].op \in {"store", "retrieve"}
  BY RequestFields DEF IInv, TypeOK, InCall
<1> QED
  BY <1>1, <1>2, <1>3, <1>4
     DEF Effect, Phase, Port!StoreTakesEffect, Port!RetrieveTakesEffect

\* A call that fails, or pretends to have found nothing, fails for the port.
LEMMA FailRefines ==
  ASSUME IInv, NEW c \in Clients, pc[c] \in {"called", "sent", "executed"},
         PhaseOf(c)' = "failed", \A d \in Clients \ {c} : pc'[d] = pc[d] /\ hidden'[d] = hidden[d],
         UNCHANGED <<table, request, answer>>, \E D \in SUBSET {c} : Port!Orphan(D)
  PROVE  Port!Fail(c)
<1>1. Phase[c] \in {"pending", "applied"}
  BY OpenCalls
<1>2. Phase' = [Phase EXCEPT ![c] = "failed"]
  BY PhaseMoves DEF IInv
<1> QED
  BY <1>1, <1>2 DEF Phase, Port!Fail

\* Clients that leave their calls leave those of the port.
LEMMA LeaveRefines ==
  ASSUME IInv, NEW C \in SUBSET Clients, Leave(C), \E D \in SUBSET C : Port!Orphan(D)
  PROVE  Port!Leave(C)
<1>1. Phase' = [c \in Clients |-> IF c \in C THEN "idle" ELSE Phase[c]]
  <2>1. ASSUME NEW c \in Clients
        PROVE  PhaseOf(c)' = IF c \in C THEN "idle" ELSE PhaseOf(c)
    <3>1. CASE c \in C
      <4>1. pc'[c] = "idle" /\ ~hidden'[c]
        BY <3>1 DEF Leave
      <4> QED
        BY <3>1, <4>1 DEF PhaseOf
    <3>2. CASE c \notin C
      <4>1. pc'[c] = pc[c] /\ (hidden'[c] <=> hidden[c])
        BY <3>2 DEF Leave
      <4> QED
        BY <3>2, <4>1 DEF PhaseOf
    <3> QED
      BY <3>1, <3>2
  <2> QED
    BY <2>1 DEF Phase
<1> QED
  BY <1>1 DEF Leave, Phase, Port!Leave

\* Every step is a step of the port, or one it does not see.
LEMMA StepRefines == IInv /\ [Next]_vars => [Port!Next]_(Port!vars)
<1> SUFFICES ASSUME IInv, [Next]_vars PROVE [Port!Next]_(Port!vars)
  OBVIOUS
<1>1. ASSUME NEW c \in Clients, NEW r \in Requests, Call(c, r) PROVE Port!Invoke(c, r)
  <2>1. Phase[c] = "idle" /\ ~hidden[c]
    BY <1>1, OpenCalls DEF Call
  <2>2. Phase' = [Phase EXCEPT ![c] = PhaseOf(c)']
    BY <1>1, PhaseMoves DEF Call, IInv
  <2>3. PhaseOf(c)' = "pending"
    BY <1>1 DEF Call, PhaseOf, IInv, TypeOK
  <2> QED
    BY <1>1, <2>1, <2>2, <2>3 DEF Call, Phase, Port!Invoke
<1>2. ASSUME NEW c \in Clients, Access(c) \/ Execute(c)
      PROVE  Port!StoreTakesEffect(c) \/ Port!RetrieveTakesEffect(c)
  BY <1>2, EffectRefines DEF Access, Execute
<1>3. ASSUME NEW c \in Clients, Send(c) PROVE UNCHANGED Port!vars
  <2>1. Phase' = [Phase EXCEPT ![c] = PhaseOf(c)']
    BY <1>3, PhaseMoves DEF Send, IInv
  <2>2. PhaseOf(c)' = Phase[c]
    BY <1>3 DEF Send, Phase, PhaseOf
  <2>3. Phase' = Phase
    BY <2>1, <2>2 DEF Phase
  <2> QED
    BY <1>3, <2>3 DEF Send, Phase, Port!vars
<1>4. ASSUME NEW c \in Clients, CannotSend(c) PROVE Port!Fail(c)
  <2>1. PhaseOf(c)' = "failed"
    BY <1>4 DEF CannotSend, PhaseOf, IInv, TypeOK
  <2>2. \E D \in SUBSET {c} : Port!Orphan(D)
    BY <1>4, NoOrphan DEF CannotSend, IInv
  <2> QED
    BY <1>4, <2>1, <2>2, FailRefines DEF CannotSend
<1>5. ASSUME NEW c \in Clients, Succeed(c) PROVE Port!Succeed(c)
  <2>1. Phase[c] = "applied" /\ ~hidden[c]
    BY <1>5, OpenCalls DEF Succeed
  <2>2. Phase' = [Phase EXCEPT ![c] = PhaseOf(c)']
    BY <1>5, PhaseMoves DEF Succeed, IInv
  <2>3. PhaseOf(c)' = "done"
    BY <1>5, <2>1 DEF Succeed, PhaseOf, IInv, TypeOK
  <2> QED
    BY <1>5, <2>1, <2>2, <2>3 DEF Succeed, Phase, Port!Succeed
<1>6. ASSUME NEW c \in Clients, Fails(c) PROVE Port!Fail(c)
  <2>1. PhaseOf(c)' = "failed"
    BY <1>6 DEF Fails, AfterError, PhaseOf, IInv, TypeOK
  <2>2. \E D \in SUBSET {c} : Port!Orphan(D)
    BY <1>6, AbandonedIsOrphan DEF Fails
  <2> QED
    BY <1>6, <2>1, <2>2, FailRefines DEF Fails
<1>7. ASSUME NEW c \in Clients, FailsAsNotFound(c) PROVE Port!Fail(c)
  <2>1. PhaseOf(c)' = "failed"
    BY <1>7 DEF FailsAsNotFound, PhaseOf, IInv, TypeOK
  <2>2. \E D \in SUBSET {c} : Port!Orphan(D)
    BY <1>7, NoOrphan DEF FailsAsNotFound, IInv
  <2> QED
    BY <1>7, <2>1, <2>2, FailRefines DEF FailsAsNotFound, IInv, TypeOK
<1>8. ASSUME NEW c \in Clients, Return(c) PROVE Port!Leave({c})
  <2>1. \E D \in SUBSET {c} : Port!Orphan(D)
    BY <1>8, NoOrphan DEF Return, IInv
  <2> QED
    BY <1>8, <2>1, LeaveRefines DEF Return
<1>9. ASSUME NEW C \in SUBSET Clients, Crash(C) PROVE Port!Leave(C)
  <2>1. \E D \in SUBSET C : Port!Orphan(D)
    BY <1>9, AbandonedIsOrphan DEF Crash
  <2> QED
    BY <1>9, <2>1, LeaveRefines DEF Crash
<1>10. ASSUME NEW c \in Clients, Settle(c) PROVE Port!Settle(c)
  <2>1. Phase' = Phase
    BY <1>10 DEF Settle, Phase, PhaseOf
  <2> QED
    BY <1>10, <2>1 DEF Settle, Phase, Port!Settle
<1>11. CASE UNCHANGED vars
  <2>1. Phase' = Phase
    BY <1>11 DEF vars, Phase, PhaseOf
  <2> QED
    BY <1>11, <2>1 DEF vars, Phase, Port!vars
<1>12. Requests = Port!Requests
  BY DEF Requests, Port!Requests
<1> QED
  BY <1>1, <1>2, <1>3, <1>4, <1>5, <1>6, <1>7, <1>8, <1>9, <1>10, <1>11, <1>12
     DEF Next, Proceed, Port!Next

\* All three adapters keep the promise of the port, the errors cloud storage hides taken
\* for what they are.
THEOREM Implementation == Spec => ImplementsPort
BY InitRefines, StepRefines, Invariance, PTL DEF Spec, ImplementsPort, Port!Spec
=============================================================================
