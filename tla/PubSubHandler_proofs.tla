------------------------ MODULE PubSubHandler_proofs ------------------------
(* Theorems about PubSubHandler for any number of messages, callbacks and stops. *)
EXTENDS PubSubHandler, TLAPS

\* Handle has the mutex from its start, and after every wait, to the next wait or its end.
LockInv == mutex = IF main \in {"subscribing", "check", "sleeping", "cancelled"} THEN Main ELSE NoOwner

\* No stop comes between the test of the predicate and the wait; one that comes during the
\* wait wakes Handle up.
WakeupInv == (main = "sleeping" => ~stopRequested) /\ NoLostWakeup

\* A message that has been acknowledged is still being processed, or the processing has come
\* to an end, and be it by a crash; no shutdown has cut it off.
ProcessedInv ==
  \A m \in Messages :
    /\ fate[m] # "abandoned"
    /\ broker[m] # "kept" =>
         \/ fate[m] # "none"
         \/ \E c \in Callbacks : callback[c] = "acknowledged" /\ message[c] = m

\* The inductive invariant.
IInv == TypeOK /\ LockInv /\ WakeupInv /\ NoCallbackOutlivesHandle /\ ProcessedInv

\* The inductive invariant holds before the first start.
LEMMA InitIInv == Init => IInv
<1> SUFFICES ASSUME Init PROVE IInv
  OBVIOUS
<1>1. TypeOK
  BY DEF Init, TypeOK
<1>2. LockInv /\ WakeupInv
  BY DEF Init, LockInv, WakeupInv, NoLostWakeup
<1>3. NoCallbackOutlivesHandle /\ ProcessedInv
  BY DEF Init, NoCallbackOutlivesHandle, ProcessedInv
<1> QED
  BY <1>1, <1>2, <1>3 DEF IInv

\* Every step keeps the types; only a callback that runs has a message.
LEMMA TypeStep == TypeOK /\ [Next]_vars => TypeOK'
<1> SUFFICES ASSUME TypeOK, [Next]_vars PROVE TypeOK'
  OBVIOUS
<1>1. CASE LockStopMutex
  BY <1>1 DEF LockStopMutex, messages, TypeOK
<1>2. CASE Subscribe
  BY <1>2 DEF Subscribe, FirstWait, messages, TypeOK
<1>3. CASE TestPredicate
  BY <1>3 DEF TestPredicate, messages, TypeOK
<1>4. CASE Sleep
  BY <1>4 DEF Sleep, messages, TypeOK
<1>5. CASE HandleReturns
  BY <1>5 DEF HandleReturns, messages, TypeOK
<1>6. CASE SpuriousWakeup
  BY <1>6 DEF SpuriousWakeup, messages, TypeOK
<1>7. CASE Crash
  BY <1>7 DEF Crash, NewProcess, Fate, Ends, TypeOK
<1>8. CASE Restart
  BY <1>8 DEF Restart, NewProcess, Fate, Ends, TypeOK
<1>9. ASSUME NEW s \in Stoppers, CallStop(s) PROVE TypeOK'
  BY <1>9 DEF CallStop, messages, TypeOK
<1>10. ASSUME NEW s \in Stoppers, RequestStop(s) PROVE TypeOK'
  BY <1>10 DEF RequestStop, messages, TypeOK
<1>11. ASSUME NEW s \in Stoppers, Notify(s) PROVE TypeOK'
  BY <1>11 DEF Notify, messages, TypeOK
<1>12. ASSUME NEW c \in Callbacks, NEW m \in Messages, Deliver(c, m) PROVE TypeOK'
  BY <1>12, ConstantsAssumption DEF Deliver, handling, TypeOK
<1>13. ASSUME NEW c \in Callbacks, Acknowledge(c) PROVE TypeOK'
  BY <1>13 DEF Acknowledge, handling, TypeOK
<1>14. ASSUME NEW c \in Callbacks, SetEntity(c) PROVE TypeOK'
  <2>1. message[c] \in Messages
    BY <1>14 DEF SetEntity, TypeOK
  <2>2. PICK end \in EndsOf(message[c]) :
          /\ fate' = [fate EXCEPT ![message[c]] = Fate(message[c], end)]
          /\ callback' = [callback EXCEPT ![c] = "idle"]
    BY <1>14 DEF SetEntity, AfterSetEntity
  <2>3. end \in Ends /\ Fate(message[c], end) \in Ends
    BY <2>2 DEF EndsOf, Ends, Fate
  <2>4. fate' \in [Messages -> Ends \cup {"none"}]
    BY <2>1, <2>2, <2>3 DEF TypeOK
  <2> QED
    BY <1>14, <2>2, <2>4 DEF SetEntity, handling, TypeOK
<1>15. ASSUME NEW m \in Messages, AckArrives(m) PROVE TypeOK'
  BY <1>15 DEF AckArrives, handling, TypeOK
<1>16. ASSUME NEW m \in Messages, AckLost(m) PROVE TypeOK'
  BY <1>16 DEF AckLost, handling, TypeOK
<1>17. CASE UNCHANGED vars
  BY <1>17 DEF vars, TypeOK
<1> QED
  BY <1>1, <1>2, <1>3, <1>4, <1>5, <1>6, <1>7, <1>8, <1>9, <1>10, <1>11, <1>12, <1>13, <1>14,
     <1>15, <1>16, <1>17
     DEF Next, Handle, Stop, Callback

\* Only the thread of Handle takes the mutex for longer than a step.
LEMMA LockStep == LockInv /\ [Next]_vars => LockInv'
<1> SUFFICES ASSUME LockInv, [Next]_vars PROVE LockInv'
  OBVIOUS
<1>1. CASE LockStopMutex
  BY <1>1 DEF LockStopMutex, LockInv
<1>2. CASE Subscribe
  BY <1>2 DEF Subscribe, FirstWait, LockInv
<1>3. CASE TestPredicate
  BY <1>3 DEF TestPredicate, LockInv
<1>4. CASE Sleep
  BY <1>4 DEF Sleep, LockInv
<1>5. CASE HandleReturns
  BY <1>5 DEF HandleReturns, LockInv
<1>6. CASE SpuriousWakeup
  BY <1>6 DEF SpuriousWakeup, LockInv
<1>7. CASE Crash
  BY <1>7 DEF Crash, NewProcess, LockInv
<1>8. CASE Restart
  BY <1>8 DEF Restart, NewProcess, LockInv
<1>9. ASSUME NEW s \in Stoppers, CallStop(s) PROVE LockInv'
  BY <1>9 DEF CallStop, LockInv
<1>10. ASSUME NEW s \in Stoppers, RequestStop(s) PROVE LockInv'
  BY <1>10 DEF RequestStop, LockInv
<1>11. ASSUME NEW s \in Stoppers, Notify(s) PROVE LockInv'
  BY <1>11 DEF Notify, LockInv
<1>12. ASSUME NEW c \in Callbacks, NEW m \in Messages, Deliver(c, m) PROVE LockInv'
  BY <1>12 DEF Deliver, handling, LockInv
<1>13. ASSUME NEW c \in Callbacks, Acknowledge(c) PROVE LockInv'
  BY <1>13 DEF Acknowledge, handling, LockInv
<1>14. ASSUME NEW c \in Callbacks, SetEntity(c) PROVE LockInv'
  BY <1>14 DEF SetEntity, handling, LockInv
<1>15. ASSUME NEW m \in Messages, AckArrives(m) PROVE LockInv'
  BY <1>15 DEF AckArrives, handling, LockInv
<1>16. ASSUME NEW m \in Messages, AckLost(m) PROVE LockInv'
  BY <1>16 DEF AckLost, handling, LockInv
<1>17. CASE UNCHANGED vars
  BY <1>17 DEF vars, LockInv
<1> QED
  BY <1>1, <1>2, <1>3, <1>4, <1>5, <1>6, <1>7, <1>8, <1>9, <1>10, <1>11, <1>12, <1>13, <1>14,
     <1>15, <1>16, <1>17
     DEF Next, Handle, Stop, Callback

\* The mutex keeps a stop out between the test of the predicate and the wait.
LEMMA WakeupStep == TypeOK /\ LockInv /\ WakeupInv /\ [Next]_vars => WakeupInv'
<1> SUFFICES ASSUME TypeOK /\ LockInv /\ WakeupInv, [Next]_vars PROVE WakeupInv'
  OBVIOUS
<1>1. CASE LockStopMutex
  BY <1>1 DEF LockStopMutex, WakeupInv, NoLostWakeup
<1>2. CASE Subscribe
  BY <1>2 DEF Subscribe, FirstWait, WakeupInv, NoLostWakeup
<1>3. CASE TestPredicate
  BY <1>3 DEF TestPredicate, WakeupInv, NoLostWakeup
<1>4. CASE Sleep
  BY <1>4 DEF Sleep, WakeupInv, NoLostWakeup
<1>5. CASE HandleReturns
  BY <1>5 DEF HandleReturns, WakeupInv, NoLostWakeup
<1>6. CASE SpuriousWakeup
  BY <1>6 DEF SpuriousWakeup, WakeupInv, NoLostWakeup
<1>7. CASE Crash
  BY <1>7 DEF Crash, NewProcess, WakeupInv, NoLostWakeup
<1>8. CASE Restart
  BY <1>8 DEF Restart, NewProcess, WakeupInv, NoLostWakeup
<1>9. ASSUME NEW s \in Stoppers, CallStop(s) PROVE WakeupInv'
  BY <1>9 DEF CallStop, WakeupInv, NoLostWakeup
<1>10. ASSUME NEW s \in Stoppers, RequestStop(s) PROVE WakeupInv'
  BY <1>10, ConstantsAssumption
  DEF RequestStop, MutexFree, TypeOK, LockInv, WakeupInv, NoLostWakeup
<1>11. ASSUME NEW s \in Stoppers, Notify(s) PROVE WakeupInv'
  BY <1>11 DEF Notify, WakeupInv, NoLostWakeup
<1>12. ASSUME NEW c \in Callbacks, NEW m \in Messages, Deliver(c, m) PROVE WakeupInv'
  BY <1>12 DEF Deliver, handling, WakeupInv, NoLostWakeup
<1>13. ASSUME NEW c \in Callbacks, Acknowledge(c) PROVE WakeupInv'
  BY <1>13 DEF Acknowledge, handling, WakeupInv, NoLostWakeup
<1>14. ASSUME NEW c \in Callbacks, SetEntity(c) PROVE WakeupInv'
  BY <1>14 DEF SetEntity, handling, WakeupInv, NoLostWakeup
<1>15. ASSUME NEW m \in Messages, AckArrives(m) PROVE WakeupInv'
  BY <1>15 DEF AckArrives, handling, WakeupInv, NoLostWakeup
<1>16. ASSUME NEW m \in Messages, AckLost(m) PROVE WakeupInv'
  BY <1>16 DEF AckLost, handling, WakeupInv, NoLostWakeup
<1>17. CASE UNCHANGED vars
  BY <1>17 DEF vars, WakeupInv, NoLostWakeup
<1> QED
  BY <1>1, <1>2, <1>3, <1>4, <1>5, <1>6, <1>7, <1>8, <1>9, <1>10, <1>11, <1>12, <1>13, <1>14,
     <1>15, <1>16, <1>17
     DEF Next, Handle, Stop, Callback

\* Handle waits for its callbacks, and no message is delivered any more.
LEMMA SessionStep == TypeOK /\ NoCallbackOutlivesHandle /\ [Next]_vars => NoCallbackOutlivesHandle'
<1> SUFFICES ASSUME TypeOK /\ NoCallbackOutlivesHandle, [Next]_vars PROVE NoCallbackOutlivesHandle'
  OBVIOUS
<1>1. CASE LockStopMutex
  BY <1>1 DEF LockStopMutex, NoCallbackOutlivesHandle
<1>2. CASE Subscribe
  BY <1>2 DEF Subscribe, FirstWait, NoCallbackOutlivesHandle
<1>3. CASE TestPredicate
  BY <1>3 DEF TestPredicate, NoCallbackOutlivesHandle
<1>4. CASE Sleep
  BY <1>4 DEF Sleep, NoCallbackOutlivesHandle
<1>5. CASE HandleReturns
  BY <1>5 DEF HandleReturns, messages, SessionOver, NoCallbackOutlivesHandle
<1>6. CASE SpuriousWakeup
  BY <1>6 DEF SpuriousWakeup, NoCallbackOutlivesHandle
<1>7. CASE Crash
  BY <1>7 DEF Crash, NewProcess, NoCallbackOutlivesHandle
<1>8. CASE Restart
  BY <1>8 DEF Restart, NewProcess, NoCallbackOutlivesHandle
<1>9. ASSUME NEW s \in Stoppers, CallStop(s) PROVE NoCallbackOutlivesHandle'
  BY <1>9 DEF CallStop, messages, NoCallbackOutlivesHandle
<1>10. ASSUME NEW s \in Stoppers, RequestStop(s) PROVE NoCallbackOutlivesHandle'
  BY <1>10 DEF RequestStop, messages, NoCallbackOutlivesHandle
<1>11. ASSUME NEW s \in Stoppers, Notify(s) PROVE NoCallbackOutlivesHandle'
  BY <1>11 DEF Notify, messages, NoCallbackOutlivesHandle
<1>12. ASSUME NEW c \in Callbacks, NEW m \in Messages, Deliver(c, m) PROVE NoCallbackOutlivesHandle'
  BY <1>12 DEF Deliver, handling, NoCallbackOutlivesHandle
<1>13. ASSUME NEW c \in Callbacks, Acknowledge(c) PROVE NoCallbackOutlivesHandle'
  BY <1>13 DEF Acknowledge, handling, NoCallbackOutlivesHandle
<1>14. ASSUME NEW c \in Callbacks, SetEntity(c) PROVE NoCallbackOutlivesHandle'
  BY <1>14 DEF SetEntity, handling, NoCallbackOutlivesHandle
<1>15. ASSUME NEW m \in Messages, AckArrives(m) PROVE NoCallbackOutlivesHandle'
  BY <1>15 DEF AckArrives, handling, NoCallbackOutlivesHandle
<1>16. ASSUME NEW m \in Messages, AckLost(m) PROVE NoCallbackOutlivesHandle'
  BY <1>16 DEF AckLost, handling, NoCallbackOutlivesHandle
<1>17. CASE UNCHANGED vars
  BY <1>17 DEF vars, NoCallbackOutlivesHandle
<1> QED
  BY <1>1, <1>2, <1>3, <1>4, <1>5, <1>6, <1>7, <1>8, <1>9, <1>10, <1>11, <1>12, <1>13, <1>14,
     <1>15, <1>16, <1>17
     DEF Next, Handle, Stop, Callback

\* A callback that ends leaves a fate to its message, and a shutdown meets no callback.
LEMMA ProcessedStep == TypeOK /\ NoCallbackOutlivesHandle /\ ProcessedInv /\ [Next]_vars => ProcessedInv'
<1> SUFFICES ASSUME TypeOK /\ NoCallbackOutlivesHandle /\ ProcessedInv, [Next]_vars PROVE ProcessedInv'
  OBVIOUS
<1>1. CASE LockStopMutex
  BY <1>1 DEF LockStopMutex, messages, ProcessedInv
<1>2. CASE Subscribe
  BY <1>2 DEF Subscribe, messages, ProcessedInv
<1>3. CASE TestPredicate
  BY <1>3 DEF TestPredicate, messages, ProcessedInv
<1>4. CASE Sleep
  BY <1>4 DEF Sleep, messages, ProcessedInv
<1>5. CASE HandleReturns
  BY <1>5 DEF HandleReturns, messages, ProcessedInv
<1>6. CASE SpuriousWakeup
  BY <1>6 DEF SpuriousWakeup, messages, ProcessedInv
<1>7. CASE Crash
  BY <1>7 DEF Crash, NewProcess, Fate, ProcessedInv
<1>8. CASE Restart
  BY <1>8 DEF Restart, NewProcess, NoCallbackOutlivesHandle, ProcessedInv
<1>9. ASSUME NEW s \in Stoppers, CallStop(s) PROVE ProcessedInv'
  BY <1>9 DEF CallStop, messages, ProcessedInv
<1>10. ASSUME NEW s \in Stoppers, RequestStop(s) PROVE ProcessedInv'
  BY <1>10 DEF RequestStop, messages, ProcessedInv
<1>11. ASSUME NEW s \in Stoppers, Notify(s) PROVE ProcessedInv'
  BY <1>11 DEF Notify, messages, ProcessedInv
<1>12. ASSUME NEW c \in Callbacks, NEW m \in Messages, Deliver(c, m) PROVE ProcessedInv'
  <2>1. \A d \in Callbacks : callback[d] = "acknowledged" => callback'[d] = callback[d] /\ message'[d] = message[d]
    BY <1>12 DEF Deliver
  <2>2. broker' = broker /\ fate' = fate
    BY <1>12 DEF Deliver
  <2> QED
    BY <2>1, <2>2 DEF ProcessedInv
<1>13. ASSUME NEW c \in Callbacks, Acknowledge(c) PROVE ProcessedInv'
  <2>1. message[c] \in Messages /\ callback[c] = "received"
    BY <1>13 DEF Acknowledge, TypeOK
  <2>2. \A d \in Callbacks : callback[d] = "acknowledged" => callback'[d] = "acknowledged"
    BY <1>13 DEF Acknowledge
  <2>3. callback'[c] = "acknowledged" /\ message' = message /\ fate' = fate
    BY <1>13 DEF Acknowledge, TypeOK
  <2>4. \A m \in Messages : m # message[c] => broker'[m] = broker[m]
    BY <1>13, <2>1 DEF Acknowledge
  <2> QED
    BY <2>1, <2>2, <2>3, <2>4 DEF ProcessedInv
<1>14. ASSUME NEW c \in Callbacks, SetEntity(c) PROVE ProcessedInv'
  <2>1. message[c] \in Messages
    BY <1>14 DEF SetEntity, TypeOK
  <2>2. PICK end \in EndsOf(message[c]) :
          /\ fate' = [fate EXCEPT ![message[c]] = Fate(message[c], end)]
          /\ callback' = [callback EXCEPT ![c] = "idle"]
    BY <1>14 DEF SetEntity, AfterSetEntity
  <2>3. Fate(message[c], end) \notin {"none", "abandoned"}
    BY <2>2 DEF EndsOf, Fate
  <2>4. broker' = broker /\ message' = [message EXCEPT ![c] = NoMessage]
    BY <1>14 DEF SetEntity
  <2>5. ASSUME NEW m \in Messages, m # message[c] PROVE
          /\ fate'[m] = fate[m]
          /\ \A d \in Callbacks : callback[d] = "acknowledged" /\ message[d] = m
               => callback'[d] = "acknowledged" /\ message'[d] = m
    BY <2>2, <2>4, <2>5
  <2>6. fate'[message[c]] \notin {"none", "abandoned"}
    BY <2>1, <2>2, <2>3 DEF TypeOK
  <2> QED
    BY <2>4, <2>5, <2>6 DEF ProcessedInv
<1>15. ASSUME NEW m \in Messages, AckArrives(m) PROVE ProcessedInv'
  BY <1>15 DEF AckArrives, ProcessedInv
<1>16. ASSUME NEW m \in Messages, AckLost(m) PROVE ProcessedInv'
  BY <1>16 DEF AckLost, ProcessedInv
<1>17. CASE UNCHANGED vars
  BY <1>17 DEF vars, ProcessedInv
<1> QED
  BY <1>1, <1>2, <1>3, <1>4, <1>5, <1>6, <1>7, <1>8, <1>9, <1>10, <1>11, <1>12, <1>13, <1>14,
     <1>15, <1>16, <1>17
     DEF Next, Handle, Stop, Callback

\* Every reachable state satisfies the inductive invariant.
THEOREM Invariance == Spec => []IInv
<1>1. IInv /\ [Next]_vars => IInv'
  BY TypeStep, LockStep, WakeupStep, SessionStep, ProcessedStep DEF IInv
<1> QED
  BY InitIInv, <1>1, PTL DEF Spec

\* The types hold: no callback ends with an exception, and only one that runs has a message.
THEOREM TypeCorrect == Spec => []TypeOK
<1>1. IInv => TypeOK
  BY DEF IInv
<1> QED
  BY Invariance, <1>1, PTL

\* However many stops there are and whenever they come, Handle never sleeps with all of
\* their wakeups behind it.
THEOREM StopIsHeard == Spec => []NoLostWakeup
<1>1. IInv => NoLostWakeup
  BY DEF IInv, WakeupInv
<1> QED
  BY Invariance, <1>1, PTL

\* Once Handle has returned, what the callbacks use may be destroyed.
THEOREM CallbacksEndFirst == Spec => []NoCallbackOutlivesHandle
<1>1. IInv => NoCallbackOutlivesHandle
  BY DEF IInv
<1> QED
  BY Invariance, <1>1, PTL

\* However often messages come and whichever acknowledgements are lost, what the broker has
\* forgotten is stored, or was refused, invalid or failed, or met a crash: no message is lost
\* because Handle was stopped.
THEOREM ShutdownLosesNothing == Spec => []LossHasACause
<1>1. IInv => LossHasACause
  <2> SUFFICES ASSUME IInv, NEW m \in Messages, broker[m] = "forgotten",
                      \A c \in Callbacks : message[c] # m
               PROVE  fate[m] \in {"stored", "refused", "invalid", "failed", "crashed"}
    BY DEF LossHasACause
  <2>1. fate[m] \notin {"none", "abandoned"}
    BY DEF IInv, ProcessedInv
  <2>2. fate[m] \in Ends \cup {"none"}
    BY DEF IInv, TypeOK
  <2> QED
    BY <2>1, <2>2 DEF Ends
<1> QED
  BY Invariance, <1>1, PTL
=============================================================================
