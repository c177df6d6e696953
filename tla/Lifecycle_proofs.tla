-------------------------- MODULE Lifecycle_proofs --------------------------
(* Theorems about Lifecycle for any documents, requests and signals. *)
EXTENDS Lifecycle, TLAPS

\* Whoever serves has all objects, and there are only requests while it serves.
ServingInv ==
  /\ main = "handling" => objects = All
  /\ server # "none" => main = "handling" /\ handler # "cli"
  /\ inProgress # {} => server # "none"
  /\ main = "ended" => objects = 0

\* The first object, and everything made after it, is there with a usable configuration only.
Usable == config \in [Fields -> {"nullopt", "value"}] /\ \A f \in Required : config[f] = "value"

ConfigInv == objects # 0 => Usable

\* The inductive invariant.
IInv == TypeOK /\ ServingInv /\ ConfigInv

\* main makes eight objects, the configuration first.
LEMMA EightObjects == All = 8 /\ (objects = 0 => IsNext("openid_config"))
BY DEF All, Objects, IsNext

\* A document without a required member throws, any other one makes a usable configuration.
LEMMA CreatedIsUsable ==
  ASSUME NEW json, ~Throws(json)
  PROVE  /\ CreateFromJson(json) \in [Fields -> {"nullopt", "value"}]
         /\ \A f \in Required : CreateFromJson(json)[f] = "value"
<1>1. \A f \in Fields : extract(json, f) \in {"nullopt", "value"}
  BY DEF extract
<1>2. \A f \in Required : extract(json, f) = "value"
  BY <1>1 DEF Throws, ValueTaken, Fields
<1>3. Required \subseteq Fields
  BY DEF Fields
<1> QED
  BY <1>1, <1>2, <1>3 DEF CreateFromJson

\* A process that is gone has the types of one that has ended.
LEMMA GoneKeepsTypes ==
  ASSUME NEW how \in {"0", "1", "killed", "crashed"}, Gone(how)
  PROVE  /\ objects' \in 0..All
         /\ main' \in {"constructing", "handling", "unwinding", "ended"}
         /\ server' \in {"none", "started", "listening", "closing"}
         /\ stopping' \in BOOLEAN
         /\ inProgress' \in SUBSET Requests
         /\ exit' \in {"none", "0", "1", "killed", "crashed"}
         /\ exit' = "none" <=> main' # "ended"
<1>1. objects' \in 0..All
  BY EightObjects DEF Gone
<1>2. exit' = how /\ how # "none" /\ main' = "ended"
  BY DEF Gone
<1>3. exit' \in {"none", "0", "1", "killed", "crashed"}
  BY <1>2
<1>4. exit' = "none" <=> main' # "ended"
  BY <1>2
<1> QED
  BY <1>1, <1>2, <1>3, <1>4 DEF Gone

\* The inductive invariant holds before main has done anything.
LEMMA InitIInv == Init => IInv
<1> SUFFICES ASSUME Init PROVE IInv
  OBVIOUS
<1>1. TypeOK
  <2>1. signals \in 0..MaxSignals /\ objects \in 0..All
    BY LifecycleAssumption, EightObjects DEF Init
  <2> QED
    BY <2>1 DEF Init, TypeOK
<1>2. ServingInv /\ ConfigInv
  BY DEF Init, ServingInv, ConfigInv
<1> QED
  BY <1>1, <1>2 DEF IInv

\* Every step keeps the types; the process has an exit status when it has ended.
LEMMA TypeStep == TypeOK /\ [Next]_vars => TypeOK'
<1> SUFFICES ASSUME TypeOK, [Next]_vars PROVE TypeOK'
  OBVIOUS
<1>0. All = 8
  BY EightObjects
<1>1. CASE Construct
  <2>1. config' = Down \/ config' \in [Fields -> {"nullopt", "value"}]
    BY <1>1, CreatedIsUsable DEF Construct, CanConstruct, TypeOK
  <2>2. objects' \in 0..All
    BY <1>1, <1>0 DEF Construct, TypeOK
  <2> QED
    BY <1>1, <2>1, <2>2 DEF Construct, environment, TypeOK
<1>2. CASE ConstructThrows
  BY <1>2, <1>0 DEF ConstructThrows, environment, Unwind, TypeOK
<1>3. CASE CallHandle
  BY <1>3, <1>0 DEF CallHandle, environment, TypeOK
<1>4. CASE Destroy
  BY <1>4, <1>0 DEF Destroy, environment, TypeOK
<1>5. CASE Return
  BY <1>5, <1>0 DEF Return, environment, Gone, ExitStatus, TypeOK
<1>6. CASE HttpListens
  BY <1>6, <1>0 DEF HttpListens, environment, Unwind, TypeOK
<1>7. CASE GrpcStarts
  <2>1. CASE portFree /\ server' = "started" /\ UNCHANGED <<objects, main, config, stopping, inProgress, exit>>
    BY <1>7, <2>1 DEF GrpcStarts, environment, TypeOK
  <2>2. CASE Gone("crashed") /\ config' = Down
    BY <1>7, <2>2, GoneKeepsTypes DEF GrpcStarts, environment, TypeOK
  <2> QED
    BY <1>7, <2>1, <2>2 DEF GrpcStarts
<1>8. CASE GrpcAssigns
  BY <1>8, <1>0 DEF GrpcAssigns, environment, TypeOK
<1>9. CASE ServerReturns
  BY <1>9, <1>0 DEF ServerReturns, environment, Unwind, TypeOK
<1>10. CASE CliCall
  BY <1>10, <1>0 DEF CliCall, environment, Unwind, TypeOK
<1>11. CASE HttpStop
  BY <1>11, <1>0 DEF HttpStop, environment, TypeOK
<1>12. CASE GrpcStop
  <2>1. CASE Gone("crashed") /\ config' = Down
    BY <1>12, <2>1, GoneKeepsTypes DEF GrpcStop, environment, TypeOK
  <2>2. CASE /\ stopping' = FALSE
             /\ server' = IF server = "listening" THEN "closing" ELSE server
             /\ UNCHANGED <<objects, main, config, inProgress, exit>>
    BY <1>12, <2>2 DEF GrpcStop, environment, TypeOK
  <2> QED
    BY <1>12, <2>1, <2>2 DEF GrpcStop
<1>13. CASE CliStop
  BY <1>13, <1>0 DEF CliStop, environment, TypeOK
<1>14. CASE Sigterm
  <2>1. signals' \in 0..MaxSignals
    BY <1>14, LifecycleAssumption DEF Sigterm, TypeOK
  <2>2. CASE Gone("killed") /\ config' = Down /\ UNCHANGED signalled
    BY <1>14, <2>1, <2>2, GoneKeepsTypes DEF Sigterm, environment, TypeOK
  <2>3. CASE /\ stopping' = TRUE /\ signalled' = TRUE
             /\ UNCHANGED <<objects, main, config, server, inProgress, exit>>
    BY <1>14, <2>1, <2>3 DEF Sigterm, environment, TypeOK
  <2> QED
    BY <1>14, <2>2, <2>3 DEF Sigterm
<1>15. CASE Restart
  BY <1>15, <1>0 DEF Restart, environment, TypeOK
<1>16. CASE Change
  <2>1. openid' \in Documents \cup {Down}
    BY <1>16 DEF Change, TypeOK
  <2>2. keysUp' \in BOOLEAN /\ repoUp' \in BOOLEAN /\ portFree' \in BOOLEAN
    BY <1>16, Zenon DEF Change, TypeOK
  <2> QED
    BY <1>16, <2>1, <2>2 DEF Change, TypeOK
<1>17. ASSUME NEW r \in Requests, Accept(r) PROVE TypeOK'
  BY <1>17, <1>0 DEF Accept, environment, TypeOK
<1>18. ASSUME NEW r \in Requests, Answer(r) PROVE TypeOK'
  BY <1>18, <1>0 DEF Answer, environment, TypeOK
<1>19. CASE UNCHANGED vars
  BY <1>19 DEF vars, environment, TypeOK
<1> QED
  BY <1>1, <1>2, <1>3, <1>4, <1>5, <1>6, <1>7, <1>8, <1>9, <1>10, <1>11, <1>12, <1>13, <1>14,
     <1>15, <1>16, <1>17, <1>18, <1>19
     DEF Next, Main, Stop

\* Requests come and go while the server runs, and it runs while main is in Handle.
LEMMA ServingStep == TypeOK /\ ServingInv /\ [Next]_vars => ServingInv'
<1> SUFFICES ASSUME TypeOK /\ ServingInv, [Next]_vars PROVE ServingInv'
  OBVIOUS
<1>0. All = 8
  BY EightObjects
<1>1. CASE Construct
  BY <1>1, <1>0 DEF Construct, ServingInv
<1>2. CASE ConstructThrows
  BY <1>2, <1>0 DEF ConstructThrows, Unwind, ServingInv
<1>3. CASE CallHandle
  BY <1>3, <1>0 DEF CallHandle, ServingInv
<1>4. CASE Destroy
  BY <1>4, <1>0 DEF Destroy, ServingInv
<1>5. CASE Return
  BY <1>5, <1>0 DEF Return, Gone, ServingInv
<1>6. CASE HttpListens
  BY <1>6, <1>0 DEF HttpListens, environment, Unwind, ServingInv
<1>7. CASE GrpcStarts
  BY <1>7, <1>0 DEF GrpcStarts, environment, Gone, ServingInv
<1>8. CASE GrpcAssigns
  BY <1>8, <1>0 DEF GrpcAssigns, environment, ServingInv
<1>9. CASE ServerReturns
  BY <1>9, <1>0 DEF ServerReturns, Unwind, ClosedAndDrained, ServingInv
<1>10. CASE CliCall
  BY <1>10, <1>0 DEF CliCall, Unwind, ServingInv
<1>11. CASE HttpStop
  BY <1>11, <1>0 DEF HttpStop, environment, ServingInv
<1>12. CASE GrpcStop
  BY <1>12, <1>0 DEF GrpcStop, environment, Gone, ServingInv
<1>13. CASE CliStop
  BY <1>13, <1>0 DEF CliStop, ServingInv
<1>14. CASE Sigterm
  BY <1>14, <1>0 DEF Sigterm, environment, Gone, ServingInv
<1>15. CASE Restart
  BY <1>15, <1>0 DEF Restart, TypeOK, ServingInv
<1>16. CASE Change
  BY <1>16, <1>0 DEF Change, ServingInv
<1>17. ASSUME NEW r \in Requests, Accept(r) PROVE ServingInv'
  BY <1>17, <1>0 DEF Accept, environment, Accepting, ServingInv
<1>18. ASSUME NEW r \in Requests, Answer(r) PROVE ServingInv'
  BY <1>18, <1>0 DEF Answer, environment, ServingInv
<1>19. CASE UNCHANGED vars
  BY <1>19 DEF vars, environment, ServingInv
<1> QED
  BY <1>1, <1>2, <1>3, <1>4, <1>5, <1>6, <1>7, <1>8, <1>9, <1>10, <1>11, <1>12, <1>13, <1>14,
     <1>15, <1>16, <1>17, <1>18, <1>19
     DEF Next, Main, Stop

\* The configuration is made of a complete document, and goes last.
LEMMA ConfigStep == TypeOK /\ ServingInv /\ ConfigInv /\ [Next]_vars => ConfigInv'
<1> SUFFICES ASSUME TypeOK /\ ServingInv /\ ConfigInv, [Next]_vars PROVE ConfigInv'
  OBVIOUS
<1>1. CASE Construct
  <2>1. CASE IsNext("openid_config")
    BY <1>1, <2>1, CreatedIsUsable DEF Construct, CanConstruct, ConfigInv, Usable
  <2>2. CASE ~IsNext("openid_config")
    BY <1>1, <2>2, EightObjects DEF Construct, ConfigInv, Usable
  <2> QED
    BY <2>1, <2>2
<1>2. CASE ConstructThrows
  BY <1>2 DEF ConstructThrows, ConfigInv, Usable
<1>3. CASE CallHandle
  BY <1>3 DEF CallHandle, ConfigInv, Usable
<1>4. CASE Destroy
  BY <1>4 DEF Destroy, ConfigInv, Usable
<1>5. CASE Return
  BY <1>5 DEF Return, Gone, ConfigInv
<1>6. CASE HttpListens
  BY <1>6 DEF HttpListens, ConfigInv, Usable
<1>7. CASE GrpcStarts
  BY <1>7 DEF GrpcStarts, Gone, ConfigInv, Usable
<1>8. CASE GrpcAssigns
  BY <1>8 DEF GrpcAssigns, ConfigInv, Usable
<1>9. CASE ServerReturns
  BY <1>9 DEF ServerReturns, ConfigInv, Usable
<1>10. CASE CliCall
  BY <1>10 DEF CliCall, ConfigInv, Usable
<1>11. CASE HttpStop
  BY <1>11 DEF HttpStop, ConfigInv, Usable
<1>12. CASE GrpcStop
  BY <1>12 DEF GrpcStop, Gone, ConfigInv, Usable
<1>13. CASE CliStop
  BY <1>13 DEF CliStop, ConfigInv, Usable
<1>14. CASE Sigterm
  BY <1>14 DEF Sigterm, Gone, ConfigInv, Usable
<1>15. CASE Restart
  BY <1>15 DEF Restart, TypeOK, ServingInv, ConfigInv
<1>16. CASE Change
  BY <1>16 DEF Change, ConfigInv, Usable
<1>17. ASSUME NEW r \in Requests, Accept(r) PROVE ConfigInv'
  BY <1>17 DEF Accept, ConfigInv, Usable
<1>18. ASSUME NEW r \in Requests, Answer(r) PROVE ConfigInv'
  BY <1>18 DEF Answer, ConfigInv, Usable
<1>19. CASE UNCHANGED vars
  BY <1>19 DEF vars, ConfigInv, Usable
<1> QED
  BY <1>1, <1>2, <1>3, <1>4, <1>5, <1>6, <1>7, <1>8, <1>9, <1>10, <1>11, <1>12, <1>13, <1>14,
     <1>15, <1>16, <1>17, <1>18, <1>19
     DEF Next, Main, Stop

\* Every reachable state satisfies the inductive invariant.
THEOREM Invariance == Spec => []IInv
<1>1. IInv /\ [Next]_vars => IInv'
  BY TypeStep, ServingStep, ConfigStep DEF IInv
<1> QED
  BY InitIInv, <1>1, PTL DEF Spec

\* The types hold, and there is an exit status when, and only when, the process has ended.
THEOREM TypeCorrect == Spec => []TypeOK
<1>1. IInv => TypeOK
  BY DEF IInv
<1> QED
  BY Invariance, <1>1, PTL

\* However the process is stopped, nothing a request may touch is destroyed before its end.
THEOREM RequestsEndFirst == Spec => []NothingIsUsedAfterItsEnd
<1>1. IInv => NothingIsUsedAfterItsEnd
  BY DEF IInv, ServingInv, NothingIsUsedAfterItsEnd
<1> QED
  BY Invariance, <1>1, PTL

\* Whatever the identity provider answers, the service only accepts requests with a
\* configuration that has every required member.
THEOREM ServesConfigured == Spec => []AcceptsOnlyConfigured
<1>1. IInv => AcceptsOnlyConfigured
  <2> SUFFICES ASSUME IInv, Accepting
               PROVE  config # Down /\ \A f \in Required : config[f] = "value"
    BY DEF AcceptsOnlyConfigured
  <2>1. objects # 0
    BY EightObjects DEF IInv, ServingInv, Accepting
  <2>2. Usable
    BY <2>1 DEF IInv, ConfigInv
  <2> QED
    BY <2>2, LifecycleAssumption DEF Usable
<1> QED
  BY Invariance, <1>1, PTL
=============================================================================
