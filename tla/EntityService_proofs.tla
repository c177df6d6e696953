------------------------ MODULE EntityService_proofs ------------------------
(* Theorems about EntityService for any number of threads, ids, values and retries. *)
EXTENDS EntityService, FiniteSetTheorems, TLAPS

\* What a thread's position says about its entity, its PUT and its answer.
InCall ==
  \A t \in Threads :
    /\ Active(t) => entity[t] \in Entities
    /\ wire[t] # "none" <=> pc[t] = "waiting"
    /\ wire[t] = "ok" => delivered[t]
    /\ pc[t] = "backoff" => retries[t] < MaxRetryCount
    /\ alone[t] \/ delivered[t] => Active(t)

\* What is under way is finite, so that its number means something.
LateOK ==
  /\ late \in [Services -> SUBSET Entities]
  /\ \A s \in Services : IsFiniteSet(late[s]) /\ Cardinality(late[s]) <= MaxLate

\* Whoever may announce an entity has stored it, and so has whoever has answered OK.
StoredFirst ==
  \A t \in Threads :
    pc[t] \in {"notifying", "waiting", "backoff"} \/ (pc[t] = "answered" /\ answer[t] = "ok")
      => entity[t] \in written

\* Nothing reaches downstream, now or later, that upstream has not stored.
FromUpstream == OnlyStoredIsAnnounced /\ late["downstream"] \subseteq written

\* A thread that is about to announce what it has stored, or has failed to.
Owes(t, e) ==
  /\ entity[t] = e
  /\ pc[t] \in {"notifying", "backoff"} \/ (pc[t] = "answered" /\ answer[t] = "error")

\* A thread that has failed and will say so.
Fails(t, e) == entity[t] = e /\ pc[t] = "answered" /\ answer[t] = "error"

\* As long as nothing has failed, somebody answers for every change that is not announced
\* yet, and for every late write that may become one.
AllAccounted ==
  allOk =>
    /\ \A e \in written : e \in announced \/ \E t \in Threads : Owes(t, e)
    /\ \A e \in late["upstream"] : \E t \in Threads : Fails(t, e)

\* Nobody else is concerned with the entity of t, and what is still under way is its own.
Undisturbed(t) ==
  /\ \A u \in Threads : Active(u) /\ entity[u].id = entity[t].id => u = t
  /\ \A s \in Services : \A w \in late[s] : w.id = entity[t].id => w = entity[t]

Holds(s, e) == repo[s][e.id] = e.value

\* Of a call that is alone, both services hold the value from the moment on they got it.
Mirrors(t) ==
  /\ pc[t] \in {"notifying", "waiting", "backoff"} \/ (pc[t] = "answered" /\ answer[t] = "ok")
       => Holds("upstream", entity[t])
  /\ delivered[t] => Holds("downstream", entity[t])

AloneInv == \A t \in Threads : alone[t] => Undisturbed(t) /\ (notifier = "http" => Mirrors(t))

\* The inductive invariant.
IInv ==
  /\ TypeOK /\ LateOK /\ InCall /\ StoredFirst /\ FromUpstream /\ OkMeansDelivered
  /\ AllAccounted /\ AloneInv

\* The inductive invariant holds before the first request.
LEMMA InitIInv == Init => IInv
<1> SUFFICES ASSUME Init PROVE IInv
  OBVIOUS
<1>1. TypeOK
  BY ConstantsAssumption, FS_EmptySet DEF Init, TypeOK
<1>2. LateOK
  BY ConstantsAssumption, FS_EmptySet DEF Init, LateOK
<1>3. InCall
  BY DEF Init, InCall, Active
<1>4. StoredFirst /\ OkMeansDelivered
  BY DEF Init, StoredFirst, OkMeansDelivered
<1>5. AllAccounted
  BY DEF Init, AllAccounted, Services
<1>6. FromUpstream
  BY DEF Init, FromUpstream, OnlyStoredIsAnnounced, Services
<1>7. AloneInv
  BY DEF Init, AloneInv
<1> QED
  BY <1>1, <1>2, <1>3, <1>4, <1>5, <1>6, <1>7 DEF IInv

\* What an entity is made of.
LEMMA EntityFields ==
  ASSUME NEW e \in Entities
  PROVE  e.id \in Ids /\ e.value \in Values /\ e = [id |-> e.id, value |-> e.value]
BY DEF Entities

\* What the services hold after one of them has stored an entity.
LEMMA WrittenRepo ==
  ASSUME TypeOK, NEW s \in Services, NEW e \in Entities
  PROVE  /\ Written(s, e) \in [Services -> [Ids -> Values \cup {Absent}]]
         /\ \A r \in Services, i \in Ids :
              Written(s, e)[r][i] = IF r = s /\ i = e.id THEN e.value ELSE repo[r][i]
BY EntityFields DEF TypeOK, Written

\* One late write more, within the bound, or one less.
LEMMA LateWrites ==
  ASSUME LateOK, NEW s \in Services, NEW e \in Entities
  PROVE  /\ \A r \in Services, x \in {late[s] \cup {e}, late[s] \ {e}} :
              LET l == [late EXCEPT ![s] = x]
              IN  l \in [Services -> SUBSET Entities] /\ IsFiniteSet(l[r])
         /\ Cardinality(late[s] \ {e}) <= MaxLate
<1>1. IsFiniteSet(late[s]) /\ Cardinality(late[s]) <= MaxLate /\ late[s] \in SUBSET Entities
  BY DEF LateOK
<1>2. IsFiniteSet(late[s] \cup {e}) /\ IsFiniteSet(late[s] \ {e})
  BY <1>1, FS_AddElement, FS_RemoveElement
<1>3. Cardinality(late[s] \ {e}) <= Cardinality(late[s])
  <2>1. late[s] \ {e} \in SUBSET late[s]
    OBVIOUS
  <2> QED
    BY <1>1, <2>1, FS_Subset
<1>4. Cardinality(late[s]) \in Nat /\ Cardinality(late[s] \ {e}) \in Nat
  BY <1>1, <1>2, FS_CardinalityType
<1>5. Cardinality(late[s] \ {e}) <= MaxLate
  BY <1>1, <1>3, <1>4, ConstantsAssumption
<1>6. ASSUME NEW r \in Services, NEW x \in {late[s] \cup {e}, late[s] \ {e}}
      PROVE  LET l == [late EXCEPT ![s] = x]
             IN  l \in [Services -> SUBSET Entities] /\ IsFiniteSet(l[r])
  BY <1>1, <1>2, <1>6 DEF LateOK
<1> QED
  BY <1>5, <1>6

\* Giving up on a write leaves the late writes within their bound.
LEMMA AbandonKeeps ==
  ASSUME LateOK, NEW s \in Services, NEW e \in Entities, Abandon(s, e)
  PROVE  LateOK'
<1>1. CASE UNCHANGED late
  BY <1>1 DEF LateOK
<1>2. CASE /\ Cardinality(late[s] \cup {e}) <= MaxLate
           /\ late' = [late EXCEPT ![s] = @ \cup {e}]
  <2>1. late' \in [Services -> SUBSET Entities] /\ \A r \in Services : IsFiniteSet(late'[r])
    BY <1>2, LateWrites
  <2>2. \A r \in Services : Cardinality(late'[r]) <= MaxLate
    BY <1>2 DEF LateOK
  <2> QED
    BY <2>1, <2>2 DEF LateOK
<1> QED
  BY <1>1, <1>2 DEF Abandon

\* Calls begin with an entity and without a PUT; only a retry that may be made waits.
LEMMA InCallStep == TypeOK /\ InCall /\ [Next]_vars => InCall'
<1> SUFFICES ASSUME TypeOK /\ InCall, [Next]_vars PROVE InCall'
  OBVIOUS
<1>1. ASSUME NEW t \in Threads, Store(t) PROVE InCall'
  BY <1>1 DEF Store, AfterStore, InCall, Active
<1>2. ASSUME NEW t \in Threads, StoreFails(t) PROVE InCall'
  BY <1>2 DEF StoreFails, AfterStoreThrows, InCall, Active
<1>3. ASSUME NEW t \in Threads, Send(t) PROVE InCall'
  BY <1>3 DEF Send, TypeOK, InCall, Active
<1>4. ASSUME NEW t \in Threads, ConnectFails(t) PROVE InCall'
  BY <1>4 DEF ConnectFails, Failed, MayRetry, TypeOK, InCall, Active
<1>5. ASSUME NEW t \in Threads, Timeout(t) PROVE InCall'
  BY <1>5 DEF Timeout, Failed, MayRetry, TypeOK, InCall, Active
<1>6. ASSUME NEW t \in Threads, PutAnswered(t) PROVE InCall'
  BY <1>6 DEF PutAnswered, Failed, MayRetry, TypeOK, InCall, Active
<1>7. ASSUME NEW t \in Threads, Retry(t) PROVE InCall'
  BY <1>7 DEF Retry, TypeOK, InCall, Active
<1>8. ASSUME NEW t \in Threads, Return(t) PROVE InCall'
  BY <1>8 DEF Return, TypeOK, InCall, Active
<1>9. ASSUME NEW t \in Threads, NEW e \in Entities, NEW wellformed \in BOOLEAN,
             Receive(t, e, wellformed)
      PROVE  InCall'
  BY <1>9 DEF Receive, TypeOK, InCall, Active
<1>10. ASSUME NEW t \in Threads, Deliver(t) PROVE InCall'
  BY <1>10 DEF Deliver, TypeOK, InCall, Active
<1>11. ASSUME NEW t \in Threads, DeliveryFails(t) PROVE InCall'
  BY <1>11 DEF DeliveryFails, Failures, InCall, Active
<1>12. ASSUME NEW t \in Threads, Publish(t) PROVE InCall'
  BY <1>12 DEF Publish, TypeOK, InCall, Active
<1>13. ASSUME NEW t \in Threads, PublishFails(t) PROVE InCall'
  BY <1>13 DEF PublishFails, InCall, Active
<1>14. ASSUME NEW s \in Services, NEW e \in Entities, Settle(s, e) PROVE InCall'
  BY <1>14 DEF Settle, InCall, Active
<1>15. CASE Crash
  BY <1>15 DEF Crash, InCall, Active
<1>16. CASE UNCHANGED vars
  BY <1>16 DEF vars, InCall, Active
<1> QED
  BY <1>1, <1>2, <1>3, <1>4, <1>5, <1>6, <1>7, <1>8, <1>9, <1>10, <1>11, <1>12, <1>13, <1>14,
     <1>15, <1>16
     DEF Next, Call, Proceed, Outside

\* Announcing comes after storing, and so does OK.
LEMMA StoredFirstStep == TypeOK /\ StoredFirst /\ [Next]_vars => StoredFirst'
<1> SUFFICES ASSUME TypeOK /\ StoredFirst, [Next]_vars PROVE StoredFirst'
  OBVIOUS
<1>1. ASSUME NEW t \in Threads, Store(t) PROVE StoredFirst'
  BY <1>1 DEF Store, StoredFirst
<1>2. ASSUME NEW t \in Threads, StoreFails(t) PROVE StoredFirst'
  BY <1>2 DEF StoreFails, AfterStoreThrows, TypeOK, StoredFirst
<1>3. ASSUME NEW t \in Threads, Send(t) PROVE StoredFirst'
  BY <1>3 DEF Send, StoredFirst
<1>4. ASSUME NEW t \in Threads, ConnectFails(t) PROVE StoredFirst'
  BY <1>4 DEF ConnectFails, Failed, TypeOK, StoredFirst
<1>5. ASSUME NEW t \in Threads, Timeout(t) PROVE StoredFirst'
  BY <1>5 DEF Timeout, Failed, TypeOK, StoredFirst
<1>6. ASSUME NEW t \in Threads, PutAnswered(t) PROVE StoredFirst'
  BY <1>6 DEF PutAnswered, Failed, TypeOK, StoredFirst
<1>7. ASSUME NEW t \in Threads, Retry(t) PROVE StoredFirst'
  BY <1>7 DEF Retry, StoredFirst
<1>8. ASSUME NEW t \in Threads, Return(t) PROVE StoredFirst'
  BY <1>8 DEF Return, TypeOK, StoredFirst
<1>9. ASSUME NEW t \in Threads, NEW e \in Entities, NEW wellformed \in BOOLEAN,
             Receive(t, e, wellformed)
      PROVE  StoredFirst'
  BY <1>9 DEF Receive, TypeOK, StoredFirst
<1>10. ASSUME NEW t \in Threads, Deliver(t) PROVE StoredFirst'
  BY <1>10 DEF Deliver, StoredFirst
<1>11. ASSUME NEW t \in Threads, DeliveryFails(t) PROVE StoredFirst'
  BY <1>11 DEF DeliveryFails, StoredFirst
<1>12. ASSUME NEW t \in Threads, Publish(t) PROVE StoredFirst'
  BY <1>12 DEF Publish, StoredFirst
<1>13. ASSUME NEW t \in Threads, PublishFails(t) PROVE StoredFirst'
  BY <1>13 DEF PublishFails, StoredFirst
<1>14. ASSUME NEW s \in Services, NEW e \in Entities, Settle(s, e) PROVE StoredFirst'
  BY <1>14 DEF Settle, StoredFirst
<1>15. CASE Crash
  BY <1>15 DEF Crash, StoredFirst
<1>16. CASE UNCHANGED vars
  BY <1>16 DEF vars, StoredFirst
<1> QED
  BY <1>1, <1>2, <1>3, <1>4, <1>5, <1>6, <1>7, <1>8, <1>9, <1>10, <1>11, <1>12, <1>13, <1>14,
     <1>15, <1>16
     DEF Next, Call, Proceed, Outside

\* OK on the wire means that the entity has been taken.
LEMMA OkMeansDeliveredStep == TypeOK /\ InCall /\ StoredFirst /\ OkMeansDelivered /\ [Next]_vars => OkMeansDelivered'
<1> SUFFICES ASSUME TypeOK /\ InCall /\ StoredFirst /\ OkMeansDelivered, [Next]_vars PROVE OkMeansDelivered'
  OBVIOUS
<1>1. ASSUME NEW t \in Threads, Store(t) PROVE OkMeansDelivered'
  BY <1>1 DEF Store, AfterStore, OkMeansDelivered
<1>2. ASSUME NEW t \in Threads, StoreFails(t) PROVE OkMeansDelivered'
  BY <1>2 DEF StoreFails, TypeOK, OkMeansDelivered
<1>3. ASSUME NEW t \in Threads, Send(t) PROVE OkMeansDelivered'
  BY <1>3 DEF Send, OkMeansDelivered
<1>4. ASSUME NEW t \in Threads, ConnectFails(t) PROVE OkMeansDelivered'
  BY <1>4 DEF ConnectFails, Failed, AnswerAfterFailure, TypeOK, OkMeansDelivered
<1>5. ASSUME NEW t \in Threads, Timeout(t) PROVE OkMeansDelivered'
  BY <1>5 DEF Timeout, Failed, AnswerAfterFailure, TypeOK, OkMeansDelivered
<1>6. ASSUME NEW t \in Threads, PutAnswered(t) PROVE OkMeansDelivered'
  BY <1>6
  DEF PutAnswered, Failed, AnswerAfterFailure, TypeOK, InCall, StoredFirst, OkMeansDelivered
<1>7. ASSUME NEW t \in Threads, Retry(t) PROVE OkMeansDelivered'
  BY <1>7 DEF Retry, OkMeansDelivered
<1>8. ASSUME NEW t \in Threads, Return(t) PROVE OkMeansDelivered'
  BY <1>8 DEF Return, TypeOK, OkMeansDelivered
<1>9. ASSUME NEW t \in Threads, NEW e \in Entities, NEW wellformed \in BOOLEAN,
             Receive(t, e, wellformed)
      PROVE  OkMeansDelivered'
  BY <1>9 DEF Receive, TypeOK, OkMeansDelivered
<1>10. ASSUME NEW t \in Threads, Deliver(t) PROVE OkMeansDelivered'
  BY <1>10 DEF Deliver, OkMeansDelivered
<1>11. ASSUME NEW t \in Threads, DeliveryFails(t) PROVE OkMeansDelivered'
  BY <1>11 DEF DeliveryFails, OkMeansDelivered
<1>12. ASSUME NEW t \in Threads, Publish(t) PROVE OkMeansDelivered'
  BY <1>12 DEF Publish, OkMeansDelivered
<1>13. ASSUME NEW t \in Threads, PublishFails(t) PROVE OkMeansDelivered'
  BY <1>13 DEF PublishFails, OkMeansDelivered
<1>14. ASSUME NEW s \in Services, NEW e \in Entities, Settle(s, e) PROVE OkMeansDelivered'
  BY <1>14 DEF Settle, OkMeansDelivered
<1>15. CASE Crash
  BY <1>15 DEF Crash, OkMeansDelivered
<1>16. CASE UNCHANGED vars
  BY <1>16 DEF vars, OkMeansDelivered
<1> QED
  BY <1>1, <1>2, <1>3, <1>4, <1>5, <1>6, <1>7, <1>8, <1>9, <1>10, <1>11, <1>12, <1>13, <1>14,
     <1>15, <1>16
     DEF Next, Call, Proceed, Outside

\* Late writes stay finitely many, and within their bound.
LEMMA LateStep == InCall /\ LateOK /\ [Next]_vars => LateOK'
<1> SUFFICES ASSUME InCall /\ LateOK, [Next]_vars PROVE LateOK'
  OBVIOUS
<1>1. ASSUME NEW t \in Threads, Store(t) PROVE LateOK'
  BY <1>1 DEF Store, LateOK
<1>2. ASSUME NEW t \in Threads, StoreFails(t) PROVE LateOK'
  <2>1. entity[t] \in Entities
    BY <1>2 DEF StoreFails, InCall, Active
  <2>2. UNCHANGED late \/ Abandon("upstream", entity[t])
    BY <1>2 DEF StoreFails, StoreThrows
  <2> QED
    BY <2>1, <2>2, AbandonKeeps DEF LateOK, Services
<1>3. ASSUME NEW t \in Threads, Send(t) PROVE LateOK'
  BY <1>3 DEF Send, LateOK
<1>4. ASSUME NEW t \in Threads, ConnectFails(t) PROVE LateOK'
  BY <1>4 DEF ConnectFails, LateOK
<1>5. ASSUME NEW t \in Threads, Timeout(t) PROVE LateOK'
  <2>1. entity[t] \in Entities
    BY <1>5 DEF Timeout, InCall, Active
  <2>2. UNCHANGED late \/ Abandon("downstream", entity[t])
    BY <1>5 DEF Timeout
  <2> QED
    BY <2>1, <2>2, AbandonKeeps DEF LateOK, Services
<1>6. ASSUME NEW t \in Threads, PutAnswered(t) PROVE LateOK'
  BY <1>6 DEF PutAnswered, LateOK
<1>7. ASSUME NEW t \in Threads, Retry(t) PROVE LateOK'
  BY <1>7 DEF Retry, LateOK
<1>8. ASSUME NEW t \in Threads, Return(t) PROVE LateOK'
  BY <1>8 DEF Return, LateOK
<1>9. ASSUME NEW t \in Threads, NEW e \in Entities, NEW wellformed \in BOOLEAN,
             Receive(t, e, wellformed)
      PROVE  LateOK'
  BY <1>9 DEF Receive, LateOK
<1>10. ASSUME NEW t \in Threads, Deliver(t) PROVE LateOK'
  BY <1>10 DEF Deliver, LateOK
<1>11. ASSUME NEW t \in Threads, DeliveryFails(t) PROVE LateOK'
  <2>1. entity[t] \in Entities
    BY <1>11 DEF DeliveryFails, InCall, Active
  <2>2. UNCHANGED late \/ Abandon("downstream", entity[t])
    BY <1>11 DEF DeliveryFails, StoreThrows
  <2> QED
    BY <2>1, <2>2, AbandonKeeps DEF LateOK, Services
<1>12. ASSUME NEW t \in Threads, Publish(t) PROVE LateOK'
  <2>1. entity[t] \in Entities
    BY <1>12 DEF Publish, InCall, Active
  <2>2. Abandon("downstream", entity[t])
    BY <1>12 DEF Publish, Abandon
  <2> QED
    BY <2>1, <2>2, AbandonKeeps DEF Services
<1>13. ASSUME NEW t \in Threads, PublishFails(t) PROVE LateOK'
  <2>1. entity[t] \in Entities
    BY <1>13 DEF PublishFails, InCall, Active
  <2> QED
    BY <1>13, <2>1, AbandonKeeps DEF PublishFails, Services
<1>14. ASSUME NEW s \in Services, NEW e \in Entities, Settle(s, e) PROVE LateOK'
  <2>1. CASE UNCHANGED late
    BY <2>1 DEF LateOK
  <2>2. CASE late' = [late EXCEPT ![s] = @ \ {e}]
    <3>1. late' \in [Services -> SUBSET Entities] /\ \A r \in Services : IsFiniteSet(late'[r])
      BY <2>2, LateWrites
    <3>2. \A r \in Services : Cardinality(late'[r]) <= MaxLate
      BY <2>2, LateWrites DEF LateOK
    <3> QED
      BY <3>1, <3>2 DEF LateOK
  <2> QED
    BY <1>14, <2>1, <2>2 DEF Settle
<1>15. CASE Crash
  <2>1. PICK D \in SUBSET Threads :
          LET doing(s) == {entity[t] : t \in {u \in D :
                             IF s = "upstream" THEN pc[u] = "storing" ELSE wire[u] = "put"}}
          IN  late' = [s \in Services |-> late[s] \cup doing(s)]
    BY <1>15 DEF Crash
  <2>2. ASSUME NEW s \in Services
        PROVE  late'[s] \in SUBSET Entities /\ IsFiniteSet(late'[s])
    <3> DEFINE U == {u \in D : IF s = "upstream" THEN pc[u] = "storing" ELSE wire[u] = "put"}
               doing == {entity[u] : u \in U}
    <3>1. U \in SUBSET Threads /\ late'[s] = late[s] \cup doing
      BY <2>1
    <3>2. doing \in SUBSET Entities
      BY <3>1 DEF InCall, Active
    <3>3. [u \in U |-> entity[u]] \in Surjection(U, doing)
      BY DEF Surjection
    <3> HIDE DEF U, doing
    <3>4. IsFiniteSet(doing)
      BY <3>1, <3>3, FS_Subset, FS_Surjection, ConstantsAssumption
    <3> QED
      BY <3>1, <3>2, <3>4, FS_Union DEF LateOK
  <2>3. \A s \in Services : Cardinality(late'[s]) <= MaxLate
    BY <1>15 DEF Crash
  <2>4. late' = [s \in Services |-> late'[s]]
    BY <2>1
  <2> QED
    BY <2>2, <2>3, <2>4 DEF LateOK
<1>16. CASE UNCHANGED vars
  BY <1>16 DEF vars, LateOK
<1> QED
  BY <1>1, <1>2, <1>3, <1>4, <1>5, <1>6, <1>7, <1>8, <1>9, <1>10, <1>11, <1>12, <1>13, <1>14,
     <1>15, <1>16
     DEF Next, Call, Proceed, Outside

\* Every step keeps the types.
LEMMA TypeStep == TypeOK /\ LateOK /\ InCall /\ [Next]_vars => TypeOK'
<1> SUFFICES ASSUME TypeOK /\ LateOK /\ InCall, [Next]_vars PROVE TypeOK'
  OBVIOUS
<1>a. \A s \in Services, e \in Entities :
        Written(s, e) \in [Services -> [Ids -> Values \cup {Absent}]]
  BY WrittenRepo
<1>b. LateOK'
  BY LateStep
<1>c. notifier' = notifier
  BY DEF Next, Proceed, vars
<1>1. ASSUME NEW t \in Threads, Store(t) PROVE TypeOK'
  BY <1>1, <1>a, <1>c DEF Store, AfterStore, TypeOK, InCall, Active, Services
<1>2. ASSUME NEW t \in Threads, StoreFails(t) PROVE TypeOK'
  BY <1>2, <1>a, <1>b, <1>c
  DEF StoreFails, StoreThrows, AfterStoreThrows, TypeOK, InCall, Active, LateOK, Services
<1>3. ASSUME NEW t \in Threads, Send(t) PROVE TypeOK'
  BY <1>3, <1>c DEF Send, TypeOK, InCall, Active
<1>4. ASSUME NEW t \in Threads, ConnectFails(t) PROVE TypeOK'
  BY <1>4, <1>c DEF ConnectFails, Failed, AnswerAfterFailure, TypeOK
<1>5. ASSUME NEW t \in Threads, Timeout(t) PROVE TypeOK'
  BY <1>5, ConstantsAssumption, <1>a, <1>b, <1>c
     DEF Timeout, Failed, MayRetry, AnswerAfterFailure, Abandon, TypeOK, InCall, Active, LateOK,
         Services
<1>6. ASSUME NEW t \in Threads, PutAnswered(t) PROVE TypeOK'
  <2>1. pc' \in [Threads -> {"idle", "storing", "notifying", "waiting", "backoff", "answered"}]
    BY <1>6 DEF PutAnswered, Failed, TypeOK
  <2>2. answer' \in [Threads -> {"none", "ok", "invalid", "error"}]
    BY <1>6 DEF PutAnswered, Failed, AnswerAfterFailure, TypeOK
  <2>3. wire' \in [Threads -> {"none", "put", "ok"} \cup Failures]
    BY <1>6 DEF PutAnswered, TypeOK
  <2> QED
    BY <1>6, <2>1, <2>2, <2>3, <1>c DEF PutAnswered, TypeOK
<1>7. ASSUME NEW t \in Threads, Retry(t) PROVE TypeOK'
  BY <1>7, ConstantsAssumption, <1>c DEF Retry, Counted, TypeOK, InCall
<1>8. ASSUME NEW t \in Threads, Return(t) PROVE TypeOK'
  BY <1>8, ConstantsAssumption, <1>c DEF Return, TypeOK
<1>9. ASSUME NEW t \in Threads, NEW e \in Entities, NEW wellformed \in BOOLEAN,
             Receive(t, e, wellformed)
      PROVE  TypeOK'
  BY <1>9, <1>c DEF Receive, TypeOK
<1>10. ASSUME NEW t \in Threads, Deliver(t) PROVE TypeOK'
  BY <1>10, <1>a, <1>c DEF Deliver, TypeOK, InCall, Active, Services
<1>11. ASSUME NEW t \in Threads, DeliveryFails(t) PROVE TypeOK'
  BY <1>11, <1>a, <1>b, <1>c
  DEF DeliveryFails, StoreThrows, TypeOK, InCall, Active, LateOK, Services
<1>12. ASSUME NEW t \in Threads, Publish(t) PROVE TypeOK'
  BY <1>12, <1>c DEF Publish, TypeOK, InCall, Active
<1>13. ASSUME NEW t \in Threads, PublishFails(t) PROVE TypeOK'
  BY <1>13, <1>b, <1>c DEF PublishFails, Failures, TypeOK, LateOK
<1>14. ASSUME NEW s \in Services, NEW e \in Entities, Settle(s, e) PROVE TypeOK'
  BY <1>14, <1>a, <1>b, <1>c DEF Settle, TypeOK, LateOK
<1>15. CASE Crash
  <2>1. /\ pc' = [t \in Threads |-> "idle"] /\ entity' = [t \in Threads |-> NoEntity]
        /\ wire' = [t \in Threads |-> "none"] /\ retries' = [t \in Threads |-> 0]
        /\ answer' = [t \in Threads |-> "none"] /\ allOk' = FALSE
    BY <1>15 DEF Crash
  <2>2. /\ delivered' = [t \in Threads |-> FALSE] /\ alone' = [t \in Threads |-> FALSE]
        /\ UNCHANGED <<repo, written, announced>>
    BY <1>15 DEF Crash
  <2>3. /\ pc' \in [Threads -> {"idle", "storing", "notifying", "waiting", "backoff", "answered"}]
        /\ entity' \in [Threads -> Entities \cup {NoEntity}]
        /\ wire' \in [Threads -> {"none", "put", "ok"} \cup Failures]
        /\ answer' \in [Threads -> {"none", "ok", "invalid", "error"}]
    BY <2>1
  <2>4. retries' \in [Threads -> 0..MaxRetryCount]
    BY <2>1, ConstantsAssumption
  <2>5. delivered' \in [Threads -> BOOLEAN] /\ alone' \in [Threads -> BOOLEAN]
    BY <2>2
  <2> QED
    BY <2>1, <2>2, <2>3, <2>4, <2>5, <1>b, <1>c DEF TypeOK, LateOK
<1>16. CASE UNCHANGED vars
  BY <1>16 DEF vars, TypeOK
<1> QED
  BY <1>1, <1>2, <1>3, <1>4, <1>5, <1>6, <1>7, <1>8, <1>9, <1>10, <1>11, <1>12, <1>13, <1>14,
     <1>15, <1>16
     DEF Next, Call, Proceed, Outside

\* Only what is stored is sent, and only what has been sent arrives.
LEMMA FromUpstreamStep == TypeOK /\ InCall /\ StoredFirst /\ FromUpstream /\ [Next]_vars => FromUpstream'
<1> SUFFICES ASSUME TypeOK /\ InCall /\ StoredFirst /\ FromUpstream, [Next]_vars PROVE FromUpstream'
  OBVIOUS
<1>a. \A s \in Services, e \in Entities, i \in Ids :
        Written(s, e)["downstream"][i] =
          IF s = "downstream" /\ i = e.id THEN e.value ELSE repo["downstream"][i]
  BY WrittenRepo DEF Services
<1>b. \A e \in Entities : e = [id |-> e.id, value |-> e.value]
  BY EntityFields
<1>1. ASSUME NEW t \in Threads, Store(t) PROVE FromUpstream'
  BY <1>1, <1>a DEF Store, InCall, Active, FromUpstream, OnlyStoredIsAnnounced, Services
<1>2. ASSUME NEW t \in Threads, StoreFails(t) PROVE FromUpstream'
  BY <1>2, <1>a
  DEF StoreFails, StoreThrows, Abandon, TypeOK, InCall, Active, FromUpstream,
      OnlyStoredIsAnnounced, Services
<1>3. ASSUME NEW t \in Threads, Send(t) PROVE FromUpstream'
  BY <1>3 DEF Send, StoredFirst, FromUpstream, OnlyStoredIsAnnounced
<1>4. ASSUME NEW t \in Threads, ConnectFails(t) PROVE FromUpstream'
  BY <1>4 DEF ConnectFails, FromUpstream, OnlyStoredIsAnnounced
<1>5. ASSUME NEW t \in Threads, Timeout(t) PROVE FromUpstream'
  BY <1>5 DEF Timeout, Abandon, TypeOK, StoredFirst, FromUpstream, OnlyStoredIsAnnounced
<1>6. ASSUME NEW t \in Threads, PutAnswered(t) PROVE FromUpstream'
  BY <1>6 DEF PutAnswered, FromUpstream, OnlyStoredIsAnnounced
<1>7. ASSUME NEW t \in Threads, Retry(t) PROVE FromUpstream'
  BY <1>7 DEF Retry, FromUpstream, OnlyStoredIsAnnounced
<1>8. ASSUME NEW t \in Threads, Return(t) PROVE FromUpstream'
  BY <1>8 DEF Return, FromUpstream, OnlyStoredIsAnnounced
<1>9. ASSUME NEW t \in Threads, NEW e \in Entities, NEW wellformed \in BOOLEAN,
             Receive(t, e, wellformed)
      PROVE  FromUpstream'
  BY <1>9 DEF Receive, FromUpstream, OnlyStoredIsAnnounced
<1>10. ASSUME NEW t \in Threads, Deliver(t) PROVE FromUpstream'
  BY <1>10, <1>a, <1>b
  DEF Deliver, InCall, Active, StoredFirst, FromUpstream, OnlyStoredIsAnnounced, Services
<1>11. ASSUME NEW t \in Threads, DeliveryFails(t) PROVE FromUpstream'
  BY <1>11, <1>a, <1>b
  DEF DeliveryFails, StoreThrows, Abandon, TypeOK, InCall, StoredFirst, FromUpstream,
      OnlyStoredIsAnnounced, Services
<1>12. ASSUME NEW t \in Threads, Publish(t) PROVE FromUpstream'
  BY <1>12 DEF Publish, InCall, StoredFirst, FromUpstream, OnlyStoredIsAnnounced
<1>13. ASSUME NEW t \in Threads, PublishFails(t) PROVE FromUpstream'
  BY <1>13
  DEF PublishFails, Abandon, TypeOK, InCall, StoredFirst, FromUpstream,
      OnlyStoredIsAnnounced
<1>14. ASSUME NEW s \in Services, NEW e \in Entities, Settle(s, e) PROVE FromUpstream'
  BY <1>14, <1>a, <1>b DEF Settle, TypeOK, FromUpstream, OnlyStoredIsAnnounced, Services
<1>15. CASE Crash
  BY <1>15 DEF Crash, InCall, StoredFirst, FromUpstream, OnlyStoredIsAnnounced, Services
<1>16. CASE UNCHANGED vars
  BY <1>16 DEF vars, FromUpstream, OnlyStoredIsAnnounced
<1> QED
  BY <1>1, <1>2, <1>3, <1>4, <1>5, <1>6, <1>7, <1>8, <1>9, <1>10, <1>11, <1>12, <1>13, <1>14,
     <1>15, <1>16
     DEF Next, Call, Proceed, Outside

\* A change that is not announced yet stays accounted for until a call fails.
LEMMA AllAccountedStep == TypeOK /\ AllAccounted /\ [Next]_vars => AllAccounted'
<1> SUFFICES ASSUME TypeOK /\ AllAccounted, [Next]_vars PROVE AllAccounted'
  OBVIOUS
<1>1. ASSUME NEW t \in Threads, Store(t) PROVE AllAccounted'
  BY <1>1 DEF Store, AfterStore, TypeOK, AllAccounted, Owes, Fails
<1>2. ASSUME NEW t \in Threads, StoreFails(t) PROVE AllAccounted'
  BY <1>2
  DEF StoreFails, StoreThrows, Abandon, AfterStoreThrows, TypeOK, AllAccounted, Owes, Fails
<1>3. ASSUME NEW t \in Threads, Send(t) PROVE AllAccounted'
  BY <1>3 DEF Send, AllAccounted, Owes, Fails
<1>4. ASSUME NEW t \in Threads, ConnectFails(t) PROVE AllAccounted'
  BY <1>4 DEF ConnectFails, Failed, AnswerAfterFailure, TypeOK, AllAccounted, Owes, Fails
<1>5. ASSUME NEW t \in Threads, Timeout(t) PROVE AllAccounted'
  BY <1>5 DEF Timeout, Failed, Abandon, TypeOK, AllAccounted, Owes, Fails, Services
<1>6. ASSUME NEW t \in Threads, PutAnswered(t) PROVE AllAccounted'
  BY <1>6 DEF PutAnswered, Failed, TypeOK, AllAccounted, Owes, Fails
<1>7. ASSUME NEW t \in Threads, Retry(t) PROVE AllAccounted'
  BY <1>7 DEF Retry, AllAccounted, Owes, Fails
<1>8. ASSUME NEW t \in Threads, Return(t) PROVE AllAccounted'
  <2> SUFFICES ASSUME allOk' PROVE AllAccounted'
    BY DEF AllAccounted
  <2>1. allOk /\ answer[t] # "error"
    BY <1>8 DEF Return
  <2>2. ASSUME NEW e \in written PROVE e \in announced \/ \E u \in Threads : Owes(u, e)'
    BY <1>8, <2>1 DEF Return, AllAccounted, Owes
  <2>3. ASSUME NEW e \in late["upstream"] PROVE \E u \in Threads : Fails(u, e)'
    BY <1>8, <2>1 DEF Return, AllAccounted, Fails
  <2> QED
    BY <1>8, <2>2, <2>3 DEF Return, AllAccounted
<1>9. ASSUME NEW t \in Threads, NEW e \in Entities, NEW wellformed \in BOOLEAN,
             Receive(t, e, wellformed)
      PROVE  AllAccounted'
  BY <1>9 DEF Receive, AllAccounted, Owes, Fails
<1>10. ASSUME NEW t \in Threads, Deliver(t) PROVE AllAccounted'
  BY <1>10 DEF Deliver, AllAccounted, Owes, Fails
<1>11. ASSUME NEW t \in Threads, DeliveryFails(t) PROVE AllAccounted'
  BY <1>11
  DEF DeliveryFails, StoreThrows, Abandon, TypeOK, AllAccounted, Owes, Fails, Services
<1>12. ASSUME NEW t \in Threads, Publish(t) PROVE AllAccounted'
  BY <1>12 DEF Publish, AllAccounted, Owes, Fails
<1>13. ASSUME NEW t \in Threads, PublishFails(t) PROVE AllAccounted'
  BY <1>13 DEF PublishFails, Abandon, TypeOK, AllAccounted, Owes, Fails, Services
<1>14. ASSUME NEW s \in Services, NEW e \in Entities, Settle(s, e) PROVE AllAccounted'
  BY <1>14 DEF Settle, TypeOK, AllAccounted, Owes, Fails, Services
<1>15. CASE Crash
  BY <1>15 DEF Crash, AllAccounted
<1>16. CASE UNCHANGED vars
  BY <1>16 DEF vars, AllAccounted, Owes, Fails
<1> QED
  BY <1>1, <1>2, <1>3, <1>4, <1>5, <1>6, <1>7, <1>8, <1>9, <1>10, <1>11, <1>12, <1>13, <1>14,
     <1>15, <1>16
     DEF Next, Call, Proceed, Outside

\* A call that is alone keeps its entity in both services until it is answered.
LEMMA AloneStep == TypeOK /\ InCall /\ AloneInv /\ [Next]_vars => AloneInv'
<1> SUFFICES ASSUME TypeOK /\ InCall /\ AloneInv, [Next]_vars PROVE AloneInv'
  OBVIOUS
<1>a. \A s, r \in Services, e \in Entities, i \in Ids :
        Written(s, e)[r][i] = IF r = s /\ i = e.id THEN e.value ELSE repo[r][i]
  BY WrittenRepo
<1>b. \A e \in Entities : e.id \in Ids
  BY EntityFields
<1>c. notifier' = notifier
  BY DEF Next, Proceed, vars
<1>1. ASSUME NEW t \in Threads, Store(t) PROVE AloneInv'
  BY <1>1, <1>a, <1>b, <1>c
  DEF Store, InCall, Active, AloneInv, Undisturbed, Mirrors, Holds, Services
<1>2. ASSUME NEW t \in Threads, StoreFails(t) PROVE AloneInv'
  BY <1>2, <1>a, <1>b, <1>c
     DEF StoreFails, StoreThrows, Abandon, AfterStoreThrows, TypeOK, InCall, Active, AloneInv,
         Undisturbed, Mirrors, Holds, Services
<1>3. ASSUME NEW t \in Threads, Send(t) PROVE AloneInv'
  BY <1>3, <1>c DEF Send, Active, AloneInv, Undisturbed, Mirrors, Holds
<1>4. ASSUME NEW t \in Threads, ConnectFails(t) PROVE AloneInv'
  BY <1>4, <1>c
  DEF ConnectFails, Failed, TypeOK, Active, AloneInv, Undisturbed, Mirrors, Holds
<1>5. ASSUME NEW t \in Threads, Timeout(t) PROVE AloneInv'
  BY <1>5, <1>c
  DEF Timeout, Failed, Abandon, TypeOK, Active, AloneInv, Undisturbed, Mirrors, Holds,
      Services
<1>6. ASSUME NEW t \in Threads, PutAnswered(t) PROVE AloneInv'
  BY <1>6, <1>c
  DEF PutAnswered, Failed, TypeOK, Active, AloneInv, Undisturbed, Mirrors, Holds
<1>7. ASSUME NEW t \in Threads, Retry(t) PROVE AloneInv'
  BY <1>7, <1>c DEF Retry, Active, AloneInv, Undisturbed, Mirrors, Holds
<1>8. ASSUME NEW t \in Threads, Return(t) PROVE AloneInv'
  BY <1>8, <1>c DEF Return, TypeOK, Active, AloneInv, Undisturbed, Mirrors, Holds
<1>9. ASSUME NEW t \in Threads, NEW e \in Entities, NEW wellformed \in BOOLEAN,
             Receive(t, e, wellformed)
      PROVE  AloneInv'
  <2> SUFFICES ASSUME NEW u \in Threads, alone'[u]
               PROVE  Undisturbed(u)' /\ (notifier' = "http" => Mirrors(u)')
    BY DEF AloneInv
  <2>1. CASE u = t
    <3>1. Concerned(e.id) = {} /\ \A s \in Services : \A w \in late[s] : w.id # e.id
      BY <1>9, <2>1 DEF Receive
    <3>2. entity'[u] = e /\ pc'[u] \in {"storing", "answered"} /\ answer'[u] # "ok"
      BY <1>9, <2>1 DEF Receive, TypeOK
    <3>3. ~delivered'[u]
      BY <1>9, <2>1 DEF Receive, InCall, Active
    <3>4. Undisturbed(u)'
      BY <1>9, <2>1, <3>1, <3>2 DEF Receive, Undisturbed, Concerned, Active
    <3> QED
      BY <3>2, <3>3, <3>4 DEF Mirrors
  <2>2. CASE u # t
    <3>1. alone[u] /\ Active(u) /\ entity[u].id # e.id
      BY <1>9, <2>2 DEF Receive, Concerned, InCall
    <3>2. pc'[u] = pc[u] /\ entity'[u] = entity[u] /\ answer'[u] = answer[u]
      BY <1>9, <2>2 DEF Receive
    <3>3. Undisturbed(u)'
      BY <1>9, <3>1, <3>2 DEF Receive, AloneInv, Undisturbed, Active, TypeOK
    <3> QED
      BY <1>9, <1>c, <3>1, <3>2, <3>3 DEF Receive, AloneInv, Mirrors, Holds
  <2> QED
    BY <2>1, <2>2
<1>10. ASSUME NEW t \in Threads, Deliver(t) PROVE AloneInv'
  BY <1>10, <1>a, <1>b
  DEF Deliver, InCall, Active, AloneInv, Undisturbed, Mirrors, Holds, Services
<1>11. ASSUME NEW t \in Threads, DeliveryFails(t) PROVE AloneInv'
  BY <1>11, <1>a, <1>b
  DEF DeliveryFails, StoreThrows, Abandon, TypeOK, InCall, Active, AloneInv, Undisturbed,
      Mirrors, Holds, Services
<1>12. ASSUME NEW t \in Threads, Publish(t) PROVE AloneInv'
  BY <1>12, <1>c DEF Publish, InCall, Active, AloneInv, Undisturbed
<1>13. ASSUME NEW t \in Threads, PublishFails(t) PROVE AloneInv'
  BY <1>13, <1>c DEF PublishFails, Abandon, TypeOK, InCall, Active, AloneInv, Undisturbed
<1>14. ASSUME NEW s \in Services, NEW e \in Entities, Settle(s, e) PROVE AloneInv'
  BY <1>14, <1>a, <1>b, <1>c
     DEF Settle, TypeOK, InCall, Active, AloneInv, Undisturbed, Mirrors, Holds, Services
<1>15. CASE Crash
  BY <1>15 DEF Crash, AloneInv
<1>16. CASE UNCHANGED vars
  BY <1>16 DEF vars, Active, AloneInv, Undisturbed, Mirrors, Holds
<1> QED
  BY <1>1, <1>2, <1>3, <1>4, <1>5, <1>6, <1>7, <1>8, <1>9, <1>10, <1>11, <1>12, <1>13, <1>14,
     <1>15, <1>16
     DEF Next, Call, Proceed, Outside

\* Every reachable state satisfies the inductive invariant.
THEOREM Invariance == Spec => []IInv
<1>1. IInv /\ [Next]_vars => IInv'
  BY TypeStep, LateStep, InCallStep, StoredFirstStep, FromUpstreamStep, OkMeansDeliveredStep,
     AllAccountedStep, AloneStep
     DEF IInv
<1> QED
  BY InitIInv, <1>1, PTL DEF Spec

\* The types hold, and a PUT is not retried more often than it may.
THEOREM TypeCorrect == Spec => []TypeOK
<1>1. IInv => TypeOK
  BY DEF IInv
<1> QED
  BY Invariance, <1>1, PTL

\* Whatever is lost, late, repeated or interrupted by a crash, downstream is told and holds
\* nothing that upstream has not stored.
THEOREM DownstreamFollows == Spec => []OnlyStoredIsAnnounced
<1>1. IInv => OnlyStoredIsAnnounced
  BY DEF IInv, FromUpstream
<1> QED
  BY Invariance, <1>1, PTL

\* A client that reads OK has its entity stored here and taken by whom it is sent to.
THEOREM OkIsReliable == Spec => []OkMeansDelivered
<1>1. IInv => OkMeansDelivered
  BY DEF IInv
<1> QED
  BY Invariance, <1>1, PTL

\* When everything is quiet and no call has failed, every change has been announced.
THEOREM ChangesAreAnnounced == Spec => []SilentChangeNeedsFault
<1>1. IInv => SilentChangeNeedsFault
  <2> SUFFICES ASSUME IInv, Quiet, allOk PROVE written \subseteq announced
    BY DEF SilentChangeNeedsFault
  <2>1. \A t \in Threads : pc[t] = "idle"
    BY DEF Quiet, Active
  <2> QED
    BY <2>1 DEF IInv, AllAccounted, Owes
<1> QED
  BY Invariance, <1>1, PTL

\* A call that was alone with its entity and is answered OK leaves both services with it,
\* although its PUT may have been sent several times and may still be under way.
THEOREM LoneCallsMirror == Spec => []AloneAndOkMirrors
<1>1. IInv => AloneAndOkMirrors
  BY DEF IInv, AloneInv, Mirrors, Holds, OkMeansDelivered, AloneAndOkMirrors, Services
<1> QED
  BY Invariance, <1>1, PTL
=============================================================================
