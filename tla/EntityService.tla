--------------------------- MODULE EntityService ---------------------------
(***************************************************************************)
(* Two services set up as the READMEs of notifier/http and of              *)
(* notifier/google-pubsub describe: upstream has a handler, the core, a    *)
(* repo and a notifier.  The HttpNotifier PUTs every change it stores to   *)
(* downstream, a service with an HTTP handler, the core and a repo of its  *)
(* own.  The PubSubNotifier publishes it to a broker, from which the       *)
(* handler of downstream gets it later, possibly twice or in another       *)
(* order, or loses it (PubSubHandler).                                     *)
(*                                                                         *)
(* A repo fails as EntityStore allows: a Store that throws has taken       *)
(* effect, or will, or never does.  A PUT may reach downstream after the   *)
(* notifier has given it up.  Writes nobody waits for, messages in the     *)
(* broker included, are kept in "late".  Restarts of downstream are        *)
(* covered by its repo being persistent and by answers that never arrive.  *)
(***************************************************************************)
EXTENDS Naturals, FiniteSets

CONSTANTS
  Threads,         \* handler threads of upstream
  Ids, Values, Absent, NoEntity,
  Notifiers,       \* notifier bricks upstream may have: http or pubsub
  MaxRetryCount,   \* of the HttpNotifier (main.cpp: 3)
  MaxLate          \* bound: late writes per service at one time

ASSUME ConstantsAssumption ==
  /\ IsFiniteSet(Threads)
  /\ Notifiers \subseteq {"http", "pubsub"}
  /\ MaxRetryCount \in Nat
  /\ MaxLate \in Nat
  /\ Absent \notin Values

VARIABLES
  notifier,    \* which of them it has
  repo,        \* what each service has stored
  late,        \* writes still under way that nobody waits for
  pc,          \* where each thread is in SetEntity
  entity,      \* the entity it sets
  wire,        \* its PUT or message on the way, or the status coming back
  retries,     \* retries of the PUT done so far
  answer,      \* what the client is told
  written,     \* history: everything upstream has ever stored
  announced,   \* history: everything ever sent in a PUT or message
  delivered,   \* history: has downstream, or the broker, taken it from this call?
  alone,       \* history: has the call had its entity for itself?
  allOk        \* history: has every call so far succeeded or been refused?

vars == <<notifier, repo, late, pc, entity, wire, retries, answer,
          written, announced, delivered, alone, allOk>>

Services == {"upstream", "downstream"}
Entities == [id: Ids, value: Values]
Failures == {"transient", "permanent"}   \* status codes that are retried, and the others

\* The types of the variables; the retries of a PUT stay within their limit.
TypeOK ==
  /\ notifier \in Notifiers
  /\ repo \in [Services -> [Ids -> Values \cup {Absent}]]
  /\ late \in [Services -> SUBSET Entities]
  /\ \A s \in Services : Cardinality(late[s]) <= MaxLate
  /\ pc \in [Threads -> {"idle", "storing", "notifying", "waiting", "backoff", "answered"}]
  /\ entity \in [Threads -> Entities \cup {NoEntity}]
  /\ wire \in [Threads -> {"none", "put", "ok"} \cup Failures]
  /\ retries \in [Threads -> 0..MaxRetryCount]
  /\ answer \in [Threads -> {"none", "ok", "invalid", "error"}]
  /\ written \in SUBSET Entities
  /\ announced \in SUBSET Entities
  /\ delivered \in [Threads -> BOOLEAN]
  /\ alone \in [Threads -> BOOLEAN]
  /\ allOk \in BOOLEAN

Init ==
  /\ notifier \in Notifiers
  /\ repo = [s \in Services |-> [i \in Ids |-> Absent]]
  /\ late = [s \in Services |-> {}]
  /\ pc = [t \in Threads |-> "idle"]
  /\ entity = [t \in Threads |-> NoEntity]
  /\ wire = [t \in Threads |-> "none"]
  /\ retries = [t \in Threads |-> 0]
  /\ answer = [t \in Threads |-> "none"]
  /\ written = {}
  /\ announced = {}
  /\ delivered = [t \in Threads |-> FALSE]
  /\ alone = [t \in Threads |-> FALSE]
  /\ allOk = TRUE

Active(t) == pc[t] # "idle"
Concerned(i) == {t \in Threads : Active(t) /\ entity[t].id = i}

\* Service s stores e.
Written(s, e) == [repo EXCEPT ![s][e.id] = e.value]

\* A write of e at s goes on although nobody waits for it, or is lost.
Abandon(s, e) ==
  \/ UNCHANGED late
  \/ /\ Cardinality(late[s] \cup {e}) <= MaxLate
     /\ late' = [late EXCEPT ![s] = @ \cup {e}]

\* A Store of e at s throws.
StoreThrows(s, e) ==
  \/ repo' = repo /\ Abandon(s, e)
  \/ repo' = Written(s, e) /\ UNCHANGED late

-----------------------------------------------------------------------------
(* The handler and Core::SetEntity of upstream *)

\* A request comes in.  A malformed body, an id that differs from the URL's and
\* an empty id are refused before anything is stored.
Receive(t, e, wellformed) ==
  /\ pc[t] = "idle"
  /\ pc' = [pc EXCEPT ![t] = IF wellformed THEN "storing" ELSE "answered"]
  /\ answer' = [answer EXCEPT ![t] = IF wellformed THEN "none" ELSE "invalid"]
  /\ entity' = [entity EXCEPT ![t] = e]
  /\ alone' = [u \in Threads |->
                 IF u = t THEN /\ Concerned(e.id) = {}
                               /\ \A s \in Services : \A w \in late[s] : w.id # e.id
                 ELSE alone[u] /\ u \notin Concerned(e.id)]
  /\ UNCHANGED <<repo, late, wire, retries, written, announced, delivered, allOk>>

Unannounced == "answered"   \* mutant: the notifier is not called
AfterStore == "notifying"

Store(t) ==
  /\ pc[t] = "storing"
  /\ repo' = Written("upstream", entity[t])
  /\ written' = written \cup {entity[t]}
  /\ pc' = [pc EXCEPT ![t] = AfterStore]
  /\ UNCHANGED <<late, entity, wire, retries, answer, announced, delivered, alone, allOk>>

AfterStoreThrowsIgnored == "notifying"   \* mutant: the exception is swallowed
AfterStoreThrows == "answered"

StoreFails(t) ==
  /\ pc[t] = "storing"
  /\ StoreThrows("upstream", entity[t])
  /\ written' = IF repo' = repo THEN written ELSE written \cup {entity[t]}
  /\ pc' = [pc EXCEPT ![t] = AfterStoreThrows]
  /\ answer' = [answer EXCEPT ![t] = "error"]
  /\ UNCHANGED <<entity, wire, retries, announced, delivered, alone, allOk>>

Return(t) ==
  /\ pc[t] = "answered"
  /\ pc' = [pc EXCEPT ![t] = "idle"]
  /\ entity' = [entity EXCEPT ![t] = NoEntity]
  /\ retries' = [retries EXCEPT ![t] = 0]
  /\ answer' = [answer EXCEPT ![t] = "none"]
  /\ delivered' = [delivered EXCEPT ![t] = FALSE]
  /\ alone' = [alone EXCEPT ![t] = FALSE]
  /\ allOk' = (allOk /\ answer[t] # "error")
  /\ UNCHANGED <<repo, late, wire, written, announced>>

-----------------------------------------------------------------------------
(* HttpNotifier::EntityChanged and PubSubNotifier::EntityChanged *)

Send(t) ==
  /\ pc[t] = "notifying"
  /\ pc' = [pc EXCEPT ![t] = "waiting"]
  /\ wire' = [wire EXCEPT ![t] = "put"]
  /\ announced' = announced \cup {entity[t]}
  /\ UNCHANGED <<repo, late, entity, retries, answer, written, delivered, alone, allOk>>

MayRetryOnceMore(t) == retries[t] <= MaxRetryCount   \* mutant
MayRetry(t) == notifier = "http" /\ retries[t] < MaxRetryCount

AnswerIgnoringStatus == "ok"   \* mutant: no ErrorForwardingRequestHook
AnswerAfterFailure == "error"

\* It has failed for good, or in a way the retry hook of HttpNotifier knows as transient.
Failed(t, retriable) ==
  IF retriable /\ MayRetry(t)
  THEN /\ pc' = [pc EXCEPT ![t] = "backoff"]
       /\ UNCHANGED answer
  ELSE /\ pc' = [pc EXCEPT ![t] = "answered"]
       /\ answer' = [answer EXCEPT ![t] = AnswerAfterFailure]

\* No connection, within the 3 seconds of HttpNotifier, or refused.
ConnectFails(t) ==
  /\ pc[t] = "notifying"
  /\ Failed(t, TRUE)
  /\ UNCHANGED <<repo, late, entity, wire, retries, written, announced, delivered, alone, allOk>>

\* No answer within the 3 seconds, or the connection is lost: whatever is on the
\* wire is given up, the PUT or message itself may still arrive.
Timeout(t) ==
  /\ pc[t] = "waiting"
  /\ IF wire[t] = "put" THEN Abandon("downstream", entity[t]) ELSE UNCHANGED late
  /\ wire' = [wire EXCEPT ![t] = "none"]
  /\ Failed(t, TRUE)
  /\ UNCHANGED <<repo, entity, retries, written, announced, delivered, alone, allOk>>

PutAnswered(t) ==
  /\ pc[t] = "waiting"
  /\ \/ /\ wire[t] = "ok"
        /\ pc' = [pc EXCEPT ![t] = "answered"]
        /\ answer' = [answer EXCEPT ![t] = "ok"]
     \/ /\ wire[t] \in Failures
        /\ Failed(t, wire[t] = "transient")
  /\ wire' = [wire EXCEPT ![t] = "none"]
  /\ UNCHANGED <<repo, late, entity, retries, written, announced, delivered, alone, allOk>>

NotCounted(n) == n   \* mutant: the retry does not count
Counted(n) == n + 1

Retry(t) ==
  /\ pc[t] = "backoff"
  /\ retries' = [retries EXCEPT ![t] = Counted(@)]
  /\ pc' = [pc EXCEPT ![t] = "notifying"]
  /\ UNCHANGED <<repo, late, entity, wire, answer, written, announced, delivered, alone, allOk>>

-----------------------------------------------------------------------------
(* Downstream, and what goes on without a caller *)

\* A PUT sets the entity like a request of any client.
Deliver(t) ==
  /\ notifier = "http"
  /\ wire[t] = "put"
  /\ repo' = Written("downstream", entity[t])
  /\ wire' = [wire EXCEPT ![t] = "ok"]
  /\ delivered' = [delivered EXCEPT ![t] = TRUE]
  /\ UNCHANGED <<late, pc, entity, retries, answer, written, announced, alone, allOk>>

\* The broker takes a message.
Publish(t) ==
  /\ notifier = "pubsub"
  /\ wire[t] = "put"
  /\ Cardinality(late["downstream"] \cup {entity[t]}) <= MaxLate
  /\ late' = [late EXCEPT !["downstream"] = @ \cup {entity[t]}]
  /\ wire' = [wire EXCEPT ![t] = "ok"]
  /\ delivered' = [delivered EXCEPT ![t] = TRUE]
  /\ UNCHANGED <<repo, pc, entity, retries, answer, written, announced, alone, allOk>>

DeliveryFails(t) ==
  /\ notifier = "http"
  /\ wire[t] = "put"
  /\ StoreThrows("downstream", entity[t])
  /\ \E f \in Failures : wire' = [wire EXCEPT ![t] = f]
  /\ UNCHANGED <<pc, entity, retries, answer, written, announced, delivered, alone, allOk>>

PublishFails(t) ==
  /\ notifier = "pubsub"
  /\ wire[t] = "put"
  /\ Abandon("downstream", entity[t])
  /\ wire' = [wire EXCEPT ![t] = "permanent"]
  /\ UNCHANGED <<repo, pc, entity, retries, answer, written, announced, delivered, alone, allOk>>

\* The broker may deliver a message again.
Settle(s, e) ==
  /\ e \in late[s]
  /\ \/ late' = [late EXCEPT ![s] = @ \ {e}]
     \/ notifier = "pubsub" /\ s = "downstream" /\ UNCHANGED late
  /\ repo' \in {repo, Written(s, e)}
  /\ written' = IF s = "upstream" /\ repo' # repo THEN written \cup {e} ELSE written
  /\ UNCHANGED <<pc, entity, wire, retries, answer, announced, delivered, alone, allOk>>

\* Upstream's process ends with everything its threads were doing; its repo stays.
Crash ==
  /\ \E t \in Threads : Active(t)
  /\ \E D \in SUBSET Threads :
       LET doing(s) == {entity[t] : t \in {u \in D :
                          IF s = "upstream" THEN pc[u] = "storing" ELSE wire[u] = "put"}}
       IN late' = [s \in Services |-> late[s] \cup doing(s)]
  /\ \A s \in Services : Cardinality(late'[s]) <= MaxLate
  /\ pc' = [t \in Threads |-> "idle"]
  /\ entity' = [t \in Threads |-> NoEntity]
  /\ wire' = [t \in Threads |-> "none"]
  /\ retries' = [t \in Threads |-> 0]
  /\ answer' = [t \in Threads |-> "none"]
  /\ delivered' = [t \in Threads |-> FALSE]
  /\ alone' = [t \in Threads |-> FALSE]
  /\ allOk' = FALSE
  /\ UNCHANGED <<repo, written, announced>>

-----------------------------------------------------------------------------
Call(t) == \E e \in Entities, wellformed \in BOOLEAN : Receive(t, e, wellformed)

Proceed(t) ==
  /\ \/ Store(t) \/ StoreFails(t) \/ Send(t) \/ ConnectFails(t)
     \/ Timeout(t) \/ PutAnswered(t) \/ Retry(t) \/ Return(t)
  /\ UNCHANGED notifier

Outside(t) == Deliver(t) \/ DeliveryFails(t) \/ Publish(t) \/ PublishFails(t)

Next ==
  \/ \E t \in Threads : Proceed(t)
  \/ /\ \/ \E t \in Threads : Call(t) \/ Outside(t)
        \/ \E s \in Services, e \in Entities : Settle(s, e)
        \/ Crash
     /\ UNCHANGED notifier

Spec == Init /\ [][Next]_vars

\* The threads of upstream run, their timeouts included; nothing is assumed of
\* the network or of downstream.
FairSpec == Spec /\ \A t \in Threads : WF_vars(Proceed(t))

-----------------------------------------------------------------------------
(* Properties *)

\* Downstream is never told, and never holds, what upstream has not stored.
OnlyStoredIsAnnounced ==
  /\ announced \subseteq written
  /\ \A i \in Ids : repo["downstream"][i] # Absent =>
       [id |-> i, value |-> repo["downstream"][i]] \in written

\* OK is only answered when upstream, and downstream or the broker, have taken the
\* entity.
OkMeansDelivered ==
  \A t \in Threads : pc[t] = "answered" /\ answer[t] = "ok" =>
    delivered[t] /\ entity[t] \in written

\* With the HttpNotifier, a call that was alone with its entity and is answered OK
\* leaves it the same in both services, however often its PUT was sent, lost or is
\* still under way.
AloneAndOkMirrors ==
  \A t \in Threads : notifier = "http" /\ pc[t] = "answered" /\ answer[t] = "ok" /\ alone[t] =>
    \A s \in Services : repo[s][entity[t].id] = entity[t].value

\* Every request is answered, with downstream reachable or not.
EveryCallIsAnswered == \A t \in Threads : Active(t) ~> ~Active(t)

Quiet == late = [s \in Services |-> {}] /\ \A t \in Threads : ~Active(t)

\* "Whenever, one of the example entities changes, this brick sends a PUT": a change
\* stays unannounced only when a call has failed or the process has died.
SilentChangeNeedsFault == Quiet /\ allOk => written \subseteq announced
=============================================================================
