--------------------------- MODULE PubSubHandler ---------------------------
(***************************************************************************)
(* The handler that feeds Google Pub/Sub messages to the API               *)
(* (handler/google-pubsub): Handle subscribes and sleeps on a condition    *)
(* variable, the callbacks of the subscription run on library threads, and *)
(* Stop is called from the thread that deals with SIGTERM.  The process    *)
(* may crash anywhere, and is started again after a crash or a shutdown.   *)
(*                                                                         *)
(* Modelled from how the code uses them: the subscription (delivery is at  *)
(* least once: a message comes again, to the same process too, for as long *)
(* as no acknowledgement of it has arrived, and acknowledgements get lost; *)
(* no callback runs any more once the session is over and its connection   *)
(* destroyed) and the shutdown hook that calls Stop.                       *)
(***************************************************************************)
EXTENDS Naturals

CONSTANTS
  Messages,
  Entities,    \* the messages whose payload is an entity
  NoMessage,   \* what a thread without a callback has
  Callbacks,   \* bound: the library threads that run callbacks
  Stoppers,    \* the calls of Stop: one for every SIGTERM
  NoOwner      \* nobody holds the mutex

Main == "main"   \* the thread that runs Handle

ASSUME ConstantsAssumption ==
  /\ Entities \subseteq Messages
  /\ NoMessage \notin Messages
  /\ Main \notin Stoppers
  /\ NoOwner \notin Stoppers \cup {Main}

VARIABLES
  main,            \* where Handle is
  stopper,         \* where each call of Stop is
  mutex,           \* holder of _stop_mutex
  stopRequested,   \* _stop_requested
  broker,          \* message -> what the broker knows of it, or is about to
  callback,        \* library thread -> where its callback is
  message,         \* library thread -> the message of its callback
  fate             \* history: message -> whether it was ever stored, else how the latest
                   \* callback that had acknowledged it has ended

vars == <<main, stopper, mutex, stopRequested, broker, callback, message, fate>>

\* How a callback may end after the acknowledgement: a hook refuses the request, the
\* payload is no entity, Api::SetEntity throws, it succeeds, or the process ends before.
Ends == {"refused", "invalid", "failed", "stored", "crashed", "abandoned"}

\* The types of the variables: a callback never ends with an exception, and has a message
\* as long as it runs.
TypeOK ==
  /\ main \in {"start", "subscribing", "check", "sleeping", "waiting", "relock",
               "cancelled", "returned"}
  /\ stopper \in [Stoppers -> {"idle", "lock", "notify", "returned"}]
  /\ mutex \in Stoppers \cup {Main, NoOwner}
  /\ stopRequested \in BOOLEAN
  /\ broker \in [Messages -> {"kept", "acking", "forgotten"}]
  /\ callback \in [Callbacks -> {"idle", "received", "acknowledged"}]
  /\ message \in [Callbacks -> Messages \cup {NoMessage}]
  /\ \A c \in Callbacks : message[c] = NoMessage <=> callback[c] = "idle"
  /\ fate \in [Messages -> Ends \cup {"none"}]

Init ==
  /\ main = "start"
  /\ stopper = [s \in Stoppers |-> "idle"]
  /\ mutex = NoOwner
  /\ stopRequested = FALSE
  /\ broker = [m \in Messages |-> "kept"]
  /\ callback = [c \in Callbacks |-> "idle"]
  /\ message = [c \in Callbacks |-> NoMessage]
  /\ fate = [m \in Messages |-> "none"]

handling == <<main, stopper, mutex, stopRequested>>
messages == <<broker, callback, message, fate>>

-----------------------------------------------------------------------------
(* Handle *)

LockStopMutex ==
  /\ main \in {"start", "relock"}
  /\ mutex = NoOwner
  /\ mutex' = Main
  /\ main' = IF main = "start" THEN "subscribing" ELSE "check"
  /\ UNCHANGED <<stopper, stopRequested, messages>>

SleepingAtOnce == "sleeping"   \* mutant: wait(lock) without a predicate
FirstWait == "check"

Subscribe ==
  /\ main = "subscribing"
  /\ main' = FirstWait
  /\ UNCHANGED <<stopper, mutex, stopRequested, messages>>

TestPredicate ==
  /\ main = "check"
  /\ main' = IF stopRequested THEN "cancelled" ELSE "sleeping"
  /\ UNCHANGED <<stopper, mutex, stopRequested, messages>>

\* The condition variable releases the mutex and sleeps in one step.
Sleep ==
  /\ main = "sleeping"
  /\ main' = "waiting"
  /\ mutex' = NoOwner
  /\ UNCHANGED <<stopper, stopRequested, messages>>

SpuriousWakeup ==
  /\ main = "waiting"
  /\ main' = "relock"
  /\ UNCHANGED <<stopper, mutex, stopRequested, messages>>

SessionNotAwaited == TRUE   \* mutant: neither get() nor a local connection
SessionOver == \A c \in Callbacks : callback[c] = "idle"

\* get() and the destruction of the connection wait for the callbacks.
HandleReturns ==
  /\ main = "cancelled"
  /\ SessionOver
  /\ main' = "returned"
  /\ mutex' = NoOwner
  /\ UNCHANGED <<stopper, stopRequested, messages>>

-----------------------------------------------------------------------------
(* Stop *)

CallStop(s) ==
  /\ stopper[s] = "idle"
  /\ stopper' = [stopper EXCEPT ![s] = "lock"]
  /\ UNCHANGED <<main, mutex, stopRequested, messages>>

FreeOrNot == TRUE   \* mutant: the flag is set without the mutex
MutexFree == mutex = NoOwner

RequestStop(s) ==
  /\ stopper[s] = "lock"
  /\ MutexFree
  /\ stopRequested' = TRUE
  /\ stopper' = [stopper EXCEPT ![s] = "notify"]
  /\ UNCHANGED <<main, mutex, messages>>

Notify(s) ==
  /\ stopper[s] = "notify"
  /\ main' = IF main = "waiting" THEN "relock" ELSE main
  /\ stopper' = [stopper EXCEPT ![s] = "returned"]
  /\ UNCHANGED <<mutex, stopRequested, messages>>
-----------------------------------------------------------------------------
(* The subscription *)

\* A session is under way from Subscribe until it is cancelled.  A message may come while
\* another callback has it, and after it was acknowledged.
Deliver(c, m) ==
  /\ main \in {"check", "sleeping", "waiting", "relock"}
  /\ broker[m] # "forgotten"
  /\ callback[c] = "idle"
  /\ callback' = [callback EXCEPT ![c] = "received"]
  /\ message' = [message EXCEPT ![c] = m]
  /\ UNCHANGED <<handling, broker, fate>>

\* "1. acknowledge message so that it won't be sent again"
Acknowledge(c) ==
  /\ callback[c] = "received"
  /\ callback' = [callback EXCEPT ![c] = "acknowledged"]
  /\ broker' = [broker EXCEPT ![message[c]] = IF @ = "kept" THEN "acking" ELSE @]
  /\ UNCHANGED <<handling, message, fate>>

Fate(m, end) == IF fate[m] = "stored" THEN "stored" ELSE end

\* What setEntity makes of m: the hooks come first, then the payload is parsed, then
\* the API is called.
EndsOf(m) ==
  {"refused"} \cup (IF m \in Entities THEN {"failed", "stored"} ELSE {"invalid"})

ExceptionsEscape(end) ==   \* mutant: setEntity without the RequestHandler around it
  IF end = "stored" THEN "idle" ELSE "terminated"
AfterSetEntity(end) == "idle"

\* "2. process message (ignore result)": the RequestHandler turns every exception into a
\* status, which is dropped.
SetEntity(c) ==
  /\ callback[c] = "acknowledged"
  /\ \E end \in EndsOf(message[c]) :
       /\ fate' = [fate EXCEPT ![message[c]] = Fate(message[c], end)]
       /\ callback' = [callback EXCEPT ![c] = AfterSetEntity(end)]
  /\ message' = [message EXCEPT ![c] = NoMessage]
  /\ UNCHANGED <<handling, broker>>

\* One of the acknowledgements of m arrives: the broker never sends m again.
AckArrives(m) ==
  /\ broker[m] = "acking"
  /\ broker' = [broker EXCEPT ![m] = "forgotten"]
  /\ UNCHANGED <<handling, callback, message, fate>>

\* All acknowledgements under way are lost, or come too late to count.
AckLost(m) ==
  /\ broker[m] = "acking"
  /\ broker' = [broker EXCEPT ![m] = "kept"]
  /\ UNCHANGED <<handling, callback, message, fate>>

\* The process ends, with its callbacks, and a new one is started.  An acknowledgement under
\* way has left the process and may arrive, or has not and is lost.
NewProcess(end) ==
  /\ main' = "start"
  /\ stopper' = [s \in Stoppers |-> "idle"]
  /\ mutex' = NoOwner
  /\ stopRequested' = FALSE
  /\ callback' = [c \in Callbacks |-> "idle"]
  /\ message' = [c \in Callbacks |-> NoMessage]
  /\ fate' = [m \in Messages |->
       IF \E c \in Callbacks : callback[c] = "acknowledged" /\ message[c] = m
       THEN Fate(m, end) ELSE fate[m]]
  /\ UNCHANGED broker

Crash == NewProcess("crashed")

\* main returns, the orchestrator starts the next process.
Restart ==
  /\ main = "returned"
  /\ NewProcess("abandoned")

-----------------------------------------------------------------------------
Handle == LockStopMutex \/ Subscribe \/ TestPredicate \/ Sleep \/ HandleReturns
Stop(s) == RequestStop(s) \/ Notify(s)
Callback(c) == Acknowledge(c) \/ SetEntity(c)

Next ==
  \/ Handle \/ SpuriousWakeup \/ Crash \/ Restart
  \/ \E s \in Stoppers : CallStop(s) \/ Stop(s)
  \/ \E c \in Callbacks : Callback(c) \/ \E m \in Messages : Deliver(c, m)
  \/ \E m \in Messages : AckArrives(m) \/ AckLost(m)

Spec == Init /\ [][Next]_vars

\* The threads run, SetEntity comes to an end.  No spurious wakeup, signal, delivery or
\* arrival of an acknowledgement is relied on.
FairSpec ==
  /\ Spec
  /\ WF_vars(Handle)
  /\ \A s \in Stoppers : WF_vars(Stop(s))
  /\ \A c \in Callbacks : WF_vars(Callback(c))

-----------------------------------------------------------------------------
(* Properties *)

\* A stop that is requested ends Handle, whenever it comes: before Handle has
\* the mutex, between the test of the predicate and the sleep, or after it.
StopEndsHandle == stopRequested ~> (~stopRequested \/ main = "returned")

\* The wakeup of a stop is not lost: a Handle that sleeps although a stop is requested has
\* its notify_one still to come.
NoLostWakeup ==
  main = "waiting" /\ stopRequested => \E s \in Stoppers : stopper[s] = "notify"

\* No callback runs once Handle has returned: it would use this, the API, the
\* core and the repo while main destroys them.
NoCallbackOutlivesHandle ==
  main = "returned" => \A c \in Callbacks : callback[c] = "idle"

\* A message is acknowledged before it is processed, and so is lost when its callback does
\* not get to the end of SetEntity.  Once the broker has forgotten a message that no callback
\* is processing, it is stored, or a hook, its payload or the API has kept its callback from
\* storing it, or a crash came in between: a shutdown is never the cause, however
\* stops, repeated deliveries and lost acknowledgements come together.
LossHasACause ==
  \A m \in Messages :
    broker[m] = "forgotten" /\ (\A c \in Callbacks : message[c] # m)
      => fate[m] \in {"stored", "refused", "invalid", "failed", "crashed"}
=============================================================================
