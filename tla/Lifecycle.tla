----------------------------- MODULE Lifecycle -----------------------------
(***************************************************************************)
(* A process of the service from main to its exit status: the objects main *)
(* makes one after the other, the first of which ask an identity provider  *)
(* and a database; Handle of the handler brick it was built with; the Stop *)
(* a SIGTERM brings about; and the destruction of the objects.  An         *)
(* orchestrator starts a process that serves again when it has ended.      *)
(* (PubSubHandler is a module of its own.)                                 *)
(*                                                                         *)
(* The environment answers or does not, takes the port or leaves it, and   *)
(* sends SIGTERM at any time.  The servers of the libraries are modelled   *)
(* by what the handlers rely on: requests are accepted from the moment     *)
(* they listen, a stop lets the requests in progress finish.               *)
(***************************************************************************)
EXTENDS Naturals, Sequences, OpenIdConfiguration

CONSTANTS
  Handlers,     \* handler bricks: http, grpc or cli
  Documents,    \* what the OpenID URL may answer, as JSON
  Down,         \* no answer, or no JSON
  Requests,     \* requests that may be in progress at one time
  MaxSignals    \* bound: SIGTERMs in one behaviour

ASSUME LifecycleAssumption ==
  /\ Handlers \subseteq {"http", "grpc", "cli"}
  /\ Down \notin Documents \cup [Fields -> {"nullopt", "value"}]
  /\ \A json \in Documents : json \in Json
  /\ MaxSignals \in Nat

\* What main constructs, in this order.
Objects == <<"openid_config", "key_provider", "tracer_provider", "repo", "notifier",
             "core", "handler", "gracefulShutdown">>

All == Len(Objects)

VARIABLES
  handler,        \* which handler brick the service has
  openid,         \* what the OpenID URL answers: a document, or Down
  keysUp,         \* does the JWKS endpoint answer with usable keys?
  repoUp,         \* does the database answer?
  portFree,       \* can the port be bound?
  signals,        \* SIGTERMs sent so far
  objects,        \* how many of Objects exist
  main,           \* what main is doing
  config,         \* the openid_config, Down before there is one
  server,         \* the server inside the handler
  stopping,       \* is a Stop under way?
  inProgress,     \* requests the server has accepted and not answered
  exit,           \* how the process ended, "none" while it runs
  signalled,      \* history: was SIGTERM sent while gracefulShutdown existed?
  failed          \* history: has this process met an exception?

environment == <<handler, openid, keysUp, repoUp, portFree>>
vars == <<environment, signals, objects, main, config, server, stopping,
          inProgress, exit, signalled, failed>>

\* The types of the variables; a process has an exit status when it has ended.
TypeOK ==
  /\ handler \in Handlers
  /\ openid \in Documents \cup {Down}
  /\ keysUp \in BOOLEAN /\ repoUp \in BOOLEAN /\ portFree \in BOOLEAN
  /\ signals \in 0..MaxSignals
  /\ objects \in 0..All
  /\ main \in {"constructing", "handling", "unwinding", "ended"}
  /\ config = Down \/ config \in [Fields -> {"nullopt", "value"}]
  /\ server \in {"none", "started", "listening", "closing"}
  /\ stopping \in BOOLEAN
  /\ inProgress \in SUBSET Requests
  /\ exit \in {"none", "0", "1", "killed", "crashed"}
  /\ exit = "none" <=> main # "ended"
  /\ signalled \in BOOLEAN
  /\ failed \in BOOLEAN

Init ==
  /\ handler \in Handlers
  /\ openid \in Documents \cup {Down}
  /\ keysUp \in BOOLEAN /\ repoUp \in BOOLEAN /\ portFree \in BOOLEAN
  /\ signals = 0
  /\ objects = 0
  /\ main = "constructing"
  /\ config = Down
  /\ server = "none"
  /\ stopping = FALSE
  /\ inProgress = {}
  /\ exit = "none"
  /\ signalled = FALSE
  /\ failed = FALSE

Accepting == server \in {"started", "listening"}

\* The process is gone, and everything in it.
Gone(how) ==
  /\ exit' = how
  /\ main' = "ended"
  /\ objects' = 0
  /\ server' = "none"
  /\ stopping' = FALSE
  /\ inProgress' = {}

-----------------------------------------------------------------------------
(* main *)

IsNext(o) == objects < All /\ Objects[objects + 1] = o

\* CreateFromUrl and the constructors of the key provider and of the repo ask other
\* services, once.
CanConstruct ==
  /\ IsNext("openid_config") => openid # Down /\ ~Throws(openid)
  /\ IsNext("key_provider") => keysUp
  /\ IsNext("repo") => repoUp

Construct ==
  /\ main = "constructing"
  /\ objects < All
  /\ CanConstruct
  /\ objects' = objects + 1
  /\ config' = IF IsNext("openid_config") THEN CreateFromJson(openid) ELSE config
  /\ UNCHANGED <<environment, signals, main, server, stopping, inProgress, exit, signalled, failed>>

Unwind(exception) ==
  /\ main' = "unwinding"
  /\ failed' = exception

ConstructThrows ==
  /\ main = "constructing"
  /\ objects < All
  /\ ~CanConstruct
  /\ Unwind(TRUE)
  /\ UNCHANGED <<environment, signals, objects, config, server, stopping, inProgress, exit, signalled>>

CallHandle ==
  /\ main = "constructing"
  /\ objects = All
  /\ main' = "handling"
  /\ UNCHANGED <<environment, signals, objects, config, server, stopping, inProgress, exit,
                 signalled, failed>>

\* Objects are destroyed in the reverse order; gracefulShutdown waits for its Stop.
Destroy ==
  /\ main = "unwinding"
  /\ objects > 0
  /\ ~stopping
  /\ objects' = objects - 1
  /\ config' = IF objects = 1 THEN Down ELSE config
  /\ UNCHANGED <<environment, signals, main, server, stopping, inProgress, exit, signalled, failed>>

NoStatus == "none"  \* mutant: main goes on after its catch clauses
ExitStatus == IF failed THEN "1" ELSE "0"

Return ==
  /\ main = "unwinding"
  /\ objects = 0
  /\ Gone(ExitStatus)
  /\ UNCHANGED <<environment, signals, config, signalled, failed>>

-----------------------------------------------------------------------------
(* Handle *)

\* HttpHandler::Handle: listen on a port that is taken returns false, unnoticed.
HttpListens ==
  /\ handler = "http" /\ main = "handling" /\ server = "none"
  /\ IF portFree THEN server' = "listening" /\ UNCHANGED <<main, failed>>
                 ELSE Unwind(FALSE) /\ UNCHANGED server
  /\ UNCHANGED <<environment, signals, objects, config, stopping, inProgress, exit, signalled>>

\* GrpcHandler::Handle: BuildAndStart returns null when the port is taken, and Wait is
\* called on it.
GrpcStarts ==
  /\ handler = "grpc" /\ main = "handling" /\ server = "none"
  /\ \/ /\ portFree
        /\ server' = "started"
        /\ UNCHANGED <<objects, main, config, stopping, inProgress, exit>>
     \/ /\ ~portFree
        /\ Gone("crashed")
        /\ config' = Down
  /\ UNCHANGED <<environment, signals, signalled, failed>>

\* _server is assigned when the server already serves.
GrpcAssigns ==
  /\ server = "started"
  /\ server' = "listening"
  /\ UNCHANGED <<environment, signals, objects, main, config, stopping, inProgress, exit,
                 signalled, failed>>

Closed == server = "closing"   \* mutant: Handle does not wait for the requests
ClosedWhileStopping == server = "closing" /\ inProgress = {} /\ stopping   \* mutant
ClosedAndDrained == server = "closing" /\ inProgress = {}

\* listen and Wait return when the last request has been answered.
ServerReturns ==
  /\ ClosedAndDrained
  /\ main = "handling"
  /\ Unwind(FALSE)
  /\ server' = "none"
  /\ UNCHANGED <<environment, signals, objects, config, stopping, inProgress, exit, signalled>>

\* CliHandler::Handle: the exit code for arguments that do not parse is dropped, a call
\* that fails is thrown as an exception.
CliCall ==
  /\ handler = "cli" /\ main = "handling"
  /\ \E thrown \in BOOLEAN : Unwind(thrown)
  /\ UNCHANGED <<environment, signals, objects, config, server, stopping, inProgress, exit, signalled>>

-----------------------------------------------------------------------------
(* Stop, requests, and the world around the process *)

\* SIGTERM: with nobody to catch it the process is killed.
Sigterm ==
  /\ exit = "none"
  /\ signals < MaxSignals
  /\ signals' = signals + 1
  /\ \/ /\ objects = All
        /\ stopping' = TRUE
        /\ signalled' = TRUE
        /\ UNCHANGED <<objects, main, config, server, inProgress, exit>>
     \/ /\ objects < All
        /\ Gone("killed")
        /\ config' = Down
        /\ UNCHANGED signalled
  /\ UNCHANGED <<environment, failed>>

\* HttpHandler::Stop: only a server that listens is stopped.
HttpStop ==
  /\ handler = "http" /\ stopping
  /\ stopping' = FALSE
  /\ server' = IF server = "listening" THEN "closing" ELSE server
  /\ UNCHANGED <<environment, signals, objects, main, config, inProgress, exit, signalled, failed>>

\* GrpcHandler::Stop: _server is null until Handle has assigned it.
GrpcStop ==
  /\ handler = "grpc" /\ stopping
  /\ \/ /\ server \in {"none", "started"} /\ main # "unwinding"
        /\ Gone("crashed")
        /\ config' = Down
     \/ /\ server \in {"listening", "closing"} \/ main = "unwinding"
        /\ stopping' = FALSE
        /\ server' = IF server = "listening" THEN "closing" ELSE server
        /\ UNCHANGED <<objects, main, config, inProgress, exit>>
  /\ UNCHANGED <<environment, signals, signalled, failed>>

CliStop ==
  /\ handler = "cli" /\ stopping
  /\ stopping' = FALSE
  /\ UNCHANGED <<environment, signals, objects, main, config, server, inProgress, exit,
                 signalled, failed>>

Accept(r) ==
  /\ Accepting
  /\ r \notin inProgress
  /\ inProgress' = inProgress \cup {r}
  /\ UNCHANGED <<environment, signals, objects, main, config, server, stopping, exit,
                 signalled, failed>>

Answer(r) ==
  /\ r \in inProgress
  /\ inProgress' = inProgress \ {r}
  /\ UNCHANGED <<environment, signals, objects, main, config, server, stopping, exit,
                 signalled, failed>>

Restart ==
  /\ exit # "none"
  /\ handler # "cli"
  /\ exit' = "none"
  /\ main' = "constructing"
  /\ config' = Down
  /\ signalled' = FALSE
  /\ failed' = FALSE
  /\ UNCHANGED <<environment, signals, objects, server, stopping, inProgress>>

Change ==
  /\ \/ openid' \in Documents \cup {Down} /\ UNCHANGED <<keysUp, repoUp, portFree>>
     \/ keysUp' = ~keysUp /\ UNCHANGED <<openid, repoUp, portFree>>
     \/ repoUp' = ~repoUp /\ UNCHANGED <<openid, keysUp, portFree>>
     \/ server = "none" /\ portFree' = ~portFree /\ UNCHANGED <<openid, keysUp, repoUp>>
  /\ UNCHANGED <<handler, signals, objects, main, config, server, stopping, inProgress, exit,
                 signalled, failed>>

-----------------------------------------------------------------------------
Main ==
  \/ Construct \/ ConstructThrows \/ CallHandle \/ Destroy \/ Return
  \/ HttpListens \/ GrpcStarts \/ GrpcAssigns \/ ServerReturns \/ CliCall

Stop == HttpStop \/ GrpcStop \/ CliStop

Next ==
  \/ Main \/ Stop \/ Sigterm \/ Restart \/ Change
  \/ \E r \in Requests : Accept(r) \/ Answer(r)

Spec == Init /\ [][Next]_vars

\* The threads of the process run, requests are answered (EntityService shows why), and
\* the orchestrator starts again what has ended.
FairSpec ==
  /\ Spec
  /\ WF_vars(Main) /\ WF_vars(Stop) /\ WF_vars(Restart)
  /\ \A r \in Requests : WF_vars(Answer(r))

-----------------------------------------------------------------------------
(* Properties *)

\* Whatever a request may touch exists as long as it is in progress: the handler, the
\* core, the repo, the tracer provider and the keys, however the process is stopped.
NothingIsUsedAfterItsEnd == inProgress # {} => objects = All /\ main = "handling"

\* A service that accepts requests has got all it needs of the identity provider: an
\* incomplete document, or an error page taken for one, stops it before.
AcceptsOnlyConfigured ==
  Accepting => config # Down /\ \A f \in Required : config[f] = "value"

\* A server that has been stopped while it was listening ends its process.
StoppedServerEnds == server = "closing" ~> exit # "none"

DependenciesAreThere ==
  /\ openid # Down /\ \A f \in Required : extract(openid, f) = "value"
  /\ keysUp /\ repoUp /\ portFree

\* A service that starts before its identity provider or its database serves when they
\* are there, and again after every stop.
ComesUp == handler # "cli" => (<>[]DependenciesAreThere => <>[]Accepting)

\* main "gracefully shuts down the service when a SIGTERM signal is received"
SigtermIsGraceful == signalled => exit # "crashed"

\* The same statement: a SIGTERM that reaches Stop ends the process, whenever it comes.
SigtermEnds == signalled ~> exit # "none"
=============================================================================
