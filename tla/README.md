# Formal models of sapper-bricks

sapper-bricks is a set of C++ templates ("bricks") from which a microservice
with a hexagonal architecture is put together: one handler, a core, one repo,
possibly a notifier, and request hooks for security and tracing. This directory
holds TLA+ models of the parts whose behaviour depends on the order of events,
the TLC configurations that check them, and TLAPS proofs of every safety property
that is checked.

- [Inventory](#inventory)
- [Modules](#modules)
- [Runs and bounds](#runs-and-bounds)
- [Findings](#findings)
- [Fairness](#fairness)
- [Proofs](#proofs)
- [Assumptions about code outside the repository](#assumptions-about-code-outside-the-repository)
- [What is not modelled](#what-is-not-modelled)
- [Plan](#plan)

## Inventory

Paths are relative to the repository. "hard" names what makes a part hard to
test, "correct" the properties that make it correct.

| component | state | operations | interaction | hard | correct |
|---|---|---|---|---|---|
| core (`base/hexagonal-skeleton/src/core`, `ports`) | pointers to repo and notifier | `SetEntity`, `GetEntity` | called by handler threads, calls repo, then notifier | two effects without a transaction, overlapping calls | announces only what is stored, OK only when both have happened |
| main (`base/hexagonal-skeleton/src/app/main.cpp`) | objects of `main`, signal handler | construct, `Handle`, catch and return | owns everything, `GracefulShutdownOnSignal` calls `Stop` | a signal while starting or ending | a signal ends the process, nothing is used after its destruction |
| handler-http | `httplib::Server` | `Handle`, `Stop`, `getEntity`, `setEntity` | thread pool, calls `Api` | stop before listen; narrowing and URL parsing | body and URL name the same entity, status tells what happened |
| handler-grpc | `_server`, `_serverBuilder` | `Handle`, `Stop`, `GetEntity`, `SetEntity` | as above | `_server` is shared without a lock and may be null | `Stop` works whenever it is called |
| handler-cli | argc, argv | `Handle` (`get`, `set`), `Stop` (empty) | one call of `Api` per process | status of a failed command | exit status |
| handler-google-pubsub | `_stop_requested`, `_stop_mutex`, `_stop_cv` | `Handle`, `Stop`, callback | callbacks on library threads, `Stop` on another one | lost wakeups, callbacks at shutdown, acknowledging before processing, crashes | stop ends `Handle`, no callback outlives it, a shutdown loses no message |
| notifier-http | retry parameters | `EntityChanged` | PUT to a second service, with retries | timeouts, answers that are lost, late PUTs | OK means delivered |
| notifier-google-pubsub | publisher connection | `EntityChanged` | publishes, no retry of its own | failure after the store | as above |
| repo-postgres | `_connection`, `_mutex`, the table | `Store`, `Retrieve`, `WithConnection` | handler threads share one connection, replicas share one database | broken connections, retries, in-doubt commits, crashes | takes effect at most once, exactly once when it succeeds; exclusive access |
| repo-redis, repo-google-cloud-storage, repo-in-memory | client, bucket, map | `Store`, `Retrieve` | - | errors reported as "not found", data race | the same port |
| security-jwt-auth: key provider | `_key_cache` (map, shared mutex), `_throw_on_error` | constructor, `operator()`, `updateKeyCache` | called for every request on handler threads, asks the identity provider | double-checked locking, rotation of keys, failing updates | no data race, fresh keys, no needless requests |
| security-jwt-auth: hook, key conversion | - | `decode_token`, `verify_token`, `extract_claim`, `parse_RS256Keys`, `toPEM_PubKey` | hook around every request, asks the key provider | missing header fields, keys that rotate, one bad key in a set | only genuine tokens pass, and they do pass |
| security-openid | configuration | `CreateFromJson`, `CreateFromUrl` | once, at the start | error pages, members of other types | nothing is served without the required fields |
| opentelemetry-tracing | spans and scopes of a request, thread-local metadata | `pre_process`, `post_process`, `TracerProvider` | around incoming and outgoing requests | nesting of scopes, exceptions that pass the hook | a request continues its client's span and leaves nothing behind |
| structured-logging, deploy, dev-container, catch2, hexagonal-http | - | - | configuration and templates | several replicas | - |

`PROJECT.json` lists the hazards of this code one by one, at the line where they
bite, with the properties that cover them.

## Modules

| module | what it is |
|---|---|
| `EntityStore` | abstract specification of the `EntityRepo` port |
| `PostgresRepo` | the Postgres adapter, refines `EntityStore` |
| `JwksKeyProvider` | the key cache of security-jwt-auth |
| `SimpleRepos` | the redis, cloud storage and in-memory adapters, refine `EntityStore` |
| `EntityService` | handler, core, repo port and notifier (HTTP or pubsub) of one service, and the service it notifies |
| `TokenAuth` | operators: which keys of a key set are used, what a token is worth |
| `RequestPipeline` | one request through tracing, authentication, handler, core, repo and notifier; extends `TokenAuth` |
| `OpenIdConfiguration` | operators: which documents make a configuration |
| `Lifecycle` | a process from main to its exit status, with three of the handlers; extends `OpenIdConfiguration` |
| `PubSubHandler` | Handle, Stop and the callbacks of handler-google-pubsub |
| `<module>_proofs` | theorems about a module: `PostgresRepo`, `JwksKeyProvider`, `SimpleRepos`, `EntityService`, `TokenAuth`, `RequestPipeline`, `Lifecycle`, `PubSubHandler` |
| `MC...` | values of constants that a cfg cannot express, and symmetry sets |

Definitions whose comment begins with "mutant" are wrong versions of the
definition that follows them. No action uses them: they are there to see that a
property fails when the code is wrong in that way.

### EntityStore

A call of `Store` or `Retrieve` is invoked, takes effect at one instant, and
succeeds or fails. A call that fails, or whose process dies, has taken effect at
most once; a `Store` among them may leave an *orphan*, a write the storage still
carries out, or drops, when its caller has gone. That is as much as a C++
interface without transactions can promise over a network.

### PostgresRepo

| state | code |
|---|---|
| `connection[m]` | `_connection` of a connection manager: `null`, `open`, `dead` (lost, not yet noticed), `down` (no process) |
| `mutex[m]` | holder of `_mutex` |
| `table` | rows of `entity.entity`, as committed |
| `pc[t]`, `request[t]`, `answer[t]`, `retries[t]` | where a handler thread is in `WithConnection`, the call it is in, `entity_opt`, and the count kept by the retry hook |
| `orphan[t]` | a COMMIT sent on a connection that was lost |
| `faulted[t]` | history variable: a fault happened during the call |

`Lock` .. `Finish` follow `WithConnection` statement by statement: take the
mutex, create a connection when there is none, run the operation, release.
`Broken` is the whole path of a `broken_connection`: the catch block, the release
of the mutex, the mapping to UNAVAILABLE and the decision of the retry hook.
`Execute` and `Commit` are apart because the connection can be lost between them.
`InDoubt` is the path of `in_doubt_error`, which is not a `broken_connection`:
`_connection` keeps the lost connection, nothing is retried. The next call of
that replica finds it, throws it away and retries (`WorkOnDead`).

The refinement maps `pc` to the phase of the port's call; `table`, `request`,
`answer` and `orphan` are the port's own variables.

### JwksKeyProvider

The identity provider publishes versions of its key set. The map in the cache is
always one whole key set, so `cache` is a version number, 0 when empty.
`readers` and `writer` are the two sides of the `shared_mutex`. `pc` walks through
`operator()`: shared search, exclusive search (`Recheck`), request, update, third
search. The request is two steps (`asking`, `answered`) because the answer is
older than its arrival; keys may rotate in between. `configuration` is how the provider
is constructed, with which constructor and which `throw_on_error`; the constructor that
takes a `jwks_uri` loses the latter (Findings, 2); what the cache promises holds for every
one of them. `missing` and `refused` are history variables for
`NotFoundIsFresh`.

### EntityService

*Upstream* runs `HttpHandler::setEntity`, `Core::SetEntity`, `Store`, and
`EntityChanged` in each of its threads; *downstream* is the service that is notified.
`notifier` is the brick upstream was built with. The `HttpNotifier` sends a PUT to
`NOTIFIER_CONNECTION_STRING`, where it is a request like any other. The
`PubSubNotifier` hands a message to the broker; once the broker has it, downstream gets it
later, in any order, perhaps twice, perhaps never (`Settle`). `repo[s]` is what a
service has stored. Both repos fail as `EntityStore` allows: `StoreThrows` has taken
effect, or will, or never does. `wire[t]` is the PUT or message of a thread or the status
on its way back; one that is given up may still arrive (`late`). JSON and URLs are left
out: `Receive` either has a well-formed request, or refuses it as the handler and the core
do before anything is stored (`RequestPipeline` has the details). Nobody but upstream
writes to downstream. That `late` is one set for PUTs, messages and in-doubt stores loses
nothing, all of them end as writes or not at all. `Timeout` of a message is the end of
the client library's own attempts; the `PubSubNotifier` does not retry
(`MayRetry`).

### SimpleRepos

`adapter` is the brick; `table` its map, keys or objects. The remote ones send a command
(`Send`), the server carries it out at one instant (`Execute`), the reply arrives
(`Succeed`) or an error does instead (`Fails`), before or after that instant; a `Store` that
was given up may leave an orphan. `FailsAsNotFound` is
`CloudStorageRepo::Retrieve`, which reports a stream that is `bad()` as "no such entity";
`hidden` remembers it, and the refinement takes such a call for the failure it is. A
caller of that adapter cannot tell the difference: that is what `TypeOK` bounds to this one
adapter and operation. Callers of `InMemoryRepo` take turns, as its README demands.

### TokenAuth and RequestPipeline

`TokenAuth` has no state. A key set is a sequence of keys. `Usable` is the sequence of
`continue`s in `parse_RS256Keys`, which is the positions of the keys that are taken;
`extractPubKeysPEM` is the loop that fills the map, where the last of the keys with one id
stays; `Convertible` says that `toPEM_PubKey` throws for none of the keys. `BeforeKey` and `AfterKey` are the two halves of
`decode_token` around the call of the key provider, the second one with `verify_token` and
the required claims. A token says which key it was signed with, and for everything else
whether it is as it should be: cryptography is that. `BeforeKey` and `AfterKey` end with
"thrown" where the code throws, at a missing `typ` and at a required claim that is no string.
`Valid` and `Wellformed` say what the documentation asks of a token; neither a `typ` nor the
JSON type of a claim is part of it.

`RequestPipeline` takes a request of a thread through the hooks in the order the main
fragments register them (tracing is PREPENDed, jwt-auth APPENDed, the
`ExceptionHandlingRequestHook` of the base stays between them), then through `getEntity` or
`setEntity` of the handler the service was built with, `Core`, a repo, and the
`HttpNotifier` with the tracing hook around its PUT.

| state | code |
|---|---|
| `keySet`, `trusted` | what the JWKS endpoint serves; every signing key it has ever served |
| `cache` | `_key_cache->data` |
| `pc[t]`, `request[t]`, `answer[t]` | where a thread is, its request, its status |
| `local[t]` | the thread-local `mse::Context`: the b3 header and the authorization |
| `active[t]` | the spans made active by `remote_scope` and `scope`, innermost last |
| `spans` | parent and status of every span |
| `put[t]` | what the latest PUT carried |

`id` is a sequence of segments, because `extractId` cuts a path at its last slash and the
PUT to `/Entity/<id>` of the notified service does the same.

### OpenIdConfiguration and Lifecycle

A document says of each member which JSON type it has. `extract` is `extractString`,
`extractStrings` and `extractBool`, `ValueTaken` the members whose `value()` is taken.

`Lifecycle` is one process after the other. `objects` counts what main has constructed and
not yet destroyed, in the order of `Objects`; `config`, `server` and
`stopping` are the configuration, the server inside the handler (`started`: the gRPC server
serves, `_server` is not yet assigned) and the thread `GracefulShutdownOnSignal` runs `Stop`
on. `Gone` is the end of a process in any way. `inProgress` are requests that have been
accepted; what they do is `RequestPipeline` and `EntityService`. `environment` comes and goes
(`Change`): the OpenID document, the JWKS endpoint, the database, the port.

### PubSubHandler

`main` is the thread in `Handle`, `stopper[s]` a call of `Stop`; `mutex` and
`stopRequested` are the handler's members, `waiting` is the wait set of the
condition variable (sleeping and releasing the mutex is one step, waking up and
taking it again is not). `callback[c]` and `message[c]` are what a thread of the client
library is doing: a callback is `received`, then `acknowledged`, then it is over. `SetEntity`
is `PubSubHandler::setEntity` with every way it can end (`EndsOf`): a hook refuses the request,
the payload is no entity (it is not one of `Entities`), `Api::SetEntity` throws, or it succeeds;
the callback ignores which (`AfterSetEntity`). `broker[m]` follows the message on the other
side, where delivery is at least once: as long as the broker has not received an
acknowledgement (`AckArrives`), it may deliver the message again, to the same process and while
another callback has it, and an acknowledgement may be lost at any time (`AckLost`), not only
with its process. `NewProcess` is the restart after a crash or after `main` has returned.
`fate[m]` is the history `LossHasACause` is about.

## Runs and bounds

| run | checks | result |
|---|---|---|
| `postgres_one_replica` | `TypeOK`, `ExclusiveAccess`, `FailureNeedsFault`, `ImplementsPort`, `DrainsWhenIntakeStops` | holds, 173,703 states |
| `simple_repos` | `TypeOK`, `ImplementsPort` | holds, 21,916 states |
| `jwks_cache` | `TypeOK`, `WriteExcludesRead`, `NoNeedlessRequest`, `NotFoundIsFresh`, `CacheMovesForward`, `DrainsWhenIntakeStops` | holds, 571,064 states |
| `service` | `TypeOK`, `OnlyStoredIsAnnounced`, `OkMeansDelivered`, `AloneAndOkMirrors`, `SilentChangeNeedsFault`, `EveryCallIsAnswered` | holds, 314,990 states |
| `pipeline` | `TypeOK`, `OnlyGenuineTokensPass`, `GenuineTokensPass`, `OkSetCanBeRead`, `PutContinuesTheRequest`, `NothingStaysActive`, `SpanTellsStatus` | holds, 817,547 states |
| `lifecycle` | `TypeOK`, `NothingIsUsedAfterItsEnd`, `AcceptsOnlyConfigured`, `StoppedServerEnds`, `ComesUp` | holds, 12,880 states |
| `pubsub_shutdown` | `TypeOK`, `NoLostWakeup`, `NoCallbackOutlivesHandle`, `LossHasACause`, `StopEndsHandle` | holds, 215,024 states |
| `jwks_unavailable`, `jwks_uri_throws`, `pipeline_without_typ`, `lifecycle_sigterm`, `lifecycle_sigterm_forgotten` | one statement of the documentation each | violated, see [Findings](#findings) |

Bounds and why they are enough:

- `postgres_one_replica`: two threads on one connection (one breaks what the other
  uses next), one id (a thread never touches two rows, calls on different rows do not
  meet in the table), two values (an overwritten value can be told from the one that
  replaced it), one retry (0, a last and a forbidden retry all occur). No
  bound on faults: connections break and processes crash for ever. Each thread
  has at most one orphan; a second one would only repeat the first. Several replicas
  with a connection each are not run but proved (`Implementation`).
- `simple_repos`: two clients, one id and two values, for the same reasons. Redis and cloud
  storage have no state of their own between calls, so it makes no difference whether
  two clients are threads of one replica or of two.
- `jwks_cache`: two threads (one asks, the other reads, waits for the lock or asks after it),
  two keys, three versions (cache, answer and identity provider can all differ), and all
  four configurations, each constructor with each `throw_on_error`. `MaxVersions` is the only bound. For any
  number of threads the safety properties are proved.
- `service`: two threads with one id, two values, one retry (none, a last and a forbidden
  retry all occur), two late writes per service (`MaxLate`: one of each value, a third
  would repeat one of them).
- `pipeline`: two requests (`MaxRequests`), of two threads at the same time or of one thread one
  after the other, which is where requests could meet: in the cache, in the repo, in
  the metadata and the active spans of a thread. 25 requests: one with each of 16
  tokens (signed with the right key, another one or none, and a genuine one with each single
  defect), and each combination of URL and body. Three
  key sets: one with a key for encryption, its successor with the first key withdrawn, keys
  to be skipped and an id that is there twice, and one with a key OpenSSL rejects.
- `lifecycle`: two requests in progress (one is answered, one still runs), two SIGTERMs (one
  while another is being handled, or one for a process and one for its successor), one
  complete document and three others. No bound on restarts and on changes of the
  environment.
- `pubsub_shutdown`: two messages, one that is an entity and one that is not, two callback
  threads (one message in two callbacks at once, or two messages), two calls of `Stop` per
  process. No bound on deliveries, lost acknowledgements and restarts.
- The violation runs have the smallest bounds that show the counterexample: one token without a
  `typ` (`pipeline_without_typ`), handler-http and one SIGTERM (`lifecycle_sigterm_forgotten`,
  under `FairSpec`), one thread and one key (`jwks_...`).

Deadlock is checked where the system is to go on for ever. `pipeline` ends with its last
request, and a command line process ends for good (`lifecycle`): these two have
`CHECK_DEADLOCK FALSE`.

## Findings

1. `FailureMeansUnavailable` (`rest-jwks-rsa-key-provider.cpp:24`): "in case the public
   keys cannot be retrieved for any reason" the status is to be UNAVAILABLE. Only a failed
   connection leads there; an error page is parsed as JSON, an answer without keys
   throws a `runtime_error`.
2. `ThrowsOnlyIfAsked` (`rest-jwks-rsa-key-provider.h:11`, `.cpp:35`): the constructor that
   takes a `jwks_uri` ignores `throw_on_error`.
3. `ValidTokensPass` (`security/jwt-auth/README.md:16`): "in case the
   `<TOKEN>` is valid, the call will be successful". `typ` is optional in a JWT header and in
   `JWTHeader`, but `jwt-auth-request-hook.cpp:108` tests `!has_value() && value() != "JWT"`: a
   header without it makes `value()` throw, and the request ends with an internal error.
4. `SigtermIsGraceful` (`base/hexagonal-skeleton/README.md:12`): main shuts down gracefully
   "when a SIGTERM signal is received". `GracefulShutdownOnSignal` listens before `Handle` has
   built the gRPC server; a SIGTERM in between makes `GrpcHandler::Stop` call `Shutdown` on a
   null pointer (`handler-grpc.cpp:35`). `_server` is also written and read by two threads
   without synchronization.
5. `SigtermEnds`, the same sentence: with handler-http a SIGTERM between the construction of
   `gracefulShutdown` and `listen` is forgotten, as `httplib::Server::stop` only stops a server
   that listens (`handler-http.cpp:73`). The process serves until it is killed.

One more statement is not borne out, in a single step that needs no run: an empty key id is
said to find "an arbitrary key from the cache" (`rest-jwks-rsa-key-provider.h:24`). It is looked
for like any other, and keys without an id are never cached, so the lookup asks the identity
provider and finds nothing.

Properties that hold say where the limits are. `SilentChangeNeedsFault`: a change is never
announced only when a store or a notification failed, or the process died, in between.
`LossHasACause`: a pubsub message, which is acknowledged before it is processed, is lost when a
hook refuses it, its payload is no entity, the API fails or the process crashes, but not by a
shutdown. `GenuineTokensPass`: besides finding 3, a genuine token (valid, well-formed, and signed
with the one key that goes by its kid, here and in the cache) is kept out only if a required claim
is there but no string (`get_claim_value<std::string>`, `jwt-auth-request-hook.cpp:170`, throws,
and the request ends with an internal error), or if its key is not cached and the identity
provider has no answer, or one with a key that does not convert; nothing of this is called
UNAUTHENTICATED or harms the cache. `AloneAndOkMirrors`: a call that is alone with its entity
leaves both services equal; of two overlapping calls that cannot be said, and no document says
it. `TypeOK` of `SimpleRepos`: only cloud storage reports an error as "no such entity".

## Fairness

Only the code's own threads are fair: `WF(Proceed(t))` in `PostgresRepo`,
`JwksKeyProvider` and `EntityService`, `WF` of the steps of `Handle`, `Stop` and
the callbacks in `PubSubHandler`, of main, `Stop` and the requests in `Lifecycle`. A thread that is
not blocked is scheduled, a request to the identity provider ends, a PUT ends with its
3 second timeout, a backoff ends. The database, the network, crashes, rotations, signals and
deliveries are under no obligation.

`std::mutex` and `std::shared_mutex` serve their waiters in no particular order, so
under an endless stream of calls a thread may starve, and weak fairness says
so. The liveness of the two modules with such a lock is therefore
`DrainsWhenIntakeStops`: once no new calls come in, every call ends. `EntityService`
has no lock and satisfies the stronger `EveryCallIsAnswered`. In `PubSubHandler` nobody
competes for the mutex for ever (each `Stop` takes it once per process), so
weak fairness suffices for `StopEndsHandle`, which excuses a crash of the process.

In `Lifecycle` requests are answered (`WF(Answer(r))`): that is `EveryCallIsAnswered` and
`DrainsWhenIntakeStops` of the modules that look inside. The orchestrator restarts what has
ended (`WF(Restart)`; `deploy/kubernetes/k8s/deployment.yaml` is a Deployment, whose pods
are always restarted). Signals are bounded, and `ComesUp` only speaks of an environment
that stays up from some time on. `SimpleRepos` and `RequestPipeline` state no liveness.

## Proofs

Every invariant and every action property that a passing run checks, and every refinement,
is also a theorem, for any values of the constants that satisfy the assumption named in the
module that declares them. Sets of ids, values, keys, messages and requests may be infinite.
The assumptions say that

- sentinels (`Idle`, `Absent`, `NoOwner`, `Down`, ...) are not among the values they are told
  apart from, bounds are numbers, and what is configured is one of the bricks;
- `EntityService`: there are finitely many threads, as a call's late writes are counted;
- `RequestPipeline`: a key set is a sequence of keys, which is what a JSON array is.

All proofs of a component follow one plan: `IInv` is a conjunction of named parts, `InitIInv` and
one lemma per part (`...Step`) with one step per action show that it is inductive, `Invariance`
is `Spec => []IInv`, and the theorems follow from it. What the property lacks to be inductive is
the interesting part:

**PostgresRepo_proofs.** `ExclusiveAccess` is inductive with the types. `FailureNeedsFault` is not: a
thread about to retry must be known to find a connection that is not lost. `FaultFree` says so:
as long as nothing failed during a call, its first retry finds the connection reset or
renewed, and an open transaction still has the connection it was begun on. `InCall` ties the
position of a thread to its request and its retries. Theorems: `TypeCorrect`,
`MutualExclusion`, `StaleConnectionsAreAbsorbed`, and `Implementation`, `Spec => Port!Spec`, from
`InitRefines` and `StepRefines`: `LoseConnection`, `Lock`, `Retry` and the like stutter, `Commit` and
`Select` are the instant of the effect, `Broken` either stutters or is the port's `Fail`, `Crash`
is `Leave` of all threads of a replica.

**SimpleRepos_proofs.** `InCall`, and the same scheme for `Implementation`. The retrieval that
`FailsAsNotFound` answers is the port's `Fail`, by the history variable `hidden`.

**JwksKeyProvider_proofs.** `LockInv` (positions and lock agree), `NoEarlyLookup` (nobody looks up
before the constructor is done), `ReplyIsNewer` (an answer under way is not older than the
cache, which needs the exclusive lock), `MissingIsNoted` (the history has noticed every key
set without the kid). Theorems: `TypeCorrect`, `DataRaceFreedom`, `RequestsAreNeeded`,
`StaleCacheIsNoExcuse`, `CacheIsMonotonic`.

**EntityService_proofs.** `StoredFirst`: whoever may announce an entity has stored it.
`FromUpstream`: what is still under way to downstream was stored, too, so a late or repeated
delivery adds nothing. `AllAccounted`: as long as no call has failed, each change that is not
announced has a thread that is going to announce it or to fail, and each late store upstream
a thread that is going to fail; when all is quiet there is no such thread
(`SilentChangeNeedsFault`). `AloneInv`: nobody else is concerned with the entity of a call that is
alone, and every late write of its id carries its own value, so that one which arrives between
`PutSucceeds` and the answer changes nothing (`AloneAndOkMirrors`). `LateOK` bounds the late writes,
by the cardinality theorems of the library.

**TokenAuth_proofs.** About the operators alone. `LatestPosition`, by well-founded induction on the
naturals as the library states it for sets, gives the `CHOOSE` of `extractPubKeysPEM` its meaning;
then `ExtractedKeysSign` (nothing but signing keys gets into the map, each under its id),
`SigningKeysAreExtracted` (of a key set that converts none is lost, and its id leads to a signing
key; one that does not convert gives no map at all), `PassingIsValid` (nothing else passes) and
`ValidIsNotRefused` (`BeforeKey` and `AfterKey` of a valid token, whatever its `typ` and claims
are: never refused, thrown in exactly the cases of a missing `typ` and a claim that is no string).

**RequestPipeline_proofs.** The effect of every step on the spans, and of every decision about a
token, comes first, as lemmas (`ReceiveEffect` .. `ReturnEffect`). `ScopesInv` gives the stack of active
spans at every position of a thread: empty outside of a request, the remote span and the
request's within, one more during a PUT. `NumbersInv` keeps the spans of two requests apart.
With these, `OpenInv` (an open span has a thread that will close it), `ContextInv` (the thread-local
metadata is that of its request) and `PutInv` are inductive. `TokenInv` says that everything in the
cache is a signing key that was served once, `CoreInv` which requests the handler and the core let
through. `GenuineIsDecided` goes through the decisions about a genuine token, those that throw and
those beside a key that does not convert included. Theorems: `TypeCorrect`, `OnlyGenuineGetIn`, `GenuineGetIn`, `OkSetsAreFound`,
`PutsContinue`, `ScopesEnd`, `SpansTell`.

**PubSubHandler_proofs.** `LockInv` says when Handle has the mutex, `WakeupInv` that no stop gets between
the test of the predicate and the sleep; together they prove `StopIsHeard`, the safety half of
`StopEndsHandle`. `ProcessedInv` follows a message over all its callbacks: one whose acknowledgement was
sent is still in a callback or has an end, however it comes again meanwhile, and none is
`abandoned`, because Handle only returns without callbacks. Further theorems:
`TypeCorrect`, `CallbacksEndFirst`, `ShutdownLosesNothing`.

**Lifecycle_proofs.** `ServingInv`: whoever serves has all objects, and there are requests only while it
serves. `ConfigInv`: no object exists without a usable configuration (`CreatedIsUsable`).
Theorems: `TypeCorrect`, `RequestsEndFirst`, `ServesConfigured`.

Only model-checked are the liveness properties, as fairness is out of the prover's reach:
`DrainsWhenIntakeStops`, `EveryCallIsAnswered`, `StoppedServerEnds`, `ComesUp`, `StopEndsHandle`. The
statements of the documentation that are violated (Findings) have counterexamples and no
theorems.

## Assumptions about code outside the repository

- libpqxx: a lost connection shows as `broken_connection` when a transaction is begun or
  a statement is run on it, and as `in_doubt_error` around COMMIT. A COMMIT that was sent
  may be carried out after the client has gone.
- mse hooks: the exception mapper maps `broken_connection` only, other exceptions pass. The
  retry hook repeats transient statuses up to its maximum, `ErrorForwardingRequestHook`
  turns the last status into an exception, which the handler's hook turns into a status.
- httplib: requests run concurrently on a thread pool. A client error is any failed
  or timed out exchange; the server may have received the request.
- google-cloud-cpp and Pub/Sub: delivery is at least once. A message may come again, to the same
  process and while another callback has it, until an acknowledgement has arrived;
  acknowledging is asynchronous, and acknowledgements may be lost. No callback runs any more
  when the session is over and its connection destroyed. That a session ends by itself is left out.
- `GracefulShutdownOnSignal` calls `Stop` on a thread of its own, not on the one in `Handle`;
  its destructor waits for a `Stop` that is under way. Before its construction SIGTERM ends the
  process.
- mse `RequestHandler` makes the metadata of the request the thread-local one, nests the hooks in
  the order of `GloballyWith`, the first one outermost, and calls `post_process` of a hook when what
  is inside has returned, not when it has thrown. `ExceptionHandlingRequestHook` turns exceptions
  into statuses (`invalid_argument` into INVALID_ARGUMENT, unknown ones into an internal error);
  `TokenAuthRequestHook` answers UNAUTHENTICATED when there is no token, it does not
  decode or verify, or a required claim is missing.
- servers: `httplib::Server::stop` only has an effect on a server that listens, and `listen` returns
  when the requests in progress are done; `grpc::Server` serves from within `BuildAndStart`, which
  returns null when the port is taken, and `Shutdown` lets calls finish.
- cpp-jwt: a header whose `typ` is not JWT does not decode. OpenTelemetry: a `Scope` detaches its own
  context and what was attached later; a span whose handle is destroyed ends.
- redis++ and google-cloud-cpp: a call that fails on the way may have been carried out, or may be later.

## What is not modelled

Cryptography, PEM, JSON text, HTTP headers other than the two that are propagated, logging, the
length of pauses and their jitter, memory, and performance (how long lookups wait while one of
them asks the identity provider).

- The data race of `InMemoryRepo`: its README says that it is not thread-safe; undefined
  behaviour has no model worth having.
- Other members of an entity than its id: the narrowing of `int_property` from JSON
  (`handler-http.cpp:33`) is not looked at.
- A service without repo or notifier (the base alone has none). With a null notifier
  `SetEntity` ends after the store; with a null repo every request is an internal error.
- `HS256Parameters`, which no main uses: `Token` has RS256 and "other".
- The propagation type of the tracing hook: its main fragment always takes the
  single b3 header, the other formats carry the same.
- How long a withdrawn key stays valid: the cache is replaced only when a token has an unknown key id.
- structured-logging: a logger, and a hook of the library that changes nothing.
- Merging of sections is done by the sapper tool, which is not in this repository. deploy,
  dev-container, catch2 and hexagonal-http are templates and configuration.

## Plan

The modules of the plan are written: `EntityStore`, `PostgresRepo`, `JwksKeyProvider`,
`EntityService`, `PubSubHandler`, `SimpleRepos`, `TokenAuth`, `RequestPipeline`,
`OpenIdConfiguration`, `Lifecycle`. A topic between notifier-google-pubsub and
handler-google-pubsub became part of `EntityService`, codecs and tracing part of
`RequestPipeline`. Every safety property they are checked for is proved.

What may be added:

1. The safety parts of the liveness properties, as `StopIsHeard` is that of `StopEndsHandle`:
   that a thread in a call is never stuck (some step of it is possible, or the
   holder of its lock has one), for `PostgresRepo` and `JwksKeyProvider`.
2. The positive halves of the findings, as `GenuineTokensPass` is that of `ValidTokensPass`: for
   which handlers and which moments a SIGTERM is graceful, and which failures of an
   update are reported as UNAVAILABLE.
3. Theorems of new modules belong into the existing `_proofs` modules, next to the component they
   are about.
