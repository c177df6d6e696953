-------------------------- MODULE RequestPipeline --------------------------
(***************************************************************************)
(* What happens to a request between the handler that receives it and the  *)
(* status it is answered with, in a service with the tracing, exception    *)
(* handling and jwt-auth hooks (in this order, outermost first, as their   *)
(* main.cpp fragments PREPEND and APPEND them), the core, a repo and the   *)
(* HttpNotifier.  The jwt hook asks a key cache all threads share; every   *)
(* thread has its thread-local request metadata and its stack of active    *)
(* spans, and takes one request after the other.                           *)
(*                                                                         *)
(* An exception of anything inside the ExceptionHandlingRequestHook is a   *)
(* status.  The locking inside the key provider is JwksKeyProvider, the    *)
(* retries of the PUT are EntityService; here both are one step.           *)
(***************************************************************************)
EXTENDS TokenAuth, SequencesExt

CONSTANTS
  Threads,
  Handlers,      \* handler bricks the service may have: http, grpc or cli
  KeySets,       \* JWKS documents the identity provider may serve
  Segments,      \* ids are sequences of segments: what is between slashes
  Malformed,     \* the entity of a SET that cannot be parsed
  Requests,      \* requests clients may send
  Idle,          \* the request of a thread that has none
  MaxRequests    \* bound: requests in one behaviour

NoSpan == <<>>
Id == {<<>>} \cup {<<s>> : s \in Segments} \cup (Segments \X Segments)

\* A request of a client: its operation, the id in the URL or the message, the id in
\* the entity (a GET has none), its token, and whether it comes with a span.
Request == [op: {"get", "set"}, id: Id, body: Id \cup {Malformed},
            token: Token \cup {NoToken}, traced: BOOLEAN]

\* A request that has been received, with its number.
Numbers == 1..MaxRequests
Received == [op: {"get", "set"}, id: Id, body: Id \cup {Malformed},
             token: Token \cup {NoToken}, traced: BOOLEAN, number: Numbers]
Numbered(r, n) == [op |-> r.op, id |-> r.id, body |-> r.body, token |-> r.token,
                   traced |-> r.traced, number |-> n]

ASSUME RequestsAssumption ==
  /\ Requests \subseteq Request
  /\ Idle \notin Received
  /\ Handlers \subseteq {"http", "grpc", "cli"}
  /\ Malformed \notin Id
  /\ MaxRequests \in Nat
  /\ KeySets \subseteq Seq(Jwk)

VARIABLES
  handler,    \* which handler brick the service has
  keySet,     \* the JWKS document served now
  trusted,    \* history: the signing keys ever served
  cache,      \* _key_cache->data
  repo,       \* ids of the entities stored
  number,     \* requests received so far; also the number of the latest one
  pc,         \* where each thread is
  request,    \* the request it processes, with its number
  passed,     \* history: has the jwt hook let it in?
  answer,     \* its status, "none" before there is one
  local,      \* the thread-local metadata: the b3 span and the authorization
  active,     \* the stack of active spans of the thread
  spans,      \* parent and status of every span
  put         \* what the latest PUT of the thread carried

auth == <<keySet, trusted, cache>>
tracing == <<local, active, spans>>
vars == <<handler, auth, repo, number, pc, request, passed, answer, tracing, put>>

SpanIds == Numbers \X {"client", "incoming", "outgoing"}
SpanOf(t, type) == <<request[t].number, type>>
Statuses == {"ok", "not_found", "invalid", "unauthenticated", "unavailable", "internal"}
Metadata == [b3: SpanIds \cup {NoSpan}, authorization: Token \cup {NoToken}]

\* The types of the variables; the cache holds usable keys only.
TypeOK ==
  /\ handler \in Handlers
  /\ keySet \in KeySets
  /\ DOMAIN cache \subseteq Kids
  /\ \A k \in DOMAIN cache : cache[k] \in Materials
  /\ repo \subseteq Id
  /\ number \in 0..MaxRequests
  /\ pc \in [Threads -> {"idle", "received", "authentic", "retrieving", "storing",
                         "notifying", "sent", "handled", "answered"}]
  /\ request \in [Threads -> Received \cup {Idle}]
  /\ \A t \in Threads : request[t] = Idle <=> pc[t] = "idle"
  /\ passed \in [Threads -> BOOLEAN]
  /\ answer \in [Threads -> Statuses \cup {"none"}]
  /\ local \in [Threads -> Metadata]
  /\ active \in [Threads -> Seq(SpanIds \cup {NoSpan})]
  /\ spans \in [SpanIds -> [parent: SpanIds \cup {NoSpan},
                            status: {"none", "open", "unset", "ok", "error"}]]
  /\ put \in [Threads -> Metadata]

NoMetadata == [b3 |-> NoSpan, authorization |-> NoToken]

\* The key provider has filled its cache when it was made (RestJwksRSAKeyProvider).
Init ==
  /\ handler \in Handlers
  /\ keySet \in KeySets
  /\ Convertible(keySet) /\ extractPubKeysPEM(keySet) # <<>>
  /\ trusted = SigningKeys(keySet)
  /\ cache = extractPubKeysPEM(keySet)
  /\ repo = {}
  /\ number = 0
  /\ pc = [t \in Threads |-> "idle"]
  /\ request = [t \in Threads |-> Idle]
  /\ passed = [t \in Threads |-> FALSE]
  /\ answer = [t \in Threads |-> "none"]
  /\ local = [t \in Threads |-> NoMetadata]
  /\ active = [t \in Threads |-> <<>>]
  /\ spans = [n \in SpanIds |-> [parent |-> NoSpan, status |-> "none"]]
  /\ put = [t \in Threads |-> NoMetadata]

\* The identity provider serves another key set.
Rotate(jwks) ==
  /\ keySet' = jwks
  /\ trusted' = trusted \cup SigningKeys(jwks)
  /\ UNCHANGED <<handler, cache, repo, number, pc, request, passed, answer, tracing, put>>

-----------------------------------------------------------------------------
(* TracingRequestHook *)

Current(stack) == IF stack = <<>> THEN NoSpan ELSE Last(stack)

InjectedNothing(b3, stack) == b3   \* mutant: the metadata is left as it is
\* The propagator writes the current span, if there is one.
Injected(b3, stack) == IF Current(stack) = NoSpan THEN b3 ELSE Current(stack)

\* The remote span: without a b3 header it is what is current anyway.
Extracted(t, r) == IF r.traced THEN <<r.number, "client">> ELSE Current(active[t])

\* pre_process of an incoming request r, whose metadata has just become the thread's.
PreIncoming(t, r) ==
  LET remote == Extracted(t, r)
      span   == <<r.number, "incoming">>
      stack  == active[t] \o <<remote, span>>
  IN /\ spans' = [spans EXCEPT ![span] = [parent |-> remote, status |-> "open"]]
     /\ active' = [active EXCEPT ![t] = stack]
     /\ local' = [local EXCEPT ![t] =
          [b3 |-> Injected(IF r.traced THEN <<r.number, "client">> ELSE NoSpan, stack),
           authorization |-> r.token]]

RemoteScopeStays(stack) == Front(stack)   \* mutant
ScopesClosed(stack) == Front(Front(stack))

StatusUnseen(s) == "unset"   \* mutant: the exception handling is outside
SpanStatus(s) == IF s = "ok" THEN "ok" ELSE "error"

\* post_process of an incoming request.
PostIncoming(t) ==
  /\ spans' = [spans EXCEPT ![SpanOf(t, "incoming")].status = SpanStatus(answer[t])]
  /\ active' = [active EXCEPT ![t] = ScopesClosed(@)]
  /\ local' = [local EXCEPT ![t].b3 = Injected(@, Front(active[t]))]

\* pre_process of an outgoing request: the span becomes a child of the current one.
PreOutgoing(t) ==
  LET span  == SpanOf(t, "outgoing")
      stack == Append(active[t], span)
  IN /\ spans' = [spans EXCEPT ![span] = [parent |-> Current(active[t]), status |-> "open"]]
     /\ active' = [active EXCEPT ![t] = stack]
     /\ local' = [local EXCEPT ![t].b3 = Injected(@, stack)]

\* post_process of an outgoing request.
PostOutgoing(t) ==
  LET stack == Front(active[t])
  IN /\ spans' = [spans EXCEPT ![SpanOf(t, "outgoing")].status = "ok"]
     /\ active' = [active EXCEPT ![t] = stack]
     /\ local' = [local EXCEPT ![t].b3 = Injected(@, stack)]

\* The ErrorForwardingRequestHook is inside: its exception passes the tracing hook,
\* whose members end the span and its scope.
UnwindOutgoing(t) ==
  /\ spans' = [spans EXCEPT ![SpanOf(t, "outgoing")].status = "unset"]
  /\ active' = [active EXCEPT ![t] = Front(@)]
  /\ UNCHANGED local

-----------------------------------------------------------------------------
(* The hooks before the handler *)

\* The CliHandler takes one command; what is no entity does not get through gRPC.
Receive(t, r) ==
  /\ pc[t] = "idle"
  /\ number < MaxRequests
  /\ handler = "cli" => number = 0
  /\ handler = "grpc" => r.body # Malformed
  /\ number' = number + 1
  /\ pc' = [pc EXCEPT ![t] = "received"]
  /\ request' = [request EXCEPT ![t] = Numbered(r, number + 1)]
  /\ PreIncoming(t, request'[t])
  /\ UNCHANGED <<handler, auth, repo, passed, answer, put>>

Answer(t, s) ==
  /\ pc' = [pc EXCEPT ![t] = "handled"]
  /\ answer' = [answer EXCEPT ![t] = s]

\* What the jwt hook makes of a decision.
Decide(t, decision) ==
  CASE decision = "refused" -> Answer(t, "unauthenticated") /\ UNCHANGED passed
    [] decision = "thrown"  -> Answer(t, "internal") /\ UNCHANGED passed
    [] decision = "passed"  -> /\ pc' = [pc EXCEPT ![t] = "authentic"]
                               /\ passed' = [passed EXCEPT ![t] = TRUE]
                               /\ UNCHANGED answer

NotSearchedAgain(keys, kid) == NoKey   \* mutant: no search after the update
KeyIn(keys, kid) == IF kid \in DOMAIN keys THEN keys[kid] ELSE NoKey

\* The decision is made without a key, or with one from the cache.
AuthenticateFromCache(t) ==
  LET token == request[t].token
  IN /\ pc[t] = "received"
     /\ \/ /\ BeforeKey(token) # "needsKey"
           /\ Decide(t, BeforeKey(token))
        \/ /\ BeforeKey(token) = "needsKey"
           /\ KeyId(token) \in DOMAIN cache
           /\ Decide(t, AfterKey(token, cache[KeyId(token)]))
     /\ UNCHANGED <<handler, auth, repo, number, request, tracing, put>>

\* The key is asked for.  A document without usable keys and one with a key that
\* cannot be converted leave the cache as it is, and so does no document at all.
AuthenticateAsking(t) ==
  LET token == request[t].token
  IN /\ pc[t] = "received"
     /\ BeforeKey(token) = "needsKey"
     /\ KeyId(token) \notin DOMAIN cache
     /\ \/ /\ Convertible(keySet) /\ extractPubKeysPEM(keySet) # <<>>
           /\ cache' = extractPubKeysPEM(keySet)
           /\ Decide(t, AfterKey(token, KeyIn(cache', KeyId(token))))
        \/ /\ ~Convertible(keySet) \/ extractPubKeysPEM(keySet) = <<>>
           /\ Answer(t, "internal")
           /\ UNCHANGED <<cache, passed>>
        \/ /\ Answer(t, "unavailable")
           /\ UNCHANGED <<cache, passed>>
     /\ UNCHANGED <<handler, keySet, trusted, repo, number, request, tracing, put>>

-----------------------------------------------------------------------------
(* The handler function and the core *)

\* extractId: the path up to its last slash is not part of the id.
extractId(id) == IF id = <<>> THEN <<>> ELSE <<Last(id)>>

\* The id a handler takes out of a request.
AskedId(h, id) == IF h = "http" THEN extractId(id) ELSE id

AnyId(t) == TRUE   \* mutant: the id in the URL is not compared
SameId(t) == handler = "http" => request[t].body = AskedId(handler, request[t].id)

\* The core wants an id of both its operations.
CoreRefuses(id) == id = <<>>

\* What getEntity and setEntity, or the core below them, answer with an
\* std::invalid_argument.
Refused(t) ==
  LET r == request[t]
  IN \/ r.op = "get" /\ CoreRefuses(AskedId(handler, r.id))
     \/ r.op = "set" /\ (r.body = Malformed \/ ~SameId(t) \/ CoreRefuses(r.body))

\* getEntity and setEntity up to the call of the repo.
Handle(t) ==
  /\ pc[t] = "authentic"
  /\ \/ /\ ~Refused(t)
        /\ pc' = [pc EXCEPT ![t] = IF request[t].op = "get" THEN "retrieving" ELSE "storing"]
        /\ UNCHANGED answer
     \/ /\ Refused(t)
        /\ Answer(t, "invalid")
  /\ UNCHANGED <<handler, auth, repo, number, request, passed, tracing, put>>

Retrieve(t) ==
  /\ pc[t] = "retrieving"
  /\ \/ Answer(t, IF AskedId(handler, request[t].id) \in repo THEN "ok" ELSE "not_found")
     \/ Answer(t, "internal")
  /\ UNCHANGED <<handler, auth, repo, number, request, passed, tracing, put>>

Store(t) ==
  /\ pc[t] = "storing"
  /\ \/ /\ repo' = repo \cup {request[t].body}
        /\ pc' = [pc EXCEPT ![t] = "notifying"]
        /\ UNCHANGED answer
     \/ /\ repo' \in {repo, repo \cup {request[t].body}}
        /\ Answer(t, "internal")
  /\ UNCHANGED <<handler, auth, number, request, passed, tracing, put>>

\* HttpNotifier::EntityChanged up to the PUT: the headers to propagate come from the
\* thread's metadata.
Notify(t) ==
  /\ pc[t] = "notifying"
  /\ PreOutgoing(t)
  /\ put' = [put EXCEPT ![t] = local'[t]]
  /\ pc' = [pc EXCEPT ![t] = "sent"]
  /\ UNCHANGED <<handler, auth, repo, number, request, passed, answer>>

\* The PUT goes to /Entity/ and the id, where an HttpHandler wants the same id in
\* the entity.
PutSucceeds(t) ==
  /\ pc[t] = "sent"
  /\ extractId(request[t].body) = request[t].body
  /\ PostOutgoing(t)
  /\ Answer(t, "ok")
  /\ UNCHANGED <<handler, auth, repo, number, request, passed, put>>

PutFails(t) ==
  /\ pc[t] = "sent"
  /\ UnwindOutgoing(t)
  /\ \E s \in Statuses \ {"ok"} :
       /\ extractId(request[t].body) # request[t].body => s \in {"invalid", "unavailable"}
       /\ Answer(t, s)
  /\ UNCHANGED <<handler, auth, repo, number, request, passed, put>>

Finish(t) ==
  /\ pc[t] = "handled"
  /\ PostIncoming(t)
  /\ pc' = [pc EXCEPT ![t] = "answered"]
  /\ UNCHANGED <<handler, auth, repo, number, request, passed, answer, put>>

Return(t) ==
  /\ pc[t] = "answered"
  /\ pc' = [pc EXCEPT ![t] = "idle"]
  /\ request' = [request EXCEPT ![t] = Idle]
  /\ passed' = [passed EXCEPT ![t] = FALSE]
  /\ answer' = [answer EXCEPT ![t] = "none"]
  /\ put' = [put EXCEPT ![t] = NoMetadata]
  /\ UNCHANGED <<handler, auth, repo, number, tracing>>

-----------------------------------------------------------------------------
Proceed(t) ==
  \/ AuthenticateFromCache(t) \/ AuthenticateAsking(t) \/ Handle(t)
  \/ Retrieve(t) \/ Store(t) \/ Notify(t) \/ PutSucceeds(t) \/ PutFails(t)
  \/ Finish(t) \/ Return(t)

Next ==
  \/ \E t \in Threads : Proceed(t) \/ \E r \in Requests : Receive(t, r)
  \/ \E jwks \in KeySets : Rotate(jwks)

Spec == Init /\ [][Next]_vars

-----------------------------------------------------------------------------
(* Properties *)

\* The handler and the repo only see requests whose token is signed with a key the
\* identity provider has served for signatures, and is valid otherwise.
OnlyGenuineTokensPass == \A t \in Threads : passed[t] => Valid(request[t].token, trusted)

\* A valid token, signed with the one key that goes by its kid.
Genuine(token) ==
  /\ Valid(token, SigningKeys(keySet)) /\ Wellformed(token)
  /\ \A k \in SigningKeys(keySet) : k[1] = token.kid => k[2] = token.signer
  /\ token.kid \in DOMAIN cache => cache[token.kid] = token.signer

Decided(t) == pc[t] = "received" /\ pc'[t] # "received"

\* A genuine token gets in, whatever else the identity provider serves, a key that does not
\* convert included.  The exceptions: the code throws when the typ is missing or a required
\* claim is no string, and a key that is not cached can only be had from a provider that
\* answers with a key set that converts as a whole.  Even then the token is not called a
\* forgery, and the cache keeps what it has.
GenuineTokensPass ==
  [][\A t \in Threads :
       LET token == request[t].token
       IN Decided(t) /\ Genuine(token) =>
            \/ passed'[t]
            \/ answer'[t] = "internal" /\ (token.typ = "absent" \/ token.claim = "other")
            \/ /\ token.kid \notin DOMAIN cache /\ cache' = cache
               /\ \/ answer'[t] = "unavailable"
                  \/ answer'[t] = "internal" /\ ~Convertible(keySet)]_vars

\* "In case the <TOKEN> is valid, the call will be successful": a genuine token whose key is
\* in the cache gets in, without exceptions.
ValidTokensPass ==
  [][\A t \in Threads :
       Decided(t) /\ Genuine(request[t].token) /\ request[t].token.kid \in DOMAIN cache
         => passed'[t]]_vars

\* A SET answered OK has stored an entity that a GET of the same id finds, with any
\* handler, here and at the service that is notified.
OkSetCanBeRead ==
  \A t \in Threads : pc[t] = "answered" /\ answer[t] = "ok" /\ request[t].op = "set" =>
    LET id == IF handler = "http" THEN request[t].id ELSE request[t].body
    IN \A h \in {handler, "http"} : AskedId(h, id) = request[t].body

\* A PUT speaks for the client of this request: it carries its token, and its span
\* descends from the client's.
PutContinuesTheRequest ==
  \A t \in Threads : put[t] # NoMetadata =>
    /\ put[t].authorization = request[t].token
    /\ put[t].b3 = SpanOf(t, "outgoing")
    /\ spans[SpanOf(t, "outgoing")].parent = SpanOf(t, "incoming")
    /\ spans[SpanOf(t, "incoming")].parent =
         IF request[t].traced THEN SpanOf(t, "client") ELSE NoSpan

\* A thread leaves no span active or open behind: the next request is not a child of
\* this one, whichever way it ended.
NothingStaysActive ==
  /\ \A t \in Threads : pc[t] \in {"idle", "answered"} => active[t] = <<>>
  /\ (\A t \in Threads : pc[t] \in {"idle", "answered"}) =>
       \A n \in SpanIds : spans[n].status # "open"

\* The span of a request tells whether it was answered OK, exceptions included.
SpanTellsStatus ==
  \A t \in Threads : pc[t] = "answered" =>
    spans[SpanOf(t, "incoming")].status = IF answer[t] = "ok" THEN "ok" ELSE "error"
=============================================================================
