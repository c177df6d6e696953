----------------------- MODULE RequestPipeline_proofs -----------------------
(***************************************************************************)
(* Theorems about RequestPipeline for any threads, key sets and requests.  *)
(* The effect of every step on the spans and on the decision about a       *)
(* token comes first, as lemmas; the invariants are proved from these, one *)
(* lemma each, and make up the inductive invariant together.               *)
(***************************************************************************)
EXTENDS RequestPipeline, TokenAuth_proofs, SequenceTheorems

Incoming(t) == SpanOf(t, "incoming")
Outgoing(t) == SpanOf(t, "outgoing")

\* What the span of a request is a child of.
Remote(t) == IF request[t].traced THEN SpanOf(t, "client") ELSE NoSpan

\* Where a thread is between the tracing hook's pre_process and its post_process,
\* outside of the notifier.
Serving == {"received", "authentic", "retrieving", "storing", "notifying", "handled"}

\* The requests in progress have numbers of their own, all of them used up.
NumbersInv ==
  /\ \A t \in Threads : pc[t] # "idle" => request[t].number <= number
  /\ \A t, u \in Threads :
       pc[t] # "idle" /\ pc[u] # "idle" /\ t # u => request[t].number # request[u].number

\* A thread is inside the scopes of its own request, and of nothing else.
InScopes(t) ==
  /\ pc[t] \in {"idle", "answered"} => active[t] = <<>>
  /\ pc[t] \in Serving => active[t] = <<Remote(t), Incoming(t)>>
  /\ pc[t] = "sent" => active[t] = <<Remote(t), Incoming(t), Outgoing(t)>>

ScopesInv == \A t \in Threads : InScopes(t)

\* The thread's metadata and its span are those of its request.
HasContext(t) ==
  pc[t] # "idle" => /\ spans[Incoming(t)].parent = Remote(t)
                    /\ local[t].authorization = request[t].token

ContextInv == \A t \in Threads : HasContext(t)

\* What a PUT has carried is what the thread's request is about.
PutFits(t) ==
  put[t] # NoMetadata => /\ pc[t] \in {"sent", "handled", "answered"}
                         /\ put[t].authorization = request[t].token
                         /\ put[t].b3 = Outgoing(t)
                         /\ spans[Outgoing(t)].parent = Incoming(t)

PutInv == \A t \in Threads : PutFits(t)

\* Every open span belongs to a thread that will close it.
OpenFor(n, t) ==
  \/ pc[t] \notin {"idle", "answered"} /\ n = Incoming(t)
  \/ pc[t] = "sent" /\ n = Outgoing(t)

OpenInv == \A n \in SpanIds : spans[n].status = "open" => \E t \in Threads : OpenFor(n, t)

\* There is an answer as soon as the request is handled, and not before.
AnswerFits(t) == answer[t] # "none" <=> pc[t] \in {"handled", "answered"}

AnswerInv == \A t \in Threads : AnswerFits(t)

\* Whoever is past the hook has been let in, the cache holds signing keys the identity
\* provider has served.
TokenInv ==
  /\ \A t \in Threads : passed[t] => pc[t] \notin {"idle", "received"}
  /\ \A k \in DOMAIN cache : <<k, cache[k]>> \in trusted
  /\ SigningKeys(keySet) \subseteq trusted

\* The repo and the notifier are called for requests the handler and the core accept.
Accepted(t) ==
  /\ pc[t] = "retrieving" => request[t].op = "get"
  /\ pc[t] \in {"storing", "notifying", "sent"} => request[t].op = "set" /\ ~Refused(t)
  /\ pc[t] \in {"handled", "answered"} /\ answer[t] = "ok" /\ request[t].op = "set" =>
       ~Refused(t) /\ extractId(request[t].body) = request[t].body

CoreInv == \A t \in Threads : Accepted(t)

\* The inductive invariant.
IInv ==
  /\ TypeOK
  /\ NumbersInv
  /\ ScopesInv
  /\ ContextInv
  /\ PutInv
  /\ OpenInv
  /\ AnswerInv
  /\ TokenInv
  /\ OnlyGenuineTokensPass
  /\ CoreInv
  /\ SpanTellsStatus

-----------------------------------------------------------------------------
(* The helpers, and the effects of the steps. *)

\* Stacks of two and three spans: appending one, and leaving the last one.
LEMMA ShortStacks ==
  ASSUME NEW a \in SpanIds \cup {NoSpan}, NEW b \in SpanIds
  PROVE  /\ <<>> \o <<a, b>> = <<a, b>>
         /\ \A c \in SpanIds : Append(<<a, b>>, c) = <<a, b, c>>
         /\ \A c \in SpanIds : Front(<<a, b, c>>) = <<a, b>>
         /\ Front(<<a, b>>) = <<a>>
         /\ Front(<<a>>) = <<>>
<1> DEFINE S == SpanIds \cup {NoSpan}
<1>0. <<a>> \in Seq(S) /\ <<a, b>> \in Seq(S) /\ \A c \in SpanIds : <<a, b, c>> \in Seq(S)
  OBVIOUS
<1>1. <<>> \o <<a, b>> = <<a, b>>
  BY <1>0
<1>2. ASSUME NEW c \in SpanIds PROVE Append(<<a, b>>, c) = <<a, b, c>>
  <2> DEFINE s == Append(<<a, b>>, c)
  <2>1. s \in Seq(S) /\ Len(s) = 3 /\ s[1] = a /\ s[2] = b /\ s[3] = c
    BY <1>0
  <2>2. \A i \in 1..Len(s) : s[i] = <<a, b, c>>[i]
    BY <2>1
  <2> QED
    BY <1>0, <2>1, <2>2, SeqEqual
<1>3. ASSUME NEW c \in SpanIds PROVE Front(<<a, b, c>>) = <<a, b>>
  <2> DEFINE s == Front(<<a, b, c>>)
  <2>1. s \in Seq(S) /\ Len(s) = 2 /\ s[1] = a /\ s[2] = b
    BY <1>0 DEF Front
  <2>2. \A i \in 1..Len(s) : s[i] = <<a, b>>[i]
    BY <2>1
  <2> QED
    BY <1>0, <2>1, <2>2
<1>4. Front(<<a, b>>) = <<a>>
  <2> DEFINE s == Front(<<a, b>>)
  <2>1. s \in Seq(S) /\ Len(s) = 1 /\ s[1] = a
    BY <1>0 DEF Front
  <2>2. \A i \in 1..Len(s) : s[i] = <<a>>[i]
    BY <2>1
  <2> QED
    BY <1>0, <2>1, <2>2
<1>5. Front(<<a>>) = <<>>
  BY DEF Front
<1> QED
  BY <1>1, <1>2, <1>3, <1>4, <1>5

\* The spans of requests are not the one that stands for none.
LEMMA SpansAreNotNoSpan == \A n \in SpanIds : n # NoSpan
BY DEF SpanIds, NoSpan

\* The current span is the last one of the stack.
LEMMA LastIsCurrent ==
  /\ \A a, b : Current(<<a, b>>) = b
  /\ \A a, b3 : Injected(b3, <<a>>) = IF a = NoSpan THEN b3 ELSE a
  /\ \A a, b, b3 : b \in SpanIds => Injected(b3, <<a, b>>) = b
  /\ \A a, b, c, b3 : c \in SpanIds => Injected(b3, <<a, b, c>>) = c
<1>1. \A a, b, c : Current(<<a>>) = a /\ Current(<<a, b>>) = b /\ Current(<<a, b, c>>) = c
  BY DEF Current, Last
<1> QED
  BY <1>1, SpansAreNotNoSpan DEF Injected

\* The spans of a thread's request are spans.
LEMMA SpansOfRequest ==
  ASSUME TypeOK, NEW t \in Threads, pc[t] # "idle"
  PROVE  /\ request[t] \in Received
         /\ Incoming(t) \in SpanIds /\ Outgoing(t) \in SpanIds
         /\ Remote(t) \in SpanIds \cup {NoSpan}
<1>1. request[t] \in Received
  BY DEF TypeOK
<1>2. request[t].number \in Numbers
  BY <1>1 DEF Received
<1> QED
  BY <1>1, <1>2 DEF Incoming, Outgoing, Remote, SpanOf, SpanIds

\* A request keeps what it is about when it gets its number.
LEMMA NumberedIsReceived ==
  ASSUME NEW r \in Requests, NEW n \in Numbers
  PROVE  Numbered(r, n) \in Received /\ Numbered(r, n) # Idle
BY RequestsAssumption DEF Request, Received, Numbered

\* pre_process of an incoming request: a new span inside the client's, of a thread
\* that was in none.
LEMMA ReceiveEffect ==
  ASSUME TypeOK, ScopesInv, NEW t \in Threads, NEW r \in Requests, Receive(t, r)
  PROVE  LET n == number + 1
             remote == IF r.traced THEN <<n, "client">> ELSE NoSpan
             span == <<n, "incoming">>
         IN /\ pc[t] = "idle" /\ pc' = [pc EXCEPT ![t] = "received"]
            /\ number' = n /\ n \in Numbers
            /\ remote \in SpanIds \cup {NoSpan} /\ span \in SpanIds
            /\ request' = [request EXCEPT ![t] = Numbered(r, n)]
            /\ active' = [active EXCEPT ![t] = <<remote, span>>]
            /\ spans' = [spans EXCEPT ![span] = [parent |-> remote, status |-> "open"]]
            /\ local' = [local EXCEPT ![t] = [b3 |-> span, authorization |-> r.token]]
            /\ UNCHANGED <<handler, auth, repo, passed, answer, put>>
<1> DEFINE n == number + 1
           remote == IF r.traced THEN <<n, "client">> ELSE NoSpan
           span == <<n, "incoming">>
           x == Numbered(r, n)
           stack == active[t] \o <<Extracted(t, x), span>>
<1>1. n \in Numbers /\ number' = n
  BY RequestsAssumption DEF Receive, TypeOK, Numbers
<1>2. remote \in SpanIds \cup {NoSpan} /\ span \in SpanIds
  BY <1>1 DEF SpanIds
<1>3. x.traced = r.traced /\ x.number = n /\ x.token = r.token
  BY DEF Numbered
<1>4. pc[t] = "idle" /\ active[t] = <<>>
  BY DEF Receive, ScopesInv, InScopes
<1>5. request' = [request EXCEPT ![t] = x] /\ request'[t] = x
  BY DEF Receive, TypeOK
<1>6. Extracted(t, x) = remote
  BY <1>3, <1>4 DEF Extracted, Current
<1>7. stack = <<remote, span>>
  BY <1>2, <1>4, <1>6
<1>8. \A b3 : Injected(b3, stack) = span
  <2> HIDE DEF stack, remote, span
  <2> QED
    BY <1>2, <1>7, LastIsCurrent
<1>9. PreIncoming(t, x)
  BY <1>5 DEF Receive
<1>10. /\ spans' = [spans EXCEPT ![span] = [parent |-> remote, status |-> "open"]]
       /\ active' = [active EXCEPT ![t] = <<remote, span>>]
       /\ local' = [local EXCEPT ![t] = [b3 |-> span, authorization |-> r.token]]
  BY <1>3, <1>6, <1>7, <1>8, <1>9 DEF PreIncoming
<1> QED
  BY <1>1, <1>2, <1>4, <1>5, <1>10 DEF Receive

\* pre_process of the PUT: a new span inside the request's, which the PUT carries.
LEMMA NotifyEffect ==
  ASSUME TypeOK, ScopesInv, NEW t \in Threads, Notify(t)
  PROVE  /\ pc[t] = "notifying" /\ pc' = [pc EXCEPT ![t] = "sent"]
         /\ active' = [active EXCEPT ![t] = <<Remote(t), Incoming(t), Outgoing(t)>>]
         /\ spans' = [spans EXCEPT ![Outgoing(t)] = [parent |-> Incoming(t), status |-> "open"]]
         /\ local' = [local EXCEPT ![t].b3 = Outgoing(t)]
         /\ put' = [put EXCEPT ![t] = local'[t]]
         /\ UNCHANGED <<handler, auth, repo, number, request, passed, answer>>
<1>1. pc[t] = "notifying" /\ active[t] = <<Remote(t), Incoming(t)>>
  BY DEF Notify, ScopesInv, InScopes, Serving
<1>a. Incoming(t) \in SpanIds /\ Outgoing(t) \in SpanIds /\ Remote(t) \in SpanIds \cup {NoSpan}
  BY <1>1, SpansOfRequest
<1>2. /\ Append(active[t], Outgoing(t)) = <<Remote(t), Incoming(t), Outgoing(t)>>
      /\ Current(active[t]) = Incoming(t)
  <2>1. Append(<<Remote(t), Incoming(t)>>, Outgoing(t)) = <<Remote(t), Incoming(t), Outgoing(t)>>
    BY <1>a, ShortStacks
  <2> QED
    BY <1>1, <2>1, LastIsCurrent
<1>3. \A b3 : Injected(b3, <<Remote(t), Incoming(t), Outgoing(t)>>) = Outgoing(t)
  BY <1>a, LastIsCurrent
<1> QED
  BY <1>1, <1>2, <1>3 DEF Notify, PreOutgoing, Outgoing

\* The end of a PUT, by an answer or an exception, ends its span and its scope.
LEMMA PutEffect ==
  ASSUME TypeOK, ScopesInv, NEW t \in Threads, PutSucceeds(t) \/ PutFails(t)
  PROVE  /\ pc[t] = "sent" /\ pc' = [pc EXCEPT ![t] = "handled"]
         /\ active' = [active EXCEPT ![t] = <<Remote(t), Incoming(t)>>]
         /\ \E s \in {"ok", "unset"} : spans' = [spans EXCEPT ![Outgoing(t)].status = s]
         /\ local' = [local EXCEPT ![t].b3 = Incoming(t)] \/ local' = local
         /\ \E s \in Statuses : /\ answer' = [answer EXCEPT ![t] = s]
                                /\ s = "ok" => extractId(request[t].body) = request[t].body
         /\ UNCHANGED <<handler, auth, repo, number, request, passed, put>>
<1>1. pc[t] = "sent" /\ active[t] = <<Remote(t), Incoming(t), Outgoing(t)>>
  BY DEF PutSucceeds, PutFails, ScopesInv, InScopes
<1>a. Incoming(t) \in SpanIds /\ Outgoing(t) \in SpanIds /\ Remote(t) \in SpanIds \cup {NoSpan}
  BY <1>1, SpansOfRequest
<1>2. Front(active[t]) = <<Remote(t), Incoming(t)>>
  BY <1>1, <1>a, ShortStacks
<1>3. \A b3 : Injected(b3, <<Remote(t), Incoming(t)>>) = Incoming(t)
  BY <1>a, LastIsCurrent
<1>4. CASE PutSucceeds(t)
  BY <1>1, <1>2, <1>3, <1>4 DEF PutSucceeds, PostOutgoing, Answer, Outgoing, Statuses
<1>5. CASE PutFails(t)
  BY <1>1, <1>2, <1>5 DEF PutFails, UnwindOutgoing, Answer, Outgoing
<1> QED
  BY <1>4, <1>5

\* post_process of an incoming request ends its span and leaves all scopes.
LEMMA FinishEffect ==
  ASSUME TypeOK, ScopesInv, NEW t \in Threads, Finish(t)
  PROVE  /\ pc[t] = "handled" /\ pc' = [pc EXCEPT ![t] = "answered"]
         /\ active' = [active EXCEPT ![t] = <<>>]
         /\ spans' = [spans EXCEPT ![Incoming(t)].status = SpanStatus(answer[t])]
         /\ local' = [local EXCEPT ![t].b3 = Remote(t)] \/ local' = local
         /\ UNCHANGED <<handler, auth, repo, number, request, passed, answer, put>>
<1>1. pc[t] = "handled" /\ active[t] = <<Remote(t), Incoming(t)>>
  BY DEF Finish, ScopesInv, InScopes, Serving
<1>a. Incoming(t) \in SpanIds /\ Outgoing(t) \in SpanIds /\ Remote(t) \in SpanIds \cup {NoSpan}
  BY <1>1, SpansOfRequest
<1>2. Front(active[t]) = <<Remote(t)>> /\ Front(Front(active[t])) = <<>>
  BY <1>1, <1>a, ShortStacks
<1>3. local' = [local EXCEPT ![t].b3 = Injected(@, <<Remote(t)>>)]
  BY <1>2 DEF Finish, PostIncoming
<1>4. \A b3 : Injected(b3, <<Remote(t)>>) = IF Remote(t) = NoSpan THEN b3 ELSE Remote(t)
  BY LastIsCurrent
<1>5. local' = [local EXCEPT ![t].b3 = Remote(t)] \/ local' = local
  <2>1. local \in [Threads -> Metadata]
    BY DEF TypeOK
  <2>2. CASE Remote(t) = NoSpan
    BY <1>3, <1>4, <2>1, <2>2 DEF Metadata
  <2>3. CASE Remote(t) # NoSpan
    BY <1>3, <1>4, <2>3
  <2> QED
    BY <2>2, <2>3
<1> QED
  BY <1>1, <1>2, <1>5 DEF Finish, PostIncoming, ScopesClosed, Incoming

\* Decisions are what the jwt hook tells apart; without a key none of them is to pass.
LEMMA Decisions ==
  ASSUME NEW token, NEW key
  PROVE  /\ BeforeKey(token) \in {"refused", "thrown", "needsKey"}
         /\ AfterKey(token, key) \in {"refused", "thrown", "passed"}
         /\ AfterKey(token, NoKey) # "passed"
<1>1. BeforeKey(token) \in {"refused", "thrown", "needsKey"}
  BY DEF BeforeKey
<1>2. AfterKey(token, key) \in {"refused", "thrown", "passed"}
  BY DEF AfterKey
<1>3. AfterKey(token, NoKey) # "passed"
  BY DEF AfterKey
<1> QED
  BY <1>1, <1>2, <1>3

\* A decision to pass lets the request in, every other one is a status.
LEMMA DecideEffect ==
  ASSUME NEW t, NEW decision \in {"refused", "thrown", "passed"}, Decide(t, decision)
  PROVE  \/ /\ decision = "passed"
            /\ pc' = [pc EXCEPT ![t] = "authentic"]
            /\ passed' = [passed EXCEPT ![t] = TRUE]
            /\ answer' = answer
         \/ /\ decision # "passed"
            /\ pc' = [pc EXCEPT ![t] = "handled"]
            /\ passed' = passed
            /\ answer' = [answer EXCEPT ![t] =
                            IF decision = "refused" THEN "unauthenticated" ELSE "internal"]
<1>1. CASE decision = "refused"
  BY <1>1 DEF Decide, Answer
<1>2. CASE decision = "thrown"
  BY <1>2 DEF Decide, Answer
<1>3. CASE decision = "passed"
  BY <1>3 DEF Decide
<1> QED
  BY <1>1, <1>2, <1>3

\* The jwt hook lets a request in with a key of the cache, as it is afterwards, or
\* answers it.
LEMMA AuthenticateEffect ==
  ASSUME NEW t \in Threads, AuthenticateFromCache(t) \/ AuthenticateAsking(t)
  PROVE  LET token == request[t].token
         IN /\ pc[t] = "received"
            /\ cache' = cache \/ (Convertible(keySet) /\ cache' = extractPubKeysPEM(keySet))
            /\ \/ /\ pc' = [pc EXCEPT ![t] = "authentic"]
                  /\ passed' = [passed EXCEPT ![t] = TRUE]
                  /\ answer' = answer
                  /\ BeforeKey(token) = "needsKey"
                  /\ KeyId(token) \in DOMAIN cache'
                  /\ AfterKey(token, cache'[KeyId(token)]) = "passed"
               \/ /\ pc' = [pc EXCEPT ![t] = "handled"]
                  /\ passed' = passed
                  /\ \E s \in Statuses \ {"ok"} : answer' = [answer EXCEPT ![t] = s]
            /\ UNCHANGED <<handler, keySet, trusted, repo, number, request, tracing, put>>
<1> DEFINE token == request[t].token
           kid == KeyId(token)
           Passes == /\ pc' = [pc EXCEPT ![t] = "authentic"]
                     /\ passed' = [passed EXCEPT ![t] = TRUE]
                     /\ answer' = answer
                     /\ BeforeKey(token) = "needsKey"
                     /\ kid \in DOMAIN cache'
                     /\ AfterKey(token, cache'[kid]) = "passed"
           Fails == /\ pc' = [pc EXCEPT ![t] = "handled"]
                    /\ passed' = passed
                    /\ \E s \in Statuses \ {"ok"} : answer' = [answer EXCEPT ![t] = s]
<1>0. {"unauthenticated", "unavailable", "internal"} \subseteq Statuses \ {"ok"}
  BY DEF Statuses
<1>1. CASE AuthenticateFromCache(t)
  <2>1. cache' = cache /\ pc[t] = "received"
    BY <1>1 DEF AuthenticateFromCache, auth
  <2>2. CASE BeforeKey(token) # "needsKey" /\ Decide(t, BeforeKey(token))
    <3>1. BeforeKey(token) \in {"refused", "thrown"}
      BY <2>2, Decisions
    <3> QED
      BY <1>0, <1>1, <2>1, <2>2, <3>1, DecideEffect DEF AuthenticateFromCache, auth
  <2>3. CASE /\ BeforeKey(token) = "needsKey"
             /\ kid \in DOMAIN cache
             /\ Decide(t, AfterKey(token, cache[kid]))
    <3>1. AfterKey(token, cache[kid]) \in {"refused", "thrown", "passed"}
      BY Decisions
    <3>2. Passes \/ Fails
      BY <1>0, <2>1, <2>3, <3>1, DecideEffect
    <3> QED
      BY <1>1, <2>1, <3>2 DEF AuthenticateFromCache, auth
  <2> QED
    BY <1>1, <2>2, <2>3 DEF AuthenticateFromCache
<1>2. CASE AuthenticateAsking(t)
  <2>1. CASE /\ Convertible(keySet)
             /\ cache' = extractPubKeysPEM(keySet)
             /\ Decide(t, AfterKey(token, KeyIn(cache', kid)))
    <3>1. AfterKey(token, KeyIn(cache', kid)) \in {"refused", "thrown", "passed"}
      BY Decisions
    <3>2. AfterKey(token, KeyIn(cache', kid)) = "passed" =>
            kid \in DOMAIN cache' /\ KeyIn(cache', kid) = cache'[kid]
      BY Decisions DEF KeyIn
    <3>3. BeforeKey(token) = "needsKey"
      BY <1>2 DEF AuthenticateAsking
    <3>4. Passes \/ Fails
      BY <1>0, <2>1, <3>1, <3>2, <3>3, DecideEffect
    <3> QED
      BY <1>2, <2>1, <3>4 DEF AuthenticateAsking
  <2>2. CASE /\ Answer(t, "internal") \/ Answer(t, "unavailable")
             /\ UNCHANGED <<cache, passed>>
    BY <1>0, <1>2, <2>2 DEF AuthenticateAsking, Answer
  <2> QED
    BY <1>2, <2>1, <2>2 DEF AuthenticateAsking
<1> QED
  BY <1>1, <1>2

\* The steps that leave the spans and the metadata alone.
Quiet(t) ==
  AuthenticateFromCache(t) \/ AuthenticateAsking(t) \/ Handle(t) \/ Retrieve(t) \/ Store(t)

\* They are taken between the hooks.
LEMMA QuietEffect ==
  ASSUME NEW t \in Threads, Quiet(t)
  PROVE  /\ pc[t] \in {"received", "authentic", "retrieving", "storing"}
         /\ \E p \in {"authentic", "retrieving", "storing", "notifying", "handled"} :
              pc' = [pc EXCEPT ![t] = p]
         /\ UNCHANGED <<handler, keySet, trusted, number, request, tracing, put>>
<1>1. CASE AuthenticateFromCache(t) \/ AuthenticateAsking(t)
  BY <1>1, AuthenticateEffect
<1>2. CASE Handle(t)
  BY <1>2 DEF Handle, Answer, auth
<1>3. CASE Retrieve(t)
  BY <1>3 DEF Retrieve, Answer, auth
<1>4. CASE Store(t)
  BY <1>4 DEF Store, Answer, auth
<1> QED
  BY <1>1, <1>2, <1>3, <1>4 DEF Quiet

\* A step changes what is local to its own thread only.
LEMMA OthersStay ==
  ASSUME TypeOK, ScopesInv, NEW t \in Threads, NEW u \in Threads, u # t,
         Proceed(t) \/ \E r \in Requests : Receive(t, r)
  PROVE  /\ pc'[u] = pc[u] /\ request'[u] = request[u] /\ passed'[u] = passed[u]
         /\ answer'[u] = answer[u] /\ local'[u] = local[u] /\ active'[u] = active[u]
         /\ put'[u] = put[u]
         /\ handler' = handler
<1>0. /\ DOMAIN pc = Threads /\ DOMAIN request = Threads /\ DOMAIN passed = Threads
      /\ DOMAIN answer = Threads /\ DOMAIN local = Threads /\ DOMAIN active = Threads
      /\ DOMAIN put = Threads
  BY DEF TypeOK
<1>1. CASE \E r \in Requests : Receive(t, r)
  <2>1. PICK r \in Requests : Receive(t, r)
    BY <1>1
  <2>2. /\ pc' = [pc EXCEPT ![t] = "received"]
        /\ \E x : request' = [request EXCEPT ![t] = x]
        /\ \E x : active' = [active EXCEPT ![t] = x]
        /\ \E x : local' = [local EXCEPT ![t] = x]
        /\ UNCHANGED <<handler, passed, answer, put>>
    BY <2>1, ReceiveEffect
  <2> QED
    BY <1>0, <2>2
<1>2. CASE AuthenticateFromCache(t) \/ AuthenticateAsking(t)
  BY <1>0, <1>2, AuthenticateEffect DEF tracing
<1>3. CASE Handle(t)
  BY <1>0, <1>3 DEF Handle, Answer, tracing
<1>4. CASE Retrieve(t)
  BY <1>0, <1>4 DEF Retrieve, Answer, tracing
<1>5. CASE Store(t)
  BY <1>0, <1>5 DEF Store, Answer, tracing
<1>6. CASE Notify(t)
  BY <1>0, <1>6, NotifyEffect
<1>7. CASE PutSucceeds(t) \/ PutFails(t)
  BY <1>0, <1>7, PutEffect
<1>8. CASE Finish(t)
  BY <1>0, <1>8, FinishEffect
<1>9. CASE Return(t)
  BY <1>0, <1>9 DEF Return, tracing
<1> QED
  BY <1>1, <1>2, <1>3, <1>4, <1>5, <1>6, <1>7, <1>8, <1>9 DEF Proceed

\* Whether it is about a key set or nothing happens at all.
Idling == UNCHANGED <<handler, cache, repo, number, pc, request, passed, answer, tracing, put>>

\* A step of a thread, a change of the key set, or none.
LEMMA StepCases ==
  ASSUME [Next]_vars
  PROVE  \/ \E t \in Threads : Proceed(t) \/ \E r \in Requests : Receive(t, r)
         \/ Idling /\ \E jwks \in KeySets : Rotate(jwks)
         \/ Idling /\ keySet' = keySet /\ trusted' = trusted
BY DEF Next, vars, auth, Rotate, Idling

\* A thread keeps its request until it returns.
LEMMA RequestStays ==
  ASSUME TypeOK, ScopesInv, NEW t \in Threads, Proceed(t), ~Return(t)
  PROVE  pc[t] # "idle" /\ pc'[t] # "idle" /\ request' = request /\ number' = number
<1>0. DOMAIN pc = Threads
  BY DEF TypeOK
<1>1. CASE Quiet(t)
  BY <1>0, <1>1, QuietEffect
<1>2. CASE Notify(t)
  BY <1>0, <1>2, NotifyEffect
<1>3. CASE PutSucceeds(t) \/ PutFails(t)
  BY <1>0, <1>3, PutEffect
<1>4. CASE Finish(t)
  BY <1>0, <1>4, FinishEffect
<1> QED
  BY <1>1, <1>2, <1>3, <1>4 DEF Proceed, Quiet

\* A thread that returns leaves everything of its request.
LEMMA ReturnEffect ==
  ASSUME TypeOK, NEW t \in Threads, Return(t)
  PROVE  /\ pc[t] = "answered" /\ pc'[t] = "idle"
         /\ request'[t] = Idle /\ passed'[t] = FALSE /\ answer'[t] = "none"
         /\ put'[t] = NoMetadata
         /\ UNCHANGED <<handler, auth, repo, number, tracing>>
BY DEF Return, TypeOK

\* A step does not touch the spans of a request another thread has.
LEMMA SpansOfOthersStay ==
  ASSUME TypeOK, ScopesInv, NumbersInv, NEW t \in Threads, NEW u \in Threads, u # t,
         pc[u] # "idle", Proceed(t) \/ \E r \in Requests : Receive(t, r)
  PROVE  spans'[Incoming(u)] = spans[Incoming(u)] /\ spans'[Outgoing(u)] = spans[Outgoing(u)]
<1>1. Incoming(u) \in SpanIds /\ Outgoing(u) \in SpanIds /\ request[u] \in Received
  BY SpansOfRequest
<1>2. request[u].number <= number /\ request[u].number \in Int /\ number \in Int
  BY <1>1 DEF NumbersInv, TypeOK, Received, Numbers
<1>3. ASSUME pc[t] # "idle"
      PROVE  {Incoming(u), Outgoing(u)} \cap {Incoming(t), Outgoing(t)} = {}
  BY <1>3
<1>4. CASE \E r \in Requests : Receive(t, r)
  <2>1. PICK r \in Requests : Receive(t, r)
    BY <1>4
  <2>2. \E x : spans' = [spans EXCEPT ![<<number + 1, "incoming">>] = x]
    BY <2>1, ReceiveEffect
  <2>3. <<number + 1, "incoming">> \notin {Incoming(u), Outgoing(u)}
    BY <1>2 DEF Incoming, Outgoing, SpanOf
  <2> QED
    BY <1>1, <2>2, <2>3
<1>5. CASE Quiet(t)
  BY <1>5, QuietEffect DEF tracing
<1>6. CASE Notify(t)
  <2>1. pc[t] # "idle" /\ \E x : spans' = [spans EXCEPT ![Outgoing(t)] = x]
    BY <1>6, NotifyEffect
  <2> QED
    BY <1>1, <1>3, <2>1 DEF TypeOK
<1>7. CASE PutSucceeds(t) \/ PutFails(t)
  <2>1. pc[t] # "idle" /\ \E x : spans' = [spans EXCEPT ![Outgoing(t)].status = x]
    BY <1>7, PutEffect
  <2> QED
    BY <1>1, <1>3, <2>1 DEF TypeOK
<1>8. CASE Finish(t)
  <2>1. pc[t] # "idle" /\ \E x : spans' = [spans EXCEPT ![Incoming(t)].status = x]
    BY <1>8, FinishEffect
  <2> QED
    BY <1>1, <1>3, <2>1 DEF TypeOK
<1>9. CASE Return(t)
  BY <1>9 DEF Return, tracing
<1> QED
  BY <1>4, <1>5, <1>6, <1>7, <1>8, <1>9 DEF Proceed, Quiet

-----------------------------------------------------------------------------
(* Every step keeps the parts of the inductive invariant. *)

\* A request gets a number nobody has.
LEMMA NumbersStep == TypeOK /\ ScopesInv /\ NumbersInv /\ [Next]_vars => NumbersInv'
<1> SUFFICES ASSUME TypeOK, ScopesInv, NumbersInv, [Next]_vars PROVE NumbersInv'
  OBVIOUS
<1>1. CASE Idling
  BY <1>1 DEF Idling, NumbersInv
<1>2. ASSUME NEW t \in Threads, NEW r \in Requests, Receive(t, r) PROVE NumbersInv'
  <2>1. number' = number + 1 /\ request' = [request EXCEPT ![t] = Numbered(r, number + 1)]
    BY <1>2, ReceiveEffect
  <2>2. request'[t].number = number + 1
    BY <2>1 DEF TypeOK, Numbered
  <2>3. \A u \in Threads : u # t => pc'[u] = pc[u] /\ request'[u] = request[u]
    BY <1>2, OthersStay
  <2>4. number \in Int /\ \A u \in Threads : pc[u] # "idle" => request[u].number \in Int
    BY DEF TypeOK, Received, Numbers
  <2> QED
    BY <2>1, <2>2, <2>3, <2>4 DEF NumbersInv
<1>3. ASSUME NEW t \in Threads, Proceed(t) PROVE NumbersInv'
  <2>1. \A u \in Threads : u # t => pc'[u] = pc[u] /\ request'[u] = request[u]
    BY <1>3, OthersStay
  <2>2. CASE Return(t)
    BY <2>1, <2>2, ReturnEffect DEF NumbersInv
  <2>3. CASE ~Return(t)
    BY <1>3, <2>1, <2>3, RequestStays DEF NumbersInv
  <2> QED
    BY <2>2, <2>3
<1> QED
  BY <1>1, <1>2, <1>3, StepCases

\* A thread enters the scopes of its request and leaves them in time.
LEMMA ScopesStep == TypeOK /\ ScopesInv /\ [Next]_vars => ScopesInv'
<1> SUFFICES ASSUME TypeOK, ScopesInv, [Next]_vars, NEW u \in Threads PROVE InScopes(u)'
  BY DEF ScopesInv
<1>0. InScopes(u) /\ DOMAIN pc = Threads /\ DOMAIN active = Threads
  BY DEF ScopesInv, TypeOK
<1>1. CASE Idling
  BY <1>0, <1>1 DEF Idling, tracing, InScopes, Remote, Incoming, Outgoing, SpanOf
<1>2. ASSUME NEW t \in Threads, u # t, Proceed(t) \/ \E r \in Requests : Receive(t, r)
      PROVE  InScopes(u)'
  BY <1>0, <1>2, OthersStay DEF InScopes, Remote, Incoming, Outgoing, SpanOf
<1>3. ASSUME NEW r \in Requests, Receive(u, r) PROVE InScopes(u)'
  <2> DEFINE n == number + 1
  <2>1. /\ pc'[u] = "received" /\ request' = [request EXCEPT ![u] = Numbered(r, n)]
        /\ active'[u] = <<IF r.traced THEN <<n, "client">> ELSE NoSpan, <<n, "incoming">>>>
    BY <1>0, <1>3, ReceiveEffect
  <2>2. request'[u].number = n /\ request'[u].traced = r.traced
    BY <2>1 DEF TypeOK, Numbered
  <2> QED
    BY <2>1, <2>2 DEF InScopes, Remote, Incoming, SpanOf
<1>4. CASE Quiet(u)
  <2>1. /\ active' = active /\ request' = request
        /\ pc[u] \in Serving /\ pc'[u] \in Serving
    BY <1>0, <1>4, QuietEffect DEF tracing, Serving
  <2> QED
    BY <1>0, <2>1 DEF InScopes, Remote, Incoming, SpanOf, Serving
<1>5. CASE Notify(u)
  <2>1. /\ pc'[u] = "sent" /\ request' = request
        /\ active'[u] = <<Remote(u), Incoming(u), Outgoing(u)>>
    BY <1>0, <1>5, NotifyEffect
  <2> QED
    BY <2>1 DEF InScopes, Remote, Incoming, Outgoing, SpanOf, Serving
<1>6. CASE PutSucceeds(u) \/ PutFails(u)
  <2>1. /\ pc'[u] = "handled" /\ request' = request
        /\ active'[u] = <<Remote(u), Incoming(u)>>
    BY <1>0, <1>6, PutEffect
  <2> QED
    BY <2>1 DEF InScopes, Remote, Incoming, SpanOf
<1>7. CASE Finish(u)
  <2>1. pc'[u] = "answered" /\ active'[u] = <<>>
    BY <1>0, <1>7, FinishEffect
  <2> QED
    BY <2>1 DEF InScopes, Serving
<1>8. CASE Return(u)
  <2>1. pc[u] = "answered" /\ pc'[u] = "idle" /\ active' = active
    BY <1>8, ReturnEffect DEF tracing
  <2> QED
    BY <1>0, <2>1 DEF InScopes, Serving
<1> QED
  BY <1>1, <1>2, <1>3, <1>4, <1>5, <1>6, <1>7, <1>8, StepCases DEF Proceed, Quiet

\* The metadata of a thread and the parent of its span become its request's at once.
LEMMA ContextStep ==
  TypeOK /\ NumbersInv /\ ScopesInv /\ ContextInv /\ [Next]_vars => ContextInv'
<1> SUFFICES ASSUME TypeOK, NumbersInv, ScopesInv, ContextInv, [Next]_vars, NEW u \in Threads
             PROVE  HasContext(u)'
  BY DEF ContextInv
<1>0. HasContext(u) /\ DOMAIN local = Threads /\ DOMAIN spans = SpanIds
  BY DEF ContextInv, TypeOK
<1>a. local[u] \in Metadata /\ \A n \in SpanIds :
        spans[n] \in [parent: SpanIds \cup {NoSpan}, status: {"none", "open", "unset", "ok", "error"}]
  BY DEF TypeOK
<1>1. CASE Idling
  BY <1>0, <1>1 DEF Idling, tracing, HasContext, Remote, Incoming, SpanOf
<1>2. ASSUME NEW t \in Threads, u # t, Proceed(t) \/ \E r \in Requests : Receive(t, r)
      PROVE  HasContext(u)'
  <2>1. pc'[u] = pc[u] /\ request'[u] = request[u] /\ local'[u] = local[u]
    BY <1>2, OthersStay
  <2>2. pc[u] # "idle" => spans'[Incoming(u)] = spans[Incoming(u)]
    BY <1>2, SpansOfOthersStay
  <2> QED
    BY <1>0, <2>1, <2>2 DEF HasContext, Remote, Incoming, SpanOf
<1>3. ASSUME NEW r \in Requests, Receive(u, r) PROVE HasContext(u)'
  <2> DEFINE n == number + 1
             remote == IF r.traced THEN <<n, "client">> ELSE NoSpan
             span == <<n, "incoming">>
  <2>1. /\ request' = [request EXCEPT ![u] = Numbered(r, n)] /\ span \in SpanIds
        /\ spans' = [spans EXCEPT ![span] = [parent |-> remote, status |-> "open"]]
        /\ local' = [local EXCEPT ![u] = [b3 |-> span, authorization |-> r.token]]
    BY <1>3, ReceiveEffect
  <2>2. request'[u] = Numbered(r, n)
    BY <2>1 DEF TypeOK
  <2>3. spans'[span].parent = remote /\ local'[u].authorization = r.token
    BY <1>0, <2>1
  <2> QED
    BY <2>2, <2>3 DEF HasContext, Remote, Incoming, SpanOf, Numbered
<1>4. ASSUME Proceed(u), pc[u] # "idle", request' = request,
             spans'[Incoming(u)].parent = spans[Incoming(u)].parent,
             local'[u].authorization = local[u].authorization
      PROVE  HasContext(u)'
  BY <1>0, <1>4 DEF HasContext, Remote, Incoming, SpanOf
<1>5. CASE Quiet(u)
  BY <1>4, <1>5, QuietEffect DEF tracing, Proceed, Quiet
<1>6. CASE Notify(u)
  <2>1. pc[u] # "idle" /\ request' = request
    BY <1>6, NotifyEffect
  <2>2. Incoming(u) # Outgoing(u) /\ Incoming(u) \in SpanIds
    BY <2>1, SpansOfRequest DEF Incoming, Outgoing, SpanOf
  <2>3. /\ \E x : spans' = [spans EXCEPT ![Outgoing(u)] = x]
        /\ local' = [local EXCEPT ![u].b3 = Outgoing(u)]
    BY <1>6, NotifyEffect
  <2>4. spans'[Incoming(u)] = spans[Incoming(u)]
    BY <1>0, <2>2, <2>3
  <2>5. local'[u].authorization = local[u].authorization
    BY <1>0, <2>3
  <2> QED
    BY <1>4, <1>6, <2>1, <2>4, <2>5 DEF Proceed
<1>7. CASE PutSucceeds(u) \/ PutFails(u)
  <2>1. pc[u] # "idle" /\ request' = request
    BY <1>7, PutEffect
  <2>2. Incoming(u) \in SpanIds
    BY <2>1, SpansOfRequest
  <2>3. /\ \E s : spans' = [spans EXCEPT ![Outgoing(u)].status = s]
        /\ local' = [local EXCEPT ![u].b3 = Incoming(u)] \/ local' = local
    BY <1>7, PutEffect
  <2>4. spans'[Incoming(u)].parent = spans[Incoming(u)].parent
    BY <1>0, <2>2, <2>3
  <2>5. local'[u].authorization = local[u].authorization
    BY <1>0, <1>a, <2>3 DEF Metadata
  <2> QED
    BY <1>4, <1>7, <2>1, <2>4, <2>5 DEF Proceed
<1>8. CASE Finish(u)
  <2>1. pc[u] # "idle" /\ request' = request
    BY <1>8, FinishEffect
  <2>2. Incoming(u) \in SpanIds
    BY <2>1, SpansOfRequest
  <2>3. /\ \E s : spans' = [spans EXCEPT ![Incoming(u)].status = s]
        /\ local' = [local EXCEPT ![u].b3 = Remote(u)] \/ local' = local
    BY <1>8, FinishEffect
  <2>4. spans'[Incoming(u)].parent = spans[Incoming(u)].parent
    BY <1>0, <2>2, <2>3
  <2>5. local'[u].authorization = local[u].authorization
    BY <1>0, <1>a, <2>3 DEF Metadata
  <2> QED
    BY <1>4, <1>8, <2>1, <2>4, <2>5 DEF Proceed
<1>9. CASE Return(u)
  BY <1>9, ReturnEffect DEF HasContext
<1> QED
  BY <1>1, <1>2, <1>3, <1>5, <1>6, <1>7, <1>8, <1>9, StepCases DEF Proceed, Quiet

\* What a PUT has carried stays what the thread's request is about.
LEMMA PutStep ==
  TypeOK /\ NumbersInv /\ ScopesInv /\ ContextInv /\ PutInv /\ [Next]_vars => PutInv'
<1> SUFFICES ASSUME TypeOK, NumbersInv, ScopesInv, ContextInv, PutInv, [Next]_vars,
                    NEW u \in Threads
             PROVE  PutFits(u)'
  BY DEF PutInv
<1>0. PutFits(u) /\ HasContext(u)
  BY DEF PutInv, ContextInv
<1>a. /\ DOMAIN pc = Threads /\ DOMAIN put = Threads /\ DOMAIN local = Threads
      /\ DOMAIN spans = SpanIds /\ local[u] \in Metadata
      /\ \A n \in SpanIds : spans[n] \in [parent: SpanIds \cup {NoSpan},
                                          status: {"none", "open", "unset", "ok", "error"}]
  BY DEF TypeOK
<1>1. CASE Idling
  BY <1>0, <1>1 DEF Idling, tracing, PutFits, Incoming, Outgoing, SpanOf
<1>2. ASSUME NEW t \in Threads, u # t, Proceed(t) \/ \E r \in Requests : Receive(t, r)
      PROVE  PutFits(u)'
  <2>1. pc'[u] = pc[u] /\ request'[u] = request[u] /\ put'[u] = put[u]
    BY <1>2, OthersStay
  <2>2. pc[u] # "idle" => spans'[Outgoing(u)] = spans[Outgoing(u)]
    BY <1>2, SpansOfOthersStay
  <2> QED
    BY <1>0, <2>1, <2>2 DEF PutFits, Incoming, Outgoing, SpanOf
<1>3. ASSUME NEW r \in Requests, Receive(u, r) PROVE PutFits(u)'
  <2>1. pc[u] = "idle" /\ put' = put
    BY <1>3, ReceiveEffect
  <2>2. put[u] = NoMetadata
    BY <1>0, <2>1 DEF PutFits
  <2> QED
    BY <2>1, <2>2 DEF PutFits
<1>4. CASE Quiet(u)
  <2>1. pc[u] \in {"received", "authentic", "retrieving", "storing"} /\ put' = put
    BY <1>4, QuietEffect
  <2>2. put[u] = NoMetadata
    BY <1>0, <2>1 DEF PutFits
  <2> QED
    BY <2>1, <2>2 DEF PutFits
<1>5. CASE Notify(u)
  <2>1. pc[u] = "notifying" /\ pc'[u] = "sent" /\ request' = request
    BY <1>5, <1>a, NotifyEffect
  <2>2. Outgoing(u) \in SpanIds
    BY <2>1, SpansOfRequest
  <2>3. /\ spans' = [spans EXCEPT ![Outgoing(u)] = [parent |-> Incoming(u), status |-> "open"]]
        /\ local' = [local EXCEPT ![u].b3 = Outgoing(u)]
        /\ put' = [put EXCEPT ![u] = local'[u]]
    BY <1>5, NotifyEffect
  <2>4. put'[u].b3 = Outgoing(u) /\ put'[u].authorization = local[u].authorization
    BY <1>a, <2>3
  <2>5. local[u].authorization = request[u].token
    BY <1>0, <2>1 DEF HasContext
  <2>6. spans'[Outgoing(u)].parent = Incoming(u)
    BY <1>a, <2>2, <2>3
  <2> QED
    BY <2>1, <2>4, <2>5, <2>6 DEF PutFits, Incoming, Outgoing, SpanOf
<1>6. CASE PutSucceeds(u) \/ PutFails(u)
  <2>1. pc[u] = "sent" /\ pc'[u] = "handled" /\ request' = request /\ put' = put
    BY <1>6, <1>a, PutEffect
  <2>2. Outgoing(u) \in SpanIds
    BY <2>1, SpansOfRequest
  <2>3. \E s : spans' = [spans EXCEPT ![Outgoing(u)].status = s]
    BY <1>6, PutEffect
  <2>4. spans'[Outgoing(u)].parent = spans[Outgoing(u)].parent
    BY <2>2, <2>3
  <2> QED
    BY <1>0, <2>1, <2>4 DEF PutFits, Incoming, Outgoing, SpanOf
<1>7. CASE Finish(u)
  <2>1. pc[u] = "handled" /\ pc'[u] = "answered" /\ request' = request /\ put' = put
    BY <1>7, <1>a, FinishEffect
  <2>2. Outgoing(u) \in SpanIds /\ Outgoing(u) # Incoming(u)
    BY <2>1, SpansOfRequest DEF Incoming, Outgoing, SpanOf
  <2>3. \E s : spans' = [spans EXCEPT ![Incoming(u)].status = s]
    BY <1>7, FinishEffect
  <2>4. spans'[Outgoing(u)] = spans[Outgoing(u)]
    BY <2>2, <2>3
  <2> QED
    BY <1>0, <2>1, <2>4 DEF PutFits, Incoming, Outgoing, SpanOf
<1>8. CASE Return(u)
  BY <1>8, ReturnEffect DEF PutFits
<1> QED
  BY <1>1, <1>2, <1>3, <1>4, <1>5, <1>6, <1>7, <1>8, StepCases DEF Proceed, Quiet

\* A span that is opened is closed by its thread before the request is answered.
LEMMA OpenStep == TypeOK /\ NumbersInv /\ ScopesInv /\ OpenInv /\ [Next]_vars => OpenInv'
<1> SUFFICES ASSUME TypeOK, NumbersInv, ScopesInv, OpenInv, [Next]_vars,
                    NEW n \in SpanIds, spans'[n].status = "open"
             PROVE  \E w \in Threads : OpenFor(n, w)'
  BY DEF OpenInv
<1>a. /\ DOMAIN pc = Threads /\ DOMAIN request = Threads /\ DOMAIN spans = SpanIds
      /\ \A m \in SpanIds : spans[m] \in [parent: SpanIds \cup {NoSpan},
                                          status: {"none", "open", "unset", "ok", "error"}]
  BY DEF TypeOK
<1>1. CASE Idling
  BY <1>1 DEF Idling, tracing, OpenInv, OpenFor, Incoming, Outgoing, SpanOf
<1>2. ASSUME NEW t \in Threads, Proceed(t) \/ \E r \in Requests : Receive(t, r),
             NEW w \in Threads, w # t, OpenFor(n, w)
      PROVE  OpenFor(n, w)'
  <2>1. pc'[w] = pc[w] /\ request'[w] = request[w]
    BY <1>2, OthersStay
  <2> QED
    BY <1>2, <2>1 DEF OpenFor, Incoming, Outgoing, SpanOf
<1>3. ASSUME NEW t \in Threads, NEW r \in Requests, Receive(t, r)
      PROVE  \E w \in Threads : OpenFor(n, w)'
  <2> DEFINE span == <<number + 1, "incoming">>
  <2>1. /\ pc[t] = "idle" /\ pc'[t] = "received" /\ span \in SpanIds
        /\ request' = [request EXCEPT ![t] = Numbered(r, number + 1)]
        /\ \E x : spans' = [spans EXCEPT ![span] = x]
    BY <1>3, <1>a, ReceiveEffect
  <2>2. CASE n = span
    <3>1. request'[t].number = number + 1
      BY <1>a, <2>1 DEF Numbered
    <3> QED
      BY <2>1, <2>2, <3>1 DEF OpenFor, Incoming, SpanOf
  <2>3. CASE n # span
    <3>1. spans[n].status = "open"
      BY <2>1, <2>3
    <3>2. PICK w \in Threads : OpenFor(n, w)
      BY <3>1 DEF OpenInv
    <3>3. w # t
      BY <2>1, <3>2 DEF OpenFor
    <3> QED
      BY <1>2, <1>3, <3>2, <3>3
  <2> QED
    BY <2>2, <2>3
<1>4. ASSUME NEW t \in Threads, Quiet(t) PROVE \E w \in Threads : OpenFor(n, w)'
  <2>1. /\ pc[t] # "sent" /\ pc'[t] \notin {"idle", "answered"}
        /\ spans' = spans /\ request' = request
    BY <1>4, <1>a, QuietEffect DEF tracing
  <2>2. PICK w \in Threads : OpenFor(n, w)
    BY <2>1 DEF OpenInv
  <2>3. CASE w = t
    BY <2>1, <2>2, <2>3 DEF OpenFor, Incoming, SpanOf
  <2> QED
    BY <1>2, <1>4, <2>2, <2>3 DEF Proceed, Quiet
<1>5. ASSUME NEW t \in Threads, Notify(t) PROVE \E w \in Threads : OpenFor(n, w)'
  <2>1. /\ pc[t] = "notifying" /\ pc'[t] = "sent" /\ request' = request
        /\ \E x : spans' = [spans EXCEPT ![Outgoing(t)] = x]
    BY <1>5, <1>a, NotifyEffect
  <2>2. CASE n = Outgoing(t)
    BY <2>1, <2>2 DEF OpenFor, Outgoing, SpanOf
  <2>3. CASE n # Outgoing(t)
    <3>1. spans[n].status = "open"
      BY <2>1, <2>3
    <3>2. PICK w \in Threads : OpenFor(n, w)
      BY <3>1 DEF OpenInv
    <3>3. CASE w = t
      BY <2>1, <3>2, <3>3 DEF OpenFor, Incoming, SpanOf
    <3> QED
      BY <1>2, <1>5, <3>2, <3>3 DEF Proceed
  <2> QED
    BY <2>2, <2>3
<1>6. ASSUME NEW t \in Threads, PutSucceeds(t) \/ PutFails(t)
      PROVE  \E w \in Threads : OpenFor(n, w)'
  <2>1. /\ pc'[t] = "handled" /\ request' = request
        /\ \E s \in {"ok", "unset"} : spans' = [spans EXCEPT ![Outgoing(t)].status = s]
    BY <1>6, <1>a, PutEffect
  <2>2. n # Outgoing(t) /\ spans[n].status = "open"
    BY <1>a, <2>1
  <2>3. PICK w \in Threads : OpenFor(n, w)
    BY <2>2 DEF OpenInv
  <2>4. CASE w = t
    BY <2>1, <2>2, <2>3, <2>4 DEF OpenFor, Incoming, SpanOf
  <2> QED
    BY <1>2, <1>6, <2>3, <2>4 DEF Proceed
<1>7. ASSUME NEW t \in Threads, Finish(t) PROVE \E w \in Threads : OpenFor(n, w)'
  <2>1. /\ pc[t] = "handled" /\ SpanStatus(answer[t]) # "open"
        /\ spans' = [spans EXCEPT ![Incoming(t)].status = SpanStatus(answer[t])]
    BY <1>7, FinishEffect DEF SpanStatus
  <2>2. n # Incoming(t) /\ spans[n].status = "open"
    BY <1>a, <2>1
  <2>3. PICK w \in Threads : OpenFor(n, w)
    BY <2>2 DEF OpenInv
  <2>4. w # t
    BY <2>1, <2>2, <2>3 DEF OpenFor
  <2> QED
    BY <1>2, <1>7, <2>3, <2>4 DEF Proceed
<1>8. ASSUME NEW t \in Threads, Return(t) PROVE \E w \in Threads : OpenFor(n, w)'
  <2>1. pc[t] = "answered" /\ spans' = spans
    BY <1>8, ReturnEffect DEF tracing
  <2>2. PICK w \in Threads : OpenFor(n, w)
    BY <2>1 DEF OpenInv
  <2>3. w # t
    BY <2>1, <2>2 DEF OpenFor
  <2> QED
    BY <1>2, <1>8, <2>2, <2>3 DEF Proceed
<1> QED
  BY <1>1, <1>3, <1>4, <1>5, <1>6, <1>7, <1>8, StepCases DEF Proceed, Quiet

\* A request is answered when it is handled, and the answer stays.
LEMMA AnswerStep == TypeOK /\ ScopesInv /\ AnswerInv /\ [Next]_vars => AnswerInv'
<1> SUFFICES ASSUME TypeOK, ScopesInv, AnswerInv, [Next]_vars, NEW u \in Threads
             PROVE  AnswerFits(u)'
  BY DEF AnswerInv
<1>0. AnswerFits(u) /\ DOMAIN pc = Threads /\ DOMAIN answer = Threads /\ "none" \notin Statuses
  BY DEF AnswerInv, TypeOK, Statuses
<1>1. CASE Idling
  BY <1>0, <1>1 DEF Idling, AnswerFits
<1>2. ASSUME NEW t \in Threads, u # t, Proceed(t) \/ \E r \in Requests : Receive(t, r)
      PROVE  AnswerFits(u)'
  BY <1>0, <1>2, OthersStay DEF AnswerFits
<1>3. ASSUME NEW r \in Requests, Receive(u, r) PROVE AnswerFits(u)'
  <2>1. pc[u] = "idle" /\ pc'[u] = "received" /\ answer' = answer
    BY <1>0, <1>3, ReceiveEffect
  <2> QED
    BY <1>0, <2>1 DEF AnswerFits
<1>4. CASE AuthenticateFromCache(u) \/ AuthenticateAsking(u)
  BY <1>0, <1>4, AuthenticateEffect DEF AnswerFits
<1>5. CASE Handle(u)
  BY <1>0, <1>5 DEF Handle, Answer, AnswerFits
<1>6. CASE Retrieve(u)
  BY <1>0, <1>6 DEF Retrieve, Answer, AnswerFits
<1>7. CASE Store(u)
  BY <1>0, <1>7 DEF Store, Answer, AnswerFits
<1>8. CASE Notify(u)
  BY <1>0, <1>8, NotifyEffect DEF AnswerFits
<1>9. CASE PutSucceeds(u) \/ PutFails(u)
  BY <1>0, <1>9, PutEffect DEF AnswerFits
<1>10. CASE Finish(u)
  BY <1>0, <1>10, FinishEffect DEF AnswerFits
<1>11. CASE Return(u)
  BY <1>11, ReturnEffect DEF AnswerFits
<1> QED
  BY <1>1, <1>2, <1>3, <1>4, <1>5, <1>6, <1>7, <1>8, <1>9, <1>10, <1>11, StepCases
  DEF Proceed

\* The span of a request has its status when the answer goes out.
LEMMA StatusStep ==
  TypeOK /\ NumbersInv /\ ScopesInv /\ SpanTellsStatus /\ [Next]_vars => SpanTellsStatus'
<1> SUFFICES ASSUME TypeOK, NumbersInv, ScopesInv, SpanTellsStatus, [Next]_vars,
                    NEW u \in Threads, pc'[u] = "answered"
             PROVE  spans'[SpanOf(u, "incoming")'].status = SpanStatus(answer'[u])
  BY DEF SpanTellsStatus, SpanStatus
<1>0. pc[u] = "answered" => spans[Incoming(u)].status = SpanStatus(answer[u])
  BY DEF SpanTellsStatus, SpanStatus, Incoming
<1>a. /\ DOMAIN pc = Threads /\ DOMAIN spans = SpanIds
      /\ \A n \in SpanIds : spans[n] \in [parent: SpanIds \cup {NoSpan},
                                          status: {"none", "open", "unset", "ok", "error"}]
  BY DEF TypeOK
<1>1. CASE Idling
  BY <1>0, <1>1 DEF Idling, tracing, Incoming, SpanOf
<1>2. ASSUME NEW t \in Threads, u # t, Proceed(t) \/ \E r \in Requests : Receive(t, r)
      PROVE  spans'[SpanOf(u, "incoming")'].status = SpanStatus(answer'[u])
  <2>1. pc[u] = "answered" /\ request'[u] = request[u] /\ answer'[u] = answer[u]
    BY <1>2, OthersStay
  <2>2. spans'[Incoming(u)] = spans[Incoming(u)]
    BY <1>2, <2>1, SpansOfOthersStay
  <2> QED
    BY <1>0, <2>1, <2>2 DEF Incoming, SpanOf
<1>3. ASSUME NEW r \in Requests PROVE ~Receive(u, r)
  BY <1>a, ReceiveEffect
<1>4. ~Quiet(u)
  BY <1>a, QuietEffect
<1>5. ~Notify(u)
  BY <1>a, NotifyEffect
<1>6. ~(PutSucceeds(u) \/ PutFails(u))
  BY <1>a, PutEffect
<1>7. CASE Finish(u)
  <2>1. pc[u] # "idle" /\ request' = request /\ answer' = answer
    BY <1>7, FinishEffect
  <2>2. Incoming(u) \in SpanIds
    BY <2>1, SpansOfRequest
  <2>3. spans' = [spans EXCEPT ![Incoming(u)].status = SpanStatus(answer[u])]
    BY <1>7, FinishEffect
  <2>4. spans'[Incoming(u)].status = SpanStatus(answer[u])
    BY <1>a, <2>2, <2>3
  <2> QED
    BY <2>1, <2>4 DEF Incoming, SpanOf
<1>8. ~Return(u)
  BY ReturnEffect
<1> QED
  BY <1>1, <1>2, <1>3, <1>4, <1>5, <1>6, <1>7, <1>8, StepCases DEF Proceed, Quiet

\* Only signing keys that have been served get into the cache, and they stay trusted.
LEMMA TokenStep ==
  TypeOK /\ ScopesInv /\ TokenInv /\ OnlyGenuineTokensPass /\ [Next]_vars
    => TokenInv' /\ OnlyGenuineTokensPass'
<1> SUFFICES ASSUME TypeOK, ScopesInv, TokenInv, OnlyGenuineTokensPass, [Next]_vars
             PROVE  TokenInv' /\ OnlyGenuineTokensPass'
  OBVIOUS
<1> DEFINE Cached == \A k \in DOMAIN cache : <<k, cache[k]>> \in trusted
           Admitted(t) == passed[t] => /\ pc[t] \notin {"idle", "received"}
                                      /\ Valid(request[t].token, trusted)
<1>a. /\ DOMAIN pc = Threads /\ DOMAIN passed = Threads /\ keySet \in Seq(Jwk)
      /\ \A t \in Threads : passed[t] \in BOOLEAN
  BY RequestsAssumption DEF TypeOK
<1>b. Cached /\ SigningKeys(keySet) \subseteq trusted /\ \A t \in Threads : Admitted(t)
  BY DEF TokenInv, OnlyGenuineTokensPass
<1>c. ASSUME Cached', SigningKeys(keySet)' \subseteq trusted', \A t \in Threads : Admitted(t)'
      PROVE  TokenInv' /\ OnlyGenuineTokensPass'
  BY <1>c DEF TokenInv, OnlyGenuineTokensPass
<1>d. ASSUME NEW token, NEW more, Valid(token, trusted) PROVE Valid(token, trusted \cup more)
  BY <1>d DEF Valid
<1>1. CASE Idling /\ \E jwks \in KeySets : Rotate(jwks)
  <2>1. PICK jwks \in KeySets : keySet' = jwks /\ trusted' = trusted \cup SigningKeys(jwks)
    BY <1>1 DEF Rotate
  <2>2. \A t \in Threads : Admitted(t)'
    BY <1>1, <1>b, <1>d, <2>1 DEF Idling
  <2>3. Cached' /\ SigningKeys(keySet)' \subseteq trusted'
    BY <1>1, <1>b, <2>1 DEF Idling
  <2> QED
    BY <1>c, <2>2, <2>3
<1>2. CASE Idling /\ keySet' = keySet /\ trusted' = trusted
  BY <1>2, <1>b, <1>c DEF Idling
<1>3. ASSUME NEW t \in Threads, AuthenticateFromCache(t) \/ AuthenticateAsking(t)
      PROVE  TokenInv' /\ OnlyGenuineTokensPass'
  <2> DEFINE token == request[t].token
  <2>1. keySet' = keySet /\ trusted' = trusted /\ request' = request
    BY <1>3, AuthenticateEffect
  <2>2. Cached'
    <3>1. CASE cache' = cache
      BY <1>b, <2>1, <3>1
    <3>2. CASE Convertible(keySet) /\ cache' = extractPubKeysPEM(keySet)
      BY <1>a, <1>b, <2>1, <3>2, ExtractedKeysSign
    <3> QED
      BY <1>3, <3>1, <3>2, AuthenticateEffect
  <2>3. ASSUME NEW u \in Threads, u # t PROVE Admitted(u)'
    BY <1>3, <1>b, <2>1, <2>3, OthersStay DEF Proceed
  <2>4. Admitted(t)'
    <3>1. CASE /\ pc' = [pc EXCEPT ![t] = "authentic"]
               /\ BeforeKey(token) = "needsKey"
               /\ KeyId(token) \in DOMAIN cache'
               /\ AfterKey(token, cache'[KeyId(token)]) = "passed"
      <4> DEFINE key == cache'[KeyId(token)]
      <4>1. <<KeyId(token), key>> \in trusted
        BY <2>1, <2>2, <3>1
      <4>2. DOMAIN cache' \subseteq Kids
        <5>1. DOMAIN cache \subseteq Kids
          BY DEF TypeOK
        <5>2. \A k \in DOMAIN extractPubKeysPEM(keySet) :
                Convertible(keySet) => k \in Kids
          BY <1>a, ExtractedKeysSign DEF SigningKeys
        <5> QED
          BY <1>3, <5>1, <5>2, AuthenticateEffect
      <4>3. Valid(token, trusted)
        BY <3>1, <4>1, <4>2, PassingIsValid
      <4> QED
        BY <1>a, <2>1, <3>1, <4>3
    <3>2. CASE pc' = [pc EXCEPT ![t] = "handled"] /\ passed' = passed
      BY <1>3, <1>b, <2>1, <3>2
    <3> QED
      BY <1>3, <3>1, <3>2, AuthenticateEffect
  <2> QED
    BY <1>b, <1>c, <2>1, <2>2, <2>3, <2>4
<1>4. ASSUME NEW t \in Threads, UNCHANGED auth, Admitted(t)',
             Proceed(t) \/ \E r \in Requests : Receive(t, r)
      PROVE  TokenInv' /\ OnlyGenuineTokensPass'
  <2>1. ASSUME NEW u \in Threads, u # t PROVE Admitted(u)'
    BY <1>4, <1>b, <2>1, OthersStay DEF auth
  <2> QED
    BY <1>4, <1>b, <1>c, <2>1 DEF auth
<1>5. ASSUME NEW t \in Threads, NEW r \in Requests, Receive(t, r)
      PROVE  TokenInv' /\ OnlyGenuineTokensPass'
  <2>1. pc[t] = "idle" /\ passed' = passed /\ UNCHANGED auth
    BY <1>5, ReceiveEffect
  <2>2. Admitted(t)'
    BY <1>b, <2>1
  <2> QED
    BY <1>4, <1>5, <2>1, <2>2
<1>6. ASSUME NEW t \in Threads, Proceed(t), UNCHANGED <<auth, request, passed>>,
             pc[t] # "idle", pc'[t] \notin {"idle", "received"}
      PROVE  TokenInv' /\ OnlyGenuineTokensPass'
  <2>1. Admitted(t)'
    BY <1>6, <1>b DEF auth
  <2> QED
    BY <1>4, <1>6, <2>1
<1>7. ASSUME NEW t \in Threads, Handle(t) \/ Retrieve(t) \/ Store(t)
      PROVE  TokenInv' /\ OnlyGenuineTokensPass'
  <2>1. Quiet(t) /\ Proceed(t) /\ UNCHANGED <<auth, passed>>
    BY <1>7 DEF Quiet, Proceed, Handle, Retrieve, Store
  <2>2. UNCHANGED request /\ pc[t] # "idle" /\ pc'[t] \notin {"idle", "received"}
    BY <1>a, <2>1, QuietEffect
  <2> QED
    BY <1>6, <2>1, <2>2
<1>8. ASSUME NEW t \in Threads, Notify(t) PROVE TokenInv' /\ OnlyGenuineTokensPass'
  BY <1>a, <1>6, <1>8, NotifyEffect DEF Proceed
<1>9. ASSUME NEW t \in Threads, PutSucceeds(t) \/ PutFails(t)
      PROVE  TokenInv' /\ OnlyGenuineTokensPass'
  BY <1>a, <1>6, <1>9, PutEffect DEF Proceed
<1>10. ASSUME NEW t \in Threads, Finish(t) PROVE TokenInv' /\ OnlyGenuineTokensPass'
  BY <1>a, <1>6, <1>10, FinishEffect DEF Proceed
<1>11. ASSUME NEW t \in Threads, Return(t) PROVE TokenInv' /\ OnlyGenuineTokensPass'
  <2>1. passed'[t] = FALSE /\ UNCHANGED auth
    BY <1>11, ReturnEffect
  <2> QED
    BY <1>4, <1>11, <2>1 DEF Proceed
<1> QED
  BY <1>1, <1>2, <1>3, <1>5, <1>7, <1>8, <1>9, <1>10, <1>11, StepCases DEF Proceed

\* What is refused does not get to the repo, and what is not found again is not OK.
LEMMA CoreStep == TypeOK /\ ScopesInv /\ CoreInv /\ [Next]_vars => CoreInv'
<1> SUFFICES ASSUME TypeOK, ScopesInv, CoreInv, [Next]_vars, NEW u \in Threads
             PROVE  Accepted(u)'
  BY DEF CoreInv
<1>0. Accepted(u) /\ DOMAIN pc = Threads /\ DOMAIN answer = Threads
  BY DEF CoreInv, TypeOK
<1>a. ASSUME request'[u] = request[u], handler' = handler PROVE Refused(u)' <=> Refused(u)
  BY <1>a DEF Refused, SameId
<1>1. CASE Idling
  BY <1>0, <1>1, <1>a DEF Idling, Accepted
<1>2. ASSUME NEW t \in Threads, u # t, Proceed(t) \/ \E r \in Requests : Receive(t, r)
      PROVE  Accepted(u)'
  <2>1. /\ pc'[u] = pc[u] /\ request'[u] = request[u] /\ answer'[u] = answer[u]
        /\ handler' = handler
    BY <1>2, OthersStay
  <2> QED
    BY <1>0, <1>a, <2>1 DEF Accepted
<1>3. ASSUME NEW r \in Requests, Receive(u, r) PROVE Accepted(u)'
  BY <1>0, <1>3, ReceiveEffect DEF Accepted
<1>4. CASE AuthenticateFromCache(u) \/ AuthenticateAsking(u)
  BY <1>0, <1>4, AuthenticateEffect DEF Accepted
<1>5. CASE Handle(u)
  <2>1. request' = request /\ handler' = handler /\ request[u] \in Received
    BY <1>5, SpansOfRequest DEF Handle
  <2>2. CASE /\ ~Refused(u) /\ pc' = [pc EXCEPT ![u] =
                   IF request[u].op = "get" THEN "retrieving" ELSE "storing"]
    BY <1>0, <1>a, <2>1, <2>2 DEF Accepted, Received
  <2>3. CASE Answer(u, "invalid")
    BY <1>0, <2>3 DEF Accepted, Answer
  <2> QED
    BY <1>5, <2>2, <2>3 DEF Handle
<1>6. CASE Retrieve(u)
  <2>1. request' = request /\ request[u].op = "get" /\ pc'[u] = "handled"
    BY <1>0, <1>6 DEF Retrieve, Answer, Accepted
  <2> QED
    BY <2>1 DEF Accepted
<1>7. CASE Store(u)
  <2>1. request' = request /\ handler' = handler /\ pc[u] = "storing"
    BY <1>7 DEF Store
  <2>2. pc'[u] = "notifying" \/ (pc'[u] = "handled" /\ answer'[u] = "internal")
    BY <1>0, <1>7 DEF Store, Answer
  <2> QED
    BY <1>0, <1>a, <2>1, <2>2 DEF Accepted
<1>8. CASE Notify(u)
  BY <1>0, <1>8, <1>a, NotifyEffect DEF Accepted
<1>9. CASE PutSucceeds(u) \/ PutFails(u)
  <2>1. /\ pc[u] = "sent" /\ pc'[u] = "handled" /\ request' = request /\ handler' = handler
        /\ answer'[u] = "ok" => extractId(request[u].body) = request[u].body
    BY <1>0, <1>9, PutEffect
  <2> QED
    BY <1>0, <1>a, <2>1 DEF Accepted
<1>10. CASE Finish(u)
  BY <1>0, <1>10, <1>a, FinishEffect DEF Accepted
<1>11. CASE Return(u)
  BY <1>11, ReturnEffect DEF Accepted
<1> QED
  BY <1>1, <1>2, <1>3, <1>4, <1>5, <1>6, <1>7, <1>8, <1>9, <1>10, <1>11, StepCases
  DEF Proceed

\* The cache of a key set that converts has the types of one.
LEMMA ExtractedTypes ==
  ASSUME NEW jwks \in Seq(Jwk), Convertible(jwks)
  PROVE  /\ DOMAIN extractPubKeysPEM(jwks) \subseteq Kids
         /\ \A k \in DOMAIN extractPubKeysPEM(jwks) : extractPubKeysPEM(jwks)[k] \in Materials
BY ExtractedKeysSign DEF SigningKeys

\* Every step keeps the types; what is stored has been accepted and has an id.
LEMMA TypeStep == TypeOK /\ ScopesInv /\ CoreInv /\ [Next]_vars => TypeOK'
<1> SUFFICES ASSUME TypeOK, ScopesInv, CoreInv, [Next]_vars PROVE TypeOK'
  OBVIOUS
<1> DEFINE Pcs == {"idle", "received", "authentic", "retrieving", "storing",
                   "notifying", "sent", "handled", "answered"}
           Span == [parent: SpanIds \cup {NoSpan},
                    status: {"none", "open", "unset", "ok", "error"}]
           Stack == Seq(SpanIds \cup {NoSpan})
           Shared == /\ handler \in Handlers /\ keySet \in KeySets
                     /\ DOMAIN cache \subseteq Kids
                     /\ \A k \in DOMAIN cache : cache[k] \in Materials
                     /\ repo \subseteq Id /\ number \in 0..MaxRequests
           Control == /\ pc \in [Threads -> Pcs]
                      /\ request \in [Threads -> Received \cup {Idle}]
                      /\ \A t \in Threads : request[t] = Idle <=> pc[t] = "idle"
                      /\ passed \in [Threads -> BOOLEAN]
                      /\ answer \in [Threads -> Statuses \cup {"none"}]
           Traces == /\ local \in [Threads -> Metadata]
                     /\ active \in [Threads -> Stack]
                     /\ spans \in [SpanIds -> Span]
                     /\ put \in [Threads -> Metadata]
<1>a. Shared /\ Control /\ Traces
  BY DEF TypeOK
<1>b. ASSUME Shared', Control', Traces' PROVE TypeOK'
  BY <1>b DEF TypeOK
<1>c. ASSUME UNCHANGED <<pc, request, passed, answer>> PROVE Control'
  BY <1>a, <1>c
<1>d. ASSUME UNCHANGED <<tracing, put>> PROVE Traces'
  BY <1>a, <1>d DEF tracing
<1>e. ASSUME UNCHANGED <<handler, auth, repo, number>> PROVE Shared'
  BY <1>a, <1>e DEF auth
<1>f. ASSUME NEW t \in Threads, NEW b3 \in SpanIds \cup {NoSpan}
      PROVE  [local EXCEPT ![t].b3 = b3] \in [Threads -> Metadata]
  BY <1>a DEF Metadata
<1>g. ASSUME NEW n, NEW s \in {"none", "open", "unset", "ok", "error"}
      PROVE  [spans EXCEPT ![n].status = s] \in [SpanIds -> Span]
  BY <1>a
<1>1. CASE Idling /\ \E jwks \in KeySets : Rotate(jwks)
  BY <1>a, <1>b, <1>d, <1>1 DEF Rotate
<1>2. CASE Idling /\ keySet' = keySet /\ trusted' = trusted
  BY <1>b, <1>c, <1>d, <1>e, <1>2 DEF Idling, auth
<1>3. ASSUME NEW t \in Threads, NEW r \in Requests, Receive(t, r) PROVE TypeOK'
  <2> DEFINE n == number + 1
             remote == IF r.traced THEN <<n, "client">> ELSE NoSpan
             span == <<n, "incoming">>
  <2>1. /\ pc' = [pc EXCEPT ![t] = "received"]
        /\ number' = n /\ n \in Numbers
        /\ remote \in SpanIds \cup {NoSpan} /\ span \in SpanIds
        /\ request' = [request EXCEPT ![t] = Numbered(r, n)]
        /\ active' = [active EXCEPT ![t] = <<remote, span>>]
        /\ spans' = [spans EXCEPT ![span] = [parent |-> remote, status |-> "open"]]
        /\ local' = [local EXCEPT ![t] = [b3 |-> span, authorization |-> r.token]]
        /\ UNCHANGED <<handler, auth, repo, passed, answer, put>>
    BY <1>3, ReceiveEffect
  <2>2. Numbered(r, n) \in Received /\ Numbered(r, n) # Idle
    BY <2>1, NumberedIsReceived
  <2> HIDE DEF remote, span, n
  <2>3. Shared'
    BY <1>a, <2>1 DEF Numbers, auth
  <2>4. Control'
    BY <1>a, <2>1, <2>2
  <2>5. Traces'
    <3>1. [b3 |-> span, authorization |-> r.token] \in Metadata
      BY <2>1, RequestsAssumption DEF Metadata, Request
    <3>2. <<remote, span>> \in Stack
      BY <2>1
    <3>3. [parent |-> remote, status |-> "open"] \in Span
      BY <2>1
    <3> QED
      BY <1>a, <2>1, <3>1, <3>2, <3>3
  <2> QED
    BY <1>b, <2>3, <2>4, <2>5
<1>4. ASSUME NEW t \in Threads, AuthenticateFromCache(t) \/ AuthenticateAsking(t)
      PROVE  TypeOK'
  <2>1. Shared'
    <3>1. keySet \in Seq(Jwk)
      BY <1>a, RequestsAssumption
    <3>2. CASE cache' = cache
      BY <1>4, <1>a, <3>2, AuthenticateEffect
    <3>3. CASE Convertible(keySet) /\ cache' = extractPubKeysPEM(keySet)
      BY <1>4, <1>a, <3>1, <3>3, AuthenticateEffect, ExtractedTypes
    <3> QED
      BY <1>4, <3>2, <3>3, AuthenticateEffect
  <2>2. Control'
    <3>1. request' = request /\ pc[t] = "received"
      BY <1>4, AuthenticateEffect
    <3>2. CASE /\ pc' = [pc EXCEPT ![t] = "authentic"]
               /\ passed' = [passed EXCEPT ![t] = TRUE]
               /\ answer' = answer
      BY <1>a, <3>1, <3>2
    <3>3. CASE /\ pc' = [pc EXCEPT ![t] = "handled"]
               /\ passed' = passed
               /\ \E s \in Statuses \ {"ok"} : answer' = [answer EXCEPT ![t] = s]
      BY <1>a, <3>1, <3>3
    <3> QED
      BY <1>4, <3>2, <3>3, AuthenticateEffect
  <2> QED
    BY <1>4, <1>b, <1>d, <2>1, <2>2, AuthenticateEffect
<1>5. ASSUME NEW t \in Threads, Handle(t) PROVE TypeOK'
  <2>1. Control'
    BY <1>5, <1>a DEF Handle, Answer, Statuses
  <2> QED
    BY <1>5, <1>b, <1>d, <1>e, <2>1 DEF Handle
<1>6. ASSUME NEW t \in Threads, Retrieve(t) PROVE TypeOK'
  <2>1. Control'
    BY <1>6, <1>a DEF Retrieve, Answer, Statuses
  <2> QED
    BY <1>6, <1>b, <1>d, <1>e, <2>1 DEF Retrieve
<1>7. ASSUME NEW t \in Threads, Store(t) PROVE TypeOK'
  <2>1. Control'
    BY <1>7, <1>a DEF Store, Answer, Statuses
  <2>2. request[t].body \in Id
    <3>1. pc[t] = "storing"
      BY <1>7 DEF Store
    <3>2. request[t].op = "set" /\ ~Refused(t)
      BY <3>1 DEF CoreInv, Accepted
    <3>3. request[t] \in Received
      BY <3>1, SpansOfRequest
    <3> QED
      BY <3>2, <3>3 DEF Refused, Received
  <2>3. Shared'
    BY <1>7, <1>a, <2>2 DEF Store, auth
  <2> QED
    BY <1>7, <1>b, <1>d, <2>1, <2>3 DEF Store
<1>8. ASSUME NEW t \in Threads, Notify(t) PROVE TypeOK'
  <2>1. /\ pc[t] = "notifying" /\ pc' = [pc EXCEPT ![t] = "sent"]
        /\ active' = [active EXCEPT ![t] = <<Remote(t), Incoming(t), Outgoing(t)>>]
        /\ spans' = [spans EXCEPT ![Outgoing(t)] = [parent |-> Incoming(t), status |-> "open"]]
        /\ local' = [local EXCEPT ![t].b3 = Outgoing(t)]
        /\ put' = [put EXCEPT ![t] = local'[t]]
        /\ UNCHANGED <<handler, auth, repo, number, request, passed, answer>>
    BY <1>8, NotifyEffect
  <2>2. Incoming(t) \in SpanIds /\ Outgoing(t) \in SpanIds /\ Remote(t) \in SpanIds \cup {NoSpan}
    BY <2>1, SpansOfRequest
  <2>3. Control'
    BY <1>a, <2>1
  <2>4. Traces'
    <3>1. local' \in [Threads -> Metadata]
      BY <1>f, <2>1, <2>2
    <3>2. <<Remote(t), Incoming(t), Outgoing(t)>> \in Stack
      BY <2>2
    <3>3. [parent |-> Incoming(t), status |-> "open"] \in Span
      BY <2>2
    <3> QED
      BY <1>a, <2>1, <3>1, <3>2, <3>3
  <2> QED
    BY <1>b, <1>e, <2>1, <2>3, <2>4
<1>9. ASSUME NEW t \in Threads, PutSucceeds(t) \/ PutFails(t) PROVE TypeOK'
  <2>1. pc[t] = "sent" /\ pc' = [pc EXCEPT ![t] = "handled"]
    BY <1>9, PutEffect
  <2>2. Incoming(t) \in SpanIds /\ Remote(t) \in SpanIds \cup {NoSpan}
    BY <2>1, SpansOfRequest
  <2>3. /\ active' = [active EXCEPT ![t] = <<Remote(t), Incoming(t)>>]
        /\ \E s \in {"ok", "unset"} : spans' = [spans EXCEPT ![Outgoing(t)].status = s]
        /\ local' = [local EXCEPT ![t].b3 = Incoming(t)] \/ local' = local
        /\ \E s \in Statuses : answer' = [answer EXCEPT ![t] = s]
        /\ UNCHANGED <<handler, auth, repo, number, request, passed, put>>
    BY <1>9, PutEffect
  <2>4. Control'
    BY <1>a, <2>1, <2>3
  <2>5. Traces'
    <3>1. local' \in [Threads -> Metadata]
      <4>1. CASE local' = local
        BY <1>a, <4>1
      <4>2. CASE local' = [local EXCEPT ![t].b3 = Incoming(t)]
        BY <1>f, <2>2, <4>2
      <4> QED
        BY <2>3, <4>1, <4>2
    <3>2. <<Remote(t), Incoming(t)>> \in Stack
      BY <2>2
    <3>3. spans' \in [SpanIds -> Span]
      <4>1. PICK s \in {"ok", "unset"} : spans' = [spans EXCEPT ![Outgoing(t)].status = s]
        BY <2>3
      <4> QED
        BY <1>g, <4>1
    <3> QED
      BY <1>a, <2>3, <3>1, <3>2, <3>3
  <2> QED
    BY <1>b, <1>e, <2>3, <2>4, <2>5
<1>10. ASSUME NEW t \in Threads, Finish(t) PROVE TypeOK'
  <2>1. pc[t] = "handled" /\ pc' = [pc EXCEPT ![t] = "answered"]
    BY <1>10, FinishEffect
  <2>2. Remote(t) \in SpanIds \cup {NoSpan}
    BY <2>1, SpansOfRequest
  <2>3. /\ active' = [active EXCEPT ![t] = <<>>]
        /\ spans' = [spans EXCEPT ![Incoming(t)].status = SpanStatus(answer[t])]
        /\ local' = [local EXCEPT ![t].b3 = Remote(t)] \/ local' = local
        /\ UNCHANGED <<handler, auth, repo, number, request, passed, answer, put>>
    BY <1>10, FinishEffect
  <2>4. Control'
    BY <1>a, <2>1, <2>3
  <2>5. Traces'
    <3>1. local' \in [Threads -> Metadata]
      <4>1. CASE local' = local
        BY <1>a, <4>1
      <4>2. CASE local' = [local EXCEPT ![t].b3 = Remote(t)]
        BY <1>f, <2>2, <4>2
      <4> QED
        BY <2>3, <4>1, <4>2
    <3>2. spans' \in [SpanIds -> Span]
      BY <1>g, <2>3 DEF SpanStatus
    <3>3. <<>> \in Stack
      OBVIOUS
    <3> QED
      BY <1>a, <2>3, <3>1, <3>2, <3>3
  <2> QED
    BY <1>b, <1>e, <2>3, <2>4, <2>5
<1>11. ASSUME NEW t \in Threads, Return(t) PROVE TypeOK'
  <2>1. Control'
    BY <1>11, <1>a DEF Return
  <2>2. NoMetadata \in Metadata
    BY DEF NoMetadata, Metadata
  <2>3. Traces'
    BY <1>11, <1>a, <2>2 DEF Return, tracing
  <2> QED
    BY <1>11, <1>b, <1>e, <2>1, <2>3 DEF Return
<1> QED
  BY <1>1, <1>2, <1>3, <1>4, <1>5, <1>6, <1>7, <1>8, <1>9, <1>10, <1>11, StepCases
  DEF Proceed

\* Before any request there are no spans, and the cache has been filled once.
LEMMA InitIInv == Init => IInv
<1> SUFFICES ASSUME Init PROVE IInv
  OBVIOUS
<1>1. keySet \in Seq(Jwk) /\ Convertible(keySet)
  BY RequestsAssumption DEF Init
<1>2. TypeOK
  <2>1. NoMetadata \in Metadata /\ <<>> \in Seq(SpanIds \cup {NoSpan})
    BY DEF NoMetadata, Metadata
  <2>2. number \in 0..MaxRequests
    BY RequestsAssumption DEF Init
  <2>3. DOMAIN cache \subseteq Kids /\ \A k \in DOMAIN cache : cache[k] \in Materials
    BY <1>1, ExtractedTypes DEF Init
  <2> QED
    BY <2>1, <2>2, <2>3 DEF Init, TypeOK
<1>3. NumbersInv /\ ContextInv
  BY DEF Init, NumbersInv, ContextInv, HasContext
<1>4. ScopesInv
  BY DEF Init, ScopesInv, InScopes, Serving
<1>5. PutInv
  BY DEF Init, PutInv, PutFits
<1>6. OpenInv
  BY DEF Init, OpenInv
<1>7. AnswerInv
  BY DEF Init, AnswerInv, AnswerFits
<1>8. TokenInv
  BY <1>1, ExtractedKeysSign DEF Init, TokenInv
<1>9. OnlyGenuineTokensPass /\ CoreInv /\ SpanTellsStatus
  BY DEF Init, OnlyGenuineTokensPass, CoreInv, Accepted, SpanTellsStatus
<1> QED
  BY <1>2, <1>3, <1>4, <1>5, <1>6, <1>7, <1>8, <1>9 DEF IInv

\* Every step keeps the inductive invariant.
LEMMA StepIInv == IInv /\ [Next]_vars => IInv'
BY TypeStep, NumbersStep, ScopesStep, ContextStep, PutStep, OpenStep, AnswerStep, TokenStep,
   CoreStep, StatusStep
DEF IInv

-----------------------------------------------------------------------------
(* The properties of the runs. *)

\* The inductive invariant holds in every state.
THEOREM Invariance == Spec => []IInv
BY InitIInv, StepIInv, PTL DEF Spec

\* The variables have their types; the cache holds usable keys only.
THEOREM TypeCorrect == Spec => []TypeOK
<1>1. IInv => TypeOK
  BY DEF IInv
<1> QED
  BY Invariance, <1>1, PTL

\* The handler and the repo only see requests whose token is signed with a key the
\* identity provider has served for signatures, and is valid otherwise.
THEOREM OnlyGenuineGetIn == Spec => []OnlyGenuineTokensPass
<1>1. IInv => OnlyGenuineTokensPass
  BY DEF IInv
<1> QED
  BY Invariance, <1>1, PTL

\* A SET answered OK has stored what a GET of the same id finds, here and downstream.
THEOREM OkSetsAreFound == Spec => []OkSetCanBeRead
<1>1. IInv => OkSetCanBeRead
  <2> SUFFICES ASSUME IInv, NEW t \in Threads, pc[t] = "answered", answer[t] = "ok",
                      request[t].op = "set"
               PROVE  LET id == IF handler = "http" THEN request[t].id ELSE request[t].body
                      IN \A h \in {handler, "http"} : AskedId(h, id) = request[t].body
    BY DEF OkSetCanBeRead
  <2>1. ~Refused(t) /\ extractId(request[t].body) = request[t].body
    BY DEF IInv, CoreInv, Accepted
  <2> QED
    BY <2>1 DEF Refused, SameId, AskedId
<1> QED
  BY Invariance, <1>1, PTL

\* A PUT carries the token of the client it is about, and a span that descends from
\* the client's.
THEOREM PutsContinue == Spec => []PutContinuesTheRequest
<1>1. IInv => PutContinuesTheRequest
  <2> SUFFICES ASSUME IInv, NEW t \in Threads, put[t] # NoMetadata
               PROVE  /\ put[t].authorization = request[t].token
                      /\ put[t].b3 = SpanOf(t, "outgoing")
                      /\ spans[SpanOf(t, "outgoing")].parent = SpanOf(t, "incoming")
                      /\ spans[SpanOf(t, "incoming")].parent =
                           IF request[t].traced THEN SpanOf(t, "client") ELSE NoSpan
    BY DEF PutContinuesTheRequest
  <2>1. PutFits(t) /\ HasContext(t)
    BY DEF IInv, PutInv, ContextInv
  <2> QED
    BY <2>1 DEF PutFits, HasContext, Incoming, Outgoing, Remote
<1> QED
  BY Invariance, <1>1, PTL

\* No scope and no span of a request is left behind by its thread.
THEOREM ScopesEnd == Spec => []NothingStaysActive
<1>1. IInv => NothingStaysActive
  <2>1. ScopesInv => \A t \in Threads : pc[t] \in {"idle", "answered"} => active[t] = <<>>
    BY DEF ScopesInv, InScopes
  <2>2. OpenInv /\ (\A t \in Threads : pc[t] \in {"idle", "answered"}) =>
          \A n \in SpanIds : spans[n].status # "open"
    BY DEF OpenInv, OpenFor
  <2> QED
    BY <2>1, <2>2 DEF IInv, NothingStaysActive
<1> QED
  BY Invariance, <1>1, PTL

\* The span of a request tells whether it was answered OK, exceptions included.
THEOREM SpansTell == Spec => []SpanTellsStatus
<1>1. IInv => SpanTellsStatus
  BY DEF IInv
<1> QED
  BY Invariance, <1>1, PTL

\* No step calls a genuine token a forgery, and each one that does not let it in has its
\* reason.
LEMMA GenuineIsDecided ==
  ASSUME TypeOK, ScopesInv, AnswerInv, [Next]_vars, NEW u \in Threads,
         Decided(u), Genuine(request[u].token)
  PROVE  LET token == request[u].token
         IN \/ passed'[u]
            \/ answer'[u] = "internal" /\ (token.typ = "absent" \/ token.claim = "other")
            \/ /\ token.kid \notin DOMAIN cache /\ cache' = cache
               /\ \/ answer'[u] = "unavailable"
                  \/ answer'[u] = "internal" /\ ~Convertible(keySet)
<1> DEFINE token == request[u].token
           kid == KeyId(token)
           keys == extractPubKeysPEM(keySet)
           Reason == \/ passed'[u]
                     \/ answer'[u] = "internal" /\ (token.typ = "absent" \/ token.claim = "other")
                     \/ /\ token.kid \notin DOMAIN cache /\ cache' = cache
                        /\ \/ answer'[u] = "unavailable"
                           \/ answer'[u] = "internal" /\ ~Convertible(keySet)
<1>1. /\ DOMAIN pc = Threads /\ DOMAIN passed = Threads /\ DOMAIN answer = Threads
      /\ keySet \in Seq(Jwk) /\ pc[u] = "received" /\ token \in Token
  <2>1. request[u] \in Received
    BY DEF TypeOK, Decided
  <2>2. token # NoToken
    BY DEF Genuine, Valid
  <2> QED
    BY <2>1, <2>2, RequestsAssumption DEF TypeOK, Received, Decided
<1>2. /\ <<token.kid, token.signer>> \in SigningKeys(keySet)
      /\ token.kid \in Kids /\ token.signer \in Materials /\ kid = token.kid
  <2>1. <<token.kid, token.signer>> \in SigningKeys(keySet)
    BY DEF Genuine, Valid
  <2>2. token.kid \in Kids /\ token.signer \in Materials
    BY <2>1 DEF SigningKeys
  <2> QED
    BY <2>1, <2>2, NamesAssumption DEF KeyId, Optional
<1>3. /\ BeforeKey(token) = IF token.typ = "absent" THEN "thrown" ELSE "needsKey"
      /\ AfterKey(token, token.signer) = IF token.claim = "other" THEN "thrown" ELSE "passed"
  BY <1>1, <1>2, ValidIsNotRefused DEF Genuine
<1>4. Decide(u, "passed") => passed'[u]
  BY <1>1, DecideEffect
<1>5. Decide(u, "thrown") => answer'[u] = "internal"
  BY <1>1, DecideEffect
<1>6. Decide(u, AfterKey(token, token.signer)) => Reason
  BY <1>3, <1>4, <1>5
<1>7. CASE AuthenticateFromCache(u)
  <2>1. CASE Decide(u, BeforeKey(token)) /\ BeforeKey(token) # "needsKey"
    BY <1>3, <1>5, <2>1
  <2>2. CASE kid \in DOMAIN cache /\ Decide(u, AfterKey(token, cache[kid]))
    BY <1>2, <1>6, <2>2 DEF Genuine
  <2> QED
    BY <1>7, <2>1, <2>2 DEF AuthenticateFromCache
<1>8. CASE AuthenticateAsking(u)
  <2>1. CASE Convertible(keySet)
    <3>1. kid \in DOMAIN keys /\ <<kid, keys[kid]>> \in SigningKeys(keySet)
      BY <1>1, <1>2, <2>1, SigningKeysAreExtracted
    <3>2. keys[kid] = token.signer
      BY <1>2, <3>1 DEF Genuine
    <3>3. KeyIn(keys, kid) = token.signer /\ keys # <<>>
      BY <3>1, <3>2 DEF KeyIn
    <3>4. CASE Decide(u, AfterKey(token, KeyIn(keys, kid)))
      BY <1>6, <3>3, <3>4
    <3>5. CASE Answer(u, "unavailable") /\ cache' = cache /\ kid \notin DOMAIN cache
      BY <1>1, <1>2, <3>5 DEF Answer
    <3> QED
      BY <1>8, <2>1, <3>3, <3>4, <3>5 DEF AuthenticateAsking
  <2>2. CASE ~Convertible(keySet)
    <3>1. /\ kid \notin DOMAIN cache /\ cache' = cache
          /\ Answer(u, "internal") \/ Answer(u, "unavailable")
      BY <1>8, <2>2 DEF AuthenticateAsking
    <3> QED
      BY <1>1, <1>2, <2>2, <3>1 DEF Answer
  <2> QED
    BY <2>1, <2>2
<1>9. ~Idling
  BY <1>1 DEF Idling, Decided
<1>10. ASSUME NEW t \in Threads, u # t, Proceed(t) \/ \E r \in Requests : Receive(t, r)
       PROVE  FALSE
  BY <1>1, <1>10, OthersStay DEF Decided
<1>11. \A r \in Requests : ~Receive(u, r)
  BY <1>1 DEF Receive
<1>12. Proceed(u) => AuthenticateFromCache(u) \/ AuthenticateAsking(u)
  BY <1>1 DEF Proceed, Handle, Retrieve, Store, Notify, PutSucceeds, PutFails, Finish, Return
<1> QED
  BY <1>7, <1>8, <1>9, <1>10, <1>11, <1>12, StepCases

\* A genuine token gets in; it is kept out only by an exception of the hook, or because its
\* key cannot be had, and then without harm to the cache.
THEOREM GenuineGetIn == Spec => GenuineTokensPass
<1>1. IInv /\ [Next]_vars =>
        [\A t \in Threads :
           LET token == request[t].token
           IN Decided(t) /\ Genuine(token) =>
                \/ passed'[t]
                \/ answer'[t] = "internal" /\ (token.typ = "absent" \/ token.claim = "other")
                \/ /\ token.kid \notin DOMAIN cache /\ cache' = cache
                   /\ \/ answer'[t] = "unavailable"
                      \/ answer'[t] = "internal" /\ ~Convertible(keySet)]_vars
  BY GenuineIsDecided DEF IInv
<1> QED
  BY Invariance, <1>1, PTL DEF Spec, GenuineTokensPass
=============================================================================
