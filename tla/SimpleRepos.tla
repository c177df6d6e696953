----------------------------- MODULE SimpleRepos -----------------------------
(***************************************************************************)
(* The three adapters of the EntityRepo port without retries of their own: *)
(* RedisRepo, CloudStorageRepo and InMemoryRepo.  A service has one of     *)
(* them; its handler threads are the clients, those of other replicas      *)
(* included.                                                               *)
(*                                                                         *)
(* The servers are modelled by what the adapters see of them: a command is *)
(* carried out at one instant or lost, and so is its reply.  An entity is  *)
(* written and read as JSON, which loses nothing of it.                    *)
(***************************************************************************)
EXTENDS Naturals

CONSTANTS Adapters, Clients, Ids, Values, Absent, NoRequest

Requests ==
  [op: {"store"}, id: Ids, value: Values]
    \cup [op: {"retrieve"}, id: Ids, value: {Absent}]

ASSUME AdaptersAssumption ==
  /\ Adapters \subseteq {"redis", "cloud-storage", "in-memory"}
  /\ Absent \notin Values
  /\ NoRequest \notin Requests

VARIABLES
  adapter,   \* which of them the service has
  table,     \* what the server, or the map, holds
  pc,        \* where each client is in its call
  request,   \* the call, or NoRequest
  answer,    \* what the server has found for a Retrieve
  orphan,    \* a write whose caller has given it up
  hidden     \* has Retrieve returned std::nullopt because of an error?

vars == <<adapter, table, pc, request, answer, orphan, hidden>>

\* The types of the variables; only CloudStorageRepo::Retrieve disguises an error.
TypeOK ==
  /\ adapter \in Adapters
  /\ table \in [Ids -> Values \cup {Absent}]
  /\ pc \in [Clients -> {"idle", "called", "sent", "executed", "done", "failed"}]
  /\ request \in [Clients -> Requests \cup {NoRequest}]
  /\ answer \in [Clients -> Values \cup {Absent}]
  /\ orphan \in [Clients -> Requests \cup {NoRequest}]
  /\ hidden \in [Clients -> BOOLEAN]
  /\ \A c \in Clients : hidden[c] =>
       adapter = "cloud-storage" /\ request[c].op = "retrieve"

Init ==
  /\ adapter \in Adapters
  /\ table = [i \in Ids |-> Absent]
  /\ pc = [c \in Clients |-> "idle"]
  /\ request = [c \in Clients |-> NoRequest]
  /\ answer = [c \in Clients |-> Absent]
  /\ orphan = [c \in Clients |-> NoRequest]
  /\ hidden = [c \in Clients |-> FALSE]

Remote == adapter # "in-memory"
Storing(c) == request[c].op = "store"

\* The map of InMemoryRepo has no lock: its callers have to take turns.
MayCall(c) == Remote \/ \A d \in Clients : pc[d] = "idle"

Call(c, r) ==
  /\ pc[c] = "idle"
  /\ MayCall(c)
  /\ pc' = [pc EXCEPT ![c] = "called"]
  /\ request' = [request EXCEPT ![c] = r]
  /\ UNCHANGED <<adapter, table, answer, orphan, hidden>>

\* The call takes effect.
Effect(c) ==
  LET r == request[c]
  IN IF r.op = "store"
     THEN table' = [table EXCEPT ![r.id] = r.value] /\ UNCHANGED answer
     ELSE answer' = [answer EXCEPT ![c] = table[r.id]] /\ UNCHANGED table

Access(c) ==
  /\ ~Remote
  /\ pc[c] = "called"
  /\ Effect(c)
  /\ pc' = [pc EXCEPT ![c] = "executed"]
  /\ UNCHANGED <<adapter, request, orphan, hidden>>

\* SET, GET, or the object that is streamed.
Send(c) ==
  /\ Remote
  /\ pc[c] = "called"
  /\ pc' = [pc EXCEPT ![c] = "sent"]
  /\ UNCHANGED <<adapter, table, request, answer, orphan, hidden>>

\* No connection, or CreateDefaultClient fails: an exception.
CannotSend(c) ==
  /\ Remote
  /\ pc[c] = "called"
  /\ pc' = [pc EXCEPT ![c] = "failed"]
  /\ UNCHANGED <<adapter, table, request, answer, orphan, hidden>>

Execute(c) ==
  /\ pc[c] = "sent"
  /\ Effect(c)
  /\ pc' = [pc EXCEPT ![c] = "executed"]
  /\ UNCHANGED <<adapter, request, orphan, hidden>>

Succeed(c) ==
  /\ pc[c] = "executed"
  /\ pc' = [pc EXCEPT ![c] = "done"]
  /\ UNCHANGED <<adapter, table, request, answer, orphan, hidden>>

\* Of the clients in C, those in D leave a write under way.
Abandon(D) ==
  /\ \A c \in D : pc[c] = "sent" /\ Storing(c) /\ orphan[c] = NoRequest
  /\ orphan' = [c \in Clients |-> IF c \in D THEN request[c] ELSE orphan[c]]

StatusIgnored == "done"   \* mutant: metadata() is not looked at
AfterError == "failed"

\* An error instead of the reply: redis++ throws, Store looks at the metadata, and
\* Retrieve fails to parse what has been cut off.
Fails(c) ==
  /\ Remote
  /\ pc[c] \in {"sent", "executed"}
  /\ pc' = [pc EXCEPT ![c] = AfterError]
  /\ \E D \in SUBSET {c} : Abandon(D)
  /\ UNCHANGED <<adapter, table, request, answer, hidden>>

EveryRetrieveHides(c) == ~Storing(c)   \* mutant: redis errors are disguised, too
Hides(c) == adapter = "cloud-storage" /\ ~Storing(c)

\* A stream that is bad() is std::nullopt, whatever has gone wrong.
FailsAsNotFound(c) ==
  /\ pc[c] \in {"sent", "executed"}
  /\ Hides(c)
  /\ pc' = [pc EXCEPT ![c] = "done"]
  /\ hidden' = [hidden EXCEPT ![c] = TRUE]
  /\ UNCHANGED <<adapter, table, request, answer, orphan>>

\* The clients in C leave: their calls return, or their process dies.
Leave(C) ==
  /\ pc' = [c \in Clients |-> IF c \in C THEN "idle" ELSE pc[c]]
  /\ request' = [c \in Clients |-> IF c \in C THEN NoRequest ELSE request[c]]
  /\ answer' = [c \in Clients |-> IF c \in C THEN Absent ELSE answer[c]]
  /\ hidden' = [c \in Clients |-> hidden[c] /\ c \notin C]
  /\ UNCHANGED <<adapter, table>>

Return(c) ==
  /\ pc[c] \in {"done", "failed"}
  /\ Leave({c})
  /\ UNCHANGED orphan

\* A replica dies.  (The map of InMemoryRepo dies with it, which is no behaviour of the
\* port: "This prevents horizontal scaling and therefore shall be avoided".)
Crash(C) ==
  /\ Remote
  /\ Leave(C)
  /\ \E D \in SUBSET C : Abandon(D)

Settle(c) ==
  /\ orphan[c] # NoRequest
  /\ orphan' = [orphan EXCEPT ![c] = NoRequest]
  /\ table' \in {table, [table EXCEPT ![orphan[c].id] = orphan[c].value]}
  /\ UNCHANGED <<adapter, pc, request, answer, hidden>>

-----------------------------------------------------------------------------
Proceed(c) ==
  \/ Access(c) \/ Send(c) \/ CannotSend(c) \/ Execute(c) \/ Succeed(c)
  \/ Fails(c) \/ FailsAsNotFound(c) \/ Return(c)

Next ==
  \/ \E c \in Clients : Proceed(c) \/ Settle(c) \/ \E r \in Requests : Call(c, r)
  \/ \E C \in SUBSET Clients : Crash(C)

Spec == Init /\ [][Next]_vars

-----------------------------------------------------------------------------
(* Properties *)

PhaseOf(c) ==
  CASE hidden[c] -> "failed"
    [] pc[c] \in {"called", "sent"} -> "pending"
    [] pc[c] = "executed" -> "applied"
    [] OTHER -> pc[c]

Port == INSTANCE EntityStore WITH
          stored <- table, phase <- [c \in Clients |-> PhaseOf(c)]

\* All three keep the promise of the port, when an error that CloudStorageRepo reports
\* as "no such entity" is taken for the error it is.
ImplementsPort == Port!Spec
=============================================================================
