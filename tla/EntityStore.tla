---------------------------- MODULE EntityStore ----------------------------
(***************************************************************************)
(* What the EntityRepo port promises the callers of Store and Retrieve:    *)
(* every call takes effect at one instant between its start and its end.   *)
(* A call that succeeds has taken effect exactly once.  A call that fails  *)
(* by an exception, or whose caller dies, has taken effect at most once;   *)
(* only such a Store may leave an orphan, a write that is still under way  *)
(* when its caller is gone.  The adapters under repo/ are to implement     *)
(* this.                                                                   *)
(***************************************************************************)
CONSTANTS
  Clients,    \* the callers
  Ids,        \* entity ids
  Values,     \* what the other two properties of an entity can be
  Absent,     \* std::nullopt: no entity under that id
  NoRequest   \* a client that is not in a call

VARIABLES
  stored,     \* id -> value, or Absent
  request,    \* the call of each client, or NoRequest
  phase,      \* how far that call has got
  answer,     \* what a Retrieve will return
  orphan      \* the Store a client failed in and left under way, or NoRequest

vars == <<stored, request, phase, answer, orphan>>

\* The two calls of the port: Store(entity) and Retrieve(id).
Requests ==
  [op: {"store"}, id: Ids, value: Values]
    \cup [op: {"retrieve"}, id: Ids, value: {Absent}]

Init ==
  /\ stored  = [i \in Ids |-> Absent]
  /\ request = [c \in Clients |-> NoRequest]
  /\ phase   = [c \in Clients |-> "idle"]
  /\ answer  = [c \in Clients |-> Absent]
  /\ orphan  = [c \in Clients |-> NoRequest]

Invoke(c, r) ==
  /\ phase[c] = "idle"
  /\ request' = [request EXCEPT ![c] = r]
  /\ phase'   = [phase EXCEPT ![c] = "pending"]
  /\ UNCHANGED <<stored, answer, orphan>>

StoreTakesEffect(c) ==
  /\ phase[c] = "pending"
  /\ request[c].op = "store"
  /\ stored' = [stored EXCEPT ![request[c].id] = request[c].value]
  /\ phase'  = [phase EXCEPT ![c] = "applied"]
  /\ UNCHANGED <<request, answer, orphan>>

RetrieveTakesEffect(c) ==
  /\ phase[c] = "pending"
  /\ request[c].op = "retrieve"
  /\ answer' = [answer EXCEPT ![c] = stored[request[c].id]]
  /\ phase'  = [phase EXCEPT ![c] = "applied"]
  /\ UNCHANGED <<stored, request, orphan>>

Succeed(c) ==
  /\ phase[c] = "applied"
  /\ phase' = [phase EXCEPT ![c] = "done"]
  /\ UNCHANGED <<stored, request, answer, orphan>>

\* Of the clients in C, those in D leave their Store under way.
Orphan(D) ==
  /\ \A c \in D : /\ phase[c] = "pending"
                  /\ request[c].op = "store"
                  /\ orphan[c] = NoRequest
  /\ orphan' = [c \in Clients |-> IF c \in D THEN request[c] ELSE orphan[c]]

Fail(c) ==
  /\ phase[c] \in {"pending", "applied"}
  /\ phase'  = [phase EXCEPT ![c] = "failed"]
  /\ \E D \in SUBSET {c} : Orphan(D)
  /\ UNCHANGED <<stored, request, answer>>

\* The callers in C leave their calls: they return, or their process dies.
Leave(C) ==
  /\ request' = [c \in Clients |-> IF c \in C THEN NoRequest ELSE request[c]]
  /\ phase'   = [c \in Clients |-> IF c \in C THEN "idle" ELSE phase[c]]
  /\ answer'  = [c \in Clients |-> IF c \in C THEN Absent ELSE answer[c]]
  /\ \E D \in SUBSET C : Orphan(D)
  /\ UNCHANGED stored

\* An orphan takes effect late, or is dropped.
Settle(c) ==
  /\ orphan[c] # NoRequest
  /\ orphan' = [orphan EXCEPT ![c] = NoRequest]
  /\ stored' \in {stored, [stored EXCEPT ![orphan[c].id] = orphan[c].value]}
  /\ UNCHANGED <<request, phase, answer>>

Next ==
  \/ \E c \in Clients, r \in Requests : Invoke(c, r)
  \/ \E c \in Clients :
       \/ StoreTakesEffect(c) \/ RetrieveTakesEffect(c)
       \/ Succeed(c) \/ Fail(c) \/ Settle(c)
  \/ \E C \in SUBSET Clients : Leave(C)

Spec == Init /\ [][Next]_vars
=============================================================================
