-------------------------- MODULE JwksKeyProvider --------------------------
(***************************************************************************)
(* RestJwksRSAKeyProvider (security/jwt-auth): the handler threads look up *)
(* the public key a token names by its kid in a cache they share under a   *)
(* shared_mutex, and ask the identity provider for its key set when the    *)
(* kid is not there.                                                       *)
(*                                                                         *)
(* The identity provider is the environment: it publishes one key set      *)
(* after the other (its versions) and may be out of reach, or answer with  *)
(* something that holds no usable key.  The cache always holds one whole   *)
(* key set, so its state is the version it was filled with, 0 when empty.  *)
(***************************************************************************)
EXTENDS Naturals

CONSTANTS
  Threads,
  Kids,             \* ids of keys the identity provider may publish
  EmptyKid,         \* the kid of a token that names none: ""
  NoKid,            \* the key of a thread that is not in a lookup
  NoThread,         \* nobody holds the mutex exclusively
  Configurations,   \* constructors and arguments the provider may be made with
  MaxVersions       \* bound: key sets published in one behaviour

ASSUME ConstantsAssumption ==
  /\ EmptyKid \notin Kids
  /\ NoThread \notin Threads
  /\ Configurations \subseteq [uriConstructor: BOOLEAN, throwOnError: BOOLEAN]
  /\ MaxVersions \in Nat \ {0}

VARIABLES
  configuration,   \* made from a jwks_uri, as main.cpp does? with which throw_on_error?
  published,    \* version -> the usable keys in that key set
  version,      \* the key set the identity provider serves now
  constructed,  \* is there a provider object?
  cache,        \* _key_cache->data: the version it holds, or 0
  readers,      \* threads holding _key_cache->mutex shared
  writer,       \* the thread holding it exclusively
  pc,           \* where each thread is in operator()
  key,          \* the kid it looks up
  reply,        \* the version the provider answered it with
  error,        \* what the lookup threw, "none" if nothing
  missing,      \* history: was the kid ever unpublished during the lookup?
  refused       \* history: did asking the provider fail during the lookup?

environment == <<configuration, published, version>>
vars == <<environment, constructed, cache, readers, writer,
          pc, key, reply, error, missing, refused>>

Exclusive == {"recheck", "asking", "answered"}   \* holding the mutex exclusively
Results   == {"found", "notFound", "thrown"}
Errors    == {"unavailable", "other"}   \* ErrorForwardingException(UNAVAILABLE) or not

\* The types of the variables; the cache holds nothing but published key sets.
TypeOK ==
  /\ configuration \in Configurations
  /\ published \in [1..MaxVersions -> SUBSET Kids]
  /\ version \in 1..MaxVersions
  /\ constructed \in BOOLEAN
  /\ cache \in 0..version
  /\ readers \in SUBSET Threads
  /\ writer \in Threads \cup {NoThread}
  /\ pc \in [Threads -> {"idle", "wantShared", "find", "wantExclusive"}
                           \cup Exclusive \cup Results]
  /\ key \in [Threads -> Kids \cup {EmptyKid, NoKid}]
  /\ reply \in [Threads -> 0..version]
  /\ error \in [Threads -> Errors \cup {"none"}]
  /\ missing \in [Threads -> BOOLEAN]
  /\ refused \in [Threads -> BOOLEAN]

Init ==
  /\ configuration \in Configurations
  /\ published \in {[v \in 1..MaxVersions |-> IF v = 1 THEN S ELSE {}] : S \in SUBSET Kids}
  /\ version = 1
  /\ constructed = FALSE
  /\ cache = 0
  /\ readers = {}
  /\ writer = NoThread
  /\ pc = [t \in Threads |-> "idle"]
  /\ key = [t \in Threads |-> NoKid]
  /\ reply = [t \in Threads |-> 0]
  /\ error = [t \in Threads |-> "none"]
  /\ missing = [t \in Threads |-> FALSE]
  /\ refused = [t \in Threads |-> FALSE]

\* find(key_id) in the data of version v.
In(v, k) == v # 0 /\ k \in published[v]

\* The identity provider publishes another key set.
Rotate(S) ==
  /\ version < MaxVersions
  /\ version' = version + 1
  /\ published' = [published EXCEPT ![version + 1] = S]
  /\ missing' = [t \in Threads |-> missing[t] \/ (pc[t] # "idle" /\ key[t] \notin S)]
  /\ UNCHANGED <<configuration, constructed, cache, readers, writer, pc, key, reply,
                 error, refused>>

-----------------------------------------------------------------------------
(* updateKeyCache *)

\* The constructor that takes a jwks_uri delegates without throw_on_error, the
\* other one then takes its default, true.
Throws == configuration.uriConstructor \/ configuration.throwOnError

ErrorPageCached == version + 1   \* mutant: an answer without keys is cached
CacheAfterError == cache

\* The constructor fills the cache once.  When it throws there is no object: the
\* process ends, is started again, and is where it was before.
Construct ==
  /\ ~constructed
  /\ \/ /\ published[version] # {}
        /\ cache' = version
        /\ constructed' = TRUE
     \/ /\ cache' = CacheAfterError
        /\ constructed' = ~Throws
  /\ UNCHANGED <<environment, readers, writer, pc, key, reply, error, missing, refused>>

\* mutant: the exclusive lock is kept on an error
UpdateFailsKeepsLock(t, e) ==
  /\ pc' = [pc EXCEPT ![t] = IF Throws THEN "thrown" ELSE "notFound"]
  /\ error' = [error EXCEPT ![t] = IF Throws THEN e ELSE "none"]
  /\ cache' = CacheAfterError
  /\ UNCHANGED writer

\* The exception leaves operator(), or is logged and find fails once more.
UpdateFails(t, e) ==
  /\ pc' = [pc EXCEPT ![t] = IF Throws THEN "thrown" ELSE "notFound"]
  /\ error' = [error EXCEPT ![t] = IF Throws THEN e ELSE "none"]
  /\ cache' = CacheAfterError
  /\ writer' = NoThread

-----------------------------------------------------------------------------
(* operator() *)

Lookup(t, k) ==
  /\ constructed
  /\ pc[t] = "idle"
  /\ pc' = [pc EXCEPT ![t] = "wantShared"]
  /\ key' = [key EXCEPT ![t] = k]
  /\ missing' = [missing EXCEPT ![t] = k \notin published[version]]
  /\ UNCHANGED <<environment, constructed, cache, readers, writer, reply, error, refused>>

LockShared(t) ==
  /\ pc[t] = "wantShared"
  /\ writer = NoThread
  /\ readers' = readers \cup {t}
  /\ pc' = [pc EXCEPT ![t] = "find"]
  /\ UNCHANGED <<environment, constructed, cache, writer, key, reply, error, missing, refused>>

FindShared(t) ==
  /\ pc[t] = "find"
  /\ pc' = [pc EXCEPT ![t] = IF In(cache, key[t]) THEN "found" ELSE "wantExclusive"]
  /\ readers' = readers \ {t}
  /\ UNCHANGED <<environment, constructed, cache, writer, key, reply, error, missing, refused>>

MayLockAlongReaders(t) == writer = NoThread   \* mutant: a shared lock again
MayLockAlways(t) == TRUE                      \* mutant: no second lock
MayLock(t) == writer = NoThread /\ readers = {}

LockExclusive(t) ==
  /\ pc[t] = "wantExclusive"
  /\ MayLock(t)
  /\ writer' = t
  /\ pc' = [pc EXCEPT ![t] = "recheck"]
  /\ UNCHANGED <<environment, constructed, cache, readers, key, reply, error, missing, refused>>

NotRechecked(t) == FALSE   \* mutant: asks the provider without looking again
FoundOnRecheck(t) == In(cache, key[t])

Recheck(t) ==
  /\ pc[t] = "recheck"
  /\ \/ /\ FoundOnRecheck(t)
        /\ pc' = [pc EXCEPT ![t] = "found"]
        /\ writer' = NoThread
     \/ /\ ~FoundOnRecheck(t)
        /\ pc' = [pc EXCEPT ![t] = "asking"]
        /\ UNCHANGED writer
  /\ UNCHANGED <<environment, constructed, cache, readers, key, reply, error, missing, refused>>

\* The provider cannot be reached (UNAVAILABLE), or what it answers is no JWKS:
\* resp->status is only compared with zero, an error page is parsed like a key set.
ProviderFails(t) ==
  /\ pc[t] = "asking"
  /\ \E e \in Errors : UpdateFails(t, e)
  /\ refused' = [refused EXCEPT ![t] = TRUE]
  /\ UNCHANGED <<environment, constructed, readers, key, reply, missing>>

\* The provider answers with what it publishes now; the answer takes its time.
ProviderAnswers(t) ==
  /\ pc[t] = "asking"
  /\ reply' = [reply EXCEPT ![t] = version]
  /\ pc' = [pc EXCEPT ![t] = "answered"]
  /\ UNCHANGED <<environment, constructed, cache, readers, writer, key, error, missing, refused>>

NotFoundAfterUpdate(t) == FALSE    \* mutant: no third find
FoundAfterUpdate(t) == In(reply[t], key[t])

UpdateKeyCache(t) ==
  /\ pc[t] = "answered"
  /\ \/ /\ published[reply[t]] = {}          \* "no keys found"
        /\ UpdateFails(t, "other")
     \/ /\ published[reply[t]] # {}
        /\ cache' = reply[t]
        /\ pc' = [pc EXCEPT ![t] = IF FoundAfterUpdate(t) THEN "found" ELSE "notFound"]
        /\ writer' = NoThread
        /\ UNCHANGED error
  /\ UNCHANGED <<environment, constructed, readers, key, reply, missing, refused>>

Return(t) ==
  /\ pc[t] \in Results
  /\ pc' = [pc EXCEPT ![t] = "idle"]
  /\ key' = [key EXCEPT ![t] = NoKid]
  /\ reply' = [reply EXCEPT ![t] = 0]
  /\ error' = [error EXCEPT ![t] = "none"]
  /\ missing' = [missing EXCEPT ![t] = FALSE]
  /\ refused' = [refused EXCEPT ![t] = FALSE]
  /\ UNCHANGED <<environment, constructed, cache, readers, writer>>

-----------------------------------------------------------------------------
Call(t) == \E k \in Kids \cup {EmptyKid} : Lookup(t, k)

Proceed(t) ==
  \/ LockShared(t) \/ FindShared(t) \/ LockExclusive(t) \/ Recheck(t)
  \/ ProviderFails(t) \/ ProviderAnswers(t) \/ UpdateKeyCache(t) \/ Return(t)

Next ==
  \/ \E S \in SUBSET Kids : Rotate(S)
  \/ Construct
  \/ \E t \in Threads : Call(t) \/ Proceed(t)

Spec == Init /\ [][Next]_vars

\* A thread that can go on does so, and a request to the provider ends, with an
\* error if need be.  Nothing is assumed of whom std::shared_mutex serves first.
FairSpec == Spec /\ \A t \in Threads : WF_vars(Proceed(t))

-----------------------------------------------------------------------------
(* Properties *)

\* The map is never replaced while another thread reads or replaces it: "enables
\* exclusive write and shared read to the cache" (the header, Cache::mutex).
WriteExcludesRead ==
  \A t, u \in Threads :
    t # u /\ pc[t] \in Exclusive => pc[u] \notin Exclusive \cup {"find"}

\* Threads that miss the same key together ask the provider once: whoever asks
\* still lacks its key while it asks, because the others wait.
NoNeedlessRequest ==
  \A t \in Threads : pc[t] \in {"asking", "answered"} => ~In(cache, key[t])

\* The cache never goes back to an older key set, and is never emptied: a slow
\* answer cannot overwrite a newer one, a failed update keeps the keys.
CacheMovesForward == [][cache' >= cache]_cache

\* "Key not found" is never the fault of a stale cache: the kid was unpublished
\* at some moment of the lookup, or the provider could not be asked.
NotFoundIsFresh ==
  \A t \in Threads : pc[t] = "notFound" => missing[t] \/ refused[t]

\* Every lookup ends once no new ones come in, whatever the provider answers.
DrainsWhenIntakeStops ==
  <>[][\A t \in Threads : ~Call(t)]_vars => \A t \in Threads : []<>(key[t] = NoKid)

\* "Logs errors or optionally throws": without throw_on_error no lookup throws.
ThrowsOnlyIfAsked ==
  ~configuration.throwOnError => \A t \in Threads : pc[t] # "thrown"

\* "in case the public keys cannot be retrieved for any reason, this exception
\* allows that the current request returns the UNAVAILABLE status"
FailureMeansUnavailable ==
  \A t \in Threads : pc[t] = "thrown" => error[t] = "unavailable"
=============================================================================
