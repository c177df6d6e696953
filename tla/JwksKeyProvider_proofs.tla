----------------------- MODULE JwksKeyProvider_proofs -----------------------
(* Theorems about JwksKeyProvider for any number of threads, keys and versions. *)
EXTENDS JwksKeyProvider, TLAPS

\* The positions of the threads and the shared_mutex agree.
LockInv ==
  /\ \A t \in Threads : pc[t] \in Exclusive <=> writer = t
  /\ \A t \in Threads : pc[t] = "find" <=> t \in readers
  /\ writer # NoThread => readers = {}

\* Nobody looks up a key before the constructor has filled the cache.
NoEarlyLookup == \A t \in Threads : pc[t] # "idle" => constructed

\* An answer under way is a key set at least as new as the cache.
ReplyIsNewer ==
  \A t \in Threads : pc[t] = "answered" => reply[t] # 0 /\ reply[t] >= cache

\* A kid that is unpublished now, or was when the provider answered, is known to
\* have been missing.
MissingIsNoted ==
  \A t \in Threads :
    /\ pc[t] # "idle" /\ key[t] \notin published[version] => missing[t]
    /\ pc[t] = "answered" /\ key[t] \notin published[reply[t]] => missing[t]

\* The inductive invariant.
IInv ==
  /\ TypeOK /\ LockInv /\ NoEarlyLookup /\ ReplyIsNewer /\ MissingIsNoted
  /\ NoNeedlessRequest /\ NotFoundIsFresh

\* The inductive invariant holds when nothing has been called yet.
LEMMA InitIInv == Init => IInv
<1> SUFFICES ASSUME Init PROVE IInv
  OBVIOUS
<1>1. TypeOK
  <2>1. PICK S \in SUBSET Kids : published = [v \in 1..MaxVersions |-> IF v = 1 THEN S ELSE {}]
    BY DEF Init
  <2>2. published \in [1..MaxVersions -> SUBSET Kids]
    BY <2>1
  <2>3. version \in 1..MaxVersions /\ cache \in 0..version
    BY ConstantsAssumption DEF Init
  <2>4. pc \in [Threads -> {"idle", "wantShared", "find", "wantExclusive"}
                             \cup Exclusive \cup Results]
    BY DEF Init
  <2>5. reply \in [Threads -> 0..version]
    BY DEF Init
  <2>6. /\ readers \in SUBSET Threads /\ writer \in Threads \cup {NoThread}
        /\ key \in [Threads -> Kids \cup {EmptyKid, NoKid}]
        /\ error \in [Threads -> Errors \cup {"none"}]
    BY DEF Init
  <2>7. /\ configuration \in Configurations /\ constructed \in BOOLEAN
        /\ missing \in [Threads -> BOOLEAN] /\ refused \in [Threads -> BOOLEAN]
    BY DEF Init
  <2> QED
    BY <2>2, <2>3, <2>4, <2>5, <2>6, <2>7 DEF TypeOK
<1>2. LockInv
  BY ConstantsAssumption DEF Init, LockInv, Exclusive
<1>3. NoEarlyLookup /\ ReplyIsNewer /\ MissingIsNoted
  BY DEF Init, NoEarlyLookup, ReplyIsNewer, MissingIsNoted
<1>4. NoNeedlessRequest /\ NotFoundIsFresh
  BY DEF Init, NoNeedlessRequest, NotFoundIsFresh
<1> QED
  BY <1>1, <1>2, <1>3, <1>4 DEF IInv

\* Every step keeps the types.
LEMMA TypeStep == TypeOK /\ [Next]_vars => TypeOK'
<1> SUFFICES ASSUME TypeOK, [Next]_vars PROVE TypeOK'
  OBVIOUS
<1> USE ConstantsAssumption DEF TypeOK, Exclusive, Results, Errors, environment
<1>1. ASSUME NEW S \in SUBSET Kids, Rotate(S) PROVE TypeOK'
  BY <1>1 DEF Rotate
<1>2. CASE Construct
  <2>1. constructed' \in BOOLEAN
    BY <1>2, Zenon DEF Construct
  <2>2. cache' \in 0..version
    BY <1>2 DEF Construct, CacheAfterError
  <2> QED
    BY <1>2, <2>1, <2>2 DEF Construct
<1>3. ASSUME NEW t \in Threads, NEW k \in Kids \cup {EmptyKid}, Lookup(t, k) PROVE TypeOK'
  BY <1>3 DEF Lookup
<1>4. ASSUME NEW t \in Threads, LockShared(t) PROVE TypeOK'
  BY <1>4 DEF LockShared
<1>5. ASSUME NEW t \in Threads, FindShared(t) PROVE TypeOK'
  BY <1>5 DEF FindShared
<1>6. ASSUME NEW t \in Threads, LockExclusive(t) PROVE TypeOK'
  BY <1>6 DEF LockExclusive
<1>7. ASSUME NEW t \in Threads, Recheck(t) PROVE TypeOK'
  BY <1>7 DEF Recheck
<1>8. ASSUME NEW t \in Threads, ProviderFails(t) PROVE TypeOK'
  BY <1>8 DEF ProviderFails, UpdateFails, CacheAfterError
<1>9. ASSUME NEW t \in Threads, ProviderAnswers(t) PROVE TypeOK'
  BY <1>9 DEF ProviderAnswers
<1>10. ASSUME NEW t \in Threads, UpdateKeyCache(t) PROVE TypeOK'
  <2>1. cache' \in 0..version
    BY <1>10 DEF UpdateKeyCache, UpdateFails, CacheAfterError
  <2>2. pc' \in [Threads -> {"idle", "wantShared", "find", "wantExclusive"}
                              \cup Exclusive \cup Results]
    BY <1>10 DEF UpdateKeyCache, UpdateFails
  <2>3. error' \in [Threads -> Errors \cup {"none"}]
    BY <1>10 DEF UpdateKeyCache, UpdateFails
  <2>4. writer' \in Threads \cup {NoThread}
    BY <1>10 DEF UpdateKeyCache, UpdateFails
  <2> QED
    BY <1>10, <2>1, <2>2, <2>3, <2>4 DEF UpdateKeyCache
<1>11. ASSUME NEW t \in Threads, Return(t) PROVE TypeOK'
  BY <1>11 DEF Return
<1>12. CASE UNCHANGED vars
  BY <1>12 DEF vars
<1> QED
  BY <1>1, <1>2, <1>3, <1>4, <1>5, <1>6, <1>7, <1>8, <1>9, <1>10, <1>11, <1>12 DEF Next, Call, Proceed

\* The mutex is taken and released with the position of the thread.
LEMMA LockStep == TypeOK /\ LockInv /\ [Next]_vars => LockInv'
<1> SUFFICES ASSUME TypeOK /\ LockInv, [Next]_vars PROVE LockInv'
  OBVIOUS
<1> USE ConstantsAssumption DEF TypeOK, LockInv, Exclusive, Results, Errors, environment
<1>1. ASSUME NEW S \in SUBSET Kids, Rotate(S) PROVE LockInv'
  BY <1>1 DEF Rotate
<1>2. CASE Construct
  BY <1>2 DEF Construct
<1>3. ASSUME NEW t \in Threads, NEW k \in Kids \cup {EmptyKid}, Lookup(t, k) PROVE LockInv'
  BY <1>3 DEF Lookup
<1>4. ASSUME NEW t \in Threads, LockShared(t) PROVE LockInv'
  BY <1>4 DEF LockShared
<1>5. ASSUME NEW t \in Threads, FindShared(t) PROVE LockInv'
  BY <1>5 DEF FindShared
<1>6. ASSUME NEW t \in Threads, LockExclusive(t) PROVE LockInv'
  BY <1>6 DEF LockExclusive, MayLock
<1>7. ASSUME NEW t \in Threads, Recheck(t) PROVE LockInv'
  BY <1>7 DEF Recheck, FoundOnRecheck
<1>8. ASSUME NEW t \in Threads, ProviderFails(t) PROVE LockInv'
  <2> DEFINE r == IF Throws THEN "thrown" ELSE "notFound"
  <2>1. pc[t] \in Exclusive /\ r \in Results
    BY <1>8 DEF ProviderFails
  <2>2. pc' = [pc EXCEPT ![t] = r] /\ writer' = NoThread /\ readers' = readers
    BY <1>8 DEF ProviderFails, UpdateFails
  <2> QED
    BY <2>1, <2>2
<1>9. ASSUME NEW t \in Threads, ProviderAnswers(t) PROVE LockInv'
  BY <1>9 DEF ProviderAnswers
<1>10. ASSUME NEW t \in Threads, UpdateKeyCache(t) PROVE LockInv'
  <2>1. pc[t] \in Exclusive /\ readers' = readers
    BY <1>10 DEF UpdateKeyCache
  <2>2. PICK r \in Results : pc' = [pc EXCEPT ![t] = r] /\ writer' = NoThread
    BY <1>10 DEF UpdateKeyCache, UpdateFails
  <2> QED
    BY <2>1, <2>2
<1>11. ASSUME NEW t \in Threads, Return(t) PROVE LockInv'
  BY <1>11 DEF Return
<1>12. CASE UNCHANGED vars
  BY <1>12 DEF vars
<1> QED
  BY <1>1, <1>2, <1>3, <1>4, <1>5, <1>6, <1>7, <1>8, <1>9, <1>10, <1>11, <1>12 DEF Next, Call, Proceed

\* Once constructed, the provider stays.
LEMMA NoEarlyLookupStep == TypeOK /\ NoEarlyLookup /\ [Next]_vars => NoEarlyLookup'
<1> SUFFICES ASSUME TypeOK /\ NoEarlyLookup, [Next]_vars PROVE NoEarlyLookup'
  OBVIOUS
<1> USE ConstantsAssumption DEF TypeOK, NoEarlyLookup, Exclusive, Results, Errors, environment
<1>1. ASSUME NEW S \in SUBSET Kids, Rotate(S) PROVE NoEarlyLookup'
  BY <1>1 DEF Rotate
<1>2. CASE Construct
  BY <1>2 DEF Construct
<1>3. ASSUME NEW t \in Threads, NEW k \in Kids \cup {EmptyKid}, Lookup(t, k) PROVE NoEarlyLookup'
  BY <1>3 DEF Lookup
<1>4. ASSUME NEW t \in Threads, LockShared(t) PROVE NoEarlyLookup'
  BY <1>4 DEF LockShared
<1>5. ASSUME NEW t \in Threads, FindShared(t) PROVE NoEarlyLookup'
  BY <1>5 DEF FindShared
<1>6. ASSUME NEW t \in Threads, LockExclusive(t) PROVE NoEarlyLookup'
  BY <1>6 DEF LockExclusive
<1>7. ASSUME NEW t \in Threads, Recheck(t) PROVE NoEarlyLookup'
  BY <1>7 DEF Recheck
<1>8. ASSUME NEW t \in Threads, ProviderFails(t) PROVE NoEarlyLookup'
  BY <1>8 DEF ProviderFails
<1>9. ASSUME NEW t \in Threads, ProviderAnswers(t) PROVE NoEarlyLookup'
  BY <1>9 DEF ProviderAnswers
<1>10. ASSUME NEW t \in Threads, UpdateKeyCache(t) PROVE NoEarlyLookup'
  BY <1>10 DEF UpdateKeyCache
<1>11. ASSUME NEW t \in Threads, Return(t) PROVE NoEarlyLookup'
  BY <1>11 DEF Return
<1>12. CASE UNCHANGED vars
  BY <1>12 DEF vars
<1> QED
  BY <1>1, <1>2, <1>3, <1>4, <1>5, <1>6, <1>7, <1>8, <1>9, <1>10, <1>11, <1>12 DEF Next, Call, Proceed

\* The cache cannot change while an answer is under way: its reader is exclusive.
LEMMA ReplyIsNewerStep == TypeOK /\ LockInv /\ NoEarlyLookup /\ ReplyIsNewer /\ [Next]_vars => ReplyIsNewer'
<1> SUFFICES ASSUME TypeOK /\ LockInv /\ NoEarlyLookup /\ ReplyIsNewer, [Next]_vars PROVE ReplyIsNewer'
  OBVIOUS
<1> USE ConstantsAssumption DEF TypeOK, LockInv, NoEarlyLookup, ReplyIsNewer, Exclusive, Results, Errors, environment
<1>1. ASSUME NEW S \in SUBSET Kids, Rotate(S) PROVE ReplyIsNewer'
  BY <1>1 DEF Rotate
<1>2. CASE Construct
  BY <1>2 DEF Construct
<1>3. ASSUME NEW t \in Threads, NEW k \in Kids \cup {EmptyKid}, Lookup(t, k) PROVE ReplyIsNewer'
  BY <1>3 DEF Lookup
<1>4. ASSUME NEW t \in Threads, LockShared(t) PROVE ReplyIsNewer'
  BY <1>4 DEF LockShared
<1>5. ASSUME NEW t \in Threads, FindShared(t) PROVE ReplyIsNewer'
  BY <1>5 DEF FindShared
<1>6. ASSUME NEW t \in Threads, LockExclusive(t) PROVE ReplyIsNewer'
  BY <1>6 DEF LockExclusive
<1>7. ASSUME NEW t \in Threads, Recheck(t) PROVE ReplyIsNewer'
  BY <1>7 DEF Recheck
<1>8. ASSUME NEW t \in Threads, ProviderFails(t) PROVE ReplyIsNewer'
  BY <1>8 DEF ProviderFails, UpdateFails
<1>9. ASSUME NEW t \in Threads, ProviderAnswers(t) PROVE ReplyIsNewer'
  BY <1>9 DEF ProviderAnswers
<1>10. ASSUME NEW t \in Threads, UpdateKeyCache(t) PROVE ReplyIsNewer'
  BY <1>10 DEF UpdateKeyCache, UpdateFails, CacheAfterError
<1>11. ASSUME NEW t \in Threads, Return(t) PROVE ReplyIsNewer'
  BY <1>11 DEF Return
<1>12. CASE UNCHANGED vars
  BY <1>12 DEF vars
<1> QED
  BY <1>1, <1>2, <1>3, <1>4, <1>5, <1>6, <1>7, <1>8, <1>9, <1>10, <1>11, <1>12 DEF Next, Call, Proceed

\* The history notices every key set that lacks the kid.
LEMMA MissingIsNotedStep == TypeOK /\ MissingIsNoted /\ [Next]_vars => MissingIsNoted'
<1> SUFFICES ASSUME TypeOK /\ MissingIsNoted, [Next]_vars PROVE MissingIsNoted'
  OBVIOUS
<1> USE ConstantsAssumption DEF TypeOK, MissingIsNoted, Exclusive, Results, Errors, environment
<1>1. ASSUME NEW S \in SUBSET Kids, Rotate(S) PROVE MissingIsNoted'
  <2> SUFFICES ASSUME NEW t \in Threads
               PROVE  /\ pc[t] # "idle" /\ key[t] \notin published'[version'] => missing'[t]
                      /\ pc[t] = "answered" /\ key[t] \notin published'[reply[t]] => missing'[t]
    BY <1>1 DEF Rotate
  <2>1. published'[version'] = S
    BY <1>1 DEF Rotate
  <2>2. missing'[t] = (missing[t] \/ (pc[t] # "idle" /\ key[t] \notin S))
    BY <1>1 DEF Rotate
  <2>3. published'[reply[t]] = published[reply[t]]
    BY <1>1 DEF Rotate
  <2> QED
    BY <2>1, <2>2, <2>3
<1>2. CASE Construct
  BY <1>2 DEF Construct
<1>3. ASSUME NEW t \in Threads, NEW k \in Kids \cup {EmptyKid}, Lookup(t, k) PROVE MissingIsNoted'
  BY <1>3 DEF Lookup
<1>4. ASSUME NEW t \in Threads, LockShared(t) PROVE MissingIsNoted'
  BY <1>4 DEF LockShared
<1>5. ASSUME NEW t \in Threads, FindShared(t) PROVE MissingIsNoted'
  BY <1>5 DEF FindShared
<1>6. ASSUME NEW t \in Threads, LockExclusive(t) PROVE MissingIsNoted'
  BY <1>6 DEF LockExclusive
<1>7. ASSUME NEW t \in Threads, Recheck(t) PROVE MissingIsNoted'
  BY <1>7 DEF Recheck
<1>8. ASSUME NEW t \in Threads, ProviderFails(t) PROVE MissingIsNoted'
  BY <1>8 DEF ProviderFails, UpdateFails
<1>9. ASSUME NEW t \in Threads, ProviderAnswers(t) PROVE MissingIsNoted'
  BY <1>9 DEF ProviderAnswers
<1>10. ASSUME NEW t \in Threads, UpdateKeyCache(t) PROVE MissingIsNoted'
  BY <1>10 DEF UpdateKeyCache, UpdateFails
<1>11. ASSUME NEW t \in Threads, Return(t) PROVE MissingIsNoted'
  BY <1>11 DEF Return
<1>12. CASE UNCHANGED vars
  BY <1>12 DEF vars
<1> QED
  BY <1>1, <1>2, <1>3, <1>4, <1>5, <1>6, <1>7, <1>8, <1>9, <1>10, <1>11, <1>12 DEF Next, Call, Proceed

\* What a thread did not find under the exclusive lock, nobody adds before it does.
LEMMA NoNeedlessRequestStep == TypeOK /\ LockInv /\ NoEarlyLookup /\ NoNeedlessRequest /\ [Next]_vars => NoNeedlessRequest'
<1> SUFFICES ASSUME TypeOK /\ LockInv /\ NoEarlyLookup /\ NoNeedlessRequest, [Next]_vars PROVE NoNeedlessRequest'
  OBVIOUS
<1> USE ConstantsAssumption DEF TypeOK, LockInv, NoEarlyLookup, NoNeedlessRequest, In, Exclusive, Results, Errors, environment
<1>1. ASSUME NEW S \in SUBSET Kids, Rotate(S) PROVE NoNeedlessRequest'
  BY <1>1 DEF Rotate
<1>2. CASE Construct
  BY <1>2 DEF Construct
<1>3. ASSUME NEW t \in Threads, NEW k \in Kids \cup {EmptyKid}, Lookup(t, k) PROVE NoNeedlessRequest'
  BY <1>3 DEF Lookup
<1>4. ASSUME NEW t \in Threads, LockShared(t) PROVE NoNeedlessRequest'
  BY <1>4 DEF LockShared
<1>5. ASSUME NEW t \in Threads, FindShared(t) PROVE NoNeedlessRequest'
  BY <1>5 DEF FindShared
<1>6. ASSUME NEW t \in Threads, LockExclusive(t) PROVE NoNeedlessRequest'
  BY <1>6 DEF LockExclusive
<1>7. ASSUME NEW t \in Threads, Recheck(t) PROVE NoNeedlessRequest'
  BY <1>7 DEF Recheck, FoundOnRecheck
<1>8. ASSUME NEW t \in Threads, ProviderFails(t) PROVE NoNeedlessRequest'
  BY <1>8 DEF ProviderFails, UpdateFails
<1>9. ASSUME NEW t \in Threads, ProviderAnswers(t) PROVE NoNeedlessRequest'
  BY <1>9 DEF ProviderAnswers
<1>10. ASSUME NEW t \in Threads, UpdateKeyCache(t) PROVE NoNeedlessRequest'
  BY <1>10 DEF UpdateKeyCache, UpdateFails, CacheAfterError
<1>11. ASSUME NEW t \in Threads, Return(t) PROVE NoNeedlessRequest'
  BY <1>11 DEF Return
<1>12. CASE UNCHANGED vars
  BY <1>12 DEF vars
<1> QED
  BY <1>1, <1>2, <1>3, <1>4, <1>5, <1>6, <1>7, <1>8, <1>9, <1>10, <1>11, <1>12 DEF Next, Call, Proceed

\* The last find fails on a key set that lacks the kid, or after an error.
LEMMA NotFoundIsFreshStep == TypeOK /\ ReplyIsNewer /\ MissingIsNoted /\ NotFoundIsFresh /\ [Next]_vars => NotFoundIsFresh'
<1> SUFFICES ASSUME TypeOK /\ ReplyIsNewer /\ MissingIsNoted /\ NotFoundIsFresh, [Next]_vars PROVE NotFoundIsFresh'
  OBVIOUS
<1> USE ConstantsAssumption DEF TypeOK, ReplyIsNewer, MissingIsNoted, NotFoundIsFresh, In, Exclusive, Results, Errors, environment
<1>1. ASSUME NEW S \in SUBSET Kids, Rotate(S) PROVE NotFoundIsFresh'
  BY <1>1 DEF Rotate
<1>2. CASE Construct
  BY <1>2 DEF Construct
<1>3. ASSUME NEW t \in Threads, NEW k \in Kids \cup {EmptyKid}, Lookup(t, k) PROVE NotFoundIsFresh'
  BY <1>3 DEF Lookup
<1>4. ASSUME NEW t \in Threads, LockShared(t) PROVE NotFoundIsFresh'
  BY <1>4 DEF LockShared
<1>5. ASSUME NEW t \in Threads, FindShared(t) PROVE NotFoundIsFresh'
  BY <1>5 DEF FindShared
<1>6. ASSUME NEW t \in Threads, LockExclusive(t) PROVE NotFoundIsFresh'
  BY <1>6 DEF LockExclusive
<1>7. ASSUME NEW t \in Threads, Recheck(t) PROVE NotFoundIsFresh'
  BY <1>7 DEF Recheck
<1>8. ASSUME NEW t \in Threads, ProviderFails(t) PROVE NotFoundIsFresh'
  BY <1>8 DEF ProviderFails, UpdateFails
<1>9. ASSUME NEW t \in Threads, ProviderAnswers(t) PROVE NotFoundIsFresh'
  BY <1>9 DEF ProviderAnswers
<1>10. ASSUME NEW t \in Threads, UpdateKeyCache(t) PROVE NotFoundIsFresh'
  BY <1>10 DEF UpdateKeyCache, UpdateFails, FoundAfterUpdate
<1>11. ASSUME NEW t \in Threads, Return(t) PROVE NotFoundIsFresh'
  BY <1>11 DEF Return
<1>12. CASE UNCHANGED vars
  BY <1>12 DEF vars
<1> QED
  BY <1>1, <1>2, <1>3, <1>4, <1>5, <1>6, <1>7, <1>8, <1>9, <1>10, <1>11, <1>12 DEF Next, Call, Proceed

\* Every reachable state satisfies the inductive invariant.
THEOREM Invariance == Spec => []IInv
<1>1. IInv /\ [Next]_vars => IInv'
  BY TypeStep, LockStep, NoEarlyLookupStep, ReplyIsNewerStep, MissingIsNotedStep,
     NoNeedlessRequestStep, NotFoundIsFreshStep DEF IInv
<1> QED
  BY InitIInv, <1>1, PTL DEF Spec

\* The variables keep their types; the cached and the awaited key set are never one
\* that the provider has not published yet.
THEOREM TypeCorrect == Spec => []TypeOK
<1>1. IInv => TypeOK
  BY DEF IInv
<1> QED
  BY Invariance, <1>1, PTL

\* The map is never replaced while another thread reads or replaces it.
THEOREM DataRaceFreedom == Spec => []WriteExcludesRead
<1>1. IInv => WriteExcludesRead
  BY ConstantsAssumption DEF IInv, LockInv, WriteExcludesRead
<1> QED
  BY Invariance, <1>1, PTL

\* Threads that miss the same key together ask the provider once.
THEOREM RequestsAreNeeded == Spec => []NoNeedlessRequest
<1>1. IInv => NoNeedlessRequest
  BY DEF IInv
<1> QED
  BY Invariance, <1>1, PTL

\* A key that stays published is found, unless the provider cannot be asked.
THEOREM StaleCacheIsNoExcuse == Spec => []NotFoundIsFresh
<1>1. IInv => NotFoundIsFresh
  BY DEF IInv
<1> QED
  BY Invariance, <1>1, PTL

\* The cache never goes back to an older key set.
THEOREM CacheIsMonotonic == Spec => CacheMovesForward
<1>1. IInv /\ [Next]_vars => [cache' >= cache]_cache
  <2> SUFFICES ASSUME IInv, [Next]_vars PROVE cache' >= cache
    OBVIOUS
  <2> USE DEF IInv, TypeOK, environment
  <2>1. CASE Construct
    BY <2>1 DEF Construct, CacheAfterError
  <2>2. ASSUME NEW t \in Threads, ProviderFails(t) PROVE cache' = cache
    BY <2>2 DEF ProviderFails, UpdateFails, CacheAfterError
  <2>3. ASSUME NEW t \in Threads, UpdateKeyCache(t) PROVE cache' >= cache
    BY <2>3 DEF UpdateKeyCache, UpdateFails, CacheAfterError, ReplyIsNewer
  <2>4. CASE UNCHANGED cache
    BY <2>4
  <2> QED
    BY <2>1, <2>2, <2>3, <2>4
       DEF Next, Call, Proceed, vars, Rotate, Lookup, LockShared, FindShared,
           LockExclusive, Recheck, ProviderAnswers, Return
<1> QED
  BY Invariance, <1>1, PTL DEF Spec, CacheMovesForward
=============================================================================
