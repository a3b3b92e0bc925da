---------------------------- MODULE DaemonProofs ----------------------------
(***************************************************************************)
(* Proofs about the daemon: its cache (DaemonCache), for any clients,      *)
(* secrets, configurations and contexts, and its process                   *)
(* (DaemonLifecycle), for any daemons and commands; both without the       *)
(* bounds of the model-checking runs.                                      *)
(***************************************************************************)
EXTENDS DaemonCache, DaemonLifecycle, TLAPS

----------------------------------------------------------------------------
(* The helpers. *)

\* cache_key builds a cache key about the secret, fingerprint and context given.
LEMMA CacheKeyType ==
    ASSUME NEW fingerprint \in Config, NEW cfg \in Config, NEW k \in Secret,
           NEW ctx \in Context
    PROVE  /\ cache_key(fingerprint, cfg, k, ctx) \in CacheKey
           /\ cache_key(fingerprint, cfg, k, ctx).secret = k
           /\ cache_key(fingerprint, cfg, k, ctx).fingerprint = fingerprint
           /\ cache_key(fingerprint, cfg, k, ctx).ctx = ctx
BY DaemonCacheAssumption DEF cache_key, CacheKey

\* The cached value of a secret for a request is the entry under some key about
\* that secret, the fingerprint and the request's context, if there is one.
LEMMA CachedEntry ==
    ASSUME TypeOK, NEW c \in Client, NEW fingerprint \in Config, NEW k \in Secret
    PROVE  /\ Cached(c, fingerprint, k) \in Value \union {None}
           /\ Cached(c, fingerprint, k) # None =>
                \E ck \in CacheKey :
                    /\ ck.secret = k /\ ck.fingerprint = fingerprint /\ ck.ctx = req[c].ctx
                    /\ cache[ck] = Cached(c, fingerprint, k)
                    /\ secret_is_cacheable(job[c].loaded, k, req[c].ctx)
<1>1. job[c].loaded \in Config /\ req[c].ctx \in Context
  BY DEF TypeOK, Job, Request
<1> DEFINE ck == cache_key(fingerprint, job[c].loaded, k, req[c].ctx)
<1>2. /\ ck \in CacheKey
      /\ ck.secret = k /\ ck.fingerprint = fingerprint /\ ck.ctx = req[c].ctx
  BY <1>1, CacheKeyType
<1>3. cache[ck] \in Value \union {None}
  BY <1>2 DEF TypeOK
<1> HIDE DEF ck
<1>4. Cached(c, fingerprint, k)
        = IF secret_is_cacheable(job[c].loaded, k, req[c].ctx) THEN cache[ck] ELSE None
  BY DEF Cached, ck
<1> QED BY <1>2, <1>3, <1>4

\* Filling changes an entry only to the value the request holds for its secret.
LEMMA FilledEntry ==
    ASSUME TypeOK, NEW c \in Client, NEW fingerprint \in Config, NEW K \in SUBSET Secret
    PROVE  /\ Filled(c, fingerprint, K) \in [CacheKey -> Value \union {None}]
           /\ \A ck \in CacheKey :
                \/ Filled(c, fingerprint, K)[ck] = cache[ck]
                \/ /\ ck.secret \in K
                   /\ ck.fingerprint = fingerprint /\ ck.ctx = req[c].ctx
                   /\ values[c][ck.secret] # None
                   /\ Filled(c, fingerprint, K)[ck] = values[c][ck.secret]
<1>1. job[c].loaded \in Config /\ req[c].ctx \in Context
  BY DEF TypeOK, Job, Request
<1>2. \A ck \in CacheKey : ck.secret \in Secret /\ cache[ck] \in Value \union {None}
  BY DEF TypeOK, CacheKey
<1>3. \A k \in Secret : values[c][k] \in Value \union {None}
  BY DEF TypeOK
<1>4. \A k \in K :
        LET ck == cache_key(fingerprint, job[c].loaded, k, req[c].ctx)
        IN  ck.secret = k /\ ck.fingerprint = fingerprint /\ ck.ctx = req[c].ctx
  BY <1>1, CacheKeyType
<1> QED BY <1>1, <1>2, <1>3, <1>4 DEF Filled

----------------------------------------------------------------------------
(* Type correctness. *)

\* The places a client can be, by group.
LEMMA ControlTypes ==
    /\ InDaemon \subseteq PC /\ Queued \subseteq PC
    /\ {"idle", "clear", "send", "foreground", "done", "failed"} \subseteq PC
BY DEF PC, InDaemon, Queued

\* The request, job and values of a client that asked for nothing.
LEMMA BlankTypes ==
    ASSUME NEW cfg \in Config
    PROVE  /\ NoRequest(cfg) \in Request /\ NoJob(cfg) \in Job
           /\ NoValues \in [Secret -> Value \union {None}]
<1>1. (CHOOSE x \in Context : TRUE) \in Context
  BY DaemonCacheAssumption
<1> QED BY <1>1 DEF NoRequest, NoJob, NoValues, Request, Job

\* The initial states are well typed.
LEMMA TypeInit == Init => TypeOK
<1> SUFFICES ASSUME Init PROVE TypeOK
  OBVIOUS
<1>1. alive \in BOOLEAN /\ config \in Config
  BY Zenon DEF Init
<1>2. /\ req \in [Client -> Request] /\ job \in [Client -> Job]
      /\ values \in [Client -> [Secret -> Value \union {None}]]
  BY <1>1, BlankTypes, Zenon DEF Init
<1>3. pc \in [Client -> PC]
  BY ControlTypes, Zenon DEF Init
<1>4. cache \in [CacheKey -> Value \union {None}]
  BY Zenon DEF Init
<1> QED BY <1>1, <1>2, <1>3, <1>4 DEF Init, TypeOK

\* What a request holds after taking the cached values of some secrets.
LEMMA HitValuesType ==
    ASSUME TypeOK, NEW c \in Client, NEW fingerprint \in Config, NEW H
    PROVE  [k \in Secret |-> IF k \in H THEN Cached(c, fingerprint, k) ELSE None]
             \in [Secret -> Value \union {None}]
BY CachedEntry

\* The daemon selects among the secrets there are.
LEMMA SelectedType ==
    ASSUME TypeOK, NEW c \in Client
    PROVE  Selected(c) \in SUBSET Secret
BY DEF Selected, TypeOK, Request

\* What a provider read gives: the current version, for the process that asked.
LEMMA ReadType ==
    ASSUME TypeOK, NEW c \in Client, NEW cfg \in Config, NEW k \in Secret
    PROVE  /\ Read(c, cfg, k) \in Value
           /\ Read(c, cfg, k).ver = vault[k]
           /\ Read(c, cfg, k).incarnation = job[c].incarnation
BY DEF Read, Value, TypeOK, Job, Request

\* Every step of a client, of the daemon or of the world keeps the types.
LEMMA TypeStep == TypeOK /\ [Next]_vars => TypeOK'
<1> SUFFICES ASSUME TypeOK, [Next]_vars PROVE TypeOK'
  OBVIOUS
<1> USE DEF daemonVars, clientVars, worldVars
<1>1. ASSUME NEW k \in Secret, Rotate(k) PROVE TypeOK'
  BY <1>1 DEF Rotate, TypeOK
<1>2. ASSUME NEW cfg \in Config, EditConfig(cfg) PROVE TypeOK'
  BY <1>2 DEF EditConfig, TypeOK
<1>3. CASE Stop
  <2>1. pc' \in [Client -> PC]
    BY <1>3, ControlTypes DEF Stop, TypeOK
  <2>2. alive' \in BOOLEAN
    BY <1>3 DEF Stop
  <2>3. cache' \in [CacheKey -> Value \union {None}]
    BY <1>3 DEF Stop
  <2> QED BY <1>3, <2>1, <2>2, <2>3 DEF Stop, TypeOK
<1>4. ASSUME NEW c \in Client, NEW o \in Operations, Begin(c, o) PROVE TypeOK'
  <2>1. pc' \in [Client -> PC]
    BY <1>4, ControlTypes DEF Begin, TypeOK
  <2>2. ASSUME NEW cfg \in Config PROVE RequestFor(o, cfg) \in Request
    BY DaemonCacheAssumption DEF RequestFor, Request, Operation
  <2>3. req' \in [Client -> Request]
    BY <1>4, <2>2 DEF Begin, TypeOK, Request
  <2> QED BY <1>4, <2>1, <2>3 DEF Begin, TypeOK
<1>5. ASSUME NEW c \in Client, Return(c) PROVE TypeOK'
  <2>1. req[c].cfg \in Config
    BY DEF TypeOK, Request
  <2>2. /\ req' \in [Client -> Request] /\ job' \in [Client -> Job]
        /\ values' \in [Client -> [Secret -> Value \union {None}]]
    BY <1>5, <2>1, BlankTypes DEF Return, TypeOK
  <2>3. pc' \in [Client -> PC]
    BY <1>5, ControlTypes DEF Return, TypeOK
  <2> QED BY <1>5, <2>2, <2>3 DEF Return, TypeOK
<1>6. ASSUME NEW c \in Client, Clear(c) PROVE TypeOK'
  <2>1. pc' \in [Client -> PC]
    BY <1>6, ControlTypes DEF Clear, TypeOK
  <2>2. CASE alive /\ ClearState(req[c].evict)
    <3>1. req[c].evict \in SUBSET Secret
      BY DEF TypeOK, Request
    <3>2. cache' \in [CacheKey -> Value \union {None}]
      BY <2>2, <3>1 DEF ClearState, TypeOK
    <3>3. epoch' \in Nat /\ fullClearEpoch' \in Nat
      BY <2>2 DEF ClearState, TypeOK
    <3>4. keyClearEpochs' \in [Secret -> Nat]
      BY <2>2, <3>3 DEF ClearState, TypeOK
    <3>5. cleared' \in [Secret -> Nat]
      BY <2>2 DEF ClearState, TypeOK
    <3> QED BY <1>6, <2>1, <2>2, <3>2, <3>3, <3>4, <3>5 DEF Clear, ClearState, TypeOK
  <2>3. CASE UNCHANGED <<daemonVars, cleared>>
    BY <1>6, <2>1, <2>3 DEF Clear, TypeOK
  <2> QED BY <1>6, <2>2, <2>3 DEF Clear
<1>7. ASSUME NEW c \in Client, Send(c) PROVE TypeOK'
  <2>1. pc' \in [Client -> PC]
    BY <1>7, ControlTypes DEF Send, TypeOK, Queued
  <2>2. alive' \in BOOLEAN
    BY <1>7 DEF Send, Listen, TypeOK
  <2> QED BY <1>7, <2>1, <2>2 DEF Send, Listen, TypeOK
<1>8. ASSUME NEW c \in Client, Load(c) PROVE TypeOK'
  <2>1. pc' \in [Client -> PC]
    BY <1>8, ControlTypes DEF Load, TypeOK, InDaemon
  <2>2. Floor(req[c].ctx) \in [Secret -> Nat]
    BY DEF Floor, TypeOK
  <2>3. job' \in [Client -> Job]
    BY <1>8, <2>2 DEF Load, TypeOK, Job
  <2> QED BY <1>8, <2>1, <2>3 DEF Load, TypeOK
<1>9. ASSUME NEW c \in Client, ForegroundCheck(c) PROVE TypeOK'
  <2>1. pc' \in [Client -> PC]
    BY <1>9, ControlTypes DEF ForegroundCheck, Answer, TypeOK, InDaemon
  <2>2. config \in Config
    BY DEF TypeOK
  <2>3. values' \in [Client -> [Secret -> Value \union {None}]]
    <3> DEFINE hit == [k \in Secret |-> IF k \in Hits(c, config)
                                        THEN Cached(c, config, k) ELSE None]
    <3>1. hit \in [Secret -> Value \union {None}]
      BY <2>2, HitValuesType
    <3>2. values' = values \/ values' = [values EXCEPT ![c] = hit]
      BY <1>9 DEF ForegroundCheck, Answer
    <3> HIDE DEF hit
    <3> QED BY <3>1, <3>2 DEF TypeOK
  <2>4. job' \in [Client -> Job]
    <3>1. Told(job[c], config, epoch) \in Job
      BY DEF TypeOK, Job, Told
    <3>2. job' = job \/ job' = [job EXCEPT ![c] = Told(job[c], config, epoch)]
      BY <1>9 DEF ForegroundCheck, TypeOK
    <3> QED BY <3>1, <3>2 DEF TypeOK
  <2>5. pending' \in [Client -> SUBSET Secret]
    <3>1. (Selected(c) \ Hits(c, config)) \in SUBSET Secret
      BY SelectedType
    <3>2. \/ pending' = pending
          \/ pending' = [pending EXCEPT ![c] = Selected(c) \ Hits(c, config)]
      BY <1>9 DEF ForegroundCheck
    <3> QED BY <3>1, <3>2 DEF TypeOK
  <2> QED BY <1>9, <2>1, <2>3, <2>4, <2>5 DEF ForegroundCheck, Answer, TypeOK
<1>10. ASSUME NEW c \in Client, CacheLookup(c) PROVE TypeOK'
  <2>1. pc' \in [Client -> PC]
    BY <1>10, ControlTypes DEF CacheLookup, TypeOK, InDaemon
  <2>2. config \in Config
    BY DEF TypeOK
  <2>3. values' \in [Client -> [Secret -> Value \union {None}]]
    BY <1>10, <2>2, HitValuesType DEF CacheLookup, TypeOK
  <2>4. job' \in [Client -> Job]
    <3>1. Told(job[c], config, job[c].epoch) \in Job
      BY DEF TypeOK, Job, Told
    <3>2. job' = [job EXCEPT ![c] = Told(job[c], config, job[c].epoch)]
      BY <1>10 DEF CacheLookup, TypeOK
    <3> QED BY <3>1, <3>2 DEF TypeOK
  <2>5. pending' \in [Client -> SUBSET Secret]
    <3>1. (Selected(c) \ Hits(c, config)) \in SUBSET Secret
      BY SelectedType
    <3>2. \/ pending' = pending
          \/ pending' = [pending EXCEPT ![c] = Selected(c) \ Hits(c, config)]
      BY <1>10 DEF CacheLookup
    <3> QED BY <3>1, <3>2 DEF TypeOK
  <2> QED BY <1>10, <2>1, <2>3, <2>4, <2>5 DEF CacheLookup, TypeOK
<1>11. ASSUME NEW c \in Client, NEW k \in Secret, ProviderRead(c, k) PROVE TypeOK'
  <2>1. job[c].loaded \in Config /\ req[c].cfg \in Config
    BY DEF TypeOK, Job, Request
  <2>2. values' \in [Client -> [Secret -> Value \union {None}]]
    <3>1. PICK cfg \in Config :
            \/ values' = values
            \/ values' = [values EXCEPT ![c] = [values[c] EXCEPT ![k] = Read(c, cfg, k)]]
      BY <1>11, <2>1 DEF ProviderRead
    <3>2. [values[c] EXCEPT ![k] = Read(c, cfg, k)] \in [Secret -> Value \union {None}]
      BY ReadType DEF TypeOK
    <3> QED BY <3>1, <3>2 DEF TypeOK
  <2>3. pending' \in [Client -> SUBSET Secret]
    BY <1>11 DEF ProviderRead, TypeOK
  <2> QED BY <1>11, <2>2, <2>3 DEF ProviderRead, TypeOK
<1>12. ASSUME NEW c \in Client, ResolveFinish(c) PROVE TypeOK'
  <2>1. pc' \in [Client -> PC]
    BY <1>12, ControlTypes DEF ResolveFinish, Answer, TypeOK
  <2>2. job[c].fingerprint \in Config
    BY DEF TypeOK, Job
  <2>3. cache' \in [CacheKey -> Value \union {None}]
    BY <1>12, <2>2, FilledEntry, SelectedType DEF ResolveFinish
  <2> QED BY <1>12, <2>1, <2>3 DEF ResolveFinish, Answer, TypeOK
<1>13. ASSUME NEW c \in Client, ResolveFail(c) PROVE TypeOK'
  BY <1>13, ControlTypes DEF ResolveFail, TypeOK
<1>14. ASSUME NEW c \in Client, EnvLookup(c) PROVE TypeOK'
  <2>1. pc' \in [Client -> PC]
    BY <1>14, ControlTypes DEF EnvLookup, Answer, TypeOK
  <2>2. config \in Config
    BY DEF TypeOK
  <2>3. values' \in [Client -> [Secret -> Value \union {None}]]
    <3> DEFINE hit == [k \in Secret |-> IF k \in req[c].keys
                                        THEN Cached(c, config, k) ELSE None]
    <3>1. hit \in [Secret -> Value \union {None}]
      BY <2>2, HitValuesType
    <3>2. NoValues \in [Secret -> Value \union {None}]
      BY DEF NoValues
    <3>3. \/ values' = [values EXCEPT ![c] = NoValues]
          \/ values' = [values EXCEPT ![c] = hit]
      BY <1>14 DEF EnvLookup, Answer
    <3> HIDE DEF hit
    <3> QED BY <3>1, <3>2, <3>3 DEF TypeOK
  <2> QED BY <1>14, <2>1, <2>3 DEF EnvLookup, Answer, TypeOK
<1>15. ASSUME NEW c \in Client, SendStore(c) PROVE TypeOK'
  <2>1. pc' \in [Client -> PC]
    BY <1>15, ControlTypes DEF SendStore, TypeOK, Queued
  <2>2. alive' \in BOOLEAN
    BY <1>15 DEF SendStore, Listen
  <2> QED BY <1>15, <2>1, <2>2 DEF SendStore, Listen, TypeOK
<1>16. ASSUME NEW c \in Client, StoreLoad(c) PROVE TypeOK'
  <2>1. pc' \in [Client -> PC]
    BY <1>16, ControlTypes DEF StoreLoad, TypeOK, InDaemon
  <2>2. job' \in [Client -> Job]
    <3>1. [job[c] EXCEPT !.loaded = config] \in Job
      <4>1. job[c] \in Job /\ config \in Config
        BY DEF TypeOK
      <4> QED BY <4>1 DEF Job
    <3>2. job' = [job EXCEPT ![c] = [job[c] EXCEPT !.loaded = config]]
      BY <1>16 DEF StoreLoad, TypeOK
    <3> QED BY <3>1, <3>2 DEF TypeOK
  <2> QED BY <1>16, <2>1, <2>2 DEF StoreLoad, TypeOK
<1>17. ASSUME NEW c \in Client, StoreResolved(c) PROVE TypeOK'
  <2>1. pc' \in [Client -> PC]
    BY <1>17, ControlTypes DEF StoreResolved, Answer, TypeOK
  <2>2. config \in Config
    BY DEF TypeOK
  <2>3. cache' \in [CacheKey -> Value \union {None}]
    <3> DEFINE K == {k \in Selected(c) : ~cleared_since(k, job[c].epoch)}
    <3>1. K \in SUBSET Secret
      BY SelectedType
    <3> HIDE DEF K
    <3>2. Filled(c, config, K) \in [CacheKey -> Value \union {None}]
      BY <2>2, <3>1, FilledEntry
    <3>3. cache' = Filled(c, config, K) \/ cache' = cache
      BY <1>17 DEF StoreResolved, K
    <3> QED BY <3>2, <3>3 DEF TypeOK
  <2> QED BY <1>17, <2>1, <2>3 DEF StoreResolved, Answer, TypeOK
<1>18. CASE UNCHANGED vars
  BY <1>18 DEF vars, TypeOK
<1> QED
  BY <1>1, <1>2, <1>3, <1>4, <1>5, <1>6, <1>7, <1>8, <1>9, <1>10, <1>11, <1>12, <1>13,
     <1>14, <1>15, <1>16, <1>17, <1>18 DEF Next, Handle

\* Every variable keeps its type: in particular the cache never holds the
\* None that the code's Option allows, and every request state is one the
\* handlers know.
THEOREM TypeCorrect == Spec => []TypeOK
BY TypeInit, TypeStep, PTL DEF Spec

----------------------------------------------------------------------------
(* The inductive invariant. *)

\* The inductive invariant holds when nothing has been asked or cached.
LEMMA IndInit == Init => IndInv
<1> SUFFICES ASSUME Init PROVE IndInv
  OBVIOUS
<1>1. TypeOK
  BY TypeInit
<1>2. /\ \A c \in Client : pc[c] = "idle" /\ values[c] = NoValues /\ job[c] = NoJob(config)
      /\ \A k \in Secret : NoValues[k] = None
      /\ "idle" \notin InDaemon
  BY DEF Init, NoValues, InDaemon
<1>3. LockInv
  BY <1>2 DEF LockInv, LockOK
<1>4. EpochInv
  BY DEF Init, EpochInv
<1>5. JobInv
  <2>1. /\ NoJob(config).incarnation = 0 /\ NoJob(config).epoch = 0
        /\ NoJob(config).floor = [k \in Secret |-> 0]
    BY DEF NoJob
  <2>2. \A c \in Client : /\ job[c].incarnation = 0 /\ job[c].epoch = 0
                          /\ \A k \in Secret : job[c].floor[k] = 0
    BY <1>2, <2>1
  <2>3. incarnation = 0 /\ epoch = 0 /\ \A k \in Secret : vault[k] = 0
    BY DEF Init
  <2>4. \A c \in Client : pc[c] \notin {"loaded", "checked"}
    BY <1>2
  <2>5. \A c \in Client : /\ job[c].incarnation <= incarnation
                          /\ job[c].epoch <= epoch
                          /\ \A k \in Secret : job[c].floor[k] <= vault[k]
    <3> SUFFICES ASSUME NEW c \in Client
                 PROVE  /\ job[c].incarnation <= incarnation
                        /\ job[c].epoch <= epoch
                        /\ \A k \in Secret : job[c].floor[k] <= vault[k]
      OBVIOUS
    <3>1. job[c].incarnation <= incarnation /\ job[c].epoch <= epoch
      BY <2>2, <2>3
    <3>2. ASSUME NEW k \in Secret PROVE job[c].floor[k] <= vault[k]
      <4>1. job[c].floor[k] = 0 /\ vault[k] = 0
        BY <2>2, <2>3
      <4> QED BY <4>1
    <3> QED BY <3>1, <3>2
  <2> QED BY <2>4, <2>5 DEF JobInv, JobOK
<1>6. ValuesInv
  BY <1>2 DEF ValuesInv, ValuesOK
<1>7. CacheInv
  BY DEF Init, CacheInv
<1> QED BY <1>1, <1>3, <1>4, <1>5, <1>6, <1>7 DEF IndInv

\* The numbers and values the invariant compares, by type.
LEMMA Typed ==
    ASSUME TypeOK
    PROVE  /\ incarnation \in Nat /\ epoch \in Nat /\ fullClearEpoch \in Nat
           /\ \A k \in Secret : vault[k] \in Nat /\ cleared[k] \in Nat
                                /\ keyClearEpochs[k] \in Nat
           /\ \A c \in Client : /\ job[c].incarnation \in Nat /\ job[c].epoch \in Nat
                                /\ \A k \in Secret : job[c].floor[k] \in Nat
           /\ \A c \in Client, k \in Secret :
                values[c][k] # None => values[c][k] \in Value
           /\ \A ck \in CacheKey : /\ ck.secret \in Secret
                                   /\ cache[ck] # None => cache[ck] \in Value
           /\ \A v \in Value : v.ver \in Nat /\ v.incarnation \in Nat
<1>1. /\ incarnation \in Nat /\ epoch \in Nat /\ fullClearEpoch \in Nat
      /\ \A k \in Secret : vault[k] \in Nat /\ cleared[k] \in Nat /\ keyClearEpochs[k] \in Nat
  BY DEF TypeOK
<1>2. \A c \in Client : /\ job[c].incarnation \in Nat /\ job[c].epoch \in Nat
                        /\ \A k \in Secret : job[c].floor[k] \in Nat
  BY DEF TypeOK, Job
<1>3. \A c \in Client, k \in Secret : values[c][k] \in Value \union {None}
  BY DEF TypeOK
<1>4. \A ck \in CacheKey : ck.secret \in Secret /\ cache[ck] \in Value \union {None}
  BY DEF TypeOK, CacheKey
<1>5. \A v \in Value : v.ver \in Nat /\ v.incarnation \in Nat
  BY DEF Value
<1> QED BY <1>1, <1>2, <1>3, <1>4, <1>5

\* A step of client c that leaves the vault, the clears and the other clients
\* alone keeps the invariant if it does so for c.
LEMMA LocalStep ==
    ASSUME IndInv, NEW c \in Client,
           UNCHANGED <<vault, cleared, incarnation, epoch, fullClearEpoch, keyClearEpochs>>,
           \A d \in Client \ {c} : /\ pc'[d] = pc[d] /\ job'[d] = job[d]
                                   /\ values'[d] = values[d] /\ req'[d] = req[d],
           requestLock' = requestLock \/ requestLock \in {None, c},
           LockOK(c)', JobOK(c)', ValuesOK(c)'
    PROVE  LockInv' /\ EpochInv' /\ JobInv' /\ ValuesInv'
<1>1. LockInv'
  BY DaemonCacheAssumption DEF IndInv, LockInv, LockOK
<1>2. EpochInv'
  BY DEF IndInv, EpochInv
<1>3. JobInv'
  BY DEF IndInv, JobInv, JobOK, secret_is_cacheable
<1>4. ValuesInv'
  BY DEF IndInv, ValuesInv, ValuesOK, ValueOK, cleared_since, NoValues
<1> QED BY <1>1, <1>2, <1>3, <1>4

\* The cache keeps its invariant while it, the vault and the clears stand still.
LEMMA SameCache ==
    ASSUME IndInv, UNCHANGED <<vault, cleared, incarnation, cache>>
    PROVE  CacheInv'
BY DEF IndInv, CacheInv, EntryOK

\* Rotating a secret only makes versions in the vault newer.
LEMMA RotateInd ==
    ASSUME IndInv, NEW k \in Secret, Rotate(k)
    PROVE  LockInv' /\ EpochInv' /\ JobInv' /\ ValuesInv' /\ CacheInv'
<1> USE DEF daemonVars, clientVars, worldVars
<1>1. TypeOK /\ TypeOK'
  BY TypeStep DEF IndInv, Next
<1>2. \A j \in Secret : vault'[j] \in Nat /\ vault[j] \in Nat /\ vault[j] <= vault'[j]
  BY <1>1 DEF Rotate, TypeOK
<1>3. LockInv'
  BY DEF IndInv, LockInv, LockOK, Rotate
<1>4. EpochInv'
  BY <1>1, <1>2, Typed DEF IndInv, EpochInv, Rotate
<1>5. JobInv'
  BY <1>1, <1>2, Typed DEF IndInv, JobInv, JobOK, Rotate, secret_is_cacheable
<1>6. ValuesInv'
  BY <1>1, <1>2, Typed DEF IndInv, ValuesInv, ValuesOK, ValueOK, Rotate, cleared_since, NoValues
<1>7. CacheInv'
  BY <1>1, <1>2, Typed DEF IndInv, CacheInv, EntryOK, Rotate
<1> QED BY <1>3, <1>4, <1>5, <1>6, <1>7

\* Editing the configuration touches none of the state of the invariant.
LEMMA EditConfigInd ==
    ASSUME IndInv, NEW cfg \in Config, EditConfig(cfg)
    PROVE  LockInv' /\ EpochInv' /\ JobInv' /\ ValuesInv' /\ CacheInv'
BY DEF EditConfig, daemonVars, clientVars, IndInv, LockInv, LockOK, EpochInv, JobInv,
       JobOK, ValuesInv, ValuesOK, ValueOK, CacheInv, EntryOK, cleared_since, secret_is_cacheable, NoValues

\* When the daemon process ends, nothing it handled is in the new process.
LEMMA StopInd ==
    ASSUME IndInv, Stop
    PROVE  LockInv' /\ EpochInv' /\ JobInv' /\ ValuesInv' /\ CacheInv'
<1> USE DEF daemonVars, clientVars, worldVars
<1>1. TypeOK /\ TypeOK'
  BY TypeStep DEF IndInv, Next
<1>2. \A c \in Client :
        /\ pc'[c] \notin InDaemon /\ pc'[c] \notin {"storeQueued", "storing", "resolving"}
        /\ pc'[c] \in NoValuesYet => pc[c] \in NoValuesYet
  BY <1>1 DEF Stop, TypeOK, InDaemon, NoValuesYet
<1>3. incarnation' = incarnation + 1 /\ incarnation \in Nat
  BY <1>1 DEF Stop, TypeOK
<1>4. LockInv'
  BY <1>2 DEF LockInv, LockOK, InDaemon
<1>5. EpochInv'
  BY <1>1 DEF IndInv, EpochInv, Stop
<1>6. JobInv'
  BY <1>1, <1>2, <1>3, Typed DEF IndInv, JobInv, JobOK, Stop, InDaemon
<1>7. ValuesInv'
  BY <1>1, <1>2, <1>3, Typed DEF IndInv, JobInv, JobOK, ValuesInv, ValuesOK,
     ValueOK, Stop, NoValues
<1>8. CacheInv'
  BY DEF CacheInv, Stop
<1> QED BY <1>4, <1>5, <1>6, <1>7, <1>8

\* A clear makes values stale and marks them as cleared at the same instant.
LEMMA ClearInd ==
    ASSUME IndInv, NEW c \in Client, Clear(c)
    PROVE  LockInv' /\ EpochInv' /\ JobInv' /\ ValuesInv' /\ CacheInv'
<1> USE DEF daemonVars, clientVars, worldVars
<1>1. TypeOK /\ TypeOK'
  BY TypeStep DEF IndInv, Next
<1>2. /\ pc[c] = "clear" /\ pc'[c] \in {"send", "done", "failed"}
      /\ \A d \in Client \ {c} : pc'[d] = pc[d]
      /\ job' = job /\ values' = values /\ req' = req /\ requestLock' = requestLock
  BY <1>1 DEF Clear, TypeOK
<1>3. values[c] = NoValues
  BY <1>2 DEF IndInv, ValuesInv, ValuesOK, NoValuesYet
<1>4. CASE ~alive
  <2>1. UNCHANGED <<vault, cleared, incarnation, epoch, fullClearEpoch, keyClearEpochs, cache>>
    BY <1>4 DEF Clear
  <2>2. LockOK(c)'
    BY <1>2 DEF LockOK, InDaemon
  <2>3. JobOK(c)'
    BY <1>2, <2>1 DEF IndInv, JobInv, JobOK
  <2>4. ValuesOK(c)'
    BY <1>2, <1>3 DEF ValuesOK, NoValues
  <2> QED BY <1>2, <2>1, <2>2, <2>3, <2>4, LocalStep, SameCache
<1>5. CASE alive
  <2>1. /\ requestLock = None /\ ClearState(req[c].evict)
        /\ UNCHANGED <<vault, incarnation>>
    BY <1>5 DEF Clear, ClearState
  <2>2. \A d \in Client : pc[d] \notin InDaemon
    BY <2>1, DaemonCacheAssumption DEF IndInv, LockInv, LockOK
  <2>3. epoch' = epoch + 1 /\ epoch \in Nat
    BY <1>1, <2>1 DEF ClearState, TypeOK
  <2>4. \A k \in Secret :
          /\ cleared'[k] \in Nat /\ cleared[k] \in Nat /\ vault[k] \in Nat
          /\ cleared[k] <= cleared'[k] /\ cleared'[k] <= vault[k]
    BY <1>1, <2>1 DEF ClearState, TypeOK, IndInv, EpochInv
  <2>5. \A k \in Secret : \/ cleared'[k] = cleared[k]
                          \/ fullClearEpoch' = epoch'
                          \/ keyClearEpochs'[k] = epoch'
    BY <2>1 DEF ClearState
  <2>6. /\ fullClearEpoch' = fullClearEpoch \/ fullClearEpoch' = epoch'
        /\ \A k \in Secret : \/ keyClearEpochs'[k] = keyClearEpochs[k]
                             \/ keyClearEpochs'[k] = epoch'
                             \/ keyClearEpochs'[k] = 0 /\ fullClearEpoch' = epoch'
    BY <2>1 DEF ClearState
  <2>7. LockInv'
    BY <1>2, <2>2 DEF LockInv, LockOK, InDaemon
  <2>8. EpochInv'
    BY <1>1, <2>1, <2>3, <2>4, <2>6, Typed DEF IndInv, EpochInv
  <2>9. JobInv'
    <3> SUFFICES ASSUME NEW d \in Client PROVE JobOK(d)'
      BY DEF JobInv
    <3>1. JobOK(d) /\ pc'[d] \notin {"loaded", "checked"}
      BY <1>2, <2>2 DEF IndInv, JobInv, InDaemon
    <3> QED BY <1>1, <1>2, <2>1, <2>3, <3>1, Typed DEF JobOK
  <2>10. ValuesInv'
    <3> SUFFICES ASSUME NEW d \in Client PROVE ValuesOK(d)'
      BY DEF ValuesInv
    <3>1. CASE d = c
      BY <1>2, <1>3, <3>1 DEF ValuesOK, NoValues
    <3>2. CASE d # c
      <4>1. pc'[d] = pc[d] /\ ValuesOK(d) /\ JobOK(d) /\ pc[d] # "resolving"
        BY <1>2, <2>2, <3>2 DEF IndInv, ValuesInv, JobInv, InDaemon
      <4>2. ASSUME NEW k \in Secret, values[d][k] # None
            PROVE  ValueOK(d, k, values[d][k])'
        <5> DEFINE v == values[d][k]
        <5>1. ValueOK(d, k, v)
          BY <4>1, <4>2 DEF ValuesOK
        <5>2. /\ v.ver \in Nat /\ v.incarnation \in Nat
              /\ job[d].incarnation \in Nat /\ job[d].epoch \in Nat
              /\ fullClearEpoch \in Nat /\ keyClearEpochs[k] \in Nat /\ incarnation \in Nat
          BY <1>1, <4>2, Typed
        <5>3. v.incarnation = incarnation => job[d].epoch < epoch'
          BY <2>3, <4>1, <5>1, <5>2 DEF ValueOK, JobOK
        <5>4. v.incarnation = incarnation /\ cleared_since(k, job[d].epoch)
                => cleared_since(k, job[d].epoch)'
          BY <1>2, <2>6, <5>2, <5>3 DEF cleared_since
        <5>5. v.incarnation = incarnation /\ cleared'[k] # cleared[k]
                => cleared_since(k, job[d].epoch)'
          BY <1>2, <2>5, <5>3 DEF cleared_since
        <5> QED BY <1>2, <2>1, <4>1, <5>1, <5>4, <5>5 DEF ValueOK
      <4> QED BY <1>2, <4>1, <4>2 DEF ValuesOK, NoValues
    <3> QED BY <3>1, <3>2
  <2>11. CacheInv'
    <3>1. req[c].evict \in SUBSET Secret
      BY <1>1 DEF TypeOK, Request
    <3>2. \A ck \in CacheKey :
            cache'[ck] # None => cache'[ck] = cache[ck] /\ cleared'[ck.secret] = cleared[ck.secret]
      BY <1>1, <2>1, <3>1, Typed DEF ClearState
    <3> QED BY <2>1, <3>2 DEF IndInv, CacheInv, EntryOK
  <2> QED BY <2>7, <2>8, <2>9, <2>10, <2>11
<1> QED BY <1>4, <1>5

\* The steps of a client, and of its request in the daemon, that neither clear
\* nor fill the cache.
LEMMA ClientInd ==
    ASSUME IndInv, NEW c \in Client,
           \/ \E o \in Operations : Begin(c, o)
           \/ Return(c) \/ Send(c) \/ Load(c) \/ SendStore(c) \/ StoreLoad(c) \/ ResolveFail(c)
    PROVE  LockInv' /\ EpochInv' /\ JobInv' /\ ValuesInv' /\ CacheInv'
<1> USE DEF daemonVars, clientVars, worldVars
<1>1. TypeOK /\ TypeOK'
  BY TypeStep DEF IndInv, Next
<1>2. /\ UNCHANGED <<vault, cleared, incarnation, epoch, fullClearEpoch, keyClearEpochs, cache>>
      /\ \A d \in Client \ {c} : /\ pc'[d] = pc[d] /\ job'[d] = job[d]
                                 /\ values'[d] = values[d] /\ req'[d] = req[d]
  BY <1>1 DEF TypeOK, Begin, Return, Send, Listen, Load, SendStore, StoreLoad, ResolveFail
<1>3. LockOK(c) /\ JobOK(c) /\ ValuesOK(c)
  BY DEF IndInv, LockInv, JobInv, ValuesInv
<1>4. requestLock' = requestLock \/ requestLock \in {None, c}
  BY <1>3 DEF Begin, Return, Send, Load, SendStore, StoreLoad, ResolveFail, LockOK, InDaemon
<1>5. SUFFICES LockOK(c)' /\ JobOK(c)' /\ ValuesOK(c)'
  BY <1>2, <1>4, LocalStep, SameCache
<1>6. ASSUME NEW o \in Operations, Begin(c, o) PROVE LockOK(c)' /\ JobOK(c)' /\ ValuesOK(c)'
  <2>1. /\ pc[c] = "idle" /\ pc'[c] \in {"clear", "send"}
        /\ job' = job /\ values' = values
    BY <1>1, <1>6 DEF Begin, TypeOK
  <2> QED BY <1>2, <1>3, <2>1 DEF LockOK, JobOK, ValuesOK, ValueOK, InDaemon, NoValuesYet, NoValues
<1>7. CASE Return(c)
  <2>1. pc'[c] = "idle" /\ job'[c] = NoJob(req[c].cfg) /\ values'[c] = NoValues
    BY <1>1, <1>7 DEF Return, TypeOK
  <2>2. /\ job'[c].incarnation = 0 /\ job'[c].epoch = 0
        /\ \A k \in Secret : job'[c].floor[k] = 0
    BY <2>1 DEF NoJob
  <2>3. JobOK(c)'
    <3>1. job'[c].incarnation <= incarnation' /\ job'[c].epoch <= epoch'
      BY <1>1, <2>2, Typed, <1>2
    <3>2. \A k \in Secret : job'[c].floor[k] <= vault'[k]
      BY <1>1, <1>2, <2>2, Typed
    <3> QED BY <2>1, <3>1, <3>2 DEF JobOK
  <2> QED BY <2>1, <2>3 DEF LockOK, ValuesOK, InDaemon, NoValues
<1>8. CASE Send(c)
  <2>1. /\ pc[c] = "send" /\ pc'[c] \in {"queued", "failed"}
        /\ job' = job /\ values' = values
    BY <1>1, <1>8 DEF Send, TypeOK
  <2> QED BY <1>2, <1>3, <2>1 DEF LockOK, JobOK, ValuesOK, ValueOK, InDaemon, NoValuesYet, NoValues
<1>9. CASE Load(c)
  <2>1. /\ pc[c] = "queued" /\ values' = values /\ req' = req
        /\ \/ pc'[c] = "loaded" /\ requestLock' = c
           \/ pc'[c] = "failed"
    BY <1>1, <1>9 DEF Load, TypeOK
  <2>2. /\ job'[c].loaded = config /\ job'[c].epoch = epoch
        /\ job'[c].incarnation = incarnation /\ job'[c].floor = Floor(req[c].ctx)
    BY <1>1, <1>9 DEF Load, TypeOK
  <2>3. \A k \in Secret : /\ Floor(req[c].ctx)[k] <= vault[k]
                          /\ secret_is_cacheable(config, k, req[c].ctx)
                               => Floor(req[c].ctx)[k] <= cleared[k]
    BY <1>1, Typed DEF Floor, secret_is_cacheable, IndInv, EpochInv
  <2>4. LockOK(c)'
    BY <1>2, <2>1, <2>2 DEF LockOK, InDaemon
  <2>5. JobOK(c)'
    BY <1>1, <1>2, <2>1, <2>2, <2>3, Typed DEF JobOK, secret_is_cacheable
  <2>6. ValuesOK(c)'
    BY <1>3, <2>1 DEF ValuesOK, NoValuesYet, NoValues
  <2> QED BY <2>4, <2>5, <2>6
<1>10. CASE SendStore(c)
  <2>1. /\ pc[c] = "foreground" /\ pc'[c] = "storeQueued"
        /\ job' = job /\ values' = values
    BY <1>1, <1>10 DEF SendStore, TypeOK
  <2> QED BY <1>2, <1>3, <2>1
          DEF LockOK, JobOK, ValuesOK, ValueOK, InDaemon, NoValuesYet, NoValues, cleared_since
<1>11. CASE StoreLoad(c)
  <2>1. /\ pc[c] = "storeQueued" /\ values' = values
        /\ \/ pc'[c] = "storing" /\ requestLock' = c
           \/ pc'[c] = "done"
    BY <1>1, <1>11 DEF StoreLoad, TypeOK
  <2>2. /\ job'[c].incarnation = job[c].incarnation /\ job'[c].epoch = job[c].epoch
        /\ job'[c].floor = job[c].floor
    BY <1>1, <1>11 DEF StoreLoad, TypeOK, Job
  <2> QED BY <1>2, <1>3, <2>1, <2>2
          DEF LockOK, JobOK, ValuesOK, ValueOK, InDaemon, NoValuesYet, NoValues, cleared_since
<1>12. CASE ResolveFail(c)
  <2>1. /\ pc[c] \in {"resolving", "foreground"} /\ pc'[c] = "failed"
        /\ job' = job /\ values' = values
    BY <1>1, <1>12 DEF ResolveFail, TypeOK
  <2> QED BY <1>2, <1>3, <2>1 DEF LockOK, JobOK, ValuesOK, ValueOK, InDaemon, NoValuesYet, NoValues
<1> QED BY <1>6, <1>7, <1>8, <1>9, <1>10, <1>11, <1>12

\* A cached value that a handler takes for its request is good in the request's
\* hands, whether it goes on resolving or is sent to the foreground.
LEMMA HitOK ==
    ASSUME IndInv, NEW c \in Client, NEW k \in Secret, pc[c] \in {"loaded", "checked"},
           Cached(c, config, k) # None
    PROVE  LET v == Cached(c, config, k)
           IN  /\ v \in Value
               /\ v.ver <= vault[k]
               /\ v.incarnation <= job[c].incarnation
               /\ v.incarnation = incarnation => v.ver >= cleared[k]
               /\ v.incarnation = job[c].incarnation => v.ver >= job[c].floor[k]
<1> DEFINE v == Cached(c, config, k)
<1>1. TypeOK /\ config \in Config
  BY DEF IndInv, TypeOK
<1>2. v \in Value
  BY <1>1, CachedEntry
<1>3. PICK ck \in CacheKey : /\ ck.secret = k /\ cache[ck] = v
                             /\ secret_is_cacheable(job[c].loaded, k, req[c].ctx)
  BY <1>1, CachedEntry
<1>4. EntryOK(ck, v)
  BY <1>3 DEF IndInv, CacheInv
<1>5. job[c].incarnation = incarnation /\ job[c].floor[k] <= cleared[k]
  BY <1>3 DEF IndInv, LockInv, LockOK, JobInv, JobOK
<1>6. v.ver \in Nat /\ cleared[k] \in Nat /\ job[c].floor[k] \in Nat
  BY <1>1, <1>2, Typed
<1> QED BY <1>2, <1>3, <1>4, <1>5, <1>6 DEF EntryOK

\* The three lookups hand out only cached values that are not stale.
LEMMA LookupInd ==
    ASSUME IndInv, NEW c \in Client,
           ForegroundCheck(c) \/ CacheLookup(c) \/ EnvLookup(c)
    PROVE  LockInv' /\ EpochInv' /\ JobInv' /\ ValuesInv' /\ CacheInv'
<1> USE DEF daemonVars, clientVars, worldVars
<1>1. TypeOK /\ TypeOK'
  BY TypeStep DEF IndInv, Next, Handle
<1>2. /\ UNCHANGED <<vault, cleared, incarnation, epoch, fullClearEpoch, keyClearEpochs, cache>>
      /\ \A d \in Client \ {c} : /\ pc'[d] = pc[d] /\ job'[d] = job[d]
                                 /\ values'[d] = values[d] /\ req'[d] = req[d]
  BY <1>1 DEF TypeOK, ForegroundCheck, CacheLookup, EnvLookup, Answer
<1>3. LockOK(c) /\ JobOK(c) /\ ValuesOK(c)
  BY DEF IndInv, LockInv, JobInv, ValuesInv
<1>4. pc[c] \in {"loaded", "checked"} /\ requestLock = c
  BY <1>3 DEF ForegroundCheck, CacheLookup, EnvLookup, LockOK, InDaemon
<1>5. SUFFICES LockOK(c)' /\ JobOK(c)' /\ ValuesOK(c)'
  BY <1>2, <1>4, LocalStep, SameCache
<1>6. /\ job'[c].incarnation = job[c].incarnation /\ job'[c].floor = job[c].floor
      /\ job'[c].loaded = job[c].loaded /\ req' = req
      /\ job'[c].epoch = job[c].epoch \/ job'[c].epoch = epoch
  BY <1>1 DEF ForegroundCheck, CacheLookup, EnvLookup, Answer, TypeOK, Job, Told
<1>7. /\ pc'[c] \in {"checked", "foreground", "resolving", "done", "failed"}
      /\ pc'[c] \in {"checked", "resolving"} => requestLock' = c
      /\ pc'[c] = "checked" => values' = values
  BY <1>1, <1>4 DEF ForegroundCheck, CacheLookup, EnvLookup, Answer, TypeOK
<1>8. \A k \in Secret : \/ values'[c][k] = values[c][k]
                        \/ values'[c][k] = None
                        \/ values'[c][k] = Cached(c, config, k)
  BY <1>1 DEF ForegroundCheck, CacheLookup, EnvLookup, Answer, TypeOK, NoValues
<1>9. LockOK(c)'
  BY <1>2, <1>3, <1>4, <1>6, <1>7 DEF LockOK, InDaemon
<1>10. JobOK(c)'
  BY <1>1, <1>2, <1>3, <1>4, <1>6, <1>7, Typed DEF JobOK, secret_is_cacheable
<1>11. ValuesOK(c)'
  <2>1. values[c] = NoValues /\ \A k \in Secret : values[c][k] = None
    BY <1>3, <1>4 DEF ValuesOK, NoValuesYet, NoValues
  <2>2. pc'[c] \in NoValuesYet => values'[c] = NoValues
    BY <1>7, <2>1 DEF NoValuesYet
  <2>3. ASSUME NEW k \in Secret, values'[c][k] # None
        PROVE  ValueOK(c, k, values[c][k])'
    <3>1. values'[c][k] = Cached(c, config, k)
      BY <1>8, <2>1, <2>3
    <3> QED BY <1>2, <1>4, <1>6, <2>3, <3>1, HitOK DEF ValueOK
  <2> QED BY <2>2, <2>3 DEF ValuesOK, NoValues
<1> QED BY <1>9, <1>10, <1>11

\* A provider read gives the current version, which no clear has made stale.
LEMMA ProviderReadInd ==
    ASSUME IndInv, NEW c \in Client, NEW k \in Secret, ProviderRead(c, k)
    PROVE  LockInv' /\ EpochInv' /\ JobInv' /\ ValuesInv' /\ CacheInv'
<1> USE DEF daemonVars, clientVars, worldVars
<1>1. TypeOK
  BY DEF IndInv
<1>2. /\ UNCHANGED <<vault, cleared, incarnation, epoch, fullClearEpoch, keyClearEpochs, cache,
                     pc, job, req, requestLock>>
      /\ \A d \in Client \ {c} : values'[d] = values[d]
      /\ \A j \in Secret \ {k} : values'[c][j] = values[c][j]
      /\ pc[c] \in {"resolving", "foreground"}
  BY <1>1 DEF ProviderRead, TypeOK
<1>3. LockOK(c) /\ JobOK(c) /\ ValuesOK(c)
  BY DEF IndInv, LockInv, JobInv, ValuesInv
<1>4. LockOK(c)' /\ JobOK(c)'
  BY <1>2, <1>3 DEF LockOK, JobOK, secret_is_cacheable
<1>5. job[c].loaded \in Config /\ req[c].cfg \in Config
  BY <1>1 DEF TypeOK, Job, Request
<1>6. PICK cfg \in Config :
        values'[c][k] = values[c][k] \/ values'[c][k] = Read(c, cfg, k)
  BY <1>1, <1>5 DEF ProviderRead, TypeOK
<1>7. /\ Read(c, cfg, k).ver = vault[k]
      /\ Read(c, cfg, k).incarnation = job[c].incarnation
  BY <1>1, ReadType
<1>8. /\ vault[k] \in Nat /\ cleared[k] \in Nat /\ job[c].floor[k] \in Nat
      /\ job[c].incarnation \in Nat
      /\ cleared[k] <= vault[k] /\ job[c].floor[k] <= vault[k]
  BY <1>1, <1>3, Typed DEF JobOK, IndInv, EpochInv
<1>9. ASSUME NEW j \in Secret, values'[c][j] # None
      PROVE  ValueOK(c, j, values[c][j])'
  <2>1. CASE values'[c][j] = values[c][j]
    BY <1>2, <1>3, <1>9, <2>1 DEF ValuesOK, ValueOK, cleared_since
  <2>2. CASE j = k /\ values'[c][j] = Read(c, cfg, k)
    BY <1>2, <1>7, <1>8, <2>2 DEF ValueOK
  <2> QED BY <1>2, <1>6, <2>1, <2>2
<1>10. ValuesOK(c)'
  BY <1>2, <1>9 DEF ValuesOK, NoValuesYet
<1> QED BY <1>2, <1>4, <1>10, LocalStep, SameCache

\* ResolveFinish and StoreResolved put into the cache only values that no clear
\* of this process has made stale.
LEMMA FillInd ==
    ASSUME IndInv, NEW c \in Client, ResolveFinish(c) \/ StoreResolved(c)
    PROVE  LockInv' /\ EpochInv' /\ JobInv' /\ ValuesInv' /\ CacheInv'
<1> USE DEF daemonVars, clientVars, worldVars
<1>1. TypeOK /\ TypeOK' /\ config \in Config /\ job[c].fingerprint \in Config
  BY TypeStep DEF IndInv, Next, Handle, TypeOK, Job
<1>2. /\ UNCHANGED <<vault, cleared, incarnation, epoch, fullClearEpoch, keyClearEpochs, job, req>>
      /\ \A d \in Client \ {c} : pc'[d] = pc[d]
      /\ pc[c] \in {"resolving", "storing"} /\ pc'[c] = "done" /\ values' = values
  BY <1>1 DEF ResolveFinish, StoreResolved, Answer, TypeOK
<1>3. LockOK(c) /\ JobOK(c) /\ ValuesOK(c)
  BY DEF IndInv, LockInv, JobInv, ValuesInv
<1>4. requestLock = c
  BY <1>2, <1>3 DEF LockOK, InDaemon
<1>5. LockOK(c)' /\ JobOK(c)' /\ ValuesOK(c)'
  BY <1>2, <1>3 DEF LockOK, JobOK, ValuesOK, ValueOK, InDaemon, NoValuesYet
<1>6. LockInv' /\ EpochInv' /\ JobInv' /\ ValuesInv'
  BY <1>2, <1>4, <1>5, LocalStep
<1>7. PICK fingerprint \in Config, K \in SUBSET Secret :
        /\ cache' = cache \/ cache' = Filled(c, fingerprint, K)
        /\ pc[c] = "storing" => \A k \in K : ~cleared_since(k, job[c].epoch)
  <2>1. CASE ResolveFinish(c)
    BY <1>1, <2>1, SelectedType DEF ResolveFinish
  <2>2. CASE StoreResolved(c)
    <3> DEFINE K == {k \in Selected(c) : ~cleared_since(k, job[c].epoch)}
    <3>1. K \in SUBSET Secret /\ \A k \in K : ~cleared_since(k, job[c].epoch)
      BY <1>1, SelectedType
    <3>2. cache' = cache \/ cache' = Filled(c, config, K)
      BY <2>2 DEF StoreResolved
    <3> HIDE DEF K
    <3> QED BY <1>1, <3>1, <3>2
  <2> QED BY <2>1, <2>2
<1>8. CacheInv'
  <2> SUFFICES ASSUME NEW ck \in CacheKey, cache'[ck] # None
               PROVE  EntryOK(ck, cache[ck])'
    BY DEF CacheInv
  <2>1. CASE cache'[ck] = cache[ck]
    BY <1>2, <2>1 DEF IndInv, CacheInv, EntryOK
  <2>2. CASE cache'[ck] # cache[ck]
    <3>1. /\ ck.secret \in K /\ values[c][ck.secret] # None
          /\ cache'[ck] = values[c][ck.secret]
      BY <1>1, <1>7, <2>2, FilledEntry
    <3>2. ValueOK(c, ck.secret, cache'[ck])
      BY <1>3, <3>1 DEF ValuesOK
    <3>3. cache'[ck].incarnation = incarnation => cache'[ck].ver >= cleared[ck.secret]
      BY <1>2, <1>7, <3>1, <3>2 DEF ValueOK
    <3>4. cache'[ck].incarnation <= incarnation
      <4>1. cache'[ck] \in Value /\ job[c].incarnation \in Nat
        BY <1>1, <3>1, Typed
      <4> QED BY <1>1, <1>3, <3>2, <4>1, Typed DEF ValueOK, JobOK
    <3> QED BY <1>2, <3>2, <3>3, <3>4 DEF EntryOK, ValueOK
  <2> QED BY <2>1, <2>2
<1> QED BY <1>6, <1>8

\* Every step preserves the inductive invariant.
LEMMA IndStep == IndInv /\ [Next]_vars => IndInv'
<1> SUFFICES ASSUME IndInv, [Next]_vars PROVE IndInv'
  OBVIOUS
<1>1. TypeOK'
  BY TypeStep DEF IndInv
<1>2. SUFFICES LockInv' /\ EpochInv' /\ JobInv' /\ ValuesInv' /\ CacheInv'
  BY <1>1 DEF IndInv
<1>3. CASE UNCHANGED vars
  BY <1>3 DEF vars, IndInv, LockInv, LockOK, EpochInv, JobInv, JobOK, ValuesInv, ValuesOK,
     ValueOK, CacheInv, EntryOK, cleared_since, secret_is_cacheable, NoValues
<1> QED
  BY <1>3, RotateInd, EditConfigInd, StopInd, ClearInd, ClientInd, LookupInd,
     ProviderReadInd, FillInd DEF Next, Handle

\* The inductive invariant holds in every reachable state.
THEOREM IndCorrect == Spec => []IndInv
BY IndInit, IndStep, PTL DEF Spec

\* A clear is final for the daemon process that handled it: no interleaving of
\* foreground resolutions, write-backs, keyed and full clears and rotations
\* leaves an entry older than the last clear of its secret.
THEOREM NoStaleEntryCorrect == Spec => []NoStaleEntry
<1>1. IndInv => NoStaleEntry
  BY DEF IndInv, CacheInv, EntryOK, NoStaleEntry
<1> QED BY <1>1, IndCorrect, PTL

\* A request is never answered with a value from before the last clear that the
\* daemon had handled, nor an excluded secret with a value from before the request.
THEOREM FreshAnswerCorrect == Spec => []FreshAnswer
<1>1. IndInv => FreshAnswer
  BY DEF IndInv, ValuesInv, ValuesOK, ValueOK, FreshAnswer
<1> QED BY <1>1, IndCorrect, PTL

----------------------------------------------------------------------------
(* Entries are found only under the key they were resolved for. *)

\* A step that stores nothing keeps OriginInv when the one client it touches
\* keeps OriginOK.
LEMMA OriginLocal ==
    ASSUME OriginInv, IndInv', NEW c \in Client, UNCHANGED cache, OriginOK(c)',
           \A d \in Client \ {c} :
               /\ pc'[d] = pc[d] /\ job'[d] = job[d]
               /\ values'[d] = values[d] /\ req'[d] = req[d]
    PROVE  OriginInv'
BY DEF OriginInv, OriginOK, ResolvedAsKeyed, ResolvedAs

\* A cached value that a handler takes fits the fingerprint it computed.
LEMMA OriginHit ==
    ASSUME OriginInv, NEW c \in Client, NEW k \in Secret, Cached(c, config, k) # None
    PROVE  ResolvedAs(Cached(c, config, k), config, req[c].ctx)
<1>1. TypeOK /\ config \in Config
  BY DEF OriginInv, IndInv, TypeOK
<1>2. PICK ck \in CacheKey : /\ ck.fingerprint = config /\ ck.ctx = req[c].ctx
                             /\ cache[ck] = Cached(c, config, k)
  BY <1>1, CachedEntry
<1> QED BY <1>2 DEF OriginInv, ResolvedAsKeyed

\* Lookups, provider reads, stores and every other step preserve OriginInv.
LEMMA OriginStep == OriginInv /\ [Next]_vars => OriginInv'
<1> SUFFICES ASSUME OriginInv, [Next]_vars PROVE OriginInv'
  OBVIOUS
<1> USE DEF daemonVars, clientVars, worldVars
<1>1. IndInv /\ IndInv' /\ TypeOK /\ TypeOK'
  BY IndStep DEF OriginInv, IndInv
<1>2. CASE \/ UNCHANGED vars
           \/ \E k \in Secret : Rotate(k)
           \/ \E cfg \in Config : EditConfig(cfg)
  <2>1. UNCHANGED <<cache, pc, job, values, req>>
    BY <1>2 DEF vars, Rotate, EditConfig
  <2> QED BY <1>1, <2>1 DEF OriginInv, OriginOK, ResolvedAsKeyed, ResolvedAs
<1>3. CASE Stop
  <2>1. ResolvedAsKeyed'
    BY <1>3 DEF Stop, ResolvedAsKeyed
  <2>2. ASSUME NEW c \in Client PROVE OriginOK(c)'
    <3>1. pc'[c] = pc[c] \/ pc'[c] \in {"done", "failed"}
      BY <1>3 DEF Stop
    <3> QED BY <1>3, <3>1 DEF Stop, OriginInv, OriginOK, ResolvedAs
  <2> QED BY <1>1, <2>1, <2>2 DEF OriginInv
<1>4. ASSUME NEW c \in Client,
             \/ \E o \in Operations : Begin(c, o)
             \/ Return(c) \/ Send(c) \/ Load(c)
      PROVE  OriginInv'
  <2>1. /\ UNCHANGED cache /\ pc'[c] \in {"idle", "clear", "send", "queued", "loaded", "failed"}
        /\ \A d \in Client \ {c} : /\ pc'[d] = pc[d] /\ job'[d] = job[d]
                                   /\ values'[d] = values[d] /\ req'[d] = req[d]
    BY <1>1, <1>4 DEF Begin, Return, Send, Listen, Load, TypeOK
  <2> QED BY <1>1, <2>1, OriginLocal DEF OriginOK
<1>5. ASSUME NEW c \in Client, Clear(c) PROVE OriginInv'
  <2>1. \A ck \in CacheKey : cache'[ck] = cache[ck] \/ cache'[ck] = None
    BY <1>1, <1>5 DEF Clear, ClearState
  <2>2. /\ UNCHANGED <<job, values, req>>
        /\ pc'[c] \in {"done", "failed", "send"}
        /\ \A d \in Client \ {c} : pc'[d] = pc[d]
    BY <1>1, <1>5 DEF Clear, TypeOK
  <2>3. ResolvedAsKeyed'
    BY <2>1 DEF OriginInv, ResolvedAsKeyed, ResolvedAs
  <2>4. \A d \in Client : OriginOK(d)'
    BY <2>2 DEF OriginInv, OriginOK, ResolvedAs
  <2> QED BY <1>1, <2>3, <2>4 DEF OriginInv
<1>6. ASSUME NEW c \in Client, ResolveFail(c) \/ SendStore(c) \/ StoreLoad(c) PROVE OriginInv'
  <2>1. /\ UNCHANGED <<cache, values, req>>
        /\ job'[c].fingerprint = job[c].fingerprint
        /\ \/ pc'[c] \in {"failed", "done"}
           \/ pc[c] \in {"foreground", "storeQueued"}
        /\ \A d \in Client \ {c} : pc'[d] = pc[d] /\ job'[d] = job[d]
    BY <1>1, <1>6 DEF ResolveFail, SendStore, Listen, StoreLoad, TypeOK, Job
  <2>2. OriginOK(c)'
    BY <2>1 DEF OriginInv, OriginOK, ResolvedAs
  <2> QED BY <1>1, <2>1, <2>2, OriginLocal
<1>7. ASSUME NEW c \in Client, ForegroundCheck(c) \/ CacheLookup(c) \/ EnvLookup(c)
      PROVE  OriginInv'
  <2>1. /\ UNCHANGED <<cache, req>>
        /\ \A d \in Client \ {c} : /\ pc'[d] = pc[d] /\ job'[d] = job[d]
                                   /\ values'[d] = values[d]
    BY <1>1, <1>7 DEF ForegroundCheck, CacheLookup, EnvLookup, Answer, TypeOK
  <2>2. CASE pc'[c] \in {"checked", "done", "failed"}
    BY <1>1, <2>1, <2>2, OriginLocal DEF OriginOK
  <2>3. CASE pc'[c] \notin {"checked", "done", "failed"}
    <3>1. /\ job'[c].fingerprint = config
          /\ \A k \in Secret : \/ values'[c][k] = None
                               \/ values'[c][k] = Cached(c, config, k)
      BY <1>1, <1>7, <2>3 DEF ForegroundCheck, CacheLookup, EnvLookup, Answer, TypeOK, Told
    <3>2. \A k \in Secret : values'[c][k] # None => ResolvedAs(values'[c][k], config, req[c].ctx)
      BY <3>1, OriginHit
    <3>3. OriginOK(c)'
      BY <2>1, <3>1, <3>2 DEF OriginOK, ResolvedAs
    <3> QED BY <1>1, <2>1, <3>3, OriginLocal
  <2> QED BY <2>2, <2>3
<1>8. ASSUME NEW c \in Client, NEW k \in Secret, ProviderRead(c, k) PROVE OriginInv'
  <2>1. /\ UNCHANGED <<cache, req, job, pc>>
        /\ pc[c] \in {"resolving", "foreground"}
        /\ \A d \in Client \ {c} : values'[d] = values[d]
    BY <1>1, <1>8 DEF ProviderRead, TypeOK
  <2>2. \A q \in Secret : \/ values'[c][q] = values[c][q]
                          \/ \E cfg \in Config : values'[c][q] = Read(c, cfg, k)
    BY <1>1, <1>8 DEF ProviderRead, TypeOK, Job, Request
  <2>3. \A cfg : ResolvedAs(Read(c, cfg, k), job[c].fingerprint, req[c].ctx)
    BY DEF Read, ResolvedAs
  <2>4. OriginOK(c)
    BY DEF OriginInv
  <2>5. \A q \in Secret : values'[c][q] # None
                            => ResolvedAs(values'[c][q], job[c].fingerprint, req[c].ctx)
    BY <2>1, <2>2, <2>3, <2>4 DEF OriginOK
  <2>6. OriginOK(c)'
    BY <2>1, <2>5 DEF OriginOK, ResolvedAs
  <2> QED BY <1>1, <2>1, <2>6, OriginLocal
<1>9. ASSUME NEW c \in Client, ResolveFinish(c) \/ StoreResolved(c) PROVE OriginInv'
  <2>1. /\ UNCHANGED <<req, job, pending>> /\ pc'[c] = "done" /\ pc[c] \in {"resolving", "storing"}
        /\ \A d \in Client \ {c} : pc'[d] = pc[d] /\ values'[d] = values[d]
    BY <1>1, <1>9 DEF ResolveFinish, StoreResolved, Answer, TypeOK
  <2>2. \A d \in Client : OriginOK(d)'
    BY <2>1 DEF OriginInv, OriginOK, ResolvedAs
  <2>3. PICK K \in SUBSET Secret :
            cache' = cache \/ cache' = Filled(c, job[c].fingerprint, K)
    <3>1. CASE ResolveFinish(c)
      BY <1>1, <3>1, SelectedType DEF ResolveFinish
    <3>2. CASE StoreResolved(c)
      <4> DEFINE K == {k \in Selected(c) : ~cleared_since(k, job[c].epoch)}
      <4>1. K \in SUBSET Secret
        BY <1>1, SelectedType
      <4>2. cache' = cache \/ cache' = Filled(c, job[c].fingerprint, K)
        BY <3>2 DEF StoreResolved
      <4> HIDE DEF K
      <4> QED BY <4>1, <4>2
    <3> QED BY <1>9, <3>1, <3>2
  <2>4. job[c].fingerprint \in Config /\ OriginOK(c)
    BY <1>1 DEF TypeOK, Job, OriginInv
  <2>5. ASSUME NEW ck \in CacheKey, cache'[ck] # None
        PROVE  ResolvedAs(cache'[ck], ck.fingerprint, ck.ctx)
    <3>1. CASE cache'[ck] = cache[ck]
      BY <2>5, <3>1 DEF OriginInv, ResolvedAsKeyed
    <3>2. CASE cache'[ck] # cache[ck]
      <4>1. /\ ck.secret \in Secret /\ ck.fingerprint = job[c].fingerprint /\ ck.ctx = req[c].ctx
            /\ cache'[ck] = values[c][ck.secret]
        BY <1>1, <2>3, <2>4, <3>2, FilledEntry
      <4> QED BY <2>1, <2>4, <2>5, <4>1 DEF OriginOK
    <3> QED BY <3>1, <3>2
  <2>6. ResolvedAsKeyed'
    BY <2>5 DEF ResolvedAsKeyed, ResolvedAs
  <2> QED BY <1>1, <2>2, <2>6 DEF OriginInv
<1> QED
  BY <1>2, <1>3, <1>4, <1>5, <1>6, <1>7, <1>8, <1>9 DEF Next, Handle

\* Whatever a value passes through, it is only ever found under the context and
\* the configuration fingerprint it was resolved for.
THEOREM ResolvedAsKeyedCorrect == Spec => []ResolvedAsKeyed
<1>1. Init => OriginInv
  BY IndInit DEF Init, OriginInv, ResolvedAsKeyed, OriginOK
<1>2. OriginInv => ResolvedAsKeyed
  BY DEF OriginInv
<1> QED BY <1>1, <1>2, OriginStep, PTL DEF Spec

----------------------------------------------------------------------------
(* Refinement. *)

\* The entry of the abstract cache for a concrete one.
Image(v) == IF v = None THEN None ELSE [ver |-> v.ver, generation |-> v.incarnation]

\* A step that leaves vault, clears, process and cache alone is no abstract step.
LEMMA AbsStutter ==
    ASSUME UNCHANGED <<vault, cleared, incarnation, cache>>
    PROVE  UNCHANGED Abs!vars
BY DEF Abs!vars

\* A step that only replaces entries, by entries that are as the invariant says,
\* is a Fill.
LEMMA AbsFill ==
    ASSUME IndInv, IndInv', UNCHANGED <<vault, cleared, incarnation>>,
           \A ck \in CacheKey : cache'[ck] = cache[ck] \/ cache'[ck] # None
    PROVE  Abs!Fill
<1>1. ASSUME NEW ck \in CacheKey, cache'[ck] # None
      PROVE  Abs!Admissible(ck, Image(cache'[ck]))
  <2>1. cache'[ck] \in Value /\ EntryOK(ck, cache[ck])'
    BY <1>1, Typed DEF IndInv, CacheInv, TypeOK
  <2>2. /\ Image(cache'[ck]) \in [ver : Nat, generation : Nat]
        /\ Image(cache'[ck]).ver = cache'[ck].ver
        /\ Image(cache'[ck]).generation = cache'[ck].incarnation
    BY <1>1, <2>1 DEF Image, Value
  <2> QED BY <2>1, <2>2 DEF Abs!Admissible, Abs!Entry, EntryOK
<1>2. \A ck \in CacheKey : Image(cache'[ck]) = Image(cache[ck])
                            \/ Abs!Admissible(ck, Image(cache'[ck]))
  BY <1>1
<1> QED BY <1>2 DEF Abs!Fill, Image

\* A clear handled by a live daemon is one atomic clear of the abstract cache.
LEMMA AbsClear ==
    ASSUME TypeOK, NEW c \in Client, Clear(c), alive
    PROVE  \E K \in SUBSET Secret : Abs!Clear(K)
<1> DEFINE K == IF req[c].evict = {} THEN Secret ELSE req[c].evict
<1>1. K \in SUBSET Secret
  BY DEF TypeOK, Request
<1>2. /\ cleared' = [k \in Secret |-> IF k \in K THEN vault[k] ELSE cleared[k]]
      /\ cache' = [ck \in CacheKey |-> IF ck.secret \in K THEN None ELSE cache[ck]]
      /\ UNCHANGED <<vault, incarnation>>
  BY DEF Clear, ClearState
<1> HIDE DEF K
<1> QED BY <1>1, <1>2 DEF Abs!Clear

\* The end of a daemon process is a restart of the abstract cache.
LEMMA AbsRestart == ASSUME Stop PROVE Abs!Restart
BY DEF Stop, Abs!Restart, Abs!Empty, worldVars

\* The daemon implements the clearable cache: every step of a client, of a
\* handler or of the process is a step of ClearableCache or none at all.
THEOREM Refinement == Spec => RefinesClearableCache
<1>1. Init => Abs!Init
  BY DEF Init, Abs!Init, Abs!Empty
<1>2. ASSUME IndInv, IndInv', [Next]_vars PROVE [Abs!Next]_(Abs!vars)
  <2>1. CASE UNCHANGED vars
    BY <2>1, AbsStutter DEF vars
  <2>2. ASSUME NEW k \in Secret, Rotate(k) PROVE Abs!Rotate(k)
    BY <2>2 DEF Rotate, Abs!Rotate, daemonVars
  <2>3. ASSUME NEW cfg \in Config, EditConfig(cfg) PROVE UNCHANGED Abs!vars
    BY <2>3, AbsStutter DEF EditConfig, daemonVars
  <2>4. ASSUME NEW c \in Client, Clear(c) PROVE Abs!Next \/ UNCHANGED Abs!vars
    <3>1. CASE alive
      BY <1>2, <2>4, <3>1, AbsClear DEF IndInv, Abs!Next
    <3>2. CASE ~alive
      BY <2>4, <3>2, AbsStutter DEF Clear, daemonVars
    <3> QED BY <3>1, <3>2
  <2>5. ASSUME NEW c \in Client, ResolveFinish(c) \/ StoreResolved(c) PROVE Abs!Fill
    <3>1. UNCHANGED <<vault, cleared, incarnation>>
      BY <2>5 DEF ResolveFinish, StoreResolved, worldVars
    <3>2. TypeOK /\ config \in Config /\ job[c].fingerprint \in Config
      BY <1>2 DEF IndInv, TypeOK, Job
    <3>3. PICK fingerprint \in Config, K \in SUBSET Secret :
              cache' = cache \/ cache' = Filled(c, fingerprint, K)
      <4>1. CASE ResolveFinish(c)
        BY <3>2, <4>1, SelectedType DEF ResolveFinish
      <4>2. CASE StoreResolved(c)
        <5> DEFINE K == {k \in Selected(c) : ~cleared_since(k, job[c].epoch)}
        <5>1. K \in SUBSET Secret
          BY <3>2, SelectedType
        <5>2. cache' = cache \/ cache' = Filled(c, config, K)
          BY <4>2 DEF StoreResolved
        <5> HIDE DEF K
        <5> QED BY <3>2, <5>1, <5>2
      <4> QED BY <2>5, <4>1, <4>2
    <3>4. \A ck \in CacheKey : cache'[ck] = cache[ck] \/ cache'[ck] # None
      BY <3>2, <3>3, FilledEntry
    <3> QED BY <1>2, <3>1, <3>4, AbsFill
  <2>6. ASSUME NEW c \in Client,
               \/ \E o \in Operations : Begin(c, o)
               \/ Return(c) \/ Send(c) \/ Load(c) \/ ResolveFail(c) \/ SendStore(c)
               \/ StoreLoad(c) \/ ForegroundCheck(c) \/ CacheLookup(c) \/ EnvLookup(c)
               \/ \E k \in Secret : ProviderRead(c, k)
        PROVE  UNCHANGED Abs!vars
    <3>1. UNCHANGED <<vault, cleared, incarnation, cache>>
      BY <2>6 DEF Begin, Return, Send, Listen, Load, ResolveFail, SendStore, StoreLoad,
         ForegroundCheck, CacheLookup, EnvLookup, ProviderRead, worldVars, daemonVars
    <3> QED BY <3>1, AbsStutter
  <2> QED
    BY <1>2, <2>1, <2>2, <2>3, <2>4, <2>5, <2>6, AbsRestart DEF Next, Handle, Abs!Next
<1> QED BY <1>1, <1>2, IndCorrect, PTL DEF Spec, RefinesClearableCache, Abs!Spec

----------------------------------------------------------------------------
(* The process: who owns the socket path, for any number of daemons and commands. *)

LEMMA EndTypes ==
    ASSUME LifecycleTypeOK, NEW C \in SUBSET Caller, End(C)
    PROVE  /\ cpc' \in [Caller -> {"idle", "call", "status", "spawn", "poll", "recall"}]
           /\ op' \in [Caller -> Commands \union {Nobody}]
           /\ polls' \in [Caller -> 0 .. MaxPolls]
           /\ conn' \in [Caller -> Daemon \union {Nobody}]
           /\ accepted' \subseteq {c \in Caller : conn'[c] # Nobody}
  BY DaemonLifecycleAssumption DEF End, LifecycleTypeOK

LEMMA GotoTypes ==
    ASSUME LifecycleTypeOK, NEW c \in Caller, NEW call \in {"status", "spawn", "poll", "recall"},
           Goto(c, call)
    PROVE  /\ cpc' \in [Caller -> {"idle", "call", "status", "spawn", "poll", "recall"}]
           /\ op' \in [Caller -> Commands \union {Nobody}]
           /\ polls' \in [Caller -> 0 .. MaxPolls]
           /\ conn' \in [Caller -> Daemon \union {Nobody}]
           /\ accepted' \subseteq {x \in Caller : conn'[x] # Nobody}
  BY DEF Goto, LifecycleTypeOK

LEMMA InitTypes == LifecycleInit => LifecycleTypeOK
<1> SUFFICES ASSUME LifecycleInit PROVE LifecycleTypeOK
  OBVIOUS
<1>1. dpc \in [Daemon -> Ended \union {"none"}]
  BY DEF LifecycleInit, Ended
<1>2. kills \in 0 .. MaxKills /\ polls \in [Caller -> 0 .. MaxPolls]
  BY DaemonLifecycleAssumption DEF LifecycleInit
<1> QED BY <1>1, <1>2, Zenon DEF LifecycleInit, LifecycleTypeOK

LEMMA ClientTypes ==
    ASSUME LifecycleTypeOK, NEW c \in Caller,
           (\E o \in Commands : BeginCommand(c, o)) \/ ClientStep(c)
    PROVE  LifecycleTypeOK'
<1>1. ASSUME NEW o \in Commands, BeginCommand(c, o) PROVE LifecycleTypeOK'
  BY <1>1 DEF BeginCommand, LifecycleTypeOK, processVars
<1>2. CASE Connect(c)
  BY <1>2, DaemonLifecycleAssumption DEF Connect, Reachable, LifecycleTypeOK, processVars
<1>3. CASE Missing(c)
  <2>1. CASE End({c})
    BY <1>3, <2>1, EndTypes DEF Missing, LifecycleTypeOK, processVars
  <2>2. CASE Goto(c, IF cpc[c] = "call" THEN "status" ELSE "spawn")
    BY <1>3, <2>2, GotoTypes DEF Missing, LifecycleTypeOK, processVars
  <2> QED BY <1>3, <2>1, <2>2 DEF Missing
<1>4. CASE Spawn(c)
  <2>1. ASSUME NEW d \in Daemon, dpc' = [dpc EXCEPT ![d] = "spawned"], Goto(c, "poll")
        PROVE  LifecycleTypeOK'
    BY <1>4, <2>1, GotoTypes DEF Spawn, LifecycleTypeOK, Starting
  <2>2. CASE End({c}) /\ UNCHANGED dpc
    BY <1>4, <2>2, EndTypes DEF Spawn, LifecycleTypeOK
  <2> QED BY <1>4, <2>1, <2>2 DEF Spawn
<1>5. CASE Poll(c)
  <2>1. CASE End({c})
    BY <1>5, <2>1, EndTypes DEF Poll, LifecycleTypeOK, processVars
  <2>2. CASE ~(polls[c] + 1 >= MaxPolls)
    BY <1>5, <2>2, DaemonLifecycleAssumption DEF Poll, LifecycleTypeOK, processVars
  <2> QED BY <1>5, <2>1, <2>2 DEF Poll
<1> QED BY <1>1, <1>2, <1>3, <1>4, <1>5 DEF ClientStep

LEMMA DaemonTypes ==
    ASSUME LifecycleTypeOK, NEW d \in Daemon,
           \/ StartStep(d) \/ EndStep(d) \/ Kill(d)
           \/ \E c \in Caller : Accept(d, c) \/ Respond(d, c)
    PROVE  LifecycleTypeOK'
<1>1. CASE Look(d) \/ Probe(d) \/ Remove(d) \/ Bind(d) \/ ListenOn(d)
  BY <1>1 DEF Look, Probe, Remove, Bind, ListenOn, Reachable, LifecycleTypeOK, Starting, Ended, callerVars
<1>2. CASE Secure(d)
  <2>1. CASE socket = Nobody
    <3> Backlog(d) \in SUBSET Caller BY DEF Backlog
    <3> QED BY <1>2, <2>1, EndTypes DEF Secure, LifecycleTypeOK, Ended
  <2>2. CASE socket # Nobody
    BY <1>2, <2>2 DEF Secure, LifecycleTypeOK, callerVars
  <2> QED BY <2>1, <2>2
<1>3. CASE LeaveLoop(d) \/ Unlink(d)
  BY <1>3 DEF LeaveLoop, Unlink, LifecycleTypeOK, callerVars
<1>4. CASE Abort(d)
  <2> Tasks(d) \in SUBSET Caller BY DEF Tasks
  <2> QED BY <1>4, EndTypes DEF Abort, LifecycleTypeOK, processVars
<1>5. CASE Exit(d)
  <2> Backlog(d) \in SUBSET Caller BY DEF Backlog
  <2> QED BY <1>5, EndTypes DEF Exit, LifecycleTypeOK, Ended
<1>6. CASE Kill(d)
  <2> Backlog(d) \union Tasks(d) \in SUBSET Caller BY DEF Backlog, Tasks
  <2> QED BY <1>6, EndTypes, DaemonLifecycleAssumption DEF Kill, LifecycleTypeOK, Ended
<1>7. ASSUME NEW c \in Caller, Accept(d, c) PROVE LifecycleTypeOK'
  BY <1>7, DaemonLifecycleAssumption DEF Accept, Backlog, LifecycleTypeOK, processVars
<1>8. ASSUME NEW c \in Caller, Respond(d, c) PROVE LifecycleTypeOK'
  <2>1. stopping' \in [Daemon -> BOOLEAN]
    BY <1>8 DEF Respond, LifecycleTypeOK
  <2>2. CASE End({c})
    BY <1>8, <2>1, <2>2, EndTypes DEF Respond, LifecycleTypeOK
  <2>3. CASE Goto(c, "recall")
    BY <1>8, <2>1, <2>3, GotoTypes DEF Respond, LifecycleTypeOK
  <2> QED BY <1>8, <2>2, <2>3 DEF Respond
<1> QED BY <1>1, <1>2, <1>3, <1>4, <1>5, <1>6, <1>7, <1>8 DEF StartStep, EndStep

\* Every reachable state is well typed; in particular only connected clients are
\* being served (handle_connection), and start_background polls at most MaxPolls times.
THEOREM LifecycleTypeCorrect == LifecycleSpec => []LifecycleTypeOK
<1>1. LifecycleTypeOK /\ [LifecycleNext]_lifecycleVars => LifecycleTypeOK'
  <2> SUFFICES ASSUME LifecycleTypeOK, [LifecycleNext]_lifecycleVars PROVE LifecycleTypeOK'
    OBVIOUS
  <2>1. CASE UNCHANGED lifecycleVars
    BY <2>1 DEF lifecycleVars, LifecycleTypeOK
  <2>2. CASE LifecycleNext
    BY <2>2, ClientTypes, DaemonTypes DEF LifecycleNext
  <2> QED BY <2>1, <2>2
<1> QED BY <1>1, InitTypes, PTL DEF LifecycleSpec

----------------------------------------------------------------------------
(* The socket path. *)

\* A step of a command starts a daemon at most, and leaves the path alone.
LEMMA ClientKeepsSocket ==
    ASSUME LifecycleTypeOK, OwnsSocket, NEW c \in Caller,
           (\E o \in Commands : BeginCommand(c, o)) \/ ClientStep(c)
    PROVE  OwnsSocket'
<1>1. CASE Spawn(c)
  BY <1>1 DEF Spawn, OwnsSocket, LifecycleTypeOK
<1>2. ASSUME UNCHANGED processVars PROVE OwnsSocket'
  BY <1>2 DEF processVars, OwnsSocket
<1> QED BY <1>1, <1>2, Zenon DEF ClientStep, BeginCommand, Connect, Missing, Poll

\* A daemon that removes the path takes it from one that is dead, or is recorded
\* as stealing it (Remove); binds only a free path (Bind); and unlinks its own
\* (Unlink), since it holds the path as long as it drains.
LEMMA DaemonKeepsSocket ==
    ASSUME LifecycleTypeOK, OwnsSocket, NEW d \in Daemon,
           \/ StartStep(d) \/ EndStep(d) \/ Kill(d)
           \/ \E c \in Caller : Accept(d, c) \/ Respond(d, c)
    PROVE  OwnsSocket'
<1> USE DaemonLifecycleAssumption
<1>1. CASE Remove(d)
  <2> SUFFICES ASSUME ~stolen', NEW x \in Daemon,
                      dpc'[x] \in {"bound", "listening", "serving", "draining"}
               PROVE  FALSE
    BY DEF OwnsSocket
  <2>1. ~stolen /\ ~Reachable /\ ~(socket # Nobody /\ dpc[socket] = "bound")
    BY <1>1, Zenon DEF Remove
  <2>2. dpc[x] = dpc'[x]
    BY <1>1 DEF Remove, LifecycleTypeOK
  <2>3. socket = x
    BY <2>1, <2>2 DEF OwnsSocket
  <2> QED BY <2>1, <2>2, <2>3 DEF Reachable, ListenerOpen
<1>2. CASE Bind(d)
  BY <1>2 DEF Bind, OwnsSocket, LifecycleTypeOK
<1>3. CASE Unlink(d)
  BY <1>3 DEF Unlink, OwnsSocket, LifecycleTypeOK
<1>4. CASE Look(d) \/ Probe(d) \/ ListenOn(d) \/ Secure(d) \/ LeaveLoop(d) \/ Exit(d) \/ Kill(d)
  BY <1>4 DEF Look, Probe, ListenOn, Secure, LeaveLoop, Exit, Kill, OwnsSocket, LifecycleTypeOK
<1>5. CASE Abort(d) \/ \E c \in Caller : Accept(d, c) \/ Respond(d, c)
  BY <1>5 DEF Abort, Accept, Respond, processVars, OwnsSocket
<1> QED BY <1>1, <1>2, <1>3, <1>4, <1>5 DEF StartStep, EndStep

\* For any number of daemons and commands: unless a start stole the path, every
\* daemon that has bound it holds it until it has drained (Listener::bind, serve).
THEOREM OwnsSocketCorrect == LifecycleSpec => []OwnsSocket
<1>1. LifecycleInit => OwnsSocket
  BY DEF LifecycleInit, OwnsSocket
<1>2. LifecycleTypeOK /\ OwnsSocket /\ [LifecycleNext]_lifecycleVars => OwnsSocket'
  <2> SUFFICES ASSUME LifecycleTypeOK, OwnsSocket, [LifecycleNext]_lifecycleVars PROVE OwnsSocket'
    OBVIOUS
  <2>1. CASE UNCHANGED lifecycleVars
    BY <2>1 DEF lifecycleVars, OwnsSocket
  <2>2. CASE LifecycleNext
    BY <2>2, ClientKeepsSocket, DaemonKeepsSocket DEF LifecycleNext
  <2> QED BY <2>1, <2>2
<1> QED BY <1>1, <1>2, LifecycleTypeCorrect, PTL DEF LifecycleSpec
=============================================================================
