---------------------------- MODULE DaemonCache ----------------------------
(***************************************************************************)
(* The memory cache of the fnox daemon (src/daemon.rs): the requests that  *)
(* read it, fill it and clear it, the clients that resolve cache misses in *)
(* their own terminal and write the values back, and the daemon stopping   *)
(* and being started again underneath them.                                *)
(*                                                                         *)
(* A secret's value is abstracted to where it came from (Value): which     *)
(* version of the secret its provider returned, under which configuration  *)
(* it was resolved, for which request context, and in answer to which      *)
(* daemon process.  The cache key keeps the parts the code hashes.         *)
(***************************************************************************)
EXTENDS Naturals

CONSTANTS
    Client,         \* fnox processes that use the daemon
    Secret,         \* secret names
    Config,         \* what the config files can contain
    Context,        \* profile, no_defaults, purpose and FNOX_*/provider variables
    CheckContext,   \* the contexts whose purpose is "check"
    Defined,        \* Defined[cfg]: the secrets cfg defines
    DaemonCached,   \* DaemonCached[cfg]: those whose daemon_cache policy is on
    SpecOf,         \* SpecOf[cfg][k]: the configuration of secret k in cfg
    SecretSpec,     \* the values SpecOf takes
    Operations,     \* what the clients may ask for
    None,           \* no value, no lock holder
    MaxVersion,     \* bound: rotations of a secret in its provider
    MaxEpoch,       \* bound: clears handled by one daemon process
    MaxIncarnation  \* bound: times a daemon process ends

\* An operation of a client: `op` is "clear" for `fnox daemon clear`, "env" for
\* a read through fnox-client, "resolve" for every command that reads secrets;
\* evict is what `--refresh`, or the clear, evicts.
Operation == [op : {"resolve", "env", "clear"}, keys : SUBSET Secret, ctx : Context,
              nonInteractive : BOOLEAN, evict : SUBSET Secret]

ASSUME DaemonCacheAssumption ==
    /\ Operations \subseteq Operation
    /\ CheckContext \subseteq Context
    /\ Defined \in [Config -> SUBSET Secret]
    /\ DaemonCached \in [Config -> SUBSET Secret]
    /\ SpecOf \in [Config -> [Secret -> SecretSpec]]
    /\ Context # {}
    /\ None \notin Client
    /\ None \notin [ver : Nat, cfg : Config, ctx : Context, fingerprint : Config,
                     incarnation : Nat]
    /\ {MaxVersion, MaxEpoch, MaxIncarnation} \subseteq Nat

VARIABLES
    vault,       \* vault[k]: the version of k its provider would return now
    config,      \* the contents of the config files now
    alive,       \* a daemon process is listening on the socket
    incarnation, \* how many daemon processes have ended
    cache,       \* DaemonState.cache
    epoch,       \* DaemonState.epoch
    fullClearEpoch, \* DaemonState.full_clear_epoch
    keyClearEpochs, \* DaemonState.key_clear_epochs, 0 for an absent key
    requestLock, \* the client whose request holds request_lock, or None
    pc,          \* pc[c]: where client c, or its request in the daemon, is
    req,         \* req[c]: what c asked for
    job,         \* job[c]: what the daemon told c: fingerprint, epoch, process
    pending,     \* pending[c]: secrets still to be read from a provider
    values,      \* values[c]: what the request has resolved so far
    cleared      \* history: vault[k] when k was last cleared

daemonVars == <<alive, incarnation, cache, epoch, fullClearEpoch, keyClearEpochs>>
clientVars == <<req, job, pending, values>>
worldVars  == <<vault, config, cleared>>
vars == <<vault, config, alive, incarnation, cache, epoch, fullClearEpoch,
          keyClearEpochs, requestLock, pc, req, job, pending, values, cleared>>

----------------------------------------------------------------------------
(* Data. *)

\* The struct CacheKey: the secret's name and what cache_key hashes with it.
CacheKey == [secret : Secret, fingerprint : Config, spec : SecretSpec, ctx : Context]

\* A resolved value, by its origin.  cfg is the configuration it was resolved
\* with, fingerprint what the daemon had computed for the request, and
\* incarnation the daemon process the request was answered by.
Value == [ver : Nat, cfg : Config, ctx : Context, fingerprint : Config, incarnation : Nat]

\* The job once a lookup has computed the fingerprint, at an epoch.
Told(j, fingerprint, e) ==
    [loaded |-> j.loaded, fingerprint |-> fingerprint, epoch |-> e,
     incarnation |-> j.incarnation, floor |-> j.floor]

\* A request, with the configuration its client has loaded.
Request == [op : {"resolve", "env", "clear"}, keys : SUBSET Secret, ctx : Context,
            nonInteractive : BOOLEAN, evict : SUBSET Secret, cfg : Config]

RequestFor(o, cfg) ==
    [op |-> o.op, keys |-> IF o.op = "resolve" THEN o.keys \intersect Defined[cfg] ELSE o.keys,
     ctx |-> o.ctx, nonInteractive |-> o.nonInteractive, evict |-> o.evict, cfg |-> cfg]

\* What the daemon worked out for a request.  floor is history: the oldest
\* version of each secret that the request may be answered with.
Job == [loaded : Config, fingerprint : Config, epoch : Nat, incarnation : Nat,
        floor : [Secret -> Nat]]

\* Where a client is.  In the states of InDaemon its request is being handled.
InDaemon == {"loaded", "checked", "resolving", "storing"}
Queued   == {"queued", "storeQueued"}
PC == InDaemon \union Queued
        \union {"idle", "clear", "send", "foreground", "done", "failed"}

----------------------------------------------------------------------------
(* The pure helpers of the daemon. *)

cache_key(fingerprint, cfg, k, ctx) ==
    [secret |-> k, fingerprint |-> fingerprint, spec |-> SpecOf[cfg][k], ctx |-> ctx]

secret_is_cacheable(cfg, k, ctx) ==
    /\ ctx \notin CheckContext
    /\ k \in DaemonCached[cfg]

\* Mutant: full clears are forgotten.
KeyedClearsOnly(k, e) == keyClearEpochs[k] > e

cleared_since(k, e) == fullClearEpoch > e \/ keyClearEpochs[k] > e

\* The requested secrets that the daemon finds in the configuration it loaded.
Selected(c) == req[c].keys \intersect Defined[job[c].loaded]

\* The cached value of k for c's request under a fingerprint, or None.
Cached(c, fingerprint, k) ==
    IF secret_is_cacheable(job[c].loaded, k, req[c].ctx)
    THEN cache[cache_key(fingerprint, job[c].loaded, k, req[c].ctx)]
    ELSE None

Hits(c, fingerprint) == {k \in Selected(c) : Cached(c, fingerprint, k) # None}

\* What a provider read of k gives now, for a request of c resolved with cfg.
Read(c, cfg, k) ==
    [ver |-> vault[k], cfg |-> cfg, ctx |-> req[c].ctx,
     fingerprint |-> job[c].fingerprint, incarnation |-> job[c].incarnation]

NoValues == [k \in Secret |-> None]
NoRequest(cfg) == [op |-> "clear", keys |-> {}, ctx |-> CHOOSE x \in Context : TRUE,
                   nonInteractive |-> FALSE, evict |-> {}, cfg |-> cfg]
NoJob(cfg) == [loaded |-> cfg, fingerprint |-> cfg, epoch |-> 0, incarnation |-> 0,
               floor |-> [k \in Secret |-> 0]]

\* The cache after inserting, for client c, the values of the secrets in K.
Filled(c, fingerprint, K) ==
    [ck \in CacheKey |->
        IF \E k \in K : /\ secret_is_cacheable(job[c].loaded, k, req[c].ctx)
                        /\ values[c][k] # None
                        /\ ck = cache_key(fingerprint, job[c].loaded, k, req[c].ctx)
        THEN values[c][ck.secret]
        ELSE cache[ck]]

----------------------------------------------------------------------------
Init ==
    /\ vault = [k \in Secret |-> 0]
    /\ config \in Config
    /\ alive = FALSE
    /\ incarnation = 0
    /\ cache = [ck \in CacheKey |-> None]
    /\ epoch = 0
    /\ fullClearEpoch = 0
    /\ keyClearEpochs = [k \in Secret |-> 0]
    /\ requestLock = None
    /\ pc = [c \in Client |-> "idle"]
    /\ req = [c \in Client |-> NoRequest(config)]
    /\ job = [c \in Client |-> NoJob(config)]
    /\ pending = [c \in Client |-> {}]
    /\ values = [c \in Client |-> NoValues]
    /\ cleared = [k \in Secret |-> 0]

----------------------------------------------------------------------------
(* The world: secrets are rotated in their providers, config files edited. *)

Rotate(k) ==
    /\ vault[k] < MaxVersion
    /\ vault' = [vault EXCEPT ![k] = @ + 1]
    /\ UNCHANGED <<config, cleared, daemonVars, requestLock, pc, clientVars>>

EditConfig(cfg) ==
    /\ config' = cfg
    /\ UNCHANGED <<vault, cleared, daemonVars, requestLock, pc, clientVars>>

----------------------------------------------------------------------------
(* The daemon process. *)

\* A daemon process begins with DaemonState::default().
Listen ==
    /\ alive' = TRUE
    /\ UNCHANGED <<incarnation, cache, epoch, fullClearEpoch, keyClearEpochs>>

\* The process ends: idle timeout, `fnox daemon stop`, or a crash.  Its memory
\* goes, and a request still in it never gets an answer.  Requests that the
\* draining loop lets finish are those that finish before this step.
Stop ==
    /\ alive
    /\ incarnation < MaxIncarnation
    /\ alive' = FALSE
    /\ incarnation' = incarnation + 1
    /\ cache' = [ck \in CacheKey |-> None]
    /\ epoch' = 0
    /\ fullClearEpoch' = 0
    /\ keyClearEpochs' = [k \in Secret |-> 0]
    /\ requestLock' = None
    /\ pc' = [c \in Client |->
                CASE pc[c] \in {"storeQueued", "storing"} -> "done"
                  [] pc[c] \in {"queued", "loaded", "checked", "resolving"} -> "failed"
                  [] OTHER -> pc[c]]
    /\ UNCHANGED <<worldVars, clientVars>>

\* Mutant: a keyed clear records its epoch and evicts nothing.
EvictNothing(keys) ==
    /\ epoch' = epoch + 1
    /\ cache' = [ck \in CacheKey |-> IF keys = {} THEN None ELSE cache[ck]]
    /\ fullClearEpoch' = IF keys = {} THEN epoch' ELSE fullClearEpoch
    /\ keyClearEpochs' = [k \in Secret |-> IF k \in keys THEN epoch' ELSE keyClearEpochs[k]]
    /\ cleared' = [k \in Secret |-> IF keys = {} \/ k \in keys THEN vault[k] ELSE cleared[k]]
    /\ UNCHANGED <<alive, incarnation>>

\* DaemonState::clear; no keys means every key.
ClearState(keys) ==
    LET evicted == IF keys = {} THEN Secret ELSE keys
    IN  /\ epoch' = epoch + 1
        /\ cache' = [ck \in CacheKey |-> IF ck.secret \in evicted THEN None ELSE cache[ck]]
        /\ fullClearEpoch' = IF keys = {} THEN epoch' ELSE fullClearEpoch
        /\ keyClearEpochs' = [k \in Secret |-> CASE keys = {} -> 0
                                                [] k \in keys -> epoch'
                                                [] OTHER -> keyClearEpochs[k]]
        /\ cleared' = [k \in Secret |-> IF k \in evicted THEN vault[k] ELSE cleared[k]]
        /\ UNCHANGED <<alive, incarnation>>

----------------------------------------------------------------------------
(* Clients. *)

\* A client starts an operation.  A command loads its configuration when it
\* starts; a long-lived process (mcp, tui) still has the one it loaded before.
Begin(c, o) ==
    /\ pc[c] = "idle"
    /\ \E cfg \in {config, req[c].cfg} : req' = [req EXCEPT ![c] = RequestFor(o, cfg)]
    /\ pc' = [pc EXCEPT ![c] = IF o.op = "clear" \/ o.evict # {} THEN "clear" ELSE "send"]
    /\ UNCHANGED <<worldVars, daemonVars, requestLock, job, pending, values>>

\* The operation returns to its caller, who has the values or the error.
Return(c) ==
    /\ pc[c] \in {"done", "failed"}
    /\ pc' = [pc EXCEPT ![c] = "idle"]
    /\ req' = [req EXCEPT ![c] = NoRequest(req[c].cfg)]
    /\ job' = [job EXCEPT ![c] = NoJob(req[c].cfg)]
    /\ pending' = [pending EXCEPT ![c] = {}]
    /\ values' = [values EXCEPT ![c] = NoValues]
    /\ UNCHANGED <<worldVars, daemonVars, requestLock>>

\* Mutant: a clear does not wait for request_lock.
ClearUnlocked(c) ==
    /\ pc[c] = "clear"
    /\ IF alive
       THEN epoch < MaxEpoch /\ ClearState(req[c].evict)
       ELSE UNCHANGED <<daemonVars, cleared>>
    /\ pc' = [pc EXCEPT ![c] = IF req[c].op = "clear" THEN "done" ELSE "send"]
    /\ UNCHANGED <<vault, config, requestLock, clientVars>>

\* `fnox daemon clear [KEY]...`, or the eviction of `--refresh KEY`: handled
\* under request_lock.  Neither starts a daemon: with none running the first
\* fails, the second goes on.
Clear(c) ==
    /\ pc[c] = "clear"
    /\ IF alive
       THEN /\ requestLock = None
            /\ epoch < MaxEpoch
            /\ ClearState(req[c].evict)
            /\ pc' = [pc EXCEPT ![c] = IF req[c].op = "clear" THEN "done" ELSE "send"]
       ELSE /\ pc' = [pc EXCEPT ![c] = IF req[c].op = "clear" THEN "failed" ELSE "send"]
            /\ UNCHANGED <<daemonVars, cleared>>
    /\ UNCHANGED <<vault, config, requestLock, clientVars>>

\* The resolve request is written to the socket.  call_or_start starts a daemon
\* when none listens; fnox-client, which sends "env", gives up instead.
Send(c) ==
    /\ pc[c] = "send"
    /\ IF alive \/ req[c].op = "resolve"
       THEN Listen /\ pc' = [pc EXCEPT ![c] = "queued"]
       ELSE pc' = [pc EXCEPT ![c] = "failed"] /\ UNCHANGED daemonVars
    /\ UNCHANGED <<worldVars, requestLock, req, job, pending, values>>

----------------------------------------------------------------------------
(* ResolveBatch, ResolveOne and ResolveEnv in the daemon. *)

\* A cacheable secret may be answered with anything a provider gave since it
\* was last cleared, any other only with what a provider gives from now on.
Floor(ctx) == [k \in Secret |-> IF ctx \notin CheckContext /\ k \in DaemonCached[config]
                                THEN cleared[k] ELSE vault[k]]

\* The handler takes request_lock and loads the configuration; an unusable
\* configuration is answered with an error.
Load(c) ==
    /\ pc[c] = "queued"
    /\ requestLock = None
    /\ job' = [job EXCEPT ![c] = [loaded |-> config, fingerprint |-> config,
                                  epoch |-> epoch, incarnation |-> incarnation,
                                  floor |-> Floor(req[c].ctx)]]
    /\ \/ pc' = [pc EXCEPT ![c] = "loaded"] /\ requestLock' = c
       \/ pc' = [pc EXCEPT ![c] = "failed"] /\ UNCHANGED requestLock
    /\ UNCHANGED <<worldVars, daemonVars, req, pending, values>>

\* Leave the daemon with the values in v, going to state next.
Answer(c, v, next) ==
    /\ values' = [values EXCEPT ![c] = v]
    /\ pc' = [pc EXCEPT ![c] = next]
    /\ requestLock' = None

\* foreground_resolution_if_needed: an interactive request with a miss is sent
\* back, with the hits, the clear epoch and the fingerprint.
ForegroundCheck(c) ==
    /\ pc[c] = "loaded" /\ req[c].op = "resolve" /\ ~req[c].nonInteractive
    /\ LET hits == Hits(c, config)
       IN IF Selected(c) \subseteq hits
          THEN /\ pc' = [pc EXCEPT ![c] = "checked"]
               /\ UNCHANGED <<requestLock, job, pending, values>>
          ELSE /\ job' = [job EXCEPT ![c] = Told(@, config, epoch)]
               /\ pending' = [pending EXCEPT ![c] = Selected(c) \ hits]
               /\ Answer(c, [k \in Secret |-> IF k \in hits THEN Cached(c, config, k) ELSE None],
                         "foreground")
    /\ UNCHANGED <<worldVars, daemonVars, req>>

\* The first half of resolve_with_cache_tracking, which computes the
\* fingerprint again: hits are taken from the cache, misses become pending.
CacheLookup(c) ==
    /\ req[c].op = "resolve"
    /\ pc[c] = "checked" \/ (pc[c] = "loaded" /\ req[c].nonInteractive)
    /\ LET hits == Hits(c, config)
       IN /\ job' = [job EXCEPT ![c] = Told(@, config, @.epoch)]
          /\ pending' = [pending EXCEPT ![c] = Selected(c) \ hits]
          /\ values' = [values EXCEPT ![c] =
                           [k \in Secret |-> IF k \in hits THEN Cached(c, config, k) ELSE None]]
    /\ pc' = [pc EXCEPT ![c] = "resolving"]
    /\ UNCHANGED <<worldVars, daemonVars, requestLock, req>>

\* A provider answers for one pending secret: with its current value, or, when
\* if_missing allows it, with nothing.
ProviderRead(c, k) ==
    /\ pc[c] \in {"resolving", "foreground"}
    /\ k \in pending[c]
    /\ pending' = [pending EXCEPT ![c] = @ \ {k}]
    /\ LET cfg == IF pc[c] = "resolving" THEN job[c].loaded ELSE req[c].cfg
       IN \/ values' = [values EXCEPT ![c] = [@ EXCEPT ![k] = Read(c, cfg, k)]]
          \/ UNCHANGED values
    /\ UNCHANGED <<worldVars, daemonVars, requestLock, pc, req, job>>

\* The second half of resolve_with_cache_tracking: what the providers gave is
\* cached and answered, all under request_lock.
ResolveFinish(c) ==
    /\ pc[c] = "resolving" /\ pending[c] = {}
    /\ cache' = Filled(c, job[c].fingerprint, Selected(c))
    /\ Answer(c, values[c], "done")
    /\ UNCHANGED <<worldVars, alive, incarnation, epoch, fullClearEpoch, keyClearEpochs,
                   req, job, pending>>

\* Mutant: a failed resolution keeps request_lock.
FailLocked(c) ==
    /\ pc[c] \in {"resolving", "foreground"} /\ pending[c] # {}
    /\ pc' = [pc EXCEPT ![c] = "failed"]
    /\ UNCHANGED <<worldVars, daemonVars, requestLock, clientVars>>

\* A provider error that if_missing does not excuse fails the whole request.
ResolveFail(c) ==
    /\ pc[c] \in {"resolving", "foreground"} /\ pending[c] # {}
    /\ pc' = [pc EXCEPT ![c] = "failed"]
    /\ requestLock' = IF pc[c] = "resolving" THEN None ELSE requestLock
    /\ UNCHANGED <<worldVars, daemonVars, clientVars>>

\* resolve_env_response: everything from the cache, or a miss.
EnvLookup(c) ==
    /\ pc[c] = "loaded" /\ req[c].op = "env"
    /\ IF req[c].keys \subseteq Hits(c, config)
       THEN Answer(c, [k \in Secret |-> IF k \in req[c].keys THEN Cached(c, config, k) ELSE None],
                   "done")
       ELSE Answer(c, NoValues, "failed")
    /\ UNCHANGED <<worldVars, daemonVars, req, job, pending>>

----------------------------------------------------------------------------
(* The write-back of a foreground resolution. *)

\* All misses are resolved in the client's terminal; it now calls the daemon,
\* starting one when none listens.
SendStore(c) ==
    /\ pc[c] = "foreground" /\ pending[c] = {}
    /\ Listen
    /\ pc' = [pc EXCEPT ![c] = "storeQueued"]
    /\ UNCHANGED <<worldVars, requestLock, clientVars>>

\* StoreResolved takes request_lock and loads the configuration again; the
\* client only warns when that fails.
StoreLoad(c) ==
    /\ pc[c] = "storeQueued"
    /\ requestLock = None
    /\ job' = [job EXCEPT ![c] = [@ EXCEPT !.loaded = config]]
    /\ \/ pc' = [pc EXCEPT ![c] = "storing"] /\ requestLock' = c
       \/ pc' = [pc EXCEPT ![c] = "done"] /\ UNCHANGED requestLock
    /\ UNCHANGED <<worldVars, daemonVars, req, pending, values>>

\* Mutant: the fingerprint the client was told is not compared.
StoreUnchecked(c) ==
    /\ pc[c] = "storing"
    /\ cache' = Filled(c, config, {k \in Selected(c) : ~cleared_since(k, job[c].epoch)})
    /\ Answer(c, values[c], "done")
    /\ UNCHANGED <<worldVars, alive, incarnation, epoch, fullClearEpoch, keyClearEpochs,
                   req, job, pending>>

\* store_resolved_values: nothing is cached when the configuration has changed
\* since the daemon answered, nor a key cleared since then.
StoreResolved(c) ==
    /\ pc[c] = "storing"
    /\ cache' = IF config = job[c].fingerprint
                THEN Filled(c, config, {k \in Selected(c) : ~cleared_since(k, job[c].epoch)})
                ELSE cache
    /\ Answer(c, values[c], "done")
    /\ UNCHANGED <<worldVars, alive, incarnation, epoch, fullClearEpoch, keyClearEpochs,
                   req, job, pending>>

----------------------------------------------------------------------------
Handle(c) ==
    \/ ForegroundCheck(c) \/ CacheLookup(c) \/ ResolveFinish(c) \/ EnvLookup(c)
    \/ StoreResolved(c)
    \/ \E k \in Secret : ProviderRead(c, k)

Next ==
    \/ \E k \in Secret : Rotate(k)
    \/ \E cfg \in Config : EditConfig(cfg)
    \/ Stop
    \/ \E c \in Client :
         \/ \E o \in Operations : Begin(c, o)
         \/ Return(c)
         \/ Clear(c) \/ Send(c) \/ Load(c) \/ ResolveFail(c) \/ SendStore(c) \/ StoreLoad(c)
         \/ Handle(c)

Spec == Init /\ [][Next]_vars

\* The daemon's task runs each handler to its end, providers answer or fail,
\* and tokio's Mutex serves its waiters in order, so a request that waits for
\* request_lock gets it.
Fairness ==
    \A c \in Client :
        /\ WF_vars(Send(c)) /\ WF_vars(SendStore(c)) /\ WF_vars(Handle(c))
        /\ SF_vars(Load(c)) /\ SF_vars(StoreLoad(c))

FairSpec == Spec /\ Fairness

----------------------------------------------------------------------------
\* The types of the variables: what DaemonState, a request and a client can hold.
TypeOK ==
    /\ vault \in [Secret -> Nat]
    /\ config \in Config
    /\ alive \in BOOLEAN
    /\ incarnation \in Nat
    /\ cache \in [CacheKey -> Value \union {None}]
    /\ epoch \in Nat
    /\ fullClearEpoch \in Nat
    /\ keyClearEpochs \in [Secret -> Nat]
    /\ requestLock \in Client \union {None}
    /\ pc \in [Client -> PC]
    /\ req \in [Client -> Request]
    /\ job \in [Client -> Job]
    /\ pending \in [Client -> SUBSET Secret]
    /\ values \in [Client -> [Secret -> Value \union {None}]]
    /\ cleared \in [Secret -> Nat]

----------------------------------------------------------------------------
(* Safety. *)

\* No entry of the cache is older than the last clear of its secret: a
\* foreground resolution that began before a clear in the same daemon process
\* cannot bring the old value back, whatever it overlapped with.
NoStaleEntry ==
    \A ck \in CacheKey :
        cache[ck] # None /\ cache[ck].incarnation = incarnation
            => cache[ck].ver >= cleared[ck.secret]

\* A request handled after a clear of k never gets a value that a provider
\* gave before the clear, unless that value was resolved for an earlier daemon
\* process (an epoch means nothing to another one); and a secret with daemon_cache off, like
\* every secret when checking, is read again for each request.
FreshAnswer ==
    \A c \in Client, k \in Secret :
        pc[c] \in {"foreground", "done"} /\ values[c][k] # None
            /\ values[c][k].incarnation = job[c].incarnation
            => values[c][k].ver >= job[c].floor[k]

\* Value v was resolved in context ctx and, when the configuration was not edited
\* between loading it and computing the fingerprint, with this fingerprint.
ResolvedAs(v, fingerprint, ctx) ==
    v.ctx = ctx /\ (v.cfg = v.fingerprint => fingerprint = v.cfg)

\* An entry answers only requests like the one that resolved it, however many
\* requests it was handed through on its way back into the cache: the same
\* context and the configuration it was resolved with.
ResolvedAsKeyed ==
    \A ck \in CacheKey :
        cache[ck] # None => ResolvedAs(cache[ck], ck.fingerprint, ck.ctx)

(* Refinement. *)

Abs == INSTANCE ClearableCache WITH
    Key <- CacheKey,
    SecretOf <- [ck \in CacheKey |-> ck.secret],
    generation <- incarnation,
    store <- [ck \in CacheKey |->
                IF cache[ck] = None THEN None
                ELSE [ver |-> cache[ck].ver, generation |-> cache[ck].incarnation]]

\* Seen from outside, the daemon with its request lock, its epochs and its
\* foreground clients is a cache whose clears are atomic and final.
RefinesClearableCache == Abs!Spec

(* Liveness. *)

\* Every resolve request is answered, with values or an error.
Answered ==
    \A c \in Client :
        pc[c] \in {"send", "queued", "foreground", "storeQueued"}
            ~> pc[c] \in {"done", "failed"}

----------------------------------------------------------------------------
(* The inductive invariant behind NoStaleEntry, FreshAnswer and the        *)
(* refinement.                                                             *)

\* A request past these states may have values; before them it has none.
NoValuesYet == {"idle", "clear", "send", "queued", "loaded", "checked"}

\* Every handler in the daemon holds request_lock, for a client of this process.
LockOK(c) ==
    /\ pc[c] \in InDaemon => requestLock = c
    /\ pc[c] \in {"loaded", "checked", "resolving"} => job[c].incarnation = incarnation

LockInv == \A c \in Client : LockOK(c)

\* Clears are recorded with epochs of the past, and what they made stale was
\* current then.
EpochInv ==
    /\ fullClearEpoch <= epoch
    /\ \A k \in Secret : keyClearEpochs[k] <= epoch /\ cleared[k] <= vault[k]

\* A job's epoch and floor are of the past, too.
JobOK(c) ==
    /\ job[c].incarnation <= incarnation
    /\ job[c].incarnation = incarnation => job[c].epoch <= epoch
    /\ \A k \in Secret : job[c].floor[k] <= vault[k]
    /\ pc[c] \in {"loaded", "checked"} =>
          \A k \in Secret : secret_is_cacheable(job[c].loaded, k, req[c].ctx)
                             => job[c].floor[k] <= cleared[k]

JobInv == \A c \in Client : JobOK(c)

\* What is known of a value a request of c holds for k.
ValueOK(c, k, v) ==
    /\ v.ver <= vault[k]
    /\ v.incarnation <= job[c].incarnation
    /\ v.incarnation = job[c].incarnation => v.ver >= job[c].floor[k]
    /\ pc[c] = "resolving" /\ v.incarnation = incarnation => v.ver >= cleared[k]
    /\ pc[c] \in {"foreground", "storeQueued", "storing"} /\ v.incarnation = incarnation
          => v.ver >= cleared[k] \/ cleared_since(k, job[c].epoch)

ValuesOK(c) ==
    /\ pc[c] \in NoValuesYet => values[c] = NoValues
    /\ \A k \in Secret : values[c][k] # None => ValueOK(c, k, values[c][k])

ValuesInv == \A c \in Client : ValuesOK(c)

EntryOK(ck, v) ==
    /\ v.ver <= vault[ck.secret]
    /\ v.incarnation <= incarnation
    /\ v.incarnation = incarnation => v.ver >= cleared[ck.secret]

CacheInv == \A ck \in CacheKey : cache[ck] # None => EntryOK(ck, cache[ck])

IndInv == TypeOK /\ LockInv /\ EpochInv /\ JobInv /\ ValuesInv /\ CacheInv

\* What a request may still store fits the fingerprint it was told.
OriginOK(c) ==
    pc[c] \in {"resolving", "foreground", "storeQueued", "storing"} =>
        \A k \in Secret :
            values[c][k] # None => ResolvedAs(values[c][k], job[c].fingerprint, req[c].ctx)

OriginInv == IndInv /\ ResolvedAsKeyed /\ \A c \in Client : OriginOK(c)

----------------------------------------------------------------------------
(* What the documentation says, without the conditions above. *)
=============================================================================
