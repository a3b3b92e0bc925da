--------------------------- MODULE SecretResolver ---------------------------
(***************************************************************************)
(* Resolving a batch of secrets (crates/fnox-core/src/secret_resolver.rs,  *)
(* resolve_secrets_batch_with_pre_resolved): secrets are ordered by what    *)
(* they need, level by level; the providers of a level are asked at the    *)
(* same time; what they fail to return is taken from defaults or treated   *)
(* as if_missing says; and the values of a level are put in the environment*)
(* for the providers of the next.                                          *)
(*                                                                         *)
(* A value is named after where it comes from.  References of a default    *)
(* are the set of names in it; templates and post-processing only matter   *)
(* in that they can fail.                                                  *)
(***************************************************************************)
EXTENDS Naturals, FiniteSets

CONSTANTS
    Key,              \* names of secrets and environment variables
    Provider,         \* provider names that secrets mention
    Configured,       \* the providers of the profile
    Interactive,      \* configured, but skipped in this process: they would prompt
    env_dependencies, \* env_dependencies[q]: the variables provider q reads
    DefaultProvider,  \* default_provider of the profile, or None
    Ambient,          \* variables set before fnox started
    Configs,          \* the secret configurations to consider
    Pre,              \* the pre-resolved values to consider
    None              \* no provider, no default, no value

\* A default is None or the set of the names it refers to.
SecretConfig == [sync : Provider \union {None}, value : BOOLEAN, provider : Provider \union {None},
                 default : {None} \union SUBSET Key, if_missing : {"error", "warn", "ignore"}]

Value == {"provider", "default", "environment", "cached", None}

\* f is a function from some of the keys to S.
IsMap(f, S) == /\ f = [k \in DOMAIN f |-> f[k]] /\ DOMAIN f \subseteq Key
               /\ \A k \in DOMAIN f : f[k] \in S

ASSUME SecretResolverAssumption ==
    /\ IsFiniteSet(Key)
    /\ Interactive \subseteq Configured /\ Configured \subseteq Provider
    /\ env_dependencies \in [Provider -> SUBSET Key]
    /\ DefaultProvider \in Provider \union {None}
    /\ Ambient \subseteq Key
    /\ Configs \subseteq SecretConfig
    /\ \A f \in Pre : IsMap(f, {"cached", None})
    /\ None \notin Provider /\ \A K \in SUBSET Key : K # None
    /\ None \notin {"provider", "default", "environment", "cached"}

VARIABLES
    secrets,    \* secrets[k]: configuration of the secrets of the batch
    pre,        \* pre_resolved: values that are known already
    stage,      \* "plan", "next", "level", "done" or "failed"
    in_degree,  \* in_degree[k]: dependencies of k not resolved yet
    remaining,  \* secrets of no level yet
    ready,      \* secrets of the level being resolved
    cyclic,     \* this is the last level, of those left over
    at,         \* at[q]: "call", "retry", "fallback", "ok" or "error" for a provider
    pending,    \* pending[q]: its secrets that wait for a default
    found,      \* results of the level
    results,    \* results of the levels before it, and pre
    env,        \* variables that are set in the process
    saw         \* history: saw[k]: `env` when k's provider was asked for it

planVars == <<secrets, pre>>
levelVars == <<in_degree, remaining, ready, cyclic>>
vars == <<secrets, pre, stage, in_degree, remaining, ready, cyclic, at, pending, found, results,
          env, saw>>

----------------------------------------------------------------------------
(* Classification and dependencies. *)

Batch == DOMAIN secrets
Known == Batch \union DOMAIN pre

\* The sync cache comes first; without a value there is nothing to ask for.
ProviderOf(k) ==
    LET s == secrets[k]
    IN  CASE s.sync # None -> s.sync
          [] s.sync = None /\ s.value -> IF s.provider # None THEN s.provider ELSE DefaultProvider
          [] OTHER -> None

Refs(k) == IF secrets[k].default = None THEN {} ELSE secrets[k].default

\* The default is all there is: its references are required.
HardDefault(k) == ProviderOf(k) \notin Configured

EnvDeps(k) == IF ProviderOf(k) \in Configured THEN env_dependencies[ProviderOf(k)] ELSE {}

\* Mutant: only the provider's variables count.
EnvDepsOnly(k) == (EnvDeps(k) \intersect Batch) \ {k}

\* What has to be resolved before k.
Deps(k) == ((EnvDeps(k) \union Refs(k)) \intersect Batch) \ {k}

\* A required reference to itself or to nothing is refused.
BadReference == \E k \in Batch : HardDefault(k) /\ (k \in Refs(k) \/ ~(Refs(k) \subseteq Known))

Own(q) == {k \in ready : ProviderOf(k) = q}
Unowned == {k \in ready : ProviderOf(k) = None}

\* f extended by the value v for the keys in K.
With(f, K, v) == [k \in DOMAIN f \union K |-> IF k \in K THEN v ELSE f[k]]

Present(f) == {k \in DOMAIN f : f[k] # None}

----------------------------------------------------------------------------
Init ==
    /\ secrets \in UNION {[K -> Configs] : K \in SUBSET Key}
    /\ pre \in {f \in Pre : DOMAIN f \intersect DOMAIN secrets = {}}
    /\ stage = "plan"
    /\ in_degree = [k \in {} |-> 0]
    /\ remaining = {} /\ ready = {}
    /\ cyclic = FALSE
    /\ at = [q \in Provider |-> "ok"]
    /\ pending = [q \in Provider |-> {}]
    /\ found = [k \in {} |-> None]
    /\ results = pre
    /\ env = Ambient
    /\ saw = [k \in {} |-> {}]

\* The batch is classified, its defaults are checked, dependencies are counted,
\* and pre-resolved values that a provider of the batch reads go into the
\* environment.
Plan ==
    /\ stage = "plan"
    /\ IF BadReference
       THEN /\ stage' = "failed"
            /\ UNCHANGED <<in_degree, remaining, env>>
       ELSE /\ stage' = "next"
            /\ in_degree' = [k \in Batch |-> Cardinality(Deps(k))]
            /\ remaining' = Batch
            /\ env' = env \union (Present(pre) \intersect UNION {EnvDeps(k) : k \in Batch})
    /\ UNCHANGED <<planVars, ready, cyclic, at, pending, found, results, saw>>

\* The secrets in level are asked for, each provider for all of its own.
Start(level) ==
    /\ ready' = level
    /\ remaining' = remaining \ level
    /\ at' = [q \in Provider |-> IF \E k \in level : ProviderOf(k) = q THEN "call" ELSE "ok"]
    /\ stage' = "level"
    /\ UNCHANGED <<planVars, pending, found, results, env, saw>>

\* A round of Kahn's algorithm: the secrets that wait for nothing.
NextLevel ==
    LET level == {k \in remaining : in_degree[k] = 0}
    IN  /\ stage = "next" /\ level # {}
        /\ in_degree' = [k \in Batch |-> in_degree[k] - Cardinality(Deps(k) \intersect level)]
        /\ Start(level)
        /\ UNCHANGED cyclic

\* No secret is ready.  A required default that refers to one of those left over
\* is an error; otherwise they are all resolved together, as well as possible.
Cycle ==
    /\ stage = "next" /\ remaining # {} /\ \A k \in remaining : in_degree[k] # 0
    /\ IF \E k \in remaining : HardDefault(k) /\ Refs(k) \intersect remaining # {}
       THEN /\ stage' = "failed"
            /\ UNCHANGED <<planVars, remaining, ready, cyclic, at, pending, found, results, env, saw>>
       ELSE Start(remaining) /\ cyclic' = TRUE
    /\ UNCHANGED in_degree

----------------------------------------------------------------------------
(* One provider of a level: resolve_provider_batch. *)

\* The secrets in bad have no value from q; the others of q do.  Every provider has
\* an entry, a value or an error, for each secret it was asked for.
Answer(q, bad) ==
    /\ found' = With(found, Own(q) \ bad, "provider")
    /\ pending' = [pending EXCEPT ![q] = {k \in bad : secrets[k].default # None}]
    /\ at' = [at EXCEPT ![q] = "fallback"]

\* A provider that is not configured, or would have to prompt, is not asked.
SkipProvider(q) ==
    /\ stage = "level" /\ at[q] = "call"
    /\ q \notin Configured \/ q \in Interactive
    /\ Answer(q, Own(q))
    /\ UNCHANGED <<planVars, stage, levelVars, results, env, saw>>

\* q is asked for all its secrets.  Some or all may fail; after the first time the
\* user may be prompted to log in, and q is asked again.  A value that cannot be
\* post-processed, or a failing login, fails the batch.
CallProvider(q) ==
    /\ stage = "level" /\ at[q] \in {"call", "retry"}
    /\ q \in Configured \ Interactive
    /\ saw' = With(saw, Own(q), env)
    /\ \/ \E bad \in SUBSET Own(q) : Answer(q, bad)
       \/ /\ at[q] = "call"
          /\ at' = [at EXCEPT ![q] = "retry"]
          /\ UNCHANGED <<pending, found>>
       \/ /\ at' = [at EXCEPT ![q] = "error"]
          /\ UNCHANGED <<pending, found>>
    /\ UNCHANGED <<planVars, stage, levelVars, results, env>>

\* The values that defaults of q's secrets may use.
Context(q) == DOMAIN results \union (Own(q) \intersect DOMAIN found)

\* Mutant: passes without progress go on.
FallbackStuck(q) ==
    /\ stage = "level" /\ at[q] = "fallback" /\ pending[q] # {}
    /\ LET context == Context(q)
           waiting == {k \in pending[q] : Refs(k) \subseteq context \union pending[q]}
           R == {k \in waiting : Refs(k) \subseteq context}
       IN /\ found' = With(found, R, "default")
          /\ pending' = [pending EXCEPT ![q] = waiting \ R]
    /\ UNCHANGED <<planVars, stage, levelVars, at, results, env, saw>>

\* A pass of resolve_default_fallbacks over the pending secrets, in some order:
\* R get their default, each after those it refers to; a reference to what is
\* neither known nor pending drops the secret.  No progress at all is an error, and
\* so is a default that cannot be rendered or post-processed.
FallbackPass(q) ==
    /\ stage = "level" /\ at[q] = "fallback" /\ pending[q] # {}
    /\ LET context == Context(q)
           waiting == {k \in pending[q] : Refs(k) \subseteq context \union pending[q]}
       IN \E R \in SUBSET waiting :
            /\ {k \in waiting : Refs(k) \subseteq context} \subseteq R
            /\ \A S \in (SUBSET R) \ {{}} :
                  \E k \in S : Refs(k) \subseteq context \union (R \ S)
            /\ \/ /\ waiting # {}
                  /\ at' = [at EXCEPT ![q] = "error"]
                  /\ UNCHANGED <<found, pending>>
               \/ /\ R = {} => waiting = {}
                  /\ found' = With(found, R, "default")
                  /\ pending' = [pending EXCEPT ![q] = waiting \ R]
                  /\ UNCHANGED at
    /\ UNCHANGED <<planVars, stage, levelVars, results, env, saw>>

\* What is still missing is an error or nothing, as if_missing says.
Settle(q) ==
    /\ stage = "level" /\ at[q] = "fallback" /\ pending[q] = {}
    /\ LET missing == Own(q) \ DOMAIN found
       IN IF \E k \in missing : secrets[k].if_missing = "error"
          THEN /\ at' = [at EXCEPT ![q] = "error"]
               /\ UNCHANGED found
          ELSE /\ found' = With(found, missing, None)
               /\ at' = [at EXCEPT ![q] = "ok"]
    /\ UNCHANGED <<planVars, stage, levelVars, pending, results, env, saw>>

----------------------------------------------------------------------------
(* The end of a level. *)

\* A default, else the environment, else if_missing: resolve_no_provider_secret.
\* It only sees the results of earlier levels.
WithoutProvider(k) ==
    CASE secrets[k].default # None -> "default"
      [] secrets[k].default = None /\ k \in env -> "environment"
      [] OTHER -> None

\* What the level adds to the results, when no provider has failed.
Level == [k \in ready |-> IF k \in Unowned THEN WithoutProvider(k) ELSE found[k]]

LevelFailed ==
    \/ \E q \in Provider : at[q] = "error"
    \/ \E k \in Unowned : WithoutProvider(k) = None /\ secrets[k].if_missing = "error"

\* Mutant: the level's values do not go into the environment.
EndLevelUnset ==
    /\ stage = "level" /\ \A q \in Provider : at[q] \in {"ok", "error"}
    /\ IF LevelFailed
       THEN stage' = "failed" /\ UNCHANGED results
       ELSE /\ stage' = "next"
            /\ results' = [k \in DOMAIN results \union ready |->
                             IF k \in ready THEN Level[k] ELSE results[k]]
    /\ found' = [k \in {} |-> None]
    /\ ready' = {}
    /\ UNCHANGED <<planVars, in_degree, remaining, cyclic, at, pending, env, saw>>

\* All providers of the level have ended.  One error fails the batch; otherwise
\* secrets without provider are resolved (and their post-processing may fail),
\* and all values of the level are set in the environment, except those of the
\* last, cyclic one.
EndLevel ==
    /\ stage = "level" /\ \A q \in Provider : at[q] \in {"ok", "error"}
    /\ \/ /\ LevelFailed \/ Unowned # {}
          /\ stage' = "failed"
          /\ UNCHANGED <<results, env>>
       \/ /\ ~LevelFailed
          /\ stage' = "next"
          /\ results' = [k \in DOMAIN results \union ready |->
                           IF k \in ready THEN Level[k] ELSE results[k]]
          /\ env' = IF cyclic THEN env ELSE env \union Present(Level)
    /\ found' = [k \in {} |-> None]
    /\ ready' = {}
    /\ UNCHANGED <<planVars, in_degree, remaining, cyclic, at, pending, saw>>

\* Every secret has had its level: the results of the batch are returned.
Finish ==
    /\ stage = "next" /\ remaining = {}
    /\ stage' = "done"
    /\ UNCHANGED <<planVars, levelVars, at, pending, found, results, env, saw>>

----------------------------------------------------------------------------
Next ==
    \/ Plan \/ NextLevel \/ Cycle \/ EndLevel \/ Finish
    \/ \E q \in Provider : SkipProvider(q) \/ CallProvider(q) \/ FallbackPass(q) \/ Settle(q)

Spec == Init /\ [][Next]_vars

\* The resolver is one future, polled until it ends.
FairSpec == Spec /\ WF_vars(Next)

----------------------------------------------------------------------------
\* The types of the variables of one batch.
TypeOK ==
    /\ IsMap(secrets, SecretConfig)
    /\ IsMap(pre, {"cached", None})
    /\ stage \in {"plan", "next", "level", "done", "failed"}
    /\ IsMap(in_degree, Nat)
    /\ remaining \subseteq Batch /\ ready \subseteq Batch
    /\ cyclic \in BOOLEAN
    /\ at \in [Provider -> {"call", "retry", "fallback", "ok", "error"}]
    /\ pending \in [Provider -> SUBSET Batch]
    /\ IsMap(found, Value)
    /\ IsMap(results, Value)
    /\ env \subseteq Key
    /\ IsMap(saw, SUBSET Key)

(* Safety. *)

\* A batch that is returned has every secret that was asked for, and none that
\* must not be missing is missing.
Complete ==
    stage = "done" =>
        /\ Batch \subseteq DOMAIN results
        /\ \A k \in Batch : results[k] = None => secrets[k].if_missing # "error"

\* A provider is not asked for a secret before the secrets whose names it reads
\* from the environment are resolved and set, unless the secret is one of those
\* that Kahn's algorithm leaves over.
DependenciesFirst ==
    ~cyclic =>
        \A k \in DOMAIN saw : \A d \in (EnvDeps(k) \intersect Known) \ {k} :
            d \in DOMAIN results /\ (results[d] # None => d \in saw[k])

\* A secret with a default whose references are all part of the batch is never
\* returned without a value, whichever providers fail.
DefaultUsed ==
    stage = "done" /\ ~cyclic =>
        \A k \in Batch : secrets[k].default # None /\ Refs(k) \subseteq Known => results[k] # None

\* docs/reference/configuration.md: "An undefined reference or a cycle is an
\* error", where the default is the only source.
BadDefaultsRejected ==
    stage = "done" =>
        LET hard == {k \in Batch : HardDefault(k)}
        IN  /\ \A k \in hard : Refs(k) \subseteq Known
            /\ \A S \in (SUBSET hard) \ {{}} : \E k \in S : Refs(k) \intersect S = {}

(* Liveness. *)

\* The batch is answered, whatever depends on what.
Ends == <>(stage \in {"done", "failed"})

\* What a batch returns: everything that was asked for, with the default where one is
\* usable, and an error where the only default cannot be.
BatchSound == TypeOK /\ Complete /\ DefaultUsed /\ BadDefaultsRejected
=============================================================================
