------------------------ MODULE SecretResolverProofs ------------------------
(***************************************************************************)
(* What a batch returns, for any number of secrets and providers, any      *)
(* dependencies between them, and whatever providers fail: the levels are  *)
(* those of Kahn's algorithm, so that a provider finds what it needs in    *)
(* the environment, a usable default is used, and an unusable one that is  *)
(* the only source is refused.                                             *)
(***************************************************************************)
EXTENDS SecretResolver, TLAPS, FiniteSetTheorems

----------------------------------------------------------------------------
(* The inductive invariant. *)

\* The secrets that are resolved or are being resolved.
Taken == Batch \ remaining

\* Dependencies were counted.
Planned == stage \in {"next", "level", "done"}

\* The results are those of the batch that are neither waiting nor in the current level,
\* and what was known before.
ResultsInv ==
    /\ stage = "plan" => /\ results = pre /\ ~cyclic /\ remaining = {} /\ ready = {}
                         /\ DOMAIN found = {} /\ DOMAIN saw = {}
    /\ Planned => /\ DOMAIN results = DOMAIN pre \union (Taken \ ready)
                  /\ remaining \intersect ready = {}
                  /\ ~BadReference
    /\ stage \in {"next", "done"} => ready = {} /\ DOMAIN found = {}
    /\ stage = "done" => remaining = {}
    /\ cyclic => remaining = {}
    /\ DOMAIN pre \intersect Batch = {}

\* A secret is counted as long as it is not taken: what is taken does not need it.
DegreeInv ==
    Planned /\ ~cyclic =>
        /\ DOMAIN in_degree = Batch
        /\ \A k \in Batch : in_degree[k] = Cardinality(Deps(k) \intersect remaining)
        /\ \A k \in Taken : Deps(k) \subseteq Taken \ ready

\* What is resolved is in the environment, as far as a provider reads it.
EnvInv ==
    Planned /\ ~cyclic =>
        \A d \in DOMAIN results :
            results[d] # None /\ (d \in Batch \/ \E k \in Batch : d \in EnvDeps(k)) => d \in env

\* A provider was asked after what it reads was resolved.
SawInv ==
    /\ DOMAIN saw \subseteq Batch
    /\ ~cyclic => \A k \in DOMAIN saw : \A d \in (EnvDeps(k) \intersect Known) \ {k} :
                      d \in DOMAIN results /\ (results[d] # None => d \in saw[k])

\* A default of k can be evaluated within this batch.
Usable(k) == secrets[k].default # None /\ Refs(k) \subseteq Known

\* Within a level: what providers have found, and what still waits for a default.
FoundInv ==
    stage = "level" =>
        /\ DOMAIN found \subseteq ready
        /\ \A k \in DOMAIN found : found[k] = None => secrets[k].if_missing # "error"
        /\ \A q \in Provider :
            /\ at[q] = "fallback" => pending[q] \subseteq Own(q)
            /\ at[q] = "ok" => Own(q) \subseteq DOMAIN found
            /\ ~cyclic => \A k \in Own(q) : Usable(k) =>
                 /\ at[q] = "fallback" => k \in pending[q] \/ k \in DOMAIN found
                 /\ k \in DOMAIN found => found[k] # None

\* What earlier levels have returned.
KeptInv ==
    Planned => \A k \in Batch \intersect DOMAIN results :
        /\ results[k] = None => secrets[k].if_missing # "error"
        /\ ~cyclic /\ Usable(k) => results[k] # None

\* Secrets whose default is the only source do not refer to each other in a circle.
AcyclicIn(D) ==
    \A S \in SUBSET {k \in D : HardDefault(k)} :
        S # {} => \E k \in S : Refs(k) \intersect S = {}

AcyclicInv == Planned => AcyclicIn(Taken)

IInv == /\ TypeOK /\ ResultsInv /\ DegreeInv /\ EnvInv /\ SawInv /\ FoundInv /\ KeptInv
        /\ AcyclicInv

----------------------------------------------------------------------------
(* Facts about the operators. *)

\* What is asked for does not change, nor what follows from it.
LEMMA Fixed ==
    ASSUME UNCHANGED planVars
    PROVE  /\ Batch' = Batch /\ Known' = Known /\ (BadReference' <=> BadReference)
           /\ \A k : /\ ProviderOf(k)' = ProviderOf(k) /\ Refs(k)' = Refs(k) /\ Deps(k)' = Deps(k)
                     /\ EnvDeps(k)' = EnvDeps(k) /\ (HardDefault(k)' <=> HardDefault(k))
                     /\ (Usable(k)' <=> Usable(k)) /\ secrets'[k] = secrets[k]
BY DEF planVars, Batch, Known, BadReference, ProviderOf, Refs, Deps, EnvDeps, HardDefault, Usable

\* The dependencies of a secret are secrets of the batch, of which there are finitely many.
LEMMA DepsFinite ==
    ASSUME TypeOK
    PROVE  /\ IsFiniteSet(Batch)
           /\ \A k : Deps(k) \subseteq Batch /\ k \notin Deps(k)
           /\ \A k, T : IsFiniteSet(Deps(k) \intersect T) /\ Cardinality(Deps(k) \intersect T) \in Nat
<1>1. IsFiniteSet(Batch)
  BY SecretResolverAssumption, FS_Subset DEF TypeOK, IsMap, Batch
<1>2. \A k : Deps(k) \subseteq Batch /\ k \notin Deps(k)
  BY DEF Deps
<1>3. ASSUME NEW k, NEW T PROVE IsFiniteSet(Deps(k) \intersect T)
  BY <1>1, <1>2, FS_Subset
<1>4. ASSUME NEW k, NEW T PROVE Cardinality(Deps(k) \intersect T) \in Nat
  BY <1>3, FS_CardinalityType
<1> QED BY <1>1, <1>2, <1>3, <1>4

\* A secret has a provider or none.
LEMMA ProviderType ==
    ASSUME TypeOK, NEW k \in Batch
    PROVE  /\ ProviderOf(k) \in Provider \union {None} /\ secrets[k] \in SecretConfig
           /\ EnvDeps(k) \subseteq Key /\ Refs(k) \subseteq Key
<1>1. secrets[k] \in SecretConfig
  BY DEF TypeOK, IsMap, Batch
<1>2. ProviderOf(k) \in Provider \union {None}
  BY <1>1, SecretResolverAssumption DEF ProviderOf, SecretConfig
<1>3. EnvDeps(k) \subseteq Key
  BY <1>2, SecretResolverAssumption DEF EnvDeps
<1>4. Refs(k) \subseteq Key
  BY <1>1 DEF Refs, SecretConfig
<1> QED BY <1>1, <1>2, <1>3, <1>4

\* Removing some of the counted dependencies lowers the count by their number.
LEMMA Counted ==
    ASSUME NEW A, NEW L, IsFiniteSet(A)
    PROVE  /\ Cardinality(A) - Cardinality(A \intersect L) = Cardinality(A \ L)
           /\ Cardinality(A \ L) \in Nat /\ Cardinality(A) \in Nat
           /\ (Cardinality(A) = 0 <=> A = {})
<1>1. IsFiniteSet(A \ L) /\ IsFiniteSet(A \intersect L)
  BY FS_Subset
<1>2. Cardinality(A) \in Nat /\ Cardinality(A \ L) \in Nat /\ Cardinality(A \intersect L) \in Nat
  BY <1>1, FS_CardinalityType
<1>3. A = (A \ L) \union (A \intersect L) /\ (A \ L) \intersect (A \intersect L) = {}
  OBVIOUS
<1>4. Cardinality(A) = Cardinality(A \ L) + Cardinality(A \intersect L) - Cardinality({})
  BY <1>1, <1>3, FS_Union
<1>5. Cardinality({}) = 0 /\ (Cardinality(A) = 0 <=> A = {})
  BY FS_EmptySet
<1> QED BY <1>2, <1>4, <1>5

----------------------------------------------------------------------------
(* One lemma per action. *)

\* Before the batch is classified nothing is taken.
LEMMA InitKeeps == Init => IInv
<1> SUFFICES ASSUME Init PROVE IInv
  OBVIOUS
<1>0. IsMap(secrets, SecretConfig) /\ IsMap(pre, {"cached", None})
  BY SecretResolverAssumption DEF Init, IsMap
<1>1. TypeOK
  <2>1. /\ IsMap(in_degree, Nat) /\ IsMap(found, Value) /\ IsMap(saw, SUBSET Key)
    BY DEF Init, IsMap
  <2>2. IsMap(results, Value)
    BY <1>0 DEF Init, IsMap, Value
  <2>3. /\ at \in [Provider -> {"call", "retry", "fallback", "ok", "error"}]
        /\ pending \in [Provider -> SUBSET Batch]
    BY DEF Init
  <2> QED BY <1>0, <2>1, <2>2, <2>3, SecretResolverAssumption DEF Init, TypeOK
<1>2. ResultsInv /\ DegreeInv /\ EnvInv /\ SawInv /\ FoundInv /\ KeptInv /\ AcyclicInv
  BY DEF Init, ResultsInv, DegreeInv, EnvInv, SawInv, FoundInv, KeptInv, AcyclicInv, Planned, Batch
<1> QED BY <1>1, <1>2 DEF IInv

\* A batch that fails keeps its types, and nothing is said of it.
LEMMA Failing ==
    ASSUME IInv, stage' = "failed", UNCHANGED planVars, TypeOK', UNCHANGED <<remaining, cyclic, saw>>,
           ~cyclic => UNCHANGED results
    PROVE  IInv'
<1>1. ResultsInv' /\ DegreeInv' /\ EnvInv' /\ FoundInv' /\ KeptInv' /\ AcyclicInv'
  BY DEF IInv, ResultsInv, DegreeInv, EnvInv, FoundInv, KeptInv, AcyclicInv, Planned, planVars, Batch
<1>2. SawInv'
  BY Fixed DEF IInv, SawInv
<1> QED BY <1>1, <1>2 DEF IInv

\* The batch is classified.
LEMMA PlanKeeps ==
    ASSUME IInv, Plan
    PROVE  IInv'
<1>1. UNCHANGED planVars /\ UNCHANGED <<ready, cyclic, at, pending, found, results, saw>> /\ stage = "plan"
  BY DEF Plan
<1>2. CASE BadReference
  BY <1>1, <1>2, Failing DEF Plan, IInv, TypeOK, planVars, Batch
<1>3. CASE ~BadReference
  <2>1. /\ stage' = "next" /\ in_degree' = [k \in Batch |-> Cardinality(Deps(k))] /\ remaining' = Batch
        /\ env' = env \union (Present(pre) \intersect UNION {EnvDeps(k) : k \in Batch})
    BY <1>3 DEF Plan
  <2>2. \A k \in Batch : /\ Deps(k) = Deps(k) \intersect Batch
                         /\ Cardinality(Deps(k)) = Cardinality(Deps(k) \intersect Batch)
                         /\ Cardinality(Deps(k)) \in Nat
    <3>1. \A k \in Batch : Deps(k) = Deps(k) \intersect Batch
      BY DepsFinite DEF IInv
    <3>2. \A k \in Batch : Cardinality(Deps(k) \intersect Batch) \in Nat
      BY DepsFinite DEF IInv
    <3> QED BY <3>1, <3>2
  <2>3. Batch \subseteq Key
    BY DEF IInv, TypeOK, IsMap, Batch
  <2>4. TypeOK'
    <3>1. IsMap(in_degree', Nat)
      BY <2>1, <2>2, <2>3 DEF IsMap
    <3>2. env' \subseteq Key
      BY <2>1, <2>3, ProviderType DEF IInv, TypeOK, Present, IsMap
    <3> QED BY <1>1, <2>1, <3>1, <3>2, Fixed DEF IInv, TypeOK, planVars
  <2>5. ResultsInv'
    <3>1. Taken' = {} /\ ~BadReference'
      BY <1>1, <1>3, <2>1, Fixed DEF Taken
    <3> QED BY <1>1, <2>1, <3>1 DEF IInv, ResultsInv, Planned, planVars, Batch
  <2>6. DegreeInv'
    BY <1>1, <2>1, <2>2, Fixed DEF DegreeInv, Planned, Taken
  <2>7. EnvInv'
    BY <1>1, <2>1, Fixed DEF IInv, ResultsInv, EnvInv, Present
  <2>8. SawInv'
    BY <1>1, <2>1, Fixed DEF IInv, ResultsInv, SawInv
  <2>9. FoundInv' /\ KeptInv' /\ AcyclicInv'
    BY <1>1, <2>1, Fixed DEF IInv, ResultsInv, FoundInv, KeptInv, AcyclicInv, AcyclicIn, Taken
  <2> QED BY <2>4, <2>5, <2>6, <2>7, <2>8, <2>9 DEF IInv
<1> QED BY <1>2, <1>3

\* The start of a level, if its members are rightly chosen.
LEMMA StartKeeps ==
    ASSUME IInv, stage = "next", NEW L \in SUBSET remaining, Start(L), IsMap(in_degree', Nat),
           cyclic' \in BOOLEAN, cyclic => cyclic', cyclic' => remaining' = {}, DegreeInv', AcyclicInv'
    PROVE  IInv'
<1>1. /\ ready' = L /\ remaining' = remaining \ L /\ stage' = "level"
      /\ at' = [q \in Provider |-> IF \E k \in L : ProviderOf(k) = q THEN "call" ELSE "ok"]
      /\ UNCHANGED planVars /\ UNCHANGED <<pending, found, results, env, saw>>
  BY DEF Start
<1>2. ready = {} /\ DOMAIN found = {} /\ L \subseteq Batch /\ remaining \subseteq Batch
  BY DEF IInv, ResultsInv, TypeOK
<1>3. TypeOK'
  <2>1. at' \in [Provider -> {"call", "retry", "fallback", "ok", "error"}]
    BY <1>1
  <2> QED BY <1>1, <1>2, <2>1, Fixed DEF IInv, TypeOK, planVars
<1>4. Taken' \ ready' = Taken \ ready
  BY <1>1, <1>2, Fixed DEF Taken
<1>5. ResultsInv'
  BY <1>1, <1>2, <1>4, Fixed DEF IInv, ResultsInv, Planned, planVars
<1>6. EnvInv' /\ SawInv' /\ KeptInv'
  <2>1. EnvInv'
    BY <1>1, Fixed DEF IInv, EnvInv, Planned
  <2>2. SawInv'
    BY <1>1, Fixed DEF IInv, SawInv
  <2>3. KeptInv'
    BY <1>1, Fixed DEF IInv, KeptInv, Planned
  <2> QED BY <2>1, <2>2, <2>3
<1>7. FoundInv'
  <2>1. ASSUME NEW q \in Provider PROVE Own(q)' = {k \in L : ProviderOf(k) = q}
    BY <1>1, Fixed DEF Own
  <2>2. ASSUME NEW q \in Provider
        PROVE  at'[q] \in {"call", "ok"} /\ (at'[q] = "ok" => Own(q)' = {})
    BY <1>1, <2>1
  <2> QED BY <1>1, <1>2, <2>2 DEF FoundInv
<1> QED BY <1>3, <1>5, <1>6, <1>7 DEF IInv

\* A hard default does not refer to itself.
LEMMA NoSelfReference ==
    ASSUME ~BadReference, NEW k \in Batch, HardDefault(k)
    PROVE  k \notin Refs(k) /\ Refs(k) \subseteq Known /\ Refs(k) \intersect Batch \subseteq Deps(k)
BY DEF BadReference, Deps

\* Adding secrets that refer to none of each other to those that do not refer to them.
LEMMA AcyclicGrows ==
    ASSUME NEW D, NEW L, AcyclicIn(D), \A k \in D : HardDefault(k) => Refs(k) \intersect L = {},
           \A k \in L : HardDefault(k) => Refs(k) \intersect L = {}
    PROVE  AcyclicIn(D \union L)
<1> SUFFICES ASSUME NEW S \in SUBSET {k \in D \union L : HardDefault(k)}, S # {}
             PROVE  \E k \in S : Refs(k) \intersect S = {}
  BY DEF AcyclicIn
<1>1. CASE S \intersect D = {}
  BY <1>1
<1>2. CASE S \intersect D # {}
  <2>1. S \intersect D \in SUBSET {k \in D : HardDefault(k)}
    OBVIOUS
  <2>2. PICK k \in S \intersect D : Refs(k) \intersect (S \intersect D) = {}
    BY <1>2, <2>1 DEF AcyclicIn
  <2> QED BY <2>2
<1> QED BY <1>1, <1>2

\* A round of Kahn's algorithm.
LEMMA NextLevelKeeps ==
    ASSUME IInv, NextLevel
    PROVE  IInv'
<1> DEFINE L == {k \in remaining : in_degree[k] = 0}
<1>1. /\ stage = "next" /\ L # {} /\ Start(L) /\ UNCHANGED cyclic
      /\ in_degree' = [k \in Batch |-> in_degree[k] - Cardinality(Deps(k) \intersect L)]
  BY DEF NextLevel
<1>2. /\ ready' = L /\ remaining' = remaining \ L /\ stage' = "level" /\ UNCHANGED planVars
  BY <1>1 DEF Start
<1>3. /\ ~cyclic /\ ready = {} /\ remaining \subseteq Batch /\ ~BadReference
      /\ \A k \in Batch : in_degree[k] = Cardinality(Deps(k) \intersect remaining)
      /\ \A k \in Taken : Deps(k) \subseteq Taken
  BY <1>1 DEF IInv, ResultsInv, DegreeInv, Planned, TypeOK
<1>4. ASSUME NEW k \in Batch
      PROVE  /\ in_degree[k] - Cardinality(Deps(k) \intersect L) = Cardinality(Deps(k) \intersect (remaining \ L))
             /\ Cardinality(Deps(k) \intersect (remaining \ L)) \in Nat
  <2> DEFINE A == Deps(k) \intersect remaining
  <2>1. IsFiniteSet(A)
    BY DepsFinite DEF IInv
  <2>2. A \intersect L = Deps(k) \intersect L /\ A \ L = Deps(k) \intersect (remaining \ L)
    OBVIOUS
  <2>3. in_degree[k] = Cardinality(A)
    BY <1>3
  <2> HIDE DEF A, L
  <2>4. Cardinality(A) - Cardinality(A \intersect L) = Cardinality(A \ L) /\ Cardinality(A \ L) \in Nat
    BY <2>1, Counted
  <2> QED BY <2>2, <2>3, <2>4
<1>5. ASSUME NEW k \in L PROVE Deps(k) \subseteq Taken
  <2>1. k \in Batch /\ Cardinality(Deps(k) \intersect remaining) = 0
    BY <1>3
  <2>2. Deps(k) \intersect remaining = {}
    BY <2>1, DepsFinite, Counted DEF IInv
  <2> QED BY <2>2, DepsFinite DEF IInv, Taken
<1> HIDE DEF L
<1>6. IsMap(in_degree', Nat)
  BY <1>1, <1>4 DEF IInv, TypeOK, IsMap, Batch
<1>7. L \subseteq remaining
  BY DEF L
<1>8. Taken' = Taken \union L /\ Taken' \ ready' = Taken
  BY <1>2, <1>3, <1>7, Fixed DEF Taken
<1>9. DegreeInv'
  <2>1. DOMAIN in_degree' = Batch' /\ \A k \in Batch' : in_degree'[k] = Cardinality(Deps(k)' \intersect remaining')
    BY <1>1, <1>2, <1>4, Fixed
  <2>2. \A k \in Taken' : Deps(k)' \subseteq Taken' \ ready'
    BY <1>2, <1>3, <1>5, <1>8, Fixed
  <2> QED BY <2>1, <2>2 DEF DegreeInv
<1>10. AcyclicInv'
  <2>1. AcyclicIn(Taken)
    BY <1>1 DEF IInv, AcyclicInv, Planned
  <2>2. \A k \in Taken \union L : HardDefault(k) => Refs(k) \intersect L = {}
    BY <1>3, <1>5, <1>7, NoSelfReference DEF Taken
  <2>3. AcyclicIn(Taken \union L)
    BY <2>1, <2>2, AcyclicGrows
  <2>4. AcyclicIn(Taken)'
    BY <1>2, <1>8, <2>3, Fixed DEF AcyclicIn
  <2> QED BY <2>4 DEF AcyclicInv
<1> QED BY <1>1, <1>3, <1>6, <1>7, <1>9, <1>10, StartKeeps DEF IInv, TypeOK

\* Those left over are resolved together, if no required default is in the circle.
LEMMA CycleKeeps ==
    ASSUME IInv, Cycle
    PROVE  IInv'
<1>1. /\ stage = "next" /\ remaining # {} /\ UNCHANGED in_degree
  BY DEF Cycle
<1>2. CASE \E k \in remaining : HardDefault(k) /\ Refs(k) \intersect remaining # {}
  <2>1. /\ stage' = "failed" /\ UNCHANGED in_degree
        /\ UNCHANGED <<planVars, remaining, ready, cyclic, at, pending, found, results, env, saw>>
    BY <1>2 DEF Cycle
  <2> QED BY <2>1, Failing DEF IInv, TypeOK, planVars, Batch
<1>3. CASE ~ \E k \in remaining : HardDefault(k) /\ Refs(k) \intersect remaining # {}
  <2>1. Start(remaining) /\ cyclic' = TRUE
    BY <1>3 DEF Cycle
  <2>2. remaining' = {} /\ UNCHANGED planVars /\ stage' = "level"
    BY <2>1 DEF Start
  <2>3. DegreeInv'
    BY <2>1 DEF DegreeInv
  <2>4. AcyclicInv'
    <3>1. /\ AcyclicIn(Taken) /\ ~cyclic /\ ~BadReference /\ remaining \subseteq Batch
          /\ \A k \in Taken : Deps(k) \subseteq Taken
      BY <1>1 DEF IInv, AcyclicInv, Planned, ResultsInv, DegreeInv, TypeOK
    <3>2. \A k \in Taken : HardDefault(k) => Refs(k) \intersect remaining = {}
      BY <3>1, NoSelfReference DEF Taken
    <3>3. AcyclicIn(Taken \union remaining)
      BY <1>3, <3>1, <3>2, AcyclicGrows
    <3>4. Taken' = Taken \union remaining
      BY <2>2, <3>1, Fixed DEF Taken
    <3>5. AcyclicIn(Taken)'
      BY <2>2, <3>3, <3>4, Fixed DEF AcyclicIn
    <3> QED BY <3>5 DEF AcyclicInv
  <2> QED BY <1>1, <2>1, <2>2, <2>3, <2>4, StartKeeps DEF IInv, TypeOK
<1> QED BY <1>2, <1>3

\* A step of one provider: only what it has found changes.
LEMMA ProviderKeeps ==
    ASSUME IInv, stage = "level", UNCHANGED <<planVars, stage, levelVars, results, env>>,
           at' \in [Provider -> {"call", "retry", "fallback", "ok", "error"}],
           pending' \in [Provider -> SUBSET Batch],
           IsMap(found', Value), IsMap(saw', SUBSET Key), SawInv', FoundInv'
    PROVE  IInv'
<1>1. TypeOK'
  BY Fixed DEF IInv, TypeOK, planVars, levelVars
<1>2. ResultsInv'
  BY Fixed DEF IInv, ResultsInv, Planned, Taken, planVars, levelVars
<1>3. DegreeInv' /\ AcyclicInv'
  <2>1. DegreeInv'
    BY Fixed DEF IInv, DegreeInv, Planned, Taken, levelVars
  <2>2. AcyclicInv'
    BY Fixed DEF IInv, AcyclicInv, AcyclicIn, Planned, Taken, levelVars
  <2> QED BY <2>1, <2>2
<1>4. EnvInv' /\ KeptInv'
  BY Fixed DEF IInv, EnvInv, KeptInv, Planned, levelVars
<1> QED BY <1>1, <1>2, <1>3, <1>4 DEF IInv

\* A provider's secrets are secrets of the level.
LEMMA OwnType ==
    ASSUME IInv, NEW q \in Provider
    PROVE  Own(q) \subseteq ready /\ Own(q) \subseteq Batch /\ Own(q) \subseteq Key
BY DEF IInv, TypeOK, IsMap, Own, Batch

\* What a provider answers.
LEMMA AnswerKeeps ==
    ASSUME IInv, stage = "level", NEW q \in Provider, NEW bad \in SUBSET Own(q), Answer(q, bad),
           UNCHANGED <<planVars, stage, levelVars, results, env>>, IsMap(saw', SUBSET Key), SawInv'
    PROVE  IInv'
<1>1. /\ found' = With(found, Own(q) \ bad, "provider")
      /\ pending' = [pending EXCEPT ![q] = {k \in bad : secrets[k].default # None}]
      /\ at' = [at EXCEPT ![q] = "fallback"]
  BY DEF Answer
<1>2. /\ at \in [Provider -> {"call", "retry", "fallback", "ok", "error"}]
      /\ pending \in [Provider -> SUBSET Batch] /\ IsMap(found, Value)
  BY DEF IInv, TypeOK
<1>3. /\ IsMap(found', Value) /\ DOMAIN found' = DOMAIN found \union (Own(q) \ bad)
      /\ \A k \in DOMAIN found' : found'[k] = IF k \in Own(q) \ bad THEN "provider" ELSE found[k]
  <2>1. Own(q) \ bad \in SUBSET Key /\ "provider" \in Value
    BY OwnType DEF Value
  <2> DEFINE K == Own(q) \ bad
  <2> HIDE DEF K
  <2>2. /\ IsMap(With(found, K, "provider"), Value) /\ DOMAIN With(found, K, "provider") = DOMAIN found \union K
        /\ \A k \in DOMAIN found \union K :
              With(found, K, "provider")[k] = IF k \in K THEN "provider" ELSE found[k]
    BY <1>2, <2>1 DEF K, IsMap, With
  <2> QED BY <1>1, <2>2 DEF K
<1>4. /\ at' \in [Provider -> {"call", "retry", "fallback", "ok", "error"}]
      /\ pending' \in [Provider -> SUBSET Batch]
      /\ at'[q] = "fallback" /\ pending'[q] = {k \in bad : secrets[k].default # None}
      /\ \A r \in Provider \ {q} : at'[r] = at[r] /\ pending'[r] = pending[r]
  BY <1>1, <1>2, OwnType
<1>5. \A r : Own(r)' = Own(r)
  BY Fixed DEF Own, levelVars
<1>6. None # "provider"
  BY SecretResolverAssumption
<1>7. FoundInv'
  <2> SUFFICES /\ DOMAIN found' \subseteq ready'
               /\ \A k \in DOMAIN found' : found'[k] = None => secrets'[k].if_missing # "error"
               /\ \A r \in Provider :
                    /\ at'[r] = "fallback" => pending'[r] \subseteq Own(r)
                    /\ at'[r] = "ok" => Own(r) \subseteq DOMAIN found'
                    /\ ~cyclic' => \A k \in Own(r) : Usable(k) =>
                         /\ at'[r] = "fallback" => k \in pending'[r] \/ k \in DOMAIN found'
                         /\ k \in DOMAIN found' => found'[k] # None
    BY <1>5, Fixed DEF FoundInv
  <2>1. /\ DOMAIN found \subseteq ready
        /\ \A k \in DOMAIN found : found[k] = None => secrets[k].if_missing # "error"
    BY DEF IInv, FoundInv
  <2>2. DOMAIN found' \subseteq ready'
    BY <1>3, <2>1, OwnType DEF levelVars
  <2>3. \A k \in DOMAIN found' : found'[k] = None => secrets'[k].if_missing # "error"
    BY <1>3, <1>6, <2>1, Fixed
  <2>4. ASSUME NEW r \in Provider \ {q}
        PROVE  /\ at'[r] = "fallback" => pending'[r] \subseteq Own(r)
               /\ at'[r] = "ok" => Own(r) \subseteq DOMAIN found'
               /\ ~cyclic' => \A k \in Own(r) : Usable(k) =>
                    /\ at'[r] = "fallback" => k \in pending'[r] \/ k \in DOMAIN found'
                    /\ k \in DOMAIN found' => found'[k] # None
    <3>1. Own(r) \intersect Own(q) = {}
      BY DEF Own
    <3> QED BY <1>3, <1>4, <3>1 DEF IInv, FoundInv, levelVars
  <2>5. /\ at'[q] = "fallback" => pending'[q] \subseteq Own(q)
        /\ at'[q] = "ok" => Own(q) \subseteq DOMAIN found'
        /\ ~cyclic' => \A k \in Own(q) : Usable(k) =>
             /\ at'[q] = "fallback" => k \in pending'[q] \/ k \in DOMAIN found'
             /\ k \in DOMAIN found' => found'[k] # None
    BY <1>3, <1>4, <1>6 DEF IInv, FoundInv, levelVars, Usable
  <2> QED BY <2>2, <2>3, <2>4, <2>5
<1> QED BY <1>3, <1>4, <1>7, ProviderKeeps

\* A provider that is asked again, or has failed.
LEMMA UnansweredKeeps ==
    ASSUME IInv, stage = "level", NEW q \in Provider,
           at' \in {[at EXCEPT ![q] = "retry"], [at EXCEPT ![q] = "error"]}, UNCHANGED <<pending, found>>,
           UNCHANGED <<planVars, stage, levelVars, results, env>>, IsMap(saw', SUBSET Key), SawInv'
    PROVE  IInv'
<1>1. /\ at' \in [Provider -> {"call", "retry", "fallback", "ok", "error"}]
      /\ at'[q] \notin {"fallback", "ok"} /\ \A r \in Provider \ {q} : at'[r] = at[r]
  BY DEF IInv, TypeOK
<1>2. \A r : Own(r)' = Own(r)
  BY Fixed DEF Own, levelVars
<1>3. FoundInv'
  BY <1>1, <1>2, Fixed DEF IInv, FoundInv, levelVars
<1> QED BY <1>1, <1>3, ProviderKeeps DEF IInv, TypeOK

\* A provider that is not asked.
LEMMA SkipKeeps ==
    ASSUME IInv, NEW q \in Provider, SkipProvider(q)
    PROVE  IInv'
<1>1. /\ stage = "level" /\ Answer(q, Own(q)) /\ UNCHANGED <<planVars, stage, levelVars, results, env, saw>>
  BY DEF SkipProvider
<1>2. IsMap(saw', SUBSET Key)
  BY <1>1 DEF IInv, TypeOK
<1>3. SawInv'
  BY <1>1, Fixed DEF IInv, SawInv, levelVars
<1> QED BY <1>1, <1>2, <1>3, AnswerKeeps

\* A provider that is asked finds in the environment what it needs.
LEMMA CallKeeps ==
    ASSUME IInv, NEW q \in Provider, CallProvider(q)
    PROVE  IInv'
<1>1. /\ stage = "level" /\ saw' = With(saw, Own(q), env)
      /\ UNCHANGED <<planVars, stage, levelVars, results, env>>
  BY DEF CallProvider
<1>2. /\ IsMap(saw', SUBSET Key) /\ DOMAIN saw' = DOMAIN saw \union Own(q)
      /\ \A k \in DOMAIN saw' : saw'[k] = IF k \in Own(q) THEN env ELSE saw[k]
  <2>1. Own(q) \in SUBSET Key /\ env \in SUBSET Key /\ IsMap(saw, SUBSET Key)
    BY OwnType DEF IInv, TypeOK
  <2>2. /\ IsMap(With(saw, Own(q), env), SUBSET Key) /\ DOMAIN With(saw, Own(q), env) = DOMAIN saw \union Own(q)
        /\ \A k \in DOMAIN saw \union Own(q) :
              With(saw, Own(q), env)[k] = IF k \in Own(q) THEN env ELSE saw[k]
    BY <2>1 DEF IsMap, With
  <2> QED BY <1>1, <2>2
<1>3. SawInv'
  <2>1. DOMAIN saw' \subseteq Batch'
    BY <1>1, <1>2, OwnType, Fixed DEF IInv, SawInv
  <2>2. ASSUME ~cyclic, NEW k \in Own(q), NEW d \in (EnvDeps(k) \intersect Known) \ {k}
        PROVE  d \in DOMAIN results /\ (results[d] # None => d \in env)
    <3>1. k \in Batch /\ k \in Taken
      BY <1>1, OwnType DEF IInv, ResultsInv, Taken, Planned
    <3>2. CASE d \in Batch
      <4>1. d \in Taken \ ready
        BY <1>1, <2>2, <3>1, <3>2 DEF Deps, IInv, DegreeInv, Planned
      <4> QED BY <1>1, <2>2, <3>2, <4>1 DEF IInv, ResultsInv, EnvInv, Planned
    <3>3. CASE d \notin Batch
      <4>1. d \in DOMAIN pre
        BY <3>3 DEF Known
      <4> QED BY <1>1, <2>2, <3>1, <4>1 DEF IInv, ResultsInv, EnvInv, Planned
    <3> QED BY <3>2, <3>3
  <2>3. ASSUME ~cyclic, NEW k \in DOMAIN saw, NEW d \in (EnvDeps(k) \intersect Known) \ {k}
        PROVE  d \in DOMAIN results /\ (results[d] # None => d \in saw[k])
    BY <2>3 DEF IInv, SawInv
  <2>4. ~cyclic => \A k \in DOMAIN saw' : \A d \in (EnvDeps(k) \intersect Known) \ {k} :
                      d \in DOMAIN results /\ (results[d] # None => d \in saw'[k])
    BY <1>2, <2>2, <2>3
  <2> QED BY <1>1, <2>1, <2>4, Fixed DEF SawInv, levelVars
<1>4. CASE \E bad \in SUBSET Own(q) : Answer(q, bad)
  BY <1>1, <1>2, <1>3, <1>4, AnswerKeeps
<1>5. CASE at' \in {[at EXCEPT ![q] = "retry"], [at EXCEPT ![q] = "error"]} /\ UNCHANGED <<pending, found>>
  BY <1>1, <1>2, <1>3, <1>5, UnansweredKeeps
<1> QED BY <1>4, <1>5 DEF CallProvider

\* More values of one provider's secrets, in what is found and what waits.
LEMMA FillKeeps ==
    ASSUME IInv, stage = "level", NEW q \in Provider, NEW R \in SUBSET Own(q), NEW v \in Value,
           NEW P \in SUBSET Own(q), NEW l \in {"fallback", "ok"},
           found' = With(found, R, v), pending' = [pending EXCEPT ![q] = P], at' = [at EXCEPT ![q] = l],
           v = None => \A k \in R : secrets[k].if_missing # "error",
           l = "ok" => Own(q) \subseteq DOMAIN found \union R,
           ~cyclic => \A k \in Own(q) : Usable(k) =>
               /\ k \in P \/ k \in DOMAIN found \union R
               /\ k \in R => v # None,
           UNCHANGED <<planVars, stage, levelVars, results, env, saw>>
    PROVE  IInv'
<1>1. /\ at \in [Provider -> {"call", "retry", "fallback", "ok", "error"}]
      /\ pending \in [Provider -> SUBSET Batch] /\ IsMap(found, Value)
  BY DEF IInv, TypeOK
<1>2. R \subseteq Key /\ R \subseteq ready /\ R \subseteq Batch /\ P \subseteq Batch
  BY OwnType
<1>3. /\ IsMap(found', Value) /\ DOMAIN found' = DOMAIN found \union R
      /\ \A k \in DOMAIN found' : found'[k] = IF k \in R THEN v ELSE found[k]
  BY <1>1, <1>2 DEF With, IsMap
<1>4. /\ at' \in [Provider -> {"call", "retry", "fallback", "ok", "error"}]
      /\ pending' \in [Provider -> SUBSET Batch]
      /\ at'[q] = l /\ pending'[q] = P
      /\ \A r \in Provider \ {q} : at'[r] = at[r] /\ pending'[r] = pending[r]
  BY <1>1, <1>2
<1>5. \A r : Own(r)' = Own(r)
  BY Fixed DEF Own, levelVars
<1>6. FoundInv'
  <2> SUFFICES /\ DOMAIN found' \subseteq ready'
               /\ \A k \in DOMAIN found' : found'[k] = None => secrets'[k].if_missing # "error"
               /\ \A r \in Provider :
                    /\ at'[r] = "fallback" => pending'[r] \subseteq Own(r)
                    /\ at'[r] = "ok" => Own(r) \subseteq DOMAIN found'
                    /\ ~cyclic' => \A k \in Own(r) : Usable(k) =>
                         /\ at'[r] = "fallback" => k \in pending'[r] \/ k \in DOMAIN found'
                         /\ k \in DOMAIN found' => found'[k] # None
    BY <1>5, Fixed DEF FoundInv
  <2>1. /\ DOMAIN found \subseteq ready
        /\ \A k \in DOMAIN found : found[k] = None => secrets[k].if_missing # "error"
    BY DEF IInv, FoundInv
  <2>2. DOMAIN found' \subseteq ready'
    BY <1>2, <1>3, <2>1 DEF levelVars
  <2>3. \A k \in DOMAIN found' : found'[k] = None => secrets'[k].if_missing # "error"
    BY <1>3, <2>1, Fixed
  <2>4. ASSUME NEW r \in Provider \ {q}
        PROVE  /\ at'[r] = "fallback" => pending'[r] \subseteq Own(r)
               /\ at'[r] = "ok" => Own(r) \subseteq DOMAIN found'
               /\ ~cyclic' => \A k \in Own(r) : Usable(k) =>
                    /\ at'[r] = "fallback" => k \in pending'[r] \/ k \in DOMAIN found'
                    /\ k \in DOMAIN found' => found'[k] # None
    <3>1. Own(r) \intersect Own(q) = {}
      BY DEF Own
    <3> QED BY <1>3, <1>4, <3>1 DEF IInv, FoundInv, levelVars
  <2>5. /\ at'[q] = "fallback" => pending'[q] \subseteq Own(q)
        /\ at'[q] = "ok" => Own(q) \subseteq DOMAIN found'
        /\ ~cyclic' => \A k \in Own(q) : Usable(k) =>
             /\ at'[q] = "fallback" => k \in pending'[q] \/ k \in DOMAIN found'
             /\ k \in DOMAIN found' => found'[k] # None
    BY <1>3, <1>4 DEF IInv, FoundInv, levelVars
  <2> QED BY <2>2, <2>3, <2>4, <2>5
<1>7. IsMap(saw', SUBSET Key) /\ SawInv'
  BY Fixed DEF IInv, TypeOK, SawInv, levelVars
<1> QED BY <1>3, <1>4, <1>6, <1>7, ProviderKeeps

\* A default that can be evaluated in the batch waits, or gets its value.
LEMMA FallbackKeeps ==
    ASSUME IInv, NEW q \in Provider, FallbackPass(q)
    PROVE  IInv'
<1> DEFINE context == Context(q)
           waiting == {k \in pending[q] : Refs(k) \subseteq context \union pending[q]}
<1>1. /\ stage = "level" /\ at[q] = "fallback"
      /\ UNCHANGED <<planVars, stage, levelVars, results, env, saw>>
  BY DEF FallbackPass
<1>2. pending[q] \subseteq Own(q)
  BY <1>1 DEF IInv, FoundInv
<1>3. CASE at' = [at EXCEPT ![q] = "error"] /\ UNCHANGED <<found, pending>>
  <2>1. IsMap(saw', SUBSET Key) /\ SawInv'
    BY <1>1, Fixed DEF IInv, TypeOK, SawInv, levelVars
  <2> QED BY <1>1, <1>3, <2>1, UnansweredKeeps
<1>4. ASSUME NEW R \in SUBSET waiting, found' = With(found, R, "default"),
             pending' = [pending EXCEPT ![q] = waiting \ R], UNCHANGED at
      PROVE  IInv'
  <2>1. at' = [at EXCEPT ![q] = "fallback"]
    BY <1>1, <1>4 DEF IInv, TypeOK
  <2>2. ASSUME ~cyclic, NEW k \in Own(q), Usable(k)
        PROVE  k \in waiting \ R \/ k \in DOMAIN found \union R
    <3>1. k \in pending[q] \/ k \in DOMAIN found
      BY <1>1, <2>2 DEF IInv, FoundInv
    <3>2. ASSUME k \in pending[q] PROVE k \in waiting
      <4>1. k \in Batch /\ k \in Taken
        BY <1>1, OwnType DEF IInv, ResultsInv, Taken, Planned
      <4>2. Deps(k) \subseteq Taken \ ready
        BY <1>1, <2>2, <4>1 DEF IInv, DegreeInv, Planned
      <4>3. Refs(k) \subseteq Deps(k) \union {k} \union DOMAIN pre
        BY <2>2 DEF Usable, Known, Deps
      <4>4. DOMAIN pre \union (Taken \ ready) \subseteq context
        BY <1>1 DEF IInv, ResultsInv, Planned, Context
      <4> QED BY <3>2, <4>2, <4>3, <4>4
    <3> QED BY <3>1, <3>2
  <2>3. waiting \ R \in SUBSET Own(q) /\ R \in SUBSET Own(q) /\ "default" \in Value /\ "default" # None
    BY <1>2, SecretResolverAssumption DEF Value
  <2> HIDE DEF waiting, context
  <2> QED BY <1>1, <1>4, <2>1, <2>2, <2>3, FillKeeps
<1> QED BY <1>3, <1>4 DEF FallbackPass

\* What is still missing is settled.
LEMMA SettleKeeps ==
    ASSUME IInv, NEW q \in Provider, Settle(q)
    PROVE  IInv'
<1> DEFINE missing == Own(q) \ DOMAIN found
<1>1. /\ stage = "level" /\ at[q] = "fallback" /\ pending[q] = {}
      /\ UNCHANGED <<planVars, stage, levelVars, pending, results, env, saw>>
  BY DEF Settle
<1>2. CASE at' = [at EXCEPT ![q] = "error"] /\ UNCHANGED found
  <2>1. IsMap(saw', SUBSET Key) /\ SawInv'
    BY <1>1, Fixed DEF IInv, TypeOK, SawInv, levelVars
  <2> QED BY <1>1, <1>2, <2>1, UnansweredKeeps
<1>3. CASE /\ ~ \E k \in missing : secrets[k].if_missing = "error"
           /\ found' = With(found, missing, None) /\ at' = [at EXCEPT ![q] = "ok"]
  <2>1. pending' = [pending EXCEPT ![q] = {}] /\ None \in Value
    BY <1>1 DEF IInv, TypeOK, Value
  <2>2. ~cyclic => \A k \in Own(q) : Usable(k) => k \in DOMAIN found /\ k \notin missing
    BY <1>1 DEF IInv, FoundInv
  <2>3. missing \in SUBSET Own(q) /\ Own(q) \subseteq DOMAIN found \union missing
    OBVIOUS
  <2> HIDE DEF missing
  <2> QED BY <1>1, <1>3, <2>1, <2>2, <2>3, FillKeeps
<1> QED BY <1>2, <1>3 DEF Settle

\* A secret of a level that did not fail has a value, or may be missing.
LEMMA LevelValues ==
    ASSUME IInv, stage = "level", \A q \in Provider : at[q] \in {"ok", "error"}, ~LevelFailed
    PROVE  \A k \in ready :
              /\ Level[k] \in Value
              /\ Level[k] = None => secrets[k].if_missing # "error"
              /\ ~cyclic /\ Usable(k) => Level[k] # None
<1> SUFFICES ASSUME NEW k \in ready
             PROVE  /\ Level[k] \in Value
                    /\ Level[k] = None => secrets[k].if_missing # "error"
                    /\ ~cyclic /\ Usable(k) => Level[k] # None
  OBVIOUS
<1>1. k \in Batch /\ IsMap(found, Value)
  BY DEF IInv, TypeOK
<1>2. Level[k] = IF k \in Unowned THEN WithoutProvider(k) ELSE found[k]
  BY DEF Level
<1>3. CASE k \in Unowned
  <2>1. WithoutProvider(k) \in Value
    BY DEF WithoutProvider, Value
  <2>2. WithoutProvider(k) = None => secrets[k].if_missing # "error"
    BY <1>3 DEF LevelFailed
  <2>3. Usable(k) => WithoutProvider(k) # None
    BY SecretResolverAssumption DEF Usable, WithoutProvider
  <2> QED BY <1>2, <1>3, <2>1, <2>2, <2>3
<1>4. CASE k \notin Unowned
  <2>1. ProviderOf(k) \in Provider /\ k \in Own(ProviderOf(k))
    BY <1>1, <1>4, ProviderType DEF Unowned, Own, IInv
  <2>2. at[ProviderOf(k)] = "ok"
    BY <2>1 DEF LevelFailed
  <2>3. k \in DOMAIN found
    BY <2>1, <2>2 DEF IInv, FoundInv
  <2>4. found[k] \in Value
    BY <1>1, <2>3 DEF IsMap
  <2> QED BY <1>2, <1>4, <2>1, <2>3, <2>4 DEF IInv, FoundInv
<1> QED BY <1>3, <1>4

\* The end of a level.
LEMMA EndLevelKeeps ==
    ASSUME IInv, EndLevel
    PROVE  IInv'
<1>1. /\ stage = "level" /\ \A q \in Provider : at[q] \in {"ok", "error"}
      /\ found' = [k \in {} |-> None] /\ ready' = {}
      /\ UNCHANGED planVars /\ UNCHANGED <<in_degree, remaining, cyclic, at, pending, saw>>
  BY DEF EndLevel
<1>2. IsMap(found', Value) /\ DOMAIN found' = {}
  BY <1>1 DEF IsMap
<1>3. CASE stage' = "failed" /\ UNCHANGED <<results, env>>
  <2>1. TypeOK'
    BY <1>1, <1>2, <1>3, Fixed DEF IInv, TypeOK, planVars
  <2> QED BY <1>1, <1>3, <2>1, Failing
<1>4. CASE /\ ~LevelFailed /\ stage' = "next"
           /\ results' = [k \in DOMAIN results \union ready |-> IF k \in ready THEN Level[k] ELSE results[k]]
           /\ env' = IF cyclic THEN env ELSE env \union Present(Level)
  <2>1. \A k \in ready : /\ Level[k] \in Value
                         /\ Level[k] = None => secrets[k].if_missing # "error"
                         /\ ~cyclic /\ Usable(k) => Level[k] # None
    BY <1>1, <1>4, LevelValues
  <2>2. /\ DOMAIN results = DOMAIN pre \union (Taken \ ready) /\ remaining \intersect ready = {}
        /\ ready \subseteq Batch /\ DOMAIN pre \intersect Batch = {} /\ ~BadReference /\ Batch \subseteq Key
        /\ cyclic => remaining = {}
    BY <1>1 DEF IInv, ResultsInv, Planned, TypeOK, IsMap, Batch
  <2>3. ready \subseteq Taken /\ DOMAIN results \intersect ready = {} /\ DOMAIN Level = ready
    BY <2>2 DEF Taken, Level
  <2>4. /\ DOMAIN results' = DOMAIN pre \union Taken
        /\ \A k \in DOMAIN results : k \in DOMAIN results' /\ results'[k] = results[k]
        /\ \A k \in ready : k \in DOMAIN results' /\ results'[k] = Level[k]
        /\ \A k \in DOMAIN results' : k \in DOMAIN results \/ k \in ready
    BY <1>4, <2>2, <2>3
  <2>5. /\ Taken' = Taken /\ Taken' \ ready' = Taken /\ (Planned' /\ Planned)
    BY <1>1, <1>4, Fixed DEF Taken, Planned
  <2>6. TypeOK'
    <3>1. IsMap(results', Value)
      <4>1. IsMap(results, Value)
        BY DEF IInv, TypeOK
      <4>2. \A k \in DOMAIN results' : results'[k] \in Value
        BY <2>1, <2>4, <4>1 DEF IsMap
      <4>3. DOMAIN results' \subseteq Key
        BY <2>2, <2>4, <4>1 DEF IsMap
      <4>4. results' = [k \in DOMAIN results' |-> results'[k]]
        BY <1>4
      <4> QED BY <4>2, <4>3, <4>4 DEF IsMap
    <3>2. env' \subseteq Key
      BY <1>4, <2>2, <2>3 DEF IInv, TypeOK, Present
    <3> QED BY <1>1, <1>2, <1>4, <3>1, <3>2, Fixed DEF IInv, TypeOK, planVars
  <2>7. ResultsInv'
    BY <1>1, <1>2, <1>4, <2>2, <2>4, <2>5, Fixed DEF ResultsInv, planVars
  <2>8. DegreeInv'
    BY <1>1, <2>5, Fixed DEF IInv, DegreeInv
  <2>9. EnvInv'
    <3> SUFFICES ASSUME ~cyclic, NEW d \in DOMAIN results', results'[d] # None,
                        d \in Batch \/ \E k \in Batch : d \in EnvDeps(k)
                 PROVE  d \in env'
      BY <1>1, Fixed DEF EnvInv
    <3>1. env' = env \union Present(Level)
      BY <1>4
    <3>2. CASE d \in ready
      BY <2>3, <2>4, <3>1, <3>2 DEF Present
    <3>3. CASE d \in DOMAIN results
      BY <2>4, <2>5, <3>1, <3>3 DEF IInv, EnvInv
    <3> QED BY <2>4, <3>2, <3>3
  <2>10. SawInv'
    <3>1. ~cyclic => \A k \in DOMAIN saw : \A d \in (EnvDeps(k) \intersect Known) \ {k} :
                        d \in DOMAIN results' /\ (results'[d] # None => d \in saw[k])
      BY <2>4 DEF IInv, SawInv
    <3> QED BY <1>1, <3>1, Fixed DEF IInv, SawInv
  <2>11. FoundInv'
    BY <1>4 DEF FoundInv
  <2>12. KeptInv'
    <3> SUFFICES ASSUME NEW k \in Batch \intersect DOMAIN results'
                 PROVE  /\ results'[k] = None => secrets[k].if_missing # "error"
                        /\ ~cyclic /\ Usable(k) => results'[k] # None
      BY <1>1, Fixed DEF KeptInv
    <3>1. CASE k \in ready
      <4>1. results'[k] = Level[k]
        BY <2>4, <3>1
      <4> HIDE DEF Level, Usable
      <4> QED BY <2>1, <3>1, <4>1
    <3>2. CASE k \in DOMAIN results
      BY <2>4, <2>5, <3>2 DEF IInv, KeptInv
    <3> QED BY <2>4, <3>1, <3>2
  <2>13. AcyclicInv'
    BY <1>1, <2>5, Fixed DEF IInv, AcyclicInv, AcyclicIn
  <2> QED BY <2>6, <2>7, <2>8, <2>9, <2>10, <2>11, <2>12, <2>13 DEF IInv
<1> QED BY <1>3, <1>4 DEF EndLevel

\* The batch is returned, or nothing happens.
LEMMA QuietKeeps ==
    ASSUME IInv, UNCHANGED <<planVars, levelVars, at, pending, found, results, env, saw>>,
           stage' = stage \/ (stage = "next" /\ remaining = {} /\ stage' = "done")
    PROVE  IInv'
<1>1. /\ UNCHANGED planVars /\ UNCHANGED <<in_degree, remaining, ready, cyclic>>
      /\ UNCHANGED <<at, pending, found, results, env, saw>>
      /\ Planned' => Planned /\ Taken' = Taken
  BY Fixed DEF levelVars, Planned, Taken
<1>2. TypeOK'
  BY <1>1, Fixed DEF IInv, TypeOK, planVars
<1>3. ResultsInv'
  BY <1>1, Fixed DEF IInv, ResultsInv, planVars, Planned, Taken
<1>4. DegreeInv'
  BY <1>1, Fixed DEF IInv, DegreeInv
<1>5. EnvInv'
  BY <1>1, Fixed DEF IInv, EnvInv
<1>6. SawInv'
  BY <1>1, Fixed DEF IInv, SawInv
<1>7. FoundInv'
  <2>1. \A q : Own(q)' = Own(q)
    BY <1>1, Fixed DEF Own
  <2> QED BY <1>1, <2>1, Fixed DEF IInv, FoundInv
<1>8. KeptInv'
  BY <1>1, Fixed DEF IInv, KeptInv
<1>9. AcyclicInv'
  <2>1. Planned' => AcyclicIn(Taken)
    BY <1>1 DEF IInv, AcyclicInv
  <2> QED BY <1>1, <2>1, Fixed DEF AcyclicInv, AcyclicIn, Taken
<1> QED BY <1>2, <1>3, <1>4, <1>5, <1>6, <1>7, <1>8, <1>9 DEF IInv

\* Every step keeps the invariant.
LEMMA NextKeeps ==
    ASSUME IInv, [Next]_vars
    PROVE  IInv'
<1>1. CASE Plan
  BY <1>1, PlanKeeps
<1>2. CASE NextLevel
  BY <1>2, NextLevelKeeps
<1>3. CASE Cycle
  BY <1>3, CycleKeeps
<1>4. CASE EndLevel
  BY <1>4, EndLevelKeeps
<1>5. CASE Finish
  BY <1>5, QuietKeeps DEF Finish
<1>6. ASSUME NEW q \in Provider, SkipProvider(q) PROVE IInv'
  BY <1>6, SkipKeeps
<1>7. ASSUME NEW q \in Provider, CallProvider(q) PROVE IInv'
  BY <1>7, CallKeeps
<1>8. ASSUME NEW q \in Provider, FallbackPass(q) PROVE IInv'
  BY <1>8, FallbackKeeps
<1>9. ASSUME NEW q \in Provider, Settle(q) PROVE IInv'
  BY <1>9, SettleKeeps
<1>10. CASE UNCHANGED vars
  BY <1>10, QuietKeeps DEF vars, planVars, levelVars
<1> QED BY <1>1, <1>2, <1>3, <1>4, <1>5, <1>6, <1>7, <1>8, <1>9, <1>10 DEF Next

----------------------------------------------------------------------------
\* The inductive invariant holds in every state of every batch.
THEOREM Invariance == Spec => []IInv
<1>1. Init => IInv
  BY InitKeeps
<1>2. IInv /\ [Next]_vars => IInv'
  BY NextKeeps
<1> QED BY <1>1, <1>2, PTL DEF Spec

\* A batch that resolve_secrets_batch returns holds every secret that was asked for, none
\* that must not be missing is missing, a default that can be evaluated within the batch is
\* used whichever providers fail, and a default that is the only source and refers to nothing,
\* or to itself through others, is refused.
THEOREM BatchIsSound == Spec => []BatchSound
<1>1. IInv => BatchSound
  <2> SUFFICES ASSUME IInv PROVE BatchSound
    OBVIOUS
  <2>1. ASSUME stage = "done"
        PROVE  /\ DOMAIN results = DOMAIN pre \union Batch /\ ~BadReference /\ Planned
               /\ Taken = Batch
    BY <2>1 DEF IInv, ResultsInv, Planned, Taken
  <2>2. Complete
    BY <2>1 DEF IInv, Complete, KeptInv
  <2>3. DefaultUsed
    BY <2>1 DEF IInv, DefaultUsed, KeptInv, Usable
  <2>4. BadDefaultsRejected
    <3>1. ASSUME stage = "done"
          PROVE  /\ \A k \in {b \in Batch : HardDefault(b)} : Refs(k) \subseteq Known
                 /\ \A S \in (SUBSET {b \in Batch : HardDefault(b)}) \ {{}} :
                       \E k \in S : Refs(k) \intersect S = {}
      BY <2>1, <3>1, NoSelfReference DEF IInv, AcyclicInv, AcyclicIn
    <3> QED BY <3>1 DEF BadDefaultsRejected
  <2> QED BY <2>2, <2>3, <2>4 DEF IInv, BatchSound
<1> QED BY <1>1, Invariance, PTL

\* A provider is asked for a secret only after every secret whose name it reads from the
\* environment is resolved and set (the topological levels of resolve_secrets_batch),
\* as long as Kahn's algorithm does not end in a cycle.
THEOREM DependenciesComeFirst == Spec => []DependenciesFirst
<1>1. IInv => DependenciesFirst
  BY DEF IInv, SawInv, DependenciesFirst
<1> QED BY <1>1, Invariance, PTL
=============================================================================
