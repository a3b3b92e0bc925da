--------------------------- MODULE ConfigEditsProofs ---------------------------
(***************************************************************************)
(* TLAPS proofs about ConfigLayers and ConfigEdits, for any files,         *)
(* profiles, command lines and processes: what is loaded is of the right   *)
(* shape, discovery puts what is inherited first and loads its files, and  *)
(* the files refer to nothing that the remote store does not have.         *)
(***************************************************************************)
EXTENDS ConfigEdits, FiniteSetTheorems, WellFoundedInduction, TLAPS

--------------------------------------------------------------------------------
(* Recursion and sets of numbers. *)

(* Every set of natural numbers has a least element, and a greatest one if it is bounded. *)
LEMMA LeastNatural ==
  ASSUME NEW T \in SUBSET Nat, T # {}
  PROVE  \E n \in T : \A m \in T : n <= m
<1>1. PICK n \in T : \A m \in T : ~(<<m, n>> \in OpToRel(<, Nat))
  BY WFMin, NatLessThanWellFounded, Zenon
<1>2. \A m \in T : ~(m < n)
  BY <1>1 DEF OpToRel
<1> QED BY <1>2

LEMMA GreatestNatural ==
  ASSUME NEW b \in Nat, NEW T \in SUBSET (0..b), T # {}
  PROVE  \E n \in T : \A m \in T : m <= n
<1> DEFINE U == {b - m : m \in T}
<1>1. U \in SUBSET Nat /\ U # {}
  <2>1. PICK t \in T : TRUE
    OBVIOUS
  <2>2. b - t \in U
    OBVIOUS
  <2>3. \A v \in U : v \in Nat
    OBVIOUS
  <2> HIDE DEF U
  <2> QED BY <2>2, <2>3
<1>2. PICK u \in U : \A v \in U : u <= v
  <2> HIDE DEF U
  <2> QED BY <1>1, LeastNatural
<1>3. PICK n \in T : u = b - n
  BY <1>2
<1>4. ASSUME NEW m \in T PROVE m <= n
  <2>1. b - m \in U
    OBVIOUS
  <2> HIDE DEF U
  <2>2. b - n <= b - m
    BY <1>2, <1>3, <2>1
  <2> QED BY <2>2
<1> QED BY <1>3, <1>4

(* Counting up to m reaches every number. *)
LEMMA Counting ==
  ASSUME NEW m \in Nat, NEW T, 0 \in T, \A n \in 1..m : n - 1 \in T => n \in T
  PROVE  0..m \subseteq T
<1> DEFINE U == {n \in 0..m : n \notin T}
<1> SUFFICES ASSUME U # {} PROVE FALSE
  OBVIOUS
<1>1. PICK n \in U : \A k \in U : n <= k
  <2> U \in SUBSET Nat
    OBVIOUS
  <2> HIDE DEF U
  <2> QED BY LeastNatural
<1>2. n \in 1..m /\ n \notin T
  BY <1>1
<1>3. n - 1 \in 0..m /\ n - 1 \notin U
  <2> HIDE DEF U
  <2> QED BY <1>1, <1>2
<1> QED BY <1>2, <1>3

(* A function may be defined by recursion over 0..m. *)
Iterates(f, m, S, b, g) ==
  f \in [0..m -> S] /\ f[0] = b /\ \A n \in 1..m : f[n - 1] \in S /\ f[n] = g[<<n, f[n - 1]>>]

LEMMA Recursion ==
  ASSUME NEW m \in Nat, NEW S, NEW b \in S, NEW g \in [(1..m) \X S -> S]
  PROVE  \E f : Iterates(f, m, S, b, g)
<1> DEFINE Val(f, n) == IF n = 0 THEN b ELSE g[<<n, f[n - 1]>>]
           Is(f, k) == f \in [0..k -> S] /\ \A n \in 0..k : f[n] = Val(f, n)
           T == {k \in 0..m : \E f : Is(f, k)}
<1>1. 0 \in T
  <2> DEFINE h == [n \in 0..0 |-> b]
  <2>1. h \in [0..0 -> S] /\ \A n \in 0..0 : n = 0 /\ h[n] = b
    OBVIOUS
  <2> HIDE DEF h
  <2>2. Is(h, 0)
    BY <2>1
  <2> HIDE DEF Is
  <2> QED BY <2>2
<1>2. ASSUME NEW k \in 1..m, k - 1 \in T PROVE k \in T
  <2>1. PICK f : Is(f, k - 1)
    BY <1>2
  <2>2. f \in [0..k - 1 -> S] /\ \A n \in 0..k - 1 : f[n] = Val(f, n)
    BY <2>1
  <2> DEFINE e == g[<<k, f[k - 1]>>]
             h == [n \in 0..k |-> IF n = k THEN e ELSE f[n]]
  <2>3. k \in Nat /\ k # 0 /\ k - 1 \in 0..k - 1 /\ <<k, f[k - 1]>> \in (1..m) \X S
    BY <2>2
  <2>4. e \in S
    BY <2>3
  <2>5. h \in [0..k -> S] /\ h[k] = e /\ \A n \in 0..k - 1 : h[n] = f[n]
    <3> HIDE DEF e
    <3> QED BY <2>2, <2>3, <2>4
  <2>6. ASSUME NEW n \in 0..k PROVE h[n] = Val(h, n)
    <3> HIDE DEF h
    <3>1. CASE n = k
      BY <3>1, <2>3, <2>5
    <3>2. CASE n # k /\ n = 0
      <4>1. n \in 0..k - 1
        BY <3>2, <2>3
      <4> QED BY <3>2, <4>1, <2>2, <2>5
    <3>3. CASE n # k /\ n # 0
      <4>1. n \in 0..k - 1 /\ n - 1 \in 0..k - 1
        BY <3>3, <2>3
      <4>2. h[n] = f[n] /\ h[n - 1] = f[n - 1]
        BY <4>1, <2>5
      <4>3. f[n] = g[<<n, f[n - 1]>>]
        BY <4>1, <3>3, <2>2
      <4> QED BY <4>2, <4>3, <3>3
    <3> QED BY <3>1, <3>2, <3>3
  <2> HIDE DEF h
  <2>7. Is(h, k)
    BY <2>5, <2>6
  <2> HIDE DEF Is
  <2> QED BY <2>7
<1>3. m \in T
  <2> HIDE DEF T
  <2> QED BY <1>1, <1>2, Counting
<1>4. PICK f : Is(f, m)
  BY <1>3
<1>5. f \in [0..m -> S] /\ \A n \in 0..m : f[n] = Val(f, n)
  BY <1>4
<1>6. \A n \in 1..m : n \in 0..m /\ n # 0 /\ n - 1 \in 0..m
  OBVIOUS
<1>7. 0 \in 0..m
  OBVIOUS
<1> QED BY <1>5, <1>6, <1>7 DEF Iterates

(* What holds of the first value and is kept holds of all. *)
LEMMA UpTo ==
  ASSUME NEW m \in Nat, NEW S, NEW f, f[0] \in S, \A n \in 1..m : f[n - 1] \in S => f[n] \in S
  PROVE  \A n \in 0..m : f[n] \in S
<1> DEFINE T == {n \in 0..m : f[n] \in S}
<1>1. 0 \in T /\ \A n \in 1..m : n - 1 \in T => n \in T
  OBVIOUS
<1> HIDE DEF T
<1>2. 0..m \subseteq T
  BY <1>1, Counting
<1> QED BY <1>2 DEF T

--------------------------------------------------------------------------------
(* The shapes as sets. *)

Partial(A, B) == UNION {[K -> B] : K \in SUBSET A}

Tables(entries) ==
  [secrets : Partial(Key, entries), providers : SUBSET Provider, dflt : {None} \cup Provider,
   inherits : {None} \cup Seq(AnyProfile)]

Tabs(entries) ==
  {t \in Partial(AnyProfile, Tables(entries)) : Default \in DOMAIN t /\ t[Default].inherits = None}

Docs(names) == [root : BOOLEAN, imports : Seq(File), tab : Tabs(Entries(names))]

Configs(names) ==
  [root : BOOLEAN, err : BOOLEAN, imports : Seq(File), loaded : SUBSET Profile, found : BOOLEAN,
   tab : Tabs(LoadedEntries(names))]

Items(names) ==
  [file : File, kind : {"update"}, tbl : AnyProfile, puts : Partial(Key, Entries(names)), dels : SUBSET Key]
  \cup [file : File, kind : {"replace"}, doc : Docs(names)]

(* What a process holds, with more names in what it is going to write. *)
Holdings(names, more) ==
  [at : Labels, cmd : {None} \cup Command, prof : Seq(AnyProfile), cfg : Configs(names), puts : Seq(Puts),
   v : {None} \cup Nat, shown : Partial(AnyProfile \X Key, Nat), changed : {None} \cup (AnyProfile \X Key),
   todo : Seq(Items(more)), doc : Docs(names), alone : BOOLEAN]

LEMMA PartialMeans ==
  ASSUME NEW A, NEW B, NEW f \in Partial(A, B)
  PROVE  DOMAIN f \subseteq A /\ f \in [DOMAIN f -> B]
BY DEF Partial

LEMMA PartialMade ==
  ASSUME NEW A, NEW B, NEW K \in SUBSET A, NEW f \in [K -> B]
  PROVE  f \in Partial(A, B)
BY DEF Partial

LEMMA PartialIs == ASSUME NEW A, NEW B, NEW f PROVE IsPartial(f, A, B) <=> f \in Partial(A, B)
BY PartialMeans, PartialMade DEF IsPartial

LEMMA TableIs == ASSUME NEW E, NEW t PROVE IsTable(t, E) <=> t \in Tables(E)
<1>1. ASSUME NEW s PROVE IsPartial(s, Key, E) <=> s \in Partial(Key, E)
  BY PartialIs
<1> DEFINE P == Partial(Key, E)
           Q(s) == IsPartial(s, Key, E)
<1>2. \A s : Q(s) <=> s \in P
  BY <1>1
<1> SUFFICES (/\ t \in [secrets : {t.secrets}, providers : SUBSET Provider, dflt : {None} \cup Provider,
                        inherits : {None} \cup Seq(AnyProfile)]
              /\ Q(t.secrets)) <=> t \in [secrets : P, providers : SUBSET Provider, dflt : {None} \cup Provider,
                                          inherits : {None} \cup Seq(AnyProfile)]
  BY DEF IsTable, Tables
<1> HIDE DEF P, Q
<1> QED BY <1>2

LEMMA TabIs == ASSUME NEW E, NEW t PROVE IsTab(t, E) <=> t \in Tabs(E)
<1>1. \A u : IsTable(u, E) <=> u \in Tables(E)
  BY TableIs
<1>2. ASSUME IsTab(t, E) PROVE t \in Tabs(E)
  <2>1. DOMAIN t \in SUBSET AnyProfile /\ t \in [DOMAIN t -> Tables(E)]
    BY <1>1, <1>2 DEF IsTab, IsPartial
  <2>2. t \in Partial(AnyProfile, Tables(E))
    BY <2>1, PartialMade
  <2> QED BY <1>2, <2>2 DEF IsTab, Tabs
<1>3. ASSUME t \in Tabs(E) PROVE IsTab(t, E)
  <2>1. t \in Partial(AnyProfile, Tables(E)) /\ Default \in DOMAIN t /\ t[Default].inherits = None
    BY <1>3 DEF Tabs
  <2>2. DOMAIN t \subseteq AnyProfile /\ t \in [DOMAIN t -> Tables(E)]
    BY <2>1, PartialMeans
  <2>3. \A p \in DOMAIN t : IsTable(t[p], E)
    BY <1>1, <2>2
  <2> QED BY <2>1, <2>2, <2>3 DEF IsTab, IsPartial
<1> QED BY <1>2, <1>3

LEMMA DocIs == ASSUME NEW names, NEW d PROVE IsDoc(d, names) <=> d \in Docs(names)
<1>1. \A t : IsTab(t, Entries(names)) <=> t \in Tabs(Entries(names))
  BY TabIs
<1> DEFINE Q(t) == IsTab(t, Entries(names))
           T == Tabs(Entries(names))
<1>2. \A t : Q(t) <=> t \in T
  BY <1>1
<1> SUFFICES d \in [root : BOOLEAN, imports : Seq(File), tab : {d.tab}] /\ Q(d.tab)
               <=> d \in [root : BOOLEAN, imports : Seq(File), tab : T]
  BY DEF IsDoc, Docs
<1> HIDE DEF Q, T
<1> QED BY <1>2

LEMMA ConfigIs == ASSUME NEW names, NEW c PROVE IsConfig(c, names) <=> c \in Configs(names)
<1> DEFINE Q(t) == IsTab(t, LoadedEntries(names))
           T == Tabs(LoadedEntries(names))
<1>1. \A t : Q(t) <=> t \in T
  BY TabIs
<1> SUFFICES c \in [root : BOOLEAN, err : BOOLEAN, imports : Seq(File), loaded : SUBSET Profile, found : BOOLEAN,
                    tab : {c.tab}] /\ Q(c.tab)
               <=> c \in [root : BOOLEAN, err : BOOLEAN, imports : Seq(File), loaded : SUBSET Profile,
                          found : BOOLEAN, tab : T]
  BY DEF IsConfig, Configs
<1> HIDE DEF Q, T
<1> QED BY <1>1

LEMMA FilesMean ==
  ASSUME NEW files, NEW names
  PROVE  FilesOK(files, names) <=> files \in Partial(File, Docs(names))
<1>1. \A d : IsDoc(d, names) <=> d \in Docs(names)
  BY DocIs
<1>2. ASSUME FilesOK(files, names) PROVE files \in Partial(File, Docs(names))
  <2>1. DOMAIN files \in SUBSET File /\ files \in [DOMAIN files -> Docs(names)]
    BY <1>1, <1>2 DEF FilesOK, IsPartial
  <2> QED BY <2>1, PartialMade
<1>3. ASSUME files \in Partial(File, Docs(names)) PROVE FilesOK(files, names)
  <2>1. DOMAIN files \subseteq File /\ files \in [DOMAIN files -> Docs(names)]
    BY <1>3, PartialMeans
  <2>2. \A f \in DOMAIN files : IsDoc(files[f], names)
    BY <1>1, <2>1
  <2> QED BY <2>1, <2>2 DEF FilesOK, IsPartial
<1> QED BY <1>2, <1>3

--------------------------------------------------------------------------------
(* Functions on a part of a set, and the shapes of what is loaded. *)

LEMMA PartialGrows ==
  ASSUME NEW A, NEW B, NEW C, B \subseteq C
  PROVE  Partial(A, B) \subseteq Partial(A, C)
<1> SUFFICES ASSUME NEW f \in Partial(A, B) PROVE f \in Partial(A, C)
  OBVIOUS
<1>1. DOMAIN f \subseteq A /\ f \in [DOMAIN f -> C]
  BY PartialMeans
<1> QED BY <1>1, PartialMade

LEMMA PartialEmpty == ASSUME NEW A, NEW B PROVE <<>> \in Partial(A, B)
<1>1. <<>> \in [{} -> B]
  OBVIOUS
<1> QED BY <1>1, PartialMade

LEMMA PartialOver ==
  ASSUME NEW A, NEW B, NEW f \in Partial(A, B), NEW g \in Partial(A, B)
  PROVE  Over(f, g) \in Partial(A, B) /\ DOMAIN Over(f, g) = DOMAIN f \cup DOMAIN g
<1>1. DOMAIN f \cup DOMAIN g \in SUBSET A /\ f \in [DOMAIN f -> B] /\ g \in [DOMAIN g -> B]
  BY PartialMeans
<1>2. Over(f, g) \in [DOMAIN f \cup DOMAIN g -> B]
  BY <1>1 DEF Over
<1> QED BY <1>1, <1>2, PartialMade

LEMMA PartialOne ==
  ASSUME NEW A, NEW B, NEW x \in A, NEW e \in B
  PROVE  One(x, e) \in Partial(A, B) /\ DOMAIN One(x, e) = {x} /\ One(x, e)[x] = e
<1>1. One(x, e) \in [{x} -> B] /\ One(x, e)[x] = e
  BY DEF One
<1> QED BY <1>1, PartialMade

LEMMA PartialRestricted ==
  ASSUME NEW A, NEW B, NEW f \in Partial(A, B), NEW K \in SUBSET DOMAIN f
  PROVE  [x \in K |-> f[x]] \in Partial(A, B)
<1>1. K \in SUBSET A /\ [x \in K |-> f[x]] \in [K -> B]
  BY PartialMeans
<1> QED BY <1>1, PartialMade

(* Tables by profile. *)
LEMMA TabsMean ==
  ASSUME NEW E, NEW t \in Tabs(E)
  PROVE  /\ DOMAIN t \subseteq AnyProfile /\ t \in [DOMAIN t -> Tables(E)]
         /\ Default \in DOMAIN t /\ t[Default] \in Tables(E) /\ t[Default].inherits = None
<1>1. t \in Partial(AnyProfile, Tables(E)) /\ Default \in DOMAIN t /\ t[Default].inherits = None
  BY DEF Tabs
<1>2. DOMAIN t \subseteq AnyProfile /\ t \in [DOMAIN t -> Tables(E)]
  BY <1>1, PartialMeans
<1> QED BY <1>1, <1>2

LEMMA TabsMade ==
  ASSUME NEW E, NEW K \in SUBSET AnyProfile, NEW t \in [K -> Tables(E)], Default \in K, t[Default].inherits = None
  PROVE  t \in Tabs(E)
<1>1. t \in Partial(AnyProfile, Tables(E)) /\ DOMAIN t = K
  BY PartialMade
<1> QED BY <1>1 DEF Tabs

LEMMA EmptyTableTyped ==
  ASSUME NEW E
  PROVE  EmptyTable \in Tables(E) /\ EmptyTable.inherits = None /\ DOMAIN EmptyTable.secrets = {}
<1>1. <<>> \in Partial(Key, E)
  BY PartialEmpty
<1> QED BY <1>1 DEF EmptyTable, Tables

LEMMA EmptyTyped ==
  ASSUME NEW names
  PROVE  EmptyDoc \in Docs(names) /\ EmptyConfig \in Configs(names)
<1>1. ASSUME NEW E PROVE One(Default, EmptyTable) \in Tabs(E)
  <2>1. One(Default, EmptyTable) \in [{Default} -> Tables(E)] /\ One(Default, EmptyTable)[Default] = EmptyTable
    BY EmptyTableTyped DEF One
  <2>2. {Default} \in SUBSET AnyProfile
    BY DEF AnyProfile
  <2> QED BY <2>1, <2>2, TabsMade, EmptyTableTyped
<1>2. <<>> \in Seq(File)
  OBVIOUS
<1>3. EmptyDoc \in Docs(names)
  BY <1>1, <1>2 DEF EmptyDoc, Docs
<1>4. EmptyConfig \in Configs(names)
  BY <1>1, <1>2 DEF EmptyConfig, Configs
<1> QED BY <1>3, <1>4

LEMMA TableTyped ==
  ASSUME NEW E, NEW t \in Tabs(E), NEW p
  PROVE  /\ Table(t, p) \in Tables(E) /\ Table(t, p).secrets \in Partial(Key, E)
         /\ p = Default => Table(t, p).inherits = None
<1>1. Table(t, p) \in Tables(E)
  BY TabsMean, EmptyTableTyped DEF Table
<1>2. p = Default => Table(t, p).inherits = None
  BY TabsMean DEF Table
<1> QED BY <1>1, <1>2 DEF Tables

LEMMA MergeTableTyped ==
  ASSUME NEW E, NEW a \in Tables(E), NEW b \in Tables(E)
  PROVE  /\ MergeTable(a, b) \in Tables(E)
         /\ a.inherits = None /\ b.inherits = None => MergeTable(a, b).inherits = None
<1>1. Over(b.secrets, a.secrets) \in Partial(Key, E)
  BY PartialOver DEF Tables
<1> DEFINE s == Over(b.secrets, a.secrets)
<1>2. s \in Partial(Key, E)
  BY <1>1
<1> HIDE DEF s
<1>3. [secrets |-> s, providers |-> a.providers \cup b.providers,
       dflt |-> IF b.dflt # None THEN b.dflt ELSE a.dflt,
       inherits |-> IF b.inherits # None THEN b.inherits ELSE a.inherits] \in Tables(E)
  BY <1>2 DEF Tables
<1> QED BY <1>3 DEF MergeTable, s

LEMMA MergeTyped ==
  ASSUME NEW names, NEW a \in Configs(names), NEW b \in Configs(names)
  PROVE  /\ MergeConfigs(a, b) \in Configs(names)
         /\ MergeConfigs(a, b).loaded = a.loaded \cup b.loaded
<1> DEFINE E == LoadedEntries(names)
           K == DOMAIN a.tab \cup DOMAIN b.tab
           t == [p \in K |-> MergeTable(Table(a.tab, p), Table(b.tab, p))]
<1>1. a.tab \in Tabs(E) /\ b.tab \in Tabs(E)
  BY DEF Configs
<1>2. K \in SUBSET AnyProfile /\ Default \in K
  BY <1>1, TabsMean
<1>3. ASSUME NEW p \in K
      PROVE  /\ MergeTable(Table(a.tab, p), Table(b.tab, p)) \in Tables(E)
             /\ p = Default => MergeTable(Table(a.tab, p), Table(b.tab, p)).inherits = None
  BY <1>1, TableTyped, MergeTableTyped
<1>4. t \in [K -> Tables(E)] /\ t[Default].inherits = None
  BY <1>2, <1>3
<1>5. t \in Tabs(E)
  <2> HIDE DEF t, K
  <2> QED BY <1>2, <1>4, TabsMade
<1> HIDE DEF t
<1>6. [root |-> a.root \/ b.root, err |-> a.err \/ b.err, imports |-> a.imports,
       loaded |-> a.loaded \cup b.loaded, found |-> a.found \/ b.found, tab |-> t] \in Configs(names)
  BY <1>5 DEF Configs
<1> QED BY <1>6 DEF MergeConfigs, t

(* Shapes with more names. *)
LEMMA TypesGrow ==
  ASSUME NEW A, NEW B, A \subseteq B
  PROVE  /\ Entries(A) \subseteq Entries(B) /\ LoadedEntries(A) \subseteq LoadedEntries(B)
         /\ Docs(A) \subseteq Docs(B) /\ Configs(A) \subseteq Configs(B)
<1>1. Entries(A) \subseteq Entries(B) /\ LoadedEntries(A) \subseteq LoadedEntries(B)
  BY DEF Entries, LoadedEntries, Values
<1>2. ASSUME NEW C, NEW D, C \subseteq D PROVE Tabs(C) \subseteq Tabs(D)
  <2>1. Partial(Key, C) \subseteq Partial(Key, D)
    BY <1>2, PartialGrows
  <2>2. Tables(C) \subseteq Tables(D)
    BY <2>1 DEF Tables
  <2>3. Partial(AnyProfile, Tables(C)) \subseteq Partial(AnyProfile, Tables(D))
    BY <2>2, PartialGrows
  <2> QED BY <2>3 DEF Tabs
<1>3. Tabs(Entries(A)) \subseteq Tabs(Entries(B)) /\ Tabs(LoadedEntries(A)) \subseteq Tabs(LoadedEntries(B))
  BY <1>1, <1>2
<1> QED BY <1>1, <1>3 DEF Docs, Configs

--------------------------------------------------------------------------------
(* Loading. *)

LEMMA ScopedToProfile ==
  ASSUME NEW E, NEW t \in Tabs(E), NEW p \in AnyProfile
  PROVE  ScopeToProfile(t, p) \in Tabs(E)
<1> DEFINE K == DOMAIN t \cup {p}
           s == ScopeToProfile(t, p)
<1>1. K \in SUBSET AnyProfile /\ Default \in K
  BY TabsMean
<1>2. MergeTable(Table(t, p), t[Default]) \in Tables(E)
  BY TabsMean, TableTyped, MergeTableTyped
<1>3. s \in [K -> Tables(E)] /\ s[Default].inherits = None
  <2>1. ASSUME NEW q \in K, q # Default, q # p PROVE t[q] \in Tables(E)
    BY <2>1, TabsMean
  <2> QED BY <1>1, <1>2, <2>1, EmptyTableTyped DEF ScopeToProfile
<1> HIDE DEF s, K
<1> QED BY <1>1, <1>3, TabsMade DEF s

LEMMA ScopedAsBase ==
  ASSUME NEW E, NEW t \in Tabs(E), NEW p \in AnyProfile, NEW nd \in BOOLEAN
  PROVE  ScopeAsBase(t, p, nd) \in Tabs(E)
<1> DEFINE root == t[Default]
           moved == IF nd THEN [root EXCEPT !.secrets = <<>>] ELSE root
           kept == IF nd THEN [EmptyTable EXCEPT !.secrets = root.secrets] ELSE EmptyTable
           K == DOMAIN t \cup {p}
           s == ScopeAsBase(t, p, nd)
<1>1. K \in SUBSET AnyProfile /\ Default \in K /\ root \in Tables(E)
  BY TabsMean
<1>2. moved \in Tables(E)
  <2> HIDE DEF root
  <2> QED BY <1>1, PartialEmpty DEF Tables
<1>3. kept \in Tables(E) /\ kept.inherits = None
  <2> HIDE DEF root
  <2>1. EmptyTable \in Tables(E) /\ root.secrets \in Partial(Key, E)
    BY <1>1, EmptyTableTyped DEF Tables
  <2> QED BY <2>1 DEF Tables, EmptyTable
<1>4. MergeTable(moved, Table(t, p)) \in Tables(E)
  BY <1>2, TableTyped, MergeTableTyped
<1>5. s = [q \in K |-> CASE q = Default -> kept
                         [] q # Default /\ q = p -> MergeTable(moved, Table(t, p))
                         [] OTHER -> t[q]]
  BY DEF ScopeAsBase
<1>6. ASSUME NEW q \in K, q # Default, q # p PROVE t[q] \in Tables(E)
  BY <1>6, TabsMean
<1> HIDE DEF s, kept, moved
<1>7. s \in [K -> Tables(E)] /\ s[Default].inherits = None
  BY <1>1, <1>3, <1>4, <1>5, <1>6
<1> HIDE DEF K
<1> QED BY <1>1, <1>7, TabsMade DEF s

(* Another set of secrets in each table. *)
LEMMA SecretsChanged ==
  ASSUME NEW E, NEW F, NEW t \in Tabs(E), NEW s \in [DOMAIN t -> Partial(Key, F)]
  PROVE  [p \in DOMAIN t |-> [t[p] EXCEPT !.secrets = s[p]]] \in Tabs(F)
<1> DEFINE K == DOMAIN t
           u == [p \in K |-> [t[p] EXCEPT !.secrets = s[p]]]
<1>1. K \in SUBSET AnyProfile /\ Default \in K /\ t[Default].inherits = None
  BY TabsMean
<1>2. ASSUME NEW p \in K
      PROVE  [t[p] EXCEPT !.secrets = s[p]] \in Tables(F) /\ [t[p] EXCEPT !.secrets = s[p]].inherits = t[p].inherits
  <2>1. t[p] \in Tables(E) /\ s[p] \in Partial(Key, F)
    BY TabsMean
  <2> QED BY <2>1 DEF Tables
<1>3. u \in [K -> Tables(F)] /\ u[Default].inherits = None
  BY <1>1, <1>2
<1> HIDE DEF K, u
<1>4. u \in Tabs(F)
  BY <1>1, <1>3, TabsMade
<1> QED BY <1>4 DEF u, K

LEMMA SourcesTyped ==
  ASSUME NEW names, NEW t \in Tabs(Entries(names)), NEW f \in File
  PROVE  WithSources(t, f) \in Tabs(LoadedEntries(names))
<1> DEFINE s == [p \in DOMAIN t |-> [k \in DOMAIN t[p].secrets |-> Sourced(t[p].secrets[k], f, p)]]
<1>1. ASSUME NEW p \in DOMAIN t PROVE s[p] \in Partial(Key, LoadedEntries(names))
  <2>1. p \in AnyProfile /\ t[p].secrets \in Partial(Key, Entries(names))
    BY TabsMean DEF Tables
  <2>2. ASSUME NEW k \in DOMAIN t[p].secrets PROVE Sourced(t[p].secrets[k], f, p) \in LoadedEntries(names)
    <3>1. t[p].secrets[k] \in Entries(names)
      BY <2>1, PartialMeans
    <3> QED BY <2>1, <3>1 DEF Sourced, Entries, LoadedEntries
  <2>3. DOMAIN t[p].secrets \in SUBSET Key /\ s[p] \in [DOMAIN t[p].secrets -> LoadedEntries(names)]
    BY <2>1, <2>2, PartialMeans
  <2> QED BY <2>3, PartialMade
<1>2. s \in [DOMAIN t -> Partial(Key, LoadedEntries(names))]
  BY <1>1
<1>3. WithSources(t, f) = [p \in DOMAIN t |-> [t[p] EXCEPT !.secrets = s[p]]]
  BY DEF WithSources
<1> HIDE DEF s
<1> QED BY <1>2, <1>3, SecretsChanged

LEMMA LoadTyped ==
  ASSUME NEW names, NEW files, FilesOK(files, names), NEW f \in DOMAIN files
  PROVE  /\ Load(files, f) \in Configs(names)
         /\ f[2] \in Profile => f[2] \in Load(files, f).loaded
<1> DEFINE d == files[f]
           t == IF f[2] \in Profile THEN ScopeToProfile(d.tab, f[2]) ELSE d.tab
           w == WithSources(t, f)
<1>1. d \in Docs(names) /\ f \in File
  BY FilesMean, PartialMeans
<1>2. d.root \in BOOLEAN /\ d.imports \in Seq(File) /\ d.tab \in Tabs(Entries(names))
  BY <1>1 DEF Docs
<1> HIDE DEF d
<1>3. t \in Tabs(Entries(names))
  BY <1>2, ScopedToProfile DEF AnyProfile
<1> HIDE DEF t
<1>4. w \in Tabs(LoadedEntries(names))
  BY <1>1, <1>3, SourcesTyped
<1>5. Load(files, f) = [root |-> d.root, err |-> FALSE, imports |-> d.imports, found |-> TRUE,
                        loaded |-> IF f[2] \in Profile THEN {f[2]} ELSE {}, tab |-> w]
  BY DEF Load, d, t
<1> HIDE DEF w
<1> QED BY <1>2, <1>4, <1>5 DEF Configs

LEMMA ImportTyped ==
  ASSUME NEW names, NEW files, FilesOK(files, names), NEW f
  PROVE  LoadImport(files, f) \in Configs(names)
<1>1. EmptyConfig \in Configs(names) /\ <<>> \in Seq(File)
  BY EmptyTyped
<1>2. CASE f \notin DOMAIN files
  BY <1>1, <1>2 DEF LoadImport, Configs
<1>3. CASE f \in DOMAIN files
  <2>1. Load(files, f) \in Configs(names)
    BY <1>3, LoadTyped
  <2> QED BY <1>1, <1>3, <2>1 DEF LoadImport, Configs
<1> QED BY <1>2, <1>3

LEMMA ImportsTyped ==
  ASSUME NEW names, NEW files, FilesOK(files, names), NEW c \in Configs(names)
  PROVE  /\ WithImports(files, c) \in Configs(names)
         /\ c.loaded \subseteq WithImports(files, c).loaded
<1> DEFINE m == Len(c.imports)
           S == {x \in Configs(names) : c.loaded \subseteq x.loaded}
           f == CHOOSE f : f = [n \in 0..Len(c.imports) |->
                                  IF n = 0 THEN c ELSE MergeConfigs(LoadImport(files, c.imports[n]), f[n - 1])]
           g == [x \in (1..m) \X S |-> MergeConfigs(LoadImport(files, c.imports[x[1]]), x[2])]
<1>1. m \in Nat /\ c \in S
  BY DEF Configs
<1>2. ASSUME NEW n \in 1..m, NEW x \in S PROVE MergeConfigs(LoadImport(files, c.imports[n]), x) \in S
  <2>1. LoadImport(files, c.imports[n]) \in Configs(names)
    BY ImportTyped
  <2> QED BY <2>1, MergeTyped
<1>3. g \in [(1..m) \X S -> S]
  <2> HIDE DEF S, m
  <2> QED BY <1>2
<1>4. PICK h : Iterates(h, m, S, c, g)
  <2> HIDE DEF S, m, g
  <2> QED BY <1>1, <1>3, Recursion
<1>5. ASSUME NEW n \in 1..m PROVE h[n] = MergeConfigs(LoadImport(files, c.imports[n]), h[n - 1])
  <2> HIDE DEF S, m
  <2> QED BY <1>4 DEF Iterates
<1>6. h = [n \in 0..m |-> IF n = 0 THEN c ELSE MergeConfigs(LoadImport(files, c.imports[n]), h[n - 1])]
  <2> HIDE DEF S, g
  <2>1. \A n \in 0..m : n # 0 => n \in 1..m
    BY <1>1
  <2>2. h = [n \in 0..m |-> h[n]] /\ h[0] = c
    BY <1>4 DEF Iterates
  <2> QED BY <1>5, <2>1, <2>2
<1>7. f = [n \in 0..m |-> IF n = 0 THEN c ELSE MergeConfigs(LoadImport(files, c.imports[n]), f[n - 1])]
  BY <1>6, Zenon
<1>8. WithImports(files, c) = f[m]
  BY DEF WithImports
<1> HIDE DEF f, S, m
<1>9. f[0] = c /\ \A n \in 1..m : f[n] = MergeConfigs(LoadImport(files, c.imports[n]), f[n - 1])
  BY <1>1, <1>7
<1>10. \A n \in 0..m : f[n] \in S
  BY <1>1, <1>2, <1>9, UpTo
<1> QED BY <1>1, <1>8, <1>10 DEF S

LEMMA LocalTyped ==
  ASSUME NEW names, NEW t \in Tabs(LoadedEntries(names)), NEW w \in AnyProfile, NEW withSync, NEW nd \in BOOLEAN
  PROVE  LocalTables(t, w, withSync, nd) \in Tabs(LoadedEntries(names))
<1> DEFINE s == [p \in DOMAIN t |-> StripSyncCache(t[p].secrets)]
<1>1. ASSUME NEW p \in DOMAIN t PROVE s[p] \in Partial(Key, LoadedEntries(names))
  <2> DEFINE all == t[p].secrets
             kept == {k \in DOMAIN all : all[k].sync = None \/ all[k].local}
             new == [k \in kept |-> [all[k] EXCEPT !.sync = None, !.local = FALSE]]
  <2>1. all \in Partial(Key, LoadedEntries(names))
    BY TabsMean DEF Tables
  <2>2. \A k \in DOMAIN all : all[k] \in LoadedEntries(names) /\ k \in Key
    BY <2>1, PartialMeans
  <2> HIDE DEF all
  <2>3. \A k \in kept : [all[k] EXCEPT !.sync = None, !.local = FALSE] \in LoadedEntries(names)
    BY <2>2 DEF LoadedEntries
  <2>4. kept \in SUBSET Key /\ new \in [kept -> LoadedEntries(names)]
    BY <2>2, <2>3
  <2>5. s[p] = new
    BY DEF StripSyncCache, all
  <2> HIDE DEF s, new, kept
  <2> QED BY <2>4, <2>5, PartialMade
<1>2. s \in [DOMAIN t -> Partial(Key, LoadedEntries(names))]
  BY <1>1
<1>3. StripLocalSyncCache(t) = [p \in DOMAIN t |-> [t[p] EXCEPT !.secrets = s[p]]]
  BY DEF StripLocalSyncCache
<1> HIDE DEF s
<1>4. StripLocalSyncCache(t) \in Tabs(LoadedEntries(names))
  BY <1>2, <1>3, SecretsChanged
<1> QED BY <1>4, ScopedAsBase DEF LocalTables

LEMMA LastTyped ==
  ASSUME NEW S, NEW s \in Seq(S), s # <<>>
  PROVE  Last(s) \in S
<1>1. Len(s) \in 1..Len(s)
  OBVIOUS
<1> QED BY <1>1 DEF Last

LEMMA FileTyped ==
  ASSUME NEW names, NEW files, FilesOK(files, names), NEW f \in DOMAIN files,
         NEW profiles \in Seq(AnyProfile), profiles # <<>>, NEW withSync, NEW nd \in BOOLEAN
  PROVE  /\ LoadFile(files, f, profiles, withSync, nd) \in Configs(names)
         /\ f[2] \in Profile => f[2] \in LoadFile(files, f, profiles, withSync, nd).loaded
<1>1. PICK c \in Configs(names) : c = WithImports(files, Load(files, f)) /\ (f[2] \in Profile => f[2] \in c.loaded)
  BY LoadTyped, ImportsTyped
<1>2. c.tab \in Tabs(LoadedEntries(names)) /\ Last(profiles) \in AnyProfile /\ <<>> \in Seq(File)
  BY LastTyped DEF Configs
<1> DEFINE t == IF IsLocal(f) THEN LocalTables(c.tab, Last(profiles), withSync, nd) ELSE c.tab
<1>3. t \in Tabs(LoadedEntries(names))
  BY <1>2, LocalTyped
<1>4. LoadFile(files, f, profiles, withSync, nd) = [c EXCEPT !.tab = t, !.imports = <<>>]
  BY <1>1 DEF LoadFile
<1> HIDE DEF t
<1>5. [c EXCEPT !.tab = t, !.imports = <<>>] \in Configs(names) /\ [c EXCEPT !.tab = t, !.imports = <<>>].loaded = c.loaded
  BY <1>2, <1>3 DEF Configs
<1> QED BY <1>1, <1>4, <1>5

LEMMA GlobalTyped ==
  ASSUME NEW names, NEW files, FilesOK(files, names)
  PROVE  LoadGlobal(files) \in Configs(names)
<1>1. CASE Global \notin DOMAIN files
  BY <1>1, EmptyTyped DEF LoadGlobal
<1>2. CASE Global \in DOMAIN files
  <2>1. PICK c \in Configs(names) : c = WithImports(files, Load(files, Global))
    BY <1>2, LoadTyped, ImportsTyped
  <2>2. <<>> \in Seq(File)
    OBVIOUS
  <2>3. [c EXCEPT !.imports = <<>>] \in Configs(names)
    BY <2>2 DEF Configs
  <2> QED BY <1>2, <2>1, <2>3 DEF LoadGlobal
<1> QED BY <1>1, <1>2

(* Named drops only the default profile. *)
LEMMA NamedTyped ==
  ASSUME NEW profiles \in Seq(AnyProfile)
  PROVE  /\ Named(profiles) \in Seq(AnyProfile)
         /\ \A i \in 1..Len(profiles) : profiles[i] # Default => \E j \in 1..Len(Named(profiles)) : Named(profiles)[j] = profiles[i]
<1> DEFINE m == Len(profiles)
           S == Seq(AnyProfile)
           f == CHOOSE f : f = [n \in 0..Len(profiles) |->
                                  CASE n = 0 -> <<>>
                                    [] n # 0 /\ profiles[n] = Default -> f[n - 1]
                                    [] OTHER -> Append(f[n - 1], profiles[n])]
           g == [x \in (1..m) \X S |-> IF profiles[x[1]] = Default THEN x[2] ELSE Append(x[2], profiles[x[1]])]
           e == <<>>
<1>1. m \in Nat /\ e \in S /\ \A n \in 1..m : profiles[n] \in AnyProfile
  OBVIOUS
<1>2. g \in [(1..m) \X S -> S]
  <2>1. \A n \in 1..m, x \in S : Append(x, profiles[n]) \in S
    BY <1>1
  <2> HIDE DEF S, m
  <2> QED BY <2>1
<1>3. PICK h : Iterates(h, m, S, e, g)
  <2> HIDE DEF S, m, g, e
  <2> QED BY <1>1, <1>2, Recursion
<1>4. ASSUME NEW n \in 1..m PROVE h[n] = IF profiles[n] = Default THEN h[n - 1] ELSE Append(h[n - 1], profiles[n])
  <2> HIDE DEF S, m
  <2> QED BY <1>3 DEF Iterates
<1>5. h = [n \in 0..m |-> CASE n = 0 -> <<>>
                            [] n # 0 /\ profiles[n] = Default -> h[n - 1]
                            [] OTHER -> Append(h[n - 1], profiles[n])]
  <2>1. \A n \in 0..m : n # 0 => n \in 1..m
    BY <1>1
  <2>2. h = [n \in 0..m |-> h[n]] /\ h[0] = <<>>
    BY <1>3 DEF Iterates
  <2> HIDE DEF S, g, m
  <2> QED BY <1>4, <2>1, <2>2
<1>6. f = [n \in 0..m |-> CASE n = 0 -> <<>>
                            [] n # 0 /\ profiles[n] = Default -> f[n - 1]
                            [] OTHER -> Append(f[n - 1], profiles[n])]
  BY <1>5, Zenon
<1>7. Named(profiles) = f[m]
  BY DEF Named
<1> HIDE DEF f, m
<1>8. f[0] = <<>> /\ \A n \in 1..m : f[n] = IF profiles[n] = Default THEN f[n - 1] ELSE Append(f[n - 1], profiles[n])
  <2>1. \A n \in 0..m : f[n] = CASE n = 0 -> <<>>
                                [] n # 0 /\ profiles[n] = Default -> f[n - 1]
                                [] OTHER -> Append(f[n - 1], profiles[n])
    BY <1>6, Zenon
  <2>2. 0 \in 0..m /\ \A n \in 1..m : n \in 0..m /\ n # 0
    BY <1>1
  <2> HIDE DEF S, g, e
  <2> QED BY <2>1, <2>2
<1> DEFINE In(i, n) == \E j \in 1..Len(f[n]) : f[n][j] = profiles[i]
           T == {n \in 0..m : f[n] \in S /\ \A i \in 1..n : profiles[i] # Default => In(i, n)}
<1>9. 0 \in T
  <2>1. f[0] \in S /\ 0 \in 0..m /\ 1..0 = {}
    BY <1>1, <1>8
  <2> QED BY <2>1
<1>10. ASSUME NEW n \in 1..m, n - 1 \in T PROVE n \in T
  <2>1. n \in 0..m /\ n \in Nat /\ n # 0 /\ f[n - 1] \in S /\ profiles[n] \in AnyProfile
    BY <1>1, <1>10
  <2>2. \A i \in 1..n - 1 : profiles[i] # Default => In(i, n - 1)
    BY <1>10
  <2>3. CASE profiles[n] = Default
    <3>1. f[n] = f[n - 1]
      BY <1>8, <2>3
    <3>2. \A i \in 1..n : profiles[i] # Default => i \in 1..n - 1
      BY <2>1, <2>3
    <3> QED BY <2>1, <2>2, <3>1, <3>2
  <2>4. CASE profiles[n] # Default
    <3>1. PICK s \in Seq(AnyProfile) : s = f[n - 1]
      BY <2>1
    <3>2. f[n] = Append(s, profiles[n])
      BY <1>8, <2>4, <3>1
    <3>3. f[n] \in S /\ Len(f[n]) = Len(s) + 1 /\ f[n][Len(s) + 1] = profiles[n] /\ \A j \in 1..Len(s) : f[n][j] = s[j]
      BY <2>1, <3>2
    <3>4. ASSUME NEW i \in 1..n, profiles[i] # Default PROVE In(i, n)
      <4>1. CASE i = n
        <5>1. Len(s) + 1 \in 1..Len(f[n])
          BY <3>3
        <5> QED BY <4>1, <5>1, <3>3
      <4>2. CASE i # n
        <5>1. i \in 1..n - 1
          BY <4>2, <2>1
        <5>2. PICK j \in 1..Len(s) : s[j] = profiles[i]
          BY <5>1, <2>2, <3>1, <3>4
        <5>3. j \in 1..Len(f[n]) /\ f[n][j] = profiles[i]
          BY <5>2, <3>3
        <5> QED BY <5>3
      <4> QED BY <4>1, <4>2
    <3> HIDE DEF In
    <3> QED BY <2>1, <3>3, <3>4
  <2> QED BY <2>3, <2>4
<1>11. m \in T
  <2> HIDE DEF T
  <2>1. 0..m \subseteq T
    BY <1>1, <1>9, <1>10, Counting
  <2> QED BY <1>1, <2>1
<1>12. f[m] \in S /\ \A i \in 1..m : profiles[i] # Default => In(i, m)
  BY <1>11
<1> QED BY <1>7, <1>12 DEF m

LEMMA NamesTyped ==
  ASSUME NEW profiles \in Seq(AnyProfile)
  PROVE  /\ Len(Names(profiles)) \in Nat
         /\ \A i \in 1..Len(profiles) : profiles[i] # Default =>
              \E j \in 1..Len(Names(profiles)) : Names(profiles)[j] = profiles[i]
<1> DEFINE S == AnyProfile \cup {"fnox", ".fnox", "local", ".local"}
<1>1. PICK s \in Seq(AnyProfile) :
        s = Named(profiles) /\ \A i \in 1..Len(profiles) : profiles[i] # Default => \E j \in 1..Len(s) : s[j] = profiles[i]
  BY NamedTyped
<1>2. PICK a \in Seq(S) : a = <<"fnox", ".fnox">> /\ Len(a) = 2
  BY <<"fnox", ".fnox">> \in Seq(S)
<1>3. PICK z \in Seq(S) : z = <<"local", ".local">> /\ Len(z) = 2
  BY <<"local", ".local">> \in Seq(S)
<1>4. s \in Seq(S)
  OBVIOUS
<1>5. Names(profiles) = a \o s \o z
  BY <1>1, <1>2, <1>3 DEF Names
<1> HIDE DEF S
<1>6. Len(a \o s \o z) = Len(s) + 4 /\ \A j \in 1..Len(s) : (a \o s \o z)[j + 2] = s[j]
  BY <1>2, <1>3, <1>4
<1>7. Len(s) \in Nat /\ Len(Names(profiles)) = Len(s) + 4
  BY <1>5, <1>6
<1>8. ASSUME NEW i \in 1..Len(profiles), profiles[i] # Default
      PROVE  \E j \in 1..Len(Names(profiles)) : Names(profiles)[j] = profiles[i]
  <2>1. PICK j \in 1..Len(s) : s[j] = profiles[i]
    BY <1>1, <1>8
  <2>2. j + 2 \in 1..Len(s) + 4 /\ Names(profiles)[j + 2] = profiles[i]
    BY <1>5, <1>6, <1>7, <2>1
  <2> QED BY <1>7, <2>2
<1> QED BY <1>7, <1>8

(* The files of a directory: all of those that the selection has names for. *)
LEMMA DirTyped ==
  ASSUME NEW names, NEW files, FilesOK(files, names), NEW dir,
         NEW profiles \in Seq(AnyProfile), profiles # <<>>, NEW withSync, NEW nd \in BOOLEAN
  PROVE  /\ LoadDir(files, dir, profiles, withSync, nd) \in Configs(names)
         /\ \A i \in 1..Len(profiles) : profiles[i] \in Profile /\ <<dir, profiles[i]>> \in DOMAIN files =>
              profiles[i] \in LoadDir(files, dir, profiles, withSync, nd).loaded
<1> DEFINE all == Names(profiles)
           m == Len(all)
           S == Configs(names)
           F(n) == <<dir, all[n]>>
           L(n) == LoadFile(files, F(n), profiles, withSync, nd)
           e == EmptyConfig
           f == CHOOSE f : f = [n \in 0..m |->
                                  CASE n = 0 -> EmptyConfig
                                    [] n # 0 /\ F(n) \notin DOMAIN files -> f[n - 1]
                                    [] OTHER -> MergeConfigs(f[n - 1], L(n))]
           g == [x \in (1..m) \X S |-> IF F(x[1]) \in DOMAIN files THEN MergeConfigs(x[2], L(x[1])) ELSE x[2]]
<1>1. m \in Nat /\ e \in S
  BY NamesTyped, EmptyTyped
<1>2. ASSUME NEW n \in 1..m, F(n) \in DOMAIN files
      PROVE  /\ L(n) \in S /\ (all[n] \in Profile => all[n] \in L(n).loaded)
             /\ \A x \in S : MergeConfigs(x, L(n)) \in S /\ MergeConfigs(x, L(n)).loaded = x.loaded \cup L(n).loaded
  <2>1. F(n)[2] = all[n]
    OBVIOUS
  <2>2. L(n) \in S /\ (F(n)[2] \in Profile => F(n)[2] \in L(n).loaded)
    BY <1>2, FileTyped
  <2> QED BY <2>1, <2>2, MergeTyped
<1>3. g \in [(1..m) \X S -> S]
  <2> HIDE DEF S, m, F, L
  <2> QED BY <1>2
<1>4. PICK h : Iterates(h, m, S, e, g)
  <2> HIDE DEF S, m, g, e
  <2> QED BY <1>1, <1>3, Recursion
<1>5. ASSUME NEW n \in 1..m
      PROVE  h[n] = IF F(n) \in DOMAIN files THEN MergeConfigs(h[n - 1], L(n)) ELSE h[n - 1]
  <2> HIDE DEF S, m, F, L
  <2> QED BY <1>4 DEF Iterates
<1>6. h = [n \in 0..m |-> CASE n = 0 -> EmptyConfig
                            [] n # 0 /\ F(n) \notin DOMAIN files -> h[n - 1]
                            [] OTHER -> MergeConfigs(h[n - 1], L(n))]
  <2>1. \A n \in 0..m : n # 0 => n \in 1..m
    BY <1>1
  <2>2. h = [n \in 0..m |-> h[n]] /\ h[0] = EmptyConfig
    BY <1>4 DEF Iterates
  <2> HIDE DEF S, g, m, F, L
  <2> QED BY <1>5, <2>1, <2>2
<1>7. f = [n \in 0..m |-> CASE n = 0 -> EmptyConfig
                            [] n # 0 /\ F(n) \notin DOMAIN files -> f[n - 1]
                            [] OTHER -> MergeConfigs(f[n - 1], L(n))]
  <2> HIDE DEF m, F, L
  <2> QED BY <1>6, Zenon
<1>8. LoadDir(files, dir, profiles, withSync, nd) = f[m]
  BY DEF LoadDir
<1> HIDE DEF f, m, F, L, S
<1>9. f[0] = e /\ \A n \in 1..m : f[n] = IF F(n) \in DOMAIN files THEN MergeConfigs(f[n - 1], L(n)) ELSE f[n - 1]
  <2>1. \A n \in 0..m : f[n] = CASE n = 0 -> EmptyConfig
                                [] n # 0 /\ F(n) \notin DOMAIN files -> f[n - 1]
                                [] OTHER -> MergeConfigs(f[n - 1], L(n))
    BY <1>7, Zenon
  <2>2. 0 \in 0..m /\ \A n \in 1..m : n \in 0..m /\ n # 0
    BY <1>1
  <2> QED BY <2>1, <2>2
<1> DEFINE T == {n \in 0..m : /\ f[n] \in S
                              /\ \A i \in 1..n : all[i] \in Profile /\ F(i) \in DOMAIN files => all[i] \in f[n].loaded}
<1> HIDE DEF e
<1>10. 0 \in T
  <2>1. 0 \in 0..m /\ 1..0 = {}
    BY <1>1
  <2> QED BY <1>1, <1>9, <2>1
<1>11. ASSUME NEW n \in 1..m, n - 1 \in T PROVE n \in T
  <2>1. n \in 0..m /\ n # 0 /\ f[n - 1] \in S /\ \A i \in 1..n : i # n => i \in 1..n - 1
    BY <1>1, <1>11
  <2>2. \A i \in 1..n - 1 : all[i] \in Profile /\ F(i) \in DOMAIN files => all[i] \in f[n - 1].loaded
    BY <1>11
  <2>3. CASE F(n) \notin DOMAIN files
    BY <1>9, <2>1, <2>2, <2>3
  <2>4. CASE F(n) \in DOMAIN files
    <3>1. f[n] = MergeConfigs(f[n - 1], L(n))
      BY <1>9, <2>4
    <3>2. f[n] \in S /\ f[n].loaded = f[n - 1].loaded \cup L(n).loaded
      BY <1>2, <2>1, <2>4, <3>1
    <3>3. all[n] \in Profile => all[n] \in L(n).loaded
      BY <1>2, <2>4
    <3> QED BY <2>1, <2>2, <3>2, <3>3
  <2> QED BY <2>3, <2>4
<1>12. m \in T
  <2> HIDE DEF T
  <2>1. 0..m \subseteq T
    BY <1>1, <1>10, <1>11, Counting
  <2> QED BY <1>1, <2>1
<1>13. f[m] \in S /\ \A i \in 1..m : all[i] \in Profile /\ F(i) \in DOMAIN files => all[i] \in f[m].loaded
  BY <1>12
<1>14. ASSUME NEW i \in 1..Len(profiles), profiles[i] \in Profile, <<dir, profiles[i]>> \in DOMAIN files
       PROVE  profiles[i] \in f[m].loaded
  <2>1. profiles[i] # Default
    BY <1>14, ConfigLayersAssumption
  <2>2. PICK j \in 1..m : all[j] = profiles[i]
    BY <2>1, NamesTyped DEF m
  <2> QED BY <1>13, <1>14, <2>2 DEF F
<1> QED BY <1>8, <1>13, <1>14 DEF S

(* All the layers; those of the current directory are on top. *)
LEMMA LayersTyped ==
  ASSUME NEW names, NEW files, FilesOK(files, names),
         NEW profiles \in Seq(AnyProfile), profiles # <<>>, NEW withSync, NEW nd \in BOOLEAN
  PROVE  /\ LoadRecursive(files, profiles, withSync, nd) \in Configs(names)
         /\ \A i \in 1..Len(profiles) : profiles[i] \in Profile /\ <<"cwd", profiles[i]>> \in DOMAIN files =>
              profiles[i] \in LoadRecursive(files, profiles, withSync, nd).loaded
<1> DEFINE S == Configs(names)
           top == LoadGlobal(files)
           D(n) == LoadDir(files, Dirs[Len(Dirs) + 1 - n], profiles, withSync, nd)
           Above(p, c) == MergeConfigs(IF c.root THEN LoadGlobal(files) ELSE p, c)
           f == CHOOSE f : f = [n \in 0..Len(Dirs) |-> IF n = 0 THEN LoadGlobal(files) ELSE Above(f[n - 1], D(n))]
           g == [x \in (1..2) \X S |-> Above(x[2], D(x[1]))]
<1>1. Len(Dirs) = 2 /\ Dirs[1] = "cwd"
  BY DEF Dirs
<1>2. top \in S /\ \A n \in 1..2 : D(n) \in S
  BY GlobalTyped, DirTyped
<1>3. ASSUME NEW p \in S, NEW c \in S PROVE Above(p, c) \in S /\ c.loaded \subseteq Above(p, c).loaded
  BY <1>2, MergeTyped
<1> HIDE DEF D, Above
<1>4. g \in [(1..2) \X S -> S]
  <2> HIDE DEF S
  <2> QED BY <1>2, <1>3
<1>5. PICK h : Iterates(h, 2, S, top, g)
  <2> HIDE DEF S, top, g
  <2> QED BY <1>2, <1>4, Recursion
<1>6. \A n \in 1..2 : h[n] = Above(h[n - 1], D(n))
  <2> HIDE DEF S
  <2> QED BY <1>5 DEF Iterates
<1>7. h = [n \in 0..Len(Dirs) |-> IF n = 0 THEN LoadGlobal(files) ELSE Above(h[n - 1], D(n))]
  <2>1. \A n \in 0..2 : n # 0 => n \in 1..2
    OBVIOUS
  <2>2. h = [n \in 0..2 |-> h[n]] /\ h[0] = LoadGlobal(files)
    BY <1>5 DEF Iterates
  <2> HIDE DEF S, g
  <2> QED BY <1>1, <1>6, <2>1, <2>2
<1>8. f = [n \in 0..Len(Dirs) |-> IF n = 0 THEN LoadGlobal(files) ELSE Above(f[n - 1], D(n))]
  BY <1>7, Zenon
<1>9. LoadRecursive(files, profiles, withSync, nd) = f[2]
  BY <1>1 DEF LoadRecursive, Above, D
<1> HIDE DEF f
<1>10. f[0] = top /\ f[1] = Above(f[0], D(1)) /\ f[2] = Above(f[1], D(2))
  BY <1>1, <1>8
<1> HIDE DEF S, top
<1>11. f[1] \in S /\ f[2] \in S /\ D(2).loaded \subseteq f[2].loaded
  BY <1>2, <1>3, <1>10
<1>12. D(2) = LoadDir(files, "cwd", profiles, withSync, nd)
  BY <1>1 DEF D
<1> QED BY <1>9, <1>11, <1>12, DirTyped DEF S

--------------------------------------------------------------------------------
(* Profiles that inherit from one another. *)

(* Everything that is inherited is there, and earlier. *)
Ordered(c, out) == \A i \in 1..Len(out) : \A q \in Range(Inherits(c, out[i])) : \E j \in 1..(i - 1) : out[j] = q

Goods(c) == {s \in Visits : s.err \/ (s.seen = Range(s.out) /\ Ordered(c, s.out))}

(* What a visit of p makes of s. *)
Leads(c, p, s, r) == r \in Goods(c) /\ (~r.err => ~s.err /\ s.seen \subseteq r.seen /\ p \in r.seen)

Visitors(c) ==
  {v \in [AnyProfile \X Visits \X BOOLEAN -> Visits] :
     \A p \in AnyProfile, s \in Goods(c), force \in BOOLEAN : Leads(c, p, s, v[<<p, s, force>>])}

LEMMA InheritsTyped ==
  ASSUME NEW names, NEW c \in Configs(names), NEW p
  PROVE  Inherits(c, p) \in Seq(AnyProfile) /\ (p = Default => Inherits(c, p) = <<>>)
<1>1. /\ Table(c.tab, p) \in Tables(LoadedEntries(names)) /\ <<>> \in Seq(AnyProfile)
      /\ p = Default => Table(c.tab, p).inherits = None
  BY TableTyped DEF Configs
<1>2. Table(c.tab, p).inherits \in {None} \cup Seq(AnyProfile)
  BY <1>1 DEF Tables
<1> QED BY <1>1, <1>2 DEF Inherits

LEMMA NoVisitsTyped == ASSUME NEW c PROVE NoVisits \in Goods(c)
<1>1. <<>> \in Seq(AnyProfile) /\ Range(<<>>) = {} /\ Ordered(c, <<>>)
  BY DEF Range, Ordered
<1> QED BY <1>1 DEF NoVisits, Visits, Goods

(* f is the result after so many profiles. *)
Chain(f, v, s, ps, force) ==
  f[0] = s /\ VisitAll(v, s, ps, force) = f[Len(ps)] /\ \A n \in 1..Len(ps) : f[n] = v[<<ps[n], f[n - 1], force>>]

LEMMA VisitAllIs ==
  ASSUME NEW v \in [AnyProfile \X Visits \X BOOLEAN -> Visits], NEW s \in Visits,
         NEW ps \in Seq(AnyProfile), NEW force \in BOOLEAN
  PROVE  \E f \in [0..Len(ps) -> Visits] : Chain(f, v, s, ps, force)
<1> DEFINE m == Len(ps)
           f == CHOOSE f : f = [n \in 0..Len(ps) |-> IF n = 0 THEN s ELSE v[<<ps[n], f[n - 1], force>>]]
           g == [x \in (1..m) \X Visits |-> v[<<ps[x[1]], x[2], force>>]]
<1>1. m \in Nat /\ \A n \in 1..m : ps[n] \in AnyProfile
  OBVIOUS
<1>2. g \in [(1..m) \X Visits -> Visits]
  <2> HIDE DEF m
  <2> QED BY <1>1
<1>3. PICK h : Iterates(h, m, Visits, s, g)
  <2> HIDE DEF m, g
  <2> QED BY <1>1, <1>2, Recursion
<1>4. ASSUME NEW n \in 1..m PROVE h[n] = v[<<ps[n], h[n - 1], force>>]
  <2> HIDE DEF m
  <2> QED BY <1>3 DEF Iterates
<1>5. h = [n \in 0..m |-> IF n = 0 THEN s ELSE v[<<ps[n], h[n - 1], force>>]]
  <2> HIDE DEF g
  <2>1. \A n \in 0..m : n # 0 => n \in 1..m
    BY <1>1
  <2>2. h = [n \in 0..m |-> h[n]] /\ h[0] = s
    BY <1>3 DEF Iterates
  <2> QED BY <1>4, <2>1, <2>2
<1>6. f = [n \in 0..m |-> IF n = 0 THEN s ELSE v[<<ps[n], f[n - 1], force>>]]
  BY <1>5, Zenon
<1>7. VisitAll(v, s, ps, force) = f[m]
  BY DEF VisitAll
<1> HIDE DEF f, m
<1>8. f[0] = s /\ \A n \in 1..m : f[n] = v[<<ps[n], f[n - 1], force>>]
  BY <1>1, <1>6
<1>9. \A n \in 0..m : f[n] \in Visits
  <2>1. \A n \in 1..m : f[n - 1] \in Visits => f[n] \in Visits
    BY <1>1, <1>8
  <2> QED BY <1>1, <1>8, <2>1, UpTo
<1>10. f \in [0..m -> Visits]
  <2>1. f = [n \in 0..m |-> f[n]]
    BY <1>6
  <2> QED BY <1>9, <2>1
<1> QED BY <1>7, <1>8, <1>10 DEF m, Chain

LEMMA VisitAllTyped ==
  ASSUME NEW v \in [AnyProfile \X Visits \X BOOLEAN -> Visits], NEW s \in Visits,
         NEW ps \in Seq(AnyProfile), NEW force \in BOOLEAN
  PROVE  VisitAll(v, s, ps, force) \in Visits
<1>1. PICK f \in [0..Len(ps) -> Visits] : Chain(f, v, s, ps, force)
  BY VisitAllIs
<1>2. Len(ps) \in 0..Len(ps)
  OBVIOUS
<1> QED BY <1>1, <1>2 DEF Chain

LEMMA VisitAllLeads ==
  ASSUME NEW c, NEW v \in Visitors(c), NEW s \in Goods(c), NEW ps \in Seq(AnyProfile), NEW force \in BOOLEAN
  PROVE  LET r == VisitAll(v, s, ps, force)
         IN  r \in Goods(c) /\ (~r.err => ~s.err /\ s.seen \subseteq r.seen /\ Range(ps) \subseteq r.seen)
<1>1. v \in [AnyProfile \X Visits \X BOOLEAN -> Visits] /\ s \in Visits
  BY DEF Visitors, Goods
<1>2. PICK f \in [0..Len(ps) -> Visits] : Chain(f, v, s, ps, force)
  BY <1>1, VisitAllIs
<1> USE DEF Chain
<1> DEFINE m == Len(ps)
           T == {n \in 0..m : /\ f[n] \in Goods(c)
                              /\ ~f[n].err => ~s.err /\ s.seen \subseteq f[n].seen /\ \A i \in 1..n : ps[i] \in f[n].seen}
<1>3. m \in Nat /\ \A n \in 1..m : ps[n] \in AnyProfile
  OBVIOUS
<1>4. 0 \in T
  <2>1. 0 \in 0..m /\ 1..0 = {}
    BY <1>3
  <2> QED BY <1>2, <2>1
<1>5. ASSUME NEW n \in 1..m, n - 1 \in T PROVE n \in T
  <2>1. n \in 0..m /\ \A i \in 1..n : i # n => i \in 1..n - 1
    BY <1>3
  <2>2. /\ f[n - 1] \in Goods(c)
        /\ ~f[n - 1].err => ~s.err /\ s.seen \subseteq f[n - 1].seen /\ \A i \in 1..n - 1 : ps[i] \in f[n - 1].seen
    BY <1>5
  <2>3. f[n] = v[<<ps[n], f[n - 1], force>>]
    BY <1>2
  <2>4. Leads(c, ps[n], f[n - 1], f[n])
    BY <1>3, <2>2, <2>3 DEF Visitors
  <2>5. f[n] \in Goods(c) /\ (~f[n].err => ~f[n - 1].err /\ f[n - 1].seen \subseteq f[n].seen /\ ps[n] \in f[n].seen)
    BY <2>4 DEF Leads
  <2> HIDE DEF m
  <2> QED BY <2>1, <2>2, <2>5
<1>6. m \in T
  <2> HIDE DEF T, m
  <2>1. 0..m \subseteq T
    BY <1>3, <1>4, <1>5, Counting
  <2> QED BY <1>3, <2>1
<1>7. /\ f[m] \in Goods(c)
      /\ ~f[m].err => ~s.err /\ s.seen \subseteq f[m].seen /\ \A i \in 1..m : ps[i] \in f[m].seen
  BY <1>6
<1>8. Range(ps) = {ps[i] : i \in 1..m}
  BY DEF Range
<1> HIDE DEF T
<1> QED BY <1>2, <1>7, <1>8

LEMMA AppendOrdered ==
  ASSUME NEW c, NEW out \in Seq(AnyProfile), NEW p \in AnyProfile, Ordered(c, out), Range(Inherits(c, p)) \subseteq Range(out)
  PROVE  Ordered(c, Append(out, p)) /\ Range(Append(out, p)) = Range(out) \cup {p}
<1> DEFINE m == Len(out)
           new == Append(out, p)
<1>1. m \in Nat /\ Len(new) = m + 1 /\ new[m + 1] = p /\ \A i \in 1..m : new[i] = out[i]
  OBVIOUS
<1>2. Range(out) = {out[i] : i \in 1..m} /\ Range(new) = {new[i] : i \in 1..m + 1}
  BY DEF Range
<1> HIDE DEF new, m
<1>3. Range(new) = Range(out) \cup {p}
  <2>1. \A i \in 1..m + 1 : i = m + 1 \/ i \in 1..m
    BY <1>1
  <2>2. m + 1 \in 1..m + 1 /\ \A i \in 1..m : i \in 1..m + 1
    BY <1>1
  <2> QED BY <1>1, <1>2, <2>1, <2>2
<1>4. ASSUME NEW i \in 1..m + 1, NEW q \in Range(Inherits(c, new[i])) PROVE \E j \in 1..(i - 1) : new[j] = q
  <2>1. CASE i = m + 1
    <3>1. PICK j \in 1..m : out[j] = q
      BY <1>1, <1>2, <1>4, <2>1
    <3> QED BY <1>1, <2>1, <3>1
  <2>2. CASE i \in 1..m
    <3>1. PICK j \in 1..(i - 1) : out[j] = q
      BY <1>1, <1>4, <2>2 DEF Ordered, m
    <3>2. j \in 1..m
      BY <1>1, <2>2
    <3> QED BY <1>1, <3>1, <3>2
  <2> QED BY <1>1, <2>1, <2>2
<1>5. Ordered(c, new)
  BY <1>1, <1>4 DEF Ordered
<1> QED BY <1>3, <1>5 DEF new

(* A visit, if the visits of what p inherits are sound. *)
LEMMA ReachedGood ==
  ASSUME NEW c, NEW s \in Goods(c), ~s.err, NEW p \in AnyProfile, Range(Inherits(c, p)) \subseteq s.seen, NEW path \in Seq(AnyProfile)
  PROVE  Leads(c, p, s, Reached(s, p)) /\ Leads(c, p, s, [Reached(s, p) EXCEPT !.path = path])
<1>1. s \in Visits /\ s.seen = Range(s.out) /\ Ordered(c, s.out) /\ s.out \in Seq(AnyProfile)
  BY DEF Goods, Visits
<1>2. Ordered(c, Append(s.out, p)) /\ Range(Append(s.out, p)) = s.seen \cup {p}
  BY <1>1, AppendOrdered
<1> DEFINE new == Append(s.out, p)
<1>3. new \in Seq(AnyProfile) /\ Ordered(c, new) /\ Range(new) = s.seen \cup {p}
  BY <1>1, <1>2
<1> HIDE DEF new
<1>4. Reached(s, p) = [s EXCEPT !.seen = @ \cup {p}, !.out = new]
  BY DEF Reached, new
<1>5. Reached(s, p) \in Visits /\ Reached(s, p).seen = s.seen \cup {p} /\ Reached(s, p).out = new
  BY <1>1, <1>3, <1>4 DEF Visits
<1>6. /\ [Reached(s, p) EXCEPT !.path = path] \in Visits
      /\ [Reached(s, p) EXCEPT !.path = path].seen = s.seen \cup {p}
      /\ [Reached(s, p) EXCEPT !.path = path].out = new
  BY <1>5 DEF Visits
<1> QED BY <1>3, <1>5, <1>6 DEF Leads, Goods

LEMMA PathGrows ==
  ASSUME NEW s \in Visits, NEW p \in AnyProfile
  PROVE  LET in == [s EXCEPT !.path = Append(@, p)]
         IN  /\ in \in Visits /\ in.err = s.err /\ in.seen = s.seen /\ in.out = s.out
             /\ Failed(s) \in Visits /\ Reached(s, p) \in Visits
<1>1. s.path \in Seq(AnyProfile) /\ s.out \in Seq(AnyProfile)
  BY DEF Visits
<1> DEFINE path == Append(s.path, p)
           out == Append(s.out, p)
<1>2. path \in Seq(AnyProfile) /\ out \in Seq(AnyProfile)
  BY <1>1
<1>3. [s EXCEPT !.path = Append(@, p)] = [s EXCEPT !.path = path] /\ Reached(s, p) = [s EXCEPT !.seen = @ \cup {p}, !.out = out]
  BY DEF Reached
<1> HIDE DEF path, out
<1>4. [s EXCEPT !.path = path] \in Visits /\ [s EXCEPT !.seen = @ \cup {p}, !.out = out] \in Visits
  BY <1>2 DEF Visits
<1>5. /\ [s EXCEPT !.path = path].err = s.err /\ [s EXCEPT !.path = path].seen = s.seen
      /\ [s EXCEPT !.path = path].out = s.out
  BY DEF Visits
<1>6. Failed(s) \in Visits
  BY DEF Visits, Failed
<1> QED BY <1>3, <1>4, <1>5, <1>6

LEMMA VisitOneTyped ==
  ASSUME NEW names, NEW c \in Configs(names), NEW validate, NEW v \in [AnyProfile \X Visits \X BOOLEAN -> Visits],
         NEW p \in AnyProfile, NEW s \in Visits, NEW force \in BOOLEAN
  PROVE  VisitOne(c, validate, v, p, s, force) \in Visits
<1> DEFINE in == [s EXCEPT !.path = Append(@, p)]
           t == VisitAll(v, in, Inherits(c, p), FALSE)
<1>1. in \in Visits
  BY PathGrows
<1>2. t \in Visits
  <2> HIDE DEF in
  <2> QED BY <1>1, InheritsTyped, VisitAllTyped
<1>3. Failed(s) \in Visits /\ Reached(s, p) \in Visits
  BY PathGrows
<1> HIDE DEF t
<1>4. Visited(t, p, s.path) \in Visits
  <2>1. Reached(t, p) \in Visits /\ s.path \in Seq(AnyProfile)
    BY <1>2, PathGrows DEF Visits
  <2> QED BY <1>2, <2>1 DEF Visits, Visited
<1>5. \/ VisitOne(c, validate, v, p, s, force) = s
      \/ VisitOne(c, validate, v, p, s, force) = Reached(s, p)
      \/ VisitOne(c, validate, v, p, s, force) = Failed(s)
      \/ VisitOne(c, validate, v, p, s, force) = Visited(t, p, s.path)
  BY DEF VisitOne, t
<1> QED BY <1>3, <1>4, <1>5

LEMMA VisitOneLeads ==
  ASSUME NEW names, NEW c \in Configs(names), NEW validate, NEW v \in Visitors(c),
         NEW p \in AnyProfile, NEW s \in Goods(c), NEW force \in BOOLEAN
  PROVE  Leads(c, p, s, VisitOne(c, validate, v, p, s, force))
<1> DEFINE in == [s EXCEPT !.path = Append(@, p)]
           t == VisitAll(v, in, Inherits(c, p), FALSE)
           r == VisitOne(c, validate, v, p, s, force)
<1>1. s \in Visits /\ s.path \in Seq(AnyProfile)
  BY DEF Goods, Visits
<1>2. in \in Goods(c) /\ in.err = s.err /\ in.seen = s.seen
  BY <1>1, PathGrows DEF Goods
<1>3. t \in Goods(c) /\ (~t.err => ~in.err /\ in.seen \subseteq t.seen /\ Range(Inherits(c, p)) \subseteq t.seen)
  <2> HIDE DEF in
  <2> QED BY <1>2, InheritsTyped, VisitAllLeads
<1> HIDE DEF in, t
<1>4. CASE s.err \/ (p \in s.seen /\ ~force)
  <2>1. r = s
    BY <1>4 DEF VisitOne
  <2> QED BY <1>4, <2>1 DEF Leads
<1>5. CASE ~s.err /\ (p \notin s.seen \/ force) /\ p = Default
  <2>1. r = Reached(s, p)
    BY <1>5 DEF VisitOne
  <2>2. Range(Inherits(c, p)) \subseteq s.seen
    <3>1. Range(<<>>) = {}
      BY DEF Range
    <3> QED BY <1>5, <3>1, InheritsTyped
  <2>3. Leads(c, p, s, Reached(s, p))
    BY <1>1, <1>5, <2>2, ReachedGood
  <2> QED BY <2>1, <2>3
<1>6. CASE ~s.err /\ (p \notin s.seen \/ force) /\ p # Default
  <2>1. r = Failed(s) \/ r = Visited(t, p, s.path)
    BY <1>6 DEF VisitOne, t, in
  <2>2. Leads(c, p, s, Failed(s))
    BY <1>1 DEF Leads, Goods, Visits, Failed
  <2>3. CASE t.err
    BY <1>3, <2>1, <2>2, <2>3 DEF Visited, Leads
  <2>4. CASE ~t.err
    <3>1. Leads(c, p, t, [Reached(t, p) EXCEPT !.path = s.path])
      BY <1>1, <1>3, <2>4, ReachedGood
    <3>2. Leads(c, p, s, [Reached(t, p) EXCEPT !.path = s.path])
      BY <1>2, <1>3, <2>4, <3>1 DEF Leads
    <3> QED BY <2>1, <2>2, <2>4, <3>2 DEF Visited
  <2> QED BY <2>3, <2>4
<1> QED BY <1>4, <1>5, <1>6

LEMMA DepthTyped == Depth \in Nat
BY ConfigLayersAssumption, FS_CardinalityType DEF Depth

LEMMA VisitTyped ==
  ASSUME NEW names, NEW c \in Configs(names), NEW validate
  PROVE  Visit(c, validate) \in Visitors(c)
<1> DEFINE D == AnyProfile \X Visits \X BOOLEAN
           S == Visitors(c)
           b == [x \in D |-> Failed(x[2])]
           N(v) == [x \in D |-> VisitOne(c, validate, v, x[1], x[2], x[3])]
           f == CHOOSE f : f = [n \in 0..Depth |-> IF n = 0 THEN b ELSE N(f[n - 1])]
           g == [x \in (1..Depth) \X S |-> N(x[2])]
<1>1. b \in S
  <2>1. \A p \in AnyProfile, s \in Visits, force \in BOOLEAN : b[<<p, s, force>>] = Failed(s) /\ Failed(s) \in Visits
    BY DEF Failed, Visits
  <2>2. b \in [D -> Visits]
    BY <2>1
  <2>3. \A p \in AnyProfile, s \in Goods(c), force \in BOOLEAN : Leads(c, p, s, Failed(s)) /\ s \in Visits
    BY DEF Leads, Goods, Visits, Failed
  <2> HIDE DEF b
  <2> QED BY <2>1, <2>2, <2>3 DEF Visitors
<1>2. ASSUME NEW v \in S PROVE N(v) \in S
  <2>1. v \in [D -> Visits]
    BY DEF Visitors
  <2>2. \A p \in AnyProfile, s \in Visits, force \in BOOLEAN :
          N(v)[<<p, s, force>>] = VisitOne(c, validate, v, p, s, force)
    OBVIOUS
  <2>3. \A p \in AnyProfile, s \in Visits, force \in BOOLEAN : VisitOne(c, validate, v, p, s, force) \in Visits
    BY <2>1, VisitOneTyped
  <2>4. N(v) \in [D -> Visits]
    BY <2>3
  <2>5. \A p \in AnyProfile, s \in Goods(c), force \in BOOLEAN :
          Leads(c, p, s, VisitOne(c, validate, v, p, s, force)) /\ s \in Visits
    BY VisitOneLeads DEF Goods
  <2> HIDE DEF N
  <2> QED BY <2>2, <2>4, <2>5 DEF Visitors
<1> HIDE DEF b, N
<1>3. g \in [(1..Depth) \X S -> S]
  <2> HIDE DEF S
  <2> QED BY <1>2
<1>4. PICK h : Iterates(h, Depth, S, b, g)
  <2> HIDE DEF S, g
  <2> QED BY <1>1, <1>3, DepthTyped, Recursion
<1>5. ASSUME NEW n \in 1..Depth PROVE h[n] = N(h[n - 1])
  <2> HIDE DEF S
  <2> QED BY <1>4 DEF Iterates
<1>6. h = [n \in 0..Depth |-> IF n = 0 THEN b ELSE N(h[n - 1])]
  <2> HIDE DEF g, S
  <2>1. \A n \in 0..Depth : n # 0 => n \in 1..Depth
    BY DepthTyped
  <2>2. h = [n \in 0..Depth |-> h[n]] /\ h[0] = b
    BY <1>4 DEF Iterates
  <2> QED BY <1>5, <2>1, <2>2
<1>7. f = [n \in 0..Depth |-> IF n = 0 THEN b ELSE N(f[n - 1])]
  BY <1>6, Zenon
<1>8. Visit(c, validate) = f[Depth]
  BY DEF Visit, b, N
<1> HIDE DEF f, S
<1>9. f[0] = b /\ \A n \in 1..Depth : f[n] = N(f[n - 1])
  BY <1>7, DepthTyped
<1>10. \A n \in 0..Depth : f[n] \in S
  BY <1>1, <1>2, <1>9, DepthTyped, UpTo
<1> QED BY <1>8, <1>10, DepthTyped DEF S

(* What a selection is resolved to. *)
LEMMA ResolveTyped ==
  ASSUME NEW names, NEW c \in Configs(names), NEW profiles \in Seq(AnyProfile), NEW validate
  PROVE  LET r == ResolveProfiles(c, profiles, validate)
         IN  /\ r \in Visits /\ r.out \in Seq(AnyProfile)
             /\ ~r.err => Ordered(c, r.out) /\ Range(profiles) \subseteq Range(r.out)
             /\ ~r.err /\ profiles # <<>> => r.out # <<>>
<1> DEFINE r == ResolveProfiles(c, profiles, validate)
<1>1. r \in Goods(c) /\ (~r.err => Range(profiles) \subseteq r.seen)
  BY VisitTyped, NoVisitsTyped, VisitAllLeads DEF ResolveProfiles
<1> HIDE DEF r
<1>2. r \in Visits /\ r.out \in Seq(AnyProfile) /\ (~r.err => r.seen = Range(r.out) /\ Ordered(c, r.out))
  BY <1>1 DEF Goods, Visits
<1>3. ASSUME ~r.err, profiles # <<>> PROVE r.out # <<>>
  <2>1. 1 \in DOMAIN profiles /\ profiles[1] \in Range(profiles)
    BY <1>3 DEF Range
  <2>2. Range(<<>>) = {}
    BY DEF Range
  <2> QED BY <1>1, <1>2, <1>3, <2>1, <2>2
<1> QED BY <1>1, <1>2, <1>3 DEF r

--------------------------------------------------------------------------------
(* What a selection sees. *)

LEMMA SelectedTyped ==
  ASSUME NEW names, NEW c \in Configs(names), NEW ps \in Seq(AnyProfile)
  PROVE  Selected(c, ps) \in Seq(AnyProfile)
BY ResolveTyped, NamedTyped DEF Selected

LEMMA SecretsTyped ==
  ASSUME NEW names, NEW c \in Configs(names), NEW ps \in Seq(AnyProfile), NEW nd
  PROVE  SecretsOf(c, ps, nd) \in Partial(Key, LoadedEntries(names))
<1> DEFINE m == Len(ps)
           S == Partial(Key, LoadedEntries(names))
           L(n) == Table(c.tab, ps[n]).secrets
           e == IF ps # <<>> /\ nd THEN <<>> ELSE c.tab[Default].secrets
           f == CHOOSE f : f = [n \in 0..m |->
                                  CASE n = 0 /\ ps # <<>> /\ nd -> <<>>
                                    [] n = 0 /\ ~(ps # <<>> /\ nd) -> c.tab[Default].secrets
                                    [] OTHER -> Over(L(n), f[n - 1])]
           g == [x \in (1..m) \X S |-> Over(L(x[1]), x[2])]
<1>1. m \in Nat /\ c.tab \in Tabs(LoadedEntries(names))
  BY DEF Configs
<1>2. e \in S
  BY <1>1, TabsMean, PartialEmpty DEF Tables
<1>3. ASSUME NEW n \in 1..m, NEW x \in S PROVE Over(L(n), x) \in S
  BY <1>1, TableTyped, PartialOver
<1>4. g \in [(1..m) \X S -> S]
  <2> HIDE DEF S, m, L
  <2> QED BY <1>3
<1>5. PICK h : Iterates(h, m, S, e, g)
  <2> HIDE DEF S, m, g, e
  <2> QED BY <1>1, <1>2, <1>4, Recursion
<1>6. ASSUME NEW n \in 1..m PROVE h[n] = Over(L(n), h[n - 1])
  <2> HIDE DEF S, m, L
  <2> QED BY <1>5 DEF Iterates
<1>7. h = [n \in 0..m |-> CASE n = 0 /\ ps # <<>> /\ nd -> <<>>
                            [] n = 0 /\ ~(ps # <<>> /\ nd) -> c.tab[Default].secrets
                            [] OTHER -> Over(L(n), h[n - 1])]
  <2>1. \A n \in 0..m : n # 0 => n \in 1..m
    BY <1>1
  <2>2. h = [n \in 0..m |-> h[n]] /\ h[0] = e
    BY <1>5 DEF Iterates
  <2> HIDE DEF S, g, m, L
  <2> QED BY <1>6, <2>1, <2>2
<1>8. f = [n \in 0..m |-> CASE n = 0 /\ ps # <<>> /\ nd -> <<>>
                            [] n = 0 /\ ~(ps # <<>> /\ nd) -> c.tab[Default].secrets
                            [] OTHER -> Over(L(n), f[n - 1])]
  <2> HIDE DEF m, L
  <2> QED BY <1>7, Zenon
<1>9. SecretsOf(c, ps, nd) = f[m]
  BY DEF SecretsOf
<1> HIDE DEF f, m, L, S
<1>10. f[0] = e /\ \A n \in 1..m : f[n] = Over(L(n), f[n - 1])
  <2>1. \A n \in 0..m : f[n] = CASE n = 0 /\ ps # <<>> /\ nd -> <<>>
                                [] n = 0 /\ ~(ps # <<>> /\ nd) -> c.tab[Default].secrets
                                [] OTHER -> Over(L(n), f[n - 1])
    BY <1>8, Zenon
  <2>2. 0 \in 0..m /\ \A n \in 1..m : n \in 0..m /\ n # 0
    BY <1>1
  <2> QED BY <2>1, <2>2
<1> HIDE DEF e
<1>11. \A n \in 0..m : f[n] \in S
  <2>1. \A n \in 1..m : f[n - 1] \in S => f[n] \in S
    BY <1>3, <1>10
  <2> QED BY <1>1, <1>2, <1>10, <2>1, UpTo
<1> QED BY <1>1, <1>9, <1>11 DEF S

LEMMA GetSecretsTyped ==
  ASSUME NEW names, NEW c \in Configs(names), NEW ps \in Seq(AnyProfile), NEW nd
  PROVE  LET all == GetSecrets(c, ps, nd)
         IN  DOMAIN all \subseteq Key /\ all \in Partial(Key, LoadedEntries(names))
             /\ \A k \in DOMAIN all : all[k] \in LoadedEntries(names)
<1>1. GetSecrets(c, ps, nd) \in Partial(Key, LoadedEntries(names))
  BY SelectedTyped, SecretsTyped DEF GetSecrets
<1> QED BY <1>1, PartialMeans

(* The greatest and the least of some numbers are among them. *)
LEMMA MaxThere == ASSUME NEW b \in Nat, NEW T \in SUBSET (0..b), T # {} PROVE Max(T) \in T
<1>1. PICK n \in T : \A m \in T : m <= n
  BY GreatestNatural
<1>2. \A m \in T : n >= m
  BY <1>1
<1> QED BY <1>2 DEF Max

LEMMA MinThere == ASSUME NEW T \in SUBSET Nat, T # {} PROVE Min(T) \in T
<1>1. PICK n \in T : \A m \in T : n <= m
  BY LeastNatural
<1> QED BY <1>1 DEF Min

LEMMA SecretTyped ==
  ASSUME NEW names, NEW c \in Configs(names), NEW ps \in Seq(AnyProfile), NEW k, NEW nd
  PROVE  GetSecret(c, ps, k, nd) \in {None} \cup LoadedEntries(names)
<1> DEFINE qs == Selected(c, ps)
           own == {i \in DOMAIN qs : k \in DOMAIN Table(c.tab, qs[i]).secrets}
           root == c.tab[Default].secrets
<1>1. qs \in Seq(AnyProfile) /\ c.tab \in Tabs(LoadedEntries(names))
  BY SelectedTyped DEF Configs
<1> HIDE DEF qs
<1>2. \A i : \A j \in DOMAIN Table(c.tab, qs[i]).secrets : Table(c.tab, qs[i]).secrets[j] \in LoadedEntries(names)
  BY <1>1, TableTyped, PartialMeans
<1>3. own # {} => Max(own) \in own
  <2>1. own \in SUBSET (0..Len(qs)) /\ Len(qs) \in Nat
    BY <1>1
  <2> HIDE DEF own
  <2> QED BY <2>1, MaxThere
<1>4. \A j \in DOMAIN root : root[j] \in LoadedEntries(names)
  BY <1>1, TabsMean, PartialMeans DEF Tables
<1>5. own # {} => k \in DOMAIN Table(c.tab, qs[Max(own)]).secrets
  BY <1>3
<1>6. \/ SecretOf(c, qs, k, nd) = None
      \/ own # {} /\ SecretOf(c, qs, k, nd) = Table(c.tab, qs[Max(own)]).secrets[k]
      \/ k \in DOMAIN root /\ SecretOf(c, qs, k, nd) = root[k]
  BY DEF SecretOf
<1> HIDE DEF own, root
<1> QED BY <1>2, <1>4, <1>5, <1>6 DEF GetSecret, qs

LEMMA ProvidersTyped ==
  ASSUME NEW names, NEW c \in Configs(names), NEW ps
  PROVE  GetProviders(c, ps) \subseteq Provider
<1>1. ASSUME NEW p PROVE Table(c.tab, p).providers \subseteq Provider
  <2>1. Table(c.tab, p) \in Tables(LoadedEntries(names))
    BY TableTyped DEF Configs
  <2> QED BY <2>1 DEF Tables
<1> QED BY <1>1 DEF GetProviders

LEMMA DefaultTyped ==
  ASSUME NEW names, NEW c \in Configs(names), NEW ps
  PROVE  GetDefaultProvider(c, ps) \in [ok : BOOLEAN, prov : {None} \cup Provider]
<1> DEFINE all == GetProviders(c, ps)
           qs == <<Default>> \o Selected(c, ps)
<1>1. all \subseteq Provider
  BY ProvidersTyped
<1> HIDE DEF all, qs
<1> DEFINE named == {i \in DOMAIN qs : Table(c.tab, qs[i]).dflt # None}
           q == Table(c.tab, qs[Max(named)]).dflt
<1>2. (CHOOSE x \in all : TRUE) \in all \/ all = {}
  OBVIOUS
<1>3. DefaultProvider(c, all, qs) \in {NoProvider, BadProvider} \cup {[ok |-> TRUE, prov |-> x] : x \in all}
  <2> HIDE DEF q
  <2>1. \/ DefaultProvider(c, all, qs) \in {NoProvider, BadProvider}
        \/ q \in all /\ DefaultProvider(c, all, qs) = [ok |-> TRUE, prov |-> q]
        \/ (\E x \in all : all = {x}) /\ DefaultProvider(c, all, qs) = [ok |-> TRUE, prov |-> CHOOSE x \in all : TRUE]
    BY DEF DefaultProvider, q
  <2> QED BY <1>2, <2>1
<1>4. ASSUME NEW x \in all PROVE [ok |-> TRUE, prov |-> x] \in [ok : BOOLEAN, prov : {None} \cup Provider]
  BY <1>1
<1>5. {NoProvider, BadProvider} \subseteq [ok : BOOLEAN, prov : {None} \cup Provider]
  BY DEF NoProvider, BadProvider
<1>6. GetDefaultProvider(c, ps) = DefaultProvider(c, all, qs)
  BY DEF GetDefaultProvider, all, qs
<1> QED BY <1>3, <1>4, <1>5, <1>6

--------------------------------------------------------------------------------
(* What is written. *)

LEMMA StoredTyped ==
  ASSUME NEW names, NEW e \in Entries(names) \cup LoadedEntries(names)
  PROVE  Stored(e) \in Entries(names)
BY DEF Stored, Entries, LoadedEntries

LEMMA UpdateTyped ==
  ASSUME NEW names, NEW f \in File, NEW w \in AnyProfile, NEW puts, DOMAIN puts \subseteq Key,
         \A k \in DOMAIN puts : Stored(puts[k]) \in Entries(names), NEW dels \in SUBSET Key
  PROVE  Update(f, w, puts, dels) \in Items(names)
<1> DEFINE s == [k \in DOMAIN puts |-> Stored(puts[k])]
<1>1. s \in Partial(Key, Entries(names))
  <2>1. s \in [DOMAIN puts -> Entries(names)]
    OBVIOUS
  <2> HIDE DEF s
  <2> QED BY <2>1, PartialMade
<1>2. TableFor(f, w) \in AnyProfile
  BY DEF TableFor, AnyProfile
<1>3. Update(f, w, puts, dels) = [file |-> f, kind |-> "update", tbl |-> TableFor(f, w), puts |-> s, dels |-> dels]
  BY DEF Update
<1> HIDE DEF s
<1> QED BY <1>1, <1>2, <1>3 DEF Items

LEMMA ReplaceTyped ==
  ASSUME NEW names, NEW f \in File, NEW d \in Docs(names)
  PROVE  Replace(f, d) \in Items(names)
BY DEF Replace, Items

LEMMA ValueTyped ==
  ASSUME NEW names, NEW store, IsPartial(store, RemoteNames, Nat), NEW e \in Entries(names) \cup LoadedEntries(names)
  PROVE  /\ Value(e, store) \in {None} \cup Nat /\ RawValue(e, store) \in {None} \cup Nat
         /\ names \subseteq DOMAIN store /\ e.val # None => RawValue(e, store) \in Nat
<1>1. \A n \in DOMAIN store : store[n] \in Nat
  BY DEF IsPartial
<1>2. ASSUME NEW x, x.sync \in {None} \cup Nat, x.val \in {None} \cup Values(names)
      PROVE  /\ Value(x, store) \in {None} \cup Nat
             /\ names \subseteq DOMAIN store /\ x.sync = None /\ x.val # None => Value(x, store) \in Nat
  BY <1>1, <1>2 DEF Value, Values
<1>3. /\ e.sync \in {None} \cup Nat /\ e.val \in {None} \cup Values(names)
      /\ [e EXCEPT !.sync = None].sync = None /\ [e EXCEPT !.sync = None].val = e.val
  BY DEF Entries, LoadedEntries
<1> QED BY <1>2, <1>3 DEF RawValue

(* Another table p. *)
LEMMA TablePut ==
  ASSUME NEW E, NEW t \in Tabs(E), NEW p \in AnyProfile, NEW x \in Tables(E), p = Default => x.inherits = None
  PROVE  Over(One(p, x), t) \in Tabs(E)
<1> DEFINE u == Over(One(p, x), t)
<1>1. DOMAIN t \subseteq AnyProfile /\ t \in [DOMAIN t -> Tables(E)] /\ Default \in DOMAIN t /\ t[Default].inherits = None
  BY TabsMean
<1>2. DOMAIN One(p, x) = {p} /\ One(p, x)[p] = x
  BY DEF One
<1>3. u = [q \in {p} \cup DOMAIN t |-> IF q = p THEN x ELSE t[q]]
  BY <1>2 DEF Over
<1>4. u \in [{p} \cup DOMAIN t -> Tables(E)] /\ u[Default].inherits = None
  BY <1>1, <1>3
<1>5. {p} \cup DOMAIN t \in SUBSET AnyProfile /\ Default \in {p} \cup DOMAIN t
  BY <1>1
<1> HIDE DEF u
<1>6. u \in Tabs(E)
  BY <1>4, <1>5, TabsMade
<1> QED BY <1>6 DEF u

LEMMA ApplyTyped ==
  ASSUME NEW names, NEW d \in Docs(names), NEW u \in Items(names)
  PROVE  Apply(d, u) \in Docs(names)
<1>1. CASE u.kind = "replace"
  BY <1>1 DEF Apply, Items
<1>2. CASE u.kind # "replace"
  <2>1. u.tbl \in AnyProfile /\ u.puts \in Partial(Key, Entries(names)) /\ d.tab \in Tabs(Entries(names))
    BY <1>2 DEF Items, Docs
  <2> DEFINE t == Table(d.tab, u.tbl)
             kept == [k \in DOMAIN t.secrets \ u.dels |-> t.secrets[k]]
             s == Over(u.puts, kept)
             x == [t EXCEPT !.secrets = s]
             tab == Over(One(u.tbl, x), d.tab)
  <2>2. t \in Tables(Entries(names)) /\ t.secrets \in Partial(Key, Entries(names)) /\ (u.tbl = Default => t.inherits = None)
    BY <2>1, TableTyped
  <2>3. kept \in Partial(Key, Entries(names))
    <3> DEFINE K == DOMAIN t.secrets \ u.dels
    <3>1. K \in SUBSET DOMAIN t.secrets
      OBVIOUS
    <3> HIDE DEF K, t
    <3>2. [k \in K |-> t.secrets[k]] \in Partial(Key, Entries(names))
      BY <2>2, <3>1, PartialRestricted
    <3> QED BY <3>2 DEF K
  <2>4. s \in Partial(Key, Entries(names))
    <3> HIDE DEF kept
    <3> QED BY <2>1, <2>3, PartialOver
  <2> HIDE DEF s
  <2>5. x \in Tables(Entries(names)) /\ x.inherits = t.inherits
    <3> HIDE DEF t
    <3> QED BY <2>2, <2>4 DEF Tables
  <2>6. tab \in Tabs(Entries(names))
    <3> HIDE DEF x, t
    <3> QED BY <2>1, <2>2, <2>5, TablePut
  <2>7. Apply(d, u) = [d EXCEPT !.tab = tab]
    BY <1>2 DEF Apply, s
  <2> HIDE DEF tab
  <2> QED BY <2>6, <2>7 DEF Docs
<1> QED BY <1>1, <1>2

LEMMA SavedTyped ==
  ASSUME NEW names, NEW c \in Configs(names)
  PROVE  Saved(c) \in Docs(names)
<1> DEFINE K == {q \in DOMAIN c.tab : q = Default \/ c.tab[q] # EmptyTable}
           t == [p \in K |-> c.tab[p]]
           s == [p \in K |-> [k \in DOMAIN c.tab[p].secrets |-> Stored(c.tab[p].secrets[k])]]
           u == [p \in K |-> [c.tab[p] EXCEPT !.secrets = s[p]]]
<1>1. c.tab \in Tabs(LoadedEntries(names)) /\ c.root \in BOOLEAN /\ c.imports \in Seq(File)
  BY DEF Configs
<1>2. K \in SUBSET AnyProfile /\ Default \in K /\ t[Default].inherits = None
  BY <1>1, TabsMean
<1>3. t \in [K -> Tables(LoadedEntries(names))]
  BY <1>1, TabsMean
<1>4. t \in Tabs(LoadedEntries(names)) /\ DOMAIN t = K
  <2> HIDE DEF K
  <2>1. DOMAIN t = K
    OBVIOUS
  <2> HIDE DEF t
  <2> QED BY <1>2, <1>3, <2>1, TabsMade
<1>5. ASSUME NEW p \in K PROVE s[p] \in Partial(Key, Entries(names))
  <2>1. c.tab[p].secrets \in Partial(Key, LoadedEntries(names))
    BY <1>1, TabsMean DEF Tables
  <2> DEFINE all == c.tab[p].secrets
  <2>2. DOMAIN all \in SUBSET Key /\ all \in [DOMAIN all -> LoadedEntries(names)]
    BY <2>1, PartialMeans
  <2>3. s[p] = [k \in DOMAIN all |-> Stored(all[k])]
    OBVIOUS
  <2> HIDE DEF all, s
  <2>4. s[p] \in [DOMAIN all -> Entries(names)]
    BY <2>2, <2>3, StoredTyped
  <2> QED BY <2>2, <2>4, PartialMade
<1>6. s \in [DOMAIN t -> Partial(Key, Entries(names))]
  <2> HIDE DEF K
  <2> QED BY <1>5
<1>7. u = [p \in DOMAIN t |-> [t[p] EXCEPT !.secrets = s[p]]]
  <2> HIDE DEF s, K
  <2> QED OBVIOUS
<1>8. Saved(c) = [root |-> c.root, imports |-> c.imports, tab |-> u]
  BY DEF Saved
<1>9. u \in Tabs(Entries(names))
  <2> HIDE DEF u, s, t, K
  <2> QED BY <1>4, <1>6, <1>7, SecretsChanged
<1> HIDE DEF u
<1> QED BY <1>1, <1>8, <1>9 DEF Docs

(* The files that are edited. *)
LEMMA FilesThere ==
  /\ Global \in File /\ \A n \in {"fnox", ".fnox", "local", ".local"} \cup Profile : <<"cwd", n>> \in File
BY DEF File

LEMMA FindTyped ==
  ASSUME NEW files, NEW w \in AnyProfile
  PROVE  FindLocalConfig(files, w) \in File
<1> DEFINE S == {"fnox", ".fnox", "local", ".local"} \cup Profile
           all == IF w = Default THEN <<"fnox", ".fnox", "local", ".local">> ELSE <<w, "fnox", ".fnox">>
           hits == {i \in DOMAIN all : <<"cwd", all[i]>> \in DOMAIN files}
<1>1. all \in Seq(S)
  <2>1. ASSUME NEW a \in S, NEW b \in S, NEW c \in S, NEW d \in S PROVE <<a, b, c, d>> \in Seq(S) /\ <<a, b, c>> \in Seq(S)
    OBVIOUS
  <2>2. "fnox" \in S /\ ".fnox" \in S /\ "local" \in S /\ ".local" \in S /\ (w # Default => w \in S)
    BY DEF AnyProfile
  <2> HIDE DEF S
  <2> QED BY <2>1, <2>2
<1> HIDE DEF all
<1>2. hits # {} => Min(hits) \in hits
  <2>1. hits \in SUBSET Nat
    BY <1>1
  <2> HIDE DEF hits
  <2> QED BY <2>1, MinThere
<1>3. hits # {} => all[Min(hits)] \in S
  BY <1>1, <1>2
<1>4. FindLocalConfig(files, w) = <<"cwd", IF hits = {} THEN "fnox" ELSE all[Min(hits)]>>
  BY DEF FindLocalConfig, all
<1> HIDE DEF hits
<1> QED BY <1>3, <1>4, FilesThere DEF S

(* A finite set as a sequence. *)
LEMMA SetToSeqIs ==
  ASSUME NEW S, IsFiniteSet(S)
  PROVE  SetToSeq(S) \in Seq(S) /\ (\A x \in S : \E i \in DOMAIN SetToSeq(S) : SetToSeq(S)[i] = x)
<1> DEFINE m == Cardinality(S)
           f == SetToSeq(S)
<1>1. m \in Nat /\ ExistsBijection(1..m, S)
  BY FS_CardinalityType
<1>2. \E b \in [1..m -> S] : IsInjective(b)
  <2>1. PICK b \in Bijection(1..m, S) : TRUE
    BY <1>1 DEF ExistsBijection
  <2>2. b \in [1..m -> S] /\ IsInjective(b)
    BY Zenon DEF Bijection, Injection
  <2> QED BY <2>2
<1>3. f \in [1..m -> S] /\ IsInjective(f)
  BY <1>2, Zenon DEF SetToSeq
<1> HIDE DEF f
<1>4. f \in Seq(S) /\ DOMAIN f = 1..m
  BY <1>1, <1>3
<1>5. f \in Injection(1..m, S)
  BY <1>3, Zenon DEF Injection
<1>6. f \in Surjection(1..m, S)
  <2>1. IsFiniteSet(1..m) /\ Cardinality(1..m) = m
    BY <1>1, FS_Interval
  <2> QED BY <1>5, <2>1, FS_Injection
<1>7. \A x \in S : \E i \in 1..m : f[i] = x
  BY <1>6 DEF Surjection
<1> QED BY <1>4, <1>7 DEF f

--------------------------------------------------------------------------------
(* The invariant: the files, and the configuration and the document that a process holds,
   refer to nothing but what the remote store has; what it is going to write may also refer
   to what it puts there before. *)

Pending(s) == {s.puts[i].name : i \in 1..Len(s.puts)}

(* What discovery has found for the command that is going to work with it. *)
Found(s, files) ==
  /\ WriteProfile(s.cmd) # None
  /\ Ordered(s.cfg, s.prof)
  /\ s.alone => \A q \in Range(s.prof) : q \in Profile /\ <<"cwd", q>> \in DOMAIN files => q \in s.cfg.loaded

Held(s, names, files) ==
  /\ s \in Holdings(names, names \cup Pending(s))
  /\ InPlace(s)
  /\ s.at # "idle" => s.prof # <<>>
  /\ s.at = "work" /\ Loads(s.cmd) => Found(s, files)
  /\ s.at = "editor" => s.shown \in [Shown(s.cfg) -> Nat]

IInv ==
  /\ FilesOK(fs, DOMAIN remote)
  /\ IsPartial(remote, RemoteNames, Nat)
  /\ proc = [p \in Proc |-> proc[p]] /\ \A p \in Proc : Held(proc[p], DOMAIN remote, fs)
  /\ next \in Nat /\ begun \in 0..MaxCommands

LEMMA ItemsGrow ==
  ASSUME NEW A, NEW B, A \subseteq B
  PROVE  Items(A) \subseteq Items(B) /\ Seq(Items(A)) \subseteq Seq(Items(B))
<1>1. Entries(A) \subseteq Entries(B) /\ Docs(A) \subseteq Docs(B)
  BY TypesGrow
<1>2. Partial(Key, Entries(A)) \subseteq Partial(Key, Entries(B))
  BY <1>1, PartialGrows
<1>3. Items(A) \subseteq Items(B)
  BY <1>1, <1>2 DEF Items
<1> QED BY <1>3

LEMMA HoldingsGrow ==
  ASSUME NEW A, NEW B, A \subseteq B, NEW M, NEW N, M \subseteq N
  PROVE  Holdings(A, M) \subseteq Holdings(B, N)
<1>1. Docs(A) \subseteq Docs(B) /\ Configs(A) \subseteq Configs(B) /\ Seq(Items(M)) \subseteq Seq(Items(N))
  BY TypesGrow, ItemsGrow
<1> DEFINE S == Seq(Items(M))
           T == Seq(Items(N))
           P == Partial(AnyProfile \X Key, Nat)
<1>2. S \subseteq T
  BY <1>1
<1>3. /\ Holdings(A, M) = [at : Labels, cmd : {None} \cup Command, prof : Seq(AnyProfile), cfg : Configs(A), puts : Seq(Puts),
                           v : {None} \cup Nat, shown : P, changed : {None} \cup (AnyProfile \X Key),
                           todo : S, doc : Docs(A), alone : BOOLEAN]
      /\ Holdings(B, N) = [at : Labels, cmd : {None} \cup Command, prof : Seq(AnyProfile), cfg : Configs(B), puts : Seq(Puts),
                           v : {None} \cup Nat, shown : P, changed : {None} \cup (AnyProfile \X Key),
                           todo : T, doc : Docs(B), alone : BOOLEAN]
  BY DEF Holdings
<1> HIDE DEF S, T, P
<1> QED BY <1>1, <1>2, <1>3

LEMMA FilesGrow ==
  ASSUME NEW A, NEW B, A \subseteq B, NEW files, FilesOK(files, A)
  PROVE  FilesOK(files, B)
<1>1. Docs(A) \subseteq Docs(B)
  BY TypesGrow
<1> QED BY <1>1, FilesMean, PartialGrows

LEMMA IdleHeld ==
  ASSUME NEW names, NEW files
  PROVE  Held(Idle, names, files)
<1>1. <<>> \in Partial(AnyProfile \X Key, Nat) /\ EmptyDoc \in Docs(names) /\ EmptyConfig \in Configs(names)
  BY PartialEmpty, EmptyTyped
<1> DEFINE more == names \cup Pending(Idle)
<1>2. <<>> \in Seq(AnyProfile) /\ <<>> \in Seq(Puts) /\ <<>> \in Seq(Items(more)) /\ "idle" \in Labels
  BY DEF Labels
<1> HIDE DEF more
<1>3. Idle \in Holdings(names, more)
  BY <1>1, <1>2 DEF Idle, Holdings
<1> QED BY <1>3 DEF Held, more, Idle, InPlace

(* What others hold when somebody has written. *)
LEMMA OthersHeld ==
  ASSUME NEW A, NEW B, A \subseteq B, NEW s, NEW files, Held(s, A, files), NEW after
  PROVE  Held([s EXCEPT !.alone = FALSE], B, after)
<1> DEFINE r == [s EXCEPT !.alone = FALSE]
<1>1. s \in Holdings(A, A \cup Pending(s))
  BY DEF Held
<1>2. s \in Holdings(B, B \cup Pending(s))
  BY <1>1, HoldingsGrow
<1> DEFINE more == B \cup Pending(s)
<1>3. s \in Holdings(B, more)
  BY <1>2
<1> HIDE DEF more
<1>4. /\ r \in Holdings(B, more) /\ r.puts = s.puts /\ r.at = s.at /\ r.cmd = s.cmd /\ r.todo = s.todo /\ r.prof = s.prof
      /\ r.cfg = s.cfg /\ r.shown = s.shown /\ ~r.alone
  BY <1>3 DEF Holdings
<1> HIDE DEF r
<1>5. Pending(r) = Pending(s)
  BY <1>4 DEF Pending
<1> USE DEF r
<1> HIDE DEF r
<1>6. r \in Holdings(B, B \cup Pending(r))
  BY <1>4, <1>5 DEF more
<1>7. InPlace(r) /\ (r.at # "idle" => r.prof # <<>>) /\ (r.at = "editor" => r.shown \in [Shown(r.cfg) -> Nat])
  BY <1>4 DEF Held, InPlace
<1>8. r.at = "work" /\ Loads(r.cmd) => Found(r, after)
  BY <1>4 DEF Held, Found
<1> QED BY <1>6, <1>7, <1>8 DEF Held, r

(* A step that writes nothing and leaves p with r. *)
LEMMA SetKeeps ==
  ASSUME IInv, NEW p \in Proc, NEW r, Held(r, DOMAIN remote, fs), Set(p, r), UNCHANGED <<fs, remote>>,
         next' \in Nat, begun' \in 0..MaxCommands
  PROVE  IInv'
<1>1. proc' = [q \in Proc |-> IF q = p THEN r ELSE proc[q]]
  BY DEF IInv, Set
<1>2. proc' = [q \in Proc |-> proc'[q]] /\ \A q \in Proc : proc'[q] = r \/ proc'[q] = proc[q]
  BY <1>1
<1>3. \A q \in Proc : Held(proc[q], DOMAIN remote, fs) /\ Held(proc'[q], DOMAIN remote, fs)
  BY <1>2 DEF IInv
<1> QED BY <1>2, <1>3 DEF IInv

LEMMA QuitKeeps ==
  ASSUME IInv, NEW p \in Proc, Quit(p), begun' = begun
  PROVE  IInv'
<1>1. Held(Idle, DOMAIN remote, fs)
  BY IdleHeld
<1> QED BY <1>1, SetKeeps DEF Quit, IInv

(* A step that writes a file or the remote store. *)
LEMMA WritesKeeps ==
  ASSUME IInv, NEW p \in Proc, NEW r, Held(r, (DOMAIN remote)', fs'), Writes(p, r),
         DOMAIN remote \subseteq (DOMAIN remote)', IsPartial(remote, RemoteNames, Nat)', FilesOK(fs, DOMAIN remote)',
         UNCHANGED <<next, begun>>
  PROVE  IInv'
<1>1. proc' = [q \in Proc |-> IF q = p THEN r ELSE [proc[q] EXCEPT !.alone = FALSE]]
  BY DEF Writes
<1>2. ASSUME NEW q \in Proc PROVE Held(proc'[q], (DOMAIN remote)', fs')
  <2>1. Held([proc[q] EXCEPT !.alone = FALSE], (DOMAIN remote)', fs')
    BY OthersHeld DEF IInv
  <2>2. proc'[q] = r \/ proc'[q] = [proc[q] EXCEPT !.alone = FALSE]
    BY <1>1
  <2> QED BY <2>1, <2>2
<1>3. proc' = [q \in Proc |-> proc'[q]]
  BY <1>1
<1> QED BY <1>2, <1>3 DEF IInv

LEMMA ReferencesThere ==
  ASSUME NEW names, NEW files, FilesOK(files, names)
  PROVE  References(files) \subseteq names
<1> SUFFICES ASSUME NEW v \in Written(files), v # None, v.k = "ref" PROVE v.v \in names
  BY DEF References
<1>1. PICK f \in DOMAIN files : \E t \in DOMAIN files[f].tab : \E k \in DOMAIN files[f].tab[t].secrets :
        v = files[f].tab[t].secrets[k].val
  BY DEF Written
<1> PICK t \in DOMAIN files[f].tab : \E k \in DOMAIN files[f].tab[t].secrets : v = files[f].tab[t].secrets[k].val
  BY <1>1
<1>6. PICK k \in DOMAIN files[f].tab[t].secrets : v = files[f].tab[t].secrets[k].val
  OBVIOUS
<1>2. files[f] \in Docs(names)
  BY FilesMean, PartialMeans
<1>3. files[f].tab \in Tabs(Entries(names))
  BY <1>2 DEF Docs
<1>4. files[f].tab[t].secrets \in Partial(Key, Entries(names))
  BY <1>3, TabsMean DEF Tables
<1>5. files[f].tab[t].secrets[k] \in Entries(names)
  BY <1>4, PartialMeans
<1> QED BY <1>5, <1>6 DEF Entries, Values

LEMMA TabsOf ==
  ASSUME NEW E, NEW F, NEW t \in Tabs(E), \A p \in DOMAIN t : \A k \in DOMAIN t[p].secrets : t[p].secrets[k] \in F
  PROVE  t \in Tabs(F)
<1>1. DOMAIN t \in SUBSET AnyProfile /\ t \in [DOMAIN t -> Tables(E)] /\ Default \in DOMAIN t /\ t[Default].inherits = None
  BY TabsMean
<1>2. ASSUME NEW p \in DOMAIN t PROVE t[p] \in Tables(F)
  <2>1. t[p] \in Tables(E) /\ t[p].secrets \in Partial(Key, E)
    BY <1>1 DEF Tables
  <2> DEFINE s == t[p].secrets
  <2>2. DOMAIN s \in SUBSET Key /\ s \in [DOMAIN s -> F]
    BY <2>1, PartialMeans
  <2>3. s \in Partial(Key, F)
    <3> HIDE DEF s
    <3> QED BY <2>2, PartialMade
  <2> QED BY <2>1, <2>3 DEF Tables
<1>3. t \in [DOMAIN t -> Tables(F)]
  BY <1>1, <1>2
<1> QED BY <1>1, <1>3, TabsMade

(* Files refer to the names that they refer to. *)
LEMMA ReferencesTyped ==
  ASSUME NEW names, NEW files, FilesOK(files, names)
  PROVE  FilesOK(files, References(files))
<1> DEFINE R == References(files)
<1>1. DOMAIN files \in SUBSET File /\ files \in [DOMAIN files -> Docs(names)]
  BY FilesMean, PartialMeans
<1>2. ASSUME NEW f \in DOMAIN files PROVE files[f] \in Docs(R)
  <2> DEFINE tab == files[f].tab
  <2>1. files[f] \in Docs(names) /\ tab \in Tabs(Entries(names))
    BY <1>1 DEF Docs
  <2>2. ASSUME NEW t \in DOMAIN tab, NEW k \in DOMAIN tab[t].secrets PROVE tab[t].secrets[k] \in Entries(R)
    <3> DEFINE e == tab[t].secrets[k]
    <3>1. tab[t].secrets \in Partial(Key, Entries(names))
      BY <2>1, TabsMean DEF Tables
    <3>2. e \in Entries(names)
      BY <3>1, PartialMeans
    <3>3. e.val \in Written(files)
      BY DEF Written
    <3> HIDE DEF e
    <3>4. e.val # None /\ e.val.k = "ref" => e.val.v \in R
      BY <3>3 DEF References
    <3> HIDE DEF R
    <3>5. e.val \in {None} \cup Values(R)
      BY <3>2, <3>4 DEF Entries, Values
    <3>6. e \in Entries(R)
      BY <3>2, <3>5 DEF Entries
    <3> QED BY <3>6 DEF e
  <2>3. tab \in Tabs(Entries(R))
    <3> HIDE DEF tab, R
    <3> QED BY <2>1, <2>2, TabsOf
  <2> QED BY <2>1, <2>3 DEF Docs
<1>3. files \in [DOMAIN files -> Docs(R)]
  BY <1>1, <1>2
<1>4. files \in Partial(File, Docs(R))
  BY <1>1, <1>3, PartialMade
<1> QED BY <1>4, FilesMean

LEMMA InitHolds == Init => IInv
<1> SUFFICES ASSUME Init PROVE IInv
  OBVIOUS
<1>1. FilesOK(fs, Key) /\ MaxCommands \in Nat
  BY ConfigEditsAssumption DEF Init
<1>2. remote = [k \in References(fs) |-> 1] /\ DOMAIN remote = References(fs)
  BY DEF Init
<1>3. FilesOK(fs, DOMAIN remote) /\ DOMAIN remote \subseteq Key
  BY <1>1, <1>2, ReferencesTyped, ReferencesThere
<1>4. IsPartial(remote, RemoteNames, Nat)
  BY <1>2, <1>3 DEF IsPartial, RemoteNames
<1>5. \A p \in Proc : Held(proc[p], DOMAIN remote, fs)
  BY IdleHeld DEF Init
<1> QED BY <1>1, <1>3, <1>4, <1>5 DEF Init, IInv

(* The command of a process. *)
LEMMA CommandTyped ==
  ASSUME IInv, NEW p \in Proc, ~At(p, "idle")
  PROVE  LET c == Cmd(p)
         IN  /\ c \in Command /\ c \in CommandLine /\ c.ps \in Seq(AnyProfile) /\ c.ps # <<>> /\ Last(c.ps) \in AnyProfile
             /\ WriteProfile(c) \in {None} \cup AnyProfile
             /\ c.op = "add" => c.prov \in Provider
<1> DEFINE c == Cmd(p)
<1>1. c \in Command /\ c # None
  <2>1. Held(proc[p], DOMAIN remote, fs)
    BY DEF IInv
  <2> QED BY <2>1 DEF Held, Holdings, InPlace, At, Cmd
<1>2. c \in CommandLine /\ (c.op = "add" => c.prov # None)
  BY <1>1, ConfigEditsAssumption
<1> HIDE DEF c
<1>3. c.ps \in Seq(AnyProfile) /\ c.ps # <<>> /\ c.wp \in {None} \cup AnyProfile /\ c.prov \in {None} \cup Provider
  BY <1>2 DEF CommandLine
<1>4. Last(c.ps) \in AnyProfile
  BY <1>3, LastTyped
<1>5. WriteProfile(c) \in {None} \cup AnyProfile
  BY <1>3 DEF WriteProfile
<1> QED BY <1>1, <1>2, <1>3, <1>4, <1>5 DEF c

(* What a process holds. *)
LEMMA HeldTyped ==
  ASSUME IInv, NEW p \in Proc
  PROVE  LET s == proc[p]
         IN  /\ Held(s, DOMAIN remote, fs) /\ s \in Holdings(DOMAIN remote, DOMAIN remote \cup Pending(s))
             /\ s.cfg \in Configs(DOMAIN remote) /\ s.doc \in Docs(DOMAIN remote) /\ s.prof \in Seq(AnyProfile)
             /\ s.puts \in Seq(Puts) /\ s.todo \in Seq(Items(DOMAIN remote \cup Pending(s)))
             /\ s.puts # <<>> <=> s.at = "put"
             /\ s.todo # <<>> <=> s.at \in {"put", "save", "write", "fill"}
             /\ s.at # "put" => Pending(s) = {}
             /\ DOMAIN remote \subseteq RemoteNames
<1> DEFINE s == proc[p]
           more == DOMAIN remote \cup Pending(s)
           N == DOMAIN remote
<1>1. Held(s, N, fs)
  BY DEF IInv
<1>2. s \in Holdings(N, more) /\ InPlace(s)
  BY <1>1 DEF Held
<1> HIDE DEF more, N, s
<1>3. /\ s.cfg \in Configs(N) /\ s.doc \in Docs(N) /\ s.prof \in Seq(AnyProfile)
      /\ s.puts \in Seq(Puts) /\ s.todo \in Seq(Items(more))
  BY <1>2 DEF Holdings
<1>4. (s.puts # <<>> <=> s.at = "put") /\ (s.todo # <<>> <=> s.at \in {"put", "save", "write", "fill"})
  BY <1>2 DEF InPlace
<1>5. s.at # "put" => Pending(s) = {}
  BY <1>4 DEF Pending
<1>6. N \subseteq RemoteNames
  BY DEF IInv, IsPartial, N
<1> QED BY <1>1, <1>2, <1>3, <1>4, <1>5, <1>6 DEF more, N, s

(* A command that has its writes. *)
LEMMA PlanKeeps ==
  ASSUME IInv, NEW p \in Proc, At(p, "work"), NEW todo \in Seq(Items(DOMAIN remote)), todo # <<>>,
         Plan(p, todo), begun' = begun
  PROVE  IInv'
<1> DEFINE s == proc[p]
           r == [s EXCEPT !.at = "save", !.todo = todo]
           N == DOMAIN remote
<1>1. /\ s \in Holdings(N, N \cup Pending(s)) /\ s.at = "work" /\ s.puts = <<>> /\ Pending(s) = {} /\ s.prof # <<>>
      /\ s.cmd # None
  BY HeldTyped DEF Held, At, InPlace
<1> HIDE DEF s, N
<1>2. /\ r \in Holdings(N, N) /\ r.puts = <<>> /\ r.todo = todo /\ r.at = "save" /\ r.prof = s.prof /\ r.cmd = s.cmd
  BY <1>1 DEF Holdings, Labels, N
<1> HIDE DEF r
<1>3. Pending(r) = {} /\ InPlace(r)
  BY <1>1, <1>2 DEF Pending, InPlace
<1>4. Held(r, N, fs)
  BY <1>1, <1>2, <1>3 DEF Held
<1>5. Set(p, r) /\ UNCHANGED <<fs, remote, next>>
  BY DEF Plan, r, s
<1> QED BY <1>4, <1>5, SetKeeps DEF N, IInv

LEMMA BeginHolds == ASSUME IInv, NEW p \in Proc, Begin(p) PROVE IInv'
<1>1. PICK c \in Command : Set(p, [Idle EXCEPT !.cmd = c, !.prof = c.ps, !.at = IF Loads(c) THEN "load" ELSE "work"])
  BY DEF Begin
<1> DEFINE r == [Idle EXCEPT !.cmd = c, !.prof = c.ps, !.at = IF Loads(c) THEN "load" ELSE "work"]
           N == DOMAIN remote
<1>2. c # None /\ c.ps \in Seq(AnyProfile) /\ c.ps # <<>>
  BY ConfigEditsAssumption DEF CommandLine
<1>3. Idle \in Holdings(N, N) /\ Idle.puts = <<>> /\ Idle.todo = <<>>
  <2>1. Idle \in Holdings(N, N \cup Pending(Idle))
    BY IdleHeld DEF Held
  <2>2. Idle.puts = <<>> /\ Idle.todo = <<>>
    BY DEF Idle
  <2>3. Pending(Idle) = {}
    BY <2>2 DEF Pending
  <2> QED BY <2>1, <2>2, <2>3
<1> HIDE DEF N
<1>4. /\ r \in Holdings(N, N) /\ r.puts = <<>> /\ r.todo = <<>> /\ r.prof = c.ps /\ r.cmd = c
      /\ r.at \in {"load", "work"} /\ (r.at = "work" => ~Loads(c))
  BY <1>2, <1>3 DEF Holdings, Labels, Idle
<1> HIDE DEF r
<1>5. Pending(r) = {} /\ InPlace(r)
  BY <1>2, <1>4 DEF Pending, InPlace
<1>6. Held(r, N, fs)
  BY <1>2, <1>4, <1>5 DEF Held
<1>7. begun' \in 0..MaxCommands /\ UNCHANGED <<fs, remote, next>> /\ next \in Nat
  BY ConfigEditsAssumption DEF Begin, IInv
<1> QED BY <1>1, <1>6, <1>7, SetKeeps DEF N, r

LEMMA LoadHolds == ASSUME IInv, NEW p \in Proc, LoadLayers(p) PROVE IInv'
<1> DEFINE N == DOMAIN remote
           s == proc[p]
           c == LoadRecursive(fs, s.prof, WithSync(s.cmd), s.cmd.nd)
           r == ResolveProfiles(c, s.prof, FALSE)
           ok == /\ c.found /\ ValidProfiles(c, s.cmd.ps, MayBeMissing(s.cmd))
                 /\ WriteProfile(s.cmd) # None
           after == CASE c.err \/ r.err -> Idle
                      [] ~(c.err \/ r.err) /\ MoreProfiles(s, r) ->
                              [s EXCEPT !.prof = r.out, !.at = IF s.at = "load" THEN "reload" ELSE "load"]
                      [] OTHER -> IF ok THEN [s EXCEPT !.at = "work", !.cfg = c] ELSE Idle
<1>1. s.at \in {"load", "reload"} /\ Set(p, after) /\ UNCHANGED <<fs, remote, next, begun>>
  BY DEF LoadLayers
<1>2. /\ s \in Holdings(N, N \cup Pending(s)) /\ Pending(s) = {} /\ s.puts = <<>> /\ s.todo = <<>>
      /\ s.prof \in Seq(AnyProfile) /\ s.prof # <<>> /\ s.cmd # None /\ s.cmd.nd \in BOOLEAN
  <2>1. s.cmd \in CommandLine
    BY <1>1, CommandTyped DEF At, Cmd
  <2>2. s.cmd.nd \in BOOLEAN
    BY <2>1 DEF CommandLine
  <2> QED BY <1>1, <2>2, HeldTyped DEF Held, InPlace
<1>3. FilesOK(fs, N)
  BY DEF IInv
<1> HIDE DEF s, N
<1>4. /\ c \in Configs(N)
      /\ \A i \in 1..Len(s.prof) : s.prof[i] \in Profile /\ <<"cwd", s.prof[i]>> \in DOMAIN fs => s.prof[i] \in c.loaded
  BY <1>2, <1>3, LayersTyped
<1> HIDE DEF c
<1>5. r.out \in Seq(AnyProfile) /\ (~r.err => Ordered(c, r.out) /\ r.out # <<>>)
  BY <1>2, <1>4, ResolveTyped
<1> HIDE DEF r
<1>6. ASSUME ~(c.err \/ r.err), MoreProfiles(s, r) PROVE Held(after, N, fs)
  <2> DEFINE new == [s EXCEPT !.prof = r.out, !.at = IF s.at = "load" THEN "reload" ELSE "load"]
  <2>1. /\ new \in Holdings(N, N) /\ new.puts = <<>> /\ new.todo = <<>> /\ new.prof = r.out /\ new.cmd = s.cmd
        /\ new.at \in {"load", "reload"}
    BY <1>1, <1>2, <1>5 DEF Holdings, Labels
  <2>2. after = new
    BY <1>6
  <2> HIDE DEF new
  <2>3. Pending(new) = {} /\ InPlace(new)
    BY <1>2, <2>1 DEF Pending, InPlace
  <2>4. Held(new, N, fs)
    BY <1>5, <1>6, <2>1, <2>3 DEF Held
  <2> QED BY <2>2, <2>4
<1>7. ASSUME ~(c.err \/ r.err), ~MoreProfiles(s, r), ok PROVE Held(after, N, fs)
  <2> DEFINE new == [s EXCEPT !.at = "work", !.cfg = c]
  <2>1. /\ new \in Holdings(N, N) /\ new.puts = <<>> /\ new.todo = <<>> /\ new.prof = s.prof /\ new.cmd = s.cmd
        /\ new.at = "work" /\ new.cfg = c
    BY <1>1, <1>2, <1>4 DEF Holdings, Labels
  <2>2. after = new
    BY <1>7
  <2> HIDE DEF new
  <2>3. Pending(new) = {} /\ InPlace(new)
    BY <1>2, <2>1 DEF Pending, InPlace
  <2>4. Ordered(c, s.prof)
    BY <1>5, <1>7 DEF MoreProfiles
  <2>5. \A q \in Range(s.prof) : q \in Profile /\ <<"cwd", q>> \in DOMAIN fs => q \in c.loaded
    <3>1. Range(s.prof) = {s.prof[i] : i \in 1..Len(s.prof)}
      BY <1>2 DEF Range
    <3> QED BY <1>4, <3>1
  <2>6. Found(new, fs)
    BY <1>7, <2>1, <2>4, <2>5 DEF Found
  <2>7. Held(new, N, fs)
    BY <1>2, <2>1, <2>3, <2>6 DEF Held
  <2> QED BY <2>2, <2>7
<1>8. ASSUME c.err \/ r.err \/ (~MoreProfiles(s, r) /\ ~ok) PROVE Held(after, N, fs)
  <2> HIDE DEF ok
  <2>1. after = Idle
    BY <1>8
  <2> QED BY <2>1, IdleHeld
<1>9. Held(after, N, fs)
  <2> HIDE DEF after, ok
  <2> QED BY <1>6, <1>7, <1>8
<1> HIDE DEF after
<1>10. next' \in Nat /\ begun' \in 0..MaxCommands
  BY <1>1 DEF IInv
<1> QED BY <1>1, <1>9, <1>10, SetKeeps DEF N

LEMMA TargetTyped ==
  ASSUME NEW c, WriteProfile(c) \in AnyProfile
  PROVE  Target(c) \in File
BY FindTyped, FilesThere DEF Target

(* One update is a list of writes. *)
LEMMA OneWrite ==
  ASSUME NEW names, NEW u \in Items(names)
  PROVE  <<u>> \in Seq(Items(names)) /\ <<u>> # <<>>
OBVIOUS

LEMMA RemoveHolds == ASSUME IInv, NEW p \in Proc, RemoveSecret(p) PROVE IInv'
<1> DEFINE c == Cmd(p)
           f == Target(c)
           w == WriteProfile(c)
           u == Update(f, w, <<>>, {c.key})
<1>1. At(p, "work") /\ begun' = begun /\ ((w # None /\ Plan(p, <<u>>)) \/ Quit(p))
  BY DEF RemoveSecret
<1>2. CASE Quit(p)
  BY <1>1, <1>2, QuitKeeps
<1>3. CASE w # None /\ Plan(p, <<u>>)
  <2>1. w \in AnyProfile /\ c.key \in Key
    BY <1>1, <1>3, CommandTyped DEF At, CommandLine
  <2>2. f \in File
    BY <2>1, TargetTyped
  <2>3. DOMAIN <<>> = {}
    OBVIOUS
  <2>4. u \in Items(DOMAIN remote)
    BY <2>1, <2>2, <2>3, UpdateTyped
  <2> HIDE DEF u
  <2> QED BY <1>1, <1>3, <2>4, OneWrite, PlanKeeps
<1> QED BY <1>1, <1>2, <1>3

LEMMA InitConfigHolds == ASSUME IInv, NEW p \in Proc, InitConfig(p) PROVE IInv'
<1> DEFINE f == IF Cmd(p).global THEN Global ELSE Edited
           u == Replace(f, EmptyDoc)
<1>1. At(p, "work") /\ begun' = begun /\ (Plan(p, <<u>>) \/ Quit(p))
  BY DEF InitConfig
<1>2. f \in File
  BY FilesThere DEF Edited
<1>3. u \in Items(DOMAIN remote)
  BY <1>2, EmptyTyped, ReplaceTyped
<1> HIDE DEF u
<1> QED BY <1>1, <1>3, OneWrite, PlanKeeps, QuitKeeps

(* Other providers in a table. *)
LEMMA ProvidersPut ==
  ASSUME NEW names, NEW c \in Configs(names), NEW p \in AnyProfile, NEW all \in SUBSET Provider
  PROVE  [c EXCEPT !.tab = Over(One(p, [Table(c.tab, p) EXCEPT !.providers = all]), @)] \in Configs(names)
<1> DEFINE E == LoadedEntries(names)
           t == Table(c.tab, p)
           x == [t EXCEPT !.providers = all]
           tab == Over(One(p, x), c.tab)
<1>1. c.tab \in Tabs(E) /\ t \in Tables(E) /\ (p = Default => t.inherits = None)
  BY TableTyped DEF Configs
<1>2. x \in Tables(E) /\ x.inherits = t.inherits
  <2> HIDE DEF t
  <2> QED BY <1>1 DEF Tables
<1>3. tab \in Tabs(E)
  <2> HIDE DEF x, t, E
  <2> QED BY <1>1, <1>2, TablePut
<1>4. [c EXCEPT !.tab = Over(One(p, [Table(c.tab, p) EXCEPT !.providers = all]), @)] = [c EXCEPT !.tab = tab]
  OBVIOUS
<1> HIDE DEF tab
<1> QED BY <1>3, <1>4 DEF Configs

LEMMA ProviderAddHolds == ASSUME IInv, NEW p \in Proc, ProviderAdd(p) PROVE IInv'
<1> DEFINE N == DOMAIN remote
           c == Cmd(p)
           f == Target(c)
           w == ProviderTable(c)
           old == IF f \notin DOMAIN fs THEN EmptyConfig ELSE Load(fs, f)
           t == Table(old.tab, w)
           all == t.providers \cup {c.prov}
           new == [old EXCEPT !.tab = Over(One(w, [t EXCEPT !.providers = all]), @)]
           u == Replace(f, Saved(new))
<1>1. At(p, "work") /\ begun' = begun /\ c.op = "add" /\ ((w # None /\ Plan(p, <<u>>)) \/ Quit(p))
  BY DEF ProviderAdd
<1>2. CASE Quit(p)
  BY <1>1, <1>2, QuitKeeps
<1>3. CASE w # None /\ Plan(p, <<u>>)
  <2>1. c.prov \in Provider /\ WriteProfile(c) \in {None} \cup AnyProfile
    BY <1>1, CommandTyped DEF At
  <2>2. w \in AnyProfile /\ (c.global \/ WriteProfile(c) \in AnyProfile)
    BY <1>3, <2>1 DEF ProviderTable, AnyProfile
  <2>3. f \in File
    BY <2>2, TargetTyped, FilesThere DEF Target
  <2> HIDE DEF w, f, c
  <2>4. old \in Configs(N)
    BY EmptyTyped, LoadTyped DEF IInv
  <2> HIDE DEF old, N
  <2>5. t \in Tables(LoadedEntries(N))
    BY <2>4, TableTyped DEF Configs
  <2>6. all \in SUBSET Provider
    BY <2>1, <2>5 DEF Tables
  <2> HIDE DEF all
  <2>7. new \in Configs(N)
    BY <2>2, <2>4, <2>6, ProvidersPut
  <2> HIDE DEF new
  <2>8. u \in Items(N)
    BY <2>3, <2>7, SavedTyped, ReplaceTyped
  <2> HIDE DEF u
  <2> QED BY <1>1, <1>3, <2>8, OneWrite, PlanKeeps DEF N
<1> QED BY <1>1, <1>2, <1>3

LEMMA ProviderRemoveHolds == ASSUME IInv, NEW p \in Proc, ProviderRemove(p) PROVE IInv'
<1> DEFINE N == DOMAIN remote
           c == Cmd(p)
           f == Target(c)
           w == ProviderTable(c)
           old == Load(fs, f)
           t == Table(old.tab, w)
           all == t.providers \ {c.prov}
           new == [old EXCEPT !.tab = Over(One(w, [t EXCEPT !.providers = all]), @)]
           u == Replace(f, Saved(new))
<1>1. At(p, "work") /\ begun' = begun /\ ((w # None /\ f \in DOMAIN fs /\ Plan(p, <<u>>)) \/ Quit(p))
  BY DEF ProviderRemove
<1>2. CASE Quit(p)
  BY <1>1, <1>2, QuitKeeps
<1>3. CASE w # None /\ f \in DOMAIN fs /\ Plan(p, <<u>>)
  <2>1. WriteProfile(c) \in {None} \cup AnyProfile
    BY <1>1, CommandTyped DEF At
  <2>2. w \in AnyProfile /\ (c.global \/ WriteProfile(c) \in AnyProfile)
    BY <1>3, <2>1 DEF ProviderTable, AnyProfile
  <2>3. f \in File
    BY <2>2, TargetTyped, FilesThere DEF Target
  <2> HIDE DEF w, f, c
  <2>4. old \in Configs(N)
    BY <1>3, LoadTyped DEF IInv
  <2> HIDE DEF old, N
  <2>5. t \in Tables(LoadedEntries(N))
    BY <2>4, TableTyped DEF Configs
  <2>6. all \in SUBSET Provider
    BY <2>5 DEF Tables
  <2> HIDE DEF all
  <2>7. new \in Configs(N)
    BY <2>2, <2>4, <2>6, ProvidersPut
  <2> HIDE DEF new
  <2>8. u \in Items(N)
    BY <2>3, <2>7, SavedTyped, ReplaceTyped
  <2> HIDE DEF u
  <2> QED BY <1>1, <1>3, <2>8, OneWrite, PlanKeeps DEF N
<1> QED BY <1>1, <1>2, <1>3

LEMMA CrashHolds == ASSUME IInv, NEW p \in Proc, Crash(p) PROVE IInv'
BY QuitKeeps DEF Crash

LEMMA TailTyped ==
  ASSUME NEW S, NEW t \in Seq(S), t # <<>>
  PROVE  Head(t) \in S /\ Tail(t) \in Seq(S) /\ (Len(t) = 1 <=> Tail(t) = <<>>)
<1>1. Len(t) \in Nat /\ Len(t) # 0 /\ Tail(t) \in Seq(S) /\ Head(t) \in S
  OBVIOUS
<1>2. Len(Tail(t)) = Len(t) - 1
  BY <1>1
<1>3. Len(t) # 1 => Len(Tail(t)) # 0
  BY <1>1, <1>2
<1>4. Tail(t) = <<>> => Len(Tail(t)) = 0
  <2>1. Len(<<>>) = 0
    OBVIOUS
  <2> QED BY <2>1, Zenon
<1>5. Len(Tail(t)) = 0 => Tail(t) = <<>>
  <2> DEFINE u == Tail(t)
  <2>1. u \in Seq(S)
    BY <1>1
  <2> HIDE DEF u
  <2>2. Len(u) = 0 => u = <<>>
    BY <2>1
  <2> QED BY <2>2 DEF u
<1> QED BY <1>1, <1>2, <1>3, <1>4, <1>5

(* The next write. *)
LEMMA ItemTyped ==
  ASSUME IInv, NEW p \in Proc, proc[p].at \in {"save", "write", "fill"}
  PROVE  /\ Item(p) \in Items(DOMAIN remote) /\ Item(p).file \in File
         /\ Tail(proc[p].todo) \in Seq(Items(DOMAIN remote))
         /\ ~LastItem(p) => Tail(proc[p].todo) # <<>>
<1> DEFINE S == Items(DOMAIN remote)
           t == proc[p].todo
<1>1. t \in Seq(S) /\ t # <<>>
  BY HeldTyped
<1> HIDE DEF t, S
<1>2. Head(t) \in S /\ Tail(t) \in Seq(S) /\ (Len(t) # 1 => Tail(t) # <<>>)
  BY <1>1, TailTyped
<1>3. Head(t).file \in File
  BY <1>2 DEF S, Items
<1> QED BY <1>2, <1>3 DEF Item, LastItem, t, S

(* A process with a list of writes and nothing to put. *)
LEMMA WriterHeld ==
  ASSUME IInv, NEW p \in Proc, proc[p].at \in {"save", "write", "fill"}, NEW at \in {"save", "write", "fill"},
         NEW todo \in Seq(Items(DOMAIN remote)), todo # <<>>, NEW doc \in Docs(DOMAIN remote), NEW files
  PROVE  Held([proc[p] EXCEPT !.at = at, !.todo = todo, !.doc = doc], DOMAIN remote, files)
<1> DEFINE s == proc[p]
           r == [s EXCEPT !.at = at, !.todo = todo, !.doc = doc]
           N == DOMAIN remote
<1>1. /\ s \in Holdings(N, N \cup Pending(s)) /\ s.puts = <<>> /\ Pending(s) = {} /\ s.prof # <<>> /\ s.cmd # None
  BY HeldTyped DEF Held, InPlace
<1> HIDE DEF s, N
<1>2. /\ r \in Holdings(N, N) /\ r.puts = <<>> /\ r.todo = todo /\ r.at = at /\ r.prof = s.prof /\ r.cmd = s.cmd
  BY <1>1 DEF Holdings, Labels, N
<1> HIDE DEF r
<1>3. Pending(r) = {} /\ InPlace(r)
  BY <1>1, <1>2 DEF Pending, InPlace
<1> QED BY <1>1, <1>2, <1>3 DEF Held, r, s, N

LEMMA SaveReadHolds == ASSUME IInv, NEW p \in Proc, SaveRead(p) PROVE IInv'
<1> DEFINE u == Item(p)
           d == IF u.file \notin DOMAIN fs THEN EmptyDoc ELSE fs[u.file]
           s == proc[p]
           r == [s EXCEPT !.at = "write", !.doc = d]
           N == DOMAIN remote
<1>1. s.at = "save" /\ begun' = begun /\ (Quit(p) \/ (Set(p, r) /\ UNCHANGED <<fs, remote, next>>))
  BY DEF SaveRead, At
<1>2. d \in Docs(N)
  BY FilesMean, PartialMeans, EmptyTyped DEF IInv
<1>3. s \in Holdings(N, N \cup Pending(s)) /\ s.todo \in Seq(Items(N)) /\ s.todo # <<>>
  BY <1>1, HeldTyped
<1>4. Held([s EXCEPT !.at = "write", !.todo = s.todo, !.doc = d], N, fs)
  <2> HIDE DEF d
  <2> QED BY <1>1, <1>2, <1>3, WriterHeld
<1>5. [s EXCEPT !.at = "write", !.todo = s.todo, !.doc = d] = r
  <2> HIDE DEF d, s
  <2> QED BY <1>3 DEF Holdings
<1> HIDE DEF r
<1> QED BY <1>1, <1>4, <1>5, QuitKeeps, SetKeeps DEF IInv

(* One file written. *)
LEMMA FileWritten ==
  ASSUME NEW names, NEW files, FilesOK(files, names), NEW f \in File, NEW d \in Docs(names)
  PROVE  FilesOK(Over(One(f, d), files), names)
<1>1. files \in Partial(File, Docs(names)) /\ One(f, d) \in Partial(File, Docs(names))
  BY FilesMean, PartialOne
<1> QED BY <1>1, PartialOver, FilesMean

LEMMA TruncateHolds == ASSUME IInv, NEW p \in Proc, Truncate(p) PROVE IInv'
<1> DEFINE s == proc[p]
           r == [s EXCEPT !.at = "fill"]
           N == DOMAIN remote
<1>1. s.at = "write" /\ Writes(p, r) /\ fs' = Over(One(Item(p).file, EmptyDoc), fs) /\ UNCHANGED <<remote, next, begun>>
  BY DEF Truncate, At
<1>2. FilesOK(fs', N)
  BY <1>1, ItemTyped, EmptyTyped, FileWritten DEF IInv
<1>3. s \in Holdings(N, N \cup Pending(s)) /\ s.todo \in Seq(Items(N)) /\ s.todo # <<>> /\ s.doc \in Docs(N)
  BY <1>1, HeldTyped
<1>4. Held([s EXCEPT !.at = "fill", !.todo = s.todo, !.doc = s.doc], N, fs')
  BY <1>1, <1>3, WriterHeld
<1>5. [s EXCEPT !.at = "fill", !.todo = s.todo, !.doc = s.doc] = r
  <2> HIDE DEF s
  <2> QED BY <1>3 DEF Holdings
<1>6. Held(r, N, fs')
  <2> HIDE DEF r
  <2> QED BY <1>4, <1>5
<1> HIDE DEF r
<1>7. IsPartial(remote, RemoteNames, Nat)' /\ (DOMAIN remote)' = N
  BY <1>1 DEF IInv
<1> QED BY <1>1, <1>2, <1>6, <1>7, WritesKeeps

LEMMA FillHolds == ASSUME IInv, NEW p \in Proc, Fill(p) PROVE IInv'
<1> DEFINE s == proc[p]
           more == [s EXCEPT !.at = "save", !.todo = Tail(@)]
           r == IF LastItem(p) THEN Idle ELSE more
           d == Apply(s.doc, Item(p))
           N == DOMAIN remote
<1>1. s.at = "fill" /\ Writes(p, r) /\ fs' = Over(One(Item(p).file, d), fs) /\ UNCHANGED <<remote, next, begun>>
  BY DEF Fill, At
<1>2. s \in Holdings(N, N \cup Pending(s)) /\ s.doc \in Docs(N)
  BY HeldTyped
<1>3. d \in Docs(N)
  BY <1>1, <1>2, ItemTyped, ApplyTyped
<1>4. FilesOK(fs', N)
  <2> HIDE DEF d
  <2> QED BY <1>1, <1>3, ItemTyped, FileWritten DEF IInv
<1>5. ASSUME ~LastItem(p) PROVE Held(more, N, fs')
  <2>1. Held([s EXCEPT !.at = "save", !.todo = Tail(s.todo), !.doc = s.doc], N, fs')
    BY <1>1, <1>2, <1>5, ItemTyped, WriterHeld
  <2>2. [s EXCEPT !.at = "save", !.todo = Tail(s.todo), !.doc = s.doc] = more
    <3> HIDE DEF s
    <3> QED BY <1>2 DEF Holdings
  <2> HIDE DEF more
  <2> QED BY <2>1, <2>2
<1>6. Held(r, N, fs')
  <2> HIDE DEF more
  <2> QED BY <1>5, IdleHeld
<1> HIDE DEF r
<1>7. IsPartial(remote, RemoteNames, Nat)' /\ (DOMAIN remote)' = N
  BY <1>1 DEF IInv
<1> QED BY <1>1, <1>4, <1>6, <1>7, WritesKeeps

(* The first of what is to be put is there, the others still are to be put. *)
LEMMA PutHolds == ASSUME IInv, NEW p \in Proc, PutSecret(p) PROVE IInv'
<1> DEFINE s == proc[p]
           N == DOMAIN remote
           put == Head(s.puts)
           last == Len(s.puts) = 1
           at == IF last THEN AfterPuts(Cmd(p)) ELSE s.at
           r == [s EXCEPT !.puts = Tail(@), !.at = at]
           M == N \cup {put.name}
<1>1. s.at = "put" /\ remote' = Over(One(put.name, put.v), remote) /\ UNCHANGED <<fs, next, begun>>
  BY DEF PutSecret, At
<1>2. Writes(p, [s EXCEPT !.puts = Tail(@), !.at = IF last THEN AfterPuts(Cmd(p)) ELSE @])
  BY DEF PutSecret
<1>3. /\ s \in Holdings(N, N \cup Pending(s)) /\ s.puts \in Seq(Puts) /\ s.puts # <<>> /\ s.todo # <<>>
      /\ s.prof # <<>> /\ s.cmd # None
  BY <1>1, HeldTyped DEF Held, InPlace
<1>4. IsPartial(remote, RemoteNames, Nat) /\ FilesOK(fs, N)
  BY DEF IInv
<1> HIDE DEF s, N
<1>5. [s EXCEPT !.puts = Tail(@), !.at = IF last THEN AfterPuts(Cmd(p)) ELSE @] = r
  BY <1>3 DEF Holdings
<1>6. put \in Puts /\ Tail(s.puts) \in Seq(Puts) /\ (last <=> Tail(s.puts) = <<>>)
  BY <1>3, TailTyped
<1>7. put.name \in RemoteNames /\ put.v \in Nat
  BY <1>6 DEF Puts
<1>8. Pending(s) = {put.name} \cup {Tail(s.puts)[i].name : i \in 1..Len(Tail(s.puts))}
  <2> DEFINE t == s.puts
             T == Tail(t)
             m == Len(t)
  <2>1. m \in Nat /\ m >= 1 /\ Len(T) = m - 1 /\ Head(t) = t[1] /\ \A i \in 1..m - 1 : T[i] = t[i + 1]
    BY <1>3
  <2>2. Pending(s) = {t[i].name : i \in 1..m}
    BY DEF Pending
  <2>3. put = t[1]
    BY <2>1
  <2> HIDE DEF T, m, t, put
  <2>4. {t[i].name : i \in 1..m} \subseteq {t[1].name} \cup {T[i].name : i \in 1..m - 1}
    <3>1. ASSUME NEW i \in 1..m, i # 1 PROVE t[i].name \in {T[j].name : j \in 1..m - 1}
      <4>1. i - 1 \in 1..m - 1 /\ T[i - 1] = t[i]
        BY <2>1, <3>1
      <4> QED BY <4>1
    <3> QED BY <3>1
  <2>5. {t[1].name} \cup {T[i].name : i \in 1..m - 1} \subseteq {t[i].name : i \in 1..m}
    <3>1. ASSUME NEW i \in 1..m - 1 PROVE i + 1 \in 1..m /\ T[i] = t[i + 1]
      BY <2>1
    <3>2. 1 \in 1..m
      BY <2>1
    <3> QED BY <3>1, <3>2
  <2> QED BY <2>1, <2>2, <2>3, <2>4, <2>5 DEF T, t
<1> HIDE DEF put
<1>9. (DOMAIN remote)' = M /\ IsPartial(remote, RemoteNames, Nat)'
  <2>1. remote \in Partial(RemoteNames, Nat) /\ One(put.name, put.v) \in Partial(RemoteNames, Nat)
        /\ DOMAIN One(put.name, put.v) = {put.name}
    BY <1>4, <1>7, PartialIs, PartialOne
  <2>2. remote' \in Partial(RemoteNames, Nat) /\ DOMAIN remote' = {put.name} \cup N
    BY <1>1, <2>1, PartialOver DEF N
  <2> QED BY <2>2, PartialIs
<1>10. FilesOK(fs', M)
  BY <1>1, <1>4, FilesGrow
<1> DEFINE rest == Tail(s.puts)
           X == N \cup Pending(s)
<1>11. rest \in Seq(Puts) /\ (last <=> rest = <<>>) /\ X = M \cup {rest[i].name : i \in 1..Len(rest)} /\ s \in Holdings(M, X)
  <2>1. N \subseteq M
    OBVIOUS
  <2>2. s \in Holdings(M, X)
    BY <1>3, <2>1, HoldingsGrow
  <2> QED BY <1>6, <1>8, <2>2
<1>12. at \in {"put", "save", "write"} /\ (at = "put" <=> ~last)
  BY <1>1 DEF AfterPuts
<1> HIDE DEF rest, at, X, M
<1>13. r = [s EXCEPT !.puts = rest, !.at = at]
  BY DEF rest
<1> HIDE DEF r
<1>14. /\ r \in Holdings(M, X) /\ r.puts = rest /\ r.at = at /\ r.cmd = s.cmd /\ r.prof = s.prof /\ r.todo = s.todo
  BY <1>11, <1>12, <1>13 DEF Holdings, Labels
<1>15. X = M \cup Pending(r)
  BY <1>11, <1>14 DEF Pending
<1>16. InPlace(r)
  BY <1>3, <1>11, <1>12, <1>14 DEF InPlace
<1>17. Held(r, M, fs')
  <2> HIDE DEF last
  <2> QED BY <1>3, <1>12, <1>14, <1>15, <1>16 DEF Held
<1>18. Writes(p, r)
  BY <1>2, <1>5, <1>13 DEF at, rest
<1> QED BY <1>1, <1>9, <1>10, <1>17, <1>18, WritesKeeps DEF M, N

(* set: the reference that is written names what is put before. *)
LEMMA EntryTyped ==
  ASSUME NEW names, NEW c \in CommandLine, NEW cfg \in Configs(names), NEW eff \in {None} \cup LoadedEntries(names),
         NEW existing, NEW q \in {None} \cup Provider, NEW val \in Values(names)
  PROVE  Stored(EntryToSet(c, cfg, eff, existing, q, val)) \in Entries(names)
<1> DEFINE mine == Table(cfg.tab, WriteProfile(c)).secrets
           base == CASE c.key \in DOMAIN mine -> mine[c.key]
                     [] c.key \notin DOMAIN mine /\ c.how = "metadata" /\ existing = None /\ eff # None -> eff
                     [] OTHER -> EmptyEntry
<1>1. mine \in Partial(Key, LoadedEntries(names))
  BY TableTyped DEF Configs
<1>2. \A k \in DOMAIN mine : mine[k] \in LoadedEntries(names)
  BY <1>1, PartialMeans
<1>3. EmptyEntry \in Entries(names)
  BY DEF EmptyEntry, Entries
<1>4. base \in Entries(names) \cup LoadedEntries(names)
  <2> HIDE DEF mine
  <2> QED BY <1>2, <1>3
<1>5. EntryToSet(c, cfg, eff, existing, q, val) =
        [base EXCEPT !.prov = IF c.prov # None \/ @ = None THEN q ELSE @,
                     !.sync = SyncAfterSet(c, base), !.val = IF c.how = "metadata" THEN @ ELSE val]
  BY DEF EntryToSet
<1> HIDE DEF base
<1>6. SyncAfterSet(c, base) \in {None} \cup Nat
  BY <1>4 DEF SyncAfterSet, Entries, LoadedEntries
<1> DEFINE sync == SyncAfterSet(c, base)
           prov == IF c.prov # None \/ base.prov = None THEN q ELSE base.prov
           v == IF c.how = "metadata" THEN base.val ELSE val
<1>7. prov \in {None} \cup Provider /\ v \in {None} \cup Values(names) /\ base.local \in BOOLEAN
  BY <1>4 DEF Entries, LoadedEntries
<1>8. EntryToSet(c, cfg, eff, existing, q, val) = [base EXCEPT !.prov = prov, !.sync = sync, !.val = v]
  BY <1>4, <1>5 DEF Entries, LoadedEntries
<1>9. sync \in {None} \cup Nat
  BY <1>6
<1> HIDE DEF sync, prov, v
<1>10. [base EXCEPT !.prov = prov, !.sync = sync, !.val = v] \in Entries(names) \cup LoadedEntries(names)
  <2>1. CASE base \in Entries(names)
    BY <1>7, <1>9, <2>1 DEF Entries
  <2>2. CASE base \in LoadedEntries(names)
    BY <1>7, <1>9, <2>2 DEF LoadedEntries
  <2> QED BY <1>4, <2>1, <2>2
<1> QED BY <1>8, <1>10, StoredTyped

LEMMA SetHolds == ASSUME IInv, NEW p \in Proc, SetSecret(p) PROVE IInv'
<1> DEFINE N == DOMAIN remote
           s == proc[p]
           c == Cmd(p)
           cfg == s.cfg
           w == WriteProfile(c)
           f == Target(c)
           eff == GetSecret(cfg, <<w>>, c.key, c.nd)
           use == ProviderToUse(c, cfg, eff)
           existing == IF BelongsToTarget(eff, f, w) THEN eff ELSE None
           name == RemoteKeyName(c.key, existing, use.prov)
           isRemote == use.prov # None /\ Cap[use.prov] = "remote" /\ c.how # "metadata"
           val == IF isRemote THEN Ref(name) ELSE Text(next)
           e == EntryToSet(c, cfg, eff, existing, use.prov, val)
           u == Update(f, w, One(c.key, e), {})
           puts == IF isRemote THEN <<[name |-> name, v |-> next]>> ELSE <<>>
           todo == <<u>>
           at == IF isRemote THEN "put" ELSE "save"
           r == [s EXCEPT !.at = at, !.puts = puts, !.v = next, !.todo = todo]
<1>1. At(p, "work") /\ c.op = "set" /\ begun' = begun
  BY DEF SetSecret
<1>2. Quit(p) \/ (Set(p, r) /\ next' = next + 1 /\ UNCHANGED <<fs, remote>>)
  BY DEF SetSecret
<1>3. /\ s \in Holdings(N, N \cup Pending(s)) /\ Pending(s) = {} /\ s.prof # <<>> /\ s.cmd # None
      /\ cfg \in Configs(N) /\ N \subseteq RemoteNames /\ next \in Nat
      /\ w \in AnyProfile /\ c \in CommandLine
  <2>1. Held(s, N, fs)
    BY DEF IInv
  <2>2. WriteProfile(s.cmd) # None
    BY <1>1, <2>1 DEF Held, Found, Loads, At, Cmd
  <2>3. w \in AnyProfile
    BY <1>1, <2>2, CommandTyped DEF At, Cmd
  <2> QED BY <1>1, <2>1, <2>3, HeldTyped, CommandTyped DEF Held, InPlace, At, IInv
<1>4. c.key \in Key /\ c.prov \in {None} \cup Provider
  BY <1>3 DEF CommandLine
<1> HIDE DEF w, c, s
<1>5. f \in File
  BY <1>3, TargetTyped DEF w
<1>6. eff \in {None} \cup LoadedEntries(N)
  <2>1. <<w>> \in Seq(AnyProfile)
    BY <1>3
  <2> HIDE DEF N
  <2> QED BY <1>3, <2>1, SecretTyped
<1> HIDE DEF f, eff, cfg, N
<1>7. use.prov \in {None} \cup Provider
  <2>1. \A ps : GetDefaultProvider(cfg, ps).prov \in {None} \cup Provider
    BY <1>3, DefaultTyped
  <2>2. eff # None => eff.prov \in {None} \cup Provider
    BY <1>6 DEF LoadedEntries
  <2> QED BY <1>4, <2>1, <2>2 DEF ProviderToUse
<1> HIDE DEF use
<1>8. existing \in {None} \cup LoadedEntries(N)
  BY <1>6
<1> HIDE DEF existing
<1>9. name \in RemoteNames
  <2>1. existing # None /\ existing.val # None => existing.val.v \in Nat \cup N
    BY <1>8 DEF LoadedEntries, Values
  <2> QED BY <1>3, <1>4, <2>1 DEF RemoteKeyName, RemoteNames
<1> HIDE DEF name, isRemote
<1> DEFINE M == N \cup {puts[i].name : i \in 1..Len(puts)}
<1>10. /\ puts \in Seq(Puts) /\ (puts # <<>> <=> isRemote) /\ (isRemote => name \in M)
  <2>1. CASE isRemote
    <3> DEFINE x == [name |-> name, v |-> next]
    <3>1. x \in Puts /\ x.name = name
      BY <1>3, <1>9 DEF Puts
    <3> HIDE DEF x
    <3>2. <<x>> \in Seq(Puts) /\ <<x>> # <<>> /\ Len(<<x>>) = 1 /\ <<x>>[1] = x
      BY <3>1
    <3>3. puts = <<x>>
      BY <2>1 DEF x
    <3> HIDE DEF puts
    <3>4. name \in {puts[i].name : i \in 1..Len(puts)}
      BY <3>1, <3>2, <3>3
    <3> QED BY <2>1, <3>2, <3>3, <3>4
  <2>2. CASE ~isRemote
    BY <2>2
  <2> QED BY <2>1, <2>2
<1>11. val \in Values(M)
  BY <1>3, <1>10 DEF Values, Ref, Text
<1> HIDE DEF val, puts, M
<1>12. N \subseteq M
  BY DEF M
<1>13. cfg \in Configs(M) /\ eff \in {None} \cup LoadedEntries(M)
  BY <1>3, <1>6, <1>12, TypesGrow
<1>14. Stored(e) \in Entries(M)
  BY <1>3, <1>7, <1>11, <1>13, EntryTyped
<1> HIDE DEF e
<1>15. u \in Items(M)
  <2>1. DOMAIN One(c.key, e) \subseteq Key /\ \A k \in DOMAIN One(c.key, e) : One(c.key, e)[k] = e
    BY <1>4 DEF One
  <2> QED BY <1>3, <1>5, <1>14, <2>1, UpdateTyped
<1> HIDE DEF u
<1>16. todo \in Seq(Items(M)) /\ todo # <<>>
  BY <1>15, OneWrite
<1> HIDE DEF todo
<1>17. s \in Holdings(N, M)
  BY <1>3, <1>12, HoldingsGrow
<1>18. /\ r \in Holdings(N, M) /\ r.puts = puts /\ r.todo = todo /\ r.at = at /\ r.prof = s.prof /\ r.cmd = s.cmd
  BY <1>3, <1>10, <1>16, <1>17 DEF Holdings, Labels
<1> HIDE DEF r
<1>19. M = N \cup Pending(r) /\ InPlace(r)
  BY <1>3, <1>10, <1>16, <1>18 DEF Pending, InPlace, M
<1>20. Held(r, N, fs)
  BY <1>3, <1>18, <1>19 DEF Held
<1> QED BY <1>1, <1>2, <1>3, <1>20, QuitKeeps, SetKeeps DEF IInv, N

LEMMA ImportHolds == ASSUME IInv, NEW p \in Proc, ImportSecrets(p) PROVE IInv'
<1> DEFINE N == DOMAIN remote
           s == proc[p]
           c == Cmd(p)
           f == Target(c)
           w == WriteProfile(c)
           had == IF f \notin DOMAIN fs THEN <<>> ELSE Table(Load(fs, f).tab, Last(c.ps)).secrets
           New(k) == [IF k \in DOMAIN had THEN had[k] ELSE EmptyEntry EXCEPT !.prov = c.prov, !.val = Text(next)]
           puts == [k \in c.keys |-> New(k)]
           u == Update(f, w, puts, {})
           todo == <<u>>
           r == [s EXCEPT !.at = "save", !.v = next, !.todo = todo]
<1>1. At(p, "work") /\ c.op = "import" /\ begun' = begun
  BY DEF ImportSecrets
<1>2. Quit(p) \/ (c.prov \in GetProviders(s.cfg, c.ps) /\ Set(p, r) /\ next' = next + 1 /\ UNCHANGED <<fs, remote>>)
  BY DEF ImportSecrets
<1>3. CASE Quit(p)
  BY <1>1, <1>3, QuitKeeps
<1>4. CASE c.prov \in GetProviders(s.cfg, c.ps) /\ Set(p, r) /\ next' = next + 1 /\ UNCHANGED <<fs, remote>>
  <2>1. /\ s \in Holdings(N, N \cup Pending(s)) /\ Pending(s) = {} /\ s.prof # <<>> /\ s.cmd # None /\ s.puts = <<>>
        /\ s.cfg \in Configs(N) /\ next \in Nat /\ w \in AnyProfile /\ c \in CommandLine
    <3>1. Held(s, N, fs)
      BY DEF IInv
    <3>2. WriteProfile(s.cmd) # None
      BY <1>1, <3>1 DEF Held, Found, Loads, At, Cmd
    <3>3. w \in AnyProfile
      BY <1>1, <3>2, CommandTyped DEF At, Cmd
    <3> QED BY <1>1, <3>1, <3>3, HeldTyped, CommandTyped DEF Held, InPlace, At, IInv
  <2>2. c.keys \subseteq Key /\ c.prov \in Provider
    BY <1>4, <2>1, ProvidersTyped DEF CommandLine
  <2> HIDE DEF c, w, s
  <2>3. f \in File
    BY <2>1, TargetTyped DEF w
  <2> HIDE DEF f
  <2>4. had \in Partial(Key, LoadedEntries(N))
    <3>1. CASE f \notin DOMAIN fs
      BY <3>1, PartialEmpty
    <3>2. CASE f \in DOMAIN fs
      <4>1. Load(fs, f) \in Configs(N)
        BY <3>2, LoadTyped DEF IInv
      <4>2. Load(fs, f).tab \in Tabs(LoadedEntries(N))
        BY <4>1 DEF Configs
      <4> QED BY <3>2, <4>2, TableTyped
    <3> QED BY <3>1, <3>2
  <2> HIDE DEF had, N
  <2>5. ASSUME NEW k \in c.keys PROVE Stored(New(k)) \in Entries(N)
    <3> DEFINE e == IF k \in DOMAIN had THEN had[k] ELSE EmptyEntry
    <3>1. EmptyEntry \in Entries(N) /\ \A j \in DOMAIN had : had[j] \in LoadedEntries(N)
      BY <2>4, PartialMeans DEF EmptyEntry, Entries
    <3>2. e \in Entries(N) \cup LoadedEntries(N) /\ Text(next) \in Values(N)
      BY <2>1, <3>1 DEF Text, Values
    <3> HIDE DEF e
    <3> DEFINE x == [e EXCEPT !.prov = c.prov, !.val = Text(next)]
    <3>3. x \in Entries(N) \cup LoadedEntries(N)
      <4>1. CASE e \in Entries(N)
        BY <2>2, <3>2, <4>1 DEF Entries
      <4>2. CASE e \in LoadedEntries(N)
        BY <2>2, <3>2, <4>2 DEF LoadedEntries
      <4> QED BY <3>2, <4>1, <4>2
    <3>4. New(k) = x
      BY DEF e
    <3> HIDE DEF New, x
    <3> QED BY <3>3, <3>4, StoredTyped
  <2> HIDE DEF New
  <2>6. u \in Items(N)
    <3>1. DOMAIN puts = c.keys /\ \A k \in c.keys : puts[k] = New(k)
      OBVIOUS
    <3> HIDE DEF puts
    <3> QED BY <2>1, <2>2, <2>3, <2>5, <3>1, UpdateTyped
  <2> HIDE DEF u
  <2>7. todo \in Seq(Items(N)) /\ todo # <<>>
    BY <2>6, OneWrite
  <2> HIDE DEF todo
  <2>8. r \in Holdings(N, N) /\ r.puts = <<>> /\ r.todo = todo /\ r.at = "save" /\ r.prof = s.prof /\ r.cmd = s.cmd
    BY <2>1, <2>7 DEF Holdings, Labels
  <2> HIDE DEF r
  <2>9. Pending(r) = {} /\ InPlace(r)
    BY <2>1, <2>7, <2>8 DEF Pending, InPlace
  <2>10. Held(r, N, fs)
    BY <2>1, <2>8, <2>9 DEF Held
  <2> QED BY <1>1, <1>4, <2>1, <2>10, SetKeeps DEF IInv, N
<1> QED BY <1>2, <1>3, <1>4

(* Writes at several places. *)
LEMMA UpdatesTyped ==
  ASSUME NEW names, NEW X \in SUBSET (File \X AnyProfile), IsFiniteSet(X), NEW puts, NEW dels, DOMAIN puts = X,
         \A x \in X : /\ DOMAIN puts[x] \subseteq Key /\ dels[x] \in SUBSET Key
                      /\ \A k \in DOMAIN puts[x] : Stored(puts[x][k]) \in Entries(names)
  PROVE  Updates(puts, dels) \in Seq(Items(names))
<1> DEFINE Y == {x \in DOMAIN puts : DOMAIN puts[x] # {} \/ dels[x] # {}}
           todo == SetToSeq(Y)
           W(i) == Update(todo[i][1], todo[i][2], puts[todo[i]], dels[todo[i]])
<1>1. todo \in Seq(Y)
  <2>1. IsFiniteSet(Y)
    BY FS_Subset
  <2> HIDE DEF Y
  <2> QED BY <2>1, SetToSeqIs
<1>2. ASSUME NEW x \in Y PROVE Update(x[1], x[2], puts[x], dels[x]) \in Items(names)
  <2>1. x \in X /\ x[1] \in File /\ x[2] \in AnyProfile
    OBVIOUS
  <2> HIDE DEF Y
  <2> QED BY <2>1, UpdateTyped
<1> HIDE DEF todo, Y
<1>3. \A i \in DOMAIN todo : W(i) \in Items(names)
  BY <1>1, <1>2
<1>4. Updates(puts, dels) = [i \in DOMAIN todo |-> W(i)]
  BY DEF Updates, todo, Y
<1> HIDE DEF W
<1>5. Len(todo) \in Nat /\ DOMAIN todo = 1..Len(todo)
  BY <1>1
<1> QED BY <1>3, <1>4, <1>5

LEMMA CachedTyped ==
  ASSUME IInv, NEW f \in DOMAIN fs, NEW q
  PROVE  /\ DOMAIN Cached(f, q) \subseteq Key
         /\ \A k \in DOMAIN Cached(f, q) : Cached(f, q)[k] \in LoadedEntries(DOMAIN remote)
<1>1. Load(fs, f) \in Configs(DOMAIN remote)
  BY LoadTyped DEF IInv
<1>2. Load(fs, f).tab \in Tabs(LoadedEntries(DOMAIN remote))
  BY <1>1 DEF Configs
<1>3. Cached(f, q) \in Partial(Key, LoadedEntries(DOMAIN remote))
  BY <1>2, TableTyped DEF Cached
<1> QED BY <1>3, PartialMeans

LEMMA PlacesTyped ==
  ASSUME NEW names, NEW cfg \in Configs(names), NEW c, c.ps \in Seq(AnyProfile), WriteProfile(c) \in AnyProfile
  PROVE  LET places == CachePlaces(c, cfg)
         IN  IsFiniteSet(places) /\ places \subseteq File \X AnyProfile /\ \A x \in places : x[1] \in DOMAIN fs
<1> DEFINE F == {<<"cwd", n>> : n \in {m \in Locals : <<"cwd", m>> \in DOMAIN fs}}
           P == CacheProfiles(c, cfg)
<1>1. P \subseteq AnyProfile
  <2>1. ResolveProfiles(cfg, c.ps, TRUE).out \in Seq(AnyProfile)
    BY ResolveTyped
  <2> DEFINE out == ResolveProfiles(cfg, c.ps, TRUE).out
  <2>2. Range(out) \subseteq AnyProfile
    <3> HIDE DEF out
    <3>1. out \in Seq(AnyProfile)
      BY <2>1 DEF out
    <3> QED BY <3>1 DEF Range
  <2> QED BY <2>2 DEF CacheProfiles, AnyProfile
<1>2. IsFiniteSet(AnyProfile)
  <2>1. IsFiniteSet(Profile \cup {Default})
    BY ConfigLayersAssumption, FS_AddElement
  <2>2. Profile \cup {Default} = AnyProfile
    BY DEF AnyProfile
  <2> QED BY <2>1, <2>2
<1>3. F \subseteq {<<"cwd", "local">>, <<"cwd", ".local">>} /\ F \subseteq DOMAIN fs
  BY DEF Locals
<1>4. IsFiniteSet({<<"cwd", "local">>, <<"cwd", ".local">>})
  <2>1. IsFiniteSet({<<"cwd", "local">>} \cup {<<"cwd", ".local">>})
    BY FS_Singleton, FS_AddElement
  <2>2. {<<"cwd", "local">>} \cup {<<"cwd", ".local">>} = {<<"cwd", "local">>, <<"cwd", ".local">>}
    OBVIOUS
  <2> QED BY <2>1, <2>2
<1> HIDE DEF F, P
<1>5. IsFiniteSet(F) /\ IsFiniteSet(P)
  BY <1>1, <1>2, <1>3, <1>4, FS_Subset
<1>6. IsFiniteSet(F \X P)
  BY <1>5, FS_Product
<1>7. F \X P \subseteq File \X AnyProfile /\ \A x \in F \X P : x[1] \in DOMAIN fs
  BY <1>1, <1>3, FilesThere
<1>8. CachePlaces(c, cfg) = F \X P \/ CachePlaces(c, cfg) = {}
  BY DEF CachePlaces, F, P
<1> QED BY <1>6, <1>7, <1>8, FS_EmptySet

LEMMA ClearedTyped ==
  ASSUME IInv, NEW c, NEW cfg, NEW f \in DOMAIN fs, NEW q, NEW got
  PROVE  LET new == Cleared(c, cfg, f, q, got)
         IN  /\ DOMAIN new \subseteq Key /\ Stale(c, cfg, f, q) \in SUBSET Key
             /\ \A k \in DOMAIN new : Stored(new[k]) \in Entries(DOMAIN remote)
<1> DEFINE K == Unsynced(c, cfg, f, q) \ got
           old == Cached(f, q)
           new == Cleared(c, cfg, f, q, got)
<1>1. DOMAIN old \subseteq Key /\ \A k \in DOMAIN old : old[k] \in LoadedEntries(DOMAIN remote)
  BY CachedTyped
<1>2. K \subseteq DOMAIN old /\ Stale(c, cfg, f, q) \subseteq DOMAIN old
  BY DEF Unsynced, Stale
<1>3. DOMAIN new = K /\ \A k \in K : new[k] = [old[k] EXCEPT !.sync = None, !.local = FALSE]
  BY DEF Cleared
<1> HIDE DEF new, K, old
<1>4. ASSUME NEW k \in K PROVE [old[k] EXCEPT !.sync = None, !.local = FALSE] \in LoadedEntries(DOMAIN remote)
  <2>1. old[k] \in LoadedEntries(DOMAIN remote)
    BY <1>1, <1>2
  <2> QED BY <2>1 DEF LoadedEntries
<1>5. \A k \in K : Stored(new[k]) \in Entries(DOMAIN remote)
  BY <1>3, <1>4, StoredTyped
<1> QED BY <1>1, <1>2, <1>3, <1>5 DEF new

LEMMA SyncPlanTyped ==
  ASSUME IInv, NEW c, NEW cfg, NEW here \in File \X AnyProfile,
         NEW places \in SUBSET (File \X AnyProfile), IsFiniteSet(places), \A x \in places : x[1] \in DOMAIN fs,
         NEW new, DOMAIN new \subseteq Key, \A k \in DOMAIN new : Stored(new[k]) \in Entries(DOMAIN remote)
  PROVE  SyncPlan(c, cfg, here, places, new) \in Seq(Items(DOMAIN remote))
<1> DEFINE N == DOMAIN remote
           Gone(x) == IF x \in places THEN Stale(c, cfg, x[1], x[2]) ELSE {}
           Clear(x) == Cleared(c, cfg, x[1], x[2], IF x = here THEN DOMAIN new ELSE {})
           a == Updates([x \in {here} |-> new], [x \in {here} |-> Gone(x)])
           b == Updates([x \in places \ {here} |-> <<>>], [x \in places \ {here} |-> Gone(x)])
           d == Updates([x \in places |-> Clear(x)], [x \in places |-> {}])
<1>1. \A x : Gone(x) \in SUBSET Key
  BY ClearedTyped
<1>2. \A x \in places : DOMAIN Clear(x) \subseteq Key /\ \A k \in DOMAIN Clear(x) : Stored(Clear(x)[k]) \in Entries(N)
  BY ClearedTyped
<1>3. IsFiniteSet({here}) /\ IsFiniteSet(places \ {here}) /\ DOMAIN <<>> = {}
  <2>1. IsFiniteSet({here})
    BY FS_Singleton
  <2>2. places \ {here} \in SUBSET places
    OBVIOUS
  <2>3. IsFiniteSet(places \ {here})
    BY <2>2, FS_Subset
  <2>4. DOMAIN <<>> = {}
    OBVIOUS
  <2> QED BY <2>1, <2>3, <2>4
<1>4. SyncPlan(c, cfg, here, places, new) = a \o b \o d
  BY DEF SyncPlan
<1> HIDE DEF Gone, Clear, N
<1>5. a \in Seq(Items(N))
  <2> DEFINE X == {here}
             f == [x \in X |-> new]
             g == [x \in X |-> Gone(x)]
  <2>1. DOMAIN f = X /\ \A x \in X : f[x] = new /\ g[x] = Gone(x)
    OBVIOUS
  <2>2. X \in SUBSET (File \X AnyProfile) /\ IsFiniteSet(X)
    BY <1>3
  <2> HIDE DEF f, g, X
  <2>3. \A x \in X : /\ DOMAIN f[x] \subseteq Key /\ g[x] \in SUBSET Key
                     /\ \A k \in DOMAIN f[x] : Stored(f[x][k]) \in Entries(N)
    BY <1>1, <2>1 DEF N
  <2>4. Updates(f, g) \in Seq(Items(N))
    BY <2>1, <2>2, <2>3, UpdatesTyped
  <2> QED BY <2>4 DEF f, g, X
<1>6. b \in Seq(Items(N))
  <2> DEFINE X == places \ {here}
             f == [x \in X |-> <<>>]
             g == [x \in X |-> Gone(x)]
  <2>1. DOMAIN f = X /\ \A x \in X : f[x] = <<>> /\ g[x] = Gone(x)
    OBVIOUS
  <2>2. X \in SUBSET (File \X AnyProfile) /\ IsFiniteSet(X)
    BY <1>3
  <2> HIDE DEF f, g, X
  <2>3. \A x \in X : /\ DOMAIN f[x] \subseteq Key /\ g[x] \in SUBSET Key
                     /\ \A k \in DOMAIN f[x] : Stored(f[x][k]) \in Entries(N)
    BY <1>1, <1>3, <2>1
  <2>4. Updates(f, g) \in Seq(Items(N))
    BY <2>1, <2>2, <2>3, UpdatesTyped
  <2> QED BY <2>4 DEF f, g, X
<1>7. d \in Seq(Items(N))
  <2> DEFINE f == [x \in places |-> Clear(x)]
             g == [x \in places |-> {}]
  <2>1. DOMAIN f = places /\ \A x \in places : f[x] = Clear(x) /\ g[x] = {}
    OBVIOUS
  <2> HIDE DEF f, g
  <2>2. \A x \in places : /\ DOMAIN f[x] \subseteq Key /\ g[x] \in SUBSET Key
                          /\ \A k \in DOMAIN f[x] : Stored(f[x][k]) \in Entries(N)
    BY <1>2, <2>1
  <2>3. Updates(f, g) \in Seq(Items(N))
    BY <2>1, <2>2, UpdatesTyped
  <2> QED BY <2>3 DEF f, g
<1> HIDE DEF a, b, d
<1> QED BY <1>4, <1>5, <1>6, <1>7 DEF N

LEMMA SyncHolds == ASSUME IInv, NEW p \in Proc, SyncSecrets(p) PROVE IInv'
<1> DEFINE N == DOMAIN remote
           s == proc[p]
           c == Cmd(p)
           cfg == s.cfg
           w == WriteProfile(c)
           here == <<SyncTarget(c), w>>
           all == GetSecrets(cfg, c.ps, c.nd)
           K == {k \in ToSync(c, cfg) : RawValue(all[k], remote) # None}
           New(k) == [all[k] EXCEPT !.sync = RawValue(all[k], remote), !.local = IsLocalSource(all[k], here[1], here[2])]
           new == Synced(c, cfg, here, all)
           places == CachePlaces(c, cfg)
           todo == SyncPlan(c, cfg, here, places, new)
           ok == /\ c.prov \in GetProviders(cfg, c.ps) /\ Cap[c.prov] = "encrypt"
                 /\ c.local => LocalOverride(FindLocalConfig(fs, w)) # None
<1>1. At(p, "work") /\ c.op = "sync" /\ begun' = begun
  BY DEF SyncSecrets
<1>2. Quit(p) \/ (ok /\ todo # <<>> /\ Plan(p, todo))
  BY DEF SyncSecrets
<1>3. CASE Quit(p)
  BY <1>1, <1>3, QuitKeeps
<1>4. CASE ok /\ todo # <<>> /\ Plan(p, todo)
  <2>1. cfg \in Configs(N) /\ w \in AnyProfile /\ c.ps \in Seq(AnyProfile)
    <3>1. Held(s, N, fs)
      BY DEF IInv
    <3>2. WriteProfile(s.cmd) # None
      BY <1>1, <3>1 DEF Held, Found, Loads, At, Cmd
    <3>3. w \in AnyProfile
      BY <1>1, <3>2, CommandTyped DEF At, Cmd
    <3> QED BY <1>1, <3>3, HeldTyped, CommandTyped DEF At
  <2>2. IsPartial(remote, RemoteNames, Nat)
    BY DEF IInv
  <2>3. c.local => LocalOverride(FindLocalConfig(fs, w)) # None
    BY <1>4
  <2> HIDE DEF c, cfg, s
  <2>4. here \in File \X AnyProfile
    <3>1. LocalOverride(FindLocalConfig(fs, w)) # None => LocalOverride(FindLocalConfig(fs, w)) \in {"local", ".local"}
      BY DEF LocalOverride
    <3>2. SyncTarget(c) \in File
      BY <2>3, <3>1, FilesThere DEF SyncTarget
    <3> QED BY <2>1, <3>2
  <2>5. IsFiniteSet(places) /\ places \in SUBSET (File \X AnyProfile) /\ \A x \in places : x[1] \in DOMAIN fs
    BY <2>1, PlacesTyped DEF w
  <2>6. DOMAIN all \subseteq Key /\ \A k \in DOMAIN all : all[k] \in LoadedEntries(N)
    BY <2>1, GetSecretsTyped
  <2>7. K \subseteq DOMAIN all
    BY DEF ToSync
  <2>8. DOMAIN new = K /\ \A k \in K : new[k] = New(k)
    BY DEF Synced
  <2> HIDE DEF all, here, K, N, new
  <2>9. ASSUME NEW k \in K PROVE Stored(New(k)) \in Entries(N)
    <3> DEFINE e == all[k]
               v == RawValue(e, remote)
               l == IsLocalSource(e, here[1], here[2])
    <3>1. e \in LoadedEntries(N)
      BY <2>6, <2>7
    <3>2. v \in Nat /\ l \in BOOLEAN
      BY <2>2, <3>1, ValueTyped DEF K, IsLocalSource
    <3> HIDE DEF e, v, l
    <3>3. [e EXCEPT !.sync = v, !.local = l] \in LoadedEntries(N)
      BY <3>1, <3>2 DEF LoadedEntries
    <3>4. New(k) = [e EXCEPT !.sync = v, !.local = l]
      BY DEF e, v, l
    <3> HIDE DEF New
    <3> QED BY <3>3, <3>4, StoredTyped
  <2>10. DOMAIN new \subseteq Key /\ \A k \in DOMAIN new : Stored(new[k]) \in Entries(N)
    <3> HIDE DEF New
    <3> QED BY <2>6, <2>7, <2>8, <2>9
  <2> HIDE DEF places
  <2>11. todo \in Seq(Items(N))
    BY <2>4, <2>5, <2>10, SyncPlanTyped DEF N
  <2> HIDE DEF todo
  <2> QED BY <1>1, <1>4, <2>11, PlanKeeps DEF N
<1> QED BY <1>2, <1>3, <1>4

LEMMA ReencryptHolds == ASSUME IInv, NEW p \in Proc, Reencrypt(p) PROVE IInv'
<1> DEFINE N == DOMAIN remote
           s == proc[p]
           c == Cmd(p)
           cfg == s.cfg
           all == GetSecrets(cfg, c.ps, c.nd)
           keys == ToReencrypt(c, cfg)
           Place(k) == <<all[k].src, SaveProfile(all[k], c)>>
           New(k) == [all[k] EXCEPT !.sync = None, !.local = FALSE, !.val = Text(RawValue(all[k], remote))]
           P == {Place(k) : k \in keys}
           places == SetToSeq(P)
           Puts1(i) == [k \in {k \in keys : Place(k) = places[i]} |-> New(k)]
           todo == ReencryptPlan(c, all, keys)
<1>1. At(p, "work") /\ begun' = begun
  BY DEF Reencrypt
<1>2. Quit(p) \/ (keys # {} /\ Plan(p, todo))
  BY DEF Reencrypt
<1>3. CASE Quit(p)
  BY <1>1, <1>3, QuitKeeps
<1>4. CASE keys # {} /\ Plan(p, todo)
  <2>1. todo = [i \in DOMAIN places |-> Update(places[i][1], places[i][2], Puts1(i), {})]
    BY DEF ReencryptPlan
  <2> HIDE DEF todo
  <2>2. cfg \in Configs(N) /\ c.ps \in Seq(AnyProfile)
    BY <1>1, HeldTyped, CommandTyped DEF At
  <2>3. IsPartial(remote, RemoteNames, Nat)
    BY DEF IInv
  <2>4. keys \subseteq DOMAIN all /\ \A k \in keys : all[k].val # None
    BY DEF ToReencrypt
  <2> HIDE DEF c, cfg, s, keys
  <2>5. DOMAIN all \subseteq Key /\ \A k \in DOMAIN all : all[k] \in LoadedEntries(N)
    BY <2>2, GetSecretsTyped
  <2> HIDE DEF all
  <2>6. P \subseteq File \X AnyProfile
    <3>1. \A k \in keys : all[k].src \in File /\ all[k].own \in AnyProfile
      BY <2>4, <2>5 DEF LoadedEntries
    <3> QED BY <3>1 DEF SaveProfile
  <2>7. IsFiniteSet(P)
    <3>1. IsFiniteSet(keys)
      BY <2>4, <2>5, ConfigLayersAssumption, FS_Subset
    <3> DEFINE f == [k \in keys |-> Place(k)]
    <3>2. f \in Surjection(keys, P)
      BY DEF Surjection
    <3> HIDE DEF f, P
    <3> QED BY <3>1, <3>2, FS_Surjection
  <2>8. P # {}
    BY <1>4
  <2>9. ASSUME NEW k \in keys PROVE Stored(New(k)) \in Entries(N)
    <3> DEFINE e == all[k]
               v == RawValue(e, remote)
    <3>1. e \in LoadedEntries(N) /\ e.val # None
      BY <2>4, <2>5
    <3>2. v \in Nat
      BY <2>3, <3>1, ValueTyped
    <3> HIDE DEF e, v
    <3>3. Text(v) \in Values(N)
      BY <3>2 DEF Text, Values
    <3>4. [e EXCEPT !.sync = None, !.local = FALSE, !.val = Text(v)] \in LoadedEntries(N)
      BY <3>1, <3>3 DEF LoadedEntries
    <3>5. New(k) = [e EXCEPT !.sync = None, !.local = FALSE, !.val = Text(v)]
      BY DEF e, v
    <3> HIDE DEF New
    <3> QED BY <3>4, <3>5, StoredTyped
  <2> HIDE DEF P, New, Place
  <2>10. places \in Seq(P) /\ \A x \in P : \E i \in DOMAIN places : places[i] = x
    BY <2>7, SetToSeqIs
  <2> HIDE DEF places, N
  <2>11. ASSUME NEW i \in DOMAIN places PROVE Update(places[i][1], places[i][2], Puts1(i), {}) \in Items(N)
    <3>1. places[i] \in P
      BY <2>10
    <3>2. places[i][1] \in File /\ places[i][2] \in AnyProfile
      BY <2>6, <3>1
    <3>3. DOMAIN Puts1(i) \subseteq keys /\ \A k \in DOMAIN Puts1(i) : Puts1(i)[k] = New(k)
      OBVIOUS
    <3> HIDE DEF Puts1
    <3>4. DOMAIN Puts1(i) \subseteq Key /\ \A k \in DOMAIN Puts1(i) : Stored(Puts1(i)[k]) \in Entries(N)
      BY <2>4, <2>5, <2>9, <3>3
    <3> QED BY <3>2, <3>4, UpdateTyped
  <2>12. DOMAIN places = 1..Len(places) /\ Len(places) \in Nat /\ DOMAIN places # {}
    BY <2>8, <2>10
  <2> HIDE DEF Puts1
  <2>13. todo \in Seq(Items(N)) /\ DOMAIN todo # {}
    BY <2>1, <2>11, <2>12
  <2>14. todo # <<>>
    <3>1. DOMAIN <<>> = {}
      OBVIOUS
    <3> QED BY <2>13, <3>1
  <2> QED BY <1>1, <1>4, <2>13, <2>14, PlanKeeps DEF N
<1> QED BY <1>2, <1>3, <1>4


--------------------------------------------------------------------------------
(* edit *)

(* The secrets that are shown. *)
LEMMA ShownTyped ==
  ASSUME NEW E, NEW c, c.tab \in Tabs(E)
  PROVE  /\ Shown(c) \subseteq AnyProfile \X Key
         /\ \A x \in Shown(c) : /\ x[1] \in DOMAIN c.tab /\ x[2] \in DOMAIN c.tab[x[1]].secrets
                                /\ x = <<x[1], x[2]>> /\ EntryAt(c.tab, x) \in E
<1>1. ASSUME NEW p \in DOMAIN c.tab PROVE c.tab[p].secrets \in Partial(Key, E)
  BY TabsMean DEF Tables
<1>2. ASSUME NEW p \in DOMAIN c.tab, NEW k \in DOMAIN c.tab[p].secrets PROVE c.tab[p].secrets[k] \in E
  BY <1>1, PartialMeans
<1>3. DOMAIN c.tab \subseteq AnyProfile
  BY TabsMean
<1> QED BY <1>2, <1>3 DEF Shown, EntryAt

LEMMA EditOpenHolds == ASSUME IInv, NEW p \in Proc, EditOpen(p) PROVE IInv'
<1> DEFINE N == DOMAIN remote
           s == proc[p]
           cfg == s.cfg
           X == Shown(cfg)
           shown == [x \in X |-> Value(EntryAt(cfg.tab, x), remote)]
           r == [s EXCEPT !.at = "editor", !.doc = fs[Edited], !.shown = shown]
           shows == /\ Edited \in DOMAIN fs /\ \A x \in X : Value(EntryAt(cfg.tab, x), remote) # None
                    /\ Set(p, r) /\ UNCHANGED <<fs, remote, next>>
<1>1. At(p, "work") /\ begun' = begun
  BY DEF EditOpen
<1>2. Quit(p) \/ shows
  BY DEF EditOpen
<1>3. CASE Quit(p)
  BY <1>1, <1>3, QuitKeeps
<1>4. CASE shows
  <2>1. /\ s \in Holdings(N, N \cup Pending(s)) /\ s.at = "work" /\ s.puts = <<>> /\ s.todo = <<>> /\ Pending(s) = {}
        /\ s.prof # <<>> /\ s.cmd # None /\ cfg \in Configs(N)
    BY <1>1, HeldTyped DEF Held, InPlace, At
  <2>2. fs[Edited] \in Docs(N)
    BY <1>4, FilesMean, PartialMeans DEF IInv
  <2>3. IsPartial(remote, RemoteNames, Nat)
    BY DEF IInv
  <2> HIDE DEF N
  <2>4. X \subseteq AnyProfile \X Key /\ \A x \in X : EntryAt(cfg.tab, x) \in LoadedEntries(N)
    <3>1. cfg.tab \in Tabs(LoadedEntries(N))
      BY <2>1 DEF Configs
    <3> HIDE DEF cfg
    <3> QED BY <3>1, ShownTyped
  <2>5. ASSUME NEW x \in X PROVE Value(EntryAt(cfg.tab, x), remote) \in Nat
    <3>1. Value(EntryAt(cfg.tab, x), remote) \in {None} \cup Nat
      BY <2>3, <2>4, ValueTyped
    <3> QED BY <1>4, <3>1
  <2>6. shown \in [X -> Nat]
    <3> HIDE DEF X, cfg
    <3> QED BY <2>5
  <2> HIDE DEF shown
  <2>7. shown \in Partial(AnyProfile \X Key, Nat)
    BY <2>4, <2>6, PartialMade
  <2> HIDE DEF X
  <2> DEFINE d == fs[Edited]
  <2> HIDE DEF d, s
  <2>8. /\ r \in Holdings(N, N) /\ r.puts = <<>> /\ r.todo = <<>> /\ r.at = "editor" /\ r.prof = s.prof /\ r.cmd = s.cmd
        /\ r.cfg = cfg /\ r.shown = shown
    BY <2>1, <2>2, <2>7 DEF Holdings, Labels, d
  <2> HIDE DEF r
  <2>9. Pending(r) = {} /\ InPlace(r)
    BY <2>1, <2>8 DEF Pending, InPlace
  <2>10. Held(r, N, fs)
    BY <2>1, <2>6, <2>8, <2>9 DEF Held, X
  <2>11. Set(p, r) /\ UNCHANGED <<fs, remote, next>>
    BY <1>4
  <2> QED BY <1>1, <2>10, <2>11, SetKeeps DEF N, IInv
<1> QED BY <1>2, <1>3, <1>4

LEMMA EditedTyped ==
  ASSUME NEW names, NEW more, names \subseteq more, NEW s, s.doc \in Docs(names), s.cfg \in Configs(names), NEW u,
         \A x \in Shown(s.doc) : InEditor(s, x, u) \in Nat,
         \A x \in RemoteAnew(s, u) : x[2] \in more
  PROVE  EditedDoc(s, u) \in Docs(more)
<1> DEFINE t == s.doc.tab
           e(x) == EntryAt(t, x)
           Edit(x) == EditedEntry(s.cfg, DocProvider(s, x), x, e(x), x = u, InEditor(s, x, u))
           new == [p \in DOMAIN t |-> [k \in DOMAIN t[p].secrets |-> Edit(<<p, k>>)]]
<1>1. t \in Tabs(Entries(names)) /\ s.cfg.tab \in Tabs(LoadedEntries(names)) /\ Entries(names) \subseteq Entries(more)
  BY TypesGrow DEF Docs, Configs
<1>2. ASSUME NEW x \in Shown(s.doc) PROVE Edit(x) \in Entries(more)
  <2>1. e(x) \in Entries(more) /\ e(x) \in Entries(names)
    BY <1>1, ShownTyped
  <2> DEFINE q == DocProvider(s, x)
             anew == StoredAnew(s.cfg, x, e(x), x = u)
             v == InEditor(s, x, u)
             old == EntryAt(s.cfg.tab, x).val
  <2>2. v \in Nat /\ (anew /\ q # None /\ Cap[q] = "remote" => x[2] \in more)
    BY DEF RemoteAnew, EditAnew
  <2>3. ~anew => old \in {None} \cup Values(more)
    <3>1. ~anew => x \in Shown(s.cfg)
      BY DEF StoredAnew
    <3>2. x \in Shown(s.cfg) => EntryAt(s.cfg.tab, x) \in LoadedEntries(names)
      BY <1>1, ShownTyped
    <3>3. LoadedEntries(names) \subseteq LoadedEntries(more)
      BY TypesGrow
    <3> HIDE DEF anew
    <3> QED BY <3>1, <3>2, <3>3 DEF LoadedEntries
  <2>4. Edit(x) = IF anew THEN [e(x) EXCEPT !.val = IF q # None /\ Cap[q] = "remote" THEN Ref(x[2]) ELSE Text(v)]
                          ELSE [e(x) EXCEPT !.val = old]
    BY DEF EditedEntry
  <2> DEFINE en == e(x)
  <2>5. en \in Entries(more)
    BY <2>1
  <2>6. Text(v) \in Values(more) /\ (x[2] \in more => Ref(x[2]) \in Values(more))
    <3> HIDE DEF v
    <3> QED BY <2>2 DEF Text, Ref, Values
  <2>7. \E w \in {None} \cup Values(more) : Edit(x) = [en EXCEPT !.val = w]
    <3> HIDE DEF v, old, q, anew, e, Edit
    <3> QED BY <2>2, <2>3, <2>4, <2>6
  <2>8. ASSUME NEW w \in {None} \cup Values(more) PROVE [en EXCEPT !.val = w] \in Entries(more)
    <3> HIDE DEF en
    <3> QED BY <2>5 DEF Entries
  <2> HIDE DEF en, Edit
  <2> QED BY <2>7, <2>8
<1>3. new \in [DOMAIN t -> Partial(Key, Entries(more))]
  <2> SUFFICES ASSUME NEW p \in DOMAIN t PROVE [k \in DOMAIN t[p].secrets |-> Edit(<<p, k>>)] \in Partial(Key, Entries(more))
    OBVIOUS
  <2> DEFINE K == DOMAIN t[p].secrets
  <2>1. K \in SUBSET Key
    BY <1>1, TabsMean, PartialMeans DEF Tables
  <2>2. ASSUME NEW k \in K PROVE Edit(<<p, k>>) \in Entries(more)
    <3>1. <<p, k>> \in Shown(s.doc)
      BY <2>1 DEF Shown
    <3> HIDE DEF Edit
    <3> QED BY <1>2, <3>1
  <2> HIDE DEF Edit, K
  <2>3. [k \in K |-> Edit(<<p, k>>)] \in [K -> Entries(more)]
    BY <2>2
  <2>4. [k \in K |-> Edit(<<p, k>>)] \in Partial(Key, Entries(more))
    BY <2>1, <2>3, PartialMade
  <2> QED BY <2>4 DEF K
<1>4. EditedDoc(s, u) = [s.doc EXCEPT !.tab = [p \in DOMAIN t |-> [t[p] EXCEPT !.secrets = new[p]]]]
  <2>1. \A p \in DOMAIN t : new[p] = EditedSecrets(s, u, p)
    BY DEF EditedSecrets
  <2> HIDE DEF new
  <2> QED BY <2>1 DEF EditedDoc
<1> HIDE DEF new
<1>5. [p \in DOMAIN t |-> [t[p] EXCEPT !.secrets = new[p]]] \in Tabs(Entries(more))
  <2> HIDE DEF t
  <2> QED BY <1>1, <1>3, SecretsChanged
<1> DEFINE d == [p \in DOMAIN t |-> [t[p] EXCEPT !.secrets = new[p]]]
<1>6. d \in Tabs(Entries(more)) /\ EditedDoc(s, u) = [s.doc EXCEPT !.tab = d]
  BY <1>4, <1>5
<1> HIDE DEF d
<1> QED BY <1>6 DEF Docs

(* What is put for the secrets that a remote provider stores anew. *)
LEMMA EditPutsTyped ==
  ASSUME NEW names, NEW s, s.doc \in Docs(names), NEW u, \A x \in Shown(s.doc) : InEditor(s, x, u) \in Nat
  PROVE  LET puts == EditPuts(s, u)
         IN  /\ puts \in Seq(Puts)
             /\ \A x \in RemoteAnew(s, u) : \E i \in 1..Len(puts) : puts[i].name = x[2]
<1> DEFINE X == RemoteAnew(s, u)
           all == SetToSeq(X)
           puts == [i \in DOMAIN all |-> [name |-> all[i][2], v |-> InEditor(s, all[i], u)]]
<1>1. EditPuts(s, u) = puts
  BY DEF EditPuts
<1>2. X \subseteq Shown(s.doc) /\ Shown(s.doc) \subseteq AnyProfile \X Key
  <2>1. s.doc.tab \in Tabs(Entries(names))
    BY DEF Docs
  <2> QED BY <2>1, ShownTyped DEF EditAnew, RemoteAnew
<1> HIDE DEF X
<1>3. IsFiniteSet(X)
  <2>1. IsFiniteSet(Profile \cup {Default})
    BY ConfigLayersAssumption, FS_AddElement
  <2>2. Profile \cup {Default} = AnyProfile
    BY DEF AnyProfile
  <2>3. IsFiniteSet(AnyProfile \X Key)
    BY <2>1, <2>2, ConfigLayersAssumption, FS_Product
  <2>4. X \in SUBSET (AnyProfile \X Key)
    BY <1>2
  <2> QED BY <2>3, <2>4, FS_Subset
<1>4. all \in Seq(X) /\ \A x \in X : \E i \in DOMAIN all : all[i] = x
  BY <1>3, SetToSeqIs
<1> HIDE DEF all
<1>5. ASSUME NEW i \in DOMAIN all PROVE [name |-> all[i][2], v |-> InEditor(s, all[i], u)] \in Puts
  <2>1. all[i] \in X
    BY <1>4
  <2> DEFINE x == all[i]
             w == InEditor(s, x, u)
  <2>2. x \in AnyProfile \X Key /\ w \in Nat
    BY <1>2, <2>1
  <2> HIDE DEF x, w
  <2>3. [name |-> x[2], v |-> w] \in Puts
    BY <2>2 DEF Puts, RemoteNames
  <2> QED BY <2>3 DEF x, w
<1>6. DOMAIN all = 1..Len(all) /\ Len(all) \in Nat
  BY <1>4
<1>7. puts \in Seq(Puts) /\ DOMAIN puts = DOMAIN all
  <2> DEFINE put(i) == [name |-> all[i][2], v |-> InEditor(s, all[i], u)]
  <2>1. puts = [i \in DOMAIN all |-> put(i)] /\ \A i \in DOMAIN all : put(i) \in Puts
    BY <1>5
  <2> HIDE DEF put, puts
  <2> QED BY <1>6, <2>1
<1>8. \A i \in DOMAIN all : puts[i].name = all[i][2]
  OBVIOUS
<1> HIDE DEF puts
<1>9. \A x \in X : \E i \in 1..Len(puts) : puts[i].name = x[2]
  BY <1>4, <1>7, <1>8
<1> QED BY <1>1, <1>7, <1>9 DEF X

LEMMA EditCloseHolds == ASSUME IInv, NEW p \in Proc, EditClose(p) PROVE IInv'
<1> DEFINE N == DOMAIN remote
           s == proc[p]
           puts(u) == EditPuts(s, u)
           u1(u) == Replace(Edited, EditedDoc(s, u))
           r(u) == [s EXCEPT !.at = IF puts(u) # <<>> THEN "put" ELSE "write", !.puts = puts(u),
                             !.todo = <<u1(u)>>, !.shown = <<>>, !.changed = u]
<1>1. At(p, "editor") /\ begun' = begun
  BY DEF EditClose
<1>2. Quit(p) \/ \E u \in Shown(s.doc) \cup {None} : Set(p, r(u)) /\ next' = next + 1 /\ UNCHANGED <<fs, remote>>
  BY DEF EditClose
<1>3. CASE Quit(p)
  BY <1>1, <1>3, QuitKeeps
<1>4. ASSUME NEW u \in Shown(s.doc) \cup {None}, Set(p, r(u)), next' = next + 1, UNCHANGED <<fs, remote>> PROVE IInv'
  <2>1. /\ s \in Holdings(N, N \cup Pending(s)) /\ s.at = "editor" /\ s.prof # <<>> /\ s.cmd # None
        /\ s.cfg \in Configs(N) /\ s.doc \in Docs(N) /\ s.shown \in [Shown(s.cfg) -> Nat]
    BY <1>1, HeldTyped DEF Held, InPlace, At
  <2>2. next \in Nat
    BY DEF IInv
  <2> HIDE DEF s, N
  <2>3. \A x \in Shown(s.doc) : InEditor(s, x, u) \in Nat
    BY <2>1, <2>2 DEF InEditor, Garbled
  <2>4. s.doc.tab \in Tabs(Entries(N))
    BY <2>1 DEF Docs
  <2>5. u \in {None} \cup (AnyProfile \X Key)
    BY <2>4, ShownTyped
  <2> DEFINE q == puts(u)
             todo == <<u1(u)>>
             at == IF q # <<>> THEN "put" ELSE "write"
             new == [s EXCEPT !.at = at, !.puts = q, !.todo = todo, !.shown = <<>>, !.changed = u]
             more == N \cup {q[i].name : i \in 1..Len(q)}
  <2>6. q \in Seq(Puts)
    BY <2>1, <2>3, EditPutsTyped
  <2>7. \A x \in RemoteAnew(s, u) : x[2] \in more
    <3>1. \A x \in RemoteAnew(s, u) : \E i \in 1..Len(q) : q[i].name = x[2]
      BY <2>1, <2>3, EditPutsTyped
    <3> HIDE DEF q
    <3> QED BY <3>1
  <2>8. u1(u) \in Items(more)
    <3>1. N \subseteq more
      OBVIOUS
    <3> HIDE DEF more
    <3>2. EditedDoc(s, u) \in Docs(more)
      BY <2>1, <2>3, <2>7, <3>1, EditedTyped
    <3>3. Edited \in File
      BY FilesThere DEF Edited
    <3> QED BY <3>2, <3>3, ReplaceTyped
  <2> HIDE DEF q, u1
  <2>9. todo \in Seq(Items(more)) /\ todo # <<>>
    <3> HIDE DEF more
    <3> QED BY <2>8, OneWrite
  <2>10. N \subseteq more
    OBVIOUS
  <2>11. r(u) = new
    BY DEF q
  <2> HIDE DEF todo, more, r
  <2>12. at \in Labels /\ (at = "put" <=> q # <<>>) /\ at \in {"put", "write"}
    BY DEF Labels
  <2>13. <<>> \in Partial(AnyProfile \X Key, Nat)
    BY PartialEmpty
  <2> HIDE DEF at
  <2>14. /\ new \in Holdings(N, more) /\ new.at = at /\ new.puts = q /\ new.todo = todo /\ new.prof = s.prof
         /\ new.cmd = s.cmd
    BY <2>1, <2>5, <2>6, <2>9, <2>12, <2>13 DEF Holdings
  <2> HIDE DEF new
  <2>15. N \cup Pending(new) = more
    BY <2>14 DEF Pending, more
  <2>16. InPlace(new)
    BY <2>1, <2>9, <2>12, <2>14 DEF InPlace
  <2>17. Held(new, N, fs)
    BY <2>1, <2>12, <2>14, <2>15, <2>16 DEF Held
  <2>18. next' \in Nat /\ begun' \in 0..MaxCommands
    BY <1>1, <1>4, <2>2 DEF IInv
  <2>19. Set(p, new)
    BY <1>4, <2>11
  <2> QED BY <1>4, <2>17, <2>18, <2>19, SetKeeps DEF N
<1> QED BY <1>2, <1>3, <1>4

--------------------------------------------------------------------------------
(* The invariant holds, and what follows from it. *)

LEMMA StepHolds == ASSUME IInv, [Next]_vars PROVE IInv'
<1>1. CASE UNCHANGED vars
  <2>1. UNCHANGED <<fs, remote, proc, next, begun>>
    BY <1>1 DEF vars
  <2> QED BY <2>1 DEF IInv
<1>2. CASE Next
  <2>1. PICK p \in Proc : Begin(p) \/ Step(p) \/ EditClose(p) \/ Crash(p)
    BY <1>2 DEF Next
  <2>2. CASE Step(p)
    BY <2>2, LoadHolds, SetHolds, PutHolds, RemoveHolds, ImportHolds, SyncHolds, ReencryptHolds, EditOpenHolds,
       InitConfigHolds, ProviderAddHolds, ProviderRemoveHolds, SaveReadHolds, TruncateHolds, FillHolds DEF Step
  <2> QED BY <2>1, <2>2, BeginHolds, EditCloseHolds, CrashHolds
<1> QED BY <1>1, <1>2

LEMMA Invariance == Spec => []IInv
<1>1. IInv /\ [Next]_vars => IInv'
  BY StepHolds
<1> QED BY <1>1, InitHolds, PTL DEF Spec

LEMMA ItemIs ==
  ASSUME NEW names, NEW u \in Items(names)
  PROVE  IsItem(u, names)
<1>1. CASE u.kind = "update"
  <2>1. u \in [file : File, kind : {"update"}, tbl : AnyProfile, puts : Partial(Key, Entries(names)), dels : SUBSET Key]
    BY <1>1 DEF Items
  <2>2. IsPartial(u.puts, Key, Entries(names))
    BY <2>1, PartialIs
  <2> QED BY <1>1, <2>1, <2>2 DEF IsItem
<1>2. CASE u.kind # "update"
  <2>1. u \in [file : File, kind : {"replace"}, doc : Docs(names)]
    BY <1>2 DEF Items
  <2>2. IsDoc(u.doc, names)
    BY <2>1, DocIs
  <2> QED BY <1>2, <2>1, <2>2 DEF IsItem
<1> QED BY <1>1, <1>2

LEMMA HoldingIs ==
  ASSUME NEW s \in Holdings(RemoteNames, RemoteNames)
  PROVE  IsHolding(s)
<1>1. /\ s.cfg \in Configs(RemoteNames) /\ s.doc \in Docs(RemoteNames) /\ s.shown \in Partial(AnyProfile \X Key, Nat)
      /\ s.todo \in Seq(Items(RemoteNames))
  BY DEF Holdings
<1>2. /\ IsConfig(s.cfg, RemoteNames) /\ IsDoc(s.doc, RemoteNames) /\ IsPartial(s.shown, AnyProfile \X Key, Nat)
  BY <1>1, ConfigIs, DocIs, PartialIs
<1>3. \A i \in DOMAIN s.todo : IsItem(s.todo[i], RemoteNames)
  BY <1>1, ItemIs
<1>4. s.todo \in Seq({s.todo[i] : i \in DOMAIN s.todo})
  <2> DEFINE t == s.todo
             S == {t[i] : i \in DOMAIN t}
  <2>1. Len(t) \in Nat /\ DOMAIN t = 1..Len(t) /\ t = [i \in 1..Len(t) |-> t[i]]
    BY <1>1
  <2>2. \A i \in DOMAIN t : t[i] \in S
    OBVIOUS
  <2> HIDE DEF t, S
  <2>3. t \in Seq(S)
    BY <2>1, <2>2
  <2> QED BY <2>3 DEF t, S
<1>5. s \in [at : Labels, cmd : {None} \cup Command, prof : Seq(AnyProfile), cfg : {s.cfg}, puts : Seq(Puts),
             v : {None} \cup Nat, shown : {s.shown}, changed : {None} \cup (AnyProfile \X Key),
             todo : {s.todo}, doc : {s.doc}, alone : BOOLEAN]
  BY DEF Holdings
<1> QED BY <1>2, <1>3, <1>4, <1>5 DEF IsHolding

LEMMA InvariantTyped == IInv => TypeOK
<1> SUFFICES ASSUME IInv PROVE TypeOK
  OBVIOUS
<1>1. DOMAIN remote \subseteq RemoteNames /\ FilesOK(fs, RemoteNames)
  BY FilesGrow DEF IInv, IsPartial
<1>2. ASSUME NEW p \in Proc PROVE IsHolding(proc[p]) /\ InPlace(proc[p])
  <2> DEFINE s == proc[p]
             more == DOMAIN remote \cup Pending(s)
  <2>1. s \in Holdings(DOMAIN remote, more) /\ InPlace(s) /\ s.puts \in Seq(Puts)
    BY HeldTyped DEF Held
  <2> HIDE DEF s
  <2>2. Pending(s) \subseteq RemoteNames
    <3>1. \A i \in 1..Len(s.puts) : s.puts[i] \in Puts
      BY <2>1
    <3>2. \A i \in 1..Len(s.puts) : s.puts[i].name \in RemoteNames
      BY <3>1 DEF Puts
    <3> QED BY <3>2 DEF Pending
  <2>3. more \subseteq RemoteNames
    BY <1>1, <2>2
  <2> HIDE DEF more
  <2>4. s \in Holdings(RemoteNames, RemoteNames)
    BY <1>1, <2>1, <2>3, HoldingsGrow
  <2> QED BY <2>1, <2>4, HoldingIs DEF s
<1>3. proc \in [Proc -> {proc[p] : p \in Proc}]
  <2> DEFINE S == {proc[p] : p \in Proc}
  <2>1. \A p \in Proc : proc[p] \in S
    OBVIOUS
  <2>2. proc = [p \in Proc |-> proc[p]]
    BY DEF IInv
  <2> HIDE DEF S
  <2>3. proc \in [Proc -> S]
    BY <2>1, <2>2
  <2> QED BY <2>3 DEF S
<1> QED BY <1>1, <1>2, <1>3 DEF TypeOK, IInv

LEMMA InvariantOrdered == IInv => AncestorsFirst
<1> SUFFICES ASSUME IInv, NEW p \in Proc, At(p, "work"), Loads(Cmd(p)) PROVE
      LET s == proc[p]
      IN  /\ \A i \in DOMAIN s.prof : \A q \in Range(Inherits(s.cfg, s.prof[i])) : \E j \in 1..(i - 1) : s.prof[j] = q
          /\ s.alone => \A q \in Range(s.prof) : q \in Profile /\ <<"cwd", q>> \in DOMAIN fs => q \in s.cfg.loaded
  BY DEF AncestorsFirst
<1> DEFINE s == proc[p]
<1>1. Held(s, DOMAIN remote, fs) /\ s.prof \in Seq(AnyProfile)
  BY HeldTyped
<1>2. Found(s, fs) /\ DOMAIN s.prof = 1..Len(s.prof)
  BY <1>1 DEF Held, At, Cmd
<1> HIDE DEF s
<1> QED BY <1>2 DEF Found, Ordered, s

(* Whatever the files are, however the profiles inherit from one another, and whichever
   commands write the files at the same time and are killed between any two steps: a
   command works with every profile that its own inherit, each after what it inherits and
   loaded from its file (load_with_recursion), and a file refers to nothing that the remote
   store does not have, because set and edit put a value before they save. *)
THEOREM LoadsAreSound == Spec => []LoadsSound
<1>1. IInv => ReferencesResolve
  BY ReferencesThere DEF IInv, ReferencesResolve
<1>2. IInv => LoadsSound
  BY <1>1, InvariantTyped, InvariantOrdered DEF LoadsSound
<1> QED BY <1>2, Invariance, PTL

================================================================================
