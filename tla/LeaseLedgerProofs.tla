------------------------- MODULE LeaseLedgerProofs -------------------------
(***************************************************************************)
(* What the lease ledger keeps, for any number of processes, backends and  *)
(* leases, and any clock: no record is lost, a revoked lease never comes   *)
(* back, and exec and get only reuse what they may.                        *)
(***************************************************************************)
EXTENDS LeaseLedger, TLAPS, WellFoundedInduction

----------------------------------------------------------------------------
(* Saving: the records that are kept, in order.  A property of naturals holds *)
(* of all of them if there is no least one without it.                        *)

\* Every set of naturals that is not empty has a least element.
LEMMA LeastNatural ==
    ASSUME NEW T \in SUBSET Nat, T # {}
    PROVE  \E n \in T : \A m \in T : n <= m
<1>1. PICK n \in T : \A m \in T : ~(<<m, n>> \in OpToRel(<, Nat))
  BY WFMin, NatLessThanWellFounded, Zenon
<1>2. \A m \in T : ~(m < n)
  BY <1>1 DEF OpToRel
<1> QED BY <1>2

\* One step of the function that Saved computes.
Grown(s, g, i) ==
    IF i = 0 THEN <<>> ELSE IF Kept(s[i]) THEN Append(g[i - 1], s[i]) ELSE g[i - 1]

\* The recursive function that Saved computes exists, for every length.
LEMMA GrownExists ==
    ASSUME NEW s, NEW n \in Nat
    PROVE  \E g : g = [i \in 0 .. n |-> Grown(s, g, i)]
<1> DEFINE T == {m \in Nat : ~ \E g : g = [i \in 0 .. m |-> Grown(s, g, i)]}
<1> SUFFICES ASSUME T # {} PROVE FALSE
  OBVIOUS
<1>1. PICK m \in T : \A k \in T : m <= k
  BY LeastNatural
<1>2. CASE m = 0
  <2> DEFINE g == [i \in 0 .. 0 |-> <<>>]
  <2>1. g = [i \in 0 .. 0 |-> Grown(s, g, i)]
    BY DEF Grown
  <2> HIDE DEF g
  <2> QED BY <1>1, <1>2, <2>1
<1>3. CASE m # 0
  <2>1. m - 1 \in Nat /\ m \in Nat /\ m - 1 \notin T
    BY <1>1, <1>3
  <2>2. PICK g : g = [i \in 0 .. m - 1 |-> Grown(s, g, i)]
    BY <2>1
  <2>r. \A i \in 0 .. m - 1 : g[i] = Grown(s, g, i)
    BY <2>2, Zenon
  <2> DEFINE h == [i \in 0 .. m |-> IF i = m THEN Grown(s, g, m) ELSE g[i]]
  <2>3. \A i \in 0 .. m : h[i] = Grown(s, h, i)
    <3> TAKE i \in 0 .. m
    <3>1. CASE i = m
      BY <3>1, <2>1, <1>3 DEF Grown
    <3>2. CASE i # m
      <4>1. i \in 0 .. m - 1 /\ g[i] = Grown(s, g, i)
        BY <3>2, <2>1, <2>r
      <4>2. Grown(s, g, i) = Grown(s, h, i)
        BY <3>2, <2>1 DEF Grown
      <4> QED BY <4>1, <4>2, <3>2
    <3> QED BY <3>1, <3>2
  <2>4. h = [i \in 0 .. m |-> Grown(s, h, i)]
    <3> HIDE DEF h
    <3>1. h = [i \in 0 .. m |-> h[i]]
      BY DEF h
    <3> QED BY <3>1, <2>3
  <2> HIDE DEF h
  <2> QED BY <2>4, <1>1
<1> QED BY <1>2, <1>3

\* f maps the positions of t to those of s it was taken from.
Selects(t, s, f, n) ==
    /\ f \in [DOMAIN t -> 1 .. n]
    /\ \A j, k \in DOMAIN t : f[j] = f[k] => j = k
    /\ \A k \in DOMAIN t : t[k] = s[f[k]]
    /\ \A i \in 1 .. n : Kept(s[i]) => \E k \in DOMAIN t : f[k] = i

\* What save writes is a selection of the records, in which every kept one occurs.
LEMMA SavedSelects ==
    ASSUME NEW S, NEW s \in Seq(S)
    PROVE  /\ Saved(s) \in Seq(S)
           /\ \E f : Selects(Saved(s), s, f, Len(s))
<1> DEFINE kept == CHOOSE g : g = [i \in 0 .. Len(s) |-> Grown(s, g, i)]
           T == {i \in 0 .. Len(s) : ~(kept[i] \in Seq(S) /\ \E f : Selects(kept[i], s, f, i))}
<1>l. Len(s) \in Nat
  OBVIOUS
<1>e. \E g : g = [i \in 0 .. Len(s) |-> Grown(s, g, i)]
  BY <1>l, GrownExists
<1>1. kept = [i \in 0 .. Len(s) |-> Grown(s, kept, i)]
  BY <1>e, Zenon
<1>2. Saved(s) = kept[Len(s)]
  BY DEF Saved, Grown
<1> HIDE DEF kept
<1>3. \A i \in 0 .. Len(s) : kept[i] = Grown(s, kept, i)
  BY <1>1
<1> SUFFICES ASSUME T # {} PROVE FALSE
  BY <1>2
<1>4. PICK n \in T : \A k \in T : n <= k
  <2> T \in SUBSET Nat
    OBVIOUS
  <2> HIDE DEF T
  <2> QED BY LeastNatural
<1>n. n \in 0 .. Len(s) /\ ~(kept[n] \in Seq(S) /\ \E f : Selects(kept[n], s, f, n))
  BY <1>4
<1>m. \A k \in 0 .. Len(s) : k < n => kept[k] \in Seq(S) /\ \E f : Selects(kept[k], s, f, k)
  BY <1>4, <1>l
<1> HIDE DEF T
<1>5. CASE n = 0
  <2>1. kept[0] = <<>>
    BY <1>3 DEF Grown
  <2>2. Selects(<<>>, s, <<>>, 0)
    BY DEF Selects
  <2> QED BY <1>n, <1>5, <2>1, <2>2
<1>6. CASE n # 0
  <2>1. n - 1 \in 0 .. Len(s) /\ n \in 1 .. Len(s) /\ n \in Nat /\ n - 1 < n
    BY <1>n, <1>6, <1>l
  <2>2. kept[n - 1] \in Seq(S)
    BY <2>1, <1>m
  <2>3. PICK f : Selects(kept[n - 1], s, f, n - 1)
    BY <2>1, <1>m
  <2>4. CASE ~Kept(s[n])
    <3>1. kept[n] = kept[n - 1]
      BY <1>3, <2>1, <2>4, <1>6 DEF Grown
    <3>2. Selects(kept[n - 1], s, f, n)
      BY <2>1, <2>3, <2>4 DEF Selects
    <3> QED BY <1>n, <2>2, <3>1, <3>2
  <2>5. CASE Kept(s[n])
    <3> DEFINE t == kept[n - 1]
               u == Append(t, s[n])
               g == [k \in 1 .. Len(t) + 1 |-> IF k = Len(t) + 1 THEN n ELSE f[k]]
    <3>1. kept[n] = u
      BY <1>3, <1>n, <2>5, <1>6 DEF Grown
    <3>2. u \in Seq(S) /\ DOMAIN u = 1 .. Len(t) + 1 /\ DOMAIN t = 1 .. Len(t) /\ Len(t) \in Nat
      BY <2>1, <2>2
    <3>a. \A k \in 1 .. Len(t) : u[k] = t[k] /\ g[k] = f[k]
      BY <2>2, <3>2
    <3>b. f \in [1 .. Len(t) -> 1 .. n - 1]
      BY <2>3, <3>2 DEF Selects
    <3>3. \A k \in 1 .. Len(t) : u[k] = t[k] /\ g[k] = f[k] /\ f[k] \in 1 .. n - 1
      BY <3>a, <3>b
    <3>4. u[Len(t) + 1] = s[n] /\ g[Len(t) + 1] = n
      BY <2>1, <2>2
    <3>f. Selects(t, s, f, n - 1)
      BY <2>3
    <3> HIDE DEF t, u, g
    <3>g. \A k \in 1 .. Len(t) + 1 : k \in 1 .. Len(t) \/ k = Len(t) + 1
      BY <3>2
    <3>5. g \in [DOMAIN u -> 1 .. n]
      <4>1. \A k \in 1 .. Len(t) + 1 : g[k] \in 1 .. n
        BY <3>g, <3>3, <3>4, <2>1
      <4>2. g = [k \in 1 .. Len(t) + 1 |-> g[k]]
        BY DEF g
      <4> QED BY <4>1, <4>2, <3>2
    <3>6. \A j, k \in DOMAIN u : g[j] = g[k] => j = k
      <4>1. \A j, k \in 1 .. Len(t) : f[j] = f[k] => j = k
        BY <3>f, <3>2 DEF Selects
      <4>2. \A j \in 1 .. Len(t) : g[j] # n
        BY <3>3, <2>1
      <4> QED BY <4>1, <4>2, <3>g, <3>3, <3>4, <3>2
    <3>7. \A k \in DOMAIN u : u[k] = s[g[k]]
      BY <3>2, <3>3, <3>4, <3>f DEF Selects
    <3>8. \A i \in 1 .. n : Kept(s[i]) => \E k \in DOMAIN u : g[k] = i
      <4> SUFFICES ASSUME NEW i \in 1 .. n, Kept(s[i]) PROVE \E k \in DOMAIN u : g[k] = i
        OBVIOUS
      <4>1. CASE i = n
        BY <4>1, <3>2, <3>4
      <4>2. CASE i # n
        <5>1. PICK k \in DOMAIN t : f[k] = i
          BY <4>2, <2>1, <3>f DEF Selects
        <5> QED BY <5>1, <3>2, <3>3
      <4> QED BY <4>1, <4>2
    <3>9. Selects(u, s, g, n)
      BY <3>5, <3>6, <3>7, <3>8 DEF Selects
    <3> QED BY <1>n, <3>1, <3>2, <3>9
  <2> QED BY <2>4, <2>5
<1> QED BY <1>5, <1>6

----------------------------------------------------------------------------
(* The inductive invariant. *)

\* The records of a ledger are of issued leases, one for each, and those of leases reported
\* as revoked keep nothing.
Sound(s, leases, gone) ==
    /\ \A i \in DOMAIN s :
        /\ s[i].n \in 1 .. Len(leases)
        /\ s[i].backend = leases[s[i].n].backend
        /\ s[i].hash = leases[s[i].n].hash
        /\ s[i].n \in gone => s[i].revoked /\ s[i].cached = "none"
    /\ \A i, j \in DOMAIN s : s[i].n = s[j].n => i = j

\* t still has record r, perhaps marked as revoked.
Has(t, r) ==
    \E j \in DOMAIN t : /\ t[j].n = r.n /\ t[j].expires = r.expires /\ t[j].created = r.created
                        /\ r.revoked => t[j].revoked

\* Who has loaded the ledger holds the lock.
LockInv ==
    \A p \in Process :
        (\/ pc[p] \in {"revoke", "mark", "clean", "save"}
         \/ pc[p] \in {"create", "record"} /\ op[p].kind = "create"
         \/ mem[p] # <<>>) => lock = p

\* What each command does, and the positions it has still to revoke.
OpInv ==
    \A p \in Process :
        /\ pc[p] # "idle" => op[p] \in Operations
        /\ pc[p] \in {"precheck", "check", "decrypt"} => op[p].kind \in {"exec", "get"}
        /\ pc[p] \in {"create", "record"} => op[p].kind \in {"exec", "get", "create"}
        /\ pc[p] = "lock" => op[p].kind \in {"create", "revoke", "cleanup"}
        /\ pc[p] \in {"revoke", "mark"} => op[p].kind = "revoke"
        /\ pc[p] \in {"clean", "save"} => op[p].kind = "cleanup"
        /\ pc[p] # "idle" /\ op[p].kind \in {"exec", "get", "create"} => loaded[p] \in Hash
        /\ todo[p] \subseteq DOMAIN mem[p]
        /\ pc[p] \in {"revoke", "mark", "clean"} => todo[p] # {}

SoundInv == Sound(ledger, issued, revoked) /\ \A p \in Process : Sound(mem[p], issued, revoked)

\* The loaded ledger has whatever the file has.
CoverInv ==
    \A p \in Process : lock = p => \A i \in DOMAIN ledger : Has(mem[p], ledger[i])

\* A lease that is not recorded yet is in no ledger, and nobody else's.
FreshInv ==
    \A p \in Process : pc[p] = "record" =>
        /\ lease[p] \in 1 .. Len(issued)
        /\ lease[p] \notin revoked
        /\ \A i \in DOMAIN ledger : ledger[i].n # lease[p]
        /\ \A q \in Process : \A i \in DOMAIN mem[q] : mem[q][i].n # lease[p]
        /\ \A q \in Process \ {p} : pc[q] = "record" => lease[q] # lease[p]

\* The lease of a process that has one.
HandInv ==
    \A p \in Process :
        /\ seen[p] \subseteq revoked
        /\ pc[p] \in {"idle", "precheck", "check"} => lease[p] = 0
        /\ pc[p] \in {"decrypt", "record", "done"} /\ op[p].kind \in {"exec", "get", "create"} /\ lease[p] # 0 =>
            /\ lease[p] \in 1 .. Len(issued)
            /\ lease[p] \notin seen[p]
            /\ issued[lease[p]].backend = op[p].backend
            /\ issued[lease[p]].hash \in {loaded[p], None}

IInv == TypeOK /\ LockInv /\ OpInv /\ SoundInv /\ CoverInv /\ FreshInv /\ HandInv

----------------------------------------------------------------------------
(* Facts about marking, saving and choosing. *)

\* The next position of a command that has one is a position of its ledger.
LEMMA FirstChosen ==
    ASSUME IInv, NEW p \in Process, todo[p] # {}
    PROVE  First(todo[p]) \in todo[p] /\ First(todo[p]) \in DOMAIN mem[p]
<1>1. todo[p] \in SUBSET Nat /\ todo[p] \subseteq DOMAIN mem[p]
  BY DEF IInv, TypeOK, OpInv
<1>2. \E i \in todo[p] : \A j \in todo[p] : i <= j
  BY <1>1, LeastNatural
<1>3. First(todo[p]) \in todo[p]
  BY <1>2 DEF First
<1> QED BY <1>1, <1>3

\* mark_revoked_at changes one record, and of that only `revoked` and `cached`.
LEMMA Marked ==
    ASSUME NEW s \in Seq(LeaseRecord), NEW i \in DOMAIN s
    PROVE  LET t == mark_revoked_at(s, i)
           IN  /\ t \in Seq(LeaseRecord)
               /\ DOMAIN t = DOMAIN s
               /\ \A j \in DOMAIN s :
                    /\ t[j].n = s[j].n /\ t[j].backend = s[j].backend /\ t[j].hash = s[j].hash
                    /\ t[j].id = s[j].id /\ (j # i => t[j] = s[j])
                    /\ t[j].created = s[j].created /\ t[j].expires = s[j].expires
                    /\ s[j].revoked => t[j].revoked
                    /\ s[j].cached = "none" => t[j].cached = "none"
               /\ t[i].revoked /\ t[i].cached = "none"
<1> DEFINE r == [s[i] EXCEPT !.revoked = TRUE, !.cached = "none"]
           t == mark_revoked_at(s, i)
<1>1. DOMAIN s = 1 .. Len(s) /\ Len(s) \in Nat /\ \A j \in DOMAIN s : s[j] \in LeaseRecord
  OBVIOUS
<1>2. r \in LeaseRecord /\ r.n = s[i].n /\ r.id = s[i].id /\ r.backend = s[i].backend /\ r.hash = s[i].hash
      /\ r.created = s[i].created /\ r.expires = s[i].expires /\ r.revoked /\ r.cached = "none"
  BY <1>1 DEF LeaseRecord
<1>3. t = [s EXCEPT ![i] = r]
  BY DEF mark_revoked_at
<1> HIDE DEF r, t
<1>4. t \in Seq(LeaseRecord) /\ DOMAIN t = DOMAIN s
  BY <1>1, <1>2, <1>3
<1>5. \A j \in DOMAIN s : t[j] = IF j = i THEN r ELSE s[j]
  BY <1>3
<1>6. t \in Seq(LeaseRecord) /\ DOMAIN t = DOMAIN s
      /\ (\A j \in DOMAIN s :
            /\ t[j].n = s[j].n /\ t[j].backend = s[j].backend /\ t[j].hash = s[j].hash
            /\ t[j].id = s[j].id /\ (j # i => t[j] = s[j])
            /\ t[j].created = s[j].created /\ t[j].expires = s[j].expires
            /\ s[j].revoked => t[j].revoked
            /\ s[j].cached = "none" => t[j].cached = "none")
      /\ t[i].revoked /\ t[i].cached = "none"
  BY <1>2, <1>4, <1>5
<1> QED BY <1>6 DEF t

\* Marking a record keeps a ledger sound, also when its lease is then reported as revoked.
LEMMA MarkedSound ==
    ASSUME NEW s \in Seq(LeaseRecord), NEW i \in DOMAIN s, NEW leases, NEW gone,
           Sound(s, leases, gone)
    PROVE  /\ Sound(mark_revoked_at(s, i), leases, gone)
           /\ Sound(mark_revoked_at(s, i), leases, gone \union {s[i].n})
<1> DEFINE t == mark_revoked_at(s, i)
<1>1. /\ DOMAIN t = DOMAIN s
      /\ \A j \in DOMAIN s :
            /\ t[j].n = s[j].n /\ t[j].backend = s[j].backend /\ t[j].hash = s[j].hash
            /\ s[j].revoked => t[j].revoked
            /\ s[j].cached = "none" => t[j].cached = "none"
      /\ t[i].revoked /\ t[i].cached = "none"
  BY Marked
<1>2. \A j \in DOMAIN s : s[j].n = s[i].n => j = i
  BY DEF Sound
<1> HIDE DEF t
<1>3. Sound(t, leases, gone)
  BY <1>1 DEF Sound
<1>4. Sound(t, leases, gone \union {s[i].n})
  BY <1>1, <1>2 DEF Sound
<1> QED BY <1>3, <1>4 DEF t

\* Saving keeps a ledger sound.
LEMMA SavedSound ==
    ASSUME NEW s \in Seq(LeaseRecord), NEW leases, NEW gone, Sound(s, leases, gone)
    PROVE  Saved(s) \in Seq(LeaseRecord) /\ Sound(Saved(s), leases, gone)
<1>1. PICK f : Selects(Saved(s), s, f, Len(s))
  BY SavedSelects
<1>2. DOMAIN s = 1 .. Len(s)
  OBVIOUS
<1>3. \A k \in DOMAIN Saved(s) : f[k] \in DOMAIN s /\ Saved(s)[k] = s[f[k]]
  BY <1>1, <1>2 DEF Selects
<1>4. \A j, k \in DOMAIN Saved(s) : f[j] = f[k] => j = k
  BY <1>1 DEF Selects
<1> DEFINE t == Saved(s)
<1>5. ASSUME NEW i \in DOMAIN t
      PROVE  /\ t[i].n \in 1 .. Len(leases) /\ t[i].backend = leases[t[i].n].backend
             /\ t[i].hash = leases[t[i].n].hash
             /\ t[i].n \in gone => t[i].revoked /\ t[i].cached = "none"
  <2>1. f[i] \in DOMAIN s /\ t[i] = s[f[i]]
    BY <1>3
  <2> QED BY <2>1 DEF Sound
<1>6. ASSUME NEW i \in DOMAIN t, NEW j \in DOMAIN t, t[i].n = t[j].n
      PROVE  i = j
  <2>1. f[i] \in DOMAIN s /\ t[i] = s[f[i]] /\ f[j] \in DOMAIN s /\ t[j] = s[f[j]]
    BY <1>3
  <2>2. f[i] = f[j]
    BY <1>6, <2>1 DEF Sound
  <2> QED BY <1>4, <2>2
<1> HIDE DEF t
<1>7. Sound(t, leases, gone)
  BY <1>5, <1>6 DEF Sound
<1> QED BY <1>7, SavedSelects DEF t

\* A saved ledger has no records but those it was made of.
LEMMA SavedWithin ==
    ASSUME NEW s \in Seq(LeaseRecord), NEW i \in DOMAIN Saved(s)
    PROVE  \E j \in DOMAIN s : Saved(s)[i] = s[j]
<1>1. PICK f : Selects(Saved(s), s, f, Len(s))
  BY SavedSelects
<1> QED BY <1>1 DEF Selects

\* A kept record is still there after saving.
LEMMA SavedKeeps ==
    ASSUME NEW s \in Seq(LeaseRecord), NEW i \in DOMAIN s, Kept(s[i])
    PROVE  \E j \in DOMAIN Saved(s) : Saved(s)[j] = s[i]
<1>1. PICK f : Selects(Saved(s), s, f, Len(s))
  BY SavedSelects
<1> QED BY <1>1 DEF Selects

\* Marking loses no record.
LEMMA MarkedHas ==
    ASSUME NEW s \in Seq(LeaseRecord), NEW i \in DOMAIN s, NEW r, Has(s, r)
    PROVE  Has(mark_revoked_at(s, i), r)
  BY Marked DEF Has

\* What a sequence has, its saved form's records included.
LEMMA SavedHas ==
    ASSUME NEW s \in Seq(LeaseRecord), NEW i \in DOMAIN Saved(s)
    PROVE  Has(s, Saved(s)[i])
  BY SavedWithin DEF Has
----------------------------------------------------------------------------
(* Every step keeps the invariant. *)

\* The invariant holds at the start.
LEMMA InitKeeps == Init => IInv
<1> SUFFICES ASSUME Init PROVE IInv
  OBVIOUS
<1>1. TypeOK
  BY LeaseLedgerAssumption DEF Init, TypeOK
<1>2. LockInv /\ OpInv /\ CoverInv /\ FreshInv /\ HandInv
  BY DEF Init, LockInv, OpInv, CoverInv, FreshInv, HandInv
<1>3. SoundInv
  BY DEF Init, SoundInv, Sound
<1> QED BY <1>1, <1>2, <1>3 DEF IInv

\* Nothing happens.
LEMMA StutterKeeps ==
    ASSUME IInv, UNCHANGED vars
    PROVE  IInv'
  BY DEF IInv, TypeOK, LockInv, OpInv, SoundInv, CoverInv, FreshInv, HandInv, vars

\* Time passes, or the configuration is edited.
LEMMA WorldKeeps ==
    ASSUME IInv, Tick \/ \E b \in Backend, h \in Hash : EditConfig(b, h)
    PROVE  IInv'
<1>1. UNCHANGED <<issued, live, ledger, lock, pc, procVars, revoked, unsure>>
  BY DEF Tick, EditConfig
<1>2. clock' \in Nat /\ hash' \in [Backend -> Hash]
  <2>1. CASE Tick
    BY <2>1 DEF Tick, IInv, TypeOK
  <2>2. CASE \E b \in Backend, h \in Hash : EditConfig(b, h)
    BY <2>2 DEF EditConfig, IInv, TypeOK
  <2> QED BY <2>1, <2>2
<1> QED BY <1>1, <1>2 DEF IInv, TypeOK, LockInv, OpInv, SoundInv, CoverInv, FreshInv, HandInv, procVars

\* A command begins.
LEMMA BeginKeeps ==
    ASSUME IInv, NEW p \in Process, NEW o \in Operations, Begin(p, o)
    PROVE  IInv'
<1>1. /\ o \in Operation /\ o.kind \in {"exec", "get", "create", "revoke", "cleanup"}
      /\ o.kind \in {"exec", "get", "create"} => o.backend \in Backend /\ o.backend # None
      /\ o.backend # None => o.backend \in Backend
  BY LeaseLedgerAssumption DEF Operation
<1>2. /\ UNCHANGED <<clock, hash, issued, live, ledger, lock, mem, todo, lease, revoked, unsure>>
      /\ pc[p] = "idle"
      /\ op' = [op EXCEPT ![p] = o]
      /\ loaded' = [loaded EXCEPT ![p] = IF o.backend = None THEN None ELSE hash[o.backend]]
      /\ seen' = [seen EXCEPT ![p] = revoked]
  BY DEF Begin
<1>3. PICK m \in BOOLEAN : missing' = [missing EXCEPT ![p] = m]
  BY DEF Begin
<1>4. PICK at \in {"precheck", "check", "lock"} :
         /\ pc' = [pc EXCEPT ![p] = at]
         /\ at # "lock" => o.kind \in {"exec", "get"}
         /\ at = "lock" => o.kind \in {"create", "revoke", "cleanup"}
  BY <1>1 DEF Begin
<1>5. TypeOK'
  BY <1>1, <1>2, <1>3, <1>4 DEF IInv, TypeOK
<1>6. LockInv'
  BY <1>2, <1>4 DEF IInv, TypeOK, LockInv
<1>7. OpInv'
  BY <1>1, <1>2, <1>4 DEF IInv, TypeOK, OpInv
<1>8. SoundInv' /\ CoverInv'
  BY <1>2 DEF IInv, SoundInv, CoverInv
<1>9. FreshInv'
  BY <1>2, <1>4 DEF IInv, TypeOK, FreshInv
<1>10. HandInv'
  BY <1>2, <1>4 DEF IInv, TypeOK, HandInv
<1> QED BY <1>5, <1>6, <1>7, <1>8, <1>9, <1>10 DEF IInv

\* A process ends.
LEMMA ReturnKeeps ==
    ASSUME IInv, NEW p \in Process, Return(p)
    PROVE  IInv'
<1>1. TypeOK'
  BY DEF IInv, TypeOK, Return
<1>2. LockInv'
  BY DEF IInv, TypeOK, LockInv, Return
<1>3. OpInv'
  BY DEF IInv, TypeOK, OpInv, Return
<1>4. SoundInv' /\ CoverInv'
  BY DEF IInv, SoundInv, CoverInv, Return
<1>5. FreshInv'
  BY DEF IInv, TypeOK, FreshInv, Return
<1>6. HandInv'
  BY DEF IInv, TypeOK, HandInv, Return
<1> QED BY <1>1, <1>2, <1>3, <1>4, <1>5, <1>6 DEF IInv
\* An empty ledger is sound.
LEMMA EmptySound ==
    ASSUME NEW leases, NEW gone
    PROVE  Sound(<<>>, leases, gone)
  BY DEF Sound

\* A process leaves its command, perhaps having written the ledger.
LEMMA LeaveKeeps ==
    ASSUME IInv, NEW p \in Process, NEW outcome \in {"done", "failed"}, Leave(p, outcome),
           pc[p] # "idle",
           UNCHANGED <<clock, hash, issued, live, commandVars>>,
           ledger' \in Seq(LeaseRecord), Sound(ledger', issued, revoked'),
           revoked \subseteq revoked', revoked' \subseteq 1 .. Len(issued),
           unsure' \subseteq 1 .. Len(issued),
           lock \in {None, p} \/ UNCHANGED <<ledger, revoked>>,
           \A q \in Process \ {p} : pc[q] = "record" =>
               lease[q] \notin revoked' /\ \A i \in DOMAIN ledger' : ledger'[i].n # lease[q],
           outcome = "done" /\ op[p].kind \in {"exec", "get", "create"} /\ lease[p] # 0 =>
               pc[p] \in {"decrypt", "record"}
    PROVE  IInv'
<1>1. /\ pc' = [pc EXCEPT ![p] = outcome]
      /\ lock' = IF lock = p THEN None ELSE lock
      /\ mem' = [mem EXCEPT ![p] = <<>>]
      /\ todo' = [todo EXCEPT ![p] = {}]
      /\ UNCHANGED <<op, missing, loaded, lease, seen>>
  BY DEF Leave, commandVars
<1>2. \A q \in Process : /\ pc'[q] = IF q = p THEN outcome ELSE pc[q]
                         /\ mem'[q] = IF q = p THEN <<>> ELSE mem[q]
                         /\ todo'[q] = IF q = p THEN {} ELSE todo[q]
  BY <1>1 DEF IInv, TypeOK
<1>3. TypeOK'
  <2>1. <<>> \in Seq(LeaseRecord)
    OBVIOUS
  <2> QED BY <1>1, <2>1 DEF IInv, TypeOK
<1>4. LockInv'
  <2> SUFFICES ASSUME NEW q \in Process,
                      \/ pc'[q] \in {"revoke", "mark", "clean", "save"}
                      \/ pc'[q] \in {"create", "record"} /\ op'[q].kind = "create"
                      \/ mem'[q] # <<>>
               PROVE  lock' = q
    BY DEF LockInv
  <2>1. q # p
    BY <1>2
  <2>2. lock = q
    BY <1>1, <1>2, <2>1 DEF IInv, LockInv
  <2> QED BY <1>1, <2>1, <2>2
<1>5. OpInv'
  BY <1>1, <1>2 DEF IInv, OpInv
<1>6. \A q \in Process : q # p => Sound(mem[q], issued, revoked')
  <2> SUFFICES ASSUME NEW q \in Process, q # p PROVE Sound(mem[q], issued, revoked')
    OBVIOUS
  <2>1. CASE UNCHANGED revoked
    BY <2>1 DEF IInv, SoundInv
  <2>2. CASE lock \in {None, p}
    <3>1. lock # q
      BY <2>2, LeaseLedgerAssumption
    <3>2. mem[q] = <<>>
      BY <3>1 DEF IInv, LockInv
    <3> QED BY <3>2, EmptySound
  <2> QED BY <2>1, <2>2
<1>7. SoundInv'
  BY <1>2, <1>6, EmptySound DEF IInv, SoundInv
<1>8. CoverInv'
  <2> SUFFICES ASSUME NEW q \in Process, lock' = q, NEW i \in DOMAIN ledger'
               PROVE  Has(mem'[q], ledger'[i])
    BY DEF CoverInv
  <2>1. q # p /\ lock = q /\ lock \notin {None, p} /\ UNCHANGED ledger
    BY <1>1, LeaseLedgerAssumption
  <2> QED BY <1>2, <2>1 DEF IInv, CoverInv
<1>9. FreshInv'
  BY <1>1, <1>2 DEF IInv, FreshInv
<1>10. HandInv'
  <2>1. UNCHANGED <<op, loaded, lease, seen, issued>> /\ revoked \subseteq revoked' /\ HandInv
    BY <1>1 DEF IInv
  <2>2. \A q \in Process : q # p => pc'[q] = pc[q]
    BY <1>2
  <2>3. /\ pc'[p] \in {"done", "failed"}
        /\ pc'[p] = "done" /\ op[p].kind \in {"exec", "get", "create"} /\ lease[p] # 0 =>
             pc[p] \in {"decrypt", "record"}
    BY <1>2
  <2> QED BY ONLY <2>1, <2>2, <2>3 DEF HandInv
<1> QED BY <1>3, <1>4, <1>5, <1>7, <1>8, <1>9, <1>10 DEF IInv
\* Process p holds the lock, or takes it, and goes on at `at` with s in memory and the
\* positions T to deal with, having perhaps written the ledger.
Holds(p, at, s, T) ==
    /\ pc[p] # "idle" /\ lock \in {None, p} /\ lock' = p
    /\ at \in {"create", "revoke", "mark", "clean", "save"}
    /\ at = "create" => op[p].kind = "create"
    /\ at \in {"revoke", "mark"} => op[p].kind = "revoke"
    /\ at \in {"clean", "save"} => op[p].kind = "cleanup"
    /\ at \in {"revoke", "mark", "clean"} => T # {}
    /\ pc' = [pc EXCEPT ![p] = at] /\ mem' = [mem EXCEPT ![p] = s] /\ todo' = [todo EXCEPT ![p] = T]
    /\ s \in Seq(LeaseRecord) /\ T \in SUBSET DOMAIN s
    /\ UNCHANGED <<clock, hash, issued, commandVars, unsure>> /\ live' \subseteq live
    /\ ledger' \in Seq(LeaseRecord)
    /\ Sound(ledger', issued, revoked') /\ Sound(s, issued, revoked')
    /\ \A i \in DOMAIN ledger' : Has(s, ledger'[i])
    /\ revoked \subseteq revoked' /\ revoked' \subseteq 1 .. Len(issued)
    /\ \A q \in Process : pc[q] = "record" =>
          /\ lease[q] \notin revoked'
          /\ \A i \in DOMAIN ledger' : ledger'[i].n # lease[q]
          /\ \A i \in DOMAIN s : s[i].n # lease[q]

\* Such a step keeps the invariant: nobody else has loaded the ledger.
LEMMA HoldKeeps ==
    ASSUME IInv, NEW p \in Process, NEW at, NEW s, NEW T, Holds(p, at, s, T)
    PROVE  IInv'
<1> USE DEF Holds
<1>1. UNCHANGED <<op, missing, loaded, lease, seen>>
  BY DEF commandVars
<1>2. \A q \in Process : /\ pc'[q] = IF q = p THEN at ELSE pc[q]
                         /\ mem'[q] = IF q = p THEN s ELSE mem[q]
                         /\ todo'[q] = IF q = p THEN T ELSE todo[q]
  BY DEF IInv, TypeOK
<1>3. \A q \in Process : q # p => lock # q /\ mem[q] = <<>>
  BY LeaseLedgerAssumption DEF IInv, LockInv
<1>4. TypeOK'
  <2>1. T \in SUBSET Nat
    OBVIOUS
  <2> QED BY <1>1, <2>1 DEF IInv, TypeOK
<1>5. LockInv'
  BY <1>1, <1>2, <1>3 DEF IInv, LockInv
<1>6. OpInv'
  BY <1>1, <1>2 DEF IInv, OpInv
<1>7. SoundInv'
  BY <1>2, <1>3, EmptySound DEF IInv, SoundInv
<1>8. CoverInv'
  BY <1>2 DEF CoverInv
<1>9. FreshInv'
  BY <1>1, <1>2, <1>3 DEF IInv, FreshInv
<1>10. HandInv'
  <2>1. UNCHANGED <<op, loaded, lease, seen, issued>> /\ revoked \subseteq revoked' /\ HandInv
    BY <1>1 DEF IInv
  <2>2. \A q \in Process : q # p => pc'[q] = pc[q]
    BY <1>2
  <2>3. pc'[p] \in {"create", "revoke", "mark", "clean", "save"}
    BY <1>2
  <2> QED BY ONLY <2>1, <2>2, <2>3 DEF HandInv
<1> QED BY <1>4, <1>5, <1>6, <1>7, <1>8, <1>9, <1>10 DEF IInv

\* exec and get look for a lease to reuse: only pc changes, or lease as well.
LEMMA PreCheckKeeps ==
    ASSUME IInv, NEW p \in Process, PreCheck(p)
    PROVE  IInv'
<1>1. /\ pc[p] = "precheck" /\ pc' \in {[pc EXCEPT ![p] = "check"], [pc EXCEPT ![p] = "done"]}
      /\ UNCHANGED <<clock, hash, issued, live, ledger, lock, op, missing, loaded, mem, todo, lease,
                     seen, revoked, unsure>>
  BY DEF PreCheck, procVars
<1>2. TypeOK' /\ SoundInv' /\ CoverInv'
  BY <1>1 DEF IInv, TypeOK, SoundInv, CoverInv
<1>3. LockInv' /\ OpInv'
  BY <1>1 DEF IInv, TypeOK, LockInv, OpInv
<1>4. FreshInv' /\ HandInv'
  BY <1>1 DEF IInv, TypeOK, FreshInv, HandInv
<1> QED BY <1>2, <1>3, <1>4 DEF IInv

\* Of any records some outlives all others, and comes last of those that do: there is no
\* least number of records of which this is false.
Best(s, R, i) == \A j \in R : ~Outlives(s[j], s[i]) /\ (j > i => Outlives(s[i], s[j]))

\* A best record exists among any that are not none.
LEMMA BestExists ==
    ASSUME NEW s \in Seq(LeaseRecord), NEW R \in SUBSET DOMAIN s, R # {}
    PROVE  \E i \in R : Best(s, R, i)
<1> DEFINE Upto(n) == {i \in R : i <= n}
           T == {n \in Nat : Upto(n) # {} /\ ~ \E i \in Upto(n) : Best(s, Upto(n), i)}
<1>1. Len(s) \in Nat /\ DOMAIN s = 1 .. Len(s) /\ Upto(Len(s)) = R
  OBVIOUS
<1>2. \A i \in R : s[i].expires \in Nat \/ s[i].expires = None
  <2>1. \A i \in R : s[i] \in LeaseRecord
    OBVIOUS
  <2>2. \A r \in LeaseRecord : r.expires \in Nat \/ r.expires = None
    BY DEF LeaseRecord, Expiry
  <2> QED BY <2>1, <2>2
<1>o. \A i \in R : ~Outlives(s[i], s[i])
  BY <1>2 DEF Outlives
<1>p. \A i, j, k \in R : ~Outlives(s[i], s[j]) /\ ~Outlives(s[j], s[k]) => ~Outlives(s[i], s[k])
  <2> SUFFICES ASSUME NEW i \in R, NEW j \in R, NEW k \in R,
                      ~Outlives(s[i], s[j]), Outlives(s[i], s[k])
               PROVE  Outlives(s[j], s[k])
    OBVIOUS
  <2> DEFINE x == s[i].expires
             y == s[j].expires
             z == s[k].expires
  <2>1. (x \in Nat \/ x = None) /\ (y \in Nat \/ y = None) /\ (z \in Nat \/ z = None)
    BY <1>2
  <2>2. (y = None \/ (x # None /\ ~(x > y))) /\ z # None /\ (x = None \/ x > z)
    BY DEF Outlives
  <2> HIDE DEF x, y, z
  <2>3. y = None \/ y > z
    BY <2>1, <2>2
  <2> QED BY <2>2, <2>3 DEF Outlives, x, y, z
<1> SUFFICES ASSUME T # {} PROVE FALSE
  BY <1>1
<1>3. PICK n \in T : \A m \in T : n <= m
  <2> T \in SUBSET Nat
    OBVIOUS
  <2> HIDE DEF T
  <2> QED BY LeastNatural
<1>4. n \in Nat /\ n # 0 /\ n - 1 \in Nat /\ n - 1 \notin T /\ Upto(n) # {}
  <2>1. n \in Nat /\ Upto(n) # {}
    BY <1>3
  <2>2. n # 0
    BY <1>1, <2>1
  <2>3. n - 1 \notin T
    <3> HIDE DEF T
    <3> QED BY <1>3, <2>1
  <2> HIDE DEF T, Upto
  <2> QED BY <2>1, <2>2, <2>3
<1>5. Upto(n) \subseteq Upto(n - 1) \union {n} /\ Upto(n - 1) \subseteq Upto(n)
      /\ Upto(n - 1) \subseteq R /\ (\A j \in Upto(n - 1) : j < n) /\ (n \in R => n \in Upto(n))
  BY <1>1, <1>4
<1>6. \A j \in R : j \in Nat
  BY <1>1
<1>7. CASE Upto(n - 1) = {}
  <2>1. Upto(n) = {n}
    BY <1>4, <1>5, <1>7
  <2>2. n \in R
    BY <2>1
  <2>3. Best(s, {n}, n)
    BY <1>o, <1>4, <2>2 DEF Best
  <2> QED BY <1>3, <2>1, <2>3
<1>8. CASE Upto(n - 1) # {}
  <2>1. PICK b \in Upto(n - 1) : Best(s, Upto(n - 1), b)
    BY <1>4, <1>8
  <2>2. CASE n \notin R
    <3>1. Upto(n) = Upto(n - 1)
      BY <1>5, <2>2
    <3> QED BY <1>3, <2>1, <3>1
  <2>3. CASE n \in R /\ Outlives(s[b], s[n])
    <3>1. ~Outlives(s[n], s[b])
      BY <1>2, <1>5, <2>1, <2>3, LeaseLedgerAssumption, SMTT(30) DEF Outlives
    <3>2. Best(s, Upto(n), b)
      <4> HIDE DEF Upto
      <4> QED BY <1>5, <2>1, <2>3, <3>1 DEF Best
    <3> QED BY <1>3, <1>5, <2>1, <3>2
  <2>4. CASE n \in R /\ ~Outlives(s[b], s[n])
    <3>1. \A j \in Upto(n - 1) : ~Outlives(s[j], s[n])
      <4> TAKE j \in Upto(n - 1)
      <4>1. ~Outlives(s[j], s[b]) /\ j \in R /\ b \in R /\ n \in R
        BY <1>5, <2>1, <2>4 DEF Best
      <4> QED BY <1>p, <2>4, <4>1
    <3>2. ~Outlives(s[n], s[n])
      BY <1>o, <2>4
    <3>3. \A j \in Upto(n) : ~Outlives(s[j], s[n]) /\ ~(j > n)
      <4> HIDE DEF Upto
      <4> QED BY <1>4, <1>5, <1>6, <3>1, <3>2
    <3>4. Best(s, Upto(n), n)
      BY <3>3 DEF Best
    <3> QED BY <1>3, <1>5, <2>4, <3>4
  <2> QED BY <2>2, <2>3, <2>4
<1> QED BY <1>7, <1>8

\* find_reusable chooses one of the records that may be reused, if there is one.
LEMMA FoundReusable ==
    ASSUME NEW s \in Seq(LeaseRecord), NEW b, NEW h, Reusable(s, b, h) # {}
    PROVE  find_reusable(s, b, h) \in Reusable(s, b, h)
<1>1. Reusable(s, b, h) \in SUBSET DOMAIN s
  BY DEF Reusable
<1>2. \E i \in Reusable(s, b, h) : Best(s, Reusable(s, b, h), i)
  BY <1>1, BestExists
<1> QED BY <1>2 DEF find_reusable, Best

\* resolve_lease copies an entry that is not revoked, so it was not reported as revoked
\* before the process began, and that was made with the configuration it loaded.
LEMMA CheckCacheKeeps ==
    ASSUME IInv, NEW p \in Process, CheckCache(p)
    PROVE  IInv'
<1>1. /\ pc[p] = "check" /\ lease[p] = 0 /\ op[p].kind \in {"exec", "get"}
      /\ UNCHANGED <<clock, hash, issued, live, ledger, lock, op, missing, loaded, mem, todo,
                     revoked, seen, unsure>>
  BY DEF CheckCache, IInv, HandInv, OpInv
<1>a. pc' \in {[pc EXCEPT ![p] = "create"], [pc EXCEPT ![p] = "decrypt"], [pc EXCEPT ![p] = "done"]}
  BY DEF CheckCache
<1>2. PICK n \in Nat :
         /\ lease' = [lease EXCEPT ![p] = n]
         /\ n # 0 => /\ n \in 1 .. Len(issued) /\ n \notin revoked
                     /\ issued[n].backend = op[p].backend /\ issued[n].hash \in {loaded[p], None}
  <2>1. CASE Reusable(ledger, op[p].backend, loaded[p]) = {}
    <3>1. lease' = lease
      BY <2>1 DEF CheckCache
    <3>2. lease = [lease EXCEPT ![p] = 0]
      BY <1>1 DEF IInv, TypeOK
    <3> QED BY <3>1, <3>2
  <2>2. CASE Reusable(ledger, op[p].backend, loaded[p]) # {}
    <3> DEFINE i == find_reusable(ledger, op[p].backend, loaded[p])
               r == ledger[i]
    <3>1. i \in Reusable(ledger, op[p].backend, loaded[p])
      BY <2>2, FoundReusable DEF IInv, TypeOK
    <3>2. lease' = [lease EXCEPT ![p] = r.n]
      BY <2>2 DEF CheckCache
    <3> HIDE DEF i
    <3>3. i \in DOMAIN ledger /\ r.backend = op[p].backend /\ r.hash \in {loaded[p], None} /\ ~r.revoked
      BY <3>1 DEF Reusable, is_reusable
    <3>4. /\ r.n \in 1 .. Len(issued) /\ r.n \notin revoked
          /\ issued[r.n].backend = r.backend /\ issued[r.n].hash = r.hash
      BY <3>3 DEF IInv, SoundInv, Sound
    <3> HIDE DEF r
    <3>5. r.n \in Nat
      BY <3>4
    <3> QED BY <3>2, <3>3, <3>4, <3>5
  <2> QED BY <2>1, <2>2
<1>3. TypeOK' /\ SoundInv' /\ CoverInv'
  BY <1>1, <1>a, <1>2 DEF IInv, TypeOK, SoundInv, CoverInv
<1>4. LockInv' /\ OpInv'
  BY <1>1, <1>a, <1>2 DEF IInv, TypeOK, LockInv, OpInv
<1>5. FreshInv'
  BY <1>1, <1>a, <1>2 DEF IInv, TypeOK, FreshInv
<1>6. HandInv'
  BY <1>1, <1>a, <1>2 DEF IInv, TypeOK, HandInv
<1> QED BY <1>3, <1>4, <1>5, <1>6 DEF IInv

\* The cached credentials are decrypted, or a lease is created after all.
LEMMA DecryptKeeps ==
    ASSUME IInv, NEW p \in Process, Decrypt(p)
    PROVE  IInv'
<1>1. /\ pc[p] = "decrypt" /\ op[p].kind \in {"exec", "get"}
      /\ UNCHANGED <<clock, hash, issued, live, ledger, lock, op, missing, loaded, mem, todo,
                     revoked, seen, unsure>>
  BY DEF Decrypt, IInv, OpInv
<1>2. PICK at \in {"create", "done"}, n \in Nat :
         /\ pc' = [pc EXCEPT ![p] = at] /\ lease' = [lease EXCEPT ![p] = n]
         /\ n = lease[p] \/ n = 0
  <2>1. lease[p] \in Nat /\ lease = [lease EXCEPT ![p] = lease[p]]
    BY DEF IInv, TypeOK
  <2> QED BY <2>1 DEF Decrypt
<1>3. TypeOK' /\ SoundInv' /\ CoverInv'
  BY <1>1, <1>2 DEF IInv, TypeOK, SoundInv, CoverInv
<1>4. LockInv' /\ OpInv'
  BY <1>1, <1>2 DEF IInv, TypeOK, LockInv, OpInv
<1>5. FreshInv'
  BY <1>1, <1>2 DEF IInv, TypeOK, FreshInv
<1>6. HandInv'
  BY <1>1, <1>2 DEF IInv, TypeOK, HandInv
<1> QED BY <1>3, <1>4, <1>5, <1>6 DEF IInv
\* A ledger stays sound when another lease is issued.
LEMMA IssuedSound ==
    ASSUME NEW leases \in Seq(Lease), NEW l \in Lease, NEW s, NEW gone, Sound(s, leases, gone)
    PROVE  Sound(s, Append(leases, l), gone)
<1>1. /\ Len(leases) \in Nat /\ Len(Append(leases, l)) = Len(leases) + 1
      /\ \A n \in 1 .. Len(leases) : Append(leases, l)[n] = leases[n]
  OBVIOUS
<1>2. \A n \in 1 .. Len(leases) : n \in 1 .. Len(leases) + 1
  BY <1>1
<1> QED BY <1>1, <1>2 DEF Sound

\* A new lease is in nobody's ledger, and has the loaded configuration.
LEMMA CreateLeaseKeeps ==
    ASSUME IInv, NEW p \in Process, CreateLease(p)
    PROVE  IInv'
<1>1. /\ pc[p] = "create" /\ Len(issued) < MaxLease
      /\ lease' = [lease EXCEPT ![p] = Len(issued')] /\ pc' = [pc EXCEPT ![p] = "record"]
      /\ live' = live \union {Len(issued')}
      /\ UNCHANGED <<clock, hash, ledger, lock, op, missing, loaded, mem, todo, revoked, seen, unsure>>
  BY DEF CreateLease
<1>2. op[p] \in Operations /\ op[p].kind \in {"exec", "get", "create"} /\ loaded[p] \in Hash
  BY <1>1 DEF IInv, OpInv
<1>3. op[p].backend \in Backend
  BY <1>2, LeaseLedgerAssumption
<1>4. PICK id \in IdsOf[Len(issued) + 1], expires \in {clock + Duration, None}, h \in {loaded[p], None} :
         issued' = Append(issued, [id |-> id, backend |-> op[p].backend, expires |-> expires,
                                   hash |-> h])
  BY DEF CreateLease, HashKept
<1> DEFINE l == [id |-> id, backend |-> op[p].backend, expires |-> expires, hash |-> h]
           n == Len(issued) + 1
<1>5. n \in Nat /\ Len(issued) \in Nat /\ n \in 1 .. MaxLease
  BY <1>1, LeaseLedgerAssumption, SMTT(30) DEF IInv, TypeOK
<1>6. id \in LeaseId
  BY <1>4, <1>5, LeaseLedgerAssumption
<1>7. expires \in Expiry
  <2>1. clock + Duration \in Nat
    BY LeaseLedgerAssumption DEF IInv, TypeOK
  <2> QED BY <1>4, <2>1 DEF Expiry
<1>8. l \in Lease /\ l.backend = op[p].backend /\ l.hash \in {loaded[p], None}
  BY <1>2, <1>3, <1>6, <1>7 DEF Lease
<1>9. issued' = Append(issued, l)
  BY <1>4
<1> HIDE DEF l
<1>10. /\ issued' \in Seq(Lease) /\ Len(issued') = n /\ issued'[n] = l
       /\ \A m \in 1 .. Len(issued) : issued'[m] = issued[m] /\ m \in 1 .. n /\ m # n
       /\ n \in 1 .. n
  BY <1>5, <1>8, <1>9 DEF IInv, TypeOK
<1>11. \A s : Sound(s, issued, revoked) => /\ Sound(s, issued', revoked)
                                           /\ \A i \in DOMAIN s : s[i].n # n
  <2> SUFFICES ASSUME NEW s, Sound(s, issued, revoked)
               PROVE  Sound(s, issued', revoked) /\ \A i \in DOMAIN s : s[i].n # n
    OBVIOUS
  <2>1. Sound(s, issued', revoked)
    BY <1>8, <1>9, IssuedSound DEF IInv, TypeOK
  <2>2. \A i \in DOMAIN s : s[i].n \in 1 .. Len(issued)
    BY DEF Sound
  <2> QED BY <1>10, <2>1, <2>2
<1>12. \A q \in Process : /\ pc'[q] = IF q = p THEN "record" ELSE pc[q]
                          /\ lease'[q] = IF q = p THEN n ELSE lease[q]
  BY <1>1, <1>10 DEF IInv, TypeOK
<1>13. revoked \subseteq 1 .. Len(issued) /\ n \notin revoked
  BY <1>10 DEF IInv, TypeOK
<1>14. TypeOK'
  <2>1. live' \subseteq 1 .. n /\ revoked \subseteq 1 .. n /\ unsure \subseteq 1 .. n
    BY <1>1, <1>10 DEF IInv, TypeOK
  <2>2. lease' \in [Process -> Nat] /\ pc' \in [Process -> {"idle", "precheck", "check", "decrypt",
            "create", "record", "lock", "revoke", "mark", "clean", "save", "done", "failed"}]
    BY <1>1, <1>5, <1>10 DEF IInv, TypeOK
  <2> HIDE DEF n
  <2> QED BY <1>1, <1>10, <2>1, <2>2 DEF IInv, TypeOK
<1>15. LockInv' /\ OpInv'
  BY <1>1, <1>2, <1>12 DEF IInv, LockInv, OpInv
<1>16. SoundInv'
  BY <1>1, <1>11 DEF IInv, SoundInv
<1>17. CoverInv'
  BY <1>1 DEF IInv, CoverInv
<1>18. \A q \in Process : q # p /\ pc[q] = "record" => lease[q] \in 1 .. Len(issued)
  BY DEF IInv, FreshInv
<1>19. FreshInv'
  <2> SUFFICES ASSUME NEW q \in Process, pc'[q] = "record"
               PROVE  /\ lease'[q] \in 1 .. Len(issued')
                      /\ lease'[q] \notin revoked
                      /\ \A i \in DOMAIN ledger : ledger[i].n # lease'[q]
                      /\ \A w \in Process : \A i \in DOMAIN mem[w] : mem[w][i].n # lease'[q]
                      /\ \A w \in Process \ {q} : pc'[w] = "record" => lease'[w] # lease'[q]
    BY <1>1 DEF FreshInv
  <2> HIDE DEF n
  <2>1. CASE q = p
    <3>1. \A w \in Process : \A i \in DOMAIN mem[w] : mem[w][i].n # n
      BY <1>11 DEF IInv, SoundInv
    <3>2. \A i \in DOMAIN ledger : ledger[i].n # n
      BY <1>11 DEF IInv, SoundInv
    <3> QED BY <2>1, <3>1, <3>2, <1>10, <1>12, <1>13, <1>18
  <2>2. CASE q # p
    <3>1. lease'[q] = lease[q] /\ pc[q] = "record" /\ lease[q] \in 1 .. Len(issued)
      BY <2>2, <1>12, <1>18
    <3> QED BY <2>2, <3>1, <1>10, <1>12 DEF IInv, FreshInv
  <2> QED BY <2>1, <2>2
<1>20. HandInv'
  <2> HIDE DEF n
  <2>1. seen[p] \subseteq revoked
    BY DEF IInv, HandInv
  <2> QED BY <1>1, <1>8, <1>10, <1>12, <1>13, <2>1 DEF IInv, HandInv
<1> QED BY <1>14, <1>15, <1>16, <1>17, <1>19, <1>20 DEF IInv

\* A process is killed, or its backend fails.
LEMMA CrashKeeps ==
    ASSUME IInv, NEW p \in Process, Crash(p) \/ CreateFail(p)
    PROVE  IInv'
<1>1. /\ Leave(p, "failed") /\ pc[p] # "idle"
      /\ UNCHANGED <<clock, hash, issued, live, ledger, commandVars, revoked>>
  BY DEF Crash, CreateFail
<1>2. unsure' \subseteq 1 .. Len(issued)
  BY DEF Crash, CreateFail, InHand, IInv, TypeOK
<1>3. /\ ledger' \in Seq(LeaseRecord) /\ Sound(ledger', issued, revoked')
      /\ revoked \subseteq revoked' /\ revoked' \subseteq 1 .. Len(issued)
      /\ \A q \in Process \ {p} : pc[q] = "record" =>
            lease[q] \notin revoked' /\ \A i \in DOMAIN ledger' : ledger'[i].n # lease[q]
  BY <1>1 DEF IInv, TypeOK, SoundInv, FreshInv
<1> QED BY <1>1, <1>2, <1>3, LeaveKeeps
\* A ledger stays sound when a lease that it does not have is added.
LEMMA AddedSound ==
    ASSUME NEW s \in Seq(LeaseRecord), NEW r \in LeaseRecord, NEW leases, NEW gone,
           Sound(s, leases, gone), r.n \in 1 .. Len(leases), r.backend = leases[r.n].backend,
           r.hash = leases[r.n].hash, r.n \notin gone, \A i \in DOMAIN s : s[i].n # r.n
    PROVE  Append(s, r) \in Seq(LeaseRecord) /\ Sound(Append(s, r), leases, gone)
<1> DEFINE t == Append(s, r)
<1>1. /\ t \in Seq(LeaseRecord) /\ DOMAIN t = DOMAIN s \union {Len(s) + 1}
      /\ Len(s) + 1 \notin DOMAIN s
      /\ t[Len(s) + 1] = r /\ \A i \in DOMAIN s : t[i] = s[i]
  OBVIOUS
<1> HIDE DEF t
<1>2. Sound(t, leases, gone)
  BY <1>1 DEF Sound
<1> QED BY <1>1, <1>2 DEF t

\* The ledger that record_lease adds to.
Base(p) == IF op[p].kind = "create" THEN mem[p] ELSE ledger

\* What record_lease writes: a record of the new lease, made with the loaded configuration.
LEMMA Recorded ==
    ASSUME IInv, NEW p \in Process, Record(p), ~UNCHANGED ledger
    PROVE  \E r \in LeaseRecord : /\ ledger' = Saved(Append(Base(p), r))
                                  /\ r.n = lease[p] /\ r.backend = issued[lease[p]].backend
                                  /\ r.hash = issued[lease[p]].hash /\ r.id = issued[lease[p]].id
<1> DEFINE l == issued[lease[p]]
<1>1. pc[p] = "record"
  BY DEF Record
<1>2. lease[p] \in 1 .. Len(issued)
  BY <1>1 DEF IInv, FreshInv
<1>3. op[p].kind \in {"exec", "get", "create"}
  BY <1>1 DEF IInv, OpInv
<1>4. lease[p] \in Nat /\ lease[p] # 0 /\ clock \in Nat /\ issued[lease[p]] \in Lease
  BY <1>2 DEF IInv, TypeOK
<1>5. PICK cached \in {"none", "plain", "encrypted"} :
         ledger' = Saved(Append(Base(p), [n |-> lease[p], id |-> l.id, backend |-> l.backend,
                                          created |-> clock, expires |-> l.expires,
                                          revoked |-> FALSE, cached |-> cached,
                                          hash |-> l.hash]))
  BY DEF Record, Base
<1> DEFINE r == [n |-> lease[p], id |-> l.id, backend |-> l.backend, created |-> clock,
                 expires |-> l.expires, revoked |-> FALSE, cached |-> cached, hash |-> l.hash]
<1>6. /\ r \in LeaseRecord /\ r.n = lease[p] /\ r.backend = l.backend /\ r.hash = l.hash
      /\ r.id = l.id
  BY <1>4 DEF LeaseRecord, Lease
<1>7. ledger' = Saved(Append(Base(p), r))
  BY <1>5
<1> HIDE DEF r
<1> QED BY <1>6, <1>7

\* record_lease adds a record of a lease that no ledger had; a failed save changes nothing.
LEMMA RecordKeeps ==
    ASSUME IInv, NEW p \in Process, Record(p)
    PROVE  IInv'
<1>1. /\ pc[p] = "record" /\ Leave(p, "done") /\ (op[p].kind = "create" \/ lock = None)
      /\ UNCHANGED <<clock, hash, issued, live, commandVars, revoked, unsure>>
  BY DEF Record
<1>2. lock \in {None, p}
  BY <1>1 DEF IInv, LockInv
<1>3. lease[p] \in 1 .. Len(issued) /\ lease[p] \notin revoked
  BY <1>1 DEF IInv, FreshInv
<1>4. /\ Base(p) \in Seq(LeaseRecord) /\ Sound(Base(p), issued, revoked)
      /\ \A q \in Process : pc[q] = "record" => \A i \in DOMAIN Base(p) : Base(p)[i].n # lease[q]
  BY DEF Base, IInv, TypeOK, SoundInv, FreshInv
<1>5. /\ ledger' \in Seq(LeaseRecord) /\ Sound(ledger', issued, revoked)
      /\ \A q \in Process \ {p} : pc[q] = "record" =>
            \A i \in DOMAIN ledger' : ledger'[i].n # lease[q]
  <2>1. CASE UNCHANGED ledger
    BY <2>1 DEF IInv, TypeOK, SoundInv, FreshInv
  <2>2. CASE ~UNCHANGED ledger
    <3>1. PICK r \in LeaseRecord : /\ ledger' = Saved(Append(Base(p), r))
                                   /\ r.n = lease[p] /\ r.backend = issued[lease[p]].backend
                                   /\ r.hash = issued[lease[p]].hash
      BY <2>2, Recorded
    <3> DEFINE t == Append(Base(p), r)
    <3>2. t \in Seq(LeaseRecord) /\ Sound(t, issued, revoked)
      BY <1>1, <1>3, <1>4, <3>1, AddedSound
    <3>3. \A i \in DOMAIN t : t[i] = r \/ (i \in DOMAIN Base(p) /\ t[i] = Base(p)[i])
      BY <1>4, <3>1
    <3> HIDE DEF t
    <3>4. ledger' = Saved(t)
      BY <3>1 DEF t
    <3>5. ledger' \in Seq(LeaseRecord) /\ Sound(ledger', issued, revoked)
      BY <3>2, <3>4, SavedSound
    <3>6. ASSUME NEW q \in Process \ {p}, pc[q] = "record", NEW i \in DOMAIN ledger'
          PROVE  ledger'[i].n # lease[q]
      <4>1. PICK j \in DOMAIN t : ledger'[i] = t[j]
        BY <3>2, <3>4, <3>6, SavedWithin
      <4>2. lease[q] # lease[p]
        BY <1>1, <3>6 DEF IInv, FreshInv
      <4> QED BY <1>4, <3>1, <3>3, <3>6, <4>1, <4>2
    <3> QED BY <3>5, <3>6
  <2> QED BY <2>1, <2>2
<1>6. /\ revoked \subseteq revoked' /\ revoked' \subseteq 1 .. Len(issued)
      /\ unsure' \subseteq 1 .. Len(issued)
      /\ \A q \in Process \ {p} : pc[q] = "record" => lease[q] \notin revoked'
  BY <1>1 DEF IInv, TypeOK, FreshInv
<1> QED BY <1>1, <1>2, <1>5, <1>6, LeaveKeeps

\* The ledger is loaded under the lock, and the records are chosen in it.
LEMMA LockKeeps ==
    ASSUME IInv, NEW p \in Process, Lock(p)
    PROVE  IInv'
<1> DEFINE chosen == CASE op[p].kind = "revoke"  -> Targets(ledger, op[p])
                       [] op[p].kind = "cleanup" -> {i \in DOMAIN ledger : Expired(ledger[i])}
                       [] OTHER -> {}
           next == IF op[p].kind = "create" THEN "create"
                   ELSE IF op[p].kind = "revoke" /\ Refused(ledger, op[p]) THEN "failed"
                   ELSE IF chosen = {} THEN "done"
                   ELSE IF op[p].kind = "revoke" THEN "revoke" ELSE "clean"
<1>1. /\ pc[p] = "lock" /\ lock = None
      /\ UNCHANGED <<clock, hash, issued, live, ledger, commandVars, revoked, unsure>>
      /\ IF next \in {"failed", "done"} THEN Leave(p, next)
         ELSE /\ mem' = [mem EXCEPT ![p] = ledger] /\ todo' = [todo EXCEPT ![p] = chosen]
              /\ pc' = [pc EXCEPT ![p] = next] /\ lock' = p
  BY DEF Lock
<1>2. op[p].kind \in {"create", "revoke", "cleanup"}
  BY <1>1 DEF IInv, OpInv
<1>3. chosen \in SUBSET DOMAIN ledger
  BY <1>2 DEF Targets, ById
<1> HIDE DEF chosen
<1>4. /\ next \in {"failed", "done", "create", "revoke", "clean"}
      /\ next = "create" <=> op[p].kind = "create"
      /\ next = "revoke" => op[p].kind = "revoke" /\ chosen # {}
      /\ next = "clean" => op[p].kind = "cleanup" /\ chosen # {}
  <2>1. CASE op[p].kind = "create"
    BY <2>1
  <2>2. CASE op[p].kind = "revoke"
    BY <2>2
  <2>3. CASE op[p].kind = "cleanup"
    BY <2>3
  <2> QED BY <1>2, <2>1, <2>2, <2>3
<1> HIDE DEF next
<1>5. /\ ledger' = ledger /\ revoked' = revoked /\ unsure' \subseteq 1 .. Len(issued) /\ live' \subseteq live
      /\ ledger \in Seq(LeaseRecord) /\ Sound(ledger, issued, revoked)
      /\ revoked' \subseteq 1 .. Len(issued)
      /\ \A q \in Process : pc[q] = "record" =>
            lease[q] \notin revoked /\ \A i \in DOMAIN ledger : ledger[i].n # lease[q]
  BY <1>1 DEF IInv, TypeOK, SoundInv, FreshInv
<1>6. CASE next \in {"failed", "done"}
  BY <1>1, <1>2, <1>4, <1>5, <1>6, LeaveKeeps
<1>7. CASE next \in {"create", "revoke", "clean"}
  <2>1. \A i \in DOMAIN ledger : Has(ledger, ledger[i])
    BY DEF Has
  <2>2. Holds(p, next, ledger, chosen)
    BY <1>1, <1>3, <1>4, <1>5, <1>7, <2>1 DEF Holds
  <2> QED BY <2>2, HoldKeeps
<1> QED BY <1>4, <1>6, <1>7

\* Whoever revokes or cleans up holds the lock, and has a position to deal with.
LEMMA Revoking ==
    ASSUME IInv, NEW p \in Process, pc[p] \in {"revoke", "mark", "clean", "save"}
    PROVE  /\ lock = p /\ mem[p] \in Seq(LeaseRecord) /\ Sound(mem[p], issued, revoked)
           /\ todo[p] \in SUBSET DOMAIN mem[p]
           /\ pc[p] # "save" => First(todo[p]) \in todo[p] /\ First(todo[p]) \in DOMAIN mem[p]
           /\ \A i \in DOMAIN ledger : Has(mem[p], ledger[i])
           /\ op[p].kind = IF pc[p] \in {"revoke", "mark"} THEN "revoke" ELSE "cleanup"
<1>1. lock = p
  BY DEF IInv, LockInv
<1>2. \A i \in DOMAIN ledger : Has(mem[p], ledger[i])
  BY <1>1 DEF IInv, CoverInv
<1>3. pc[p] # "save" => todo[p] # {}
  BY DEF IInv, OpInv
<1>4. mem[p] \in Seq(LeaseRecord) /\ Sound(mem[p], issued, revoked) /\ todo[p] \in SUBSET DOMAIN mem[p]
  BY DEF IInv, TypeOK, OpInv, SoundInv
<1>5. op[p].kind = IF pc[p] \in {"revoke", "mark"} THEN "revoke" ELSE "cleanup"
  BY DEF IInv, OpInv
<1> QED BY <1>1, <1>2, <1>3, <1>4, <1>5, FirstChosen

\* A position is dealt with: the command goes on with s in memory, or is done.
LEMMA AdvanceKeeps ==
    ASSUME IInv, NEW p \in Process, pc[p] \in {"revoke", "mark"}, NEW s \in Seq(LeaseRecord),
           DOMAIN s = DOMAIN mem[p], Advance(p, First(todo[p]), s, "revoke", "done"),
           UNCHANGED <<clock, hash, issued, live, commandVars, unsure>>,
           ledger' \in Seq(LeaseRecord), Sound(ledger', issued, revoked'), Sound(s, issued, revoked'),
           \A i \in DOMAIN ledger' : Has(s, ledger'[i]),
           revoked \subseteq revoked', revoked' \subseteq 1 .. Len(issued),
           \A q \in Process : pc[q] = "record" =>
               /\ lease[q] \notin revoked'
               /\ \A i \in DOMAIN ledger' : ledger'[i].n # lease[q]
               /\ \A i \in DOMAIN s : s[i].n # lease[q]
    PROVE  IInv'
<1> DEFINE i == First(todo[p])
           T == todo[p] \ {i}
<1>1. lock = p /\ i \in todo[p] /\ todo[p] \in SUBSET DOMAIN mem[p] /\ op[p].kind = "revoke"
  BY Revoking
<1>2. unsure' \subseteq 1 .. Len(issued) /\ live' \subseteq live
  BY DEF IInv, TypeOK
<1>3. CASE todo[p] = {i}
  <2>1. Leave(p, "done")
    BY <1>3 DEF Advance
  <2> QED BY <1>1, <1>2, <2>1, LeaveKeeps
<1>4. CASE todo[p] # {i}
  <2>1. /\ mem' = [mem EXCEPT ![p] = s] /\ todo' = [todo EXCEPT ![p] = T]
        /\ pc' = [pc EXCEPT ![p] = "revoke"] /\ lock' = p
    BY <1>1, <1>4 DEF Advance, IInv, TypeOK
  <2>2. T \in SUBSET DOMAIN s /\ T # {}
    BY <1>1, <1>4
  <2> HIDE DEF T, i
  <2>3. Holds(p, "revoke", s, T)
    BY <1>1, <1>2, <2>1, <2>2 DEF Holds
  <2> QED BY <2>3, HoldKeeps
<1> QED BY <1>3, <1>4

\* The backend is asked to revoke a lease: no ledger changes.
LEMMA RevokeRemoteKeeps ==
    ASSUME IInv, NEW p \in Process, RevokeRemote(p)
    PROVE  IInv'
<1> DEFINE i == First(todo[p])
<1>1. pc[p] = "revoke" /\ UNCHANGED <<clock, hash, issued, ledger, commandVars, revoked, unsure>>
  BY DEF RevokeRemote
<1>2. /\ lock = p /\ mem[p] \in Seq(LeaseRecord) /\ Sound(mem[p], issued, revoked)
      /\ i \in todo[p] /\ todo[p] \in SUBSET DOMAIN mem[p] /\ op[p].kind = "revoke"
      /\ \A j \in DOMAIN ledger : Has(mem[p], ledger[j])
  BY <1>1, Revoking
<1>3. /\ ledger' \in Seq(LeaseRecord) /\ Sound(ledger', issued, revoked') /\ Sound(mem[p], issued, revoked')
      /\ \A j \in DOMAIN ledger' : Has(mem[p], ledger'[j])
      /\ revoked \subseteq revoked' /\ revoked' \subseteq 1 .. Len(issued)
      /\ \A q \in Process : pc[q] = "record" =>
            /\ lease[q] \notin revoked'
            /\ \A j \in DOMAIN ledger' : ledger'[j].n # lease[q]
            /\ \A j \in DOMAIN mem[p] : mem[p][j].n # lease[q]
  BY <1>1, <1>2 DEF IInv, TypeOK, SoundInv, FreshInv
<1>4. CASE mem[p][i].revoked
  <2>1. Advance(p, i, mem[p], "revoke", "done") /\ UNCHANGED live
    BY <1>4 DEF RevokeRemote
  <2> QED BY <1>1, <1>2, <1>3, <2>1, AdvanceKeeps
<1>5. CASE ~mem[p][i].revoked
  <2>1. live' \subseteq live /\ pc' = [pc EXCEPT ![p] = "mark"] /\ UNCHANGED <<mem, todo, lock>>
    BY <1>5 DEF RevokeRemote, RevokeAt
  <2>2. mem' = [mem EXCEPT ![p] = mem[p]] /\ todo' = [todo EXCEPT ![p] = todo[p]]
    BY <2>1 DEF IInv, TypeOK
  <2>3. todo[p] # {} /\ lock' = p /\ lock \in {None, p} /\ pc[p] # "idle"
    BY <1>1, <1>2, <2>1
  <2> HIDE DEF i
  <2>4. Holds(p, "mark", mem[p], todo[p])
    BY <1>1, <1>2, <1>3, <2>1, <2>2, <2>3 DEF Holds
  <2> QED BY <2>4, HoldKeeps
<1> QED BY <1>4, <1>5
\* mark_revoked_at and save: the lease is reported as revoked, and keeps nothing.
LEMMA MarkRevokedKeeps ==
    ASSUME IInv, NEW p \in Process, MarkRevoked(p)
    PROVE  IInv'
<1> DEFINE i == First(todo[p])
           marked == mark_revoked_at(mem[p], i)
<1>1. pc[p] = "mark" /\ UNCHANGED <<clock, hash, issued, live, commandVars>>
  BY DEF MarkRevoked
<1>2. /\ lock = p /\ mem[p] \in Seq(LeaseRecord) /\ Sound(mem[p], issued, revoked)
      /\ i \in DOMAIN mem[p] /\ op[p].kind = "revoke"
  BY <1>1, Revoking
<1>3. CASE Leave(p, "failed") /\ unsure' = unsure \union InHand(p) /\ UNCHANGED <<ledger, revoked>>
  <2>1. unsure' \subseteq 1 .. Len(issued)
    BY <1>3 DEF InHand, IInv, TypeOK
  <2>2. /\ ledger' \in Seq(LeaseRecord) /\ Sound(ledger', issued, revoked')
        /\ revoked \subseteq revoked' /\ revoked' \subseteq 1 .. Len(issued)
        /\ \A q \in Process \ {p} : pc[q] = "record" =>
              lease[q] \notin revoked' /\ \A j \in DOMAIN ledger' : ledger'[j].n # lease[q]
    BY <1>3 DEF IInv, TypeOK, SoundInv, FreshInv
  <2> QED BY <1>1, <1>2, <1>3, <2>1, <2>2, LeaveKeeps
<1>4. CASE /\ ledger' = Saved(marked) /\ revoked' = revoked \union {mem[p][i].n}
           /\ Advance(p, i, marked, "revoke", "done") /\ UNCHANGED unsure
  <2>1. /\ marked \in Seq(LeaseRecord) /\ DOMAIN marked = DOMAIN mem[p]
        /\ \A j \in DOMAIN marked : marked[j].n = mem[p][j].n
    BY <1>2, Marked
  <2>2. Sound(marked, issued, revoked')
    BY <1>2, <1>4, MarkedSound
  <2> HIDE DEF marked
  <2>3. ledger' \in Seq(LeaseRecord) /\ Sound(ledger', issued, revoked')
    BY <1>4, <2>1, <2>2, SavedSound
  <2>4. \A j \in DOMAIN ledger' : Has(marked, ledger'[j])
    BY <1>4, <2>1, SavedHas
  <2>5. revoked \subseteq revoked' /\ revoked' \subseteq 1 .. Len(issued)
    BY <1>2, <1>4 DEF Sound, IInv, TypeOK
  <2>6. ASSUME NEW q \in Process, pc[q] = "record"
        PROVE  /\ lease[q] \notin revoked'
               /\ \A j \in DOMAIN ledger' : ledger'[j].n # lease[q]
               /\ \A j \in DOMAIN marked : marked[j].n # lease[q]
    <3>1. lease[q] \notin revoked /\ \A j \in DOMAIN mem[p] : mem[p][j].n # lease[q]
      BY <2>6 DEF IInv, FreshInv
    <3>2. \A j \in DOMAIN marked : marked[j].n # lease[q]
      BY <2>1, <3>1
    <3>3. \A j \in DOMAIN ledger' : ledger'[j].n # lease[q]
      BY <1>4, <2>1, <3>2, SavedWithin
    <3>4. lease[q] \notin revoked'
      BY <1>2, <1>4, <3>1
    <3> QED BY <3>2, <3>3, <3>4
  <2> QED BY <1>1, <1>4, <2>1, <2>2, <2>3, <2>4, <2>5, <2>6, AdvanceKeeps
<1> QED BY <1>3, <1>4 DEF MarkRevoked

\* cleanup marks a record in memory only.
LEMMA CleanOneKeeps ==
    ASSUME IInv, NEW p \in Process, CleanOne(p)
    PROVE  IInv'
<1> DEFINE i == First(todo[p])
           marked == mark_revoked_at(mem[p], i)
           T == todo[p] \ {i}
           at == IF T = {} THEN "save" ELSE "clean"
<1>1. /\ pc[p] = "clean" /\ UNCHANGED <<clock, hash, issued, ledger, lock, commandVars, revoked, unsure>>
      /\ live' \subseteq live
  BY DEF CleanOne, RevokeAt
<1>2. /\ lock = p /\ mem[p] \in Seq(LeaseRecord) /\ Sound(mem[p], issued, revoked)
      /\ i \in DOMAIN mem[p] /\ op[p].kind = "cleanup" /\ todo[p] \in SUBSET DOMAIN mem[p]
      /\ \A j \in DOMAIN ledger : Has(mem[p], ledger[j])
  BY <1>1, Revoking
<1>3. mem' = [mem EXCEPT ![p] = marked] /\ todo' = [todo EXCEPT ![p] = T]
  BY DEF CleanOne, IInv, TypeOK
<1>4. todo'[p] = T /\ pc' = [pc EXCEPT ![p] = at]
  BY <1>3 DEF CleanOne, IInv, TypeOK
<1>5. /\ marked \in Seq(LeaseRecord) /\ DOMAIN marked = DOMAIN mem[p]
      /\ \A j \in DOMAIN marked : marked[j].n = mem[p][j].n
  BY <1>2, Marked
<1>6. Sound(marked, issued, revoked)
  BY <1>2, MarkedSound
<1>7. \A j \in DOMAIN ledger : Has(marked, ledger[j])
  BY <1>2, MarkedHas
<1>8. T \in SUBSET DOMAIN marked
  BY <1>2, <1>5
<1> HIDE DEF marked
<1>9. /\ ledger' \in Seq(LeaseRecord) /\ Sound(ledger', issued, revoked') /\ revoked' \subseteq 1 .. Len(issued)
      /\ \A q \in Process : pc[q] = "record" =>
            /\ lease[q] \notin revoked'
            /\ \A j \in DOMAIN ledger' : ledger'[j].n # lease[q]
            /\ \A j \in DOMAIN marked : marked[j].n # lease[q]
  <2>1. ledger' \in Seq(LeaseRecord) /\ Sound(ledger', issued, revoked') /\ revoked' \subseteq 1 .. Len(issued)
    BY <1>1 DEF IInv, TypeOK, SoundInv
  <2>2. \A q \in Process : pc[q] = "record" =>
           /\ lease[q] \notin revoked
           /\ \A j \in DOMAIN ledger : ledger[j].n # lease[q]
           /\ \A j \in DOMAIN mem[p] : mem[p][j].n # lease[q]
    BY DEF IInv, FreshInv
  <2> QED BY <1>1, <1>5, <2>1, <2>2
<1>10. at \in {"clean", "save"} /\ (at = "clean" => T # {})
  OBVIOUS
<1> HIDE DEF T, at, i
<1>11. Holds(p, at, marked, T)
  BY <1>1, <1>2, <1>3, <1>4, <1>5, <1>6, <1>7, <1>8, <1>9, <1>10 DEF Holds
<1> QED BY <1>11, HoldKeeps

\* cleanup saves what it marked.
LEMMA CleanSaveKeeps ==
    ASSUME IInv, NEW p \in Process, CleanSave(p)
    PROVE  IInv'
<1>1. pc[p] = "save" /\ UNCHANGED <<clock, hash, issued, live, commandVars, revoked>>
  BY DEF CleanSave
<1>2. /\ lock = p /\ mem[p] \in Seq(LeaseRecord) /\ Sound(mem[p], issued, revoked) /\ op[p].kind = "cleanup"
  BY <1>1, Revoking
<1>3. PICK outcome \in {"done", "failed"} : Leave(p, outcome)
  BY DEF CleanSave
<1>4. ledger' = Saved(mem[p]) \/ UNCHANGED ledger
  BY DEF CleanSave
<1>5. unsure' \subseteq 1 .. Len(issued)
  BY DEF CleanSave, InHand, IInv, TypeOK
<1>6. /\ ledger' \in Seq(LeaseRecord) /\ Sound(ledger', issued, revoked')
      /\ \A q \in Process : pc[q] = "record" => \A j \in DOMAIN ledger' : ledger'[j].n # lease[q]
  <2>1. CASE UNCHANGED ledger
    BY <1>1, <2>1 DEF IInv, TypeOK, SoundInv, FreshInv
  <2>2. CASE ledger' = Saved(mem[p])
    <3>1. ledger' \in Seq(LeaseRecord) /\ Sound(ledger', issued, revoked')
      BY <1>1, <1>2, <2>2, SavedSound
    <3>2. \A j \in DOMAIN ledger' : \E k \in DOMAIN mem[p] : ledger'[j] = mem[p][k]
      BY <1>2, <2>2, SavedWithin
    <3>3. \A q \in Process : pc[q] = "record" => \A k \in DOMAIN mem[p] : mem[p][k].n # lease[q]
      BY DEF IInv, FreshInv
    <3> QED BY <3>1, <3>2, <3>3
  <2> QED BY <1>4, <2>1, <2>2
<1>7. /\ revoked \subseteq revoked' /\ revoked' \subseteq 1 .. Len(issued)
      /\ \A q \in Process : pc[q] = "record" => lease[q] \notin revoked'
  BY <1>1 DEF IInv, TypeOK, FreshInv
<1> QED BY <1>1, <1>2, <1>3, <1>5, <1>6, <1>7, LeaveKeeps

\* Every step keeps the invariant.
LEMMA NextKeeps ==
    ASSUME IInv, [Next]_vars
    PROVE  IInv'
<1>1. CASE UNCHANGED vars
  BY <1>1, StutterKeeps
<1>2. CASE Tick \/ \E b \in Backend, h \in Hash : EditConfig(b, h)
  BY <1>2, WorldKeeps
<1>3. ASSUME NEW p \in Process, NEW o \in Operations, Begin(p, o) PROVE IInv'
  BY <1>3, BeginKeeps
<1>4. ASSUME NEW p \in Process, Return(p) PROVE IInv'
  BY <1>4, ReturnKeeps
<1>5. ASSUME NEW p \in Process, Crash(p) \/ CreateFail(p) PROVE IInv'
  BY <1>5, CrashKeeps
<1>6. ASSUME NEW p \in Process, Step(p) PROVE IInv'
  BY <1>6, DecryptKeeps, CreateLeaseKeeps, CrashKeeps, RevokeRemoteKeeps, MarkRevokedKeeps,
     CleanOneKeeps, CleanSaveKeeps DEF Step
<1>7. ASSUME NEW p \in Process, Locked(p) PROVE IInv'
  BY <1>7, PreCheckKeeps, CheckCacheKeeps, RecordKeeps, LockKeeps DEF Locked
<1> QED BY <1>1, <1>2, <1>3, <1>4, <1>5, <1>6, <1>7 DEF Next

\* The invariant holds in every reachable state.
LEMMA Invariance == Spec => []IInv
<1>1. Init => IInv
  BY InitKeeps
<1>2. IInv /\ [Next]_vars => IInv'
  BY NextKeeps
<1> QED BY <1>1, <1>2, PTL DEF Spec

----------------------------------------------------------------------------
(* The theorems. *)

\* The variables of the ledger, its file and its processes keep their types.
THEOREM TypeCorrect == Spec => []TypeOK
<1>1. IInv => TypeOK
  BY DEF IInv
<1> QED BY <1>1, Invariance, PTL

\* Whatever processes run at the same time, are killed, or fail to save: a lease that
\* `fnox lease revoke` reported as revoked keeps no credentials in the ledger file.
THEOREM RevokedStaysRevoked == Spec => []RevokedForGood
<1>1. IInv => RevokedForGood
  BY DEF IInv, SoundInv, Sound, RevokedForGood
<1> QED BY <1>1, Invariance, PTL

\* exec and get hand out a lease of their backend, made with the configuration they
\* loaded, and not reported as revoked before they began.
THEOREM ReuseIsSound == Spec => []ReuseSound
<1>1. IInv => ReuseSound
  BY DEF IInv, HandInv, ReuseSound
<1> QED BY <1>1, Invariance, PTL

\* Saving what has every record of the ledger loses only what is too old to keep.
LEMMA SavingKeeps ==
    ASSUME IInv, NEW s \in Seq(LeaseRecord), \A i \in DOMAIN ledger : Has(s, ledger[i]),
           ledger' = Saved(s), NEW i \in DOMAIN ledger,
           ~((IF ledger[i].expires = None THEN ledger[i].created ELSE ledger[i].expires) + Retention <= clock)
    PROVE  \E j \in DOMAIN ledger' : ledger'[j].n = ledger[i].n /\ (ledger[i].revoked => ledger'[j].revoked)
<1> DEFINE r == ledger[i]
           when == IF r.expires = None THEN r.created ELSE r.expires
<1>1. PICK j \in DOMAIN s : /\ s[j].n = r.n /\ s[j].expires = r.expires /\ s[j].created = r.created
                            /\ r.revoked => s[j].revoked
  BY DEF Has
<1>2. r \in LeaseRecord /\ clock \in Nat
  BY DEF IInv, TypeOK
<1>3. when \in Nat /\ Retention \in Nat
  BY <1>2, LeaseLedgerAssumption DEF LeaseRecord, Expiry
<1>4. when + Retention > clock
  <2> HIDE DEF when
  <2>1. ~(when + Retention <= clock)
    BY DEF when
  <2> QED BY <1>2, <1>3, <2>1
<1>5. Kept(s[j])
  BY <1>1, <1>4 DEF Kept
<1>6. PICK k \in DOMAIN Saved(s) : Saved(s)[k] = s[j]
  BY <1>5, SavedKeeps
<1> QED BY <1>1, <1>6

\* No write of the ledger loses what another process wrote: a record stays until it is too
\* old to keep, and one that was revoked stays revoked.
THEOREM NoRecordLost == Spec => RecordsKept
<1> DEFINE A == \A i \in DOMAIN ledger :
                   LET r == ledger[i]
                   IN  \/ (IF r.expires = None THEN r.created ELSE r.expires) + Retention <= clock
                       \/ \E j \in DOMAIN ledger' : /\ ledger'[j].n = r.n
                                                    /\ r.revoked => ledger'[j].revoked
<1>1. ASSUME IInv, Next PROVE A
  <2>1. CASE UNCHANGED ledger
    BY <2>1
  <2>2. CASE ~UNCHANGED ledger
    <3>1. \E s \in Seq(LeaseRecord) :
             ledger' = Saved(s) /\ \A i \in DOMAIN ledger : Has(s, ledger[i])
      <4>1. PICK p \in Process : Record(p) \/ MarkRevoked(p) \/ CleanSave(p)
        BY <1>1, <2>2 DEF Next, Step, Locked, Tick, EditConfig, Begin, Return, Crash, Decrypt,
           CreateLease, CreateFail, RevokeRemote, CleanOne, PreCheck, CheckCache, Lock
      <4>2. CASE Record(p)
        <5>1. pc[p] = "record" /\ (op[p].kind = "create" \/ lock = None)
          BY <4>2 DEF Record
        <5>2. PICK r \in LeaseRecord : ledger' = Saved(Append(Base(p), r))
          BY <1>1, <2>2, <4>2, Recorded
        <5>3. Base(p) \in Seq(LeaseRecord) /\ \A i \in DOMAIN ledger : Has(Base(p), ledger[i])
          BY <1>1, <5>1 DEF Base, IInv, TypeOK, LockInv, CoverInv, Has
        <5>4. /\ Append(Base(p), r) \in Seq(LeaseRecord)
              /\ \A i \in DOMAIN Base(p) : i \in DOMAIN Append(Base(p), r)
                                            /\ Append(Base(p), r)[i] = Base(p)[i]
          BY <5>2, <5>3
        <5>5. \A i \in DOMAIN ledger : Has(Append(Base(p), r), ledger[i])
          BY <5>3, <5>4 DEF Has
        <5> QED BY <5>2, <5>4, <5>5
      <4>3. CASE MarkRevoked(p)
        <5>1. pc[p] = "mark" /\ ledger' = Saved(mark_revoked_at(mem[p], First(todo[p])))
          BY <2>2, <4>3 DEF MarkRevoked
        <5>2. /\ mem[p] \in Seq(LeaseRecord) /\ First(todo[p]) \in DOMAIN mem[p]
              /\ \A i \in DOMAIN ledger : Has(mem[p], ledger[i])
          BY <1>1, <5>1, Revoking
        <5> QED BY <5>1, <5>2, Marked, MarkedHas
      <4>4. CASE CleanSave(p)
        <5>1. pc[p] = "save" /\ ledger' = Saved(mem[p])
          BY <2>2, <4>4 DEF CleanSave
        <5> QED BY <1>1, <5>1, Revoking
      <4> QED BY <4>1, <4>2, <4>3, <4>4
    <3> QED BY <1>1, <3>1, SavingKeeps
  <2> QED BY <2>1, <2>2
<1>2. IInv /\ [Next]_vars => [A]_vars
  BY <1>1
<1> HIDE DEF A
<1>3. Spec => [][A]_vars
  BY <1>2, Invariance, PTL DEF Spec
<1> QED BY <1>3 DEF A, RecordsKept

----------------------------------------------------------------------------
(* What the ledger offers, and what backends have revoked. *)

\* The records of s name their leases as the backend does.
SameIds(s, leases) == \A i \in DOMAIN s : s[i].id = leases[s[i].n].id

\* The leases that may be offered: those not revoked, or revoked by who did not finish, or
\* that their backend cannot tell from another.
Excused == {n \in 1 .. Len(issued) : n \in live \union unsure \/ SharesId(n)}

\* A record that is not marked, in the file or in memory, is of a lease that may be offered,
\* or that whoever holds the lock is just revoking; one to be recorded may be offered.
OfferInv ==
    /\ SameIds(ledger, issued) /\ \A p \in Process : SameIds(mem[p], issued)
    /\ \A i \in DOMAIN ledger :
          ledger[i].revoked \/ ledger[i].n \in Excused \/ \E p \in Process : ledger[i].n \in InHand(p)
    /\ \A p \in Process : \A i \in DOMAIN mem[p] :
          mem[p][i].revoked \/ mem[p][i].n \in Excused \/ mem[p][i].n \in InHand(p)
    /\ \A p \in Process : pc[p] = "record" => lease[p] \in Excused

\* Only who holds the lock has leases in hand, and only while it revokes them.
LEMMA Holder ==
    ASSUME IInv, NEW p \in Process, NEW n \in InHand(p)
    PROVE  lock = p /\ pc[p] \in {"mark", "clean", "save"} /\ n \notin live
BY DEF InHand, IInv, LockInv

\* Steps that touch no ledger and no backend.
LEMMA QuietOffers ==
    ASSUME OfferInv, UNCHANGED <<issued, live, ledger, mem, todo, unsure>>,
           \A q \in Process : \/ pc'[q] = pc[q] /\ (pc[q] = "record" => lease'[q] = lease[q])
                              \/ /\ pc[q] \notin {"mark", "clean", "save"}
                                 /\ pc'[q] \notin {"mark", "clean", "save", "record"}
    PROVE  OfferInv'
<1>1. Excused' = Excused
  BY DEF Excused, SharesId
<1>2. ASSUME NEW q \in Process PROVE InHand(q)' = InHand(q)
  <2>1. CASE pc'[q] = pc[q]
    BY <2>1 DEF InHand
  <2>2. CASE pc[q] \notin {"mark", "clean", "save"} /\ pc'[q] \notin {"mark", "clean", "save"}
    BY <2>2 DEF InHand
  <2> QED BY <2>1, <2>2
<1> QED BY <1>1, <1>2 DEF OfferInv

\* A process leaves its command, perhaps having written the ledger.
LEMMA LeaveOffers ==
    ASSUME IInv, OfferInv, NEW p \in Process, NEW outcome \in {"done", "failed"}, Leave(p, outcome),
           UNCHANGED <<issued, live, lease>>, unsure \subseteq unsure', SameIds(ledger', issued),
           \A i \in DOMAIN ledger' : \/ ledger'[i].revoked \/ ledger'[i].n \in Excused'
                                     \/ \E q \in Process \ {p} : ledger'[i].n \in InHand(q)
    PROVE  OfferInv'
<1>1. \A q \in Process : /\ pc'[q] = IF q = p THEN outcome ELSE pc[q]
                         /\ mem'[q] = IF q = p THEN <<>> ELSE mem[q]
                         /\ todo'[q] = IF q = p THEN {} ELSE todo[q]
  BY DEF Leave, IInv, TypeOK
<1>2. Excused \subseteq Excused'
  BY DEF Excused, SharesId
<1>3. \A q \in Process \ {p} : InHand(q)' = InHand(q)
  BY <1>1 DEF InHand
<1>4. \A q \in Process : SameIds(mem'[q], issued')
  BY <1>1 DEF OfferInv, SameIds
<1>5. \A q \in Process : \A i \in DOMAIN mem'[q] :
         mem'[q][i].revoked \/ mem'[q][i].n \in Excused' \/ mem'[q][i].n \in InHand(q)'
  BY <1>1, <1>2, <1>3 DEF OfferInv
<1>6. \A q \in Process : pc'[q] = "record" => lease'[q] \in Excused'
  BY <1>1, <1>2 DEF OfferInv
<1>7. \A i \in DOMAIN ledger' : \/ ledger'[i].revoked \/ ledger'[i].n \in Excused'
                                \/ \E q \in Process : ledger'[i].n \in InHand(q)'
  BY <1>3
<1> QED BY <1>4, <1>5, <1>6, <1>7 DEF OfferInv

\* Process p goes on under the lock, with s in memory.
LEMMA GoOnOffers ==
    ASSUME IInv, OfferInv, NEW p \in Process, lock \in {None, p}, NEW at, NEW s, NEW T, at # "record",
           pc' = [pc EXCEPT ![p] = at], mem' = [mem EXCEPT ![p] = s], todo' = [todo EXCEPT ![p] = T],
           UNCHANGED <<issued, lease>>, SameIds(s, issued), SameIds(ledger', issued),
           \A i \in DOMAIN s : s[i].revoked \/ s[i].n \in Excused' \/ s[i].n \in InHand(p)',
           \A i \in DOMAIN ledger' :
              ledger'[i].revoked \/ ledger'[i].n \in Excused' \/ ledger'[i].n \in InHand(p)',
           \A q \in Process : pc[q] = "record" => lease[q] \in Excused'
    PROVE  OfferInv'
<1>1. \A q \in Process : /\ pc'[q] = IF q = p THEN at ELSE pc[q]
                         /\ mem'[q] = IF q = p THEN s ELSE mem[q]
  BY DEF IInv, TypeOK
<1>2. \A q \in Process : q # p => lock # q /\ mem[q] = <<>>
  BY LeaseLedgerAssumption DEF IInv, LockInv
<1>3. \A q \in Process : SameIds(mem'[q], issued')
  BY <1>1, <1>2 DEF SameIds
<1>4. \A q \in Process : \A i \in DOMAIN mem'[q] :
         mem'[q][i].revoked \/ mem'[q][i].n \in Excused' \/ mem'[q][i].n \in InHand(q)'
  BY <1>1, <1>2
<1>5. \A q \in Process : pc'[q] = "record" => lease'[q] \in Excused'
  BY <1>1
<1> QED BY <1>3, <1>4, <1>5 DEF OfferInv

\* What is not in hand is excused or marked, and so are the records that save keeps.
LEMMA SavedOffers ==
    ASSUME NEW s \in Seq(LeaseRecord), SameIds(s, issued), NEW X, \A i \in DOMAIN s : s[i].revoked \/ s[i].n \in X
    PROVE  /\ SameIds(Saved(s), issued)
           /\ \A i \in DOMAIN Saved(s) : Saved(s)[i].revoked \/ Saved(s)[i].n \in X
<1>1. ASSUME NEW i \in DOMAIN Saved(s)
      PROVE  /\ Saved(s)[i].id = issued[Saved(s)[i].n].id
             /\ Saved(s)[i].revoked \/ Saved(s)[i].n \in X
  <2>1. PICK j \in DOMAIN s : Saved(s)[i] = s[j]
    BY SavedWithin
  <2> QED BY <2>1 DEF SameIds
<1> QED BY <1>1 DEF SameIds

\* A backend that is asked to revoke a lease makes at most that one less than excused: any
\* other that it revokes has the same ID.
LEMMA RevokedExcused ==
    ASSUME IInv, OfferInv, NEW p \in Process, NEW i \in DOMAIN mem[p], RevokeAt(mem[p][i]),
           UNCHANGED <<issued, unsure>>
    PROVE  /\ \A n \in Excused : n \in Excused' \/ (n = mem[p][i].n /\ n \notin live')
           /\ mem[p][i].n \in 1 .. Len(issued) /\ live' \subseteq live
<1> DEFINE r == mem[p][i]
<1>1. r.n \in 1 .. Len(issued) /\ r.id = issued[r.n].id /\ r.backend = issued[r.n].backend
  BY DEF IInv, SoundInv, Sound, OfferInv, SameIds
<1>2. live' \subseteq live
  BY DEF RevokeAt
<1>3. ASSUME NEW n \in Excused, n \notin Excused' PROVE n = r.n /\ n \notin live'
  <2>1. n \in 1 .. Len(issued) /\ n \notin live' /\ ~SharesId(n) /\ n \in live
    BY <1>3 DEF Excused, SharesId
  <2>2. issued[n].id = r.id /\ issued[n].backend = r.backend
    BY <2>1 DEF RevokeAt
  <2> QED BY <1>1, <2>1, <2>2 DEF SharesId
<1> QED BY <1>1, <1>2, <1>3

\* The world changes, or a process begins, returns or looks for a lease.
LEMMA LookingOffers ==
    ASSUME IInv, OfferInv, NEW p \in Process,
           \/ Tick \/ \E b \in Backend, h \in Hash : EditConfig(b, h)
           \/ \E o \in Operations : Begin(p, o)
           \/ Return(p) \/ PreCheck(p) \/ CheckCache(p) \/ Decrypt(p)
    PROVE  OfferInv'
<1> USE DEF procVars
<1>0. pc \in [Process -> {"idle", "precheck", "check", "decrypt", "create", "record", "lock",
                          "revoke", "mark", "clean", "save", "done", "failed"}]
  BY DEF IInv, TypeOK
<1>1. CASE Tick \/ \E b \in Backend, h \in Hash : EditConfig(b, h)
  <2>1. UNCHANGED <<issued, live, ledger, mem, todo, unsure, pc, lease>>
    BY <1>1 DEF Tick, EditConfig
  <2> QED BY <2>1, QuietOffers
<1>2. ASSUME NEW o \in Operations, Begin(p, o) PROVE OfferInv'
  <2>1. /\ UNCHANGED <<issued, live, ledger, mem, todo, unsure, lease>> /\ pc[p] = "idle"
        /\ \E a \in {"precheck", "check", "lock"} : pc' = [pc EXCEPT ![p] = a]
    BY <1>2 DEF Begin
  <2> QED BY <1>0, <2>1, QuietOffers
<1>3. CASE Return(p)
  <2>1. /\ UNCHANGED <<issued, live, ledger, mem, todo, unsure>> /\ pc[p] \in {"done", "failed"}
        /\ pc' = [pc EXCEPT ![p] = "idle"] /\ lease' = [lease EXCEPT ![p] = 0]
    BY <1>3 DEF Return
  <2>2. \A q \in Process \ {p} : lease'[q] = lease[q] /\ pc'[q] = pc[q]
    BY <1>0, <2>1 DEF IInv, TypeOK
  <2> QED BY <1>0, <2>1, <2>2, QuietOffers
<1>4. CASE PreCheck(p)
  <2>1. /\ UNCHANGED <<issued, live, ledger, mem, todo, unsure, lease>> /\ pc[p] = "precheck"
        /\ \E a \in {"check", "done"} : pc' = [pc EXCEPT ![p] = a]
    BY <1>4 DEF PreCheck
  <2> QED BY <1>0, <2>1, QuietOffers
<1>5. CASE CheckCache(p) \/ Decrypt(p)
  <2>1. /\ UNCHANGED <<issued, live, ledger, mem, todo, unsure>> /\ pc[p] \in {"check", "decrypt"}
        /\ \E a \in {"create", "decrypt", "done"} : pc' = [pc EXCEPT ![p] = a]
        /\ lease' = lease \/ \E n : lease' = [lease EXCEPT ![p] = n]
    BY <1>5 DEF CheckCache, Decrypt
  <2>2. \A q \in Process \ {p} : lease'[q] = lease[q] /\ pc'[q] = pc[q]
    BY <1>0, <2>1 DEF IInv, TypeOK
  <2> QED BY <1>0, <2>1, <2>2, QuietOffers
<1> QED BY <1>1, <1>2, <1>3, <1>4, <1>5

\* A process is killed, its backend fails, or it cannot save: what it had in hand is unsure.
LEMMA GivenUpOffers ==
    ASSUME IInv, OfferInv, NEW p \in Process, Leave(p, "failed"),
           UNCHANGED <<issued, live, lease, ledger>>, unsure \union InHand(p) \subseteq unsure'
    PROVE  OfferInv'
<1>1. InHand(p) \subseteq Excused' /\ Excused \subseteq Excused'
  BY DEF InHand, Excused, SharesId
<1>2. SameIds(ledger', issued)
  BY DEF OfferInv
<1>3. \A i \in DOMAIN ledger' : \/ ledger'[i].revoked \/ ledger'[i].n \in Excused'
                                \/ \E q \in Process \ {p} : ledger'[i].n \in InHand(q)
  BY <1>1 DEF OfferInv
<1> QED BY <1>2, <1>3, LeaveOffers

\* A new lease is live; those issued before are as excused as they were.
LEMMA CreateOffers ==
    ASSUME IInv, OfferInv, NEW p \in Process, CreateLease(p)
    PROVE  OfferInv'
<1>1. /\ pc[p] = "create" /\ UNCHANGED <<ledger, mem, todo, unsure>>
      /\ live' = live \union {Len(issued')} /\ lease' = [lease EXCEPT ![p] = Len(issued')]
      /\ pc' = [pc EXCEPT ![p] = "record"]
  BY DEF CreateLease
<1>2. PICK l : issued' = Append(issued, l)
  BY DEF CreateLease
<1>3. issued \in Seq(Lease) /\ Len(issued) \in Nat /\ live \subseteq 1 .. Len(issued)
  BY DEF IInv, TypeOK
<1>4. Len(issued') = Len(issued) + 1 /\ \A n \in 1 .. Len(issued) : issued'[n] = issued[n]
  BY <1>2, <1>3
<1>5. \A n \in 1 .. Len(issued) : n \in 1 .. Len(issued') /\ n # Len(issued')
  BY <1>3, <1>4
<1>6. Excused \subseteq Excused' /\ Len(issued') \in Excused'
  <2>1. \A n \in 1 .. Len(issued) : SharesId(n) => SharesId(n)'
    BY <1>4, <1>5 DEF SharesId
  <2>2. Len(issued') \in 1 .. Len(issued')
    BY <1>3, <1>4
  <2> QED BY <1>1, <1>5, <2>1, <2>2 DEF Excused
<1>7. \A q \in Process : /\ pc'[q] = IF q = p THEN "record" ELSE pc[q]
                         /\ lease'[q] = IF q = p THEN Len(issued') ELSE lease[q]
  BY <1>1 DEF IInv, TypeOK
<1>8. \A q \in Process : InHand(q) \subseteq InHand(q)'
  BY <1>1, <1>5, <1>7 DEF InHand
<1>9. SameIds(ledger', issued') /\ \A q \in Process : SameIds(mem'[q], issued')
  BY <1>1, <1>4 DEF OfferInv, SameIds, IInv, SoundInv, Sound
<1>10. \A q \in Process : pc'[q] = "record" => lease'[q] \in Excused'
  BY <1>6, <1>7 DEF OfferInv
<1> QED BY <1>1, <1>6, <1>8, <1>9, <1>10 DEF OfferInv

\* What nobody has in hand is marked or excused.
LEMMA NotInHand ==
    ASSUME IInv, OfferInv, NEW p \in Process, pc[p] \notin {"mark", "clean", "save"}
    PROVE  /\ \A i \in DOMAIN mem[p] : mem[p][i].revoked \/ mem[p][i].n \in Excused
           /\ lock \in {None, p} => \A i \in DOMAIN ledger : ledger[i].revoked \/ ledger[i].n \in Excused
<1>1. \A n : n \notin InHand(p)
  BY Holder
<1>2. ASSUME lock \in {None, p}, NEW q \in Process, NEW n PROVE n \notin InHand(q)
  BY <1>1, <1>2, Holder, LeaseLedgerAssumption
<1> QED BY <1>1, <1>2 DEF OfferInv

\* A recorded lease may be offered.
LEMMA RecordOffers ==
    ASSUME IInv, OfferInv, NEW p \in Process, Record(p)
    PROVE  OfferInv'
<1>1. /\ pc[p] = "record" /\ Leave(p, "done") /\ (op[p].kind = "create" \/ lock = None)
      /\ UNCHANGED <<issued, live, unsure>> /\ lease' = lease
  BY DEF Record, commandVars
<1>2. lock \in {None, p} /\ Excused' = Excused
  BY <1>1 DEF IInv, LockInv, Excused, SharesId
<1>3. /\ Base(p) \in Seq(LeaseRecord) /\ SameIds(Base(p), issued)
      /\ \A i \in DOMAIN Base(p) : Base(p)[i].revoked \/ Base(p)[i].n \in Excused
  BY <1>1, <1>2, NotInHand DEF Base, IInv, TypeOK, OfferInv
<1>4. CASE UNCHANGED ledger
  <2>1. SameIds(ledger', issued) /\ \A i \in DOMAIN ledger' : ledger'[i].revoked \/ ledger'[i].n \in Excused'
    BY <1>1, <1>2, <1>4, NotInHand DEF OfferInv
  <2> QED BY <1>1, <2>1, LeaveOffers
<1>5. CASE ~UNCHANGED ledger
  <2>1. PICK r \in LeaseRecord : /\ ledger' = Saved(Append(Base(p), r)) /\ r.n = lease[p]
                                 /\ r.id = issued[lease[p]].id
    BY <1>5, Recorded
  <2> DEFINE t == Append(Base(p), r)
  <2>2. /\ t \in Seq(LeaseRecord)
        /\ \A i \in DOMAIN t : t[i] = r \/ (i \in DOMAIN Base(p) /\ t[i] = Base(p)[i])
    BY <1>3, <2>1
  <2>3. ledger' = Saved(t)
    BY <2>1
  <2> HIDE DEF t
  <2>4. r.n \in Excused
    BY <1>1, <2>1 DEF OfferInv
  <2>5. SameIds(t, issued) /\ \A i \in DOMAIN t : t[i].revoked \/ t[i].n \in Excused
    BY <1>3, <2>1, <2>2, <2>4 DEF SameIds
  <2>6. /\ SameIds(ledger', issued)
        /\ \A i \in DOMAIN ledger' : ledger'[i].revoked \/ ledger'[i].n \in Excused'
    BY <1>2, <2>2, <2>3, <2>5, SavedOffers
  <2> QED BY <1>1, <2>6, LeaveOffers
<1> QED BY <1>4, <1>5

\* A loaded ledger offers what the file does.
LEMMA LockOffers ==
    ASSUME IInv, OfferInv, NEW p \in Process, Lock(p)
    PROVE  OfferInv'
<1>1. /\ pc[p] = "lock" /\ lock = None /\ UNCHANGED <<issued, live, ledger, unsure, lease>>
  BY DEF Lock, commandVars
<1>2. /\ Excused' = Excused /\ SameIds(ledger, issued)
      /\ \A i \in DOMAIN ledger : ledger[i].revoked \/ ledger[i].n \in Excused
  BY <1>1, NotInHand DEF Excused, SharesId, OfferInv
<1>3. CASE \E outcome \in {"done", "failed"} : Leave(p, outcome)
  BY <1>1, <1>2, <1>3, LeaveOffers
<1>4. CASE \E at \in {"create", "revoke", "clean"} : \E T :
              /\ mem' = [mem EXCEPT ![p] = ledger] /\ todo' = [todo EXCEPT ![p] = T]
              /\ pc' = [pc EXCEPT ![p] = at]
  <2>1. PICK at \in {"create", "revoke", "clean"} : \E T :
              /\ mem' = [mem EXCEPT ![p] = ledger] /\ todo' = [todo EXCEPT ![p] = T]
              /\ pc' = [pc EXCEPT ![p] = at]
    BY <1>4
  <2>2. PICK T : /\ mem' = [mem EXCEPT ![p] = ledger] /\ todo' = [todo EXCEPT ![p] = T]
                 /\ pc' = [pc EXCEPT ![p] = at]
    BY <2>1
  <2>3. \A q \in Process : pc[q] = "record" => lease[q] \in Excused'
    BY <1>2 DEF OfferInv
  <2> QED BY <1>1, <1>2, <2>2, <2>3, GoOnOffers
<1> DEFINE chosen == CASE op[p].kind = "revoke"  -> Targets(ledger, op[p])
                       [] op[p].kind = "cleanup" -> {i \in DOMAIN ledger : Expired(ledger[i])}
                       [] OTHER -> {}
           next == IF op[p].kind = "create" THEN "create"
                   ELSE IF op[p].kind = "revoke" /\ Refused(ledger, op[p]) THEN "failed"
                   ELSE IF chosen = {} THEN "done"
                   ELSE IF op[p].kind = "revoke" THEN "revoke" ELSE "clean"
<1>5. IF next \in {"failed", "done"} THEN Leave(p, next)
      ELSE /\ mem' = [mem EXCEPT ![p] = ledger] /\ todo' = [todo EXCEPT ![p] = chosen]
           /\ pc' = [pc EXCEPT ![p] = next]
  BY DEF Lock
<1>6. next \in {"failed", "done", "create", "revoke", "clean"}
  <2> HIDE DEF chosen
  <2> QED OBVIOUS
<1> HIDE DEF chosen, next
<1> QED BY <1>3, <1>4, <1>5, <1>6

\* A position is dealt with, and what is in memory is marked or excused.
LEMMA AdvanceOffers ==
    ASSUME IInv, OfferInv, NEW p \in Process, pc[p] \in {"revoke", "mark"}, NEW s \in Seq(LeaseRecord),
           Advance(p, First(todo[p]), s, "revoke", "done"),
           UNCHANGED <<issued, live, unsure, lease>>, SameIds(s, issued), SameIds(ledger', issued),
           \A i \in DOMAIN s : s[i].revoked \/ s[i].n \in Excused,
           \A i \in DOMAIN ledger' : ledger'[i].revoked \/ ledger'[i].n \in Excused
    PROVE  OfferInv'
<1>1. lock = p /\ Excused' = Excused
  BY Revoking DEF Excused, SharesId
<1>2. CASE Leave(p, "done")
  BY <1>1, <1>2, LeaveOffers
<1>3. CASE /\ mem' = [mem EXCEPT ![p] = s] /\ pc' = [pc EXCEPT ![p] = "revoke"]
           /\ \E T : todo' = [todo EXCEPT ![p] = T]
  <2>1. \A q \in Process : pc[q] = "record" => lease[q] \in Excused'
    BY <1>1 DEF OfferInv
  <2> QED BY <1>1, <1>3, <2>1, GoOnOffers
<1> QED BY <1>2, <1>3 DEF Advance

\* While the backend is asked, the lease is in hand.
LEMMA RevokeRemoteOffers ==
    ASSUME IInv, OfferInv, NEW p \in Process, RevokeRemote(p)
    PROVE  OfferInv'
<1> DEFINE i == First(todo[p])
<1>1. pc[p] = "revoke" /\ UNCHANGED <<issued, ledger, unsure, lease>>
  BY DEF RevokeRemote, commandVars
<1>2. lock = p /\ mem[p] \in Seq(LeaseRecord) /\ i \in DOMAIN mem[p]
  BY <1>1, Revoking
<1>3. /\ SameIds(mem[p], issued) /\ SameIds(ledger', issued)
      /\ \A j \in DOMAIN mem[p] : mem[p][j].revoked \/ mem[p][j].n \in Excused
      /\ \A j \in DOMAIN ledger : ledger[j].revoked \/ ledger[j].n \in Excused
  BY <1>1, <1>2, NotInHand DEF OfferInv
<1>4. CASE mem[p][i].revoked
  <2>1. Advance(p, i, mem[p], "revoke", "done") /\ UNCHANGED live
    BY <1>4 DEF RevokeRemote
  <2> QED BY <1>1, <1>2, <1>3, <2>1, AdvanceOffers
<1>5. CASE ~mem[p][i].revoked
  <2>1. RevokeAt(mem[p][i]) /\ pc' = [pc EXCEPT ![p] = "mark"] /\ UNCHANGED <<mem, todo, lock>>
    BY <1>5 DEF RevokeRemote
  <2>2. /\ \A n \in Excused : n \in Excused' \/ (n = mem[p][i].n /\ n \notin live')
        /\ mem[p][i].n \in 1 .. Len(issued)
    BY <1>1, <1>2, <2>1, RevokedExcused
  <2>3. pc'[p] = "mark"
    BY <2>1 DEF IInv, TypeOK
  <2>4. \A n : n = mem[p][i].n /\ n \notin live' => n \in InHand(p)'
    BY <1>1, <1>2, <2>1, <2>2, <2>3 DEF InHand
  <2>5. \A q \in Process : pc[q] = "record" => lease[q] \in Excused'
    BY <1>2, <2>2 DEF OfferInv, IInv, FreshInv
  <2>6. mem' = [mem EXCEPT ![p] = mem[p]] /\ todo' = [todo EXCEPT ![p] = todo[p]]
    BY <2>1 DEF IInv, TypeOK
  <2>7. \A n \in Excused : n \in Excused' \/ n \in InHand(p)'
    BY <2>2, <2>4
  <2>8. /\ \A j \in DOMAIN mem[p] : mem[p][j].revoked \/ mem[p][j].n \in Excused' \/ mem[p][j].n \in InHand(p)'
        /\ \A j \in DOMAIN ledger' :
              ledger'[j].revoked \/ ledger'[j].n \in Excused' \/ ledger'[j].n \in InHand(p)'
    BY <1>1, <1>3, <2>7
  <2> QED BY <1>1, <1>2, <1>3, <2>1, <2>5, <2>6, <2>8, GoOnOffers
<1> QED BY <1>4, <1>5

\* The revoked lease is marked in the file, or unsure.
LEMMA MarkRevokedOffers ==
    ASSUME IInv, OfferInv, NEW p \in Process, MarkRevoked(p)
    PROVE  OfferInv'
<1> DEFINE i == First(todo[p])
           marked == mark_revoked_at(mem[p], i)
<1>1. pc[p] = "mark" /\ UNCHANGED <<issued, live, lease>>
  BY DEF MarkRevoked, commandVars
<1>2. /\ lock = p /\ mem[p] \in Seq(LeaseRecord) /\ Sound(mem[p], issued, revoked) /\ i \in DOMAIN mem[p]
  BY <1>1, Revoking
<1>3. CASE Leave(p, "failed") /\ unsure' = unsure \union InHand(p) /\ UNCHANGED <<ledger, revoked>>
  BY <1>1, <1>3, GivenUpOffers
<1>4. CASE /\ ledger' = Saved(marked) /\ Advance(p, i, marked, "revoke", "done") /\ UNCHANGED unsure
  <2>1. /\ marked \in Seq(LeaseRecord) /\ DOMAIN marked = DOMAIN mem[p]
        /\ \A j \in DOMAIN mem[p] : /\ marked[j].n = mem[p][j].n /\ marked[j].id = mem[p][j].id
                                    /\ j # i => marked[j] = mem[p][j]
        /\ marked[i].revoked
    BY <1>2, Marked, SMTT(30)
  <2>2. ASSUME NEW j \in DOMAIN mem[p], j # i PROVE mem[p][j].n \notin InHand(p)
    BY <1>1, <1>2, <2>2 DEF InHand, Sound
  <2> HIDE DEF marked, i
  <2>3. SameIds(marked, issued)
    BY <2>1 DEF OfferInv, SameIds
  <2>4. \A j \in DOMAIN marked : marked[j].revoked \/ marked[j].n \in Excused
    BY <2>1, <2>2 DEF OfferInv
  <2>5. SameIds(ledger', issued) /\ \A j \in DOMAIN ledger' : ledger'[j].revoked \/ ledger'[j].n \in Excused
    BY <1>4, <2>1, <2>3, <2>4, SavedOffers
  <2> QED BY <1>1, <1>4, <2>1, <2>3, <2>4, <2>5, AdvanceOffers DEF i
<1> QED BY <1>3, <1>4 DEF MarkRevoked

\* cleanup keeps in hand what it has revoked.
LEMMA CleanOneOffers ==
    ASSUME IInv, OfferInv, NEW p \in Process, CleanOne(p)
    PROVE  OfferInv'
<1> DEFINE i == First(todo[p])
           marked == mark_revoked_at(mem[p], i)
           T == todo[p] \ {i}
           at == IF T = {} THEN "save" ELSE "clean"
<1>1. pc[p] = "clean" /\ UNCHANGED <<issued, ledger, unsure, lease>> /\ RevokeAt(mem[p][i])
  BY DEF CleanOne, commandVars
<1>2. /\ lock = p /\ mem[p] \in Seq(LeaseRecord) /\ Sound(mem[p], issued, revoked) /\ i \in DOMAIN mem[p]
  BY <1>1, Revoking
<1>3. mem' = [mem EXCEPT ![p] = marked] /\ todo' = [todo EXCEPT ![p] = T]
  BY DEF CleanOne, IInv, TypeOK
<1>4. /\ pc' = [pc EXCEPT ![p] = at] /\ pc'[p] = at /\ mem'[p] = marked
  BY <1>3 DEF CleanOne, IInv, TypeOK
<1>5. /\ marked \in Seq(LeaseRecord) /\ DOMAIN marked = DOMAIN mem[p]
      /\ \A j \in DOMAIN mem[p] : /\ marked[j].n = mem[p][j].n /\ marked[j].id = mem[p][j].id
                                  /\ mem[p][j].revoked => marked[j].revoked
                                  /\ j # i => marked[j] = mem[p][j]
      /\ marked[i].revoked
  BY <1>2, Marked, SMTT(30)
<1>6. /\ \A n \in Excused : n \in Excused' \/ (n = mem[p][i].n /\ n \notin live')
      /\ mem[p][i].n \in 1 .. Len(issued) /\ live' \subseteq live
  BY <1>1, <1>2, RevokedExcused
<1>7. at \in {"clean", "save"}
  OBVIOUS
<1> HIDE DEF marked, T, at, i
<1>8. InHand(p)' = {n \in 1 .. Len(issued) : n \notin live' /\ \E j \in DOMAIN marked : marked[j].n = n /\ marked[j].revoked}
  BY <1>1, <1>4, <1>7 DEF InHand
<1>9. InHand(p) = {n \in 1 .. Len(issued) : n \notin live /\ \E j \in DOMAIN mem[p] : mem[p][j].n = n /\ mem[p][j].revoked}
  BY <1>1 DEF InHand
<1>10. InHand(p) \subseteq InHand(p)' /\ (mem[p][i].n \notin live' => mem[p][i].n \in InHand(p)')
  BY <1>2, <1>5, <1>6, <1>8, <1>9
<1>11. SameIds(marked, issued) /\ SameIds(ledger', issued)
  BY <1>1, <1>5 DEF OfferInv, SameIds
<1>12. ASSUME NEW j \in DOMAIN marked, ~marked[j].revoked PROVE marked[j].n \in Excused'
  <2>1. j \in DOMAIN mem[p] /\ j # i /\ marked[j] = mem[p][j]
    BY <1>5, <1>12
  <2>2. mem[p][j].n \notin InHand(p) /\ mem[p][j].n # mem[p][i].n
    BY <1>2, <1>9, <1>12, <2>1 DEF Sound
  <2> QED BY <1>6, <1>12, <2>1, <2>2 DEF OfferInv
<1>13. ASSUME NEW j \in DOMAIN ledger, ~ledger[j].revoked
       PROVE  ledger[j].n \in Excused' \/ ledger[j].n \in InHand(p)'
  <2>1. ledger[j].n \in Excused \/ ledger[j].n \in InHand(p)
    BY <1>2, <1>13, Holder DEF OfferInv
  <2> QED BY <1>6, <1>10, <2>1
<1>14. \A q \in Process : pc[q] = "record" => lease[q] \in Excused'
  BY <1>2, <1>6 DEF OfferInv, IInv, FreshInv
<1> QED BY <1>1, <1>2, <1>3, <1>4, <1>7, <1>11, <1>12, <1>13, <1>14, GoOnOffers

\* cleanup writes what it has marked, or leaves it unsure.
LEMMA CleanSaveOffers ==
    ASSUME IInv, OfferInv, NEW p \in Process, CleanSave(p)
    PROVE  OfferInv'
<1>1. pc[p] = "save" /\ UNCHANGED <<issued, live, lease>>
  BY DEF CleanSave, commandVars
<1>2. /\ lock = p /\ mem[p] \in Seq(LeaseRecord) /\ Sound(mem[p], issued, revoked)
  BY <1>1, Revoking
<1>3. CASE Leave(p, "failed") /\ unsure' = unsure \union InHand(p) /\ UNCHANGED ledger
  BY <1>1, <1>3, GivenUpOffers
<1>4. CASE ledger' = Saved(mem[p]) /\ Leave(p, "done") /\ UNCHANGED unsure
  <2>1. Excused' = Excused
    BY <1>1, <1>4 DEF Excused, SharesId
  <2>2. ASSUME NEW j \in DOMAIN mem[p] PROVE mem[p][j].revoked \/ mem[p][j].n \in Excused
    <3>1. mem[p][j].n \in InHand(p) => mem[p][j].revoked
      BY <1>1, <1>2 DEF InHand, Sound
    <3> QED BY <3>1 DEF OfferInv
  <2>3. SameIds(ledger', issued) /\ \A j \in DOMAIN ledger' : ledger'[j].revoked \/ ledger'[j].n \in Excused
    BY <1>2, <1>4, <2>2, SavedOffers DEF OfferInv
  <2> QED BY <1>1, <1>4, <2>1, <2>3, LeaveOffers
<1> QED BY <1>3, <1>4 DEF CleanSave

\* Every step keeps what is offered excused.
LEMMA NextOffers ==
    ASSUME IInv, OfferInv, [Next]_vars
    PROVE  OfferInv'
<1>1. CASE UNCHANGED vars
  BY <1>1, QuietOffers DEF vars
<1>2. CASE Tick \/ \E b \in Backend, h \in Hash : EditConfig(b, h)
  <2>1. UNCHANGED <<issued, live, ledger, mem, todo, unsure, pc, lease>>
    BY <1>2 DEF Tick, EditConfig, procVars
  <2> QED BY <2>1, QuietOffers
<1>3. ASSUME NEW p \in Process,
             \/ \E o \in Operations : Begin(p, o)
             \/ Return(p) \/ PreCheck(p) \/ CheckCache(p) \/ Decrypt(p)
      PROVE  OfferInv'
  BY <1>3, LookingOffers
<1>4. ASSUME NEW p \in Process, Crash(p) PROVE OfferInv'
  BY <1>4, GivenUpOffers DEF Crash, commandVars
<1>5. ASSUME NEW p \in Process, CreateFail(p) PROVE OfferInv'
  <2>1. pc[p] \in {"create", "lock"}
    BY <1>5 DEF CreateFail
  <2>2. InHand(p) = {}
    BY <2>1 DEF InHand
  <2> QED BY <1>5, <2>2, GivenUpOffers DEF CreateFail, commandVars
<1>6. ASSUME NEW p \in Process, Step(p) PROVE OfferInv'
  BY <1>3, <1>5, <1>6, CreateOffers, RevokeRemoteOffers, MarkRevokedOffers, CleanOneOffers,
     CleanSaveOffers DEF Step
<1>7. ASSUME NEW p \in Process, Locked(p) PROVE OfferInv'
  BY <1>3, <1>7, RecordOffers, LockOffers DEF Locked
<1> QED BY <1>1, <1>2, <1>3, <1>4, <1>6, <1>7 DEF Next

\* A lease that the ledger still offers to exec and get has not been revoked at its backend,
\* unless a command is just revoking it or was stopped while it did, or its backend gave
\* another lease the same ID: whatever commands run at the same time, and wherever they are killed.
THEOREM OffersAreLive == Spec => []OfferedIsLive
<1>1. Init => OfferInv
  BY DEF Init, OfferInv, SameIds
<1>2. IInv /\ OfferInv /\ [Next]_vars => OfferInv'
  BY NextOffers
<1>3. OfferInv => OfferedIsLive
  BY DEF OfferInv, OfferedIsLive, Excused, is_reusable
<1> QED BY <1>1, <1>2, <1>3, Invariance, PTL DEF Spec
=============================================================================
