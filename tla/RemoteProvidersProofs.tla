------------------------- MODULE RemoteProvidersProofs -------------------------
(***************************************************************************)
(* Proofs about RemoteProviders, for any items, fields, texts and number   *)
(* of processes: what one of the eleven providers has acknowledged is kept *)
(* while others put at the same time, and a batch read from one of the     *)
(* remote providers is as good as its secrets read one by one.             *)
(***************************************************************************)
EXTENDS RemoteProviders, FiniteSetTheorems, TLAPS

Entry == [name : Name, field : Field, value : Value \cup {None}]

StoreItem == [state : {"absent", "live", "deleted"}, version : Nat,
              fields : [Field -> Value \cup {None}], copies : Seq(Value)]

(* What was never written, and what is deleted, has no fields. *)
GoodItem == {i \in StoreItem : i.version = 0 \/ i.state = "deleted" => i.fields = Empty}

Done == {"idle", "ok", "error"}

(* The calls of a put, by provider. *)
StepsOf(t) ==
  CASE t = "vault" -> {"put", "patch", "create", "retry", "metadata", "recreate", "last"}
    [] t = "aws-sm" -> {"put_value", "create_secret"}
    [] t = "gcp-sm" -> {"add_version", "create_empty", "add_again"}
    [] t = "bitwarden-sm" -> {"list", "edit", "create_copy"}
    [] t = "foks" -> {"kv_put", "kv_again"}
    [] t = "keepass" -> {"open", "save"}
    [] OTHER -> {"overwrite"}

WriteTypes ==
  /\ target \in Target /\ job \in Jobs
  /\ store \in [Name -> GoodItem]
  /\ pc \in [Writer -> Done \cup StepsOf(target)]
  /\ local = [w \in Writer |-> local[w]]
  /\ login \in [session : BOOLEAN, outcome : {"none", "yes", "no"}, logins : Nat]
  /\ acked \in Seq(Entry) /\ overlap \in BOOLEAN /\ purged \subseteq Name /\ faults \in 0..MaxFaults

(* What a writer knows of the item it is about to write.  Of a database that it has read, *)
(* only deletions have made it out of date, unless two puts overlap.                      *)
WriterOK(w) ==
  LET n == job[w].name
  IN  /\ pc[w] \notin Done => job[w].field = Main \/ target \in {"vault", "keepass"}
      /\ pc[w] = "put" => job[w].field = Main
      /\ pc[w] = "save" => /\ local[w] \in [Name -> GoodItem]
                           /\ ~overlap => \A m \in Name : local[w][m] = store[m] \/ store[m] = Missing
      /\ pc[w] = "recreate" => /\ local[w] \in Nat
                               /\ n \notin purged => local[w] <= store[n].version
                               /\ Protected(n) /\ store[n].version = local[w] => store[n].fields = Empty
      /\ pc[w] = "create_copy" /\ ~overlap => store[n].copies = <<>>

OneActive == ~overlap => \A u, w \in Writer : pc[u] \notin Done /\ pc[w] \notin Done => u = w

(* Nothing is missing once it is there, as long as nothing is deleted. *)
NoFaults ==
  faults = 0 /\ target \in {"vault", "gcp-sm"} =>
    /\ \A n \in Name : store[n].state # "deleted" /\ (store[n].version > 0 => Live(n))
    /\ \A w \in Writer : /\ pc[w] \notin {"metadata", "recreate", "last", "error"}
                         /\ pc[w] \in {"retry", "add_again"} => Live(job[w].name)

LoginOK == login.logins <= 1 /\ (login.outcome = "none" => login.logins = 0)

(* The last entry that touches a field, and what the item then owes to it. *)
IsLast(i, n, f) ==
  /\ i \in {0} \cup {j \in DOMAIN acked : Touches(j, n, f)}
  /\ \A j \in DOMAIN acked : Touches(j, n, f) => j <= i

AckOK(n, f) ==
  /\ \E i \in 0..Len(acked) : IsLast(i, n, f)
  /\ \A i \in 1..Len(acked) :
       IsLast(i, n, f) /\ Protected(n) /\ acked[i].value # None /\ acked[i].field = f
         => store[n].fields[f] = acked[i].value

WriteInv ==
  /\ WriteTypes /\ OneActive /\ NoFaults /\ LoginOK
  /\ \A w \in Writer : WriterOK(w)
  /\ \A n \in Name, f \in Field : AckOK(n, f)

LEMMA MissingGood == Missing \in GoodItem /\ Missing.fields = Empty /\ Missing.version = 0 /\ Missing.state = "absent"
<1>1. Empty \in [Field -> Value \cup {None}]
  BY DEF Empty
<1>2. Missing \in StoreItem /\ Missing.fields = Empty /\ Missing.version = 0 /\ Missing.state = "absent"
  BY <1>1 DEF Missing, StoreItem
<1> QED BY <1>2 DEF GoodItem

LEMMA WriterTypes ==
  ASSUME WriteInv, NEW w \in Writer
  PROVE  /\ job[w] \in Entry /\ job[w].value \in Value /\ job[w].name \in Name /\ job[w].field \in Field
         /\ store[job[w].name] \in GoodItem /\ WriterOK(w) /\ pc[w] \in Done \cup StepsOf(target)
<1>1. job[w] \in [name : Name, field : Field, value : Value]
  BY ProviderWritesAssumption DEF WriteInv, WriteTypes
<1>2. job[w] \in Entry /\ job[w].value \in Value /\ job[w].name \in Name /\ job[w].field \in Field
  BY <1>1 DEF Entry
<1> QED BY <1>2 DEF WriteInv, WriteTypes

LEMMA WriteStarts == WriteInit \/ WriteIdle => WriteInv
<1> SUFFICES ASSUME WriteInit \/ WriteIdle PROVE WriteInv
  OBVIOUS
<1>1. /\ target \in Target /\ job \in Jobs /\ store = [n \in Name |-> Missing]
      /\ pc \in [Writer -> Done] /\ \A w \in Writer : pc[w] # "error"
      /\ local = [w \in Writer |-> 0]
      /\ login = [session |-> FALSE, outcome |-> "none", logins |-> 0]
      /\ acked = <<>> /\ overlap = FALSE /\ purged = {} /\ faults = 0
  BY ProviderWritesAssumption DEF WriteInit, WriteIdle, Done, Target
<1>2. WriteTypes
  <2>1. login \in [session : BOOLEAN, outcome : {"none", "yes", "no"}, logins : Nat]
    BY <1>1
  <2>2. local = [w \in Writer |-> local[w]]
    BY <1>1
  <2>3. pc \in [Writer -> Done \cup StepsOf(target)] /\ acked \in Seq(Entry) /\ faults \in 0..MaxFaults
    BY <1>1, ProviderWritesAssumption
  <2> QED BY <1>1, <2>1, <2>2, <2>3, MissingGood DEF WriteTypes
<1>3. \A n \in Name : store[n] = Missing
  BY <1>1
<1>4. NoFaults
  BY <1>1, <1>3, MissingGood DEF NoFaults, Done
<1>5. OneActive /\ LoginOK /\ \A w \in Writer : WriterOK(w)
  BY <1>1 DEF OneActive, LoginOK, WriterOK, Done
<1>6. \A n \in Name, f \in Field : AckOK(n, f)
  BY <1>1 DEF AckOK, IsLast
<1> QED BY <1>2, <1>4, <1>5, <1>6 DEF WriteInv

--------------------------------------------------------------------------------
(* The entries that were acknowledged. *)

TouchedBy(e, n, f) ==
  e.name = n /\ (e.field = f \/ e.value = None \/ (target = "vault" /\ e.field = Main))

(* A new entry either is the last one of a field, which then holds its value, or leaves the *)
(* field as it is; a field without a value owes nothing.                                    *)
LEMMA Acknowledged ==
  ASSUME WriteInv, NEW e \in Entry, acked' = Append(acked, e), target' = target,
         NEW n \in Name, NEW f \in Field, Protected(n)' => Protected(n),
         Protected(n)' =>
           \/ TouchedBy(e, n, f) /\ (e.value # None /\ e.field = f => store'[n].fields[f] = e.value)
           \/ /\ ~TouchedBy(e, n, f)
              /\ store'[n].fields[f] = store[n].fields[f] \/ store[n].fields[f] = None
  PROVE  AckOK(n, f)'
<1>1. /\ acked \in Seq(Entry) /\ Len(acked) \in Nat /\ DOMAIN acked = 1..Len(acked)
  BY DEF WriteInv, WriteTypes
<1>2. /\ acked' \in Seq(Entry) /\ Len(acked') = Len(acked) + 1 /\ DOMAIN acked' = 1..(Len(acked) + 1)
      /\ acked'[Len(acked) + 1] = e /\ \A i \in 1..Len(acked) : acked'[i] = acked[i]
  BY <1>1
<1>3. PICK last \in Nat : last = Len(acked) + 1
  BY <1>1
<1>4. \A i \in 1..Len(acked) : Touches(i, n, f)' <=> Touches(i, n, f)
  BY <1>2 DEF Touches
<1>5. Touches(last, n, f)' <=> TouchedBy(e, n, f)
  BY <1>2, <1>3 DEF Touches, TouchedBy
<1>6. AckOK(n, f)
  BY DEF WriteInv
<1>7. CASE TouchedBy(e, n, f)
  <2>1. IsLast(last, n, f)'
    BY <1>1, <1>2, <1>3, <1>5, <1>7 DEF IsLast
  <2>2. \A i \in 1..Len(acked') : IsLast(i, n, f)' => i = last
    BY <1>1, <1>2, <1>3, <1>5, <1>7 DEF IsLast
  <2>3. last \in 0..Len(acked')
    BY <1>1, <1>2, <1>3
  <2>4. \A i \in 1..Len(acked') :
          IsLast(i, n, f)' /\ Protected(n)' /\ acked'[i].value # None /\ acked'[i].field = f
            => store'[n].fields[f] = acked'[i].value
    BY <1>2, <1>3, <1>7, <2>2
  <2> QED BY <2>1, <2>3, <2>4 DEF AckOK
<1>8. CASE ~TouchedBy(e, n, f)
  <2>1. \A i \in 0..Len(acked) : IsLast(i, n, f)' <=> IsLast(i, n, f)
    BY <1>1, <1>2, <1>3, <1>4, <1>5, <1>8 DEF IsLast
  <2>2. \A i \in 1..Len(acked') : IsLast(i, n, f)' => i \in 1..Len(acked)
    BY <1>1, <1>2, <1>3, <1>5, <1>8 DEF IsLast
  <2>3. PICK i \in 0..Len(acked) : IsLast(i, n, f)
    BY <1>6 DEF AckOK
  <2>4. \E k \in 0..Len(acked') : IsLast(k, n, f)'
    BY <1>1, <1>2, <2>1, <2>3
  <2>5. ASSUME NEW k \in 1..Len(acked'), IsLast(k, n, f)', Protected(n)', acked'[k].value # None, acked'[k].field = f
        PROVE  store'[n].fields[f] = acked'[k].value
    <3>1. k \in 1..Len(acked) /\ IsLast(k, n, f) /\ acked'[k] = acked[k]
      BY <1>1, <1>2, <2>1, <2>2, <2>5
    <3>2. store[n].fields[f] = acked[k].value
      BY <1>6, <2>5, <3>1 DEF AckOK
    <3> QED BY <1>8, <2>5, <3>1, <3>2
  <2> QED BY <2>4, <2>5 DEF AckOK
<1> QED BY <1>7, <1>8

(* The same where nothing is acknowledged. *)
LEMMA NotAcknowledged ==
  ASSUME WriteInv, acked' = acked, target' = target,
         NEW n \in Name, NEW f \in Field, Protected(n)' => Protected(n),
         store'[n].fields[f] = store[n].fields[f]
  PROVE  AckOK(n, f)'
<1>1. AckOK(n, f)
  BY DEF WriteInv
<1>2. \A i : IsLast(i, n, f)' <=> IsLast(i, n, f)
  BY DEF IsLast, Touches
<1> QED BY <1>1, <1>2 DEF AckOK

--------------------------------------------------------------------------------
(* Steps of a writer. *)

(* A call that writes one item and ends the put.  The item holds the value, and what else it *)
(* held, unless the whole secret is replaced; a version of Vault is a new one.               *)
LEMMA CommitKeeps ==
  ASSUME WriteInv, NEW w \in Writer, pc[w] \notin Done, NEW i \in GoodItem, Commit(w, i),
         UNCHANGED <<target, job, local, overlap, purged, faults>>,
         login' \in [session : BOOLEAN, outcome : {"none", "yes", "no"}, logins : Nat], LoginOK',
         Protected(job[w].name) =>
           /\ i.fields[job[w].field] = job[w].value
           /\ \A f \in Field \ {job[w].field} :
                \/ target = "vault" /\ job[w].field = Main
                \/ i.fields[f] = store[job[w].name].fields[f]
                \/ store[job[w].name].fields[f] = None,
         target = "vault" => i.version > store[job[w].name].version,
         target \in {"vault", "gcp-sm"} => i.state = "live"
  PROVE  WriteInv'
<1> DEFINE n == job[w].name
<1>1. /\ job[w] \in Entry /\ job[w].value \in Value /\ n \in Name /\ job[w].field \in Field
      /\ store[n] \in GoodItem /\ WriterOK(w)
  BY WriterTypes
<1>2. /\ store' \in [Name -> GoodItem] /\ store'[n] = i /\ \A m \in Name \ {n} : store'[m] = store[m]
  BY <1>1 DEF Commit, WriteInv, WriteTypes
<1>3. /\ pc' \in [Writer -> Done \cup StepsOf(target)] /\ pc'[w] = "ok"
      /\ \A u \in Writer \ {w} : pc'[u] = pc[u]
  BY DEF Commit, Goto, WriteInv, WriteTypes, Done
<1>4. WriteTypes'
  <2>1. acked' \in Seq(Entry)
    BY <1>1 DEF Commit, WriteInv, WriteTypes
  <2> QED BY <1>2, <1>3, <2>1 DEF WriteInv, WriteTypes
<1>5. \A m : Protected(m)' <=> Protected(m)
  BY DEF Protected
<1>6. OneActive'
  BY <1>3 DEF WriteInv, OneActive, Done
<1>7. NoFaults'
  <2> SUFFICES ASSUME faults = 0, target \in {"vault", "gcp-sm"} PROVE NoFaults'
    BY DEF NoFaults
  <2>1. \A m \in Name : store'[m].state # "deleted" /\ (store'[m].version > 0 => store'[m].state = "live")
    BY <1>2 DEF WriteInv, NoFaults, Live
  <2>2. \A u \in Writer \ {w} : /\ pc[u] \notin {"metadata", "recreate", "last", "error"}
                                /\ pc[u] \in {"retry", "add_again"} => store[job[u].name].state = "live"
    BY DEF WriteInv, NoFaults, Live
  <2>3. \A u \in Writer : job[u].name \in Name
    BY WriterTypes
  <2>4. \A u \in Writer : /\ pc'[u] \notin {"metadata", "recreate", "last", "error"}
                          /\ pc'[u] \in {"retry", "add_again"} => store'[job'[u].name].state = "live"
    BY <1>2, <1>3, <2>2, <2>3
  <2> QED BY <2>1, <2>4 DEF NoFaults, Live
<1>8. ASSUME NEW u \in Writer PROVE WriterOK(u)'
  <2>1. CASE u = w
    BY <1>3, <2>1 DEF WriterOK, Done
  <2>2. CASE u # w
    <3>1. /\ pc'[u] = pc[u] /\ job[u].name \in Name /\ WriterOK(u) /\ store[job[u].name] \in GoodItem
          /\ pc[u] \in Done \cup StepsOf(target)
      BY <1>3, <2>2, WriterTypes
    <3>2. ~overlap => pc[u] \in Done
      BY <2>2 DEF WriteInv, OneActive
    <3>3. CASE pc[u] # "recreate"
      BY <3>1, <3>2, <3>3 DEF WriterOK, Done
    <3>4. CASE pc[u] = "recreate"
      <4>1. target = "vault" /\ overlap
        BY <3>1, <3>2, <3>4 DEF StepsOf, Done, WriteInv, WriteTypes
      <4>2. i.version \in Nat /\ store[n].version \in Nat
        BY <1>1 DEF GoodItem, StoreItem
      <4>3. Protected(job[u].name) => job[u].name \notin purged
        BY <4>1 DEF Protected
      <4>4. /\ local[u] \in Nat
            /\ job[u].name \notin purged => local[u] <= store'[job[u].name].version
            /\ job[u].name \notin purged /\ store'[job[u].name].version = local[u] => store'[job[u].name] = store[job[u].name]
        BY <1>2, <3>1, <3>4, <4>1, <4>2 DEF WriterOK
      <4>5. Protected(job[u].name) /\ store'[job[u].name].version = local[u] => store'[job[u].name].fields = Empty
        BY <3>1, <3>4, <4>3, <4>4 DEF WriterOK
      <4> QED BY <1>5, <3>1, <3>4, <4>1, <4>4, <4>5 DEF WriterOK, Done
    <3> QED BY <3>3, <3>4
  <2> QED BY <2>1, <2>2
<1>9. ASSUME NEW m \in Name, NEW f \in Field PROVE AckOK(m, f)'
  <2>1. acked' = Append(acked, job[w])
    BY DEF Commit
  <2>2. CASE m # n
    BY <1>1, <1>2, <1>5, <2>1, <2>2, Acknowledged DEF TouchedBy
  <2>3. CASE m = n /\ f = job[w].field
    <3>1. TouchedBy(job[w], m, f)
      BY <2>3 DEF TouchedBy
    <3>2. Protected(m)' => store'[m].fields[f] = job[w].value
      BY <1>2, <1>5, <2>3
    <3> QED BY <1>1, <1>5, <2>1, <3>1, <3>2, Acknowledged
  <2>4. CASE m = n /\ f # job[w].field
    <3>1. CASE target = "vault" /\ job[w].field = Main
      BY <1>1, <1>5, <2>1, <2>4, <3>1, Acknowledged DEF TouchedBy
    <3>2. CASE ~(target = "vault" /\ job[w].field = Main)
      <4>1. ~TouchedBy(job[w], m, f)
        BY <1>1, <2>4, <3>2, ProviderStoreAssumption DEF TouchedBy
      <4>2. Protected(m)' => store'[m].fields[f] = store[m].fields[f] \/ store[m].fields[f] = None
        BY <1>2, <1>5, <2>4, <3>2
      <4> QED BY <1>1, <1>5, <2>1, <4>1, <4>2, Acknowledged
    <3> QED BY <3>1, <3>2
  <2> QED BY <2>2, <2>3, <2>4
<1> QED BY <1>4, <1>6, <1>7, <1>8, <1>9 DEF WriteInv

(* A call that writes nothing. *)
LEMMA ContinueKeeps ==
  ASSUME WriteInv, NEW w \in Writer, NEW l \in Done \cup StepsOf(target), Continue(w, l), pc[w] \notin Done,
         UNCHANGED <<target, job, overlap, purged, faults>>,
         local' = [u \in Writer |-> local'[u]], \A u \in Writer \ {w} : local'[u] = local[u],
         login' \in [session : BOOLEAN, outcome : {"none", "yes", "no"}, logins : Nat], LoginOK',
         WriterOK(w)',
         faults = 0 /\ target \in {"vault", "gcp-sm"} =>
           /\ l \notin {"metadata", "recreate", "last", "error"}
           /\ l \in {"retry", "add_again"} => Live(job[w].name)
  PROVE  WriteInv'
<1>1. /\ pc' \in [Writer -> Done \cup StepsOf(target)] /\ pc'[w] = l
      /\ \A u \in Writer \ {w} : pc'[u] = pc[u]
      /\ store' = store /\ acked' = acked
  BY DEF Continue, Goto, WriteInv, WriteTypes
<1>2. WriteTypes'
  BY <1>1 DEF WriteInv, WriteTypes
<1>3. OneActive'
  BY <1>1 DEF WriteInv, OneActive
<1>4. NoFaults'
  BY <1>1 DEF WriteInv, NoFaults, Live
<1>5. \A m : Protected(m)' <=> Protected(m)
  BY DEF Protected
<1>6. ASSUME NEW u \in Writer \ {w} PROVE WriterOK(u)'
  BY <1>1, <1>5, <1>6 DEF WriteInv, WriterOK
<1>7. ASSUME NEW m \in Name, NEW f \in Field PROVE AckOK(m, f)'
  BY <1>1, <1>5, NotAcknowledged
<1> QED BY <1>2, <1>3, <1>4, <1>6, <1>7 DEF WriteInv

LEMMA WithGood ==
  ASSUME NEW i \in GoodItem, NEW f \in Field, NEW v \in Value
  PROVE  /\ With(i, f, v) \in GoodItem /\ With(i, f, v).fields[f] = v
         /\ With(i, f, v).version = i.version + 1 /\ i.version \in Nat /\ With(i, f, v).state = "live"
         /\ \A g \in Field \ {f} : With(i, f, v).fields[g] = i.fields[g]
         /\ With(i, f, v).copies = i.copies
<1>1. i \in StoreItem /\ i.version \in Nat /\ i.fields \in [Field -> Value \cup {None}]
  BY DEF GoodItem, StoreItem
<1> DEFINE flds == [i.fields EXCEPT ![f] = v]
           x == [i EXCEPT !.state = "live", !.version = i.version + 1, !.fields = flds]
<1>2. /\ flds \in [Field -> Value \cup {None}] /\ flds[f] = v
      /\ \A g \in Field \ {f} : flds[g] = i.fields[g]
  BY <1>1
<1> HIDE DEF flds
<1>3. i.version + 1 \in Nat /\ i.version + 1 # 0
  BY <1>1
<1>4. /\ x \in StoreItem /\ x.fields = flds /\ x.version = i.version + 1 /\ x.state = "live"
      /\ x.copies = i.copies
  BY <1>1, <1>2, <1>3 DEF StoreItem
<1>5. With(i, f, v) = x
  BY <1>1 DEF With, flds, StoreItem
<1> HIDE DEF x
<1>6. x \in GoodItem
  BY <1>3, <1>4 DEF GoodItem
<1> QED BY <1>1, <1>2, <1>4, <1>5, <1>6

LEMMA OnlyGood ==
  ASSUME NEW i \in GoodItem, NEW f \in Field, NEW v \in Value
  PROVE  /\ Only(i, f, v) \in GoodItem /\ Only(i, f, v).fields[f] = v
         /\ Only(i, f, v).version = i.version + 1 /\ i.version \in Nat /\ Only(i, f, v).state = "live"
<1>1. i \in StoreItem /\ i.version \in Nat
  BY DEF GoodItem, StoreItem
<1> DEFINE flds == [Empty EXCEPT ![f] = v]
           x == [i EXCEPT !.state = "live", !.version = i.version + 1, !.fields = flds]
<1>2. flds \in [Field -> Value \cup {None}] /\ flds[f] = v
  BY DEF Empty
<1> HIDE DEF flds
<1>3. i.version + 1 \in Nat /\ i.version + 1 # 0
  BY <1>1
<1>4. x \in StoreItem /\ x.fields = flds /\ x.version = i.version + 1 /\ x.state = "live"
  BY <1>1, <1>2, <1>3 DEF StoreItem
<1>5. Only(i, f, v) = x
  BY <1>1 DEF Only, flds, StoreItem
<1> HIDE DEF x
<1>6. x \in GoodItem
  BY <1>3, <1>4 DEF GoodItem
<1> QED BY <1>1, <1>2, <1>4, <1>5, <1>6

(* One field is changed. *)
LEMMA CommitWith ==
  ASSUME WriteInv, NEW w \in Writer, pc[w] \notin Done,
         Commit(w, With(store[job[w].name], job[w].field, job[w].value)),
         UNCHANGED <<target, job, local, overlap, purged, faults, login>>
  PROVE  WriteInv'
<1> DEFINE i == With(store[job[w].name], job[w].field, job[w].value)
<1>1. /\ job[w].value \in Value /\ job[w].name \in Name /\ job[w].field \in Field
      /\ store[job[w].name] \in GoodItem
  BY WriterTypes
<1>2. /\ i \in GoodItem /\ i.fields[job[w].field] = job[w].value
      /\ i.version = store[job[w].name].version + 1 /\ store[job[w].name].version \in Nat /\ i.state = "live"
      /\ \A g \in Field \ {job[w].field} : i.fields[g] = store[job[w].name].fields[g]
  BY <1>1, WithGood, SMTT(30)
<1> HIDE DEF i
<1>3. i.version > store[job[w].name].version
  BY <1>2
<1>4. Commit(w, i)
  BY DEF i
<1>5. login' \in [session : BOOLEAN, outcome : {"none", "yes", "no"}, logins : Nat] /\ LoginOK'
  BY DEF WriteInv, WriteTypes, LoginOK
<1> QED BY <1>2, <1>3, <1>4, <1>5, CommitKeeps

(* The item is replaced: all of it was asked for, or it had no fields. *)
LEMMA CommitOnly ==
  ASSUME WriteInv, NEW w \in Writer, pc[w] \notin Done, target = "vault",
         Commit(w, Only(store[job[w].name], job[w].field, job[w].value)),
         job[w].field = Main \/ (Protected(job[w].name) => store[job[w].name].fields = Empty),
         UNCHANGED <<target, job, local, overlap, purged, faults, login>>
  PROVE  WriteInv'
<1> DEFINE i == Only(store[job[w].name], job[w].field, job[w].value)
<1>1. /\ job[w].value \in Value /\ job[w].name \in Name /\ job[w].field \in Field
      /\ store[job[w].name] \in GoodItem
  BY WriterTypes
<1>2. /\ i \in GoodItem /\ i.fields[job[w].field] = job[w].value
      /\ i.version = store[job[w].name].version + 1 /\ store[job[w].name].version \in Nat /\ i.state = "live"
  BY <1>1, OnlyGood
<1> HIDE DEF i
<1>3. i.version > store[job[w].name].version
  BY <1>2
<1>4. Commit(w, i)
  BY DEF i
<1>5. login' \in [session : BOOLEAN, outcome : {"none", "yes", "no"}, logins : Nat] /\ LoginOK'
  BY DEF WriteInv, WriteTypes, LoginOK
<1>6. store[job[w].name].fields = Empty => \A f \in Field : store[job[w].name].fields[f] = None
  BY DEF Empty
<1>7. Protected(job[w].name) =>
        /\ i.fields[job[w].field] = job[w].value
        /\ \A f \in Field \ {job[w].field} :
             \/ target = "vault" /\ job[w].field = Main
             \/ i.fields[f] = store[job[w].name].fields[f]
             \/ store[job[w].name].fields[f] = None
  BY <1>2, <1>6
<1> QED BY <1>2, <1>3, <1>4, <1>5, <1>7, CommitKeeps

(* The put goes on where nothing is known of the item yet, or fails. *)
LEMMA ContinueTo ==
  ASSUME WriteInv, NEW w \in Writer, NEW l \in Done \cup StepsOf(target), Continue(w, l), pc[w] \notin Done,
         UNCHANGED <<target, job, local, login, overlap, purged, faults>>,
         l \notin {"put", "save", "recreate"},
         l = "create_copy" /\ ~overlap => store[job[w].name].copies = <<>>,
         faults = 0 /\ target \in {"vault", "gcp-sm"} =>
           /\ l \notin {"metadata", "last", "error"}
           /\ l \in {"retry", "add_again"} => Live(job[w].name)
  PROVE  WriteInv'
<1>1. pc'[w] = l /\ store' = store
  BY DEF Continue, Goto, WriteInv, WriteTypes
<1>2. WriterOK(w)'
  BY <1>1, WriterTypes DEF WriterOK
<1>3. login' \in [session : BOOLEAN, outcome : {"none", "yes", "no"}, logins : Nat] /\ LoginOK'
  BY DEF WriteInv, WriteTypes, LoginOK
<1>4. local' = [u \in Writer |-> local'[u]]
  BY DEF WriteInv, WriteTypes
<1> QED BY <1>2, <1>3, <1>4, ContinueKeeps

(* `kv patch` finds the secret, or goes on. *)
LEMMA PatchKeeps ==
  ASSUME WriteInv, NEW w \in Writer, NEW l \in {"create", "metadata", "error"}, Patch(w, l), target = "vault",
         pc[w] \notin Done, UNCHANGED <<target, job, login, overlap, purged, faults>>,
         l = "create" \/ faults > 0 \/ Live(job[w].name)
  PROVE  WriteInv'
<1>1. CASE Live(job[w].name)
  BY <1>1, CommitWith DEF Patch
<1>2. CASE ~Live(job[w].name)
  <2>1. Continue(w, l) /\ UNCHANGED local
    BY <1>2 DEF Patch
  <2>2. l \in Done \cup StepsOf(target)
    BY DEF StepsOf, Done
  <2>3. faults = 0 => l = "create"
    BY <1>2
  <2> QED BY <2>1, <2>2, <2>3, ContinueTo
<1> QED BY <1>1, <1>2

(* The calls of a put belong to its provider. *)
LEMMA TargetOf ==
  ASSUME WriteInv, NEW w \in Writer
  PROVE  /\ pc[w] \in {"put", "patch", "create", "retry", "metadata", "recreate", "last"} => target = "vault"
         /\ pc[w] \in {"put_value", "create_secret"} => target = "aws-sm"
         /\ pc[w] \in {"add_version", "create_empty", "add_again"} => target = "gcp-sm"
         /\ pc[w] \in {"list", "edit", "create_copy"} => target = "bitwarden-sm"
         /\ pc[w] \in {"kv_put", "kv_again"} => target = "foks"
         /\ pc[w] \in {"open", "save"} => target = "keepass"
         /\ pc[w] = "overwrite" => target \notin {"vault", "gcp-sm", "bitwarden-sm", "keepass"}
<1>1. pc[w] \in Done \cup StepsOf(target) /\ target \in Target
  BY DEF WriteInv, WriteTypes
<1> QED BY <1>1 DEF Done, StepsOf, Target

LEMMA VaultKeeps ==
  ASSUME WriteInv, NEW w \in Writer, Vault(w)
  PROVE  WriteInv'
<1> USE DEF Done
<1> DEFINE n == job[w].name
<1>1. /\ n \in Name /\ store[n] \in GoodItem /\ WriterOK(w) /\ store[n].version \in Nat
      /\ (store[n].version = 0 => store[n].fields = Empty)
  BY WriterTypes DEF GoodItem, StoreItem
<1>2. /\ faults \in Nat
      /\ faults = 0 /\ target = "vault" => /\ pc[w] \notin {"metadata", "recreate", "last"}
                                           /\ pc[w] = "retry" => Live(n)
                                           /\ store[n].version > 0 => Live(n)
  BY <1>1, ProviderWritesAssumption DEF WriteInv, WriteTypes, NoFaults
<1>3. CASE At(w, "patch") /\ Patch(w, "create")
  BY <1>3, TargetOf, PatchKeeps DEF At
<1>4. CASE VaultCreate(w)
  <2>1. pc[w] = "create" /\ target = "vault" /\ UNCHANGED <<target, job, local, login, overlap, purged, faults>>
    BY <1>4, TargetOf DEF VaultCreate, At
  <2>2. CASE store[n].version = 0
    BY <1>1, <1>4, <2>1, <2>2, CommitOnly DEF VaultCreate
  <2>3. CASE store[n].version # 0
    <3>1. Continue(w, "retry")
      BY <1>4, <2>3 DEF VaultCreate
    <3>2. "retry" \in StepsOf(target) /\ (faults = 0 => Live(n))
      BY <1>1, <1>2, <2>1, <2>3 DEF StepsOf
    <3> QED BY <2>1, <3>1, <3>2, ContinueTo
  <2> QED BY <2>2, <2>3
<1>5. CASE At(w, "retry") /\ Patch(w, "metadata")
  <2>1. target = "vault" /\ pc[w] = "retry"
    BY <1>5, TargetOf DEF At
  <2>2. faults > 0 \/ Live(n)
    BY <1>2, <2>1
  <2> QED BY <1>5, <2>1, <2>2, PatchKeeps DEF At
<1>6. CASE DeletedSecretVersion(w)
  <2>1. /\ pc[w] = "metadata" /\ target = "vault" /\ UNCHANGED <<target, job, login, overlap, purged, faults>>
        /\ local' = [local EXCEPT ![w] = store[n].version]
    BY <1>6, TargetOf DEF DeletedSecretVersion, At
  <2>2. PICK l \in {"error", "recreate", "last"} : Continue(w, l) /\ (l = "recreate" => store[n].state = "deleted")
    BY <1>6 DEF DeletedSecretVersion
  <2>3. /\ local' = [u \in Writer |-> local'[u]] /\ local'[w] = store[n].version
        /\ \A u \in Writer \ {w} : local'[u] = local[u]
    BY <2>1 DEF WriteInv, WriteTypes
  <2>4. pc'[w] = l /\ store' = store
    BY <2>2 DEF Continue, Goto, WriteInv, WriteTypes
  <2>5. WriterOK(w)'
    <3>1. store[n].state = "deleted" => store[n].fields = Empty
      BY <1>1 DEF GoodItem
    <3> QED BY <1>1, <2>1, <2>2, <2>3, <2>4, <3>1 DEF WriterOK
  <2>6. l \in Done \cup StepsOf(target) /\ faults # 0
    BY <1>2, <2>1 DEF StepsOf
  <2>7. login' \in [session : BOOLEAN, outcome : {"none", "yes", "no"}, logins : Nat] /\ LoginOK'
    BY <2>1 DEF WriteInv, WriteTypes, LoginOK
  <2> QED BY <2>1, <2>2, <2>3, <2>5, <2>6, <2>7, ContinueKeeps
<1>7. CASE VaultRecreate(w)
  <2>1. pc[w] = "recreate" /\ target = "vault" /\ UNCHANGED <<target, job, local, login, overlap, purged, faults>>
    BY <1>7, TargetOf DEF VaultRecreate, At
  <2>2. CASE store[n].version = local[w]
    <3>1. Protected(n) => store[n].fields = Empty
      BY <1>1, <2>1, <2>2 DEF WriterOK
    <3> QED BY <1>7, <2>1, <2>2, <3>1, CommitOnly DEF VaultRecreate
  <2>3. CASE store[n].version # local[w]
    <3>1. Continue(w, "last") /\ "last" \in StepsOf(target) /\ faults # 0
      BY <1>2, <1>7, <2>1, <2>3 DEF VaultRecreate, StepsOf
    <3> QED BY <2>1, <3>1, ContinueTo
  <2> QED BY <2>2, <2>3
<1>8. CASE At(w, "last") /\ Patch(w, "error")
  <2>1. target = "vault" /\ pc[w] = "last"
    BY <1>8, TargetOf DEF At
  <2>2. faults > 0
    BY <1>2, <2>1
  <2> QED BY <1>8, <2>1, <2>2, PatchKeeps DEF At
<1>9. CASE VaultPut(w)
  <2>1. pc[w] = "put" /\ target = "vault" /\ UNCHANGED <<target, job, local, login, overlap, purged, faults>>
    BY <1>9, TargetOf DEF VaultPut, At
  <2>2. job[w].field = Main
    BY <1>1, <2>1 DEF WriterOK
  <2> QED BY <1>9, <2>1, <2>2, CommitOnly DEF VaultPut
<1> QED BY <1>3, <1>4, <1>5, <1>6, <1>7, <1>8, <1>9 DEF Vault

(* AWS, Azure, Google, and those that overwrite. *)
LEMMA CloudKeeps ==
  ASSUME WriteInv, NEW w \in Writer, Cloud(w)
  PROVE  WriteInv'
<1> USE DEF Done
<1> DEFINE n == job[w].name
<1>1. n \in Name /\ store[n] \in GoodItem /\ WriterOK(w)
  BY WriterTypes
<1>2. ASSUME pc[w] \notin Done, target \notin {"vault", "keepass"},
             Commit(w, With(store[n], Main, job[w].value)),
             UNCHANGED <<target, job, local, login, overlap, purged, faults>>
      PROVE  WriteInv'
  <2>1. job[w].field = Main
    BY <1>1, <1>2 DEF WriterOK
  <2> QED BY <1>2, <2>1, CommitWith
<1>3. CASE AwsPutValue(w)
  <2>1. pc[w] = "put_value" /\ target = "aws-sm" /\ UNCHANGED <<target, job, local, login, overlap, purged, faults>>
    BY <1>3, TargetOf DEF AwsPutValue, At
  <2>2. CASE Commit(w, With(store[n], Main, job[w].value))
    BY <1>2, <2>1, <2>2
  <2>3. CASE Continue(w, "create_secret") \/ Continue(w, "error")
    BY <2>1, <2>3, ContinueTo DEF StepsOf
  <2> QED BY <1>3, <2>2, <2>3 DEF AwsPutValue
<1>4. CASE AwsCreate(w)
  <2>1. pc[w] = "create_secret" /\ target = "aws-sm" /\ UNCHANGED <<target, job, local, login, overlap, purged, faults>>
    BY <1>4, TargetOf DEF AwsCreate, At
  <2>2. CASE Commit(w, With(store[n], Main, job[w].value))
    BY <1>2, <2>1, <2>2
  <2>3. CASE Continue(w, "error")
    BY <2>1, <2>3, ContinueTo DEF StepsOf
  <2> QED BY <1>4, <2>2, <2>3 DEF AwsCreate
<1>5. CASE GcpAdd(w)
  <2>1. /\ pc[w] \in {"add_version", "add_again"} /\ target = "gcp-sm"
        /\ UNCHANGED <<target, job, local, login, overlap, purged, faults>>
    BY <1>5, TargetOf DEF GcpAdd, At
  <2>2. CASE Live(n)
    <3>1. Commit(w, With(store[n], Main, job[w].value))
      BY <1>5, <2>2 DEF GcpAdd
    <3> QED BY <1>2, <2>1, <3>1
  <2>3. CASE ~Live(n)
    <3>1. pc[w] = "add_again" => faults # 0
      BY <2>1, <2>3 DEF WriteInv, NoFaults
    <3>2. CASE pc[w] = "add_version"
      <4>1. Continue(w, "create_empty") /\ "create_empty" \in StepsOf(target)
        BY <1>5, <2>1, <2>3, <3>2 DEF GcpAdd, StepsOf
      <4> QED BY <2>1, <4>1, ContinueTo
    <3>3. CASE pc[w] = "add_again"
      <4>1. Continue(w, "error")
        BY <1>5, <2>1, <2>3, <3>3 DEF GcpAdd
      <4> QED BY <2>1, <3>1, <3>3, <4>1, ContinueTo
    <3> QED BY <2>1, <3>2, <3>3
  <2> QED BY <2>2, <2>3
<1>6. CASE GcpCreate(w)
  <2>1. /\ pc[w] = "create_empty" /\ target = "gcp-sm"
        /\ UNCHANGED <<target, job, local, login, overlap, purged, faults, acked>>
        /\ store' = [store EXCEPT ![n].state = "live"] /\ Goto(w, "add_again")
    BY <1>6, TargetOf DEF GcpCreate, At
  <2>2. /\ [store[n] EXCEPT !.state = "live"] \in GoodItem /\ [store[n] EXCEPT !.state = "live"].state = "live"
        /\ [store[n] EXCEPT !.state = "live"].fields = store[n].fields
    BY <1>1 DEF GoodItem, StoreItem
  <2>3. /\ store' \in [Name -> GoodItem] /\ store'[n].state = "live" /\ store'[n].fields = store[n].fields
        /\ \A m \in Name \ {n} : store'[m] = store[m]
    BY <1>1, <2>1, <2>2 DEF WriteInv, WriteTypes
  <2>4. /\ pc' \in [Writer -> Done \cup StepsOf(target)] /\ pc'[w] = "add_again"
        /\ \A u \in Writer \ {w} : pc'[u] = pc[u]
    BY <2>1 DEF Goto, WriteInv, WriteTypes, StepsOf
  <2>5. WriteTypes'
    BY <2>1, <2>3, <2>4 DEF WriteInv, WriteTypes
  <2>6. OneActive' /\ LoginOK'
    BY <2>1, <2>4 DEF WriteInv, OneActive, LoginOK
  <2>7. NoFaults'
    <3> SUFFICES ASSUME faults = 0 PROVE NoFaults'
      BY <2>1 DEF NoFaults
    <3>1. \A m \in Name : store'[m].state # "deleted" /\ (store'[m].version > 0 => store'[m].state = "live")
      BY <2>1, <2>3 DEF WriteInv, NoFaults, Live
    <3>2. \A u \in Writer \ {w} : /\ pc[u] \notin {"metadata", "recreate", "last", "error"}
                                  /\ pc[u] \in {"retry", "add_again"} => store[job[u].name].state = "live"
      BY <2>1 DEF WriteInv, NoFaults, Live
    <3>3. \A u \in Writer : job[u].name \in Name
      BY WriterTypes
    <3>4. \A u \in Writer : /\ pc'[u] \notin {"metadata", "recreate", "last", "error"}
                            /\ pc'[u] \in {"retry", "add_again"} => store'[job'[u].name].state = "live"
      BY <2>1, <2>3, <2>4, <3>2, <3>3
    <3> QED BY <3>1, <3>4 DEF NoFaults, Live
  <2>8. ASSUME NEW u \in Writer PROVE WriterOK(u)'
    <3>1. WriterOK(u) /\ pc[u] \in Done \cup StepsOf("gcp-sm") /\ (pc[u] \in Done => pc'[u] \in Done \cup {"add_again"})
      BY <2>1, <2>4, WriterTypes
    <3>2. pc'[u] \in Done \cup {"add_version", "create_empty", "add_again"}
      BY <2>4, <3>1 DEF StepsOf
    <3>3. pc'[u] \notin Done => job[u].field = Main
      BY <1>1, <2>1, <2>4, <3>1 DEF WriterOK
    <3> QED BY <2>1, <3>2, <3>3 DEF WriterOK
  <2>9. ASSUME NEW m \in Name, NEW f \in Field PROVE AckOK(m, f)'
    <3>1. store'[m].fields[f] = store[m].fields[f] /\ (Protected(m)' => Protected(m))
      BY <2>1, <2>3 DEF Protected
    <3> QED BY <2>1, <3>1, NotAcknowledged
  <2> QED BY <2>5, <2>6, <2>7, <2>8, <2>9 DEF WriteInv
<1>7. ASSUME NEW prov, Overwrite(w, prov) PROVE WriteInv'
  <2>1. /\ pc[w] = "overwrite" /\ target \notin {"vault", "keepass"}
        /\ UNCHANGED <<target, job, local, login, overlap, purged, faults>>
    BY <1>7, TargetOf DEF Overwrite, At
  <2> QED BY <1>2, <1>7, <2>1 DEF Overwrite
<1>8. CASE AzureSet(w)
  <2>1. CASE At(w, "overwrite") /\ target = "azure-sm" /\ Continue(w, "error") /\ UNCHANGED local
    BY <2>1, ContinueTo DEF At
  <2> QED BY <1>7, <1>8, <2>1 DEF AzureSet
<1> QED BY <1>3, <1>4, <1>5, <1>6, <1>7, <1>8 DEF Cloud, PutParameter, KeychainSet, PassInsert, GopassInsert

(* Of two copies the first counts; a second one is made only when two puts overlap. *)
LEMMA BwsKeeps ==
  ASSUME WriteInv, NEW w \in Writer, Bws(w)
  PROVE  WriteInv'
<1> USE DEF Done
<1> DEFINE n == job[w].name
           v == job[w].value
           x == With(store[n], Main, v)
<1>1. n \in Name /\ store[n] \in GoodItem /\ WriterOK(w) /\ v \in Value /\ Main \in Field
  BY WriterTypes, ProviderStoreAssumption
<1>2. /\ pc[w] \in {"list", "edit", "create_copy"} /\ target = "bitwarden-sm"
      /\ UNCHANGED <<target, job, local, login, overlap, purged, faults>>
  BY TargetOf DEF Bws, BwsList, BwsEdit, BwsCreate, At
<1>3. job[w].field = Main
  BY <1>1, <1>2 DEF WriterOK
<1>4. /\ x \in GoodItem /\ x.fields[Main] = v /\ x.copies = store[n].copies
      /\ \A f \in Field \ {Main} : x.fields[f] = store[n].fields[f]
      /\ store[n].copies \in Seq(Value)
  BY <1>1, WithGood DEF GoodItem, StoreItem
<1>5. login' \in [session : BOOLEAN, outcome : {"none", "yes", "no"}, logins : Nat] /\ LoginOK'
  BY <1>2 DEF WriteInv, WriteTypes, LoginOK
<1> HIDE DEF x
<1>6. ASSUME NEW c \in Seq(Value), Commit(w, [x EXCEPT !.copies = c]) PROVE WriteInv'
  <2> DEFINE i == [x EXCEPT !.copies = c]
  <2>1. i \in GoodItem /\ i.fields = x.fields
    BY <1>4 DEF GoodItem, StoreItem
  <2> HIDE DEF i
  <2>2. Commit(w, i)
    BY <1>6 DEF i
  <2> QED BY <1>2, <1>3, <1>4, <1>5, <2>1, <2>2, CommitKeeps
<1>7. CASE BwsList(w)
  <2>1. CASE store[n].copies # <<>>
    <3>1. Continue(w, "edit") /\ "edit" \in StepsOf(target)
      BY <1>2, <1>7, <2>1 DEF BwsList, StepsOf
    <3> QED BY <1>2, <3>1, ContinueTo
  <2>2. CASE store[n].copies = <<>>
    <3>1. Continue(w, "create_copy") /\ "create_copy" \in StepsOf(target)
      BY <1>2, <1>7, <2>2 DEF BwsList, StepsOf
    <3> QED BY <1>2, <2>2, <3>1, ContinueTo
  <2> QED BY <2>1, <2>2
<1>8. CASE BwsEdit(w)
  <2>1. CASE store[n].copies # <<>>
    <3> DEFINE c == [store[n].copies EXCEPT ![1] = v]
    <3>1. c \in Seq(Value)
      BY <1>1, <1>4, <2>1
    <3>2. [x EXCEPT !.copies[1] = v] = [x EXCEPT !.copies = c]
      BY <1>4 DEF GoodItem, StoreItem
    <3>3. Commit(w, [x EXCEPT !.copies[1] = v])
      BY <1>8, <2>1 DEF BwsEdit, x
    <3> HIDE DEF c
    <3> QED BY <1>6, <3>1, <3>2, <3>3
  <2>2. CASE store[n].copies = <<>>
    <3>1. Continue(w, "error")
      BY <1>8, <2>2 DEF BwsEdit
    <3> QED BY <1>2, <3>1, ContinueTo
  <2> QED BY <2>1, <2>2
<1>9. CASE BwsCreate(w)
  <2> DEFINE c == Append(store[n].copies, v)
             i == [store[n] EXCEPT !.copies = c]
  <2>1. c \in Seq(Value)
    BY <1>1, <1>4
  <2> HIDE DEF c
  <2>2. i \in GoodItem /\ i.copies = c
    BY <1>1, <2>1 DEF GoodItem, StoreItem
  <2>3. i = [store[n] EXCEPT !.copies = Append(@, v)]
    BY <1>1 DEF GoodItem, StoreItem, c
  <2> HIDE DEF i
  <2>4. CASE store[n].copies = <<>>
    <3>1. Commit(w, [x EXCEPT !.copies = i.copies])
      BY <1>9, <2>3, <2>4 DEF BwsCreate, x
    <3> QED BY <1>6, <2>1, <2>2, <3>1
  <2>5. CASE store[n].copies # <<>>
    <3>1. Commit(w, i) /\ pc[w] = "create_copy"
      BY <1>9, <2>3, <2>5 DEF BwsCreate, At
    <3>2. ~Protected(n)
      BY <1>1, <1>2, <2>5, <3>1 DEF WriterOK, Protected, WriteInv, WriteTypes
    <3> QED BY <1>2, <1>5, <2>2, <3>1, <3>2, CommitKeeps
  <2> QED BY <2>4, <2>5
<1> QED BY <1>7, <1>8, <1>9 DEF Bws

(* The outcome of the one login is used by all. *)
LEMMA FoksKeeps ==
  ASSUME WriteInv, NEW w \in Writer, FoksPut(w)
  PROVE  WriteInv'
<1> USE DEF Done
<1> DEFINE LoginType == [session : BOOLEAN, outcome : {"none", "yes", "no"}, logins : Nat]
<1>1. /\ pc[w] \in {"kv_put", "kv_again"} /\ target = "foks" /\ WriterOK(w)
      /\ UNCHANGED <<target, job, local, overlap, purged, faults>>
      /\ login \in LoginType /\ LoginOK
  BY TargetOf, WriterTypes DEF FoksPut, WriteInv, WriteTypes
<1>2. CASE KvPutOnce(w)
  <2>1. job[w].field = Main
    BY <1>1 DEF WriterOK
  <2> QED BY <1>1, <1>2, <2>1, CommitWith DEF KvPutOnce
<1>3. CASE Continue(w, "error") /\ UNCHANGED login
  BY <1>1, <1>3, ContinueTo
<1>4. CASE TryAutoLogin(w)
  <2>1. login' \in LoginType /\ LoginOK'
    <3>1. CASE login.outcome = "none"
      <4>1. PICK ok \in BOOLEAN : login' = [session |-> ok, outcome |-> IF ok THEN "yes" ELSE "no",
                                            logins |-> login.logins + 1]
        BY <1>4, <3>1 DEF TryAutoLogin, RunBotLogin
      <4>2. login.logins + 1 \in Nat /\ login.logins + 1 <= 1
        BY <1>1, <3>1 DEF LoginOK
      <4> QED BY <4>1, <4>2 DEF LoginOK
    <3>2. CASE login.outcome # "none"
      BY <1>1, <1>4, <3>2 DEF TryAutoLogin, LoginOK
    <3> QED BY <3>1, <3>2
  <2>2. PICK l \in {"kv_again", "error"} : Continue(w, l)
    BY <1>4 DEF TryAutoLogin
  <2>3. l \in Done \cup StepsOf(target)
    BY <1>1 DEF StepsOf
  <2>4. pc'[w] = l
    BY <2>2 DEF Continue, Goto, WriteInv, WriteTypes
  <2>5. WriterOK(w)'
    BY <1>1, <2>4 DEF WriterOK
  <2>6. local' = [u \in Writer |-> local'[u]]
    BY <1>1 DEF WriteInv, WriteTypes
  <2> QED BY <1>1, <2>1, <2>2, <2>3, <2>5, <2>6, ContinueKeeps
<1> QED BY <1>2, <1>3, <1>4 DEF FoksPut

(* A database that is saved alone has everything that is still owed: what was deleted since *)
(* it was read owes nothing.                                                                *)
LEMMA SaveKeeps ==
  ASSUME WriteInv, NEW w \in Writer, SaveDatabase(w)
  PROVE  WriteInv'
<1> USE DEF Done
<1> DEFINE n == job[w].name
           db == local[w]
           x == With(db[n], job[w].field, job[w].value)
<1>1. /\ pc[w] = "save" /\ target = "keepass" /\ WriterOK(w)
      /\ UNCHANGED <<target, job, local, login, overlap, purged, faults>>
      /\ job[w] \in Entry /\ job[w].value \in Value /\ n \in Name /\ job[w].field \in Field
      /\ acked' = Append(acked, job[w]) /\ Goto(w, "ok")
      /\ store' = [db EXCEPT ![n] = x]
  BY TargetOf, WriterTypes DEF SaveDatabase, At, FindOrCreateEntry
<1>2. db \in [Name -> GoodItem] /\ (~overlap => \A m \in Name : db[m] = store[m] \/ store[m] = Missing)
  BY <1>1 DEF WriterOK
<1>3. /\ x \in GoodItem /\ x.fields[job[w].field] = job[w].value
      /\ \A f \in Field \ {job[w].field} : x.fields[f] = db[n].fields[f]
  <2>1. db[n] \in GoodItem
    BY <1>1, <1>2
  <2> HIDE DEF db
  <2> QED BY <1>1, <2>1, WithGood
<1> HIDE DEF x, db
<1>4. store' \in [Name -> GoodItem] /\ store'[n] = x /\ \A m \in Name \ {n} : store'[m] = db[m]
  BY <1>1, <1>2, <1>3
<1>5. /\ pc' \in [Writer -> Done \cup StepsOf(target)] /\ pc'[w] = "ok"
      /\ \A u \in Writer \ {w} : pc'[u] = pc[u]
  BY <1>1 DEF Goto, WriteInv, WriteTypes
<1>6. WriteTypes'
  <2>1. acked' \in Seq(Entry)
    BY <1>1 DEF WriteInv, WriteTypes
  <2> QED BY <1>1, <1>4, <1>5, <2>1 DEF WriteInv, WriteTypes
<1>7. OneActive' /\ LoginOK' /\ NoFaults'
  BY <1>1, <1>5 DEF WriteInv, OneActive, LoginOK, NoFaults
<1>8. ASSUME NEW u \in Writer PROVE WriterOK(u)'
  <2>1. CASE u = w
    BY <1>5, <2>1 DEF WriterOK
  <2>2. CASE u # w
    <3>1. WriterOK(u) /\ pc'[u] = pc[u] /\ pc[u] \in Done \cup {"open", "save"} /\ (~overlap => pc[u] \in Done)
      BY <1>1, <1>5, <2>2, WriterTypes DEF StepsOf, WriteInv, OneActive
    <3> QED BY <1>1, <3>1 DEF WriterOK
  <2> QED BY <2>1, <2>2
<1>9. ASSUME NEW m \in Name, NEW f \in Field PROVE AckOK(m, f)'
  <2>1. Protected(m)' => Protected(m) /\ ~overlap
    BY <1>1 DEF Protected
  <2>2. CASE m = n /\ f = job[w].field
    <3>1. TouchedBy(job[w], m, f) /\ store'[m].fields[f] = job[w].value
      BY <1>3, <1>4, <2>2 DEF TouchedBy
    <3> QED BY <1>1, <2>1, <3>1, Acknowledged
  <2>3. CASE ~(m = n /\ f = job[w].field)
    <3>1. ~TouchedBy(job[w], m, f)
      BY <1>1, <2>3, ProviderStoreAssumption DEF TouchedBy
    <3>2. store'[m].fields[f] = db[m].fields[f]
      BY <1>3, <1>4, <2>3
    <3>3. Missing.fields[f] = None
      BY DEF Missing, Empty
    <3>4. Protected(m)' => store'[m].fields[f] = store[m].fields[f] \/ store[m].fields[f] = None
      BY <1>2, <2>1, <3>2, <3>3
    <3> QED BY <1>1, <2>1, <3>1, <3>4, Acknowledged
  <2> QED BY <2>2, <2>3
<1> QED BY <1>6, <1>7, <1>8, <1>9 DEF WriteInv

LEMMA KeepassKeeps ==
  ASSUME WriteInv, NEW w \in Writer, Keepass(w)
  PROVE  WriteInv'
<1> USE DEF Done
<1>1. CASE OpenDatabase(w)
  <2>1. /\ pc[w] = "open" /\ target = "keepass" /\ WriterOK(w) /\ Continue(w, "save")
        /\ UNCHANGED <<target, job, login, overlap, purged, faults>>
        /\ local' = [local EXCEPT ![w] = store]
    BY <1>1, TargetOf, WriterTypes DEF OpenDatabase, At, Continue
  <2>2. /\ local' = [u \in Writer |-> local'[u]] /\ local'[w] = store
        /\ \A u \in Writer \ {w} : local'[u] = local[u]
    BY <2>1 DEF WriteInv, WriteTypes
  <2>3. pc'[w] = "save" /\ store' = store /\ store \in [Name -> GoodItem]
    BY <2>1 DEF Continue, Goto, WriteInv, WriteTypes
  <2>4. WriterOK(w)'
    BY <2>1, <2>2, <2>3 DEF WriterOK
  <2>5. "save" \in StepsOf(target)
    BY <2>1 DEF StepsOf
  <2>6. login' \in [session : BOOLEAN, outcome : {"none", "yes", "no"}, logins : Nat] /\ LoginOK'
    BY <2>1 DEF WriteInv, WriteTypes, LoginOK
  <2> QED BY <2>1, <2>2, <2>4, <2>5, <2>6, ContinueKeeps
<1> QED BY <1>1, SaveKeeps DEF Keepass

--------------------------------------------------------------------------------
(* Steps that begin or end a put, and what others do. *)

LEMMA StartKeeps ==
  ASSUME WriteInv, NEW w \in Writer, Start(w)
  PROVE  WriteInv'
<1> USE DEF Done
<1>1. /\ pc[w] = "idle" /\ WriterOK(w) /\ (job[w].field = Main \/ target \in {"vault", "keepass"})
      /\ UNCHANGED <<target, store, job, local, login, acked, purged, faults>>
      /\ Goto(w, FirstCall(w)) /\ overlap' = (overlap \/ Active # {})
  BY WriterTypes DEF Start
<1>2. /\ FirstCall(w) \in StepsOf(target) \ {"save", "recreate", "create_copy", "metadata", "last", "retry", "add_again"}
      /\ FirstCall(w) = "put" => job[w].field = Main
  BY DEF FirstCall, StepsOf, WriteInv, WriteTypes
<1> HIDE DEF Done
<1>3. /\ pc' \in [Writer -> Done \cup StepsOf(target)] /\ pc'[w] = FirstCall(w)
      /\ \A u \in Writer \ {w} : pc'[u] = pc[u]
  BY <1>1, <1>2 DEF Goto, WriteInv, WriteTypes
<1> USE DEF Done
<1>4. /\ overlap' \in BOOLEAN /\ (overlap => overlap')
      /\ ~overlap' => \A u \in Writer : pc[u] \in Done
  BY <1>1 DEF WriteInv, WriteTypes, Active
<1>5. WriteTypes'
  BY <1>1, <1>3, <1>4 DEF WriteInv, WriteTypes
<1>6. OneActive'
  BY <1>3, <1>4 DEF OneActive
<1>7. NoFaults' /\ LoginOK'
  BY <1>1, <1>2, <1>3 DEF WriteInv, NoFaults, LoginOK, Live, StepsOf
<1>8. \A m : Protected(m)' => Protected(m)
  BY <1>1, <1>4 DEF Protected
<1>9. ASSUME NEW u \in Writer PROVE WriterOK(u)'
  <2>1. CASE u = w
    BY <1>1, <1>2, <1>3, <2>1 DEF WriterOK
  <2>2. CASE u # w
    <3>1. WriterOK(u) /\ pc'[u] = pc[u] /\ (~overlap' => pc[u] \in Done)
      BY <1>3, <1>4, <2>2 DEF WriteInv
    <3> QED BY <1>1, <1>4, <1>8, <3>1 DEF WriterOK
  <2> QED BY <2>1, <2>2
<1>10. ASSUME NEW m \in Name, NEW f \in Field PROVE AckOK(m, f)'
  BY <1>1, <1>8, NotAcknowledged
<1> QED BY <1>5, <1>6, <1>7, <1>9, <1>10 DEF WriteInv

LEMMA FailKeeps ==
  ASSUME WriteInv, NEW w \in Writer, Fail(w)
  PROVE  WriteInv'
<1> USE DEF Done
<1>1. /\ UNCHANGED <<target, store, job, local, login, acked, overlap, purged>>
      /\ Goto(w, "error") /\ faults' = faults + 1 /\ faults' \in 0..MaxFaults /\ faults' # 0
  BY ProviderWritesAssumption DEF Fail, Change, WriteInv, WriteTypes
<1>2. /\ pc' \in [Writer -> Done \cup StepsOf(target)] /\ pc'[w] = "error"
      /\ \A u \in Writer \ {w} : pc'[u] = pc[u]
  BY <1>1 DEF Goto, WriteInv, WriteTypes
<1>3. WriteTypes'
  BY <1>1, <1>2 DEF WriteInv, WriteTypes
<1>4. OneActive' /\ LoginOK' /\ NoFaults'
  BY <1>1, <1>2 DEF WriteInv, OneActive, LoginOK, NoFaults
<1>5. \A m : Protected(m)' <=> Protected(m)
  BY <1>1 DEF Protected
<1>6. ASSUME NEW u \in Writer PROVE WriterOK(u)'
  BY <1>1, <1>2, <1>5, <1>6 DEF WriteInv, WriterOK
<1>7. ASSUME NEW m \in Name, NEW f \in Field PROVE AckOK(m, f)'
  BY <1>1, <1>5, NotAcknowledged
<1> QED BY <1>3, <1>4, <1>6, <1>7 DEF WriteInv

LEMMA VaultPutFailsKeeps ==
  ASSUME WriteInv, NEW w \in Writer, VaultPutFails(w)
  PROVE  WriteInv'
<1> USE DEF Done
<1> DEFINE l == IF pc[w] = "create" THEN "retry" ELSE "last"
<1>1. /\ UNCHANGED <<target, store, job, local, login, acked, overlap, purged>>
      /\ Goto(w, l) /\ faults' = faults + 1 /\ faults' \in 0..MaxFaults /\ faults' # 0
      /\ pc[w] \in {"create", "recreate"}
  BY ProviderWritesAssumption DEF VaultPutFails, Continue, Change, WriteInv, WriteTypes
<1>2. target = "vault"
  BY <1>1 DEF WriteInv, WriteTypes, StepsOf
<1>3. l \in {"retry", "last"}
  OBVIOUS
<1> HIDE DEF l
<1>4. /\ pc' \in [Writer -> Done \cup StepsOf(target)] /\ pc'[w] = l
      /\ \A u \in Writer \ {w} : pc'[u] = pc[u]
  BY <1>1, <1>2, <1>3 DEF Goto, WriteInv, WriteTypes, StepsOf
<1>5. WriteTypes'
  BY <1>1, <1>4 DEF WriteInv, WriteTypes
<1>6. OneActive' /\ LoginOK' /\ NoFaults'
  BY <1>1, <1>3, <1>4 DEF WriteInv, OneActive, LoginOK, NoFaults
<1>7. \A m : Protected(m)' <=> Protected(m)
  BY <1>1 DEF Protected
<1>8. ASSUME NEW u \in Writer PROVE WriterOK(u)'
  BY <1>1, <1>3, <1>4, <1>7, <1>8 DEF WriteInv, WriterOK
<1>9. ASSUME NEW m \in Name, NEW f \in Field PROVE AckOK(m, f)'
  BY <1>1, <1>7, NotAcknowledged
<1> QED BY <1>5, <1>6, <1>8, <1>9 DEF WriteInv

LEMMA ExpireKeeps ==
  ASSUME WriteInv, Expire
  PROVE  WriteInv'
<1>1. /\ UNCHANGED <<target, store, job, pc, local, acked, overlap, purged>>
      /\ login' = [login EXCEPT !.session = FALSE]
      /\ faults' = faults + 1 /\ faults' \in 0..MaxFaults /\ faults' # 0
  BY ProviderWritesAssumption DEF Expire, Change, WriteInv, WriteTypes
<1>2. /\ login' \in [session : BOOLEAN, outcome : {"none", "yes", "no"}, logins : Nat]
      /\ login'.logins = login.logins /\ login'.outcome = login.outcome
  BY <1>1 DEF WriteInv, WriteTypes
<1>3. WriteTypes'
  BY <1>1, <1>2 DEF WriteInv, WriteTypes
<1>4. OneActive' /\ LoginOK' /\ NoFaults'
  BY <1>1, <1>2 DEF WriteInv, OneActive, LoginOK, NoFaults
<1>5. \A m : Protected(m)' <=> Protected(m)
  BY <1>1 DEF Protected
<1>6. ASSUME NEW u \in Writer PROVE WriterOK(u)'
  BY <1>1, <1>5, <1>6 DEF WriteInv, WriterOK
<1>7. ASSUME NEW m \in Name, NEW f \in Field PROVE AckOK(m, f)'
  BY <1>1, <1>5, NotAcknowledged
<1> QED BY <1>3, <1>4, <1>6, <1>7 DEF WriteInv

(* What is deleted has no fields, and owes nothing; its version stays unless it is purged. *)
LEMMA DeleteKeeps ==
  ASSUME WriteInv, NEW n \in Name, NEW purge \in BOOLEAN, Delete(n, purge)
  PROVE  WriteInv'
<1> USE DEF Done
<1> DEFINE e == [name |-> n, field |-> Main, value |-> None]
           gone == [store[n] EXCEPT !.state = "deleted", !.fields = Empty]
<1>1. /\ UNCHANGED <<target, job, pc, local, login, overlap>>
      /\ faults' = faults + 1 /\ faults' \in 0..MaxFaults /\ faults' # 0
      /\ acked' = Append(acked, e) /\ store[n] \in GoodItem
      /\ purged' = IF purge /\ target = "vault" THEN purged \cup {n} ELSE purged
  BY ProviderWritesAssumption DEF Delete, Change, WriteInv, WriteTypes
<1>2. e \in Entry /\ e.name = n /\ e.value = None
  BY ProviderStoreAssumption DEF Entry
<1> HIDE DEF e
<1>3. gone \in GoodItem /\ gone.fields = Empty /\ gone.version = store[n].version
  BY <1>1 DEF GoodItem, StoreItem, Empty
<1> HIDE DEF gone
<1>4. PICK x \in {Missing, gone} :
        /\ store' = [store EXCEPT ![n] = x]
        /\ x = Missing \/ (~purge /\ target \in {"vault", "aws-sm", "azure-sm"})
        /\ x = gone \/ purge \/ target \notin {"vault", "aws-sm", "azure-sm"}
  BY DEF Delete, gone
<1>5. /\ store' \in [Name -> GoodItem] /\ store'[n] = x /\ x.fields = Empty
      /\ \A m \in Name \ {n} : store'[m] = store[m]
  BY <1>3, <1>4, MissingGood DEF WriteInv, WriteTypes
<1>6. WriteTypes'
  <2>1. acked' \in Seq(Entry) /\ purged' \subseteq Name
    BY <1>1, <1>2 DEF WriteInv, WriteTypes
  <2> QED BY <1>1, <1>5, <2>1 DEF WriteInv, WriteTypes
<1>7. OneActive' /\ LoginOK' /\ NoFaults'
  BY <1>1 DEF WriteInv, OneActive, LoginOK, NoFaults
<1>8. \A m : Protected(m)' => Protected(m)
  BY <1>1 DEF Protected
<1>9. ASSUME NEW u \in Writer PROVE WriterOK(u)'
  <2>1. WriterOK(u) /\ pc[u] \in Done \cup StepsOf(target) /\ target \in Target
    BY WriterTypes DEF WriteInv, WriteTypes
  <2>2. CASE pc[u] \notin {"save", "recreate", "create_copy"}
    BY <1>1, <2>1, <2>2 DEF WriterOK
  <2>3. CASE pc[u] = "save"
    <3>1. target = "keepass"
      BY <2>3, TargetOf
    <3>2. x = Missing
      BY <1>4, <3>1
    <3> QED BY <1>1, <1>5, <2>1, <2>3, <3>2 DEF WriterOK
  <2>4. CASE pc[u] = "create_copy"
    <3>1. target = "bitwarden-sm"
      BY <2>4, TargetOf
    <3>2. x = Missing /\ Missing.copies = <<>>
      BY <1>4, <3>1 DEF Missing
    <3>3. ~overlap => store'[job[u].name].copies = <<>>
      BY <1>5, <2>1, <2>4, <3>2, WriterTypes DEF WriterOK
    <3> QED BY <1>1, <2>1, <2>4, <3>3 DEF WriterOK
  <2>5. CASE pc[u] = "recreate"
    <3>1. target = "vault" /\ job[u].name \in Name
      BY <2>5, TargetOf, WriterTypes
    <3>2. /\ local[u] \in Nat
          /\ job[u].name \notin purged => local[u] <= store[job[u].name].version
          /\ Protected(job[u].name) /\ store[job[u].name].version = local[u] => store[job[u].name].fields = Empty
      BY <2>1, <2>5 DEF WriterOK
    <3>3. job[u].name \notin purged' => job[u].name \notin purged /\ store'[job[u].name].version = store[job[u].name].version
      BY <1>1, <1>3, <1>4, <1>5, <3>1
    <3>4. Protected(job[u].name)' => Protected(job[u].name)
      BY <1>1 DEF Protected
    <3>5. Protected(job[u].name)' /\ store'[job[u].name].version = local[u] => store'[job[u].name].fields = Empty
      BY <1>5, <3>1, <3>2, <3>4
    <3> QED BY <1>1, <2>1, <2>5, <3>1, <3>2, <3>3, <3>5 DEF WriterOK
  <2> QED BY <2>2, <2>3, <2>4, <2>5
<1>10. ASSUME NEW m \in Name, NEW f \in Field PROVE AckOK(m, f)'
  <2>1. CASE m = n
    BY <1>1, <1>2, <1>8, <2>1, Acknowledged DEF TouchedBy
  <2>2. CASE m # n
    BY <1>1, <1>2, <1>5, <1>8, <2>2, Acknowledged DEF TouchedBy
  <2> QED BY <2>1, <2>2
<1> QED BY <1>6, <1>7, <1>9, <1>10 DEF WriteInv

LEMMA WriteNextKeeps == WriteInv /\ [WriteNext]_writeVars => WriteInv'
<1> SUFFICES ASSUME WriteInv, [WriteNext]_writeVars PROVE WriteInv'
  OBVIOUS
<1>1. CASE UNCHANGED writeVars
  <2>1. UNCHANGED <<target, store, job, pc, local, login, acked, overlap, purged, faults>>
    BY <1>1 DEF writeVars
  <2>2. WriteTypes' /\ OneActive' /\ NoFaults' /\ LoginOK'
    BY <2>1 DEF WriteInv, WriteTypes, OneActive, NoFaults, LoginOK, Live
  <2>3. \A m : Protected(m)' <=> Protected(m)
    BY <2>1 DEF Protected
  <2>4. ASSUME NEW u \in Writer PROVE WriterOK(u)'
    BY <2>1, <2>3, <2>4 DEF WriteInv, WriterOK
  <2>5. ASSUME NEW m \in Name, NEW f \in Field PROVE AckOK(m, f)'
    BY <2>1, <2>3, NotAcknowledged
  <2> QED BY <2>2, <2>4, <2>5 DEF WriteInv
<1>2. ASSUME NEW w \in Writer,
             Start(w) \/ Vault(w) \/ Cloud(w) \/ Bws(w) \/ FoksPut(w) \/ Keepass(w)
               \/ VaultPutFails(w) \/ Fail(w)
      PROVE  WriteInv'
  BY <1>2, StartKeeps, VaultKeeps, CloudKeeps, BwsKeeps, FoksKeeps, KeepassKeeps, VaultPutFailsKeeps, FailKeeps
<1>3. ASSUME NEW n \in Name, NEW purge \in BOOLEAN, Delete(n, purge) PROVE WriteInv'
  BY <1>3, DeleteKeeps
<1> QED BY <1>1, <1>2, <1>3, ExpireKeeps DEF WriteNext

LEMMA WriteInvSound == WriteInv => PutsSound
<1> SUFFICES ASSUME WriteInv PROVE PutsSound
  OBVIOUS
<1>1. WriteTypeOK
  <2>1. store \in [Name -> StoreItem]
    BY DEF WriteInv, WriteTypes, GoodItem
  <2>2. /\ target \in Target /\ job \in Jobs /\ overlap \in BOOLEAN /\ faults \in 0..MaxFaults
        /\ login.outcome \in {"none", "yes", "no"}
    BY DEF WriteInv, WriteTypes
  <2>3. Done \cup StepsOf(target) \subseteq
          {"idle", "ok", "error", "patch", "create", "retry", "metadata", "recreate",
           "last", "put", "put_value", "create_secret", "add_version", "create_empty",
           "add_again", "overwrite", "list", "edit", "create_copy", "kv_put",
           "kv_again", "open", "save"}
    BY <2>2 DEF Done, StepsOf, Target
  <2>4. pc \in [Writer -> {"idle", "ok", "error", "patch", "create", "retry", "metadata", "recreate",
                           "last", "put", "put_value", "create_secret", "add_version", "create_empty",
                           "add_again", "overwrite", "list", "edit", "create_copy", "kv_put",
                           "kv_again", "open", "save"}]
    <3>1. pc \in [Writer -> Done \cup StepsOf(target)]
      BY DEF WriteInv, WriteTypes
    <3> QED BY <2>3, <3>1
  <2> QED BY <2>1, <2>2, <2>4 DEF WriteTypeOK, StoreItem
<1>2. ASSUME NEW n \in Name, NEW f \in Field
      PROVE  LET i == Last(n, f)
             IN  (Protected(n) /\ i # 0 /\ acked[i].value # None /\ acked[i].field = f)
                     => store[n].fields[f] = acked[i].value
  <2>1. AckOK(n, f) /\ Len(acked) \in Nat /\ DOMAIN acked = 1..Len(acked)
    BY DEF WriteInv, WriteTypes
  <2>2. IsLast(Last(n, f), n, f)
    <3>1. \E i \in {0} \cup {j \in DOMAIN acked : Touches(j, n, f)} :
            \A j \in DOMAIN acked : Touches(j, n, f) => j <= i
      BY <2>1 DEF AckOK, IsLast
    <3> QED BY <3>1 DEF Last, IsLast
  <2>3. Last(n, f) # 0 => Last(n, f) \in 1..Len(acked)
    BY <2>1, <2>2 DEF IsLast
  <2> QED BY <2>1, <2>2, <2>3 DEF AckOK
<1>3. AckedKept
  BY <1>2 DEF AckedKept
<1>4. CreateTogether
  <2>1. faults \in Nat
    BY ProviderWritesAssumption DEF WriteInv, WriteTypes
  <2> QED BY <2>1 DEF WriteInv, NoFaults, CreateTogether
<1>5. LogsInOnce
  BY DEF WriteInv, LoginOK, LogsInOnce
<1> QED BY <1>1, <1>3, <1>4, <1>5 DEF PutsSound

(* However the calls of any number of puts and deletions interleave, a put that reported      *)
(* success stays until something later writes the field or removes the item; processes that   *)
(* create one secret of Google or Vault do not fail each other; FOKS logs in once.            *)
THEOREM PutsAreSound == Spec => []PutsSound
<1>1. Init => WriteInv
  BY WriteStarts DEF Init
<1>2. WriteInv /\ [Next]_vars => WriteInv'
  BY WriteNextKeeps DEF Next, vars
<1> QED BY <1>1, <1>2, WriteInvSound, PTL DEF Spec

--------------------------------------------------------------------------------
(* Reading.  1Password is left to TLC: what `op inject` prints is sorted out by a recursion *)
(* over its lines.                                                                          *)

World == [svc : Trouble \cup {"up"}, store : [Name -> Item \cup {Absent}], login : BOOLEAN]

(* What each provider's calls are like. *)
CallOK(c) ==
  /\ c \in [keys : SUBSET Keys, how : {"get", "batch", "prime"}]
  /\ c.how = "batch" => /\ provider \in {"aws-sm", "aws-ps", "bitwarden-sm", "doppler", "infisical", "kubernetes"}
                        /\ provider = "doppler" => Len(batch) > 1
  /\ c.how = "prime" => provider = "keeper"

(* An answer agrees with reading the secret alone in one state of the world, in which also *)
(* the login did not fail unless it says so.                                               *)
AnswerOK(k, x, w) ==
  /\ x \in Value \cup Failure \cup {None}
  /\ \/ Agree(x, Get(w, batch[k]))
     \/ provider = "doppler" /\ Len(batch) > 1 /\ (x = "cli" \/ Printed(x) = Get(w, batch[k]))
  /\ Get(w, batch[k]) = "auth" => x = "auth" \/ provider = "bitwarden-sm"

ResultOK(k) ==
  \/ results[k] = "pending" /\ \E c \in calls : k \in c.keys
  \/ \E w \in seen : AnswerOK(k, results[k], w)

ReadInv ==
  /\ provider \in Provider /\ batch \in Seq(Ref) /\ world \in World /\ seen \subseteq World
  /\ calls # {} => world \in seen
  /\ changes \in 0..MaxChanges /\ results = [k \in Keys |-> results[k]]
  /\ provider # "1password" => (\A c \in calls : CallOK(c)) /\ (\A k \in Keys : ResultOK(k))

LEMMA FindTypes ==
  ASSUME NEW w \in World, NEW n
  PROVE  Find(w, n) \in Item \cup {Absent}
BY DEF Find, World

LEMMA TextTypes ==
  ASSUME NEW i \in Item, NEW f
  PROVE  Text(i, f) \in Value \cup {"invalid"}
BY DEF Text, Item

(* What is printed is a text, or one that is not considered; a failure stays what it is. *)
LEMMA PrintedTypes ==
  ASSUME NEW t
  PROVE  /\ t \in Value => Printed(t) \in Value \cup {None}
         /\ t \notin Value => Printed(t) = t
<1>1. \A ls : Joined(ls) \in Value \cup {None}
  BY DEF Joined
<1> QED BY <1>1 DEF Printed

LEMMA ReadTypes ==
  ASSUME NEW w \in World, NEW n, NEW f, NEW missing
  PROVE  /\ Read(w, n, f, missing) \in Value \cup {"invalid", missing}
         /\ Find(w, n) # Absent => Read(w, n, f, missing) = Text(Find(w, n), f)
         /\ Find(w, n) # Absent => Text(Find(w, n), f) \in Value \cup {"invalid"}
         /\ Find(w, n) = Absent => Read(w, n, f, missing) = missing
<1>1. Find(w, n) # Absent => Text(Find(w, n), f) \in Value \cup {"invalid"}
  BY FindTypes, TextTypes
<1> QED BY <1>1 DEF Read

LEMMA AuthNoText ==
  /\ "auth" \notin Value \cup {None} /\ "pending" \notin Value \cup {None}
  /\ \A x \in Failure : x \notin Value \cup {None}
BY ProviderReadsAssumption DEF Failure

(* Every provider answers a single read with a text or a failure; None stands for a text   *)
(* that is not among those considered.                                                     *)
LEMMA GetTypes ==
  ASSUME NEW w \in World, NEW r, provider \in Provider, provider # "1password"
  PROVE  Get(w, r) \in Value \cup Failure \cup {None}
<1> USE DEF Failure
<1>0. w.svc \in Trouble \cup {"up"}
  BY DEF World
<1>1. CASE provider \in {"aws-sm", "aws-ps", "gcp-sm", "azure-sm", "azure-ac"}
  <2>1. Read(w, Whole(r), Main, "notfound") \in Value \cup Failure
    BY ReadTypes
  <2> QED BY <1>0, <1>1, <2>1 DEF Get, AwsSmGet, AwsPsGet, GcpGet, AzureSmGet, AzureAcGet, AwsSmError, AwsPsError,
              GcpError, AzureAcStatus
<1>2. CASE provider = "vault"
  <2> DEFINE ref == VaultReference(r)
             t == Read(w, ref.name, ref.field, "cli")
  <2>1. Get(w, r) = CASE ref = Malformed -> "invalid"
                      [] ref # Malformed /\ VaultRun(w) # "success" -> VaultRun(w)
                      [] OTHER -> IF t \in Value THEN Printed(t) ELSE "cli"
    BY <1>2 DEF Get, VaultGet
  <2>2. VaultRun(w) \in {"success", "cli", "auth", "nocli"}
    BY DEF VaultRun
  <2> HIDE DEF ref, t
  <2> QED BY <2>1, <2>2, PrintedTypes
<1>3. CASE provider = "bitwarden-sm"
  <2>1. BwsResolve(w, r) \in Value \cup Failure
    BY ReadTypes DEF BwsResolve
  <2> QED BY <1>3, <2>1 DEF Get, BwsGet, BwsRun
<1>4. CASE provider = "doppler"
  <2>1. CASE Find(w, Whole(r)) = Absent \/ w.svc # "up"
    BY <1>4, <2>1 DEF Get, DopplerGet, DopplerClassify
  <2>2. CASE Find(w, Whole(r)) # Absent /\ w.svc = "up"
    <3>1. Text(Find(w, Whole(r)), Main) \in Value \cup {"invalid"}
      BY <2>2, ReadTypes
    <3>2. Get(w, r) = Printed(Text(Find(w, Whole(r)), Main))
      BY <1>4, <2>2 DEF Get, DopplerGet
    <3> QED BY <3>1, <3>2, PrintedTypes
  <2> QED BY <2>1, <2>2
<1>5. CASE provider = "infisical"
  <2>1. Read(w, Whole(r), Main, "notfound") \in Value \cup Failure
    BY ReadTypes
  <2>2. InfisicalRun(w) # "success" => InfisicalRun(w) \in Failure
    BY DEF InfisicalRun, InfisicalClassify
  <2> QED BY <1>5, <2>1, <2>2 DEF Get, InfisicalGet
<1>6. CASE provider = "keeper"
  BY <1>6 DEF Get, KeeperGet, KeeperError
<1>7. CASE provider = "kubernetes"
  <2> DEFINE ref == KubernetesReference(r)
  <2>1. ASSUME NEW i \in Item, NEW key PROVE ReadSecretValue(i, key) \in Value \cup Failure
    <3>1. \A f \in {g \in Field : i[g] # None} : i[f] \in Value
      BY DEF Item
    <3> QED BY <3>1, TextTypes DEF ReadSecretValue
  <2>2. Find(w, ref.name) # Absent => ReadSecretValue(Find(w, ref.name), ref.key) \in Value \cup Failure
    BY <2>1, FindTypes
  <2>3. KubernetesAnswer(w, ref) \in Value \cup Failure
    BY <2>2 DEF KubernetesAnswer, KubernetesError
  <2> QED BY <1>7, <2>3 DEF Get, KubernetesGet
<1>8. CASE provider = "passwordstate"
  <2> DEFINE ref == PasswordstateReference(r)
  <2>1. PasswordstateEntry(w, ref.name) \in Failure \cup {"found"}
    BY DEF PasswordstateEntry
  <2>2. PasswordstateEntry(w, ref.name) = "found" => Find(w, ref.name) # Absent
    BY DEF PasswordstateEntry
  <2>3. Find(w, ref.name) # Absent => Text(Find(w, ref.name), ref.field) \in Value \cup Failure
    BY ReadTypes
  <2> QED BY <1>8, <2>1, <2>2, <2>3 DEF Get, PasswordstateGet
<1>9. CASE provider = "bitwarden"
  <2> DEFINE n == SelectEntry(w, r.path[1])
             listed == {m \in Name : Find(w, m) # Absent}
             near == IF r.path[1] \in listed THEN {r.path[1]} ELSE listed \cap Similar[r.path[1]]
             field == IF Len(r.path) = 1 THEN Main ELSE Rest(r)
  <2>1. near \subseteq listed
    OBVIOUS
  <2>2. n \in {"notfound", "cli"} \/ n \in listed
    <3>1. Cardinality({}) = 0
      BY FS_EmptySet
    <3>2. n = CASE near = {} -> "notfound"
                [] Cardinality(near) = 1 -> CHOOSE m \in near : TRUE
                [] OTHER -> "cli"
      BY DEF SelectEntry
    <3> HIDE DEF near, n
    <3>3. CASE near = {}
      BY <3>1, <3>2, <3>3
    <3>4. CASE near # {} /\ Cardinality(near) = 1
      <4>1. n = CHOOSE m \in near : TRUE
        BY <3>2, <3>4
      <4> QED BY <2>1, <3>4, <4>1
    <3>5. CASE near # {} /\ Cardinality(near) # 1
      BY <3>2, <3>5
    <3> QED BY <3>3, <3>4, <3>5
  <2> HIDE DEF n
  <2>3. n \in listed => Text(Find(w, n), field) \in Value \cup {"invalid"}
    BY ReadTypes
  <2>4. BitwardenRun(w) # "success" => BitwardenRun(w) \in Failure
    BY DEF BitwardenRun
  <2>5. Get(w, r) = CASE BitwardenRun(w) # "success" -> BitwardenRun(w)
                      [] BitwardenRun(w) = "success" /\ n \in {"notfound", "cli"} -> n
                      [] OTHER -> Printed(Text(Find(w, n), field))
    BY <1>9 DEF Get, BitwardenGet, n
  <2> HIDE DEF field
  <2>6. n \in listed => Printed(Text(Find(w, n), field)) \in Value \cup {None, "invalid"}
    BY <2>3, PrintedTypes
  <2> HIDE DEF listed
  <2> QED BY <2>2, <2>4, <2>5, <2>6
<1>10. CASE provider = "proton-pass"
  <2> DEFINE ref == IF r.scheme = "id"
                    THEN [name |-> r.path[1], field |-> IF Len(r.path) = 1 THEN Main ELSE Rest(r)]
                    ELSE ProtonReference(r)
             t == Read(w, ref.name, ref.field, ProtonClassify("missing"))
  <2>1. Get(w, r) = CASE ref = Malformed -> "invalid"
                      [] ref # Malformed /\ w.svc # "up" -> ProtonClassify(w.svc)
                      [] OTHER -> IF t = "invalid" THEN ProtonClassify("no_field") ELSE Printed(t)
    BY <1>10 DEF Get, ProtonGet
  <2>2. \A x : ProtonClassify(x) \in Failure
    BY DEF ProtonClassify
  <2>3. t \in Value \cup Failure
    <3> HIDE DEF ref
    <3> QED BY <2>2, ReadTypes
  <2>4. Printed(t) \in Value \cup Failure \cup {None}
    BY <2>3, PrintedTypes
  <2> HIDE DEF ref, t
  <2> QED BY <2>1, <2>2, <2>3, <2>4
<1> QED BY <1>1, <1>2, <1>3, <1>4, <1>5, <1>6, <1>7, <1>8, <1>9, <1>10 DEF Provider

(* What a single read answers agrees with itself. *)
LEMMA SingleOK ==
  ASSUME NEW w \in World, provider \in Provider, provider # "1password", NEW k
  PROVE  AnswerOK(k, Get(w, batch[k]), w)
BY GetTypes DEF AnswerOK, Agree

(* An answer that agrees with a single read: the same, or another failure than that of the *)
(* login.                                                                                   *)
LEMMA SimilarOK ==
  ASSUME NEW w \in World, provider \in Provider, provider # "1password", NEW k, NEW x,
         \/ x = Get(w, batch[k])
         \/ x \in Failure /\ Get(w, batch[k]) \in Failure \ {"auth"}
  PROVE  AnswerOK(k, x, w)
BY GetTypes DEF AnswerOK, Agree

LEMMA AwsBatchOK ==
  ASSUME NEW w \in World, NEW K, NEW k \in K
  PROVE  /\ provider = "aws-sm" => AnswerOK(k, AwsSmBatch(w, K)[k], w)
         /\ provider = "aws-ps" => AnswerOK(k, AwsPsBatch(w, K)[k], w)
<1> DEFINE id == Whole(batch[k])
           ids == {Whole(batch[j]) : j \in K}
<1>0. id \in ids
  OBVIOUS
<1>1. \A n : k \in SecretIdToKeys(K, n) <=> n = id
  BY DEF SecretIdToKeys
<1>2. Find(w, id) = Absent => Read(w, id, Main, "notfound") = "notfound"
  BY ReadTypes
<1>3. Find(w, id) # Absent => Read(w, id, Main, "notfound") = Text(Find(w, id), Main)
  BY ReadTypes
<1>4. ASSUME provider = "aws-sm" PROVE AnswerOK(k, AwsSmBatch(w, K)[k], w)
  <2> DEFINE values == {n \in ids : Find(w, n) # Absent}
             Of(some) == {n \in some : k \in SecretIdToKeys(K, n)}
  <2>1. AwsSmBatch(w, K)[k] = CASE w.svc # "up" -> AwsSmError(w.svc)
                                [] w.svc = "up" /\ Of(values) # {} -> Text(Find(w, id), Main)
                                [] w.svc = "up" /\ Of(ids \ values) # {} -> "api"
                                [] OTHER -> "notfound"
    BY DEF AwsSmBatch
  <2>2. Get(w, batch[k]) = IF w.svc # "up" THEN AwsSmError(w.svc) ELSE Read(w, id, Main, "notfound")
    BY <1>4 DEF Get, AwsSmGet
  <2>3. Of(values) # {} <=> Find(w, id) # Absent
    BY <1>0, <1>1
  <2>4. Of(ids \ values) # {} <=> Find(w, id) = Absent
    BY <1>0, <1>1
  <2>5. AwsSmBatch(w, K)[k] = Get(w, batch[k]) \/ (AwsSmBatch(w, K)[k] = "api" /\ Get(w, batch[k]) = "notfound")
    <3> HIDE DEF id, ids, values, Of
    <3> QED BY <1>2, <1>3, <2>1, <2>2, <2>3, <2>4
  <2>6. "api" \in Failure /\ "notfound" \in Failure \ {"auth"}
    BY DEF Failure
  <2> QED BY <1>4, <2>5, <2>6, SimilarOK DEF Provider
<1>5. ASSUME provider = "aws-ps" PROVE AnswerOK(k, AwsPsBatch(w, K)[k], w)
  <2> DEFINE found == {n \in ids : Find(w, n) # Absent}
             Has == \E n \in found : k \in SecretIdToKeys(K, n)
  <2>1. AwsPsBatch(w, K)[k] = CASE w.svc # "up" -> AwsPsError(w.svc)
                                [] w.svc = "up" /\ Has -> Text(Find(w, id), Main)
                                [] OTHER -> "notfound"
    BY DEF AwsPsBatch
  <2>2. Get(w, batch[k]) = IF w.svc # "up" THEN AwsPsError(w.svc) ELSE Read(w, id, Main, "notfound")
    BY <1>5 DEF Get, AwsPsGet
  <2>3. Has <=> Find(w, id) # Absent
    BY <1>0, <1>1
  <2>4. AwsPsBatch(w, K)[k] = Get(w, batch[k])
    <3> HIDE DEF id, ids, Has, found
    <3> QED BY <1>2, <1>3, <2>1, <2>2, <2>3
  <2> QED BY <1>5, <2>4, SimilarOK DEF Provider
<1> QED BY <1>4, <1>5

LEMMA BwsBatchOK ==
  ASSUME NEW w \in World, NEW K, NEW k \in K, provider = "bitwarden-sm"
  PROVE  AnswerOK(k, BwsBatch(w, K)[k], w)
<1>1. CASE BwsRun(w) = "success"
  <2>1. BwsBatch(w, K)[k] = Get(w, batch[k])
    BY <1>1 DEF BwsBatch, Get, BwsGet
  <2> QED BY <2>1, SingleOK DEF Provider
<1>2. CASE BwsRun(w) # "success"
  <2>1. BwsBatch(w, K)[k] = "cli" /\ Get(w, batch[k]) = BwsRun(w)
    BY <1>2 DEF BwsBatch, Get, BwsGet
  <2>2. BwsRun(w) \in {"auth", "nocli", "cli"}
    BY <1>2 DEF BwsRun
  <2> QED BY <2>1, <2>2 DEF AnswerOK, Agree, Failure
<1> QED BY <1>1, <1>2

(* Refusing a batch is a failure of the tool, not of the login. *)
LEMMA DopplerBatchOK ==
  ASSUME NEW w \in World, NEW K, NEW k \in K, NEW refuses, provider = "doppler", Len(batch) > 1
  PROVE  AnswerOK(k, DopplerBatch(w, K, refuses)[k], w)
<1> DEFINE n == Whole(batch[k])
           t == Read(w, n, Main, "notfound")
<1>0. /\ t \in Value \cup {"invalid", "notfound"}
      /\ Find(w, n) # Absent => t = Text(Find(w, n), Main)
      /\ Find(w, n) = Absent => t = "notfound"
  BY ReadTypes
<1>1. Get(w, batch[k]) = IF w.svc # "up" THEN DopplerClassify(w.svc, TRUE)
                         ELSE IF Find(w, n) = Absent THEN "notfound" ELSE Printed(Text(Find(w, n), Main))
  BY DEF Get, DopplerGet, DopplerClassify
<1>2. w.svc = "up" => Get(w, batch[k]) = Printed(t)
  <2>1. "notfound" \notin Value
    BY AuthNoText DEF Failure
  <2>2. Printed("notfound") = "notfound"
    BY <2>1, PrintedTypes
  <2> HIDE DEF n, t
  <2> QED BY <1>0, <1>1, <2>2
<1>3. CASE w.svc # "up"
  <2>1. DopplerClassify(w.svc, TRUE) = DopplerClassify(w.svc, FALSE)
    BY DEF DopplerClassify, World, Trouble
  <2>2. DopplerBatch(w, K, refuses)[k] = Get(w, batch[k])
    BY <1>1, <1>3, <2>1 DEF DopplerBatch, DopplerBatchError
  <2> QED BY <2>2, SingleOK DEF Provider
<1>4. CASE w.svc = "up" /\ refuses
  <2>1. DopplerBatch(w, K, refuses)[k] = "cli"
    BY <1>4 DEF DopplerBatch, DopplerBatchError, DopplerClassify
  <2> QED
    <3> HIDE DEF t
    <3>1. t \in Failure => Printed(t) = t
      BY AuthNoText, PrintedTypes
    <3>2. Printed(t) # "auth"
      BY <1>0, <3>1, PrintedTypes, AuthNoText DEF Failure
    <3> QED BY <1>2, <1>4, <2>1, <3>2 DEF AnswerOK, Failure
<1>5. CASE w.svc = "up" /\ ~refuses
  <2>1. DopplerBatch(w, K, refuses)[k] = IF t \in Value THEN t ELSE "notfound"
    BY <1>5 DEF DopplerBatch
  <2> HIDE DEF t
  <2>2. CASE t \in Value
    <3>1. Printed(t) # "auth"
      BY <2>2, PrintedTypes, AuthNoText
    <3> QED BY <1>2, <1>5, <2>1, <2>2, <3>1 DEF AnswerOK
  <2>3. CASE t \notin Value
    <3>1. Get(w, batch[k]) = t
      BY <1>2, <1>5, <2>3, PrintedTypes
    <3>2. DopplerBatch(w, K, refuses)[k] \in Failure /\ Get(w, batch[k]) \in Failure \ {"auth"}
      BY <1>0, <2>1, <2>3, <3>1 DEF Failure
    <3> QED BY <3>2, SimilarOK DEF Provider
  <2> QED BY <2>2, <2>3
<1> QED BY <1>3, <1>4, <1>5

LEMMA InfisicalBatchOK ==
  ASSUME NEW w \in World, NEW K, NEW k \in K, provider = "infisical"
  PROVE  AnswerOK(k, InfisicalBatch(w, K)[k], w)
<1> DEFINE t == Read(w, Whole(batch[k]), Main, "notfound")
<1>0. t \in Value \cup {"invalid", "notfound"}
  BY ReadTypes
<1>1. Get(w, batch[k]) = IF InfisicalRun(w) # "success" THEN InfisicalRun(w) ELSE t
  BY DEF Get, InfisicalGet
<1>2. InfisicalBatch(w, K)[k] = IF InfisicalRun(w) # "success" THEN InfisicalRun(w)
                                ELSE IF t \in Value THEN t ELSE "notfound"
  BY DEF InfisicalBatch
<1> HIDE DEF t
<1>3. \/ InfisicalBatch(w, K)[k] = Get(w, batch[k])
      \/ InfisicalBatch(w, K)[k] \in Failure /\ Get(w, batch[k]) \in Failure \ {"auth"}
  BY <1>0, <1>1, <1>2 DEF Failure
<1> QED BY <1>3, SimilarOK DEF Provider

(* What a call answers agrees with reading its secrets alone at that moment. *)
LEMMA AnswersOK ==
  ASSUME world \in World, provider \in Provider, provider # "1password",
         NEW c, CallOK(c), c.how # "prime", NEW answer \in Answers(c), NEW k \in c.keys
  PROVE  AnswerOK(k, answer[k], world)
<1>1. CASE c.how = "get"
  <2>1. answer[k] = Get(world, batch[k])
    BY <1>1 DEF Answers
  <2> QED BY <2>1, SingleOK
<1>2. CASE c.how = "batch"
  <2>1. provider \in {"aws-sm", "aws-ps", "bitwarden-sm", "doppler", "infisical", "kubernetes"}
    BY <1>2 DEF CallOK
  <2>2. CASE provider = "aws-sm"
    <3>1. answer = AwsSmBatch(world, c.keys)
      BY <1>2, <2>2 DEF Answers
    <3> QED BY <2>2, <3>1, AwsBatchOK
  <2>3. CASE provider = "aws-ps"
    <3>1. answer = AwsPsBatch(world, c.keys)
      BY <1>2, <2>3 DEF Answers
    <3> QED BY <2>3, <3>1, AwsBatchOK
  <2>4. CASE provider = "bitwarden-sm"
    <3>1. answer = BwsBatch(world, c.keys)
      BY <1>2, <2>4 DEF Answers
    <3> QED BY <2>4, <3>1, BwsBatchOK
  <2>5. CASE provider = "doppler"
    <3>1. PICK b : answer = DopplerBatch(world, c.keys, b)
      BY <1>2, <2>5 DEF Answers
    <3>2. Len(batch) > 1
      BY <1>2, <2>5 DEF CallOK
    <3> QED BY <2>5, <3>1, <3>2, DopplerBatchOK
  <2>6. CASE provider = "infisical"
    <3>1. answer = InfisicalBatch(world, c.keys)
      BY <1>2, <2>6 DEF Answers
    <3> QED BY <2>6, <3>1, InfisicalBatchOK
  <2>7. CASE provider = "kubernetes"
    <3>1. answer[k] = Get(world, batch[k])
      BY <1>2, <2>7 DEF Answers, KubernetesBatch, Get, KubernetesGet
    <3> QED BY <3>1, SingleOK
  <2> QED BY <2>1, <2>2, <2>3, <2>4, <2>5, <2>6, <2>7
<1> QED BY <1>1, <1>2 DEF CallOK

(* With another state of the world, a single read by the same provider is the same function. *)
LEMMA StepResults ==
  ASSUME provider' = provider, batch' = batch, seen \subseteq seen', NEW k, results'[k] = results[k],
         ResultOK(k), results[k] = "pending" => \E c \in calls' : k \in c.keys
  PROVE  ResultOK(k)'
<1>1. CASE results[k] = "pending" /\ \E c \in calls : k \in c.keys
  BY <1>1 DEF ResultOK
<1>2. ASSUME NEW w \in seen, AnswerOK(k, results[k], w) PROVE ResultOK(k)'
  <2>1. Get(w, batch[k])' = Get(w, batch[k])
    BY DEF Get
  <2>2. AnswerOK(k, results[k], w)'
    BY <1>2, <2>1 DEF AnswerOK
  <2> QED BY <2>2 DEF ResultOK
<1> QED BY <1>1, <1>2 DEF ResultOK

LEMMA PendingOK ==
  ASSUME NEW k, ResultOK(k), results[k] = "pending"
  PROVE  \E c \in calls : k \in c.keys
<1>1. \A w : ~AnswerOK(k, results[k], w)
  BY AuthNoText DEF AnswerOK, Failure
<1> QED BY <1>1 DEF ResultOK

LEMMA StepCalls ==
  ASSUME provider' = provider, batch' = batch, NEW c, CallOK(c)
  PROVE  CallOK(c)'
BY DEF CallOK, Keys

LEMMA SinglesOK ==
  ASSUME NEW K \in SUBSET Keys
  PROVE  /\ \A c \in Singles(K) : CallOK(c)
         /\ \A k \in K : \E c \in Singles(K) : k \in c.keys
<1>1. \A k \in K : CallOK(Call({k}, "get")) /\ k \in Call({k}, "get").keys
  BY DEF Call, CallOK
<1> QED BY <1>1 DEF Singles

(* The calls of a batch cover its secrets; with a single one Doppler is asked for that one. *)
LEMMA PlanOK ==
  ASSUME provider \in Provider, provider # "1password", batch \in Seq(Ref)
  PROVE  /\ \A c \in Plan : CallOK(c)
         /\ \A k \in Keys : \E c \in Plan : k \in c.keys
<1>0. Keys = 1..Len(batch) /\ Len(batch) \in Nat
  BY DEF Keys
<1>1. \A how, K : Call(K, how).keys = K /\ Call(K, how).how = how
                  /\ Call(K, how) \in [keys : {K}, how : {how}]
  BY DEF Call
<1>2. CASE provider \in {"aws-sm", "aws-ps"}
  <2> DEFINE Part(x) == {k \in Keys : (k - 1) \div BATCH_SIZE = x}
  <2>1. Plan = {Call(K, "batch") : K \in Chunks}
    BY <1>2 DEF Plan
  <2>2. \A K \in Chunks : K \in SUBSET Keys
    BY DEF Chunks
  <2>3. \A k \in Keys : \E K \in Chunks : k \in K
    <3> TAKE k \in Keys
    <3>1. Part((k - 1) \div BATCH_SIZE) \in Chunks
      BY DEF Chunks
    <3> QED BY <3>1
  <2>4. \A K \in Chunks : CallOK(Call(K, "batch"))
    BY <1>1, <1>2, <2>2 DEF CallOK
  <2> QED BY <1>1, <2>1, <2>3, <2>4
<1>3. CASE provider = "bitwarden-sm"
  <2>1. Plan = {Call(Keys, "batch")} \ {Call({}, "batch")}
    BY <1>3 DEF Plan
  <2>2. CallOK(Call(Keys, "batch"))
    BY <1>1, <1>3 DEF CallOK
  <2>3. Keys # {} => Call(Keys, "batch") # Call({}, "batch")
    BY <1>1
  <2> QED BY <1>1, <2>1, <2>2, <2>3
<1>4. CASE provider \in {"doppler", "infisical"}
  <2>1. Plan = Together(Keys)
    BY <1>4 DEF Plan
  <2>2. Cardinality(Keys) = Len(batch)
    BY <1>0, FS_Interval
  <2>3. CASE Len(batch) = 1
    <3>1. Plan = Singles(Keys)
      BY <2>1, <2>2, <2>3 DEF Together
    <3> QED BY <3>1, SinglesOK
  <2>4. CASE Len(batch) # 1
    <3>1. Plan = {Call(Keys, "batch")} \ {Call({}, "batch")}
      BY <2>1, <2>2, <2>4 DEF Together
    <3>2. Keys # {} => Len(batch) > 1
      <4>1. Len(batch) = 0 => 1..Len(batch) = {}
        OBVIOUS
      <4>2. Len(batch) = 0 \/ Len(batch) > 1
        BY <1>0, <2>4
      <4>3. Len(batch) = 0 => Keys = {}
        BY <1>0, <4>1, Zenon
      <4> QED BY <4>2, <4>3
    <3>3. Keys # {} => CallOK(Call(Keys, "batch"))
      BY <1>1, <1>4, <3>2 DEF CallOK
    <3>4. Keys # {} => Call(Keys, "batch") # Call({}, "batch")
      BY <1>1
    <3>5. CASE Keys = {}
      BY <3>1, <3>5
    <3>6. CASE Keys # {}
      <4>1. Plan = {Call(Keys, "batch")}
        BY <3>1, <3>4, <3>6
      <4> QED BY <1>1, <3>3, <3>6, <4>1
    <3> QED BY <3>5, <3>6
  <2> QED BY <2>3, <2>4
<1>5. CASE provider = "kubernetes"
  <2> DEFINE Part(k) == {j \in Keys : SameSecret(j, k)}
  <2>1. Plan = {Call(Part(k), "batch") : k \in Keys}
    BY <1>5 DEF Plan
  <2>2. \A k \in Keys : k \in Part(k) /\ Part(k) \in SUBSET Keys
    BY DEF SameSecret
  <2>3. \A k \in Keys : CallOK(Call(Part(k), "batch"))
    <3> HIDE DEF Part
    <3> QED BY <1>1, <1>5, <2>2 DEF CallOK
  <2> HIDE DEF Part
  <2> QED BY <1>1, <2>1, <2>2, <2>3
<1>6. CASE provider = "keeper" /\ ~world.login
  <2>1. Plan = {Call(Keys, "prime")} \ {Call({}, "prime")}
    BY <1>6 DEF Plan
  <2>2. CallOK(Call(Keys, "prime"))
    BY <1>1, <1>6 DEF CallOK
  <2>3. Keys # {} => Call(Keys, "prime") # Call({}, "prime")
    BY <1>1
  <2> QED BY <1>1, <2>1, <2>2, <2>3
<1>7. CASE /\ provider \notin {"aws-sm", "aws-ps", "bitwarden-sm", "doppler", "infisical", "kubernetes"}
           /\ ~(provider = "keeper" /\ ~world.login)
  <2>1. Plan = Singles(Keys)
    BY <1>7 DEF Plan
  <2> QED BY <2>1, SinglesOK
<1> QED BY <1>2, <1>3, <1>4, <1>5, <1>6, <1>7

LEMMA ReadStarts == ReadInit \/ ReadIdle => ReadInv
<1>1. ASSUME ReadInit PROVE ReadInv
  <2>1. world \in World /\ provider \in Provider /\ batch \in Seq(Ref)
    <3>1. PICK v \in {"up", "logged_out"}, s \in Stores : world = [svc |-> v, store |-> s, login |-> FALSE]
      BY <1>1 DEF ReadInit
    <3>2. s \in [Name -> Item \cup {Absent}] /\ v \in Trouble \cup {"up"}
      BY ProviderReadsAssumption DEF Trouble
    <3>3. world \in World
      BY <3>1, <3>2 DEF World
    <3> QED BY <1>1, <3>3, ProviderReadsAssumption DEF ReadInit
  <2>2. seen = {world} /\ changes \in 0..MaxChanges
    BY <1>1, ProviderReadsAssumption DEF ReadInit
  <2>3. results = [k \in Keys |-> results[k]] /\ \A k \in Keys : results[k] = "pending"
    BY <1>1 DEF ReadInit
  <2>4. ASSUME provider # "1password" PROVE (\A c \in calls : CallOK(c)) /\ (\A k \in Keys : ResultOK(k))
    <3>1. calls = Plan
      BY <1>1 DEF ReadInit
    <3>2. /\ \A c \in calls : CallOK(c)
          /\ \A k \in Keys : \E c \in calls : k \in c.keys
      BY <2>1, <2>4, <3>1, PlanOK
    <3> QED BY <2>3, <3>2 DEF ResultOK
  <2> QED BY <2>1, <2>2, <2>3, <2>4 DEF ReadInv
<1>2. ASSUME ReadIdle PROVE ReadInv
  <2>1. Keys = {} /\ results = [k \in Keys |-> results[k]]
    BY <1>2 DEF ReadIdle, Keys
  <2>2. world \in World
    BY <1>2 DEF ReadIdle, World
  <2> QED BY <1>2, <2>1, <2>2, ProviderReadsAssumption DEF ReadIdle, ReadInv, Provider
<1> QED BY <1>1, <1>2

(* An answer is recorded for all the secrets of its call, and for no others. *)
LEMMA RecordKeeps ==
  ASSUME ReadInv, provider # "1password", NEW c \in calls, NEW answer, Record(c, answer),
         provider' = provider, batch' = batch, seen \subseteq seen',
         \A k \in c.keys : AnswerOK(k, answer[k], world)
  PROVE  /\ results' = [k \in Keys |-> results'[k]]
         /\ \A d \in calls' : CallOK(d)'
         /\ \A k \in Keys : ResultOK(k)'
<1>1. calls' = calls \ {c} /\ results' = [k \in Keys |-> IF k \in c.keys THEN answer[k] ELSE results[k]]
  BY DEF Record
<1>2. \A d \in calls' : CallOK(d)'
  BY <1>1, StepCalls DEF ReadInv
<1>3. ASSUME NEW k \in Keys PROVE ResultOK(k)'
  <2>1. CASE k \in c.keys
    <3>1. AnswerOK(k, answer[k], world) /\ world \in seen'
      BY <2>1 DEF ReadInv
    <3>2. results'[k] = answer[k]
      BY <1>1, <2>1
    <3>3. PICK w : w = world
      OBVIOUS
    <3>4. Get(w, batch[k])' = Get(w, batch[k])
      BY DEF Get
    <3>5. AnswerOK(k, answer[k], w)
      BY <3>1, <3>3
    <3>6. AnswerOK(k, answer[k], w)'
      BY <3>4, <3>5 DEF AnswerOK
    <3> QED BY <3>1, <3>2, <3>3, <3>6 DEF ResultOK
  <2>2. CASE k \notin c.keys
    <3>1. results'[k] = results[k] /\ ResultOK(k)
      BY <1>1, <2>2 DEF ReadInv
    <3>2. results[k] = "pending" => \E d \in calls' : k \in d.keys
      BY <1>1, <2>2, <3>1, PendingOK
    <3> QED BY <3>1, <3>2, StepResults
  <2> QED BY <2>1, <2>2
<1> QED BY <1>1, <1>2, <1>3

LEMMA FetchKeeps ==
  ASSUME ReadInv, NEW c \in calls, Fetch(c)
  PROVE  ReadInv'
<1>0. /\ provider' = provider /\ batch' = batch /\ changes' = changes /\ Keys' = Keys
      /\ seen' = seen \cup {world'} /\ c.how # "prime"
  BY DEF Fetch, Keys
<1>1. PICK answer \in Answers(c) : Record(c, answer)
  BY DEF Fetch
<1>2. world' \in World
  <2>1. world \in World
    BY DEF ReadInv
  <2>2. world' = [world EXCEPT !.login = @ \/ (provider = "infisical" /\ world.svc = "up")]
    BY DEF Fetch
  <2> QED BY <2>1, <2>2 DEF World
<1>3. results' = [k \in Keys |-> results'[k]]
  BY <1>1 DEF Record
<1>4. ASSUME provider # "1password" PROVE (\A d \in calls' : CallOK(d)') /\ (\A k \in Keys : ResultOK(k)')
  <2>1. \A k \in c.keys : AnswerOK(k, answer[k], world)
    BY <1>0, <1>4, AnswersOK DEF ReadInv
  <2> QED BY <1>0, <1>1, <1>4, <2>1, RecordKeeps
<1> QED BY <1>0, <1>2, <1>3, <1>4 DEF ReadInv

LEMMA PrimeKeeps ==
  ASSUME ReadInv, NEW c \in calls, Prime(c)
  PROVE  ReadInv'
<1>0. /\ provider' = provider /\ batch' = batch /\ changes' = changes /\ Keys' = Keys
      /\ seen' = seen \cup {world'} /\ c.how = "prime"
  BY DEF Prime, Keys
<1>1. CASE world.svc = "up"
  <2>1. calls' = Singles(Keys) /\ results' = results /\ world' = [world EXCEPT !.login = TRUE]
    BY <1>1 DEF Prime
  <2>2. world' \in World
    BY <2>1 DEF ReadInv, World
  <2>3. ASSUME provider # "1password" PROVE (\A d \in calls' : CallOK(d)') /\ (\A k \in Keys : ResultOK(k)')
    <3>1. \A d \in calls' : CallOK(d)'
      BY <1>0, <2>1, SinglesOK, StepCalls
    <3>2. \A k \in Keys : \E d \in calls' : k \in d.keys
      BY <2>1, SinglesOK
    <3>3. \A k \in Keys : ResultOK(k)'
      BY <1>0, <2>1, <2>3, <3>2, StepResults DEF ReadInv
    <3> QED BY <3>1, <3>3
  <2> QED BY <1>0, <2>1, <2>2, <2>3 DEF ReadInv
<1>2. CASE world.svc # "up"
  <2> DEFINE answer == [k \in c.keys |-> KeeperError(world.svc)]
  <2>1. Record(c, answer) /\ world' = world
    BY <1>2 DEF Prime
  <2>2. results' = [k \in Keys |-> results'[k]]
    BY <2>1 DEF Record
  <2>3. ASSUME provider # "1password" PROVE (\A d \in calls' : CallOK(d)') /\ (\A k \in Keys : ResultOK(k)')
    <3>1. provider = "keeper"
      BY <1>0, <2>3 DEF ReadInv, CallOK
    <3>2. \A k \in c.keys : AnswerOK(k, answer[k], world)
      <4> TAKE k \in c.keys
      <4>1. answer[k] = Get(world, batch[k])
        BY <1>2, <3>1 DEF Get, KeeperGet
      <4> HIDE DEF answer
      <4> QED BY <2>3, <4>1, SingleOK DEF ReadInv
    <3> HIDE DEF answer
    <3> QED BY <1>0, <2>1, <2>3, <3>2, RecordKeeps
  <2> QED BY <1>0, <2>1, <2>2, <2>3 DEF ReadInv
<1> QED BY <1>1, <1>2

LEMMA DisturbKeeps ==
  ASSUME ReadInv, NEW w \in World, Disturb(w)
  PROVE  ReadInv'
<1>0. /\ provider' = provider /\ batch' = batch /\ calls' = calls /\ results' = results /\ Keys' = Keys
      /\ world' = w /\ seen' = seen \cup {w} /\ changes' = changes + 1 /\ changes < MaxChanges
  BY DEF Disturb, Keys
<1>1. changes' \in 0..MaxChanges
  BY <1>0, ProviderReadsAssumption DEF ReadInv
<1>2. ASSUME provider # "1password" PROVE (\A d \in calls' : CallOK(d)') /\ (\A k \in Keys : ResultOK(k)')
  <2>1. \A d \in calls' : CallOK(d)'
    BY <1>0, <1>2, StepCalls DEF ReadInv
  <2>2. ASSUME NEW k \in Keys PROVE ResultOK(k)'
    <3>1. ResultOK(k)
      BY <1>2 DEF ReadInv
    <3>2. results[k] = "pending" => \E c \in calls' : k \in c.keys
      BY <1>0, <3>1, PendingOK
    <3> QED BY <1>0, <3>1, <3>2, StepResults
  <2> QED BY <2>1, <2>2
<1> QED BY <1>0, <1>1, <1>2 DEF ReadInv

LEMMA ReadNextKeeps == ReadInv /\ [ReadNext]_readVars => ReadInv'
<1> SUFFICES ASSUME ReadInv, [ReadNext]_readVars PROVE ReadInv'
  OBVIOUS
<1>0. world \in World
  BY DEF ReadInv
<1>1. ASSUME NEW c \in calls, InjectFailed(c) PROVE ReadInv'
  <2>1. /\ provider' = "1password" /\ provider' = provider /\ batch' = batch /\ seen' = seen /\ world' = world
        /\ changes' = changes /\ Keys' = Keys /\ world \in seen
    BY <1>1 DEF InjectFailed, ReadInv, Keys
  <2>2. results' = [k \in Keys |-> results'[k]]
    BY <1>1 DEF InjectFailed
  <2> QED BY <2>1, <2>2 DEF ReadInv
<1>2. ASSUME NEW n \in Name, NEW i \in Items, Rotate(n, i) PROVE ReadInv'
  <2>1. i \in Item \cup {Absent}
    BY ProviderReadsAssumption
  <2>2. [world EXCEPT !.store[n] = i] \in World
    BY <1>0, <2>1 DEF World
  <2> QED BY <1>2, <2>2, DisturbKeeps DEF Rotate
<1>3. ASSUME NEW s \in Trouble \cup {"up"}, Service(s) PROVE ReadInv'
  <2>1. [world EXCEPT !.svc = s] \in World
    BY <1>0 DEF World
  <2> QED BY <1>3, <2>1, DisturbKeeps DEF Service
<1>4. CASE UNCHANGED readVars
  <2>1. /\ provider' = provider /\ batch' = batch /\ calls' = calls /\ results' = results /\ Keys' = Keys
        /\ world' = world /\ seen' = seen /\ changes' = changes
    BY <1>4 DEF readVars, Keys
  <2>2. ASSUME provider # "1password" PROVE (\A d \in calls' : CallOK(d)') /\ (\A k \in Keys : ResultOK(k)')
    <3>1. \A d \in calls' : CallOK(d)'
      BY <2>1, <2>2, StepCalls DEF ReadInv
    <3>2. \A k \in Keys : ResultOK(k)'
      <4> TAKE k \in Keys
      <4>1. ResultOK(k)
        BY <2>2 DEF ReadInv
      <4>2. results[k] = "pending" => \E c \in calls' : k \in c.keys
        BY <2>1, <4>1, PendingOK
      <4> QED BY <2>1, <4>1, <4>2, StepResults
    <3> QED BY <3>1, <3>2
  <2> QED BY <2>1, <2>2 DEF ReadInv
<1> QED BY <1>1, <1>2, <1>3, <1>4, FetchKeeps, PrimeKeeps DEF ReadNext

LEMMA ReadInvSound == ReadInv => (provider # "1password" => ReadsAgree)
<1> SUFFICES ASSUME ReadInv, provider # "1password" PROVE ReadsAgree
  OBVIOUS
<1>1. \A k \in Keys : results[k] # "pending" => \E w \in seen : AnswerOK(k, results[k], w)
  BY DEF ReadInv, ResultOK
<1>2. ReadTypeOK
  <2>1. provider \in Provider /\ changes \in 0..MaxChanges
    BY DEF ReadInv
  <2>2. world.svc \in Trouble \cup {"up"} /\ world.store \in [Name -> Item \cup {Absent}]
    BY DEF ReadInv, World
  <2>3. \A c \in calls : c.keys \in SUBSET Keys /\ c.how \in {"get", "batch", "env", "prime"}
    BY DEF ReadInv, CallOK
  <2>4. \A k \in Keys : results[k] \in Value \cup Failure \cup {"pending", None}
    BY <1>1 DEF AnswerOK
  <2>5. results = [k \in Keys |-> results[k]]
    BY DEF ReadInv
  <2>6. results \in [Keys -> Value \cup Failure \cup {"pending", None}]
    BY <2>4, <2>5
  <2> QED BY <2>1, <2>2, <2>3, <2>6 DEF ReadTypeOK
<1>3. BatchAgrees
  BY <1>1 DEF BatchAgrees, AnswerOK
<1>4. LoginReported
  BY <1>1 DEF LoginReported, AnswerOK
<1> QED BY <1>2, <1>3, <1>4 DEF ReadsAgree

(* Whatever the store, the references, the size of a batch and the moments at which the     *)
(* store and the service change: with every remote provider but 1Password, what a batch     *)
(* answers for a secret is what get_secret alone returns at some moment of the batch, up to *)
(* the blanks around a text that Doppler's single read trims and its batch does not, and a  *)
(* login that failed is reported as one (get_secrets_batch in crates/fnox-core/src/         *)
(* providers; the other exceptions are those of ReadsAgree).                                *)
THEOREM BatchesAgree == Spec => [](provider # "1password" => ReadsAgree)
<1>1. Init => ReadInv
  BY ReadStarts DEF Init
<1>2. ReadInv /\ [Next]_vars => ReadInv'
  BY ReadNextKeeps DEF Next, vars
<1> QED BY <1>1, <1>2, ReadInvSound, PTL DEF Spec
================================================================================
