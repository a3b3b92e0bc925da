------------------------- MODULE LocalProvidersProofs -------------------------
(***************************************************************************)
(* Proofs about the decryption on this machine, for any configs, tasks,    *)
(* processes and bounds.  AgeIdentity: calls wait for calls and for cells  *)
(* that somebody fills.  LocalSecrets: what the caches hold is what was    *)
(* accepted, and locks, the YubiKey and what was read belong to the task   *)
(* that is there.  PluginStore: what is in a plugin's directory is whole   *)
(* and what its record says, and a request that fails leaves what worked.  *)
(***************************************************************************)
EXTENDS LocalProviders, FiniteSetTheorems, SequenceTheorems, TLAPS

----------------------------------------------------------------------------
(* Age identities. *)

AgeCalls ==
  [at : {"config", "token", "get", "decrypt", "identity", "open"}, provider : AgeProvider, value : Text,
   ctx : SUBSET AgeProvider, guard : Guards \cup {NoGuard}, holds : BOOLEAN]

AgeAnswers == {"none", "ok", "failed", "cycle"}

AgeTypes ==
  /\ config \in AgeConfigs
  /\ stack \in [AgeTask -> Seq(AgeCalls)]
  /\ answer \in [AgeTask -> AgeAnswers]
  /\ cells \in [Text -> {"empty", "busy", "set"}] /\ opened \in [Text -> Nat]

Opening == {"decrypt", "identity", "open"}

PlaceOf(f) == [provider |-> f.provider, value |-> f.value]

(* The i-th call of a stack: it is needed by its caller, and its guard names calls below it. *)
CallOK(s, i) ==
  /\ s[i].at \in Opening => s[i].provider \in Age
  /\ s[i].holds => s[i].at \in Opening
  /\ PlaceOf(s[i]) \in Places
  /\ i > 1 => s[i].provider \in Needs(s[i - 1].provider)
  /\ s[i].guard # NoGuard =>
       /\ \A p \in s[i].guard.resolving : \E j \in 1..i - 1 : s[j].provider = p
       /\ \A v \in s[i].guard.decrypting : \E j \in 1..i - 1 : WrappedKey(s[j]) = v

(* Only the innermost call runs. *)
StackOK(s, r) ==
  \A i \in 1..Len(s) :
    /\ CallOK(s, i)
    /\ i < Len(s) => s[i].at \in {"token", "identity"}
    /\ i = Len(s) /\ r = "none" => s[i].at \notin {"token", "identity"}

HoldsCell(t, i, v) == i \in 1..Len(stack[t]) /\ stack[t][i].holds /\ WrappedKey(stack[t][i]) = v

(* One call fills a cell that is taken. *)
HoldInv ==
  /\ \A t, u \in AgeTask : \A i, j \in Nat : \A v \in Text :
       HoldsCell(t, i, v) /\ HoldsCell(u, j, v) => t = u /\ i = j
  /\ \A v \in Text : cells[v] = "busy" <=> \E t \in AgeTask : \E i \in Nat : HoldsCell(t, i, v)

(* Without cycles no call is re-entered: who opens a ciphertext has its cell. *)
OpenInv ==
  Acyclic /\ OwnTexts =>
    /\ \A t \in AgeTask : \A i \in 1..Len(stack[t]) : stack[t][i].at \in Opening => stack[t][i].holds
    /\ \A v \in Text :
         /\ opened[v] <= 1
         /\ opened[v] = 1 => \/ cells[v] = "set"
                             \/ \E t \in AgeTask : answer[t] = "ok" /\ HoldsCell(t, Len(stack[t]), v)

AgeInv == AgeTypes /\ (\A t \in AgeTask : StackOK(stack[t], answer[t])) /\ HoldInv /\ OpenInv

LEMMA ConfigIs ==
  ASSUME config \in AgeConfigs
  PROVE  /\ config.identity \in [Age -> Place \cup {Nowhere}]
         /\ config.token \in [AgeProvider -> FieldSecret \cup {Nowhere}]
         /\ config.secret \in [FieldSecret -> Place] /\ config.wanted \in [AgeTask -> Place]
         /\ KeyOf \in [Text -> Text] /\ Age \subseteq AgeProvider
BY AgeIdentityAssumption

LEMMA CallIs ==
  ASSUME NEW c \in Place, NEW ctx \in SUBSET AgeProvider, NEW guard \in Guards \cup {NoGuard}
  PROVE  /\ Call(c, ctx, guard) \in AgeCalls /\ PlaceOf(Call(c, ctx, guard)) = c
         /\ Call(c, ctx, guard).at = "config" /\ ~Call(c, ctx, guard).holds
         /\ Call(c, ctx, guard).guard = guard /\ Call(c, ctx, guard).provider = c.provider
BY DEF Call, AgeCalls, PlaceOf, Place

LEMMA AgeStarts == AgeInit \/ AgeIdle => AgeInv
<1>1. config \in AgeConfigs /\ cells = [v \in Text |-> "empty"] /\ opened = [v \in Text |-> 0]
      /\ (\A t \in AgeTask : \A i \in 1..Len(stack[t]) : stack[t][i].at \notin Opening /\ ~stack[t][i].holds)
      => HoldInv /\ OpenInv
  BY DEF HoldInv, OpenInv, HoldsCell
<1>2. ASSUME AgeInit PROVE AgeInv
  <2>1. config \in AgeConfigs
    BY <1>2 DEF AgeInit
  <2>2. \A t \in AgeTask : /\ Call(config.wanted[t], {}, NoGuard) \in AgeCalls
                           /\ PlaceOf(Call(config.wanted[t], {}, NoGuard)) \in Places
                           /\ Call(config.wanted[t], {}, NoGuard).at = "config"
                           /\ ~Call(config.wanted[t], {}, NoGuard).holds
                           /\ Call(config.wanted[t], {}, NoGuard).guard = NoGuard
    BY <2>1, ConfigIs, CallIs DEF Places
  <2>3. \A t \in AgeTask : stack[t] = <<Call(config.wanted[t], {}, NoGuard)>>
    BY <1>2 DEF AgeInit
  <2>4. ASSUME NEW t \in AgeTask
        PROVE  /\ Len(stack[t]) = 1 /\ stack[t] \in Seq(AgeCalls) /\ stack[t][1].at = "config"
               /\ ~stack[t][1].holds /\ StackOK(stack[t], answer[t])
    <3> DEFINE g == Call(config.wanted[t], {}, NoGuard)
    <3>1. g \in AgeCalls /\ PlaceOf(g) \in Places /\ g.at = "config" /\ ~g.holds /\ g.guard = NoGuard
      BY <2>2
    <3>2. stack[t] = <<g>>
      BY <2>3
    <3> HIDE DEF g
    <3>3. Len(stack[t]) = 1 /\ stack[t] \in Seq(AgeCalls) /\ stack[t][1] = g
      BY <3>1, <3>2
    <3>4. CallOK(stack[t], 1)
      BY <3>1, <3>3 DEF CallOK, Opening
    <3> QED BY <3>1, <3>3, <3>4 DEF StackOK
  <2>5. HoldInv /\ OpenInv
    BY <1>1, <1>2, <2>1, <2>4 DEF AgeInit, Opening
  <2>6. AgeTypes
    BY <1>2, <2>1, <2>4 DEF AgeInit, AgeTypes, AgeAnswers
  <2> QED BY <2>4, <2>5, <2>6 DEF AgeInv
<1>3. ASSUME AgeIdle PROVE AgeInv
  <2>1. config \in AgeConfigs
    BY <1>3, AgeIdentityAssumption DEF AgeIdle
  <2>2. \A t \in AgeTask : stack[t] = <<>>
    BY <1>3 DEF AgeIdle
  <2>3. HoldInv /\ OpenInv
    BY <1>1, <1>3, <2>1, <2>2 DEF AgeIdle
  <2>4. AgeTypes
    BY <1>3, <2>1 DEF AgeIdle, AgeTypes, AgeAnswers
  <2> QED BY <2>2, <2>3, <2>4 DEF AgeInv, StackOK
<1> QED BY <1>2, <1>3

(* The innermost call of a task that runs. *)
LEMMA TopIs ==
  ASSUME AgeInv, NEW t \in AgeTask, stack[t] # <<>>, NEW s, s = stack[t], NEW n, n = Len(s)
  PROVE  /\ n \in Nat /\ n > 0 /\ s \in Seq(AgeCalls) /\ DOMAIN s = 1..n
         /\ Top(t) = s[n] /\ s[n] \in AgeCalls /\ CallOK(s, n) /\ WrappedKey(s[n]) \in Text
         /\ StackOK(s, answer[t])
<1>1. s \in Seq(AgeCalls)
  BY DEF AgeInv, AgeTypes
<1>2. n \in Nat /\ n > 0 /\ DOMAIN s = 1..n /\ s[n] \in AgeCalls
  BY <1>1
<1>3. StackOK(s, answer[t])
  BY DEF AgeInv
<1>4. CallOK(s, n)
  BY <1>2, <1>3 DEF StackOK
<1>5. KeyOf[s[n].value] \in Text
  BY <1>2, ConfigIs DEF AgeInv, AgeTypes, AgeCalls
<1> QED BY <1>1, <1>2, <1>3, <1>4, <1>5 DEF Top, WrappedKey

(* The innermost call is replaced. *)
LEMMA TopChanges ==
  ASSUME NEW s \in Seq(AgeCalls), NEW n \in Nat, n = Len(s), n > 0, NEW g \in AgeCalls
  PROVE  /\ [s EXCEPT ![n] = g] \in Seq(AgeCalls) /\ Len([s EXCEPT ![n] = g]) = n
         /\ \A i \in 1..n - 1 : [s EXCEPT ![n] = g][i] = s[i]
         /\ [s EXCEPT ![n] = g][n] = g
<1>1. n \in 1..Len(s) /\ n \in DOMAIN s
  OBVIOUS
<1>2. [s EXCEPT ![n] = g] \in Seq(AgeCalls)
  BY <1>1
<1>3. Len([s EXCEPT ![n] = g]) = n
  BY <1>1
<1>4. [s EXCEPT ![n] = g][n] = g
  BY <1>1
<1> QED BY <1>1, <1>2, <1>3, <1>4

(* The innermost call goes on. *)
LEMMA TopMoves ==
  ASSUME NEW s \in Seq(AgeCalls), NEW n \in Nat, n = Len(s), n > 0, NEW r, StackOK(s, r),
         NEW s1 \in Seq(AgeCalls), Len(s1) = n, \A i \in 1..n - 1 : s1[i] = s[i],
         s1[n].provider = s[n].provider, s1[n].value = s[n].value, s1[n].guard = s[n].guard,
         s1[n].at \in Opening => s1[n].provider \in Age, s1[n].holds => s1[n].at \in Opening,
         NEW r1, r1 = "none" => s1[n].at \notin {"token", "identity"}
  PROVE  StackOK(s1, r1)
<1>3. \A i \in 1..n : s1[i].provider = s[i].provider /\ s1[i].value = s[i].value /\ s1[i].guard = s[i].guard
  OBVIOUS
<1>4. \A i \in 1..n : WrappedKey(s1[i]) = WrappedKey(s[i]) /\ PlaceOf(s1[i]) = PlaceOf(s[i])
  BY <1>3 DEF WrappedKey, PlaceOf
<1>5. ASSUME NEW i \in 1..n PROVE CallOK(s1, i)
  <2>1. CallOK(s, i)
    BY DEF StackOK
  <2>2. s1[i].at \in Opening => s1[i].provider \in Age
    BY <2>1 DEF CallOK
  <2>3. s1[i].holds => s1[i].at \in Opening
    BY <2>1 DEF CallOK
  <2>4. i > 1 => s1[i].provider \in Needs(s1[i - 1].provider)
    BY <1>3, <2>1 DEF CallOK
  <2>5. s1[i].guard # NoGuard =>
          /\ \A p \in s1[i].guard.resolving : \E j \in 1..i - 1 : s1[j].provider = p
          /\ \A v \in s1[i].guard.decrypting : \E j \in 1..i - 1 : WrappedKey(s1[j]) = v
    BY <1>3, <1>4, <2>1 DEF CallOK
  <2> QED BY <1>4, <2>1, <2>2, <2>3, <2>4, <2>5 DEF CallOK
<1>6. ASSUME NEW i \in 1..n, i < n PROVE s1[i].at \in {"token", "identity"}
  <2>1. s1[i] = s[i]
    BY <1>6
  <2> QED BY <2>1, <1>6 DEF StackOK
<1>7. StackOK(s1, r1)
  <2>1. ASSUME NEW i \in 1..n, i = n, r1 = "none" PROVE s1[i].at \notin {"token", "identity"}
    BY <2>1
  <2> QED BY <1>5, <1>6, <2>1 DEF StackOK
<1> QED BY <1>7

(* A call is put on top: the one below waits for it. *)
LEMMA StackGrows ==
  ASSUME NEW s \in Seq(AgeCalls), NEW n \in Nat, n = Len(s), n > 0,
         \A i \in 1..n : CallOK(s, i) /\ s[i].at \in {"token", "identity"},
         NEW g \in AgeCalls, g.at = "config", ~g.holds, PlaceOf(g) \in Places,
         g.provider \in Needs(s[n].provider),
         g.guard # NoGuard =>
           /\ \A p \in g.guard.resolving : \E j \in 1..n : s[j].provider = p
           /\ \A v \in g.guard.decrypting : \E j \in 1..n : WrappedKey(s[j]) = v,
         NEW s1, s1 = Append(s, g)
  PROVE  /\ s1 \in Seq(AgeCalls) /\ Len(s1) = n + 1 /\ \A i \in 1..n : s1[i] = s[i]
         /\ s1[n + 1] = g
         /\ StackOK(s1, "none")
<1>1. s1 \in Seq(AgeCalls) /\ Len(s1) = n + 1 /\ (\A i \in 1..n : s1[i] = s[i]) /\ s1[n + 1] = g
  OBVIOUS
<1>2. ASSUME NEW i \in 1..n PROVE CallOK(s1, i)
  <2>1. CallOK(s, i) /\ (\A j \in 1..i : s1[j] = s[j]) /\ s1[i] = s[i]
    BY <1>1
  <2>2. i > 1 => s1[i - 1] = s[i - 1]
    BY <2>1
  <2>3. \A j \in 1..i - 1 : s1[j] = s[j]
    BY <2>1
  <2>4. s1[i].guard # NoGuard =>
          /\ \A p \in s1[i].guard.resolving : \E j \in 1..i - 1 : s1[j].provider = p
          /\ \A v \in s1[i].guard.decrypting : \E j \in 1..i - 1 : WrappedKey(s1[j]) = v
    BY <2>1, <2>3 DEF CallOK
  <2> QED BY <2>1, <2>2, <2>4 DEF CallOK
<1>3. CallOK(s1, n + 1)
  <2>1. g.guard # NoGuard =>
          /\ \A p \in g.guard.resolving : \E j \in 1..(n + 1) - 1 : s1[j].provider = p
          /\ \A v \in g.guard.decrypting : \E j \in 1..(n + 1) - 1 : WrappedKey(s1[j]) = v
    BY <1>1
  <2> QED BY <1>1, <2>1 DEF CallOK, Opening
<1> QED BY <1>1, <1>2, <1>3 DEF StackOK

(* Without cycles a call is not entered again from its own identity lookup. *)
LEMMA NeverReentered ==
  ASSUME AgeInv, Acyclic, OwnTexts, NEW t \in AgeTask, stack[t] # <<>>
  PROVE  ~IsReentrant(Top(t))
<1> DEFINE s == stack[t]
           n == Len(s)
<1>1. /\ n \in Nat /\ n > 0 /\ s \in Seq(AgeCalls) /\ DOMAIN s = 1..n
      /\ Top(t) = s[n] /\ \A i \in 1..n : CallOK(s, i) /\ s[i] \in AgeCalls
  BY TopIs DEF StackOK
<1> HIDE DEF s, n
<1>2. ASSUME NEW j \in 1..n - 1, s[j].provider = s[n].provider PROVE FALSE
  <2> DEFINE S == {s[k].provider : k \in j + 1..n}
  <2>1. j + 1 \in 1..n /\ \A k \in j + 1..n : k \in 1..n
    BY <1>1
  <2>2. S \in SUBSET AgeProvider /\ s[n].provider \in S
    BY <1>1, <2>1 DEF AgeCalls
  <2>3. PICK p \in S : Needs(p) \cap S = {}
    BY <2>2 DEF Acyclic
  <2>4. PICK k \in j + 1..n : p = s[k].provider
    BY <2>3
  <2>5. CASE k < n
    <3>1. k + 1 \in j + 1..n /\ k + 1 > 1 /\ (k + 1) - 1 = k
      BY <1>1, <2>4, <2>5, <2>1
    <3>2. s[k + 1].provider \in Needs(s[k].provider)
      BY <1>1, <2>1, <3>1 DEF CallOK
    <3> QED BY <2>3, <2>4, <3>1, <3>2
  <2>6. CASE k = n
    <3>1. j + 1 \in j + 1..n /\ j + 1 > 1 /\ (j + 1) - 1 = j
      BY <2>1
    <3>2. s[j + 1].provider \in Needs(s[j].provider)
      BY <1>1, <2>1, <3>1 DEF CallOK
    <3> QED BY <1>2, <2>3, <2>4, <2>6, <3>1, <3>2
  <2> QED BY <1>1, <2>1, <2>4, <2>5, <2>6
<1>3. ASSUME s[n].guard # NoGuard, s[n].provider \in s[n].guard.resolving PROVE FALSE
  <2>1. PICK j \in 1..n - 1 : s[j].provider = s[n].provider
    BY <1>1, <1>3 DEF CallOK
  <2> QED BY <1>2, <2>1
<1>4. ASSUME s[n].guard # NoGuard, WrappedKey(s[n]) \in s[n].guard.decrypting PROVE FALSE
  <2>1. PICK j \in 1..n - 1 : WrappedKey(s[j]) = WrappedKey(s[n])
    BY <1>1, <1>4 DEF CallOK
  <2>2. PlaceOf(s[j]) \in Places /\ PlaceOf(s[n]) \in Places
    BY <1>1, <2>1 DEF CallOK
  <2>3. PlaceOf(s[j]).provider = PlaceOf(s[n]).provider
    BY <2>1, <2>2 DEF OwnTexts, PlaceOf, WrappedKey
  <2> QED BY <1>2, <2>1, <2>3 DEF PlaceOf
<1> QED BY <1>1, <1>3, <1>4 DEF IsReentrant

LEMMA PrimedStack ==
  ASSUME config' = config, NEW t \in AgeTask, StackOK(stack'[t], answer'[t])
  PROVE  StackOK(stack[t], answer[t])'
<1>1. Places' = Places /\ \A p : Needs(p)' = Needs(p)
  BY DEF Places, Needs
<1>2. ASSUME NEW i \in 1..Len(stack'[t]) PROVE CallOK(stack[t], i)'
  <2>1. CallOK(stack'[t], i)
    BY DEF StackOK
  <2>2. i > 1 => stack'[t][i].provider \in Needs(stack[t][i - 1].provider)'
    BY <2>1 DEF CallOK, Needs
  <2>3. PlaceOf(stack[t][i])' \in Places'
    BY <1>1, <2>1 DEF CallOK, PlaceOf
  <2> QED BY <2>1, <2>2, <2>3 DEF CallOK, WrappedKey
<1> QED BY <1>2 DEF StackOK

LEMMA PrimedConfig ==
  ASSUME config' = config
  PROVE  Acyclic' = Acyclic /\ OwnTexts' = OwnTexts
BY DEF Acyclic, OwnTexts, Needs, Places

(* What is the same when the calls that hold a cell stay as they are. *)
LEMMA HoldersStay ==
  ASSUME HoldInv, cells' = cells,
         \A u \in AgeTask : \A i \in Nat : \A v \in Text : HoldsCell(u, i, v)' <=> HoldsCell(u, i, v)
  PROVE  HoldInv'
BY DEF HoldInv

(* The innermost call of t has returned. *)
LEMMA Answers ==
  ASSUME AgeInv, NEW t \in AgeTask, stack[t] # <<>>, answer[t] = "none",
         NEW n, n = Len(stack[t]), NEW c, c = WrappedKey(Top(t)),
         NEW r \in {"ok", "failed", "cycle"}, answer' = [answer EXCEPT ![t] = r],
         UNCHANGED <<config, stack, cells>>,
         \/ opened' = opened
         \/ /\ Top(t).at \in Opening
            /\ opened' = [opened EXCEPT ![c] = @ + (IF r = "ok" THEN 1 ELSE 0)]
  PROVE  AgeInv'
<1> DEFINE s == stack[t]
<1>1. /\ n \in Nat /\ n > 0 /\ s \in Seq(AgeCalls) /\ DOMAIN s = 1..n /\ Top(t) = s[n] /\ c \in Text
      /\ StackOK(s, answer[t])
  BY TopIs
<1>2. AgeTypes'
  BY <1>1 DEF AgeInv, AgeTypes, AgeAnswers
<1>3. \A u \in AgeTask : u # t => answer'[u] = answer[u]
  BY DEF AgeInv, AgeTypes
<1>4. answer'[t] = r
  BY DEF AgeInv, AgeTypes
<1>5. ASSUME NEW u \in AgeTask PROVE StackOK(stack'[u], answer'[u])
  BY <1>1, <1>3, <1>4 DEF AgeInv, StackOK
<1>6. \A u \in AgeTask : \A i \in Nat : \A v \in Text : HoldsCell(u, i, v)' <=> HoldsCell(u, i, v)
  BY DEF HoldsCell, WrappedKey
<1>7. HoldInv'
  BY <1>6, HoldersStay DEF AgeInv
<1>8. ASSUME Acyclic, OwnTexts, NEW v \in Text,
             opened[v] = 1 => cells[v] = "set" \/ \E u \in AgeTask : answer[u] = "ok" /\ HoldsCell(u, Len(stack[u]), v)
      PROVE  opened[v] = 1 => cells'[v] = "set" \/ \E u \in AgeTask : answer'[u] = "ok" /\ HoldsCell(u, Len(stack[u]), v)'
  <2>1. ASSUME NEW u \in AgeTask, answer[u] = "ok", HoldsCell(u, Len(stack[u]), v)
        PROVE  answer'[u] = "ok" /\ HoldsCell(u, Len(stack[u]), v)'
    BY <1>3, <2>1 DEF HoldsCell, WrappedKey
  <2> QED BY <1>8, <2>1
<1>9. ASSUME Acyclic, OwnTexts, Top(t).at \in Opening PROVE HoldsCell(t, n, c) /\ opened[c] = 0
  <2>1. s[n].holds
    BY <1>1, <1>9 DEF AgeInv, OpenInv
  <2>2. HoldsCell(t, n, c)
    BY <1>1, <2>1 DEF HoldsCell
  <2>3. cells[c] = "busy"
    BY <1>1, <2>2 DEF AgeInv, HoldInv
  <2>4. ASSUME NEW u \in AgeTask, answer[u] = "ok", HoldsCell(u, Len(stack[u]), c) PROVE FALSE
    <3>1. Len(stack[u]) \in Nat
      BY DEF AgeInv, AgeTypes
    <3> QED BY <1>1, <2>2, <2>4, <3>1 DEF AgeInv, HoldInv
  <2>5. opened[c] # 1 /\ opened[c] <= 1 /\ opened[c] \in Nat
    BY <1>1, <1>9, <2>3, <2>4 DEF AgeInv, OpenInv, AgeTypes
  <2> QED BY <2>2, <2>5
<1> HIDE DEF s
<1>10. OpenInv'
  <2> SUFFICES ASSUME Acyclic, OwnTexts
               PROVE  /\ \A u \in AgeTask : \A i \in 1..Len(stack'[u]) : stack'[u][i].at \in Opening => stack'[u][i].holds
                      /\ \A v \in Text : /\ opened'[v] <= 1
                                         /\ opened'[v] = 1 => \/ cells'[v] = "set"
                                               \/ \E u \in AgeTask : answer'[u] = "ok" /\ HoldsCell(u, Len(stack[u]), v)'
    BY PrimedConfig DEF OpenInv
  <2>1. \A u \in AgeTask : \A i \in 1..Len(stack'[u]) : stack'[u][i].at \in Opening => stack'[u][i].holds
    BY DEF AgeInv, OpenInv
  <2>2. ASSUME NEW v \in Text, opened'[v] = opened[v]
        PROVE  /\ opened'[v] <= 1
               /\ opened'[v] = 1 => cells'[v] = "set" \/ \E u \in AgeTask : answer'[u] = "ok" /\ HoldsCell(u, Len(stack[u]), v)'
    BY <1>8, <2>2 DEF AgeInv, OpenInv
  <2>3. ASSUME NEW v \in Text, opened'[v] # opened[v]
        PROVE  /\ opened'[v] <= 1
               /\ opened'[v] = 1 => cells'[v] = "set" \/ \E u \in AgeTask : answer'[u] = "ok" /\ HoldsCell(u, Len(stack[u]), v)'
    <3>1. v = c /\ Top(t).at \in Opening /\ r = "ok" /\ opened'[c] = opened[c] + 1
      BY <1>1, <2>3 DEF AgeInv, AgeTypes
    <3>2. HoldsCell(t, n, c) /\ opened[c] = 0
      BY <1>9, <3>1
    <3>3. HoldsCell(t, Len(stack[t]), c)'
      BY <1>1, <1>6, <3>2
    <3> QED BY <1>4, <3>1, <3>2, <3>3
  <2> QED BY <2>1, <2>2, <2>3
<1>11. \A u \in AgeTask : StackOK(stack[u], answer[u])'
  BY <1>5, PrimedStack
<1> QED BY <1>2, <1>7, <1>10, <1>11 DEF AgeInv

(* The innermost call of t goes on, and may take a cell for it. *)
LEMMA Moves ==
  ASSUME AgeInv, NEW t \in AgeTask, stack[t] # <<>>, answer[t] = "none", ~Top(t).holds,
         NEW n, n = Len(stack[t]), NEW c, c = WrappedKey(Top(t)),
         NEW l \in {"get", "decrypt"}, NEW h \in BOOLEAN,
         l = "decrypt" => Top(t).provider \in Age, h => l = "decrypt",
         l = "decrypt" /\ Acyclic /\ OwnTexts => h,
         stack' = [stack EXCEPT ![t] = [stack[t] EXCEPT ![n] = [Top(t) EXCEPT !.at = l, !.holds = h]]],
         IF h THEN cells[c] = "empty" /\ cells' = [cells EXCEPT ![c] = "busy"] ELSE cells' = cells,
         UNCHANGED <<config, answer, opened>>
  PROVE  AgeInv'
<1> DEFINE s == stack[t]
           g == [Top(t) EXCEPT !.at = l, !.holds = h]
           s1 == [s EXCEPT ![n] = g]
<1>1. /\ n \in Nat /\ n > 0 /\ s \in Seq(AgeCalls) /\ DOMAIN s = 1..n /\ Top(t) = s[n] /\ c \in Text
      /\ s[n] \in AgeCalls /\ StackOK(s, answer[t])
  BY TopIs
<1>2. g \in AgeCalls /\ g.provider = s[n].provider /\ g.value = s[n].value /\ g.guard = s[n].guard
      /\ g.at = l /\ g.holds = h
  BY <1>1 DEF AgeCalls
<1>3. /\ s1 \in Seq(AgeCalls) /\ Len(s1) = n /\ \A i \in 1..n - 1 : s1[i] = s[i]
      /\ s1[n] = g /\ g.at = l /\ g.holds = h /\ WrappedKey(g) = c
      /\ StackOK(s1, answer[t])
  <2>1. (g.at \in Opening => g.provider \in Age) /\ (g.holds => g.at \in Opening)
        /\ g.at \notin {"token", "identity"}
    BY <1>1, <1>2 DEF Opening
  <2> HIDE DEF g
  <2>2. s1 \in Seq(AgeCalls) /\ Len(s1) = n /\ (\A i \in 1..n - 1 : s1[i] = s[i]) /\ s1[n] = g
    BY <1>1, <1>2, TopChanges
  <2>3. WrappedKey(g) = c
    BY <1>1, <1>2 DEF WrappedKey
  <2> HIDE DEF s1
  <2>4. StackOK(s1, answer[t])
    BY <1>1, <1>2, <2>1, <2>2, TopMoves
  <2> QED BY <1>2, <2>2, <2>3, <2>4
<1>4. stack'[t] = s1 /\ \A u \in AgeTask : u # t => stack'[u] = stack[u]
  BY DEF AgeInv, AgeTypes
<1> HIDE DEF s, g, s1
<1>5. AgeTypes'
  <2>1. stack' \in [AgeTask -> Seq(AgeCalls)]
    <3>1. stack' = [stack EXCEPT ![t] = s1]
      BY DEF s1, s, g
    <3> QED BY <1>3, <3>1 DEF AgeInv, AgeTypes
  <2>2. cells' \in [Text -> {"empty", "busy", "set"}]
    BY <1>1 DEF AgeInv, AgeTypes
  <2> QED BY <2>1, <2>2 DEF AgeInv, AgeTypes
<1>6. \A u \in AgeTask : StackOK(stack[u], answer[u])'
  <2>1. \A u \in AgeTask : StackOK(stack'[u], answer'[u])
    BY <1>3, <1>4 DEF AgeInv
  <2> QED BY <2>1, PrimedStack
<1>7. \A u \in AgeTask : \A i \in Nat : \A v \in Text :
        HoldsCell(u, i, v)' <=> HoldsCell(u, i, v) \/ (h /\ u = t /\ i = n /\ v = c)
  <2>1. ASSUME NEW i \in Nat, NEW v \in Text
        PROVE  HoldsCell(t, i, v)' <=> HoldsCell(t, i, v) \/ (h /\ i = n /\ v = c)
    <3>1. CASE i \in 1..n - 1
      BY <1>1, <1>3, <1>4, <3>1 DEF HoldsCell, WrappedKey, s
    <3>2. CASE i = n
      <4>1. ~HoldsCell(t, i, v)
        BY <1>1, <3>2 DEF HoldsCell, s
      <4>2. HoldsCell(t, i, v)' <=> h /\ v = c
        BY <1>1, <1>3, <1>4, <3>2 DEF HoldsCell, WrappedKey
      <4> QED BY <3>2, <4>1, <4>2
    <3>3. CASE i \notin 1..n
      BY <1>1, <1>3, <1>4, <3>3 DEF HoldsCell, s
    <3> QED BY <1>1, <3>1, <3>2, <3>3
  <2>2. ASSUME NEW u \in AgeTask, u # t, NEW i \in Nat, NEW v \in Text PROVE HoldsCell(u, i, v)' <=> HoldsCell(u, i, v)
    BY <1>4, <2>2 DEF HoldsCell, WrappedKey
  <2> QED BY <2>1, <2>2
<1>8. h => \A u \in AgeTask : \A i \in Nat : ~HoldsCell(u, i, c)
  BY <1>1 DEF AgeInv, HoldInv
<1>9. HoldInv'
  <2>1. CASE ~h
    BY <1>7, <2>1, HoldersStay DEF AgeInv
  <2>2. CASE h
    <3>1. ASSUME NEW u \in AgeTask, NEW w \in AgeTask, NEW i \in Nat, NEW j \in Nat, NEW v \in Text,
                 HoldsCell(u, i, v)', HoldsCell(w, j, v)'
          PROVE  u = w /\ i = j
      BY <1>7, <1>8, <2>2, <3>1 DEF AgeInv, HoldInv
    <3>2. ASSUME NEW v \in Text PROVE cells'[v] = "busy" <=> \E u \in AgeTask : \E i \in Nat : HoldsCell(u, i, v)'
      <4>1. CASE v = c
        BY <1>1, <1>7, <2>2, <4>1 DEF AgeInv, AgeTypes
      <4>2. CASE v # c
        BY <1>7, <2>2, <4>2 DEF AgeInv, AgeTypes, HoldInv
      <4> QED BY <4>1, <4>2
    <3> QED BY <3>1, <3>2 DEF HoldInv
  <2> QED BY <2>1, <2>2
<1>10. OpenInv'
  <2> SUFFICES ASSUME Acyclic, OwnTexts
               PROVE  /\ \A u \in AgeTask : \A i \in 1..Len(stack'[u]) : stack'[u][i].at \in Opening => stack'[u][i].holds
                      /\ \A v \in Text : /\ opened[v] <= 1
                                         /\ opened[v] = 1 => \/ cells'[v] = "set"
                                               \/ \E u \in AgeTask : answer[u] = "ok" /\ HoldsCell(u, Len(stack[u]), v)'
    BY PrimedConfig DEF OpenInv
  <2>1. ASSUME NEW u \in AgeTask, NEW i \in 1..Len(stack'[u]), stack'[u][i].at \in Opening PROVE stack'[u][i].holds
    <3>1. CASE u # t
      BY <1>4, <2>1, <3>1 DEF AgeInv, OpenInv
    <3>2. CASE u = t /\ i # n
      <4>1. i \in 1..n - 1 /\ i \in 1..Len(stack[t]) /\ stack'[u][i] = stack[t][i]
        BY <1>1, <1>3, <1>4, <3>2 DEF s
      <4> QED BY <2>1, <4>1 DEF AgeInv, OpenInv
    <3>3. CASE u = t /\ i = n
      BY <1>3, <1>4, <2>1, <3>3 DEF Opening
    <3> QED BY <3>1, <3>2, <3>3
  <2>2. ASSUME NEW v \in Text, opened[v] = 1
        PROVE  cells'[v] = "set" \/ \E u \in AgeTask : answer[u] = "ok" /\ HoldsCell(u, Len(stack[u]), v)'
    <3>1. CASE cells[v] = "set"
      BY <3>1 DEF AgeInv, AgeTypes
    <3>2. ASSUME NEW u \in AgeTask, answer[u] = "ok", HoldsCell(u, Len(stack[u]), v) PROVE HoldsCell(u, Len(stack[u]), v)'
      <4>1. u # t
        BY <3>2
      <4> QED BY <1>4, <3>2, <4>1 DEF HoldsCell, WrappedKey
    <3> QED BY <2>2, <3>1, <3>2 DEF AgeInv, OpenInv
  <2> QED BY <2>1, <2>2 DEF AgeInv, OpenInv
<1> QED BY <1>5, <1>6, <1>9, <1>10 DEF AgeInv

(* The innermost call of t calls another provider. *)
LEMMA Calls ==
  ASSUME AgeInv, NEW t \in AgeTask, stack[t] # <<>>, answer[t] = "none",
         NEW l \in {"token", "identity"}, NEW n, n = Len(stack[t]),
         l = "identity" <=> Top(t).at \in Opening,
         NEW k \in AgeCalls, k.at = "config", ~k.holds, PlaceOf(k) \in Places, k.provider \in Needs(Top(t).provider),
         k.guard # NoGuard =>
           /\ \A p \in k.guard.resolving : \E j \in 1..n : stack[t][j].provider = p
           /\ \A v \in k.guard.decrypting : \E j \in 1..n : WrappedKey(stack[t][j]) = v,
         stack' = [stack EXCEPT ![t] = Append([stack[t] EXCEPT ![n].at = l], k)],
         UNCHANGED <<config, answer, cells, opened>>
  PROVE  AgeInv'
<1> DEFINE s == stack[t]
           g == [Top(t) EXCEPT !.at = l, !.holds = Top(t).holds]
           s1 == [s EXCEPT ![n] = g]
           s2 == Append(s1, k)
<1>1. /\ n \in Nat /\ n > 0 /\ s \in Seq(AgeCalls) /\ DOMAIN s = 1..n /\ Top(t) = s[n] /\ CallOK(s, n)
      /\ s[n] \in AgeCalls /\ StackOK(s, answer[t])
  BY TopIs
<1>2. g \in AgeCalls /\ g.provider = s[n].provider /\ g.value = s[n].value /\ g.guard = s[n].guard
      /\ g.at = l /\ g.holds = s[n].holds /\ g = [s[n] EXCEPT !.at = l]
  BY <1>1 DEF AgeCalls
<1>3. /\ s1 \in Seq(AgeCalls) /\ Len(s1) = n /\ \A i \in 1..n - 1 : s1[i] = s[i]
      /\ s1[n] = g /\ g.at = l /\ g.holds = s[n].holds /\ WrappedKey(g) = WrappedKey(s[n])
      /\ g.provider = s[n].provider /\ g.guard = s[n].guard
      /\ StackOK(s1, "ok")
  <2>1. (g.at \in Opening => g.provider \in Age) /\ (g.holds => g.at \in Opening)
    BY <1>1, <1>2 DEF Opening, CallOK, AgeCalls
  <2> HIDE DEF g
  <2>2. s1 \in Seq(AgeCalls) /\ Len(s1) = n /\ (\A i \in 1..n - 1 : s1[i] = s[i]) /\ s1[n] = g
    BY <1>1, <1>2, TopChanges
  <2>3. WrappedKey(g) = WrappedKey(s[n])
    BY <1>1, <1>2 DEF WrappedKey
  <2> HIDE DEF s1
  <2>4. ASSUME NEW r, r # "none" PROVE StackOK(s1, r)
    <3>1. /\ s1[n].provider = s[n].provider /\ s1[n].value = s[n].value /\ s1[n].guard = s[n].guard
          /\ (s1[n].at \in Opening => s1[n].provider \in Age) /\ (s1[n].holds => s1[n].at \in Opening)
      BY <1>2, <2>1, <2>2
    <3>2. n \in Nat /\ n > 0 /\ n = Len(s) /\ s \in Seq(AgeCalls) /\ StackOK(s, answer[t])
      BY <1>1
    <3> HIDE DEF s
    <3> QED BY <2>2, <2>4, <3>1, <3>2, TopMoves
  <2>5. StackOK(s1, "ok")
    BY <2>4
  <2> QED BY <1>2, <2>2, <2>3, <2>5
<1> HIDE DEF g, s1
<1>4. \A i \in 1..n : CallOK(s1, i) /\ s1[i].at \in {"token", "identity"} /\ s1[i].provider = s[i].provider
                      /\ WrappedKey(s1[i]) = WrappedKey(s[i]) /\ s1[i].holds = s[i].holds
                      /\ (s1[i].at \in Opening <=> s[i].at \in Opening)
  <2>1. ASSUME NEW i \in 1..n, i # n
        PROVE  CallOK(s1, i) /\ s1[i].at \in {"token", "identity"} /\ s1[i] = s[i]
    BY <1>1, <1>3, <2>1 DEF StackOK
  <2>2. CallOK(s1, n)
    BY <1>1, <1>3 DEF StackOK
  <2> QED BY <1>1, <1>3, <2>1, <2>2 DEF Opening
<1>5. /\ s2 \in Seq(AgeCalls) /\ Len(s2) = n + 1 /\ \A i \in 1..n : s2[i] = s1[i]
      /\ s2[n + 1] = k /\ StackOK(s2, "none")
  <2>1. /\ k.provider \in Needs(s1[n].provider)
        /\ k.guard # NoGuard =>
             /\ \A p \in k.guard.resolving : \E j \in 1..n : s1[j].provider = p
             /\ \A v \in k.guard.decrypting : \E j \in 1..n : WrappedKey(s1[j]) = v
    BY <1>1, <1>3, <1>4
  <2> QED BY <1>1, <1>3, <1>4, <2>1, StackGrows
<1>6. stack'[t] = s2 /\ \A u \in AgeTask : u # t => stack'[u] = stack[u]
  BY <1>1, <1>2 DEF AgeInv, AgeTypes, s1
<1>7. AgeTypes'
  <2>1. stack' = [stack EXCEPT ![t] = s2]
    BY <1>6 DEF AgeInv, AgeTypes
  <2>2. stack' \in [AgeTask -> Seq(AgeCalls)]
    <3> HIDE DEF s2
    <3> QED BY <1>5, <2>1 DEF AgeInv, AgeTypes
  <2> QED BY <2>2 DEF AgeInv, AgeTypes
<1> HIDE DEF s, s2
<1>8. \A u \in AgeTask : StackOK(stack[u], answer[u])'
  <2>1. \A u \in AgeTask : StackOK(stack'[u], answer'[u])
    BY <1>5, <1>6 DEF AgeInv
  <2> QED BY <2>1, PrimedStack
<1>9. \A u \in AgeTask : \A i \in Nat : \A v \in Text : HoldsCell(u, i, v)' <=> HoldsCell(u, i, v)
  <2>1. ASSUME NEW i \in Nat, NEW v \in Text PROVE HoldsCell(t, i, v)' <=> HoldsCell(t, i, v)
    <3>1. CASE i \in 1..n
      BY <1>1, <1>4, <1>5, <1>6, <3>1 DEF HoldsCell, WrappedKey, s
    <3>2. CASE i = n + 1
      BY <1>1, <1>5, <1>6, <3>2 DEF HoldsCell, s
    <3>3. CASE i \notin 1..n + 1
      BY <1>1, <1>5, <1>6, <3>3 DEF HoldsCell, s
    <3> QED BY <1>1, <3>1, <3>2, <3>3
  <2>2. ASSUME NEW u \in AgeTask, u # t, NEW i \in Nat, NEW v \in Text PROVE HoldsCell(u, i, v)' <=> HoldsCell(u, i, v)
    BY <1>6, <2>2 DEF HoldsCell, WrappedKey
  <2> QED BY <2>1, <2>2
<1>10. HoldInv'
  BY <1>9, HoldersStay DEF AgeInv
<1>11. OpenInv'
  <2> SUFFICES ASSUME Acyclic, OwnTexts
               PROVE  /\ \A u \in AgeTask : \A i \in 1..Len(stack'[u]) : stack'[u][i].at \in Opening => stack'[u][i].holds
                      /\ \A v \in Text : /\ opened[v] <= 1
                                         /\ opened[v] = 1 => \/ cells[v] = "set"
                                               \/ \E u \in AgeTask : answer[u] = "ok" /\ HoldsCell(u, Len(stack[u]), v)'
    BY PrimedConfig DEF OpenInv
  <2>1. ASSUME NEW u \in AgeTask, NEW i \in 1..Len(stack'[u]), stack'[u][i].at \in Opening PROVE stack'[u][i].holds
    <3>1. CASE u # t
      BY <1>6, <2>1, <3>1 DEF AgeInv, OpenInv
    <3>2. CASE u = t /\ i # n + 1
      <4>1. i \in 1..n
        BY <1>1, <1>5, <1>6, <3>2
      <4>4. i \in 1..Len(stack[t]) /\ stack'[u][i] = s1[i]
        BY <1>5, <1>6, <3>2, <4>1
      <4>2. stack[t][i].at \in Opening
        BY <1>4, <2>1, <4>1, <4>4 DEF s
      <4>3. stack[t][i].holds
        BY <4>4, <4>2 DEF AgeInv, OpenInv
      <4> QED BY <1>4, <4>1, <4>4, <4>3 DEF s
    <3>3. CASE u = t /\ i = n + 1
      BY <1>5, <1>6, <2>1, <3>3 DEF Opening
    <3> QED BY <3>1, <3>2, <3>3
  <2>2. ASSUME NEW v \in Text, opened[v] = 1
        PROVE  cells[v] = "set" \/ \E u \in AgeTask : answer[u] = "ok" /\ HoldsCell(u, Len(stack[u]), v)'
    <3>1. ASSUME NEW u \in AgeTask, answer[u] = "ok", HoldsCell(u, Len(stack[u]), v) PROVE HoldsCell(u, Len(stack[u]), v)'
      <4>1. u # t
        BY <3>1
      <4> QED BY <1>6, <3>1, <4>1 DEF HoldsCell, WrappedKey
    <3> QED BY <2>2, <3>1 DEF AgeInv, OpenInv
  <2> QED BY <2>1, <2>2 DEF AgeInv, OpenInv
<1> QED BY <1>7, <1>8, <1>10, <1>11 DEF AgeInv

(* The innermost call of t is over; its caller, if there is one, goes on or fails too. *)
LEMMA Returns ==
  ASSUME AgeInv, NEW t \in AgeTask, Return(t), NEW n, n = Len(stack[t]), NEW c, c = WrappedKey(Top(t))
  PROVE  AgeInv'
<1> DEFINE s == stack[t]
           rest == SubSeq(s, 1, n - 1)
           goes == n - 1 > 0 /\ answer[t] = "ok"
           g == [rest[n - 1] EXCEPT !.at = IF @ = "token" THEN "get" ELSE "open"]
           s1 == IF goes THEN [rest EXCEPT ![n - 1] = g] ELSE rest
           r1 == IF goes THEN "none" ELSE answer[t]
<1>1. /\ n \in Nat /\ n > 0 /\ s \in Seq(AgeCalls) /\ DOMAIN s = 1..n /\ Top(t) = s[n] /\ c \in Text
      /\ s[n] \in AgeCalls /\ StackOK(s, answer[t]) /\ stack[t] # <<>> /\ answer[t] # "none" /\ answer[t] \in AgeAnswers
  BY TopIs DEF Return, AgeInv, AgeTypes
<1>2. /\ cells' = IF s[n].holds THEN [cells EXCEPT ![c] = IF answer[t] = "ok" THEN "set" ELSE "empty"] ELSE cells
      /\ UNCHANGED <<config, opened>>
  BY <1>1 DEF Return
<1>3. rest \in Seq(AgeCalls) /\ Len(rest) = n - 1 /\ n - 1 \in Nat /\ \A i \in 1..n - 1 : rest[i] = s[i] /\ i < n
  BY <1>1
<1>4. stack' = [stack EXCEPT ![t] = s1] /\ answer' = [answer EXCEPT ![t] = r1]
  BY <1>1, <1>3 DEF Return, AnswerWith, AgeInv, AgeTypes
<1> HIDE DEF rest
<1>5. StackOK(rest, "ok")
  <2>1. ASSUME NEW i \in 1..n - 1 PROVE CallOK(rest, i) /\ rest[i].at \in {"token", "identity"}
    <3>1. i \in 1..Len(s) /\ rest[i] = s[i] /\ i < Len(s) /\ \A j \in 1..i - 1 : rest[j] = s[j]
      BY <1>1, <1>3
    <3>2. i > 1 => rest[i - 1] = s[i - 1]
      BY <3>1
    <3>3. CallOK(s, i) /\ s[i].at \in {"token", "identity"}
      BY <1>1, <3>1 DEF StackOK
    <3>4. rest[i].guard # NoGuard =>
            /\ \A p \in rest[i].guard.resolving : \E j \in 1..i - 1 : rest[j].provider = p
            /\ \A v \in rest[i].guard.decrypting : \E j \in 1..i - 1 : WrappedKey(rest[j]) = v
      BY <3>1, <3>3 DEF CallOK
    <3> QED BY <3>1, <3>2, <3>3, <3>4 DEF CallOK
  <2> QED BY <1>3, <2>1 DEF StackOK
<1>6. goes => /\ rest[n - 1] \in AgeCalls /\ g \in AgeCalls /\ rest[n - 1] = s[n - 1] /\ g.provider = s[n - 1].provider
              /\ g.value = s[n - 1].value /\ g.guard = s[n - 1].guard /\ g.holds = s[n - 1].holds
              /\ (g.at \in Opening <=> s[n - 1].at \in Opening) /\ g.at \in {"get", "open"}
  <2>1. goes => n - 1 \in 1..n - 1 /\ n - 1 \in 1..Len(s) /\ n - 1 < Len(s)
    BY <1>1, <1>3
  <2>2. goes => rest[n - 1] = s[n - 1] /\ s[n - 1] \in AgeCalls /\ s[n - 1].at \in {"token", "identity"}
    BY <1>1, <1>3, <2>1 DEF StackOK
  <2> QED BY <2>2 DEF AgeCalls, Opening
<1> HIDE DEF g
<1>7. /\ s1 \in Seq(AgeCalls) /\ Len(s1) = n - 1 /\ StackOK(s1, r1)
      /\ \A i \in 1..n - 1 : /\ WrappedKey(s1[i]) = WrappedKey(s[i]) /\ s1[i].holds = s[i].holds
                             /\ s1[i].at \in Opening <=> s[i].at \in Opening
  <2>1. CASE ~goes
    <3>1. r1 # "none" /\ s1 = rest /\ r1 = answer[t]
      BY <1>1, <2>1
    <3>2. StackOK(rest, r1)
      BY <1>5, <3>1 DEF StackOK
    <3> QED BY <1>3, <3>1, <3>2
  <2>2. CASE goes
    <3> DEFINE w == [rest EXCEPT ![n - 1] = g]
    <3>1. n - 1 > 0
      BY <2>2
    <3>2. /\ w \in Seq(AgeCalls) /\ Len(w) = n - 1
          /\ \A i \in 1..(n - 1) - 1 : w[i] = rest[i]
          /\ w[n - 1] = g
      BY <1>3, <1>6, <2>2, <3>1, TopChanges
    <3> HIDE DEF w
    <3>3. CallOK(rest, n - 1)
      BY <1>3, <1>5, <3>1 DEF StackOK
    <3>4. (g.at \in Opening => g.provider \in Age) /\ (g.holds => g.at \in Opening) /\ g.at \notin {"token", "identity"}
      BY <1>6, <2>2, <3>3 DEF CallOK
    <3>5. StackOK(w, "none")
      BY <1>3, <1>5, <1>6, <2>2, <3>1, <3>2, <3>4, TopMoves
    <3>6. ASSUME NEW i \in 1..n - 1
          PROVE  /\ WrappedKey(w[i]) = WrappedKey(s[i]) /\ w[i].holds = s[i].holds
                 /\ w[i].at \in Opening <=> s[i].at \in Opening
      <4>1. CASE i = n - 1
        BY <1>6, <2>2, <3>2, <4>1 DEF WrappedKey
      <4>2. CASE i # n - 1
        BY <1>3, <3>2, <4>2
      <4> QED BY <4>1, <4>2
    <3>7. s1 = w /\ r1 = "none"
      BY <2>2 DEF w
    <3> QED BY <3>2, <3>5, <3>6, <3>7
  <2> QED BY <2>1, <2>2
<1>8. r1 \in AgeAnswers /\ (r1 = answer[t] \/ r1 = "none")
  BY <1>1 DEF AgeAnswers
<1> HIDE DEF s, s1, r1, goes
<1>9. /\ stack'[t] = s1 /\ \A u \in AgeTask : u # t => stack'[u] = stack[u] /\ answer'[u] = answer[u]
      /\ answer'[t] = r1
  BY <1>4 DEF AgeInv, AgeTypes
<1>10. AgeTypes'
  BY <1>1, <1>2, <1>4, <1>7, <1>8 DEF AgeInv, AgeTypes
<1>11. \A u \in AgeTask : StackOK(stack[u], answer[u])'
  <2>1. \A u \in AgeTask : StackOK(stack'[u], answer'[u])
    BY <1>7, <1>9 DEF AgeInv
  <2> QED BY <1>2, <2>1, PrimedStack
<1>12. \A u \in AgeTask : \A i \in Nat : \A v \in Text :
         HoldsCell(u, i, v)' <=> HoldsCell(u, i, v) /\ ~(u = t /\ i = n)
  <2>1. ASSUME NEW i \in Nat, NEW v \in Text PROVE HoldsCell(t, i, v)' <=> HoldsCell(t, i, v) /\ i # n
    <3>1. CASE i \in 1..n - 1
      <4>1. /\ i \in 1..Len(stack[t]) /\ i \in 1..Len(stack'[t]) /\ i # n
        BY <1>1, <1>7, <1>9, <3>1
      <4>2. /\ WrappedKey(stack'[t][i]) = WrappedKey(stack[t][i]) /\ stack'[t][i].holds = stack[t][i].holds
        <5>1. stack'[t][i] = s1[i] /\ stack[t][i] = s[i]
          BY <1>9 DEF s
        <5>2. WrappedKey(s1[i]) = WrappedKey(s[i]) /\ s1[i].holds = s[i].holds
          BY <1>7, <3>1
        <5> QED BY <5>1, <5>2 DEF WrappedKey
      <4> QED BY <4>1, <4>2 DEF HoldsCell, WrappedKey
    <3>2. CASE i \notin 1..n - 1
      <4>1. ~HoldsCell(t, i, v)'
        BY <1>7, <1>9, <3>2 DEF HoldsCell
      <4>2. i # n => ~HoldsCell(t, i, v)
        BY <1>1, <3>2 DEF HoldsCell, s
      <4> QED BY <4>1, <4>2
    <3> QED BY <3>1, <3>2
  <2>2. ASSUME NEW u \in AgeTask, u # t, NEW i \in Nat, NEW v \in Text PROVE HoldsCell(u, i, v)' <=> HoldsCell(u, i, v)
    BY <1>9, <2>2 DEF HoldsCell, WrappedKey
  <2> QED BY <2>1, <2>2
<1>13. \A v \in Text : HoldsCell(t, n, v) <=> s[n].holds /\ v = c
  BY <1>1 DEF HoldsCell, s
<1>14. \A u \in AgeTask : \A i \in Nat : HoldsCell(t, n, c) /\ HoldsCell(u, i, c) => u = t /\ i = n
  BY <1>1 DEF AgeInv, HoldInv
<1>15. HoldInv'
  <2>1. ASSUME NEW u \in AgeTask, NEW w \in AgeTask, NEW i \in Nat, NEW j \in Nat, NEW v \in Text,
               HoldsCell(u, i, v)', HoldsCell(w, j, v)'
        PROVE  u = w /\ i = j
    BY <1>12, <2>1 DEF AgeInv, HoldInv
  <2>2. ASSUME NEW v \in Text PROVE cells'[v] = "busy" <=> \E u \in AgeTask : \E i \in Nat : HoldsCell(u, i, v)'
    <3>1. CASE v = c /\ s[n].holds
      <4>1. HoldsCell(t, n, c)
        BY <1>13, <3>1
      <4>2. cells'[c] # "busy"
        BY <1>1, <1>2, <3>1 DEF AgeInv, AgeTypes
      <4>3. \A u \in AgeTask : \A i \in Nat : ~HoldsCell(u, i, c)'
        BY <1>1, <1>12, <1>14, <4>1
      <4> QED BY <3>1, <4>2, <4>3
    <3>2. CASE ~(v = c /\ s[n].holds)
      <4>1. cells'[v] = cells[v]
        BY <1>1, <1>2, <3>2 DEF AgeInv, AgeTypes
      <4>2. \A u \in AgeTask : \A i \in Nat : HoldsCell(u, i, v)' <=> HoldsCell(u, i, v)
        BY <1>12, <1>13, <3>2
      <4> QED BY <4>1, <4>2 DEF AgeInv, HoldInv
    <3> QED BY <3>1, <3>2
  <2> QED BY <2>1, <2>2 DEF HoldInv
<1>16. OpenInv'
  <2> SUFFICES ASSUME Acyclic, OwnTexts
               PROVE  /\ \A u \in AgeTask : \A i \in 1..Len(stack'[u]) : stack'[u][i].at \in Opening => stack'[u][i].holds
                      /\ \A v \in Text : /\ opened[v] <= 1
                                         /\ opened[v] = 1 => \/ cells'[v] = "set"
                                               \/ \E u \in AgeTask : answer'[u] = "ok" /\ HoldsCell(u, Len(stack[u]), v)'
    BY <1>2, PrimedConfig DEF OpenInv
  <2>1. ASSUME NEW u \in AgeTask, NEW i \in 1..Len(stack'[u]), stack'[u][i].at \in Opening PROVE stack'[u][i].holds
    <3>1. CASE u # t
      BY <1>9, <2>1, <3>1 DEF AgeInv, OpenInv
    <3>2. CASE u = t
      <4>1. i \in 1..n - 1
        BY <1>7, <1>9, <3>2
      <4>2. i \in 1..Len(stack[t])
        BY <1>1, <4>1 DEF s
      <4>3. stack'[t][i].holds = stack[t][i].holds /\ (stack'[t][i].at \in Opening <=> stack[t][i].at \in Opening)
        <5>1. stack'[t][i] = s1[i] /\ stack[t][i] = s[i]
          BY <1>9 DEF s
        <5>2. s1[i].holds = s[i].holds /\ (s1[i].at \in Opening <=> s[i].at \in Opening)
          BY <1>7, <4>1
        <5> QED BY <5>1, <5>2
      <4> QED BY <2>1, <3>2, <4>2, <4>3 DEF AgeInv, OpenInv
    <3> QED BY <3>1, <3>2
  <2>2. ASSUME NEW v \in Text, opened[v] = 1
        PROVE  cells'[v] = "set" \/ \E u \in AgeTask : answer'[u] = "ok" /\ HoldsCell(u, Len(stack[u]), v)'
    <3>1. ASSUME NEW u \in AgeTask, u # t, answer[u] = "ok", HoldsCell(u, Len(stack[u]), v)
          PROVE  answer'[u] = "ok" /\ HoldsCell(u, Len(stack[u]), v)'
      BY <1>9, <3>1 DEF HoldsCell, WrappedKey
    <3>2. CASE v = c /\ s[n].holds /\ answer[t] = "ok"
      BY <1>1, <1>2, <3>2 DEF AgeInv, AgeTypes
    <3>3. CASE v = c /\ s[n].holds /\ answer[t] # "ok"
      <4>1. HoldsCell(t, n, c) /\ cells[c] = "busy"
        BY <1>1, <1>13, <3>3 DEF AgeInv, HoldInv
      <4>2. PICK u \in AgeTask : answer[u] = "ok" /\ HoldsCell(u, Len(stack[u]), c)
        BY <2>2, <3>3, <4>1 DEF AgeInv, OpenInv
      <4>3. Len(stack[u]) \in Nat
        BY DEF AgeInv, AgeTypes
      <4> QED BY <1>14, <3>3, <4>1, <4>2, <4>3
    <3>4. CASE ~(v = c /\ s[n].holds)
      <4>1. cells'[v] = cells[v]
        BY <1>1, <1>2, <3>4 DEF AgeInv, AgeTypes
      <4>2. ~HoldsCell(t, Len(stack[t]), v)
        BY <1>13, <3>4
      <4> QED BY <2>2, <3>1, <4>1, <4>2 DEF AgeInv, OpenInv
    <3> QED BY <3>2, <3>3, <3>4
  <2> QED BY <1>2, <2>1, <2>2 DEF AgeInv, OpenInv
<1> QED BY <1>10, <1>11, <1>15, <1>16 DEF AgeInv

LEMMA ResolveConfigKeeps == ASSUME AgeInv, NEW t \in AgeTask, ResolveConfig(t) PROVE AgeInv'
<1> DEFINE f == Top(t)
           n == Len(stack[t])
           tok == config.token[f.provider]
<1>1. stack[t] # <<>> /\ answer[t] = "none" /\ f.at = "config" /\ UNCHANGED <<config, cells, opened>>
  BY DEF ResolveConfig, CallAt
<1>2. /\ n \in Nat /\ n > 0 /\ stack[t] \in Seq(AgeCalls) /\ DOMAIN stack[t] = 1..n /\ f = stack[t][n] /\ f \in AgeCalls
      /\ CallOK(stack[t], n) /\ ~f.holds
  <2>1. f \in AgeCalls /\ CallOK(stack[t], n) /\ f = stack[t][n]
    BY <1>1, TopIs
  <2>2. ~f.holds
    BY <1>1, <2>1 DEF AgeCalls, CallOK, Opening
  <2> QED BY <1>1, <2>1, <2>2, TopIs
<1>3. CASE f.provider \in f.ctx /\ AnswerWith(t, "cycle") /\ UNCHANGED stack
  BY <1>1, <1>3, Answers DEF AnswerWith
<1>4. CASE f.provider \notin f.ctx /\ tok = Nowhere /\ stack' = GoTo(t, "get") /\ UNCHANGED answer
  <2>1. [stack[t] EXCEPT ![n].at = "get"] = [stack[t] EXCEPT ![n] = [f EXCEPT !.at = "get", !.holds = FALSE]]
    <3>1. [f EXCEPT !.at = "get"] = [f EXCEPT !.at = "get", !.holds = FALSE]
      BY <1>2 DEF AgeCalls
    <3>2. [stack[t] EXCEPT ![n].at = "get"] = [stack[t] EXCEPT ![n] = [f EXCEPT !.at = "get"]]
      BY <1>2
    <3> QED BY <3>1, <3>2
  <2>2. stack' = [stack EXCEPT ![t] = [stack[t] EXCEPT ![n] = [f EXCEPT !.at = "get", !.holds = FALSE]]]
    <3>1. stack' = [stack EXCEPT ![t] = [stack[t] EXCEPT ![n].at = "get"]]
      BY <1>4 DEF GoTo, AgeInv, AgeTypes
    <3> QED BY <2>1, <3>1
  <2> QED BY <1>1, <1>2, <1>4, <2>2, Moves
<1>5. CASE /\ f.provider \notin f.ctx /\ tok # Nowhere
           /\ stack' = Push(t, "token", Call(config.secret[tok], f.ctx \union {f.provider}, NoGuard)) /\ UNCHANGED answer
  <2> DEFINE k == Call(config.secret[tok], f.ctx \union {f.provider}, NoGuard)
  <2>1. config \in AgeConfigs /\ f.provider \in AgeProvider /\ f.ctx \subseteq AgeProvider
    BY <1>2 DEF AgeInv, AgeTypes, AgeCalls
  <2>2. tok \in FieldSecret /\ config.secret[tok] \in Place
    BY <1>5, <2>1, ConfigIs
  <2>3. /\ k \in AgeCalls /\ PlaceOf(k) = config.secret[tok] /\ k.at = "config" /\ ~k.holds /\ k.guard = NoGuard
        /\ k.provider = config.secret[tok].provider
    BY <2>1, <2>2, CallIs
  <2>4. PlaceOf(k) \in Places
    BY <2>2, <2>3 DEF Places
  <2>5. k.provider \in Needs(f.provider)
    BY <1>5, <2>3 DEF Needs
  <2>6. stack' = [stack EXCEPT ![t] = Append([stack[t] EXCEPT ![n].at = "token"], k)]
    BY <1>5 DEF Push, AgeInv, AgeTypes
  <2> HIDE DEF k
  <2> QED BY <1>1, <1>5, <2>3, <2>4, <2>5, <2>6, Calls DEF Opening
<1> QED BY <1>3, <1>4, <1>5 DEF ResolveConfig

LEMMA GetOtherKeeps == ASSUME AgeInv, NEW t \in AgeTask, GetOther(t) PROVE AgeInv'
<1>1. PICK r \in {"ok", "failed"} : AnswerWith(t, r)
  BY DEF GetOther
<1>2. stack[t] # <<>> /\ answer[t] = "none" /\ UNCHANGED <<config, stack, cells, opened>>
  BY DEF GetOther, CallAt
<1> QED BY <1>1, <1>2, Answers DEF AnswerWith

LEMMA DecryptOnceKeeps == ASSUME AgeInv, NEW t \in AgeTask, DecryptOnce(t) PROVE AgeInv'
<1> DEFINE f == Top(t)
           n == Len(stack[t])
           g(h) == [f EXCEPT !.at = "decrypt", !.holds = h]
<1>1. stack[t] # <<>> /\ answer[t] = "none" /\ f.at = "get" /\ f.provider \in Age /\ UNCHANGED <<config, opened>>
  BY DEF DecryptOnce, CallAt
<1>2. /\ n \in Nat /\ n > 0 /\ stack[t] \in Seq(AgeCalls) /\ DOMAIN stack[t] = 1..n /\ f = stack[t][n] /\ f \in AgeCalls
      /\ CallOK(stack[t], n) /\ f.holds = FALSE
  <2>1. f \in AgeCalls /\ CallOK(stack[t], n) /\ f = stack[t][n]
    BY <1>1, TopIs
  <2>2. f.holds = FALSE
    BY <1>1, <2>1 DEF AgeCalls, CallOK, Opening
  <2> QED BY <1>1, <2>2, TopIs
<1>3. [f EXCEPT !.at = "decrypt"] = g(FALSE) /\ [[f EXCEPT !.at = "decrypt"] EXCEPT !.holds = TRUE] = g(TRUE)
  BY <1>2 DEF AgeCalls
<1>4. GoTo(t, "decrypt") = [stack EXCEPT ![t] = [stack[t] EXCEPT ![n] = g(FALSE)]]
  <2>1. [stack[t] EXCEPT ![n].at = "decrypt"] = [stack[t] EXCEPT ![n] = g(FALSE)]
    BY <1>2, <1>3
  <2> QED BY <2>1 DEF GoTo, AgeInv, AgeTypes
<1>5. CASE IsReentrant(f) /\ stack' = GoTo(t, "decrypt") /\ UNCHANGED <<answer, cells>>
  <2>1. ~(Acyclic /\ OwnTexts)
    BY <1>1, <1>5, NeverReentered
  <2> QED BY <1>1, <1>2, <1>4, <1>5, <2>1, Moves
<1>6. CASE cells[WrappedKey(f)] = "set" /\ AnswerWith(t, "ok") /\ UNCHANGED <<stack, cells>>
  BY <1>1, <1>6, Answers DEF AnswerWith
<1>7. CASE /\ cells[WrappedKey(f)] = "empty" /\ cells' = [cells EXCEPT ![WrappedKey(f)] = "busy"]
           /\ stack' = [GoTo(t, "decrypt") EXCEPT ![t][Len(stack[t])].holds = TRUE] /\ UNCHANGED answer
  <2>1. [[stack[t] EXCEPT ![n] = g(FALSE)] EXCEPT ![n].holds = TRUE] = [stack[t] EXCEPT ![n] = g(TRUE)]
    <3>1. [[stack[t] EXCEPT ![n] = g(FALSE)] EXCEPT ![n].holds = TRUE] = [stack[t] EXCEPT ![n] = [g(FALSE) EXCEPT !.holds = TRUE]]
      BY <1>2
    <3> QED BY <1>3, <3>1
  <2>2. stack' = [stack EXCEPT ![t] = [stack[t] EXCEPT ![n] = g(TRUE)]]
    BY <1>4, <1>7, <2>1 DEF AgeInv, AgeTypes
  <2> QED BY <1>1, <1>2, <1>7, <2>2, Moves
<1> QED BY <1>5, <1>6, <1>7 DEF DecryptOnce

LEMMA ResolveProviderIdentityKeeps == ASSUME AgeInv, NEW t \in AgeTask, ResolveProviderIdentity(t) PROVE AgeInv'
<1> DEFINE f == Top(t)
           n == Len(stack[t])
           i == config.identity[f.provider]
           k == Call(i, {}, Entered(f))
<1>1. stack[t] # <<>> /\ answer[t] = "none" /\ f.at = "decrypt" /\ i # Nowhere /\ UNCHANGED <<config, cells, opened>>
  BY DEF ResolveProviderIdentity, CallAt
<1>2. /\ n \in Nat /\ n > 0 /\ stack[t] \in Seq(AgeCalls) /\ DOMAIN stack[t] = 1..n /\ f = stack[t][n] /\ f \in AgeCalls
      /\ CallOK(stack[t], n) /\ WrappedKey(f) \in Text
  BY <1>1, TopIs
<1>3. CASE AnswerWith(t, "cycle") /\ UNCHANGED stack
  BY <1>1, <1>3, Answers DEF AnswerWith
<1>4. CASE stack' = Push(t, "identity", k) /\ UNCHANGED answer
  <2>1. config \in AgeConfigs /\ f.provider \in Age /\ f.guard \in Guards \cup {NoGuard} /\ f.provider \in AgeProvider
    BY <1>1, <1>2 DEF AgeInv, AgeTypes, AgeCalls, CallOK, Opening
  <2>2. i \in Place /\ {} \in SUBSET AgeProvider
    BY <1>1, <2>1, ConfigIs
  <2>3. Entered(f) \in Guards
    BY <1>2, <2>1 DEF Entered, Guards
  <2>4. /\ k \in AgeCalls /\ PlaceOf(k) = i /\ k.at = "config" /\ ~k.holds /\ k.guard = Entered(f)
        /\ k.provider = i.provider
    BY <2>2, <2>3, CallIs
  <2>5. PlaceOf(k) \in Places
    BY <1>1, <2>1, <2>4 DEF Places
  <2>6. k.provider \in Needs(f.provider)
    BY <1>1, <2>1, <2>4 DEF Needs
  <2>7. /\ \A p \in Entered(f).resolving : \E j \in 1..n : stack[t][j].provider = p
        /\ \A v \in Entered(f).decrypting : \E j \in 1..n : WrappedKey(stack[t][j]) = v
    <3>1. n \in 1..n /\ \A j \in 1..n - 1 : j \in 1..n
      BY <1>2
    <3>2. CASE f.guard = NoGuard
      BY <1>2, <3>1, <3>2 DEF Entered
    <3>3. CASE f.guard # NoGuard
      <4>1. /\ \A p \in f.guard.resolving : \E j \in 1..n : stack[t][j].provider = p
            /\ \A v \in f.guard.decrypting : \E j \in 1..n : WrappedKey(stack[t][j]) = v
        BY <1>2, <3>1, <3>3 DEF CallOK
      <4> QED BY <1>2, <3>1, <3>3, <4>1 DEF Entered
    <3> QED BY <3>2, <3>3
  <2>8. stack' = [stack EXCEPT ![t] = Append([stack[t] EXCEPT ![n].at = "identity"], k)]
    BY <1>4 DEF Push, AgeInv, AgeTypes
  <2>9. "identity" \in {"token", "identity"} /\ (("identity" = "identity") <=> f.at \in Opening)
    BY <1>1 DEF Opening
  <2> HIDE DEF k
  <2>10. k.guard # NoGuard =>
           /\ \A p \in k.guard.resolving : \E j \in 1..n : stack[t][j].provider = p
           /\ \A v \in k.guard.decrypting : \E j \in 1..n : WrappedKey(stack[t][j]) = v
    BY <2>4, <2>7
  <2> QED BY <1>1, <1>4, <2>4, <2>5, <2>6, <2>8, <2>9, <2>10, Calls
<1> QED BY <1>3, <1>4 DEF ResolveProviderIdentity

LEMMA DecryptKeeps == ASSUME AgeInv, NEW t \in AgeTask, Decrypt(t) PROVE AgeInv'
<1>1. PICK r \in {"ok", "failed"} :
        AnswerWith(t, r) /\ opened' = [opened EXCEPT ![WrappedKey(Top(t))] = @ + (IF r = "ok" THEN 1 ELSE 0)]
  BY DEF Decrypt
<1>2. stack[t] # <<>> /\ answer[t] = "none" /\ Top(t).at \in Opening /\ UNCHANGED <<config, stack, cells>>
  BY DEF Decrypt, CallAt, Opening
<1> QED BY <1>1, <1>2, Answers DEF AnswerWith

LEMMA AgeInvSame == AgeInv /\ UNCHANGED ageVars => AgeInv'
<1> SUFFICES ASSUME AgeInv, UNCHANGED ageVars PROVE AgeInv'
  OBVIOUS
<1>1. \A u \in AgeTask : StackOK(stack[u], answer[u])'
  BY PrimedStack DEF AgeInv, ageVars
<1>2. \A u \in AgeTask : \A i \in Nat : \A v \in Text : HoldsCell(u, i, v)' <=> HoldsCell(u, i, v)
  BY DEF HoldsCell, WrappedKey, ageVars
<1>3. HoldInv'
  BY <1>2, HoldersStay DEF AgeInv, ageVars
<1>4. \A u \in AgeTask : \A v \in Text : HoldsCell(u, Len(stack[u]), v)' <=> HoldsCell(u, Len(stack[u]), v)
  BY DEF HoldsCell, WrappedKey, ageVars
<1>5. OpenInv'
  BY <1>4, PrimedConfig DEF AgeInv, OpenInv, ageVars
<1> QED BY <1>1, <1>3, <1>5 DEF AgeInv, AgeTypes, ageVars

LEMMA AgeNextKeeps == AgeInv /\ [AgeNext]_ageVars => AgeInv'
<1> SUFFICES ASSUME AgeInv, NEW t \in AgeTask, CallStep(t) PROVE AgeInv'
  BY AgeInvSame DEF AgeNext
<1>1. CASE Return(t)
  BY <1>1, Returns
<1> QED BY <1>1, ResolveConfigKeeps, GetOtherKeeps, DecryptOnceKeeps, ResolveProviderIdentityKeeps, DecryptKeeps DEF CallStep

(* What the invariant says of the properties. *)
LEMMA AgeInvTypes == AgeInv => AgeTypeOK
<1> SUFFICES ASSUME AgeInv PROVE AgeTypeOK
  OBVIOUS
<1>1. ASSUME NEW t \in AgeTask, NEW i \in DOMAIN stack[t]
      PROVE  LET f == stack[t][i]
             IN  /\ f.at \in {"config", "token", "get", "decrypt", "identity", "open"}
                 /\ f.provider \in AgeProvider /\ f.value \in Text /\ f.holds \in BOOLEAN
                 /\ f.ctx \subseteq AgeProvider /\ f.guard \in Guards \union {NoGuard}
                 /\ (i < Len(stack[t])) => f.at \in {"token", "identity"}
                 /\ (i = Len(stack[t]) /\ answer[t] = "none") => f.at \notin {"token", "identity"}
  <2>1. stack[t] \in Seq(AgeCalls)
    BY DEF AgeInv, AgeTypes
  <2>2. i \in 1..Len(stack[t]) /\ stack[t][i] \in AgeCalls
    BY <2>1
  <2>3. /\ (i < Len(stack[t])) => stack[t][i].at \in {"token", "identity"}
        /\ (i = Len(stack[t]) /\ answer[t] = "none") => stack[t][i].at \notin {"token", "identity"}
    BY <2>2 DEF AgeInv, StackOK
  <2> QED BY <2>2, <2>3 DEF AgeCalls
<1> QED BY <1>1 DEF AgeTypeOK, AgeInv, AgeTypes, AgeAnswers

LEMMA AgeInvCells == AgeInv => CellsOwned
<1> SUFFICES ASSUME AgeInv, NEW v \in Text
             PROVE  LET owners == {o \in UNION {{<<t, i>> : i \in DOMAIN stack[t]} : t \in AgeTask} :
                                      stack[o[1]][o[2]].holds /\ WrappedKey(stack[o[1]][o[2]]) = v}
                    IN  (cells[v] = "busy") = (Cardinality(owners) = 1) /\ Cardinality(owners) <= 1
  BY DEF CellsOwned
<1> DEFINE owners == {o \in UNION {{<<t, i>> : i \in DOMAIN stack[t]} : t \in AgeTask} :
                         stack[o[1]][o[2]].holds /\ WrappedKey(stack[o[1]][o[2]]) = v}
<1>1. \A t \in AgeTask : DOMAIN stack[t] = 1..Len(stack[t]) /\ Len(stack[t]) \in Nat
  BY DEF AgeInv, AgeTypes
<1>2. ASSUME NEW o PROVE o \in owners <=> \E t \in AgeTask : \E i \in Nat : o = <<t, i>> /\ HoldsCell(t, i, v)
  BY <1>1 DEF HoldsCell
<1> HIDE DEF owners
<1>3. CASE \E t \in AgeTask : \E i \in Nat : HoldsCell(t, i, v)
  <2>1. PICK t \in AgeTask, i \in Nat : HoldsCell(t, i, v)
    BY <1>3
  <2>2. ASSUME NEW u \in AgeTask, NEW j \in Nat, HoldsCell(u, j, v) PROVE u = t /\ j = i
    BY <2>1, <2>2 DEF AgeInv, HoldInv
  <2>3. owners = {<<t, i>>}
    BY <1>2, <2>1, <2>2
  <2>4. Cardinality(owners) = 1
    BY <2>3, FS_Singleton
  <2>5. cells[v] = "busy"
    BY <1>3 DEF AgeInv, HoldInv
  <2> QED BY <2>4, <2>5 DEF owners
<1>4. CASE ~ \E t \in AgeTask : \E i \in Nat : HoldsCell(t, i, v)
  <2>1. owners = {}
    BY <1>2, <1>4
  <2>2. Cardinality(owners) = 0
    BY <2>1, FS_EmptySet
  <2>3. cells[v] # "busy"
    BY <1>4 DEF AgeInv, HoldInv
  <2> QED BY <2>2, <2>3 DEF owners
<1> QED BY <1>3, <1>4

LEMMA AgeInvOpened == AgeInv => OpenedOnce
BY DEF AgeInv, OpenInv, OpenedOnce

----------------------------------------------------------------------------
(* Tokens, vaults, files and key services. *)

(* The types of what the tasks of a process share, and of what they are doing. *)
Passwords ==
  Nat \cup {None} \cup {Configured[p] : p \in Provider} \cup {Secret(p) : p \in Provider}

Operation ==
  [at : Labels, p : Provider \cup {None}, op : {None, "get", "encrypt"}, pw : Passwords, prompted : BOOLEAN,
   retried : BOOLEAN, i : Nat, snap : Nat, got : Seq(Nat \cup Seq(Nat)), detached : BOOLEAN,
   f : {None} \cup [db : Databases, f : Field], out : Outcomes \cup {None}]

CacheTypes ==
  /\ cache = [k \in {"fido2", "yubikey", "enpass", "keepass"} |-> cache[k]]
  /\ \A k \in Hardware : cache[k] \in [Names -> Passwords]
  /\ \A k \in {"enpass", "keepass"} : cache[k] \in [Vault -> Passwords]

UsbTypes == usb \in [claimed : Task \cup {None}, driver : BOOLEAN, buf : Seq(Nat), pending : Nat]

LocalTypes ==
  /\ CacheTypes /\ UsbTypes
  /\ lock \in [Locks -> Task \cup {None}]
  /\ cell \in [Provider -> [st : {"empty", "busy", "failed", "ready"}, v : Nat]]
  /\ task \in [Task -> Operation]
  /\ world \in [pw : [Vault -> Nat], ver : [Vault -> Nat], plugged : BOOLEAN, svc : {"up", "denied", "nokey", "down"}]
  /\ inUse \subseteq Provider /\ known \subseteq Provider /\ ops \in 0..MaxOps /\ changes \in 0..MaxChanges

TokenSteps == {"write", "response", "crc"}

(* Which provider's code a label belongs to. *)
KindAt(r) ==
  /\ r.at # "idle" => r.p \in Provider
  /\ r.at = "lock" => Kind[r.p] \in Hardware \cup {"enpass", "keepass"}
  /\ r.at \in {"ask", "items", "fields"} => Kind[r.p] = "enpass"
  /\ r.at \in {"prompt", "open"} => Kind[r.p] \in {"enpass", "keepass"}
  /\ r.at \in {"device", "use"} => Kind[r.p] \in Hardware
  /\ r.at \in {"askpin", "assert"} => Kind[r.p] = "fido2"
  /\ r.at \in TokenSteps => Kind[r.p] = "yubikey"
  /\ r.at = "call" => Kind[r.p] \in Services
  /\ r.at \in {"cell", "load", "read"} => Kind[r.p] \in Cells

(* What a task has read so far is from one state, and what a token answered is its secret. *)
ReadOK(r) ==
  /\ r.at = "use" => r.pw = Secret(r.p)
  /\ r.out # "undecryptable"
  /\ r.at \notin {"fields", "read", "response", "crc", "done"} => r.got = <<>>
  /\ r.at \in {"fields", "read"} => \A i \in DOMAIN r.got : r.got[i] = r.snap
  /\ r.at \in {"response", "crc"} => \A i \in DOMAIN r.got : r.got[i] = Frame[r.p]
  /\ r.at = "done" => \A i, j \in DOMAIN r.got : r.got[i] = r.got[j]

(* The locks of a task, by where it is. *)
Has(r, l) ==
  \/ r.at \in {"ask", "open", "prompt"} /\ Kind[r.p] = "enpass" /\ l = VaultOf[r.p]
  \/ r.at = "prompt" /\ Kind[r.p] = "enpass" /\ l = "prompt"
  \/ r.at = "prompt" /\ Kind[r.p] = "keepass" /\ l = "keepass"
  \/ r.at \in {"device", "askpin", "assert"} \cup TokenSteps /\ l = Kind[r.p]

LockInv == \A t \in Task : \A l \in Locks : lock[l] = t <=> Has(task[t], l)

(* What the YubiKey has got is the beginning of the frame of the task that is at it. *)
TokenOK(r) ==
  /\ r.at = "write" =>
       /\ r.i \in 1..Len(Frame[r.p])
       /\ r.i > 1 => /\ DOMAIN usb.buf = 1..Len(Frame[r.p])
                     /\ \A j \in 1..Len(Frame[r.p]) : usb.buf[j] = IF j < r.i THEN Frame[r.p][j] ELSE 0
  /\ r.at \in {"response", "crc"} => usb.buf = Frame[r.p]

TokenInv ==
  /\ \A t \in Task : TokenOK(task[t])
  /\ usb.claimed # None => task[usb.claimed].at \in TokenSteps

(* What is kept is what was accepted, or the token's own secret. *)
CacheInv ==
  /\ \A v \in Vault : cache["enpass"][v] # Wrong /\ world.pw[v] # 0
  /\ \A p \in Provider : Kind[p] \in Hardware => cache[Kind[p]][NameOf[p]] \in {None, Secret(p)}
  /\ store = [p \in Provider |-> IF Encrypts(p) THEN Key(p, Secret(p)) ELSE None]

(* A task that was told the right password of a vault is about to open it and keep that. *)
Tells(r, v) ==
  r.at = "open" /\ Kind[r.p] = "enpass" /\ VaultOf[r.p] = v /\ r.prompted /\ r.pw = world.pw[v]

(* A password that the user has typed is kept, or about to be. *)
KnownInv ==
  /\ \A p \in known : Kind[p] = "enpass" =>
       cache["enpass"][VaultOf[p]] = world.pw[VaultOf[p]] \/ \E t \in Task : Tells(task[t], VaultOf[p])
  /\ \A t \in Task : task[t].at = "prompt" /\ Kind[task[t].p] = "enpass" => task[t].p \notin known

LocalInv ==
  /\ LocalTypes /\ \A t \in Task : KindAt(task[t]) /\ ReadOK(task[t])
  /\ LockInv /\ TokenInv /\ CacheInv /\ KnownInv


(* A task does one thing: the others stay where they are. *)
Becomes(t, r) == task' = [task EXCEPT ![t] = r]

LEMMA BecomesIs ==
  ASSUME task \in [Task -> Operation], NEW t \in Task, NEW r \in Operation, Becomes(t, r)
  PROVE  task' \in [Task -> Operation] /\ task'[t] = r /\ \A u \in Task : u # t => task'[u] = task[u]
BY DEF Becomes

LEMMA GotoIs ==
  ASSUME task \in [Task -> Operation], NEW t \in Task, NEW l \in Labels, Goto(t, l), NEW r, r = [task[t] EXCEPT !.at = l]
  PROVE  /\ r \in Operation /\ Becomes(t, r) /\ r.at = l /\ r.p = task[t].p /\ r.op = task[t].op /\ r.pw = task[t].pw
         /\ r.prompted = task[t].prompted /\ r.retried = task[t].retried /\ r.i = task[t].i /\ r.snap = task[t].snap
         /\ r.got = task[t].got /\ r.detached = task[t].detached /\ r.f = task[t].f /\ r.out = task[t].out
<1>1. task[t] \in Operation
  OBVIOUS
<1>2. /\ r \in Operation /\ r.at = l /\ r.p = task[t].p /\ r.op = task[t].op /\ r.pw = task[t].pw
      /\ r.prompted = task[t].prompted /\ r.retried = task[t].retried /\ r.i = task[t].i /\ r.snap = task[t].snap
      /\ r.got = task[t].got /\ r.detached = task[t].detached /\ r.f = task[t].f /\ r.out = task[t].out
  BY <1>1 DEF Operation
<1>3. Becomes(t, r)
  BY DEF Goto, Becomes
<1> QED BY <1>2, <1>3

LEMMA IdleIs == Idle \in Operation /\ Idle.at = "idle" /\ Idle.got = <<>> /\ Idle.out = None
BY DEF Idle, Operation, Labels, Passwords, Outcomes

(* What an operation may become without reading anything or answering. *)
LEMMA OperationEnds ==
  ASSUME NEW r \in Operation, KindAt(r), ReadOK(r), r.at # "idle", NEW s \in Operation,
         s.at = "done", s.p = r.p, s.got = r.got, s.out # "undecryptable"
  PROVE  KindAt(s) /\ ReadOK(s) /\ \A l \in Locks : ~Has(s, l)
<1>1. KindAt(s)
  BY DEF KindAt, TokenSteps
<1>2. \A l \in Locks : ~Has(s, l)
  BY DEF Has, TokenSteps
<1>3. \A i, j \in DOMAIN s.got : s.got[i] = s.got[j]
  BY DEF ReadOK
<1>4. ReadOK(s)
  BY <1>3 DEF ReadOK
<1> QED BY <1>1, <1>2, <1>4

(* Locks are taken and given back by their own task. *)
LEMMA LocksKeep ==
  ASSUME LockInv, NEW t \in Task, \A u \in Task : u # t => task'[u] = task[u],
         \A l \in Locks : lock'[l] = lock[l] \/ (lock[l] \in {t, None} /\ lock'[l] \in {t, None}),
         \A l \in Locks : lock'[l] = t <=> Has(task'[t], l)
  PROVE  LockInv'
<1>1. ASSUME NEW u \in Task, NEW l \in Locks PROVE lock'[l] = u <=> Has(task'[u], l)
  <2>1. CASE u = t
    BY <2>1
  <2>2. CASE u # t
    <3>1. lock'[l] = u <=> lock[l] = u
      BY <2>2, LocalSecretsAssumption
    <3> QED BY <2>2, <3>1 DEF LockInv
  <2> QED BY <2>1, <2>2
<1>2. ASSUME NEW u \in Task, NEW l \in Locks PROVE Has(task'[u], l) <=> Has(task[u], l)'
  BY DEF Has
<1> QED BY <1>1, <1>2 DEF LockInv

LEMMA SameLocks ==
  ASSUME LockInv, NEW t \in Task, \A u \in Task : u # t => task'[u] = task[u], lock' = lock,
         \A l \in Locks : Has(task'[t], l) <=> Has(task[t], l)
  PROVE  LockInv'
<1>1. \A l \in Locks : lock'[l] = t <=> Has(task'[t], l)
  BY DEF LockInv
<1> QED BY <1>1, LocksKeep

LEMMA LockTaken ==
  ASSUME LockInv, lock \in [Locks -> Task \cup {None}], NEW t \in Task, \A u \in Task : u # t => task'[u] = task[u],
         NEW k \in Locks, Take(k, t), \A l \in Locks : Has(task'[t], l) <=> Has(task[t], l) \/ l = k
  PROVE  LockInv' /\ lock' \in [Locks -> Task \cup {None}]
<1>1. lock' \in [Locks -> Task \cup {None}] /\ lock[k] = None /\ lock' = [lock EXCEPT ![k] = t]
  BY DEF Take
<1>2. \A l \in Locks : lock'[l] = lock[l] \/ (lock[l] \in {t, None} /\ lock'[l] \in {t, None})
  BY <1>1
<1>3. \A l \in Locks : lock'[l] = t <=> Has(task'[t], l)
  BY <1>1 DEF LockInv
<1> QED BY <1>1, <1>2, <1>3, LocksKeep

LEMMA LockFreed ==
  ASSUME LockInv, lock \in [Locks -> Task \cup {None}], NEW t \in Task, \A u \in Task : u # t => task'[u] = task[u],
         NEW k \in Locks, Free(k), Has(task[t], k), \A l \in Locks : Has(task'[t], l) <=> Has(task[t], l) /\ l # k
  PROVE  LockInv' /\ lock' \in [Locks -> Task \cup {None}]
<1>1. lock' \in [Locks -> Task \cup {None}] /\ lock[k] = t /\ lock' = [lock EXCEPT ![k] = None]
  BY DEF Free, LockInv
<1>2. \A l \in Locks : lock'[l] = lock[l] \/ (lock[l] \in {t, None} /\ lock'[l] \in {t, None})
  BY <1>1
<1>3. \A l \in Locks : lock'[l] = t <=> Has(task'[t], l)
  BY <1>1, LocalSecretsAssumption DEF LockInv
<1> QED BY <1>1, <1>2, <1>3, LocksKeep

(* One task has a lock. *)
LEMMA OneHas ==
  ASSUME LockInv, NEW t \in Task, NEW u \in Task, NEW l \in Locks, Has(task[t], l), Has(task[u], l)
  PROVE  t = u
BY DEF LockInv

LEMMA KindIs ==
  ASSUME NEW p \in Provider
  PROVE  /\ Kind[p] \in Hardware \cup {"enpass", "keepass"} \cup Cells \cup Services
         /\ VaultOf[p] \in Vault /\ NameOf[p] \in Names /\ VaultOf[p] \in Locks
         /\ Kind[p] \in Hardware \cup {"keepass"} => Kind[p] \in Locks /\ LockOf(p) = Kind[p]
         /\ Kind[p] = "enpass" => LockOf(p) = VaultOf[p]
         /\ VaultOf[p] \notin {"fido2", "yubikey", "keepass", "prompt"}
BY LocalSecretsAssumption DEF Vault, Names, Locks, LockOf, Hardware

(* One task is at the YubiKey. *)
LEMMA OneAtToken ==
  ASSUME LockInv, NEW t \in Task, NEW u \in Task, task[t].at \in TokenSteps, KindAt(task[t]), KindAt(task[u]),
         task[u].at \in TokenSteps \/ (task[u].at = "device" /\ Kind[task[u].p] = "yubikey")
  PROVE  t = u
<1>1. Has(task[t], "yubikey") /\ Has(task[u], "yubikey")
  BY DEF Has, KindAt, TokenSteps
<1> QED BY <1>1, OneHas DEF Locks

(* A task that is not at the YubiKey. *)
LEMMA TokenLeft ==
  ASSUME TokenInv, NEW t \in Task, \A u \in Task : u # t => task'[u] = task[u], usb' = usb,
         task[t].at \notin TokenSteps, task'[t].at \notin TokenSteps, usb.claimed \in Task \cup {None}
  PROVE  TokenInv'
<1>1. ASSUME NEW u \in Task PROVE TokenOK(task[u])'
  BY DEF TokenInv, TokenOK, TokenSteps
<1>2. usb'.claimed # None => task'[usb'.claimed].at \in TokenSteps
  BY DEF TokenInv
<1> QED BY <1>1, <1>2 DEF TokenInv

(* A task that is not told a password nor about to be. *)
LEMMA KnownLeft ==
  ASSUME KnownInv, NEW t \in Task, \A u \in Task : u # t => task'[u] = task[u],
         cache'["enpass"] = cache["enpass"], world' = world, known' = known,
         \A v \in Vault : ~Tells(task[t], v),
         task'[t].at = "prompt" /\ Kind[task'[t].p] = "enpass" => task'[t].p \notin known,
         known \subseteq Provider
  PROVE  KnownInv'
<1>1. ASSUME NEW p \in known, Kind[p] = "enpass"
      PROVE  cache'["enpass"][VaultOf[p]] = world'.pw[VaultOf[p]] \/ \E u \in Task : Tells(task[u], VaultOf[p])'
  <2>1. VaultOf[p] \in Vault
    BY KindIs
  <2>2. ASSUME NEW u \in Task, Tells(task[u], VaultOf[p]) PROVE Tells(task[u], VaultOf[p])'
    <3>1. u # t
      BY <2>1, <2>2
    <3> QED BY <2>2, <3>1 DEF Tells
  <2> QED BY <1>1, <2>2 DEF KnownInv
<1>2. ASSUME NEW u \in Task, task'[u].at = "prompt", Kind[task'[u].p] = "enpass" PROVE task'[u].p \notin known
  BY <1>2 DEF KnownInv
<1> QED BY <1>1, <1>2 DEF KnownInv

TasksOK == \A u \in Task : KindAt(task[u]) /\ ReadOK(task[u])

LEMMA TasksKeep ==
  ASSUME TasksOK, NEW t \in Task, \A u \in Task : u # t => task'[u] = task[u], KindAt(task'[t]), ReadOK(task'[t])
  PROVE  TasksOK'
BY DEF TasksOK, KindAt, ReadOK

(* A step of one task that leaves caches, vaults and the YubiKey alone. *)
LEMMA StepKeeps ==
  ASSUME LocalInv, NEW t \in Task, NEW r \in Operation, Becomes(t, r), KindAt(r), ReadOK(r),
         cache' = cache, world' = world, usb' = usb, store' = store, inUse' = inUse, known' = known, changes' = changes,
         ops' \in 0..MaxOps, lock' \in [Locks -> Task \cup {None}], LockInv',
         cell' \in [Provider -> [st : {"empty", "busy", "failed", "ready"}, v : Nat]],
         task[t].at \notin TokenSteps, r.at \notin TokenSteps,
         ~(task[t].at = "open" /\ Kind[task[t].p] = "enpass"),
         r.at = "prompt" /\ Kind[r.p] = "enpass" => r.p \notin known
  PROVE  LocalInv'
<1>1. task' \in [Task -> Operation] /\ task'[t] = r /\ \A u \in Task : u # t => task'[u] = task[u]
  BY BecomesIs DEF LocalInv, LocalTypes
<1>2. TasksOK'
  BY <1>1, TasksKeep DEF LocalInv, TasksOK
<1>3. TokenInv'
  BY <1>1, TokenLeft DEF LocalInv, LocalTypes, UsbTypes
<1>4. KnownInv'
  BY <1>1, KnownLeft DEF LocalInv, LocalTypes, Tells
<1>5. CacheInv'
  BY DEF LocalInv, CacheInv
<1>6. LocalTypes'
  BY <1>1 DEF LocalInv, LocalTypes, CacheTypes, UsbTypes
<1> QED BY <1>2, <1>3, <1>4, <1>5, <1>6 DEF LocalInv, TasksOK

CellTypes == [Provider -> [st : {"empty", "busy", "failed", "ready"}, v : Nat]]

(* What a step of one task may leave alone. *)
StepQuiet(t, r) ==
  /\ Becomes(t, r) /\ KindAt(r) /\ ReadOK(r)
  /\ cache' = cache /\ world' = world /\ usb' = usb /\ store' = store /\ inUse' = inUse /\ known' = known
  /\ changes' = changes /\ ops' \in 0..MaxOps /\ cell' \in CellTypes
  /\ task[t].at \notin TokenSteps /\ r.at \notin TokenSteps
  /\ ~(task[t].at = "open" /\ Kind[task[t].p] = "enpass")
  /\ r.at = "prompt" /\ Kind[r.p] = "enpass" => r.p \notin known

LEMMA QuietKeeps ==
  ASSUME LocalInv, NEW t \in Task, NEW r \in Operation, StepQuiet(t, r),
         lock' \in [Locks -> Task \cup {None}], LockInv'
  PROVE  LocalInv'
BY StepKeeps DEF StepQuiet, CellTypes

LEMMA QuietSame ==
  ASSUME LocalInv, NEW t \in Task, NEW r \in Operation, StepQuiet(t, r), lock' = lock,
         \A l \in Locks : Has(r, l) <=> Has(task[t], l)
  PROVE  LocalInv'
<1>1. task' \in [Task -> Operation] /\ task'[t] = r /\ \A u \in Task : u # t => task'[u] = task[u]
  BY BecomesIs DEF LocalInv, LocalTypes, StepQuiet
<1>2. LockInv'
  BY <1>1, SameLocks DEF LocalInv
<1>3. lock' \in [Locks -> Task \cup {None}]
  BY DEF LocalInv, LocalTypes
<1> QED BY <1>2, <1>3, QuietKeeps

LEMMA QuietTakes ==
  ASSUME LocalInv, NEW t \in Task, NEW r \in Operation, StepQuiet(t, r), NEW k \in Locks, Take(k, t),
         \A l \in Locks : Has(r, l) <=> Has(task[t], l) \/ l = k
  PROVE  LocalInv'
<1>1. task' \in [Task -> Operation] /\ task'[t] = r /\ \A u \in Task : u # t => task'[u] = task[u]
  BY BecomesIs DEF LocalInv, LocalTypes, StepQuiet
<1>2. LockInv /\ lock \in [Locks -> Task \cup {None}] /\ \A l \in Locks : Has(task'[t], l) <=> Has(r, l)
  BY <1>1 DEF LocalInv, LocalTypes
<1>3. LockInv' /\ lock' \in [Locks -> Task \cup {None}]
  BY <1>1, <1>2, LockTaken
<1> QED BY <1>3, QuietKeeps

LEMMA QuietFrees ==
  ASSUME LocalInv, NEW t \in Task, NEW r \in Operation, StepQuiet(t, r), NEW k \in Locks, Free(k), Has(task[t], k),
         \A l \in Locks : Has(r, l) <=> Has(task[t], l) /\ l # k
  PROVE  LocalInv'
<1>1. task' \in [Task -> Operation] /\ task'[t] = r /\ \A u \in Task : u # t => task'[u] = task[u]
  BY BecomesIs DEF LocalInv, LocalTypes, StepQuiet
<1>2. LockInv /\ lock \in [Locks -> Task \cup {None}] /\ \A l \in Locks : Has(task'[t], l) <=> Has(r, l)
  BY <1>1 DEF LocalInv, LocalTypes
<1>3. LockInv' /\ lock' \in [Locks -> Task \cup {None}]
  BY <1>1, <1>2, LockFreed
<1> QED BY <1>3, QuietKeeps

(* What is known of a task. *)
LEMMA Here ==
  ASSUME LocalInv, NEW t \in Task
  PROVE  /\ task \in [Task -> Operation] /\ task[t] \in Operation /\ KindAt(task[t]) /\ ReadOK(task[t])
         /\ task[t].at \in Labels /\ (task[t].at # "idle" => task[t].p \in Provider)
         /\ cell \in CellTypes /\ ops \in 0..MaxOps /\ MaxOps \in Nat
         /\ lock \in [Locks -> Task \cup {None}] /\ task[t].i \in Nat /\ task[t].snap \in Nat
         /\ task[t].got \in Seq(Nat \cup Seq(Nat))
<1>1. task \in [Task -> Operation] /\ task[t] \in Operation
  BY DEF LocalInv, LocalTypes
<1>2. KindAt(task[t]) /\ ReadOK(task[t])
  BY DEF LocalInv
<1>3. /\ task[t].at \in Labels /\ task[t].i \in Nat /\ task[t].snap \in Nat
      /\ task[t].got \in Seq(Nat \cup Seq(Nat))
  BY <1>1 DEF Operation
<1>4. task[t].at # "idle" => task[t].p \in Provider
  BY <1>2 DEF KindAt
<1>5. /\ cell \in CellTypes /\ ops \in 0..MaxOps /\ MaxOps \in Nat
      /\ lock \in [Locks -> Task \cup {None}]
  BY LocalSecretsAssumption DEF LocalInv, LocalTypes, CellTypes
<1> QED BY <1>1, <1>2, <1>3, <1>4, <1>5

----------------------------------------------------------------------------
(* The initial state, and one in which nothing is in use. *)

LEMMA NothingKept ==
  ASSUME cache = NoCache
  PROVE  /\ cache = [k \in {"fido2", "yubikey", "enpass", "keepass"} |-> cache[k]]
         /\ \A k \in Hardware : cache[k] = [x \in Names |-> None]
         /\ \A k \in {"enpass", "keepass"} : cache[k] = [x \in Vault |-> None]
<1>1. cache = [k \in {"fido2", "yubikey", "enpass", "keepass"} |-> [x \in IF k \in Hardware THEN Names ELSE Vault |-> None]]
  <2>1. Hardware \cup {"enpass", "keepass"} = {"fido2", "yubikey", "enpass", "keepass"}
    BY DEF Hardware
  <2> QED BY <2>1 DEF NoCache
<1>2. cache = [k \in {"fido2", "yubikey", "enpass", "keepass"} |-> cache[k]]
  BY <1>1
<1>3. \A k \in {"fido2", "yubikey", "enpass", "keepass"} : cache[k] = [x \in IF k \in Hardware THEN Names ELSE Vault |-> None]
  BY <1>1
<1>4. \A k \in Hardware : cache[k] = [x \in Names |-> None]
  BY <1>3 DEF Hardware
<1>5. \A k \in {"enpass", "keepass"} : cache[k] = [x \in Vault |-> None]
  BY <1>3 DEF Hardware
<1> QED BY <1>2, <1>4, <1>5

(* Nobody runs and nothing is kept. *)
Fresh ==
  /\ cache = NoCache /\ lock = [l \in Locks |-> None] /\ cell = EmptyCells /\ task = [t \in Task |-> Idle]
  /\ world \in [pw : [Vault -> Nat], ver : [Vault -> Nat], plugged : BOOLEAN, svc : {"up", "denied", "nokey", "down"}]
  /\ \A v \in Vault : world.pw[v] # 0
  /\ usb \in [claimed : {None}, driver : BOOLEAN, buf : Seq(Nat), pending : Nat]
  /\ store = [p \in Provider |-> IF Encrypts(p) THEN Key(p, Secret(p)) ELSE None]
  /\ inUse \subseteq Provider /\ known = {} /\ ops \in 0..MaxOps /\ changes \in 0..MaxChanges

LEMMA FreshInv == Fresh => LocalInv
<1> SUFFICES ASSUME cache = NoCache, lock = [l \in Locks |-> None], cell = EmptyCells, task = [t \in Task |-> Idle],
         world \in [pw : [Vault -> Nat], ver : [Vault -> Nat], plugged : BOOLEAN, svc : {"up", "denied", "nokey", "down"}],
         \A v \in Vault : world.pw[v] # 0,
         usb \in [claimed : {None}, driver : BOOLEAN, buf : Seq(Nat), pending : Nat],
         store = [p \in Provider |-> IF Encrypts(p) THEN Key(p, Secret(p)) ELSE None],
         inUse \subseteq Provider, known = {}, ops \in 0..MaxOps, changes \in 0..MaxChanges
    PROVE LocalInv
  BY DEF Fresh
<1>1. Idle \in Operation /\ Idle.at = "idle" /\ Idle.got = <<>> /\ Idle.out = None
  BY IdleIs
<1>2. \A t \in Task : task[t] = Idle
  OBVIOUS
<1>4. LocalTypes
  <2>1. /\ cache = [k \in {"fido2", "yubikey", "enpass", "keepass"} |-> cache[k]]
        /\ \A k \in Hardware : cache[k] \in [Names -> Passwords]
        /\ \A k \in {"enpass", "keepass"} : cache[k] \in [Vault -> Passwords]
    <3>1. None \in Passwords
      BY DEF Passwords
    <3> QED BY <3>1, NothingKept
  <2>2. lock \in [Locks -> Task \cup {None}]
    OBVIOUS
  <2>3. cell \in [Provider -> [st : {"empty", "busy", "failed", "ready"}, v : Nat]]
    BY DEF EmptyCells
  <2>4. task \in [Task -> Operation]
    BY <1>1
  <2>5. usb \in [claimed : Task \cup {None}, driver : BOOLEAN, buf : Seq(Nat), pending : Nat]
    OBVIOUS
  <2> QED BY <2>1, <2>2, <2>3, <2>4, <2>5 DEF LocalTypes, CacheTypes, UsbTypes
<1>5. \A t \in Task : KindAt(task[t]) /\ ReadOK(task[t])
  <2>1. KindAt(Idle)
    BY <1>1 DEF KindAt, TokenSteps
  <2>2. Idle.out # "undecryptable"
    BY <1>1, LocalSecretsAssumption DEF Outcomes
  <2>3. ReadOK(Idle)
    BY <1>1, <2>2 DEF ReadOK
  <2> QED BY <1>2, <2>1, <2>3
<1>6. LockInv
  <2>1. ASSUME NEW t \in Task, NEW l \in Locks PROVE lock[l] # t /\ ~Has(task[t], l)
    BY <1>1, <1>2, LocalSecretsAssumption DEF Has, TokenSteps
  <2> QED BY <2>1 DEF LockInv
<1>7. TokenInv
  <2>1. \A t \in Task : TokenOK(task[t])
    BY <1>1, <1>2 DEF TokenOK
  <2> QED BY <2>1 DEF TokenInv
<1>8. CacheInv
  <2>1. \A v \in Vault : cache["enpass"][v] # Wrong /\ world.pw[v] # 0
    BY NothingKept, LocalSecretsAssumption DEF Wrong
  <2>2. \A p \in Provider : Kind[p] \in Hardware => cache[Kind[p]][NameOf[p]] \in {None, Secret(p)}
    <3>1. ASSUME NEW p \in Provider, Kind[p] \in Hardware PROVE cache[Kind[p]][NameOf[p]] = None
      <4>1. NameOf[p] \in Names /\ cache[Kind[p]] = [x \in Names |-> None]
        BY <3>1, NothingKept DEF Names
      <4> QED BY <4>1
    <3> QED BY <3>1
  <2> QED BY <2>1, <2>2 DEF CacheInv
<1>9. KnownInv
  BY <1>1, <1>2 DEF KnownInv
<1> QED BY <1>4, <1>5, <1>6, <1>7, <1>8, <1>9 DEF LocalInv

LEMMA LocalStarts ==
  ASSUME LocalInit \/ LocalIdle
  PROVE  LocalInv
<1>1. /\ cache = NoCache /\ lock = [l \in Locks |-> None] /\ cell = EmptyCells /\ task = [t \in Task |-> Idle]
      /\ world = [pw |-> [v \in Vault |-> 1], ver |-> [v \in Vault |-> 1], plugged |-> TRUE, svc |-> "up"]
      /\ usb = [claimed |-> None, driver |-> TRUE, buf |-> NoFrame, pending |-> 0]
      /\ store = [p \in Provider |-> IF Encrypts(p) THEN Key(p, Secret(p)) ELSE None] /\ known = {}
  BY DEF LocalInit, LocalIdle
<1>2. inUse \subseteq Provider /\ ops \in 0..MaxOps /\ changes \in 0..MaxChanges
  BY LocalSecretsAssumption DEF LocalInit, LocalIdle
<1>3. world \in [pw : [Vault -> Nat], ver : [Vault -> Nat], plugged : BOOLEAN, svc : {"up", "denied", "nokey", "down"}]
  BY <1>1
<1>4. \A v \in Vault : world.pw[v] # 0
  BY <1>1
<1>5. usb \in [claimed : {None}, driver : BOOLEAN, buf : Seq(Nat), pending : Nat]
  BY <1>1 DEF NoFrame
<1> QED BY <1>1, <1>2, <1>3, <1>4, <1>5, FreshInv DEF Fresh

----------------------------------------------------------------------------
(* One action after the other: those that leave caches, vaults and the YubiKey alone. *)

LEMMA BeginKeeps ==
  ASSUME LocalInv, NEW t \in Task, Begin(t), inUse' = inUse
  PROVE  LocalInv'
<1>1. PICK p \in inUse, op \in {"get", "encrypt"} :
        task' = [task EXCEPT ![t] = [Idle EXCEPT !.at = FirstStep(p), !.p = p, !.op = op, !.pw = Configured[p]]]
  BY DEF Begin
<1>2. p \in Provider
  BY DEF LocalInv, LocalTypes
<1> DEFINE r == [Idle EXCEPT !.at = FirstStep(p), !.p = p, !.op = op, !.pw = Configured[p]]
<1>3. /\ Kind[p] \in Hardware \cup {"enpass"} => FirstStep(p) = "lock"
      /\ Kind[p] = "keepass" => FirstStep(p) \in {"open", "lock"}
      /\ Kind[p] \in Cells => FirstStep(p) = "cell"
      /\ Kind[p] \in Services => FirstStep(p) = "call"
  BY DEF FirstStep, Hardware, Cells, Services
<1>4. FirstStep(p) \in {"lock", "open", "cell", "call"}
  BY <1>2, <1>3, KindIs
<1>5. r.at = FirstStep(p) /\ r.p = p /\ r.got = <<>> /\ r.out = None
  BY DEF Idle
<1>6. r \in Operation
  <2>1. Configured[p] \in Passwords
    BY <1>2 DEF Passwords
  <2>2. FirstStep(p) \in Labels
    BY <1>4 DEF Labels
  <2> QED BY <1>2, <2>1, <2>2, IdleIs DEF Operation
<1>7. Becomes(t, r)
  BY <1>1 DEF Becomes
<1> HIDE DEF r
<1>8. KindAt(r)
  BY <1>2, <1>3, <1>4, <1>5, KindIs DEF KindAt, TokenSteps, Hardware, Cells, Services
<1>9. ReadOK(r)
  BY <1>4, <1>5, LocalSecretsAssumption DEF ReadOK, Outcomes
<1>10. task[t].at = "idle" /\ ops' \in 0..MaxOps
  BY Here DEF Begin, At
<1>11. StepQuiet(t, r)
  BY <1>4, <1>5, <1>7, <1>8, <1>9, <1>10, Here DEF StepQuiet, TokenSteps, Begin
<1>12. \A l \in Locks : ~Has(r, l) /\ ~Has(task[t], l)
  BY <1>2, <1>3, <1>4, <1>5, <1>10 DEF Has, TokenSteps
<1> QED BY <1>6, <1>11, <1>12, QuietSame DEF Begin

LEMMA TaskEndKeeps ==
  ASSUME LocalInv, NEW t \in Task, End(t), inUse' = inUse
  PROVE  LocalInv'
<1>1. task[t].at = "done" /\ Becomes(t, Idle)
  BY DEF End, At, Becomes
<1>2. KindAt(Idle) /\ ReadOK(Idle)
  BY IdleIs, LocalSecretsAssumption DEF KindAt, ReadOK, Outcomes, TokenSteps
<1>3. StepQuiet(t, Idle)
  BY <1>1, <1>2, IdleIs, Here DEF StepQuiet, TokenSteps, End
<1>4. \A l \in Locks : ~Has(Idle, l) /\ ~Has(task[t], l)
  BY <1>1, IdleIs DEF Has, TokenSteps
<1> QED BY <1>3, <1>4, IdleIs, QuietSame DEF End

(* A task that ends, and leaves the rest as it is. *)
LEMMA DoneQuiet ==
  ASSUME LocalInv, NEW t \in Task, task[t].at \notin TokenSteps \cup {"idle"},
         NEW o \in Outcomes, o # "undecryptable", Done(t, o),
         ~(task[t].at = "open" /\ Kind[task[t].p] = "enpass"),
         cache' = cache, world' = world, usb' = usb, store' = store, inUse' = inUse, known' = known,
         changes' = changes, ops' = ops, cell' \in CellTypes
  PROVE  \E r \in Operation : StepQuiet(t, r) /\ r.at = "done" /\ \A l \in Locks : ~Has(r, l)
<1> DEFINE r == [task[t] EXCEPT !.at = "done", !.out = o]
<1>1. /\ r \in Operation /\ Becomes(t, r) /\ r.at = "done" /\ r.p = task[t].p
      /\ r.got = task[t].got /\ r.out = o
  <2>1. task \in [Task -> Operation] /\ task[t] \in Operation
    BY Here
  <2>2. /\ r \in Operation /\ r.at = "done" /\ r.p = task[t].p
        /\ r.got = task[t].got /\ r.out = o
    BY <2>1 DEF Operation, Labels
  <2> QED BY <2>2 DEF Done, Becomes
<1> HIDE DEF r
<1>2. KindAt(r) /\ ReadOK(r) /\ \A l \in Locks : ~Has(r, l)
  BY <1>1, Here, OperationEnds
<1>3. StepQuiet(t, r)
  BY <1>1, <1>2, Here DEF StepQuiet, TokenSteps
<1> QED BY <1>1, <1>2, <1>3

LEMMA DoneKeeps ==
  ASSUME LocalInv, NEW t \in Task, task[t].at \notin TokenSteps \cup {"idle"},
         NEW o \in Outcomes, o # "undecryptable", Done(t, o),
         ~(task[t].at = "open" /\ Kind[task[t].p] = "enpass"),
         cache' = cache, world' = world, usb' = usb, store' = store, inUse' = inUse, known' = known,
         changes' = changes, ops' = ops, cell' \in CellTypes,
         lock' = lock, \A l \in Locks : ~Has(task[t], l)
  PROVE  LocalInv'
<1>1. PICK r \in Operation : StepQuiet(t, r) /\ r.at = "done" /\ \A l \in Locks : ~Has(r, l)
  BY DoneQuiet
<1> QED BY <1>1, QuietSame

LEMMA DoneFrees ==
  ASSUME LocalInv, NEW t \in Task, task[t].at \notin TokenSteps \cup {"idle"},
         NEW o \in Outcomes, o # "undecryptable", Done(t, o),
         ~(task[t].at = "open" /\ Kind[task[t].p] = "enpass"),
         cache' = cache, world' = world, usb' = usb, store' = store, inUse' = inUse, known' = known,
         changes' = changes, ops' = ops, cell' \in CellTypes,
         NEW k \in Locks, Free(k), \A l \in Locks : Has(task[t], l) <=> l = k
  PROVE  LocalInv'
<1>1. PICK r \in Operation : StepQuiet(t, r) /\ r.at = "done" /\ \A l \in Locks : ~Has(r, l)
  BY DoneQuiet
<1> QED BY <1>1, QuietFrees

(* A task that goes on elsewhere with what it has. *)
LEMMA GotoQuiet ==
  ASSUME LocalInv, NEW t \in Task, task[t].at \notin TokenSteps \cup {"idle"},
         NEW l \in Labels \ (TokenSteps \cup {"idle", "done", "use"}), Goto(t, l), task[t].got = <<>>,
         ~(task[t].at = "open" /\ Kind[task[t].p] = "enpass"),
         l = "lock" => Kind[task[t].p] \in Hardware \cup {"enpass", "keepass"},
         l \in {"ask", "items", "fields"} => Kind[task[t].p] = "enpass",
         l \in {"prompt", "open"} => Kind[task[t].p] \in {"enpass", "keepass"},
         l = "device" => Kind[task[t].p] \in Hardware, l \in {"askpin", "assert"} => Kind[task[t].p] = "fido2",
         l = "call" => Kind[task[t].p] \in Services, l \in {"cell", "load", "read"} => Kind[task[t].p] \in Cells,
         l = "prompt" /\ Kind[task[t].p] = "enpass" => task[t].p \notin known,
         cache' = cache, world' = world, usb' = usb, store' = store, inUse' = inUse, known' = known,
         changes' = changes, ops' = ops, cell' \in CellTypes
  PROVE  \E r \in Operation : StepQuiet(t, r) /\ r.at = l /\ r.p = task[t].p
<1> DEFINE r == [task[t] EXCEPT !.at = l]
<1>1. /\ r \in Operation /\ Becomes(t, r) /\ r.at = l /\ r.p = task[t].p
      /\ r.got = task[t].got /\ r.out = task[t].out
  BY Here, GotoIs
<1> HIDE DEF r
<1>2. KindAt(r)
  BY <1>1, Here DEF KindAt, TokenSteps
<1>3. ReadOK(r)
  BY <1>1, Here DEF ReadOK, TokenSteps
<1>4. StepQuiet(t, r)
  BY <1>1, <1>2, <1>3, Here DEF StepQuiet, TokenSteps
<1> QED BY <1>1, <1>4

LEMMA LockTokenKeeps ==
  ASSUME LocalInv, NEW t \in Task, LockToken(t), inUse' = inUse,
         UNCHANGED <<cache, cell, world, usb, store, ops, changes, known>>
  PROVE  LocalInv'
<1> DEFINE p == task[t].p
<1>1. task[t].at = "lock" /\ p \in Provider /\ Kind[p] \in Hardware /\ task[t].got = <<>> /\ LockOf(p) = Kind[p] /\ Kind[p] \in Locks
  BY Here, KindIs DEF LockToken, At, KindOf, Prov, ReadOK
<1>2. \A l \in Locks : ~Has(task[t], l)
  BY <1>1 DEF Has, TokenSteps
<1>3. CASE Cached(p) # None
  <2> DEFINE r == [task[t] EXCEPT !.at = "use", !.pw = Cached(p)]
  <2>1. Becomes(t, r) /\ lock' = lock
    BY <1>3 DEF LockToken, Prov, Becomes
  <2>2. Cached(p) = Secret(p) /\ Secret(p) \in Passwords
    BY <1>1, <1>3 DEF LocalInv, CacheInv, Cached, CacheKey, Passwords
  <2>3. r \in Operation /\ r.at = "use" /\ r.p = p /\ r.pw = Secret(p) /\ r.got = <<>> /\ r.out = task[t].out
    <3>1. task[t] \in Operation
      BY Here
    <3> QED BY <1>1, <2>2, <3>1 DEF Operation, Labels
  <2> HIDE DEF r
  <2>4. KindAt(r) /\ ReadOK(r)
    BY <1>1, <2>3, Here DEF KindAt, ReadOK, TokenSteps
  <2>5. StepQuiet(t, r)
    BY <1>1, <2>1, <2>3, <2>4, Here DEF StepQuiet, TokenSteps
  <2>6. \A l \in Locks : ~Has(r, l)
    BY <2>3 DEF Has, TokenSteps
  <2> QED BY <1>2, <2>1, <2>3, <2>5, <2>6, QuietSame
<1>4. CASE Cached(p) = None
  <2>1. Take(Kind[p], t) /\ Goto(t, "device")
    BY <1>1, <1>4 DEF LockToken, Prov
  <2>2. "device" \in Labels \ (TokenSteps \cup {"idle", "done", "use"}) /\ task[t].at \notin TokenSteps \cup {"idle"}
    BY <1>1 DEF Labels, TokenSteps
  <2>3. cell' \in CellTypes
    BY Here
  <2>4. PICK r \in Operation : StepQuiet(t, r) /\ r.at = "device" /\ r.p = p
    BY <1>1, <2>1, <2>2, <2>3, GotoQuiet
  <2>5. \A l \in Locks : Has(r, l) <=> l = Kind[p]
    BY <2>4 DEF Has, TokenSteps
  <2> QED BY <1>1, <1>2, <2>1, <2>4, <2>5, QuietTakes
<1> QED BY <1>3, <1>4

LEMMA LockKeePassKeeps ==
  ASSUME LocalInv, NEW t \in Task, LockKeePass(t), inUse' = inUse,
         UNCHANGED <<cache, cell, world, usb, store, ops, changes, known>>
  PROVE  LocalInv'
<1> DEFINE p == task[t].p
<1>1. task[t].at = "lock" /\ p \in Provider /\ Kind[p] = "keepass" /\ task[t].got = <<>> /\ "keepass" \in Locks
  BY Here DEF LockKeePass, At, KindOf, Prov, ReadOK, Locks
<1>2. \A l \in Locks : ~Has(task[t], l)
  BY <1>1 DEF Has, TokenSteps
<1>3. task[t].at \notin TokenSteps \cup {"idle"} /\ cell' \in CellTypes
  BY <1>1, Here DEF TokenSteps
<1>4. CASE Cached(p) # None
  <2> DEFINE r == [task[t] EXCEPT !.at = "open", !.pw = Cached(p)]
  <2>1. Becomes(t, r) /\ lock' = lock
    BY <1>4 DEF LockKeePass, Prov, Becomes
  <2>2. Cached(p) \in Passwords
    BY <1>1 DEF LocalInv, LocalTypes, CacheTypes, Cached, CacheKey, Vault, Hardware
  <2>3. r \in Operation /\ r.at = "open" /\ r.p = p /\ r.got = <<>> /\ r.out = task[t].out
    <3>1. task[t] \in Operation
      BY Here
    <3> QED BY <1>1, <2>2, <3>1 DEF Operation, Labels
  <2> HIDE DEF r
  <2>4. KindAt(r) /\ ReadOK(r)
    BY <1>1, <2>3, Here DEF KindAt, ReadOK, TokenSteps
  <2>5. StepQuiet(t, r)
    BY <1>1, <1>3, <2>1, <2>3, <2>4, Here DEF StepQuiet, TokenSteps
  <2>6. \A l \in Locks : ~Has(r, l)
    BY <1>1, <2>3 DEF Has, TokenSteps
  <2> QED BY <1>2, <2>1, <2>3, <2>5, <2>6, QuietSame
<1>5. CASE Cached(p) = None /\ Interactive
  <2>1. Take("keepass", t) /\ Goto(t, "prompt")
    BY <1>5 DEF LockKeePass, Prov
  <2>2. "prompt" \in Labels \ (TokenSteps \cup {"idle", "done", "use"})
    BY DEF Labels, TokenSteps
  <2>3. PICK r \in Operation : StepQuiet(t, r) /\ r.at = "prompt" /\ r.p = p
    BY <1>1, <1>3, <2>1, <2>2, GotoQuiet
  <2>4. \A l \in Locks : Has(r, l) <=> l = "keepass"
    BY <1>1, <2>3 DEF Has, TokenSteps
  <2> QED BY <1>1, <1>2, <2>1, <2>3, <2>4, QuietTakes
<1>6. CASE Cached(p) = None /\ ~Interactive
  <2>1. Done(t, "auth") /\ lock' = lock
    BY <1>6 DEF LockKeePass, Prov
  <2>2. "auth" \in Outcomes
    BY DEF Outcomes
  <2> QED BY <1>1, <1>2, <1>3, <2>1, <2>2, DoneKeeps
<1> QED BY <1>4, <1>5, <1>6

LEMMA LockEnpassKeeps ==
  ASSUME LocalInv, NEW t \in Task, LockEnpass(t), inUse' = inUse,
         UNCHANGED <<cache, cell, world, usb, store, ops, changes, known>>
  PROVE  LocalInv'
<1> DEFINE p == task[t].p
<1>1. task[t].at = "lock" /\ p \in Provider /\ Kind[p] = "enpass" /\ task[t].got = <<>>
      /\ VaultOf[p] \in Locks /\ LockOf(p) = VaultOf[p]
  BY Here, KindIs DEF LockEnpass, At, KindOf, Prov, ReadOK
<1>2. \A l \in Locks : ~Has(task[t], l)
  BY <1>1 DEF Has, TokenSteps
<1>3. task[t].at \notin TokenSteps \cup {"idle"} /\ cell' \in CellTypes
  BY <1>1, Here DEF TokenSteps
<1>4. Take(VaultOf[p], t) /\ Goto(t, "ask")
  BY <1>1 DEF LockEnpass, Prov
<1>5. "ask" \in Labels \ (TokenSteps \cup {"idle", "done", "use"})
  BY DEF Labels, TokenSteps
<1>6. PICK r \in Operation : StepQuiet(t, r) /\ r.at = "ask" /\ r.p = p
  BY <1>1, <1>3, <1>4, <1>5, GotoQuiet
<1>7. \A l \in Locks : Has(r, l) <=> l = VaultOf[p]
  BY <1>1, <1>6 DEF Has, TokenSteps
<1> QED BY <1>1, <1>2, <1>4, <1>6, <1>7, QuietTakes

LEMMA LockStepKeeps ==
  ASSUME LocalInv, NEW t \in Task, LockStep(t), inUse' = inUse
  PROVE  LocalInv'
BY LockTokenKeeps, LockKeePassKeeps, LockEnpassKeeps DEF LockStep

LEMMA AskKeeps ==
  ASSUME LocalInv, NEW t \in Task, Ask(t), inUse' = inUse
  PROVE  LocalInv'
<1> DEFINE p == task[t].p
<1>1. task[t].at = "ask" /\ p \in Provider /\ Kind[p] = "enpass" /\ task[t].got = <<>>
      /\ VaultOf[p] \in Locks /\ LockOf(p) = VaultOf[p] /\ "prompt" \in Locks /\ VaultOf[p] # "prompt" /\ VaultOf[p] \in Vault
  BY Here, KindIs DEF Ask, At, KindAt, ReadOK, Locks
<1>2. \A l \in Locks : Has(task[t], l) <=> l = VaultOf[p]
  BY <1>1 DEF Has, TokenSteps
<1>3. task[t].at \notin TokenSteps \cup {"idle"} /\ cell' \in CellTypes
  BY <1>1, Here DEF TokenSteps, Ask
<1>4. ASSUME NEW w \in Passwords, NEW b \in BOOLEAN, lock' = lock, NEW r \in Operation, Becomes(t, r), r.at = "open", r.p = p,
             r.got = <<>>, r.out = task[t].out
      PROVE  LocalInv'
  <2>1. KindAt(r) /\ ReadOK(r)
    BY <1>1, <1>4, Here DEF KindAt, ReadOK, TokenSteps
  <2>2. StepQuiet(t, r)
    BY <1>1, <1>3, <1>4, <2>1, Here DEF StepQuiet, TokenSteps, Ask
  <2>3. \A l \in Locks : Has(r, l) <=> l = VaultOf[p]
    BY <1>1, <1>4 DEF Has, TokenSteps
  <2> QED BY <1>2, <1>4, <2>2, <2>3, QuietSame
<1>5. CASE Configured[p] # None
  <2> DEFINE r == [task[t] EXCEPT !.at = "open", !.pw = Configured[p]]
  <2>1. Becomes(t, r) /\ lock' = lock
    BY <1>5 DEF Ask, Prov, Becomes
  <2>2. Configured[p] \in Passwords
    BY <1>1 DEF Passwords
  <2>3. r \in Operation /\ r.at = "open" /\ r.p = p /\ r.got = <<>> /\ r.out = task[t].out
    <3>1. task[t] \in Operation
      BY Here
    <3> QED BY <1>1, <2>2, <3>1 DEF Operation, Labels
  <2> QED BY <1>4, <2>1, <2>2, <2>3
<1>6. CASE Configured[p] = None /\ Cached(p) # None
  <2> DEFINE r == [task[t] EXCEPT !.at = "open", !.pw = Cached(p), !.prompted = FALSE]
  <2>1. Becomes(t, r) /\ lock' = lock
    BY <1>6 DEF Ask, Prov, Becomes
  <2>2. Cached(p) \in Passwords
    BY <1>1 DEF LocalInv, LocalTypes, CacheTypes, Cached, CacheKey, Vault, Hardware
  <2>3. r \in Operation /\ r.at = "open" /\ r.p = p /\ r.got = <<>> /\ r.out = task[t].out
    <3>1. task[t] \in Operation
      BY Here
    <3> QED BY <1>1, <2>2, <3>1 DEF Operation, Labels
  <2> QED BY <1>4, <2>1, <2>2, <2>3
<1>7. CASE Configured[p] = None /\ Cached(p) = None /\ Interactive
  <2>1. Take("prompt", t) /\ Goto(t, "prompt")
    BY <1>7 DEF Ask, Prov
  <2>2. "prompt" \in Labels \ (TokenSteps \cup {"idle", "done", "use"})
    BY DEF Labels, TokenSteps
  <2>3. p \notin known
    <3>1. SUFFICES ASSUME p \in known PROVE FALSE
      OBVIOUS
    <3>2. cache["enpass"][VaultOf[p]] = None /\ world.pw[VaultOf[p]] \in Nat
      BY <1>1, <1>7 DEF LocalInv, LocalTypes, CacheTypes, Cached, CacheKey, Hardware
    <3>3. PICK u \in Task : Tells(task[u], VaultOf[p])
      BY <1>1, <3>1, <3>2, LocalSecretsAssumption DEF LocalInv, KnownInv
    <3>4. Has(task[u], VaultOf[p]) /\ Has(task[t], VaultOf[p])
      BY <1>1, <1>2, <3>3 DEF Tells, Has
    <3>5. u = t
      BY <1>1, <3>4, OneHas DEF LocalInv
    <3> QED BY <1>1, <3>3, <3>5 DEF Tells
  <2>4. PICK r \in Operation : StepQuiet(t, r) /\ r.at = "prompt" /\ r.p = p
    BY <1>1, <1>3, <2>1, <2>2, <2>3, GotoQuiet DEF Ask
  <2>5. \A l \in Locks : Has(r, l) <=> l \in {VaultOf[p], "prompt"}
    BY <1>1, <2>4 DEF Has, TokenSteps
  <2> QED BY <1>1, <1>2, <2>1, <2>4, <2>5, QuietTakes
<1>8. CASE Configured[p] = None /\ Cached(p) = None /\ ~Interactive
  <2>1. Done(t, "auth") /\ Free(VaultOf[p])
    BY <1>1, <1>8 DEF Ask, Prov
  <2>2. "auth" \in Outcomes
    BY DEF Outcomes
  <2> QED BY <1>1, <1>2, <1>3, <2>1, <2>2, DoneFrees DEF Ask
<1> QED BY <1>5, <1>6, <1>7, <1>8

LEMMA OpenKeePassKeeps ==
  ASSUME LocalInv, NEW t \in Task, OpenKeePass(t), inUse' = inUse
  PROVE  LocalInv'
<1> DEFINE p == task[t].p
           v == world.ver[VaultOf[p]]
<1>1. task[t].at = "open" /\ p \in Provider /\ Kind[p] = "keepass" /\ task[t].got = <<>> /\ VaultOf[p] \in Vault
  BY Here, KindIs DEF OpenKeePass, At, KindOf, Prov, ReadOK
<1>2. \A l \in Locks : ~Has(task[t], l)
  BY <1>1 DEF Has, TokenSteps
<1>3. task[t].at \notin TokenSteps \cup {"idle"} /\ cell' \in CellTypes
  BY <1>1, Here DEF TokenSteps, OpenKeePass
<1>4. v \in Nat
  BY <1>1 DEF LocalInv, LocalTypes
<1>5. ASSUME NEW r \in Operation, Becomes(t, r), r.at = "done", r.p = p, r.got \in {<<>>, <<v, v>>},
             r.out # "undecryptable"
      PROVE  LocalInv'
  <2>1. KindAt(r)
    BY <1>1, <1>5 DEF KindAt, TokenSteps
  <2>2. \A i, j \in DOMAIN r.got : r.got[i] = r.got[j]
    BY <1>5
  <2>3. ReadOK(r)
    BY <1>5, <2>2 DEF ReadOK
  <2>4. StepQuiet(t, r)
    BY <1>1, <1>3, <1>5, <2>1, <2>3, Here DEF StepQuiet, TokenSteps, OpenKeePass
  <2>5. \A l \in Locks : ~Has(r, l)
    BY <1>5 DEF Has, TokenSteps
  <2> QED BY <1>2, <1>5, <2>4, <2>5, QuietSame DEF OpenKeePass
<1>6. PICK db \in Databases, f \in Field :
        \/ task' = [task EXCEPT ![t].at = "done", ![t].out = "auth"]
        \/ task' = [task EXCEPT ![t].at = "done", ![t].out = "invalid", ![t].f = [db |-> db, f |-> f]]
        \/ task' = [task EXCEPT ![t].at = "done", ![t].got = <<v, v>>, ![t].out = "values", ![t].f = [db |-> db, f |-> f]]
  BY DEF OpenKeePass, Prov
<1>7. task[t] \in Operation
  BY Here
<1>8. <<v, v>> \in Seq(Nat \cup Seq(Nat))
  BY <1>4
<1>9. CASE task' = [task EXCEPT ![t].at = "done", ![t].out = "auth"]
  <2> DEFINE r == [task[t] EXCEPT !.at = "done", !.out = "auth"]
  <2>1. r \in Operation /\ r.at = "done" /\ r.p = p /\ r.got = <<>> /\ r.out # "undecryptable"
    BY <1>1, <1>7 DEF Operation, Labels, Outcomes
  <2> QED BY <1>5, <1>9, <2>1 DEF Becomes
<1>10. CASE task' = [task EXCEPT ![t].at = "done", ![t].out = "invalid", ![t].f = [db |-> db, f |-> f]]
  <2> DEFINE r == [task[t] EXCEPT !.at = "done", !.out = "invalid", !.f = [db |-> db, f |-> f]]
  <2>1. r \in Operation /\ r.at = "done" /\ r.p = p /\ r.got = <<>> /\ r.out # "undecryptable"
    BY <1>1, <1>7 DEF Operation, Labels, Outcomes
  <2> QED BY <1>5, <1>10, <2>1 DEF Becomes
<1>11. CASE task' = [task EXCEPT ![t].at = "done", ![t].got = <<v, v>>, ![t].out = "values", ![t].f = [db |-> db, f |-> f]]
  <2> DEFINE r == [task[t] EXCEPT !.at = "done", !.got = <<v, v>>, !.out = "values", !.f = [db |-> db, f |-> f]]
  <2>1. r \in Operation /\ r.at = "done" /\ r.p = p /\ r.got = <<v, v>> /\ r.out # "undecryptable"
    BY <1>1, <1>7, <1>8 DEF Operation, Labels, Outcomes
  <2> QED BY <1>5, <1>11, <2>1 DEF Becomes
<1> QED BY <1>6, <1>9, <1>10, <1>11

(* A task that reads goes on with what it has got, or has read all. *)
LEMMA ReadKeeps ==
  ASSUME LocalInv, NEW t \in Task, task[t].at \in {"fields", "read"}, inUse' = inUse,
         UNCHANGED <<cache, lock, cell, world, usb, store, ops, changes, known>>,
         LET got == Append(task[t].got, task[t].snap)
         IN  task' = [task EXCEPT ![t].got = got, ![t].at = IF Len(got) = 2 THEN "done" ELSE @,
                                  ![t].out = IF Len(got) = 2 THEN "values" ELSE @]
  PROVE  LocalInv'
<1> DEFINE got == Append(task[t].got, task[t].snap)
           at == IF Len(got) = 2 THEN "done" ELSE task[t].at
           out == IF Len(got) = 2 THEN "values" ELSE task[t].out
           r == [task[t] EXCEPT !.got = got, !.at = at, !.out = out]
<1>1. /\ task[t] \in Operation /\ task[t].p \in Provider /\ task[t].snap \in Nat
      /\ task[t].got \in Seq(Nat \cup Seq(Nat)) /\ KindAt(task[t]) /\ ReadOK(task[t]) /\ cell \in CellTypes
      /\ ops \in 0..MaxOps
  BY Here
<1>2. got \in Seq(Nat \cup Seq(Nat)) /\ \A i \in DOMAIN got : got[i] = task[t].snap
  <2>1. \A i \in DOMAIN task[t].got : task[t].got[i] = task[t].snap
    BY <1>1 DEF ReadOK
  <2> QED BY <1>1, <2>1
<1>3. Becomes(t, r)
  BY DEF Becomes
<1> HIDE DEF got
<1>4. /\ r \in Operation /\ r.at \in {"done", task[t].at} /\ r.p = task[t].p /\ r.snap = task[t].snap
      /\ r.got = got /\ r.out \in {"values", task[t].out}
  BY <1>1, <1>2 DEF Operation, Labels, Outcomes
<1> HIDE DEF r
<1>5. KindAt(r)
  BY <1>1, <1>4 DEF KindAt, TokenSteps
<1>6. ReadOK(r)
  BY <1>1, <1>2, <1>4 DEF ReadOK
<1>7. StepQuiet(t, r)
  BY <1>1, <1>3, <1>4, <1>5, <1>6 DEF StepQuiet, TokenSteps
<1>8. \A l \in Locks : ~Has(r, l) /\ ~Has(task[t], l)
  BY <1>4 DEF Has, TokenSteps
<1> QED BY <1>4, <1>7, <1>8, QuietSame

LEMMA FindFieldKeeps ==
  ASSUME LocalInv, NEW t \in Task, FindField(t), inUse' = inUse
  PROVE  LocalInv'
BY ReadKeeps DEF FindField, Snapshot, At

LEMMA ReadCellKeeps ==
  ASSUME LocalInv, NEW t \in Task, ReadCell(t), inUse' = inUse
  PROVE  LocalInv'
BY ReadKeeps DEF ReadCell, At

(* A task begins to read: it has read nothing so far. *)
LEMMA SnapKeeps ==
  ASSUME LocalInv, NEW t \in Task, NEW n \in Nat, inUse' = inUse,
         UNCHANGED <<cache, lock, cell, world, usb, store, ops, changes, known>>,
         NEW l \in {"fields", "read"}, task[t].at \in {"items", "cell"}, (task[t].at = "items") = (l = "fields"),
         task' = [task EXCEPT ![t].at = l, ![t].snap = n]
  PROVE  LocalInv'
<1> DEFINE r == [task[t] EXCEPT !.at = l, !.snap = n]
<1>1. /\ task[t] \in Operation /\ task[t].p \in Provider /\ KindAt(task[t]) /\ ReadOK(task[t]) /\ cell \in CellTypes
      /\ ops \in 0..MaxOps
  BY Here
<1>2. task[t].got = <<>>
  BY <1>1 DEF ReadOK
<1>3. Becomes(t, r)
  BY DEF Becomes
<1>4. r \in Operation /\ r.at = l /\ r.p = task[t].p /\ r.snap = n /\ r.got = <<>> /\ r.out = task[t].out
  BY <1>1, <1>2 DEF Operation, Labels
<1> HIDE DEF r
<1>5. KindAt(r)
  BY <1>1, <1>4 DEF KindAt, TokenSteps
<1>6. ReadOK(r)
  BY <1>1, <1>4 DEF ReadOK
<1>7. StepQuiet(t, r)
  BY <1>1, <1>3, <1>4, <1>5, <1>6 DEF StepQuiet, TokenSteps
<1>8. \A k \in Locks : ~Has(r, k) /\ ~Has(task[t], k)
  BY <1>4 DEF Has, TokenSteps
<1> QED BY <1>4, <1>7, <1>8, QuietSame

LEMMA LoadItemsKeeps ==
  ASSUME LocalInv, NEW t \in Task, LoadItems(t), inUse' = inUse
  PROVE  LocalInv'
<1>1. task[t].at = "items" /\ task[t].p \in Provider
  BY Here DEF LoadItems, At
<1>2. VaultOf[task[t].p] \in Vault
  BY <1>1, KindIs
<1>3. world.ver[VaultOf[task[t].p]] \in Nat
  BY <1>2 DEF LocalInv, LocalTypes
<1> QED BY <1>1, <1>3, SnapKeeps DEF LoadItems, Prov

LEMMA GetCellKeeps ==
  ASSUME LocalInv, NEW t \in Task, GetCell(t), inUse' = inUse
  PROVE  LocalInv'
<1> DEFINE p == task[t].p
<1>1. task[t].at = "cell" /\ p \in Provider /\ task[t].got = <<>> /\ Kind[p] \in Cells /\ cell \in CellTypes
  BY Here DEF GetCell, At, ReadOK, KindAt
<1>2. \A l \in Locks : ~Has(task[t], l)
  BY <1>1 DEF Has, TokenSteps
<1>3. task[t].at \notin TokenSteps \cup {"idle"}
  BY <1>1 DEF TokenSteps
<1>4. CASE cell[p].st = "empty"
  <2>1. Goto(t, "load") /\ cell' = [cell EXCEPT ![p].st = "busy"]
    BY <1>4 DEF GetCell, Prov
  <2>2. cell' \in CellTypes
    BY <1>1, <2>1 DEF CellTypes
  <2>3. "load" \in Labels \ (TokenSteps \cup {"idle", "done", "use"})
    BY DEF Labels, TokenSteps
  <2>4. PICK r \in Operation : StepQuiet(t, r) /\ r.at = "load" /\ r.p = p
    BY <1>1, <1>3, <2>1, <2>2, <2>3, GotoQuiet DEF GetCell
  <2>5. \A l \in Locks : ~Has(r, l)
    BY <2>4 DEF Has, TokenSteps
  <2> QED BY <1>2, <2>4, <2>5, QuietSame DEF GetCell
<1>5. CASE cell[p].st = "failed"
  <2>1. Done(t, "invalid") /\ cell' = cell /\ "invalid" \in Outcomes
    BY <1>5 DEF GetCell, Prov, Outcomes
  <2> QED BY <1>1, <1>2, <1>3, <2>1, DoneKeeps DEF GetCell
<1>6. CASE cell[p].st \notin {"empty", "failed"}
  <2>1. task' = [task EXCEPT ![t].at = "read", ![t].snap = cell[p].v] /\ cell' = cell
    BY <1>6 DEF GetCell, Prov
  <2>2. cell[p].v \in Nat
    BY <1>1 DEF CellTypes
  <2> QED BY <1>1, <2>1, <2>2, SnapKeeps DEF GetCell
<1> QED BY <1>4, <1>5, <1>6

LEMMA LoadCellKeeps ==
  ASSUME LocalInv, NEW t \in Task, LoadCell(t), inUse' = inUse
  PROVE  LocalInv'
<1> DEFINE p == task[t].p
<1>1. task[t].at = "load" /\ p \in Provider /\ task[t].got = <<>> /\ Kind[p] \in Cells /\ cell \in CellTypes /\ VaultOf[p] \in Vault
  BY Here, KindIs DEF LoadCell, At, ReadOK, KindAt
<1>2. \A l \in Locks : ~Has(task[t], l)
  BY <1>1 DEF Has, TokenSteps
<1>3. task[t].at \notin TokenSteps \cup {"idle"}
  BY <1>1 DEF TokenSteps
<1>4. CASE cell' = [cell EXCEPT ![p] = [st |-> "ready", v |-> world.ver[VaultOf[p]]]] /\ Goto(t, "cell")
  <2>1. world.ver[VaultOf[p]] \in Nat
    BY <1>1 DEF LocalInv, LocalTypes
  <2>2. cell' \in CellTypes
    BY <1>1, <1>4, <2>1 DEF CellTypes
  <2>3. "cell" \in Labels \ (TokenSteps \cup {"idle", "done", "use"})
    BY DEF Labels, TokenSteps
  <2>4. PICK r \in Operation : StepQuiet(t, r) /\ r.at = "cell" /\ r.p = p
    BY <1>1, <1>3, <1>4, <2>2, <2>3, GotoQuiet DEF LoadCell
  <2>5. \A l \in Locks : ~Has(r, l)
    BY <2>4 DEF Has, TokenSteps
  <2> QED BY <1>2, <2>4, <2>5, QuietSame DEF LoadCell
<1>5. CASE cell' = [cell EXCEPT ![p].st = CellAfterFailure(p)] /\ Done(t, "invalid")
  <2>1. CellAfterFailure(p) \in {"failed", "empty"} /\ "invalid" \in Outcomes
    BY DEF CellAfterFailure, Outcomes
  <2>2. cell' \in CellTypes
    BY <1>1, <1>5, <2>1 DEF CellTypes
  <2> QED BY <1>1, <1>2, <1>3, <1>5, <2>1, <2>2, DoneKeeps DEF LoadCell
<1> QED BY <1>4, <1>5 DEF LoadCell, Prov

(* The steps of a task at a FIDO2 token, which is its own. *)
FidoSteps == {"device", "askpin", "assert"}

LEMMA AtFido ==
  ASSUME LocalInv, NEW t \in Task, task[t].at \in FidoSteps, Kind[task[t].p] = "fido2"
  PROVE  /\ task[t].p \in Provider /\ task[t].got = <<>> /\ "fido2" \in Locks /\ cell \in CellTypes
         /\ task[t].at \notin TokenSteps \cup {"idle"} /\ \A l \in Locks : Has(task[t], l) <=> l = "fido2"
<1>1. task[t].p \in Provider /\ task[t].got = <<>> /\ cell \in CellTypes
  BY Here DEF ReadOK, FidoSteps
<1>2. task[t].at \notin TokenSteps \cup {"idle"} /\ \A l \in Locks : Has(task[t], l) <=> l = "fido2"
  BY DEF FidoSteps, TokenSteps, Has
<1> QED BY <1>1, <1>2 DEF Locks

LEMMA FidoGives ==
  ASSUME LocalInv, NEW t \in Task, task[t].at \in FidoSteps, Kind[task[t].p] = "fido2", NEW o \in Outcomes,
         o # "undecryptable", Done(t, o), Free("fido2"), inUse' = inUse,
         UNCHANGED <<cache, cell, world, usb, store, ops, changes, known>>
  PROVE  LocalInv'
<1>1. /\ "fido2" \in Locks /\ cell' \in CellTypes /\ task[t].at \notin TokenSteps \cup {"idle"}
      /\ \A l \in Locks : Has(task[t], l) <=> l = "fido2"
  BY AtFido
<1>2. ~(task[t].at = "open" /\ Kind[task[t].p] = "enpass")
  OBVIOUS
<1> QED BY <1>1, <1>2, DoneFrees

LEMMA FidoGoes ==
  ASSUME LocalInv, NEW t \in Task, task[t].at \in FidoSteps, Kind[task[t].p] = "fido2",
         NEW r \in Operation, Becomes(t, r), r.at \in FidoSteps, r.p = task[t].p, r.got = <<>>, r.out = task[t].out,
         lock' = lock, inUse' = inUse, UNCHANGED <<cache, cell, world, usb, store, ops, changes, known>>
  PROVE  LocalInv'
<1>1. KindAt(r) /\ ReadOK(r)
  <2>1. KindAt(r)
    BY AtFido DEF KindAt, TokenSteps, FidoSteps, Hardware
  <2>2. ReadOK(r)
    BY Here DEF ReadOK, FidoSteps
  <2> QED BY <2>1, <2>2
<1>2. r.at \notin TokenSteps /\ r.at # "prompt" /\ task[t].at # "open"
  BY DEF FidoSteps, TokenSteps
<1>3. task[t].at \notin TokenSteps /\ cell' \in CellTypes /\ ops' \in 0..MaxOps
  BY AtFido, Here
<1>4. StepQuiet(t, r)
  BY <1>1, <1>2, <1>3 DEF StepQuiet
<1>5. \A l \in Locks : Has(r, l) <=> Has(task[t], l)
  BY AtFido DEF Has, FidoSteps, TokenSteps
<1> QED BY <1>4, <1>5, QuietSame

LEMMA FidoStartKeeps ==
  ASSUME LocalInv, NEW t \in Task, FidoStart(t), inUse' = inUse
  PROVE  LocalInv'
<1>1. task[t].at \in FidoSteps /\ Kind[task[t].p] = "fido2" /\ task[t].got = <<>> /\ task[t] \in Operation
  BY AtFido, Here DEF FidoStart, At, KindOf, Prov, FidoSteps
<1>2. UNCHANGED <<cache, cell, world, usb, store, ops, changes, known>>
  BY DEF FidoStart
<1>3. \/ \E o \in {"nodevice", "auth"} : Done(t, o) /\ Free("fido2")
      \/ \E l \in {"assert", "askpin"} : Goto(t, l) /\ lock' = lock
  BY DEF FidoStart
<1>4. ASSUME NEW o \in {"nodevice", "auth"}, Done(t, o), Free("fido2") PROVE LocalInv'
  <2>1. o \in Outcomes /\ o # "undecryptable"
    BY DEF Outcomes
  <2> QED BY <1>1, <1>2, <1>4, <2>1, FidoGives
<1>5. ASSUME NEW l \in {"assert", "askpin"}, Goto(t, l), lock' = lock PROVE LocalInv'
  <2> DEFINE r == [task[t] EXCEPT !.at = l]
  <2>1. r \in Operation /\ r.at = l /\ r.p = task[t].p /\ r.got = task[t].got /\ r.out = task[t].out
    BY <1>1 DEF Operation, Labels
  <2>2. Becomes(t, r)
    BY <1>5 DEF Goto, Becomes
  <2>3. l \in FidoSteps
    BY DEF FidoSteps
  <2> HIDE DEF r
  <2> QED BY <1>1, <1>2, <1>5, <2>1, <2>2, <2>3, FidoGoes
<1> QED BY <1>3, <1>4, <1>5

LEMMA AskPinKeeps ==
  ASSUME LocalInv, NEW t \in Task, AskPin(t), inUse' = inUse
  PROVE  LocalInv'
<1>1. task[t].at = "askpin" /\ Kind[task[t].p] = "fido2"
  BY Here DEF AskPin, At, KindAt
<1>2. task[t].at \in FidoSteps /\ task[t].got = <<>> /\ task[t] \in Operation
  BY <1>1, AtFido, Here DEF FidoSteps
<1>3. UNCHANGED <<cache, cell, world, usb, store, ops, changes, known>>
  BY DEF AskPin
<1>4. "assert" \in FidoSteps /\ "assert" \in Labels
  BY DEF FidoSteps, Labels
<1>5. ASSUME NEW w \in {1, Wrong}, task' = [task EXCEPT ![t].at = "assert", ![t].pw = w], lock' = lock PROVE LocalInv'
  <2> DEFINE r == [task[t] EXCEPT !.at = "assert", !.pw = w]
  <2>1. w \in Passwords
    BY DEF Passwords, Wrong
  <2>2. r \in Operation /\ r.at = "assert" /\ r.p = task[t].p /\ r.got = task[t].got /\ r.out = task[t].out
    BY <1>2, <1>4, <2>1 DEF Operation
  <2>3. Becomes(t, r)
    BY <1>5 DEF Becomes
  <2> HIDE DEF r
  <2> QED BY <1>1, <1>2, <1>3, <1>4, <1>5, <2>2, <2>3, FidoGoes
<1>6. ASSUME Goto(t, "assert"), lock' = lock PROVE LocalInv'
  <2> DEFINE r == [task[t] EXCEPT !.at = "assert"]
  <2>1. r \in Operation /\ r.at = "assert" /\ r.p = task[t].p /\ r.got = task[t].got /\ r.out = task[t].out
    BY <1>2, <1>4 DEF Operation
  <2>2. Becomes(t, r)
    BY <1>6 DEF Goto, Becomes
  <2> HIDE DEF r
  <2> QED BY <1>1, <1>2, <1>3, <1>4, <1>6, <2>1, <2>2, FidoGoes
<1>7. ASSUME Done(t, "auth"), Free("fido2") PROVE LocalInv'
  <2>1. "auth" \in Outcomes
    BY DEF Outcomes
  <2> QED BY <1>1, <1>2, <1>3, <1>7, <2>1, FidoGives
<1> QED BY <1>5, <1>6, <1>7 DEF AskPin

(* What is in the config was encrypted under the key that it is decrypted with. *)
LEMMA StoreSame ==
  ASSUME LocalInv, NEW p \in Provider, Encrypts(p), NEW key, key = Key(p, Secret(p))
  PROVE  store[p] = key /\ [store EXCEPT ![p] = key] = store
<1>1. store = [q \in Provider |-> IF Encrypts(q) THEN Key(q, Secret(q)) ELSE None]
  BY DEF LocalInv, CacheInv
<1>2. store[p] = key
  BY <1>1
<1> QED BY <1>1, <1>2

LEMMA UseTokenKeeps ==
  ASSUME LocalInv, NEW t \in Task, UseToken(t), inUse' = inUse
  PROVE  LocalInv'
<1> DEFINE p == task[t].p
           key == Key(p, task[t].pw)
<1>1. task[t].at = "use" /\ p \in Provider /\ Kind[p] \in Hardware /\ task[t].pw = Secret(p) /\ cell' \in CellTypes
  BY Here DEF UseToken, At, ReadOK, KindAt
<1>2. store[p] = key /\ [store EXCEPT ![p] = key] = store
  BY <1>1, StoreSame DEF Encrypts
<1>3. Done(t, "values") /\ store' = store
  BY <1>2 DEF UseToken, Prov
<1>4. "values" \in Outcomes /\ task[t].at \notin TokenSteps \cup {"idle"} /\ \A l \in Locks : ~Has(task[t], l)
  BY <1>1 DEF Outcomes, TokenSteps, Has
<1> QED BY <1>1, <1>3, <1>4, DoneKeeps DEF UseToken

LEMMA KmsCallKeeps ==
  ASSUME LocalInv, NEW t \in Task, KmsCall(t), inUse' = inUse
  PROVE  LocalInv'
<1> DEFINE p == task[t].p
           key == Key(p, None)
<1>1. task[t].at = "call" /\ p \in Provider /\ Kind[p] \in Services /\ cell' \in CellTypes
  BY Here DEF KmsCall, At, KindAt
<1>2. key = Key(p, Secret(p))
  BY <1>1 DEF Key, Hardware, Services
<1>3. store[p] = key /\ [store EXCEPT ![p] = key] = store
  BY <1>1, <1>2, StoreSame DEF Encrypts
<1>4. KmsError(t) \in {"auth", "notfound", "api"}
  BY <1>1 DEF KmsError, KindOf, Prov, AwsKmsError, AzureKmsError, GcpKmsError, Services
<1>5. store' = store /\ (Done(t, KmsError(t)) \/ Done(t, "values"))
  BY <1>3 DEF KmsCall, Prov
<1>6. PICK o \in {"auth", "notfound", "api", "values"} : Done(t, o)
  BY <1>4, <1>5
<1>7. o \in Outcomes /\ o # "undecryptable" /\ task[t].at \notin TokenSteps \cup {"idle"} /\ \A l \in Locks : ~Has(task[t], l)
  BY <1>1 DEF Outcomes, TokenSteps, Has
<1> QED BY <1>1, <1>5, <1>6, <1>7, DoneKeeps DEF KmsCall

----------------------------------------------------------------------------
(* The actions that change what is kept, or what the YubiKey has. *)

KeysOf(k) == IF k \in Hardware THEN Names ELSE Vault

(* One entry of a cache is set. *)
LEMMA EntrySet ==
  ASSUME CacheTypes, NEW k \in {"fido2", "yubikey", "enpass", "keepass"}, NEW x \in KeysOf(k), NEW w \in Passwords,
         cache' = [cache EXCEPT ![k] = [cache[k] EXCEPT ![x] = w]]
  PROVE  /\ CacheTypes' /\ cache'[k][x] = w
         /\ \A y \in KeysOf(k) : y # x => cache'[k][y] = cache[k][y]
         /\ \A l \in {"fido2", "yubikey", "enpass", "keepass"} : l # k => cache'[l] = cache[l]
<1>1. cache[k] \in [KeysOf(k) -> Passwords]
  BY DEF CacheTypes, KeysOf, Hardware
<1>2. [cache[k] EXCEPT ![x] = w] \in [KeysOf(k) -> Passwords]
  BY <1>1
<1>3. /\ cache'[k] = [cache[k] EXCEPT ![x] = w]
      /\ \A l \in {"fido2", "yubikey", "enpass", "keepass"} : l # k => cache'[l] = cache[l]
      /\ cache' = [l \in {"fido2", "yubikey", "enpass", "keepass"} |-> cache'[l]]
  BY DEF CacheTypes
<1>4. \A l \in Hardware : cache'[l] \in [Names -> Passwords]
  <2>1. ASSUME NEW l \in Hardware PROVE cache'[l] \in [Names -> Passwords]
    <3>1. CASE l = k
      BY <1>2, <1>3, <3>1 DEF KeysOf
    <3>2. CASE l # k
      BY <1>3, <3>2 DEF CacheTypes, Hardware
    <3> QED BY <3>1, <3>2
  <2> QED BY <2>1
<1>5. \A l \in {"enpass", "keepass"} : cache'[l] \in [Vault -> Passwords]
  <2>1. ASSUME NEW l \in {"enpass", "keepass"} PROVE cache'[l] \in [Vault -> Passwords]
    <3>1. CASE l = k
      BY <1>2, <1>3, <3>1 DEF KeysOf, Hardware
    <3>2. CASE l # k
      BY <1>3, <3>2 DEF CacheTypes
    <3> QED BY <3>1, <3>2
  <2> QED BY <2>1
<1>6. CacheTypes'
  BY <1>3, <1>4, <1>5 DEF CacheTypes
<1>7. cache'[k][x] = w /\ \A y \in KeysOf(k) : y # x => cache'[k][y] = cache[k][y]
  BY <1>1, <1>3
<1> QED BY <1>3, <1>6, <1>7

(* The parts of the invariant after a step of one task. *)
LEMMA PartsKeep ==
  ASSUME LocalInv, NEW t \in Task, NEW r \in Operation, Becomes(t, r), KindAt(r), ReadOK(r),
         CacheTypes', UsbTypes', lock' \in [Locks -> Task \cup {None}], known' \subseteq Provider,
         LockInv', TokenInv', KnownInv', CacheInv',
         cell' = cell, world' = world, inUse' = inUse, ops' = ops, changes' = changes
  PROVE  LocalInv'
<1>1. task' \in [Task -> Operation] /\ task'[t] = r /\ \A u \in Task : u # t => task'[u] = task[u]
  BY BecomesIs DEF LocalInv, LocalTypes
<1>2. TasksOK'
  BY <1>1, TasksKeep DEF LocalInv, TasksOK
<1>3. LocalTypes'
  BY <1>1 DEF LocalInv, LocalTypes
<1> QED BY <1>2, <1>3 DEF LocalInv, TasksOK

(* A hardware token's secret is kept under the name of its provider alone. *)
LEMMA SecretKept ==
  ASSUME LocalInv, NEW p \in Provider, Kind[p] \in Hardware,
         cache' = [cache EXCEPT ![Kind[p]] = [cache[Kind[p]] EXCEPT ![NameOf[p]] = Secret(p)]],
         world' = world, store' = store
  PROVE  CacheInv' /\ CacheTypes' /\ cache'["enpass"] = cache["enpass"]
<1>1. /\ Kind[p] \in {"fido2", "yubikey", "enpass", "keepass"} /\ NameOf[p] \in KeysOf(Kind[p]) /\ Secret(p) \in Passwords
  BY DEF Hardware, KeysOf, Names, Passwords
<1>2. CacheTypes
  BY DEF LocalInv, LocalTypes
<1>3. /\ CacheTypes' /\ cache'[Kind[p]][NameOf[p]] = Secret(p)
      /\ \A y \in KeysOf(Kind[p]) : y # NameOf[p] => cache'[Kind[p]][y] = cache[Kind[p]][y]
      /\ \A l \in {"fido2", "yubikey", "enpass", "keepass"} : l # Kind[p] => cache'[l] = cache[l]
  BY <1>1, <1>2, EntrySet
<1>4. cache'["enpass"] = cache["enpass"]
  BY <1>3 DEF Hardware
<1>5. ASSUME NEW q \in Provider, Kind[q] \in Hardware PROVE cache'[Kind[q]][NameOf[q]] \in {None, Secret(q)}
  <2>1. cache[Kind[q]][NameOf[q]] \in {None, Secret(q)}
    BY <1>5 DEF LocalInv, CacheInv
  <2>2. CASE q = p
    BY <1>3, <2>2
  <2>3. CASE q # p /\ Kind[q] = Kind[p]
    <3>1. NameOf[q] # NameOf[p] /\ NameOf[q] \in KeysOf(Kind[p])
      BY <2>3, LocalSecretsAssumption DEF KeysOf, Names
    <3> QED BY <1>3, <2>1, <2>3, <3>1
  <2>4. CASE Kind[q] # Kind[p]
    <3>1. cache'[Kind[q]] = cache[Kind[q]]
      BY <1>3, <1>5, <2>4 DEF Hardware
    <3> QED BY <2>1, <3>1
  <2> QED BY <2>2, <2>3, <2>4
<1>6. \A v \in Vault : cache'["enpass"][v] # Wrong /\ world'.pw[v] # 0
  BY <1>4 DEF LocalInv, CacheInv
<1>7. CacheInv'
  BY <1>5, <1>6 DEF LocalInv, CacheInv
<1> QED BY <1>3, <1>4, <1>7

LEMMA AssertHmacKeeps ==
  ASSUME LocalInv, NEW t \in Task, AssertHmac(t), inUse' = inUse
  PROVE  LocalInv'
<1> DEFINE p == task[t].p
<1>1. task[t].at = "assert" /\ Kind[p] = "fido2" /\ p \in Provider /\ task[t].at \in FidoSteps
  BY Here DEF AssertHmac, At, KindAt, FidoSteps
<1>2. task[t].got = <<>> /\ task[t] \in Operation
  BY <1>1, AtFido, Here
<1>3. UNCHANGED <<cell, world, usb, store, ops, changes, known>>
  BY DEF AssertHmac
<1>4. \/ /\ cache' = [cache EXCEPT !["fido2"] = [cache["fido2"] EXCEPT ![NameOf[p]] = Secret(p)]] /\ Free("fido2")
         /\ task' = [task EXCEPT ![t].at = "use", ![t].pw = Secret(p)]
      \/ cache' = cache /\ lock' = lock /\ task' = [task EXCEPT ![t].at = "askpin", ![t].retried = TRUE]
      \/ cache' = cache /\ Free("fido2") /\ Done(t, "auth")
  <2>1. PICK ok \in BOOLEAN :
          LET w == task[t].pw
              good == ok /\ world.plugged /\ (w = 1 \/ (w = None /\ Mode[p] \in {"biometric", "touch"}))
              again == ~good /\ Mode[p] = "biometric" /\ w = None /\ Interactive
          IN  /\ cache' = IF good THEN [cache EXCEPT !.fido2[CacheKey(p)] = Secret(p)] ELSE cache
              /\ IF again THEN UNCHANGED lock ELSE Free("fido2")
              /\ CASE good -> task' = [task EXCEPT ![t].at = "use", ![t].pw = Secret(p)]
                   [] ~good /\ again -> task' = [task EXCEPT ![t].at = "askpin", ![t].retried = TRUE]
                   [] OTHER -> Done(t, "auth")
    BY DEF AssertHmac, Prov
  <2> DEFINE w == task[t].pw
             good == ok /\ world.plugged /\ (w = 1 \/ (w = None /\ Mode[p] \in {"biometric", "touch"}))
             again == ~good /\ Mode[p] = "biometric" /\ w = None /\ Interactive
  <2>2. CacheKey(p) = NameOf[p]
    BY <1>1 DEF CacheKey, Hardware
  <2>3. /\ cache' = IF good THEN [cache EXCEPT !.fido2[CacheKey(p)] = Secret(p)] ELSE cache
        /\ IF again THEN UNCHANGED lock ELSE Free("fido2")
        /\ CASE good -> task' = [task EXCEPT ![t].at = "use", ![t].pw = Secret(p)]
             [] ~good /\ again -> task' = [task EXCEPT ![t].at = "askpin", ![t].retried = TRUE]
             [] OTHER -> Done(t, "auth")
    BY <2>1
  <2>4. good => ~again
    OBVIOUS
  <2> HIDE DEF good, again
  <2> QED BY <2>2, <2>3, <2>4
<1>5. CASE /\ cache' = [cache EXCEPT !["fido2"] = [cache["fido2"] EXCEPT ![NameOf[p]] = Secret(p)]] /\ Free("fido2")
           /\ task' = [task EXCEPT ![t].at = "use", ![t].pw = Secret(p)]
  <2> DEFINE r == [task[t] EXCEPT !.at = "use", !.pw = Secret(p)]
  <2>1. Secret(p) \in Passwords /\ "use" \in Labels
    BY <1>1 DEF Passwords, Labels
  <2>2. r \in Operation /\ r.at = "use" /\ r.p = p /\ r.pw = Secret(p) /\ r.got = <<>> /\ r.out = task[t].out
    BY <1>2, <2>1 DEF Operation
  <2>3. Becomes(t, r)
    BY <1>5 DEF Becomes
  <2> HIDE DEF r
  <2>4. task' \in [Task -> Operation] /\ task'[t] = r /\ \A u \in Task : u # t => task'[u] = task[u]
    BY <2>2, <2>3, BecomesIs, Here
  <2>5. KindAt(r) /\ ReadOK(r)
    BY <1>1, <2>2, Here DEF KindAt, ReadOK, TokenSteps, Hardware
  <2>6. CacheInv' /\ CacheTypes' /\ cache'["enpass"] = cache["enpass"]
    BY <1>1, <1>3, <1>5, SecretKept DEF Hardware
  <2>7. LockInv' /\ lock' \in [Locks -> Task \cup {None}]
    <3>1. /\ LockInv /\ lock \in [Locks -> Task \cup {None}] /\ "fido2" \in Locks /\ Has(task[t], "fido2")
          /\ \A l \in Locks : Has(task[t], l) <=> l = "fido2"
      BY <1>1, AtFido, Here DEF LocalInv
    <3>2. \A l \in Locks : ~Has(task'[t], l)
      BY <2>2, <2>4 DEF Has, TokenSteps
    <3> QED BY <1>5, <2>4, <3>1, <3>2, LockFreed
  <2>8. TokenInv'
    BY <1>1, <1>3, <2>2, <2>4, TokenLeft DEF LocalInv, LocalTypes, UsbTypes, TokenSteps
  <2>9. KnownInv'
    BY <1>1, <1>3, <2>2, <2>4, <2>6, KnownLeft DEF LocalInv, LocalTypes, Tells
  <2>10. UsbTypes' /\ known' \subseteq Provider
    BY <1>3 DEF LocalInv, LocalTypes, UsbTypes
  <2> QED BY <1>3, <2>2, <2>3, <2>5, <2>6, <2>7, <2>8, <2>9, <2>10, PartsKeep
<1>6. CASE cache' = cache /\ lock' = lock /\ task' = [task EXCEPT ![t].at = "askpin", ![t].retried = TRUE]
  <2> DEFINE r == [task[t] EXCEPT !.at = "askpin", !.retried = TRUE]
  <2>1. r \in Operation /\ r.at = "askpin" /\ r.p = p /\ r.got = <<>> /\ r.out = task[t].out
    BY <1>2 DEF Operation, Labels
  <2>2. Becomes(t, r) /\ "askpin" \in FidoSteps
    BY <1>6 DEF Becomes, FidoSteps
  <2> HIDE DEF r
  <2> QED BY <1>1, <1>3, <1>6, <2>1, <2>2, FidoGoes
<1>7. CASE cache' = cache /\ Free("fido2") /\ Done(t, "auth")
  <2>1. "auth" \in Outcomes
    BY DEF Outcomes
  <2> QED BY <1>1, <1>3, <1>7, <2>1, FidoGives
<1> QED BY <1>4, <1>5, <1>6, <1>7

(* The YubiKey: the task at it has claimed it, and only that task's step changes what it has. *)
LEMMA ClaimedIs ==
  ASSUME LocalInv, NEW t \in Task,
         task[t].at \in TokenSteps \/ (task[t].at = "device" /\ Kind[task[t].p] = "yubikey")
  PROVE  /\ usb.claimed \in {t, None} /\ (usb.claimed = t => task[t].at \in TokenSteps)
         /\ \A u \in Task : u # t => task[u].at \notin TokenSteps
         /\ "yubikey" \in Locks /\ \A l \in Locks : Has(task[t], l) <=> l = "yubikey"
         /\ Kind[task[t].p] = "yubikey" /\ task[t].p \in Provider /\ cell \in CellTypes /\ task[t] \in Operation
<1>1. \A u \in Task : u # t => task[u].at \notin TokenSteps
  BY OneAtToken DEF LocalInv
<1>2. usb.claimed \in Task \cup {None} /\ (usb.claimed # None => task[usb.claimed].at \in TokenSteps)
  BY DEF LocalInv, LocalTypes, UsbTypes, TokenInv
<1>3. Kind[task[t].p] = "yubikey" /\ task[t].p \in Provider /\ cell \in CellTypes /\ task[t] \in Operation
  BY Here DEF KindAt, TokenSteps
<1>4. "yubikey" \in Locks /\ \A l \in Locks : Has(task[t], l) <=> l = "yubikey"
  BY <1>3 DEF Has, TokenSteps, Locks
<1>5. usb.claimed = t => task[t].at \in TokenSteps
  BY <1>2, LocalSecretsAssumption
<1> QED BY <1>1, <1>2, <1>3, <1>4, <1>5

LEMMA TokenKeeps ==
  ASSUME LocalInv, NEW t \in Task,
         task[t].at \in TokenSteps \/ (task[t].at = "device" /\ Kind[task[t].p] = "yubikey"),
         \A u \in Task : u # t => task'[u] = task[u], TokenOK(task[t])',
         usb'.claimed # None => usb'.claimed = t /\ task'[t].at \in TokenSteps
  PROVE  TokenInv'
<1>1. ASSUME NEW u \in Task, u # t PROVE TokenOK(task[u])'
  BY <1>1, ClaimedIs DEF TokenOK, TokenSteps
<1> QED BY <1>1 DEF TokenInv

(* A step of the task that is at the YubiKey. *)
LEMMA UsbKeeps ==
  ASSUME LocalInv, NEW t \in Task,
         task[t].at \in TokenSteps \/ (task[t].at = "device" /\ Kind[task[t].p] = "yubikey"),
         NEW r \in Operation, Becomes(t, r), KindAt(r), ReadOK(r), r.at \in TokenSteps \cup {"done", "use"}, r.p = task[t].p,
         r.at \in TokenSteps => lock' = lock, r.at \notin TokenSteps => Free("yubikey"),
         UsbTypes', TokenOK(task[t])', usb'.claimed # None => usb'.claimed = t /\ r.at \in TokenSteps,
         CacheTypes', CacheInv', cache'["enpass"] = cache["enpass"],
         UNCHANGED <<cell, world, store, ops, changes, known, inUse>>
  PROVE  LocalInv'
<1>1. task' \in [Task -> Operation] /\ task'[t] = r /\ \A u \in Task : u # t => task'[u] = task[u]
  BY BecomesIs, Here
<1>2. LockInv /\ lock \in [Locks -> Task \cup {None}]
  BY Here DEF LocalInv
<1>3. LockInv' /\ lock' \in [Locks -> Task \cup {None}]
  <2>1. CASE r.at \in TokenSteps
    <3>1. \A l \in Locks : Has(task'[t], l) <=> Has(task[t], l)
      BY <1>1, <2>1, ClaimedIs DEF Has, TokenSteps
    <3> QED BY <1>1, <1>2, <2>1, <3>1, SameLocks
  <2>2. CASE r.at \notin TokenSteps
    <3>1. Has(task[t], "yubikey") /\ "yubikey" \in Locks /\ \A l \in Locks : Has(task'[t], l) <=> Has(task[t], l) /\ l # "yubikey"
      BY <1>1, <2>2, ClaimedIs DEF Has, TokenSteps
    <3> QED BY <1>1, <1>2, <2>2, <3>1, LockFreed
  <2> QED BY <2>1, <2>2
<1>4. TokenInv'
  BY <1>1, TokenKeeps
<1>5. KnownInv'
  <2>1. KnownInv /\ known \subseteq Provider
    BY DEF LocalInv, LocalTypes
  <2>2. \A v \in Vault : ~Tells(task[t], v)
    BY DEF Tells, TokenSteps
  <2>3. task'[t].at # "prompt"
    BY <1>1 DEF TokenSteps
  <2> QED BY <1>1, <2>1, <2>2, <2>3, KnownLeft
<1>6. known' \subseteq Provider
  BY DEF LocalInv, LocalTypes
<1> QED BY <1>3, <1>4, <1>5, <1>6, PartsKeep

(* No answer: the handle is dropped and the lock given back. *)
LEMMA UsbFailsKeeps ==
  ASSUME LocalInv, NEW t \in Task, task[t].at \in TokenSteps, NEW o \in Outcomes, o # "undecryptable",
         Done(t, o), Free("yubikey"), usb' = Drop(t),
         UNCHANGED <<cache, cell, world, store, ops, changes, known, inUse>>
  PROVE  LocalInv'
<1> DEFINE r == [task[t] EXCEPT !.at = "done", !.out = o]
<1>1. task[t] \in Operation /\ task[t].at # "idle"
  BY Here DEF TokenSteps
<1>2. /\ r \in Operation /\ r.at = "done" /\ r.p = task[t].p
      /\ r.got = task[t].got /\ r.out = o
  BY <1>1 DEF Operation, Labels
<1>3. Becomes(t, r)
  BY DEF Done, Becomes
<1> HIDE DEF r
<1>4. KindAt(r) /\ ReadOK(r)
  BY <1>1, <1>2, Here, OperationEnds
<1>5. usb'.claimed = None /\ UsbTypes'
  <2>1. UsbTypes /\ task[t].detached \in BOOLEAN
    BY <1>1 DEF LocalInv, LocalTypes, Operation
  <2> QED BY <2>1 DEF UsbTypes, Drop
<1>6. TokenOK(task[t])'
  <2>1. task'[t] = r
    BY <1>2, <1>3, BecomesIs, Here
  <2> QED BY <1>2, <2>1 DEF TokenOK
<1>7. CacheTypes' /\ CacheInv'
  BY DEF LocalInv, LocalTypes, CacheTypes, CacheInv
<1>8. r.at \notin TokenSteps
  BY <1>2 DEF TokenSteps
<1> QED BY <1>2, <1>3, <1>4, <1>5, <1>6, <1>7, <1>8, UsbKeeps

LEMMA TimeOutKeeps ==
  ASSUME LocalInv, NEW t \in Task, TimeOut(t), inUse' = inUse
  PROVE  LocalInv'
<1>1. task[t].at \in TokenSteps /\ "timeout" \in Outcomes
  BY DEF TimeOut, At, TokenSteps, Outcomes
<1> QED BY <1>1, UsbFailsKeeps DEF TimeOut, UsbFails

LEMMA OpenUsbKeeps ==
  ASSUME LocalInv, NEW t \in Task, OpenUsb(t), inUse' = inUse
  PROVE  LocalInv'
<1>1. task[t].at = "device" /\ Kind[task[t].p] = "yubikey"
  BY DEF OpenUsb, At, KindOf, Prov
<1>2. task[t] \in Operation /\ task[t].p \in Provider /\ task[t].got = <<>> /\ cell' \in CellTypes /\ "yubikey" \in Locks
      /\ \A l \in Locks : Has(task[t], l) <=> l = "yubikey"
  BY <1>1, Here, ClaimedIs DEF ReadOK, OpenUsb
<1>3. CASE /\ usb' = [usb EXCEPT !.claimed = t, !.driver = FALSE] /\ lock' = lock
           /\ task' = [task EXCEPT ![t].at = "write", ![t].i = 1, ![t].detached = usb.driver]
  <2> DEFINE r == [task[t] EXCEPT !.at = "write", !.i = 1, !.detached = usb.driver]
  <2>1. /\ usb' = [usb EXCEPT !.claimed = t, !.driver = FALSE] /\ lock' = lock
        /\ task' = [task EXCEPT ![t].at = "write", ![t].i = 1, ![t].detached = usb.driver]
    BY <1>3
  <2>2. UsbTypes /\ usb.driver \in BOOLEAN
    BY DEF LocalInv, LocalTypes, UsbTypes
  <2>3. r \in Operation /\ r.at = "write" /\ r.p = task[t].p /\ r.i = 1 /\ r.got = <<>> /\ r.out = task[t].out
    BY <1>2, <2>2 DEF Operation, Labels
  <2>4. Becomes(t, r)
    BY <2>1 DEF Becomes
  <2> HIDE DEF r
  <2>5. KindAt(r) /\ ReadOK(r)
    BY <1>1, <1>2, <2>3, Here DEF KindAt, ReadOK, TokenSteps
  <2>6. usb'.claimed = t /\ UsbTypes'
    BY <2>1, <2>2 DEF UsbTypes
  <2>7. TokenOK(task[t])'
    <3>1. task'[t] = r
      BY <2>3, <2>4, BecomesIs, Here
    <3>2. Frame[r.p] \in Seq(Nat) /\ Len(Frame[r.p]) > 1
      BY <1>1, <1>2, <2>3, LocalSecretsAssumption
    <3> QED BY <2>3, <3>1, <3>2 DEF TokenOK
  <2>8. CacheTypes' /\ CacheInv' /\ cache' = cache
    BY DEF LocalInv, LocalTypes, CacheTypes, CacheInv, OpenUsb
  <2>9. r.at \in TokenSteps
    BY <2>3 DEF TokenSteps
  <2> QED BY <1>1, <2>1, <2>3, <2>4, <2>5, <2>6, <2>7, <2>8, <2>9, UsbKeeps DEF OpenUsb
<1>4. CASE Done(t, "nodevice") /\ Free("yubikey") /\ usb' = usb
  <2>1. "nodevice" \in Outcomes /\ task[t].at \notin TokenSteps \cup {"idle"}
    BY <1>1 DEF Outcomes, TokenSteps
  <2> QED BY <1>1, <1>2, <1>4, <2>1, DoneFrees DEF OpenUsb
<1> QED BY <1>3, <1>4 DEF OpenUsb

(* A chunk more of the frame is there: what was not sent is zeros. *)
WithChunk(f, i, buf) ==
  IF Sent(f, i) THEN [(IF i = 1 THEN [j \in DOMAIN f |-> 0] ELSE buf) EXCEPT ![i] = f[i]] ELSE buf

LEMMA ChunkSent ==
  ASSUME NEW f \in Seq(Nat), Len(f) > 1, NEW i \in 1..Len(f), NEW buf \in Seq(Nat),
         i > 1 => /\ DOMAIN buf = 1..Len(f)
                  /\ \A j \in 1..Len(f) : buf[j] = IF j < i THEN f[j] ELSE 0
  PROVE  /\ WithChunk(f, i, buf) \in Seq(Nat) /\ DOMAIN WithChunk(f, i, buf) = 1..Len(f)
         /\ \A j \in 1..Len(f) : WithChunk(f, i, buf)[j] = IF j < i + 1 THEN f[j] ELSE 0
         /\ i = Len(f) => WithChunk(f, i, buf) = f
<1> DEFINE new == WithChunk(f, i, buf)
<1>1. DOMAIN f = 1..Len(f) /\ \A j \in 1..Len(f) : f[j] \in Nat
  OBVIOUS
<1> DEFINE old == IF i = 1 THEN [j \in 1..Len(f) |-> 0] ELSE buf
<1>2. old \in [1..Len(f) -> Nat] /\ \A j \in 1..Len(f) : old[j] = IF j < i THEN f[j] ELSE 0
  <2>1. CASE i = 1
    BY <2>1
  <2>2. CASE i > 1
    BY <2>2
  <2> QED BY <2>1, <2>2
<1>3. new = IF Sent(f, i) THEN [old EXCEPT ![i] = f[i]] ELSE buf
  BY <1>1 DEF WithChunk
<1>4. ~Sent(f, i) => f[i] = 0 /\ i > 1 /\ buf = old
  BY DEF Sent
<1> HIDE DEF old, new
<1>5. new \in [1..Len(f) -> Nat] /\ \A j \in 1..Len(f) : new[j] = IF j < i + 1 THEN f[j] ELSE 0
  <2>1. CASE Sent(f, i)
    <3>1. new = [old EXCEPT ![i] = f[i]]
      BY <1>3, <2>1
    <3>2. new \in [1..Len(f) -> Nat]
      BY <1>1, <1>2, <3>1
    <3>3. ASSUME NEW j \in 1..Len(f) PROVE new[j] = IF j < i + 1 THEN f[j] ELSE 0
      BY <1>2, <3>1
    <3> QED BY <3>2, <3>3
  <2>2. CASE ~Sent(f, i)
    BY <1>2, <1>3, <1>4, <2>2
  <2> QED BY <2>1, <2>2
<1>6. new \in Seq(Nat) /\ DOMAIN new = 1..Len(f) /\ Len(new) = Len(f)
  BY <1>5
<1>7. ASSUME i = Len(f) PROVE new = f
  <2>1. ASSUME NEW j \in 1..Len(f) PROVE new[j] = f[j]
    <3>1. j < i + 1
      BY <1>7
    <3> QED BY <1>5, <3>1
  <2>2. f = [j \in 1..Len(f) |-> f[j]]
    OBVIOUS
  <2>3. new = [j \in 1..Len(f) |-> new[j]]
    BY <1>5, Zenon
  <2> QED BY <2>1, <2>2, <2>3, Zenon
<1> QED BY <1>5, <1>6, <1>7 DEF new

LEMMA WriteChunkKeeps ==
  ASSUME LocalInv, NEW t \in Task, WriteChunk(t), inUse' = inUse
  PROVE  LocalInv'
<1> DEFINE p == task[t].p
           f == Frame[p]
           i == task[t].i
<1>1. task[t].at = "write" /\ task[t].at \in TokenSteps
  BY DEF WriteChunk, At, TokenSteps
<1>2. task[t] \in Operation /\ p \in Provider /\ task[t].got = <<>> /\ Kind[p] = "yubikey"
  BY <1>1, Here, ClaimedIs DEF ReadOK
<1>3. CASE ~world.plugged
  <2>1. "nodevice" \in Outcomes
    BY DEF Outcomes
  <2>2. UsbFails(t, "nodevice") /\ cache' = cache
    BY <1>3 DEF WriteChunk
  <2> QED BY <1>1, <2>1, <2>2, UsbFailsKeeps DEF WriteChunk, UsbFails
<1>4. CASE world.plugged
  <2>1. /\ usb' = IF Sent(f, i) THEN Receive(f, i) ELSE usb
        /\ task' = [task EXCEPT ![t].at = IF i = Len(f) THEN "response" ELSE @,
                                ![t].i = IF i = Len(f) THEN 1 ELSE i + 1]
        /\ lock' = lock
    BY <1>4 DEF WriteChunk, Prov
  <2>2. /\ UsbTypes /\ f \in Seq(Nat) /\ Len(f) > 1 /\ i \in 1..Len(f) /\ usb.buf \in Seq(Nat)
        /\ i > 1 => /\ DOMAIN usb.buf = 1..Len(f)
                    /\ \A j \in 1..Len(f) : usb.buf[j] = IF j < i THEN f[j] ELSE 0
    BY <1>1, <1>2, LocalSecretsAssumption DEF LocalInv, LocalTypes, UsbTypes, TokenInv, TokenOK
  <2> DEFINE at == IF i = Len(f) THEN "response" ELSE "write"
             k == IF i = Len(f) THEN 1 ELSE i + 1
             r == [task[t] EXCEPT !.at = at, !.i = k]
             new == WithChunk(f, i, usb.buf)
  <2>3. Becomes(t, r)
    BY <1>1, <2>1 DEF Becomes
  <2>4. at \in {"response", "write"} /\ k \in Nat /\ (at = "write" => i # Len(f) /\ k = i + 1) /\ (at = "response" => i = Len(f))
    BY <2>2
  <2>5. /\ new \in Seq(Nat) /\ DOMAIN new = 1..Len(f)
        /\ \A j \in 1..Len(f) : new[j] = IF j < i + 1 THEN f[j] ELSE 0
        /\ i = Len(f) => new = f
    BY <2>2, ChunkSent
  <2>6. usb'.buf = new /\ usb'.claimed = usb.claimed /\ UsbTypes'
    <3>1. CASE Sent(f, i)
      <4>1. usb' = [usb EXCEPT !.buf = new, !.pending = 0]
        BY <2>1, <3>1 DEF Receive, WithChunk
      <4> HIDE DEF new
      <4> QED BY <2>2, <2>5, <4>1 DEF UsbTypes
    <3>2. CASE ~Sent(f, i)
      BY <2>1, <2>2, <3>2 DEF UsbTypes, WithChunk
    <3> QED BY <3>1, <3>2
  <2> HIDE DEF new, at, k
  <2>7. r \in Operation /\ r.at = at /\ r.p = p /\ r.i = k /\ r.got = <<>> /\ r.out = task[t].out
    BY <1>2, <2>4 DEF Operation, Labels
  <2> HIDE DEF r
  <2>8. KindAt(r) /\ ReadOK(r)
    BY <1>1, <1>2, <2>4, <2>7, Here DEF KindAt, ReadOK, TokenSteps
  <2>9. TokenOK(task[t])'
    <3>1. task'[t] = r
      BY <2>3, <2>7, BecomesIs, Here
    <3>2. r.at = "write" => /\ k \in 1..Len(f) /\ DOMAIN usb'.buf = 1..Len(f)
                            /\ \A j \in 1..Len(f) : usb'.buf[j] = IF j < k THEN f[j] ELSE 0
      BY <2>2, <2>4, <2>5, <2>6, <2>7
    <3>3. r.at = "response" => usb'.buf = f
      BY <2>4, <2>5, <2>6, <2>7
    <3>4. r.at # "crc"
      BY <2>4, <2>7
    <3> QED BY <2>7, <3>1, <3>2, <3>3, <3>4 DEF TokenOK
  <2>10. r.at \in TokenSteps /\ (usb'.claimed # None => usb'.claimed = t)
    BY <1>1, <2>4, <2>6, <2>7, ClaimedIs DEF TokenSteps
  <2>11. CacheTypes' /\ CacheInv' /\ cache'["enpass"] = cache["enpass"]
    BY DEF LocalInv, LocalTypes, CacheTypes, CacheInv, WriteChunk
  <2> QED BY <1>1, <2>1, <2>3, <2>6, <2>7, <2>8, <2>9, <2>10, <2>11, UsbKeeps DEF WriteChunk
<1> QED BY <1>3, <1>4

(* Only whether there is a report changes. *)
LEMMA PendingKeeps ==
  ASSUME LocalInv, NEW n \in Nat, usb' = [usb EXCEPT !.pending = n], changes' \in 0..MaxChanges,
         UNCHANGED <<cache, lock, cell, task, world, store, ops, known, inUse>>
  PROVE  LocalInv'
<1>1. usb'.buf = usb.buf /\ usb'.claimed = usb.claimed /\ UsbTypes'
  BY DEF LocalInv, LocalTypes, UsbTypes
<1>2. TokenInv'
  BY <1>1 DEF LocalInv, TokenInv, TokenOK
<1>3. LocalTypes'
  BY <1>1 DEF LocalInv, LocalTypes, CacheTypes
<1>4. \A u \in Task : (KindAt(task[u]) /\ ReadOK(task[u]))'
  BY DEF LocalInv, KindAt, ReadOK
<1>5. LockInv' /\ CacheInv' /\ KnownInv'
  BY DEF LocalInv, LockInv, Has, CacheInv, KnownInv, Tells
<1> QED BY <1>2, <1>3, <1>4, <1>5 DEF LocalInv

LEMMA TouchKeeps ==
  ASSUME LocalInv, NEW t \in Task, Touch(t), inUse' = inUse
  PROVE  LocalInv'
BY PendingKeeps DEF Touch, LocalInv, LocalTypes

LEMMA GiveUpKeeps ==
  ASSUME LocalInv, GiveUp, inUse' = inUse
  PROVE  LocalInv'
<1>1. changes' \in 0..MaxChanges
  BY LocalSecretsAssumption DEF GiveUp, LocalInv, LocalTypes
<1> QED BY <1>1, PendingKeeps DEF GiveUp

LEMMA ReadReportKeeps ==
  ASSUME LocalInv, NEW t \in Task, ReadReport(t), inUse' = inUse
  PROVE  LocalInv'
<1> DEFINE p == task[t].p
           more == usb.pending > 0
<1>1. task[t].at = "response" /\ task[t].at \in TokenSteps
  BY DEF ReadReport, At, TokenSteps
<1>2. /\ task[t] \in Operation /\ p \in Provider /\ Kind[p] = "yubikey" /\ UsbTypes
      /\ task[t].got \in Seq(Nat \cup Seq(Nat)) /\ \A i \in DOMAIN task[t].got : task[t].got[i] = Frame[p]
  BY <1>1, Here, ClaimedIs DEF ReadOK, LocalInv, LocalTypes
<1>3. usb.buf = Frame[p] /\ usb.buf \in Seq(Nat) /\ usb.pending \in Nat
  BY <1>1, <1>2 DEF LocalInv, TokenInv, TokenOK, UsbTypes
<1>4. CASE ~world.plugged
  <2>1. "nodevice" \in Outcomes
    BY DEF Outcomes
  <2>2. UsbFails(t, "nodevice") /\ cache' = cache
    BY <1>4 DEF ReadReport
  <2> QED BY <1>1, <2>1, <2>2, UsbFailsKeeps DEF ReadReport, UsbFails
<1>5. CASE world.plugged
  <2> DEFINE got == IF more THEN Append(task[t].got, usb.buf) ELSE task[t].got
             at == IF more /\ Len(task[t].got) + 1 < Reports THEN "response" ELSE "crc"
             r == [task[t] EXCEPT !.got = got, !.i = 2, !.at = at]
             left == IF more /\ usb.pending < Reports THEN usb.pending + 1 ELSE 0
  <2>1. usb' = [usb EXCEPT !.pending = left] /\ lock' = lock /\ Becomes(t, r)
    BY <1>1, <1>5 DEF ReadReport, Becomes
  <2>2. left \in Nat /\ at \in {"response", "crc"}
    BY <1>3
  <2>3. got \in Seq(Nat \cup Seq(Nat)) /\ \A i \in DOMAIN got : got[i] = Frame[p]
    <3>1. usb.buf \in Nat \cup Seq(Nat)
      BY <1>3
    <3>2. Append(task[t].got, usb.buf) \in Seq(Nat \cup Seq(Nat))
      BY <1>2, <3>1
    <3>3. \A i \in DOMAIN Append(task[t].got, usb.buf) : Append(task[t].got, usb.buf)[i] = Frame[p]
      BY <1>2, <1>3
    <3> QED BY <1>2, <3>2, <3>3
  <2> HIDE DEF got, at, left
  <2>4. r \in Operation /\ r.at = at /\ r.p = p /\ r.got = got /\ r.out = task[t].out
    BY <1>2, <2>2, <2>3 DEF Operation, Labels
  <2> HIDE DEF r
  <2>5. KindAt(r) /\ ReadOK(r)
    <3>1. KindAt(r)
      BY <1>2, <2>2, <2>4 DEF KindAt, TokenSteps
    <3>2. ReadOK(r)
      BY <2>2, <2>3, <2>4, Here DEF ReadOK
    <3> QED BY <3>1, <3>2
  <2>6. usb'.buf = usb.buf /\ usb'.claimed = usb.claimed /\ UsbTypes'
    BY <1>2, <2>1, <2>2 DEF UsbTypes
  <2>7. TokenOK(task[t])'
    <3>1. task'[t] = r
      BY <2>1, <2>4, BecomesIs, Here
    <3>2. r.at # "write"
      BY <2>2, <2>4
    <3> QED BY <1>3, <2>4, <2>6, <3>1, <3>2 DEF TokenOK
  <2>8. r.at \in TokenSteps /\ (usb'.claimed # None => usb'.claimed = t)
    BY <1>1, <2>2, <2>4, <2>6, ClaimedIs DEF TokenSteps
  <2>9. CacheTypes' /\ CacheInv' /\ cache'["enpass"] = cache["enpass"]
    BY DEF LocalInv, LocalTypes, CacheTypes, CacheInv, ReadReport
  <2> QED BY <1>1, <2>1, <2>4, <2>5, <2>6, <2>7, <2>8, <2>9, UsbKeeps DEF ReadReport
<1> QED BY <1>4, <1>5

LEMMA CheckCrcKeeps ==
  ASSUME LocalInv, NEW t \in Task, CheckCrc(t), inUse' = inUse
  PROVE  LocalInv'
<1> DEFINE p == task[t].p
<1>1. task[t].at = "crc" /\ task[t].at \in TokenSteps
  BY DEF CheckCrc, At, TokenSteps
<1>2. /\ task[t] \in Operation /\ p \in Provider /\ Kind[p] = "yubikey" /\ UsbTypes
      /\ task[t].got \in Seq(Nat \cup Seq(Nat)) /\ \A i \in DOMAIN task[t].got : task[t].got[i] = Frame[p]
  BY <1>1, Here, ClaimedIs DEF ReadOK, LocalInv, LocalTypes
<1>3. CASE ~(world.plugged /\ CrcOk(task[t].got))
  <2>1. "crc" \in Outcomes
    BY DEF Outcomes
  <2>2. UsbFails(t, "crc") /\ cache' = cache
    BY <1>3 DEF CheckCrc
  <2> QED BY <1>1, <2>1, <2>2, UsbFailsKeeps DEF CheckCrc, UsbFails
<1>4. CASE world.plugged /\ CrcOk(task[t].got)
  <2>1. Answer(t) = Secret(p)
    <3>1. Len(task[t].got) = Reports /\ 1 \in DOMAIN task[t].got
      BY <1>2, <1>4 DEF CrcOk, Reports
    <3> QED BY <1>2, <3>1 DEF Answer, Prov
  <2>2. CacheKey(p) = NameOf[p]
    BY <1>2 DEF CacheKey, Hardware
  <2>3. /\ cache' = [cache EXCEPT !["yubikey"] = [cache["yubikey"] EXCEPT ![NameOf[p]] = Secret(p)]]
        /\ task' = [task EXCEPT ![t].at = "use", ![t].pw = Secret(p), ![t].got = <<>>]
        /\ Free("yubikey") /\ usb' = Drop(t)
    <3>1. /\ cache' = [cache EXCEPT !.yubikey[CacheKey(p)] = Answer(t)]
          /\ task' = [task EXCEPT ![t].at = "use", ![t].pw = Answer(t), ![t].got = <<>>]
          /\ Free("yubikey") /\ usb' = Drop(t)
      BY <1>4 DEF CheckCrc, Prov
    <3> QED BY <2>1, <2>2, <3>1
  <2>4. CacheInv' /\ CacheTypes' /\ cache'["enpass"] = cache["enpass"]
    BY <1>2, <2>3, SecretKept DEF Hardware, CheckCrc
  <2> DEFINE r == [task[t] EXCEPT !.at = "use", !.pw = Secret(p), !.got = <<>>]
  <2>5. Secret(p) \in Passwords /\ "use" \in Labels
    BY <1>2 DEF Passwords, Labels
  <2>6. r \in Operation /\ r.at = "use" /\ r.p = p /\ r.pw = Secret(p) /\ r.got = <<>> /\ r.out = task[t].out
    <3>1. <<>> \in Seq(Nat \cup Seq(Nat))
      OBVIOUS
    <3> QED BY <1>2, <2>5, <3>1 DEF Operation
  <2>7. Becomes(t, r)
    BY <2>3 DEF Becomes
  <2> HIDE DEF r
  <2>8. KindAt(r) /\ ReadOK(r)
    BY <1>2, <2>6, Here DEF KindAt, ReadOK, TokenSteps, Hardware
  <2>9. usb'.claimed = None /\ UsbTypes'
    <3>1. task[t].detached \in BOOLEAN
      BY <1>2 DEF Operation
    <3> QED BY <1>2, <2>3, <3>1 DEF UsbTypes, Drop
  <2>10. TokenOK(task[t])'
    <3>1. task'[t] = r
      BY <2>6, <2>7, BecomesIs, Here
    <3> QED BY <2>6, <3>1 DEF TokenOK
  <2>11. r.at \notin TokenSteps
    BY <2>6 DEF TokenSteps
  <2> QED BY <1>1, <2>3, <2>4, <2>6, <2>7, <2>8, <2>9, <2>10, <2>11, UsbKeeps DEF CheckCrc
<1> QED BY <1>3, <1>4

(* The parts of the invariant after a step of a task at a vault. *)
LEMMA VaultKeeps ==
  ASSUME LocalInv, NEW t \in Task, NEW r \in Operation, Becomes(t, r), KindAt(r), ReadOK(r),
         CacheTypes', CacheInv', lock' \in [Locks -> Task \cup {None}], LockInv', KnownInv', known' \subseteq Provider,
         task[t].at \notin TokenSteps, r.at \notin TokenSteps,
         UNCHANGED <<cell, world, usb, store, inUse, ops, changes>>
  PROVE  LocalInv'
<1>1. task' \in [Task -> Operation] /\ task'[t] = r /\ \A u \in Task : u # t => task'[u] = task[u]
  BY BecomesIs DEF LocalInv, LocalTypes
<1>2. TokenInv /\ usb.claimed \in Task \cup {None} /\ UsbTypes
  BY DEF LocalInv, LocalTypes, UsbTypes
<1>3. TokenInv'
  BY <1>1, <1>2, TokenLeft
<1>4. UsbTypes'
  BY <1>2 DEF UsbTypes
<1> QED BY <1>3, <1>4, PartsKeep

(* What a vault's cache must be for the invariant: nothing but a password that was right. *)
LEMMA VaultCacheInv ==
  ASSUME CacheInv, world' = world, store' = store, \A l \in Hardware : cache'[l] = cache[l],
         \A v \in Vault : cache'["enpass"][v] # Wrong
  PROVE  CacheInv'
<1>1. \A p \in Provider : Kind[p] \in Hardware => cache'[Kind[p]][NameOf[p]] \in {None, Secret(p)}
  BY DEF CacheInv
<1> QED BY <1>1 DEF CacheInv

LEMMA AtPrompt ==
  ASSUME LocalInv, NEW t \in Task, task[t].at = "prompt"
  PROVE  /\ task[t].p \in Provider /\ task[t] \in Operation /\ task[t].got = <<>> /\ Kind[task[t].p] \in {"enpass", "keepass"}
         /\ VaultOf[task[t].p] \in Vault /\ world.pw[VaultOf[task[t].p]] \in Nat /\ task[t].at \notin TokenSteps
         /\ Kind[task[t].p] = "enpass" => \A l \in Locks : Has(task[t], l) <=> l \in {VaultOf[task[t].p], "prompt"}
         /\ Kind[task[t].p] = "keepass" => \A l \in Locks : Has(task[t], l) <=> l = "keepass"
         /\ VaultOf[task[t].p] \notin {"fido2", "yubikey", "keepass", "prompt"}
         /\ {"prompt", "keepass", VaultOf[task[t].p]} \subseteq Locks
<1>1. task[t].p \in Provider /\ task[t] \in Operation /\ task[t].got = <<>> /\ Kind[task[t].p] \in {"enpass", "keepass"}
  BY Here DEF ReadOK, KindAt
<1>2. /\ VaultOf[task[t].p] \in Vault /\ VaultOf[task[t].p] \notin {"fido2", "yubikey", "keepass", "prompt"}
      /\ {"prompt", "keepass", VaultOf[task[t].p]} \subseteq Locks
  BY <1>1, KindIs DEF Locks
<1>3. world.pw[VaultOf[task[t].p]] \in Nat
  BY <1>2 DEF LocalInv, LocalTypes
<1>4. /\ Kind[task[t].p] = "enpass" => \A l \in Locks : Has(task[t], l) <=> l \in {VaultOf[task[t].p], "prompt"}
      /\ Kind[task[t].p] = "keepass" => \A l \in Locks : Has(task[t], l) <=> l = "keepass"
      /\ task[t].at \notin TokenSteps
  BY DEF Has, TokenSteps
<1> QED BY <1>1, <1>2, <1>3, <1>4

(* The user types the password, or something else. *)
LEMMA TypedKeeps ==
  ASSUME LocalInv, NEW t \in Task, task[t].at = "prompt", NEW w \in Nat, w \in {world.pw[VaultOf[task[t].p]], Wrong},
         task' = [task EXCEPT ![t].at = "open", ![t].pw = w, ![t].prompted = TRUE],
         Kind[task[t].p] = "keepass" => Free("keepass"), Kind[task[t].p] = "enpass" => Free("prompt"),
         KeepPrompted(t, w), known' = IF w # Wrong THEN known \cup {task[t].p} ELSE known,
         UNCHANGED <<cell, world, usb, store, ops, changes, inUse>>
  PROVE  LocalInv'
<1> DEFINE p == task[t].p
           r == [task[t] EXCEPT !.at = "open", !.pw = w, !.prompted = TRUE]
<1>1. w \in Passwords
  BY DEF Passwords
<1>2. r \in Operation /\ r.at = "open" /\ r.p = p /\ r.pw = w /\ r.prompted = TRUE /\ r.got = <<>> /\ r.out = task[t].out
  <2>1. task[t] \in Operation /\ task[t].got = <<>>
    BY AtPrompt
  <2> QED BY <1>1, <2>1 DEF Operation, Labels
<1>3. Becomes(t, r)
  BY DEF Becomes
<1> HIDE DEF r
<1>4. task' \in [Task -> Operation] /\ task'[t] = r /\ \A u \in Task : u # t => task'[u] = task[u]
  BY <1>2, <1>3, BecomesIs, Here
<1>5. KindAt(r) /\ ReadOK(r)
  BY <1>2, AtPrompt, Here DEF KindAt, ReadOK, TokenSteps
<1>6. LockInv' /\ lock' \in [Locks -> Task \cup {None}]
  <2>1. LockInv /\ lock \in [Locks -> Task \cup {None}]
    BY Here DEF LocalInv
  <2>2. CASE Kind[p] = "enpass"
    <3>1. /\ "prompt" \in Locks /\ Has(task[t], "prompt") /\ Free("prompt")
          /\ \A l \in Locks : Has(task'[t], l) <=> Has(task[t], l) /\ l # "prompt"
      BY <1>2, <1>4, <2>2, AtPrompt DEF Has, TokenSteps
    <3> QED BY <1>4, <2>1, <3>1, LockFreed
  <2>3. CASE Kind[p] = "keepass"
    <3>1. /\ "keepass" \in Locks /\ Has(task[t], "keepass") /\ Free("keepass")
          /\ \A l \in Locks : Has(task'[t], l) <=> Has(task[t], l) /\ l # "keepass"
      BY <1>2, <1>4, <2>3, AtPrompt DEF Has, TokenSteps
    <3> QED BY <1>4, <2>1, <3>1, LockFreed
  <2> QED BY <2>2, <2>3, AtPrompt
<1>7. CacheTypes' /\ cache'["enpass"] = cache["enpass"] /\ \A l \in Hardware : cache'[l] = cache[l]
  <2>1. CacheTypes
    BY DEF LocalInv, LocalTypes
  <2>2. CASE Kind[p] = "keepass"
    <3>1. cache' = [cache EXCEPT !["keepass"] = [cache["keepass"] EXCEPT ![VaultOf[p]] = w]]
      BY <2>2 DEF KeepPrompted, KindOf, Prov, CacheKey, Hardware
    <3>2. VaultOf[p] \in KeysOf("keepass")
      BY AtPrompt DEF KeysOf, Hardware
    <3>3. /\ CacheTypes'
          /\ \A l \in {"fido2", "yubikey", "enpass", "keepass"} : l # "keepass" => cache'[l] = cache[l]
      BY <1>1, <2>1, <3>1, <3>2, EntrySet
    <3> QED BY <3>3 DEF Hardware
  <2>3. CASE Kind[p] = "enpass"
    <3>1. cache' = cache
      BY <2>3 DEF KeepPrompted, KindOf, Prov
    <3> QED BY <2>1, <3>1 DEF CacheTypes
  <2> QED BY <2>2, <2>3, AtPrompt
<1>8. CacheInv'
  <2>1. CacheInv
    BY DEF LocalInv
  <2>2. \A v \in Vault : cache'["enpass"][v] # Wrong
    BY <1>7, <2>1 DEF CacheInv
  <2> QED BY <1>7, <2>1, <2>2, VaultCacheInv
<1>9. known' \subseteq Provider
  BY AtPrompt DEF LocalInv, LocalTypes
<1>10. KnownInv'
  <2>1. ASSUME NEW q \in known', Kind[q] = "enpass"
        PROVE  cache'["enpass"][VaultOf[q]] = world'.pw[VaultOf[q]] \/ \E u \in Task : Tells(task[u], VaultOf[q])'
    <3>1. CASE q \in known
      <4>1. cache["enpass"][VaultOf[q]] = world.pw[VaultOf[q]] \/ \E u \in Task : Tells(task[u], VaultOf[q])
        BY <2>1, <3>1 DEF LocalInv, KnownInv
      <4>2. ASSUME NEW u \in Task, Tells(task[u], VaultOf[q]) PROVE Tells(task[u], VaultOf[q])'
        <5>1. u # t
          BY <4>2 DEF Tells
        <5> QED BY <1>4, <4>2, <5>1 DEF Tells
      <4> QED BY <1>7, <4>1, <4>2
    <3>2. CASE q \notin known
      <4>1. q = p /\ w = world.pw[VaultOf[p]]
        BY <2>1, <3>2
      <4>2. Tells(task[t], VaultOf[q])'
        BY <1>2, <1>4, <2>1, <4>1 DEF Tells
      <4> QED BY <4>2
    <3> QED BY <3>1, <3>2
  <2>2. ASSUME NEW u \in Task, task'[u].at = "prompt", Kind[task'[u].p] = "enpass" PROVE task'[u].p \notin known'
    <3>1. u # t /\ task'[u] = task[u]
      BY <1>2, <1>4, <2>2
    <3>2. task[u].p \notin known
      BY <2>2, <3>1 DEF LocalInv, KnownInv
    <3>3. task[u].p # p
      <4>1. SUFFICES ASSUME task[u].p = p PROVE FALSE
        OBVIOUS
      <4>2. Has(task[u], "prompt") /\ Has(task[t], "prompt") /\ "prompt" \in Locks
        BY <2>2, <3>1, <4>1, AtPrompt DEF Has
      <4> QED BY <3>1, <4>2, OneHas DEF LocalInv
    <3> QED BY <3>1, <3>2, <3>3
  <2> QED BY <2>1, <2>2 DEF KnownInv
<1>11. task[t].at \notin TokenSteps /\ r.at \notin TokenSteps
  BY <1>2 DEF TokenSteps
<1> QED BY <1>2, <1>3, <1>5, <1>6, <1>7, <1>8, <1>9, <1>10, <1>11, VaultKeeps

LEMMA PromptKeeps ==
  ASSUME LocalInv, NEW t \in Task, Prompt(t), inUse' = inUse
  PROVE  LocalInv'
<1> DEFINE p == task[t].p
<1>1. task[t].at = "prompt" /\ UNCHANGED <<cell, world, usb, store, ops, changes, inUse>>
  BY DEF Prompt, At
<1>2. ASSUME NEW w \in {world.pw[VaultOf[p]], Wrong},
             task' = [task EXCEPT ![t].at = "open", ![t].pw = w, ![t].prompted = TRUE],
             lock' = IF KindOf(t) = "keepass" THEN [lock EXCEPT !["keepass"] = None] ELSE [lock EXCEPT !["prompt"] = None],
             KeepPrompted(t, w), known' = IF w # Wrong THEN known \cup {p} ELSE known
      PROVE  LocalInv'
  <2>1. w \in Nat
    BY <1>1, AtPrompt DEF Wrong
  <2>2. (Kind[p] = "keepass" => Free("keepass")) /\ (Kind[p] = "enpass" => Free("prompt"))
    BY <1>2 DEF Free, KindOf, Prov
  <2> QED BY <1>1, <1>2, <2>1, <2>2, TypedKeeps
<1>3. ASSUME Done(t, "auth"), cache' = cache, known' = known,
             lock' = IF KindOf(t) = "enpass" THEN [[lock EXCEPT !["prompt"] = None] EXCEPT ![LockOf(p)] = None]
                     ELSE [lock EXCEPT !["keepass"] = None]
      PROVE  LocalInv'
  <2>1. "auth" \in Outcomes /\ task[t].at \notin TokenSteps \cup {"idle"} /\ cell' \in CellTypes
    BY <1>1, Here DEF Outcomes, TokenSteps
  <2>2. PICK r \in Operation : StepQuiet(t, r) /\ r.at = "done" /\ \A l \in Locks : ~Has(r, l)
    BY <1>1, <1>3, <2>1, DoneQuiet
  <2>3. CASE Kind[p] = "keepass"
    <3>1. Free("keepass") /\ "keepass" \in Locks /\ \A l \in Locks : Has(task[t], l) <=> l = "keepass"
      BY <1>1, <1>3, <2>3, AtPrompt DEF Free, KindOf, Prov
    <3> QED BY <2>2, <3>1, QuietFrees
  <2>4. CASE Kind[p] = "enpass"
    <3>1. lock' = [[lock EXCEPT !["prompt"] = None] EXCEPT ![VaultOf[p]] = None]
      BY <1>3, <2>4 DEF KindOf, Prov, LockOf
    <3>2. LockInv /\ lock \in [Locks -> Task \cup {None}] /\ \A l \in Locks : Has(task[t], l) <=> l \in {VaultOf[p], "prompt"}
      BY <1>1, <2>4, Here, AtPrompt DEF LocalInv
    <3>3. /\ lock' \in [Locks -> Task \cup {None}]
          /\ \A l \in Locks : lock'[l] = IF l \in {VaultOf[p], "prompt"} THEN None ELSE lock[l]
      BY <1>1, <3>1, <3>2, AtPrompt
    <3>4. \A l \in {VaultOf[p], "prompt"} \cap Locks : lock[l] = t
      BY <3>2 DEF LockInv
    <3>5. \A l \in Locks : lock'[l] = lock[l] \/ (lock[l] \in {t, None} /\ lock'[l] \in {t, None})
      BY <3>3, <3>4
    <3>6. task'[t] = r /\ \A u \in Task : u # t => task'[u] = task[u]
      BY <2>2, BecomesIs, Here DEF StepQuiet
    <3>7. \A l \in Locks : lock'[l] = t <=> Has(task'[t], l)
      BY <2>2, <3>2, <3>3, <3>6, LocalSecretsAssumption DEF LockInv
    <3>8. LockInv'
      BY <3>2, <3>5, <3>6, <3>7, LocksKeep
    <3> QED BY <2>2, <3>3, <3>8, QuietKeeps
  <2> QED BY <1>1, <2>3, <2>4, AtPrompt
<1>4. \/ \E w \in {world.pw[VaultOf[p]], Wrong} :
           /\ task' = [task EXCEPT ![t].at = "open", ![t].pw = w, ![t].prompted = TRUE]
           /\ lock' = IF KindOf(t) = "keepass" THEN [lock EXCEPT !["keepass"] = None] ELSE [lock EXCEPT !["prompt"] = None]
           /\ KeepPrompted(t, w)
           /\ known' = IF w # Wrong THEN known \cup {p} ELSE known
      \/ /\ Done(t, "auth") /\ cache' = cache /\ known' = known
         /\ lock' = IF KindOf(t) = "enpass" THEN [[lock EXCEPT !["prompt"] = None] EXCEPT ![LockOf(p)] = None]
                    ELSE [lock EXCEPT !["keepass"] = None]
  <2>1. KindOf(t) \in {"enpass", "keepass"}
    BY <1>1, AtPrompt DEF KindOf, Prov
  <2> QED BY <2>1 DEF Prompt, Prov
<1> QED BY <1>2, <1>3, <1>4

(* A vault is tried: what was typed and opens it is kept, what does not open it goes. *)
LEMMA OpenEnpassKeeps ==
  ASSUME LocalInv, NEW t \in Task, OpenEnpass(t), inUse' = inUse
  PROVE  LocalInv'
<1> DEFINE p == task[t].p
           v == VaultOf[p]
           w == task[t].pw
<1>1. task[t].at = "open" /\ Kind[p] = "enpass" /\ UNCHANGED <<cell, world, usb, store, ops, changes, known, inUse>>
  BY DEF OpenEnpass, At, KindOf, Prov
<1>2. /\ task[t] \in Operation /\ p \in Provider /\ task[t].got = <<>> /\ w \in Passwords
      /\ v \in Vault /\ v \in Locks /\ LockOf(p) = v /\ CacheKey(p) = v
  <2>1. task[t] \in Operation /\ p \in Provider /\ task[t].got = <<>>
    BY <1>1, Here DEF ReadOK
  <2>2. w \in Passwords
    BY <2>1 DEF Operation
  <2> QED BY <1>1, <2>1, <2>2, KindIs DEF CacheKey, Hardware
<1>3. \A l \in Locks : Has(task[t], l) <=> l = v
  BY <1>1 DEF Has, TokenSteps
<1>4. LockInv /\ lock \in [Locks -> Task \cup {None}] /\ CacheTypes /\ CacheInv /\ KnownInv /\ known \subseteq Provider
      /\ world.pw[v] \in Nat
  BY <1>2, Here DEF LocalInv, LocalTypes
<1>5. /\ cache' = IF w = world.pw[v] THEN IF task[t].prompted THEN [cache EXCEPT !["enpass"] = [cache["enpass"] EXCEPT ![v] = w]] ELSE cache
                  ELSE IF cache["enpass"][v] = w THEN [cache EXCEPT !["enpass"] = [cache["enpass"] EXCEPT ![v] = None]] ELSE cache
      /\ \/ w = world.pw[v] /\ Goto(t, "items") /\ Free(v)
         \/ w # world.pw[v] /\ task' = [task EXCEPT ![t].at = "ask", ![t].retried = TRUE] /\ lock' = lock
         \/ w # world.pw[v] /\ Done(t, "auth") /\ Free(v)
  <2>1. Opens(t) <=> w = world.pw[v]
    BY DEF Opens, Prov
  <2>2. Cached(p) = cache["enpass"][v]
    BY <1>1, <1>2 DEF Cached
  <2>3. cache' = IF Opens(t) THEN Remember(t) ELSE Forget(t)
    BY DEF OpenEnpass
  <2>4. Remember(t) = IF task[t].prompted THEN [cache EXCEPT !["enpass"] = [cache["enpass"] EXCEPT ![v] = w]] ELSE cache
    BY <1>2 DEF Remember, Prov
  <2>5. Forget(t) = IF cache["enpass"][v] = w THEN [cache EXCEPT !["enpass"] = [cache["enpass"] EXCEPT ![v] = None]] ELSE cache
    BY <1>2, <2>2 DEF Forget, Prov
  <2>6. \/ Opens(t) /\ Goto(t, "items") /\ Free(v)
        \/ ~Opens(t) /\ task' = [task EXCEPT ![t].at = "ask", ![t].retried = TRUE] /\ lock' = lock
        \/ ~Opens(t) /\ Done(t, "auth") /\ Free(v)
    BY <1>2 DEF OpenEnpass, Prov
  <2> QED BY <2>1, <2>3, <2>4, <2>5, <2>6
<1>6. "enpass" \in {"fido2", "yubikey", "enpass", "keepass"} /\ v \in KeysOf("enpass") /\ None \in Passwords
      /\ KeysOf("enpass") = Vault
  BY <1>2 DEF KeysOf, Hardware, Passwords
<1>7. /\ CacheTypes' /\ \A l \in Hardware : cache'[l] = cache[l]
      /\ \A y \in Vault : y # v => cache'["enpass"][y] = cache["enpass"][y]
      /\ cache'["enpass"][v] = IF w = world.pw[v] THEN IF task[t].prompted THEN w ELSE cache["enpass"][v]
                               ELSE IF cache["enpass"][v] = w THEN None ELSE cache["enpass"][v]
  <2>1. CASE cache' = [cache EXCEPT !["enpass"] = [cache["enpass"] EXCEPT ![v] = w]] /\ w = world.pw[v] /\ task[t].prompted
    <3>1. /\ CacheTypes' /\ cache'["enpass"][v] = w
          /\ \A y \in KeysOf("enpass") : y # v => cache'["enpass"][y] = cache["enpass"][y]
          /\ \A l \in {"fido2", "yubikey", "enpass", "keepass"} : l # "enpass" => cache'[l] = cache[l]
      BY <1>2, <1>4, <1>6, <2>1, EntrySet
    <3> QED BY <1>6, <2>1, <3>1 DEF Hardware
  <2>2. CASE cache' = [cache EXCEPT !["enpass"] = [cache["enpass"] EXCEPT ![v] = None]] /\ w # world.pw[v] /\ cache["enpass"][v] = w
    <3>1. /\ CacheTypes' /\ cache'["enpass"][v] = None
          /\ \A y \in KeysOf("enpass") : y # v => cache'["enpass"][y] = cache["enpass"][y]
          /\ \A l \in {"fido2", "yubikey", "enpass", "keepass"} : l # "enpass" => cache'[l] = cache[l]
      BY <1>4, <1>6, <2>2, EntrySet
    <3> QED BY <1>6, <2>2, <3>1 DEF Hardware
  <2>3. CASE cache' = cache /\ (w = world.pw[v] => ~task[t].prompted) /\ (w # world.pw[v] => cache["enpass"][v] # w)
    <3>1. CacheTypes'
      BY <1>4, <2>3 DEF CacheTypes
    <3> QED BY <2>3, <3>1
  <2> QED BY <1>5, <2>1, <2>2, <2>3
<1>8. CacheInv'
  <2>1. \A y \in Vault : cache'["enpass"][y] # Wrong
    <3>1. \A y \in Vault : cache["enpass"][y] # Wrong /\ world.pw[y] # Wrong
      BY <1>4 DEF CacheInv, Wrong
    <3>2. None # Wrong
      BY LocalSecretsAssumption DEF Wrong
    <3> QED BY <1>2, <1>7, <3>1, <3>2
  <2> QED BY <1>1, <1>4, <1>7, <2>1, VaultCacheInv
<1>9. PICK r \in Operation :
        /\ Becomes(t, r) /\ r.p = p /\ r.got = <<>> /\ r.out \in {"auth", task[t].out}
        /\ (r.at \in {"items", "done"} /\ Free(v)) \/ (r.at = "ask" /\ lock' = lock)
  <2>1. CASE Goto(t, "items") /\ Free(v)
    <3> DEFINE r == [task[t] EXCEPT !.at = "items"]
    <3>1. r \in Operation /\ r.p = p /\ r.got = <<>> /\ r.out = task[t].out /\ r.at = "items"
      BY <1>2 DEF Operation, Labels
    <3>2. Becomes(t, r)
      BY <2>1 DEF Becomes, Goto
    <3> QED BY <2>1, <3>1, <3>2
  <2>2. CASE task' = [task EXCEPT ![t].at = "ask", ![t].retried = TRUE] /\ lock' = lock
    <3> DEFINE r == [task[t] EXCEPT !.at = "ask", !.retried = TRUE]
    <3>1. r \in Operation /\ r.p = p /\ r.got = <<>> /\ r.out = task[t].out /\ r.at = "ask"
      BY <1>2 DEF Operation, Labels
    <3>2. Becomes(t, r)
      BY <2>2 DEF Becomes
    <3> HIDE DEF r
    <3> QED BY <2>2, <3>1, <3>2
  <2>3. CASE Done(t, "auth") /\ Free(v)
    <3> DEFINE r == [task[t] EXCEPT !.at = "done", !.out = "auth"]
    <3>1. r \in Operation /\ r.p = p /\ r.got = <<>> /\ r.out = "auth" /\ r.at = "done"
      BY <1>2 DEF Operation, Labels, Outcomes
    <3>2. Becomes(t, r)
      BY <2>3 DEF Becomes, Done
    <3> HIDE DEF r
    <3> QED BY <2>3, <3>1, <3>2
  <2> QED BY <1>5, <2>1, <2>2, <2>3
<1>10. task' \in [Task -> Operation] /\ task'[t] = r /\ \A u \in Task : u # t => task'[u] = task[u]
  BY <1>9, BecomesIs, Here
<1>11. KindAt(r) /\ ReadOK(r)
  <2>1. KindAt(r)
    BY <1>1, <1>2, <1>9 DEF KindAt, TokenSteps
  <2>2. ReadOK(r)
    BY <1>9, Here DEF ReadOK
  <2> QED BY <2>1, <2>2
<1>12. LockInv' /\ lock' \in [Locks -> Task \cup {None}]
  <2>1. CASE r.at \in {"items", "done"} /\ Free(v)
    <3>1. Has(task[t], v) /\ \A l \in Locks : Has(task'[t], l) <=> Has(task[t], l) /\ l # v
      BY <1>2, <1>3, <1>9, <1>10, <2>1 DEF Has, TokenSteps
    <3> QED BY <1>2, <1>4, <1>10, <2>1, <3>1, LockFreed
  <2>2. CASE r.at = "ask" /\ lock' = lock
    <3>1. \A l \in Locks : Has(task'[t], l) <=> Has(task[t], l)
      BY <1>1, <1>3, <1>9, <1>10, <2>2 DEF Has, TokenSteps
    <3> QED BY <1>4, <1>10, <2>2, <3>1, SameLocks
  <2> QED BY <1>9, <2>1, <2>2
<1>13. KnownInv'
  <2>1. ASSUME NEW q \in known, Kind[q] = "enpass"
        PROVE  cache'["enpass"][VaultOf[q]] = world.pw[VaultOf[q]] \/ \E u \in Task : Tells(task[u], VaultOf[q])'
    <3>1. cache["enpass"][VaultOf[q]] = world.pw[VaultOf[q]] \/ \E u \in Task : Tells(task[u], VaultOf[q])
      BY <1>4, <2>1 DEF KnownInv
    <3>2. VaultOf[q] \in Vault
      BY <1>4 DEF Vault
    <3>3. ASSUME NEW u \in Task, u # t, Tells(task[u], VaultOf[q]) PROVE Tells(task[u], VaultOf[q])'
      BY <1>1, <1>10, <3>3 DEF Tells
    <3>4. CASE VaultOf[q] = v
      <4>1. CASE w = world.pw[v] /\ task[t].prompted
        BY <1>7, <3>4, <4>1
      <4>2. CASE ~(w = world.pw[v] /\ task[t].prompted)
        <5>1. ~Tells(task[t], VaultOf[q])
          BY <3>4, <4>2 DEF Tells
        <5>2. cache["enpass"][v] = world.pw[v] => cache'["enpass"][v] = world.pw[v]
          BY <1>7, <4>2
        <5> QED BY <3>1, <3>3, <3>4, <5>1, <5>2
      <4> QED BY <4>1, <4>2
    <3>5. CASE VaultOf[q] # v
      <4>1. ~Tells(task[t], VaultOf[q])
        BY <3>5 DEF Tells
      <4>2. cache'["enpass"][VaultOf[q]] = cache["enpass"][VaultOf[q]]
        BY <1>7, <3>2, <3>5
      <4> QED BY <3>1, <3>3, <4>1, <4>2
    <3> QED BY <3>4, <3>5
  <2>2. ASSUME NEW u \in Task, task'[u].at = "prompt", Kind[task'[u].p] = "enpass" PROVE task'[u].p \notin known
    <3>1. u # t /\ task'[u] = task[u]
      BY <1>9, <1>10, <2>2
    <3> QED BY <1>4, <2>2, <3>1 DEF KnownInv
  <2> QED BY <1>1, <2>1, <2>2 DEF KnownInv
<1>14. task[t].at \notin TokenSteps /\ r.at \notin TokenSteps /\ known' \subseteq Provider
  BY <1>1, <1>4, <1>9 DEF TokenSteps
<1> QED BY <1>1, <1>7, <1>8, <1>9, <1>11, <1>12, <1>13, <1>14, VaultKeeps

(* A vault that cannot be read: the password that was typed for it is forgotten. *)
LEMMA UnreadableKeeps ==
  ASSUME LocalInv, NEW t \in Task, Unreadable(t), inUse' = inUse
  PROVE  LocalInv'
<1> DEFINE p == task[t].p
           v == VaultOf[p]
           r == [task[t] EXCEPT !.at = "done", !.out = "invalid"]
<1>1. /\ Becomes(t, r) /\ task[t].at \in {"open", "items", "fields"} /\ task[t].at \notin TokenSteps
      /\ UNCHANGED <<cache, cell, world, usb, store, ops, changes, inUse>>
  BY DEF Unreadable, Done, Becomes, At, TokenSteps
<1>2. r \in Operation /\ r.at = "done" /\ r.p = p /\ r.got = task[t].got /\ r.out = "invalid"
  <2>1. task[t] \in Operation
    BY Here
  <2> QED BY <2>1 DEF Operation, Labels, Outcomes
<1> HIDE DEF r
<1>3. KindAt(r) /\ ReadOK(r) /\ \A l \in Locks : ~Has(r, l)
  BY <1>1, <1>2, Here, OperationEnds
<1>4. task' \in [Task -> Operation] /\ task'[t] = r /\ \A u \in Task : u # t => task'[u] = task[u]
  BY <1>1, <1>2, BecomesIs, Here
<1>5. /\ LockInv /\ lock \in [Locks -> Task \cup {None}] /\ CacheTypes /\ CacheInv /\ KnownInv
      /\ known \subseteq Provider /\ r.at \notin TokenSteps
  BY <1>2, Here DEF LocalInv, LocalTypes, TokenSteps
<1>6. CacheTypes' /\ CacheInv'
  BY <1>1, <1>5 DEF CacheTypes, CacheInv
<1>7. CASE /\ task[t].at = "open" /\ Kind[p] = "enpass" /\ Free(v)
           /\ known' = IF task[t].prompted THEN {q \in known : VaultOf[q] # v} ELSE known
  <2>1. v \in Locks /\ \A l \in Locks : Has(task[t], l) <=> l = v
    BY <1>7, Here, KindIs DEF Has, TokenSteps
  <2>2. LockInv' /\ lock' \in [Locks -> Task \cup {None}]
    BY <1>3, <1>4, <1>5, <1>7, <2>1, LockFreed
  <2>3. \A q \in known' : q \in known /\ ~Tells(task[t], VaultOf[q])
    BY <1>7 DEF Tells
  <2>4. KnownInv'
    BY <1>1, <1>2, <1>4, <1>5, <2>3 DEF KnownInv, Tells
  <2>5. known' \subseteq Provider
    BY <1>5, <2>3
  <2> QED BY <1>1, <1>2, <1>3, <1>5, <1>6, <2>2, <2>4, <2>5, VaultKeeps
<1>8. CASE task[t].at \in {"items", "fields"} /\ lock' = lock /\ known' = known
  <2>1. \A l \in Locks : Has(task'[t], l) <=> Has(task[t], l)
    BY <1>3, <1>4, <1>8 DEF Has, TokenSteps
  <2>2. LockInv' /\ lock' \in [Locks -> Task \cup {None}]
    BY <1>4, <1>5, <1>8, <2>1, SameLocks
  <2>3. \A y : ~Tells(task[t], y)
    BY <1>8 DEF Tells
  <2>4. KnownInv'
    BY <1>1, <1>2, <1>4, <1>5, <1>8, <2>3 DEF KnownInv, Tells
  <2> QED BY <1>1, <1>2, <1>3, <1>5, <1>6, <1>8, <2>2, <2>4, VaultKeeps
<1>9. Kind[p] = "enpass" => LockOf(p) = v
  BY DEF LockOf
<1> QED BY <1>7, <1>8, <1>9 DEF Unreadable, At, KindOf, Prov

(* The user changes a password, saves another version, or plugs the token in or out. *)
LEMMA WorldKeeps ==
  ASSUME LocalInv, changes' \in 0..MaxChanges,
         world' \in [pw : [Vault -> Nat], ver : [Vault -> Nat], plugged : BOOLEAN, svc : {"up", "denied", "nokey", "down"}],
         \A v \in Vault : world'.pw[v] # 0, known' \subseteq known,
         \A p \in known' : world'.pw[VaultOf[p]] = world.pw[VaultOf[p]],
         UNCHANGED <<cache, lock, cell, task, usb, store, ops, inUse>>
  PROVE  LocalInv'
<1>1. LocalTypes'
  BY DEF LocalInv, LocalTypes, CacheTypes, UsbTypes
<1>2. \A u \in Task : (KindAt(task[u]) /\ ReadOK(task[u]))'
  BY DEF LocalInv, KindAt, ReadOK
<1>3. LockInv' /\ TokenInv'
  BY DEF LocalInv, LockInv, Has, TokenInv, TokenOK
<1>4. CacheInv'
  BY DEF LocalInv, CacheInv
<1>5. KnownInv'
  BY DEF LocalInv, KnownInv, Tells
<1> QED BY <1>1, <1>2, <1>3, <1>4, <1>5 DEF LocalInv

LEMMA ChangeKeeps ==
  ASSUME LocalInv, Change, inUse' = inUse
  PROVE  LocalInv'
<1>1. changes' \in 0..MaxChanges
  BY LocalSecretsAssumption DEF Change, LocalInv, LocalTypes
<1>2. /\ world \in [pw : [Vault -> Nat], ver : [Vault -> Nat], plugged : BOOLEAN, svc : {"up", "denied", "nokey", "down"}]
      /\ \A v \in Vault : world.pw[v] # 0
      /\ known \subseteq Provider /\ inUse \subseteq Provider
  BY DEF LocalInv, LocalTypes, CacheInv
<1>3. UNCHANGED <<cache, lock, cell, task, usb, store, ops, inUse>>
  BY DEF Change
<1>4. \A kinds : VaultsOf(kinds) \subseteq Vault
  BY <1>2 DEF VaultsOf, Vault
<1>5. ASSUME NEW v \in Vault, world' = [world EXCEPT !.pw[v] = @ + 1], known' = {p \in known : VaultOf[p] # v}
      PROVE  LocalInv'
  <2>1. /\ world' \in [pw : [Vault -> Nat], ver : [Vault -> Nat], plugged : BOOLEAN, svc : {"up", "denied", "nokey", "down"}]
        /\ \A y \in Vault : world'.pw[y] = IF y = v THEN world.pw[y] + 1 ELSE world.pw[y]
    BY <1>2, <1>5
  <2>2. \A y \in Vault : world'.pw[y] # 0
    BY <1>2, <2>1
  <2>3. known' \subseteq known /\ \A p \in known' : world'.pw[VaultOf[p]] = world.pw[VaultOf[p]]
    BY <1>2, <1>5, <2>1 DEF Vault
  <2> QED BY <1>1, <1>3, <2>1, <2>2, <2>3, WorldKeeps
<1>6. ASSUME world' \in [pw : [Vault -> Nat], ver : [Vault -> Nat], plugged : BOOLEAN, svc : {"up", "denied", "nokey", "down"}],
             world'.pw = world.pw, known' = known
      PROVE  LocalInv'
  BY <1>1, <1>2, <1>3, <1>6, WorldKeeps
<1>7. ASSUME NEW v \in Vault, world' = [world EXCEPT !.ver[v] = @ + 1], known' = known
      PROVE  LocalInv'
  <2>1. /\ world' \in [pw : [Vault -> Nat], ver : [Vault -> Nat], plugged : BOOLEAN, svc : {"up", "denied", "nokey", "down"}]
        /\ world'.pw = world.pw
    BY <1>2, <1>7
  <2> QED BY <1>6, <1>7, <2>1
<1>8. ASSUME world' = [world EXCEPT !.plugged = ~@] \/ \E s \in {"up", "denied", "nokey", "down"} : world' = [world EXCEPT !.svc = s],
             known' = known
      PROVE  LocalInv'
  <2>1. /\ world' \in [pw : [Vault -> Nat], ver : [Vault -> Nat], plugged : BOOLEAN, svc : {"up", "denied", "nokey", "down"}]
        /\ world'.pw = world.pw
    BY <1>2, <1>8
  <2> QED BY <1>6, <1>8, <2>1
<1>9. \/ \E v \in Vault : world' = [world EXCEPT !.pw[v] = @ + 1] /\ known' = {p \in known : VaultOf[p] # v}
      \/ \E v \in Vault : world' = [world EXCEPT !.ver[v] = @ + 1] /\ known' = known
      \/ /\ world' = [world EXCEPT !.plugged = ~@] \/ \E s \in {"up", "denied", "nokey", "down"} : world' = [world EXCEPT !.svc = s]
         /\ known' = known
  BY <1>4 DEF Change
<1> QED BY <1>5, <1>7, <1>8, <1>9

LEMMA KillFresh ==
  ASSUME LocalInv, Kill, inUse' = inUse
  PROVE  Fresh'
<1>1. changes' \in 0..MaxChanges
  BY LocalSecretsAssumption DEF Kill, LocalInv, LocalTypes
<1>2. usb' \in [claimed : {None}, driver : BOOLEAN, buf : Seq(Nat), pending : Nat]
  BY DEF Kill, LocalInv, LocalTypes, UsbTypes
<1>3. store' = [p \in Provider |-> IF Encrypts(p) THEN Key(p, Secret(p)) ELSE None]
  BY DEF Kill, LocalInv, CacheInv
<1>4. \A v \in Vault : world'.pw[v] # 0
  BY DEF Kill, LocalInv, CacheInv
<1> QED BY <1>1, <1>2, <1>3, <1>4 DEF Fresh, Kill, LocalInv, LocalTypes

LEMMA KillKeeps == LocalInv /\ Kill /\ inUse' = inUse => LocalInv'
<1>1. LocalInv /\ Kill /\ inUse' = inUse => Fresh'
  BY KillFresh
<1> QED BY <1>1, FreshInv, PTL

LEMMA LocalNextKeeps == LocalInv /\ [LocalNext]_localVars => LocalInv'
<1> SUFFICES ASSUME LocalInv, [LocalNext]_localVars
             PROVE  LocalInv'
  OBVIOUS
<1>1. CASE LocalNext
  <2>1. inUse' = inUse
    BY <1>1 DEF LocalNext
  <2>2. ASSUME NEW t \in Task, Step(t) PROVE LocalInv'
    BY <2>1, <2>2, LockStepKeeps, AskKeeps, PromptKeeps, OpenEnpassKeeps, OpenKeePassKeeps, LoadItemsKeeps,
       FindFieldKeeps, UnreadableKeeps, FidoStartKeeps, AskPinKeeps, AssertHmacKeeps, OpenUsbKeeps, WriteChunkKeeps, TimeOutKeeps,
       ReadReportKeeps, CheckCrcKeeps, UseTokenKeeps, KmsCallKeeps, GetCellKeeps, LoadCellKeeps, ReadCellKeeps,
       TaskEndKeeps DEF Step
  <2>3. ASSUME NEW t \in Task, Begin(t) \/ Touch(t) PROVE LocalInv'
    BY <2>1, <2>3, BeginKeeps, TouchKeeps
  <2> QED BY <1>1, <2>1, <2>2, <2>3, ChangeKeeps, KillKeeps, GiveUpKeeps DEF LocalNext
<1>2. CASE UNCHANGED localVars
  <2>1. usb' = usb /\ changes' = changes /\ UNCHANGED <<cache, lock, cell, task, world, store, ops, known, inUse>>
    BY <1>2 DEF localVars
  <2>2. changes' \in 0..MaxChanges /\ known' \subseteq known
        /\ world' \in [pw : [Vault -> Nat], ver : [Vault -> Nat], plugged : BOOLEAN, svc : {"up", "denied", "nokey", "down"}]
        /\ \A v \in Vault : world'.pw[v] # 0
    BY <2>1 DEF LocalInv, LocalTypes, CacheInv
  <2> QED BY <2>1, <2>2, WorldKeeps
<1> QED BY <1>1, <1>2

----------------------------------------------------------------------------
(* What the invariant says of the properties. *)

LEMMA LocalInvTypes ==
  ASSUME LocalInv
  PROVE  LocalTypeOK
<1>1. \A t \in Task : task[t].at \in Labels
  BY Here
<1>2. ASSUME NEW l \in Locks, lock[l] # None PROVE lock[l] \in Task /\ ~At(lock[l], "idle") /\ ~At(lock[l], "done")
  <2>1. lock[l] \in Task
    BY <1>2 DEF LocalInv, LocalTypes
  <2>2. Has(task[lock[l]], l)
    BY <2>1 DEF LocalInv, LockInv
  <2> QED BY <2>1, <2>2 DEF Has, At, TokenSteps
<1>3. ops \in 0..MaxOps /\ changes \in 0..MaxChanges
  BY DEF LocalInv, LocalTypes
<1> QED BY <1>1, <1>2, <1>3 DEF LocalTypeOK

LEMMA LocalInvAsked ==
  ASSUME LocalInv
  PROVE  AcceptedOnly /\ AskedOnce
<1>1. AcceptedOnly
  BY DEF LocalInv, CacheInv, AcceptedOnly
<1>2. ASSUME NEW t \in Task, NEW u \in Task, At(t, "prompt"), At(u, "prompt"), t # u PROVE Kind[Prov(t)] # Kind[Prov(u)]
  <2>1. SUFFICES ASSUME Kind[Prov(t)] = Kind[Prov(u)] PROVE FALSE
    OBVIOUS
  <2>2. \E l \in Locks : Has(task[t], l) /\ Has(task[u], l)
    BY <1>2, <2>1, AtPrompt DEF At, Prov
  <2> QED BY <1>2, <2>2, OneHas DEF LocalInv
<1>3. \A t \in Task : At(t, "prompt") /\ Kind[Prov(t)] = "enpass" => Prov(t) \notin known
  BY DEF LocalInv, KnownInv, At, Prov
<1> QED BY <1>1, <1>2, <1>3 DEF AskedOnce

LEMMA LocalInvReads ==
  ASSUME LocalInv
  PROVE  ReadsSound
<1>1. Readable
  BY Here DEF ReadOK, Readable
<1>2. ASSUME NEW t \in Task, NEW i \in DOMAIN task[t].got, NEW j \in DOMAIN task[t].got, KindOf(t) # "yubikey"
      PROVE  task[t].got[i] = task[t].got[j]
  <2>1. KindAt(task[t]) /\ ReadOK(task[t])
    BY Here
  <2>2. CASE task[t].at \in {"fields", "read"}
    BY <2>1, <2>2 DEF ReadOK
  <2>3. CASE task[t].at = "done"
    BY <2>1, <2>3 DEF ReadOK
  <2>4. CASE task[t].at \in {"response", "crc"}
    BY <1>2, <2>1, <2>4 DEF KindAt, KindOf, Prov, TokenSteps
  <2>5. CASE task[t].at \notin {"fields", "read", "response", "crc", "done"}
    BY <2>1, <2>5 DEF ReadOK
  <2> QED BY <2>2, <2>3, <2>4, <2>5
<1> QED BY <1>1, <1>2 DEF ReadsSound, OneState

(* Whoever lets go of the YubiKey had it, and puts back the driver that it had found. *)
LEMMA UsbLetGo ==
  ASSUME LocalInv, NEW t \in Task, task[t].at \in TokenSteps, usb' = Drop(t), usb.claimed \in Task, task[usb.claimed].detached
  PROVE  usb'.driver
<1>1. usb.claimed = t
  BY ClaimedIs, LocalSecretsAssumption
<1>2. UsbTypes
  BY DEF LocalInv, LocalTypes
<1> QED BY <1>1, <1>2 DEF UsbTypes, Drop

LEMMA DriverPutBack ==
  ASSUME LocalInv, LocalNext, usb.claimed \in Task, task[usb.claimed].detached, usb'.claimed = None,
         ~(\A t \in Task : task'[t] = Idle)
  PROVE  usb'.driver
<1>1. usb.claimed # None /\ UsbTypes
  BY LocalSecretsAssumption DEF LocalInv, LocalTypes
<1>2. usb' # usb
  BY <1>1
<1>3. ~Kill /\ ~Change
  BY <1>2 DEF Kill, Change
<1>4. ~GiveUp
  BY <1>1 DEF GiveUp, UsbTypes
<1>5. PICK t \in Task : Begin(t) \/ Step(t) \/ Touch(t)
  BY <1>3, <1>4 DEF LocalNext
<1>6. ~Touch(t) /\ ~Begin(t)
  BY <1>1, <1>2 DEF Touch, Begin, UsbTypes
<1>7. ~(LockStep(t) \/ Ask(t) \/ Prompt(t) \/ OpenEnpass(t) \/ OpenKeePass(t) \/ LoadItems(t) \/ FindField(t)
        \/ Unreadable(t) \/ FidoStart(t) \/ AskPin(t) \/ AssertHmac(t) \/ UseToken(t) \/ KmsCall(t) \/ GetCell(t) \/ LoadCell(t)
        \/ ReadCell(t) \/ End(t))
  BY <1>2 DEF LockStep, Ask, Prompt, OpenEnpass, OpenKeePass, LoadItems, FindField, Unreadable, FidoStart, AskPin, AssertHmac,
     UseToken, KmsCall, GetCell, LoadCell, ReadCell, End
<1>8. CASE OpenUsb(t)
  <2>1. usb' = [usb EXCEPT !.claimed = t, !.driver = FALSE]
    BY <1>2, <1>8 DEF OpenUsb
  <2> QED BY <1>1, <2>1, LocalSecretsAssumption DEF UsbTypes
<1>9. CASE WriteChunk(t)
  <2>1. usb' = Drop(t) \/ usb' = Receive(Frame[Prov(t)], task[t].i)
    BY <1>2, <1>9 DEF WriteChunk, UsbFails
  <2>2. usb' # Receive(Frame[Prov(t)], task[t].i)
    BY <1>1 DEF Receive, UsbTypes
  <2>3. task[t].at \in TokenSteps
    BY <1>9 DEF WriteChunk, At, TokenSteps
  <2> QED BY <2>1, <2>2, <2>3, UsbLetGo
<1>10. CASE ReadReport(t)
  <2>1. usb' = Drop(t) \/ \E n : usb' = [usb EXCEPT !.pending = n]
    BY <1>10 DEF ReadReport, UsbFails
  <2>2. \A n : usb' # [usb EXCEPT !.pending = n]
    BY <1>1 DEF UsbTypes
  <2>3. task[t].at \in TokenSteps
    BY <1>10 DEF ReadReport, At, TokenSteps
  <2> QED BY <2>1, <2>2, <2>3, UsbLetGo
<1>11. CASE TimeOut(t) \/ CheckCrc(t)
  <2>1. usb' = Drop(t) /\ task[t].at \in TokenSteps
    BY <1>11 DEF TimeOut, CheckCrc, UsbFails, At, TokenSteps
  <2> QED BY <2>1, UsbLetGo
<1> QED BY <1>5, <1>6, <1>7, <1>8, <1>9, <1>10, <1>11 DEF Step

----------------------------------------------------------------------------
(* Plugins. *)

(* Whoever updates is the only one who changes what is in place: nothing in the code sees to *)
(* that, updates work in the directory itself and take no lock.                              *)
UpdatesAlone ==
  \A p, q \in PluginUser : user[p].req.op = "update" /\ p # q => ~Meddles(q)

(* The same of whoever removes. *)
Apart ==
  \A p, q \in PluginUser : user[p].req.op \in {"update", "uninstall"} /\ p # q => ~Meddles(q)

Steps ==
  {"begin", "clone", "aside", "put", "set_url", "fetch", "checkout", "record", "undo_url",
   "undo_checkout", "remove", "remove_dir", "load", "done", "unrecorded", "failed", "unrestored", "killed"}

UpdateSteps == {"set_url", "fetch", "checkout", "record", "undo_url", "undo_checkout"}

UserState ==
  [req : Request, step : Steps, had : BOOLEAN, before : Tree \cup {Nothing},
   ran : Source \cup {Link, Nothing}]

TempState == [fresh : Tree \cup {Nothing}, previous : Tree \cup {Link, Nothing}]

Types ==
  /\ place \in Tree \cup {Link, Nothing}
  /\ temp \in [PluginUser -> TempState]
  /\ user \in [PluginUser -> UserState]
  /\ kills \in 0..PluginKills

(* A checkout is whole unless it is being removed, and what its record says. *)
Good(d) ==
  d \in Tree =>
    /\ d.torn \/ d.entry
    /\ d.entry => d.code \in HasEntry
    /\ d.record # Nothing => d.record = d.code

(* A removal tears, nothing else does. *)
Whole(d) == d \in Tree /\ (\A q \in PluginUser : user[q].req.op # "uninstall") => ~d.torn

(* What the place of a process in its request says of it. *)
UserInv(p) ==
  /\ user[p].step = "clone" => user[p].req.op \in {"use", "install"}
  /\ user[p].step \in {"aside", "put"} => user[p].req.op \in {"use", "install", "link"}
  /\ user[p].step \in {"aside", "put"} /\ user[p].req.op # "link" => temp[p].fresh # Nothing
  /\ user[p].step \in UpdateSteps => user[p].req.op = "update" /\ user[p].before # Nothing
  /\ user[p].step \in {"remove", "remove_dir"} => user[p].req.op = "uninstall"
  /\ user[p].step = "load" => user[p].req.op = "use"
  /\ user[p].step \in {"begin", "clone", "aside"} => ~user[p].had
  /\ user[p].had => user[p].req.op \in {"use", "install", "link"}
  /\ user[p].had /\ user[p].req.op # "use" => user[p].req.force
  /\ user[p].had /\ ~user[p].req.force => user[p].step \in {"load"} \cup Over
  /\ user[p].had /\ user[p].step = "put" => Works(temp[p].previous)
  /\ user[p].before # Nothing => user[p].req.op = "update" /\ user[p].step # "begin"
  /\ user[p].ran # Nothing => user[p].step = "done"
  /\ ~user[p].req.force => temp[p].previous = Nothing

(* What an update is working on is what it began with, and will be put back from. *)
UpdateInv(p) ==
  user[p].step \in UpdateSteps =>
    /\ place \in Tree /\ ~place.torn /\ place.record = user[p].before.record
    /\ Good(user[p].before) /\ ~user[p].before.torn
    /\ user[p].step = "fetch" => place.url = Wanted(p).url
    /\ user[p].step = "checkout" => place.fetched = Wanted(p)
    /\ user[p].step = "record" => place.code = Wanted(p) /\ (place.entry => place.code \in HasEntry)

(* What nobody updates is good, but for a record that an update could not write. *)
PlaceInv ==
  /\ ~Updating /\ ~Unrecorded => Good(place)
  /\ ~Updating /\ place \in Tree => place.torn \/ place.entry

TreesInv ==
  /\ PlaceInv
  /\ Whole(place)
  /\ \A p \in PluginUser : /\ Good(temp[p].fresh) /\ Whole(temp[p].fresh)
                           /\ Good(temp[p].previous) /\ Whole(temp[p].previous)

(* What a use has found in place is what its project declared, and stays so until it runs. *)
RunInv(p) ==
  (\A q \in PluginUser : ~Meddles(q)) /\ user[p].had /\ user[p].req.source # Nothing =>
    /\ user[p].step = "load" => place = Link \/ (place \in Tree /\ place.record = user[p].req.source)
    /\ user[p].ran \notin {Nothing, Link} => user[p].ran = user[p].req.source

PluginInv ==
  Types /\ TreesInv /\ \A p \in PluginUser : UserInv(p) /\ UpdateInv(p) /\ RunInv(p)

(* What a process was asked to do does not change. *)
SameRequests == \A q \in PluginUser : user'[q].req = user[q].req

LEMMA PluginStarts == PluginInit => PluginInv
<1> SUFFICES ASSUME PluginInit PROVE PluginInv
  OBVIOUS
<1>1. PICK g \in PluginPlans : user = [p \in PluginUser |-> Starting(g[p])]
  BY DEF PluginInit
<1>2. g \in [PluginUser -> Request]
  BY PluginAssumption
<1>3. \A p \in PluginUser : user[p] = Starting(g[p]) /\ temp[p] = NoTemp
  BY <1>1 DEF PluginInit
<1>4. \A r \in Request : Starting(r) \in UserState
  BY DEF Starting, UserState, Steps
<1>5. Types
  BY <1>1, <1>2, <1>4, PluginAssumption DEF Types, PluginInit, NoTemp, TempState
<1>6. Nothing \notin Tree
  BY PluginAssumption
<1>7. TreesInv
  BY <1>3, <1>6 DEF TreesInv, PlaceInv, Good, Whole, PluginInit, NoTemp
<1>8. ASSUME NEW p \in PluginUser PROVE UserInv(p) /\ UpdateInv(p) /\ RunInv(p)
  <2>1. /\ user[p].step = "begin" /\ user[p].had = FALSE /\ user[p].before = Nothing
        /\ user[p].ran = Nothing /\ temp[p].previous = Nothing
    <3>1. user[p] = Starting(g[p]) /\ temp[p] = NoTemp
      BY <1>3
    <3> QED BY <3>1 DEF Starting, NoTemp
  <2> QED BY <2>1 DEF UserInv, UpdateInv, RunInv, UpdateSteps
<1> QED BY <1>5, <1>7, <1>8 DEF PluginInv

(* A step of one process, from what it does to its own state and to the directory. *)
LEMMA OneKeeps ==
  ASSUME PluginInv, UpdatesAlone, NEW p \in PluginUser, Types',
         \A q \in PluginUser \ {p} : user'[q] = user[q] /\ temp'[q] = temp[q],
         user'[p].req = user[p].req,
         ~Meddles(p) /\ place # Nothing => place' = place,
         UserInv(p)', UpdateInv(p)', RunInv(p)', Whole(place)', PlaceInv',
         (Good(temp[p].fresh) /\ Whole(temp[p].fresh))',
         (Good(temp[p].previous) /\ Whole(temp[p].previous))'
  PROVE  PluginInv' /\ SameRequests
<1>1. \A q \in PluginUser : user'[q].req = user[q].req
  OBVIOUS
<1>2. \A q \in PluginUser : Meddles(q)' <=> Meddles(q)
  BY <1>1 DEF Meddles
<1>3. SameRequests
  BY <1>1 DEF SameRequests
<1>4. ASSUME NEW q \in PluginUser \ {p} PROVE (UserInv(q) /\ UpdateInv(q) /\ RunInv(q))'
  <2>1. UserInv(q) /\ UpdateInv(q) /\ RunInv(q) /\ user'[q] = user[q] /\ temp'[q] = temp[q]
    BY <1>4 DEF PluginInv
  <2>2. UserInv(q)'
    BY <2>1 DEF UserInv, Works
  <2>3. UpdateInv(q)'
    <3>1. CASE user[q].step \in UpdateSteps
      <4>1. ~Meddles(p) /\ place \in Tree
        BY <1>4, <2>1, <3>1 DEF UserInv, UpdateInv, UpdatesAlone
      <4>2. place' = place
        BY <4>1, PluginAssumption
      <4> QED BY <2>1, <4>2 DEF UpdateInv, Wanted
    <3>2. CASE user[q].step \notin UpdateSteps
      BY <2>1, <3>2 DEF UpdateInv
    <3> QED BY <3>1, <3>2
  <2>4. RunInv(q)'
    <3> SUFFICES ASSUME \A r \in PluginUser : ~Meddles(r), user[q].had, user[q].req.source # Nothing
                 PROVE  /\ user[q].step = "load" =>
                             place' = Link \/ (place' \in Tree /\ place'.record = user[q].req.source)
                        /\ user[q].ran \notin {Nothing, Link} => user[q].ran = user[q].req.source
      BY <1>2, <2>1 DEF RunInv
    <3>1. ASSUME user[q].step = "load"
          PROVE  place' = place
      <4>1. place # Nothing
        BY <2>1, <3>1, PluginAssumption DEF RunInv
      <4> QED BY <4>1
    <3> QED BY <2>1, <3>1 DEF RunInv
  <2> QED BY <2>2, <2>3, <2>4
<1>5. TreesInv'
  <2>1. ASSUME NEW q \in PluginUser \ {p}
        PROVE  /\ Good(temp'[q].fresh) /\ Whole(temp[q].fresh)'
               /\ Good(temp'[q].previous) /\ Whole(temp[q].previous)'
    <3>1. temp'[q] = temp[q]
      OBVIOUS
    <3> QED BY <1>1, <3>1 DEF PluginInv, TreesInv, Whole
  <2> QED BY <2>1 DEF TreesInv, Good
<1> QED BY <1>3, <1>4, <1>5 DEF PluginInv

(* Only the step of a process changes. *)
Moved(p, s) ==
  /\ user' \in [PluginUser -> UserState]
  /\ \A q \in PluginUser \ {p} : user'[q] = user[q]
  /\ user'[p].step = s /\ user'[p].req = user[p].req /\ user'[p].had = user[p].had
  /\ user'[p].before = user[p].before /\ user'[p].ran = user[p].ran

LEMMA ForwardIs ==
  ASSUME Types, NEW p \in PluginUser, NEW s \in Steps, Forward(p, s)
  PROVE  Moved(p, s)
<1>1. user' = [user EXCEPT ![p] = [user[p] EXCEPT !.step = s]]
  BY DEF Forward
<1>2. user[p] \in UserState /\ [user[p] EXCEPT !.step = s] \in UserState
  BY DEF Types, UserState
<1> QED BY <1>1, <1>2 DEF Moved, Types, UserState

(* A process that keeps its temporary directory. *)
LEMMA StaysIs ==
  ASSUME Types, NEW p \in PluginUser, UNCHANGED temp
  PROVE  /\ temp' \in [PluginUser -> TempState]
         /\ \A q \in PluginUser : temp'[q] = temp[q]
BY DEF Types

LEMMA LeaveIs ==
  ASSUME Types, NEW p \in PluginUser, NEW s \in Steps, Leave(p, s)
  PROVE  /\ Moved(p, s)
         /\ temp' \in [PluginUser -> TempState]
         /\ \A q \in PluginUser \ {p} : temp'[q] = temp[q]
         /\ temp'[p].fresh = Nothing /\ temp'[p].previous = Nothing
<1>1. NoTemp \in TempState
  BY DEF NoTemp, TempState
<1>2. temp'[p] = NoTemp
  BY DEF Leave, Types
<1> QED BY <1>1, <1>2, ForwardIs DEF Leave, Types, NoTemp

(* The removal of files may be under way, but nothing else is: the directory is as it was. *)
LEMMA SamePlace ==
  ASSUME PluginInv, NEW p \in PluginUser, place' = place,
         \A q \in PluginUser : user'[q].req = user[q].req,
         \A q \in PluginUser \ {p} : user'[q] = user[q],
         user[p].req.op = "update" /\ user[p].step \notin {"begin", "done", "unrecorded", "failed"} =>
           user'[p].step \notin {"begin", "done", "unrecorded", "failed"},
         user[p].req.op = "update" => user[p].step # "unrecorded"
  PROVE  PlaceInv' /\ Whole(place)'
<1>1. (Updating => Updating') /\ (Unrecorded => Unrecorded')
  BY DEF Updating, Unrecorded
<1> QED BY <1>1 DEF PluginInv, TreesInv, PlaceInv, Good, Whole

(* A process ends and leaves the directory as it is. *)
LEMMA EndKeeps ==
  ASSUME PluginInv, UpdatesAlone, NEW p \in PluginUser, NEW s \in {"done", "failed", "unrestored", "load"},
         user[p].step \notin UpdateSteps, user[p].ran = Nothing,
         s = "load" => user[p].req.op = "use" /\ (~user[p].req.force => ~user[p].had),
         user[p].req.op = "update" => user[p].step = "begin",
         Leave(p, s), place' = place, kills' = kills
  PROVE  PluginInv' /\ SameRequests
<1>1. /\ Moved(p, s) /\ temp' \in [PluginUser -> TempState]
      /\ \A q \in PluginUser \ {p} : temp'[q] = temp[q]
      /\ temp'[p].fresh = Nothing /\ temp'[p].previous = Nothing
  BY LeaveIs DEF PluginInv, Steps
<1>2. Types'
  BY <1>1 DEF PluginInv, Types, Moved
<1>3. PlaceInv' /\ Whole(place)'
  BY <1>1, SamePlace DEF Moved
<1>4. UserInv(p)' /\ UpdateInv(p)'
  BY <1>1 DEF PluginInv, UserInv, UpdateInv, Moved, UpdateSteps, Over
<1>5. RunInv(p)'
  <2>1. user[p].req.force => Meddles(p)'
    BY <1>1 DEF Moved, Meddles
  <2>2. user[p].req.force \in BOOLEAN /\ user'[p].req = user[p].req
    BY <1>1 DEF Moved, PluginInv, Types, UserState, Request
  <2> QED BY <1>1, <2>1, <2>2 DEF RunInv, Moved
<1>6. (Good(temp[p].fresh) /\ Whole(temp[p].fresh) /\ Good(temp[p].previous) /\ Whole(temp[p].previous))'
  BY <1>1, PluginAssumption DEF Good, Whole
<1> QED BY <1>1, <1>2, <1>3, <1>4, <1>5, <1>6, OneKeeps DEF Moved

(* A process goes on, with its temporary directory as it is. *)
LEMMA GoOnKeeps ==
  ASSUME PluginInv, UpdatesAlone, NEW p \in PluginUser, NEW s \in Steps, Forward(p, s),
         UNCHANGED temp, place' = place, kills' \in 0..PluginKills,
         s \notin {"begin", "load", "done", "unrecorded", "failed"}, user[p].step # "unrecorded",
         user[p].ran = Nothing, UserInv(p)', UpdateInv(p)'
  PROVE  PluginInv' /\ SameRequests
<1>1. Moved(p, s) /\ temp' \in [PluginUser -> TempState] /\ \A q \in PluginUser : temp'[q] = temp[q]
  BY ForwardIs, StaysIs DEF PluginInv
<1>2. Types'
  BY <1>1 DEF PluginInv, Types, Moved
<1>3. PlaceInv' /\ Whole(place)'
  BY <1>1, SamePlace DEF Moved
<1>4. RunInv(p)'
  BY <1>1 DEF RunInv, Moved
<1>5. (Good(temp[p].fresh) /\ Whole(temp[p].fresh) /\ Good(temp[p].previous) /\ Whole(temp[p].previous))'
  BY <1>1 DEF PluginInv, TreesInv, Good, Whole, Moved
<1> QED BY <1>1, <1>2, <1>3, <1>4, <1>5, OneKeeps DEF Moved

LEMMA StartInstallKeeps ==
  ASSUME PluginInv, UpdatesAlone, NEW p \in PluginUser, PluginAt(p, "begin"),
         user[p].req.op \in {"use", "install"}, StartInstall(p), place' = place, kills' = kills
  PROVE  PluginInv' /\ SameRequests
<1>1. UserInv(p) /\ user[p].step = "begin" /\ user[p].ran = Nothing /\ kills' \in 0..PluginKills
  BY DEF PluginInv, UserInv, PluginAt, Types
<1>2. CASE Leave(p, "failed")
  BY <1>1, <1>2, EndKeeps DEF UpdateSteps
<1>3. CASE Forward(p, "clone") /\ UNCHANGED temp
  <2>1. Moved(p, "clone")
    BY <1>3, ForwardIs DEF PluginInv, Steps
  <2>2. UserInv(p)' /\ UpdateInv(p)'
    BY <1>1, <1>3, <2>1 DEF UserInv, UpdateInv, Moved, UpdateSteps, Over
  <2> QED BY <1>1, <1>3, <2>2, GoOnKeeps DEF Steps
<1> QED BY <1>2, <1>3 DEF StartInstall

(* A use that finds the plugin trusts what the record says. *)
LEMMA EnsureInstalledKeeps ==
  ASSUME PluginInv, UpdatesAlone, NEW p \in PluginUser, PluginAt(p, "begin"),
         user[p].req.op = "use", EnsureInstalled(p), place' = place, kills' = kills
  PROVE  PluginInv' /\ SameRequests
<1>1. UserInv(p) /\ user[p].step = "begin" /\ user[p].ran = Nothing /\ kills' \in 0..PluginKills
  BY DEF PluginInv, UserInv, PluginAt, Types
<1>2. CASE Leave(p, "failed")
  BY <1>1, <1>2, EndKeeps DEF UpdateSteps
<1>3. CASE StartInstall(p)
  BY <1>3, StartInstallKeeps
<1>4. CASE /\ place # Nothing /\ AsDeclared(p) /\ UNCHANGED temp
           /\ user' = [user EXCEPT ![p].step = "load", ![p].had = TRUE]
  <2> DEFINE u == [user[p] EXCEPT !.step = "load", !.had = TRUE]
  <2>1. user[p] \in UserState /\ u \in UserState /\ user' = [user EXCEPT ![p] = u]
    BY <1>4 DEF PluginInv, Types, UserState, Steps
  <2>2. /\ user' \in [PluginUser -> UserState] /\ \A q \in PluginUser \ {p} : user'[q] = user[q]
        /\ user'[p].step = "load" /\ user'[p].had = TRUE /\ user'[p].req = user[p].req
        /\ user'[p].before = user[p].before /\ user'[p].ran = user[p].ran
    BY <2>1 DEF PluginInv, Types, UserState
  <2>3. temp' \in [PluginUser -> TempState] /\ \A q \in PluginUser : temp'[q] = temp[q]
    BY <1>4, StaysIs DEF PluginInv
  <2>4. Types'
    BY <2>2, <2>3 DEF PluginInv, Types
  <2>5. PlaceInv' /\ Whole(place)'
    BY <1>1, <2>2, SamePlace
  <2>6. UserInv(p)' /\ UpdateInv(p)'
    BY <1>1, <2>2, <2>3 DEF UserInv, UpdateInv, UpdateSteps, Over
  <2>7. RunInv(p)'
    <3>1. place \in Tree \cup {Link}
      BY <1>4 DEF PluginInv, Types
    <3> QED BY <1>1, <1>4, <2>2, <3>1 DEF RunInv, AsDeclared
  <2>8. (Good(temp[p].fresh) /\ Whole(temp[p].fresh) /\ Good(temp[p].previous) /\ Whole(temp[p].previous))'
    BY <2>2, <2>3 DEF PluginInv, TreesInv, Good, Whole
  <2> QED BY <2>2, <2>3, <2>4, <2>5, <2>6, <2>7, <2>8, OneKeeps
<1> QED BY <1>2, <1>3, <1>4 DEF EnsureInstalled

LEMMA UninstallKeeps ==
  ASSUME PluginInv, UpdatesAlone, NEW p \in PluginUser, PluginAt(p, "begin"),
         user[p].req.op = "uninstall", Uninstall(p), kills' = kills
  PROVE  PluginInv' /\ SameRequests
<1>1. UserInv(p) /\ user[p].step = "begin" /\ user[p].ran = Nothing /\ kills' \in 0..PluginKills
  BY DEF PluginInv, UserInv, PluginAt, Types
<1>2. CASE Leave(p, "failed") /\ UNCHANGED place
  BY <1>1, <1>2, EndKeeps DEF UpdateSteps
<1>3. CASE Leave(p, "done") /\ place' = Nothing
  <2>1. /\ Moved(p, "done") /\ temp' \in [PluginUser -> TempState]
        /\ \A q \in PluginUser \ {p} : temp'[q] = temp[q]
        /\ temp'[p].fresh = Nothing /\ temp'[p].previous = Nothing
    BY <1>3, LeaveIs DEF PluginInv, Steps
  <2>2. Types'
    BY <1>1, <1>3, <2>1 DEF PluginInv, Types, Moved
  <2>3. Good(place') /\ Whole(place)'
    BY <1>3, PluginAssumption DEF Good, Whole
  <2>4. UserInv(p)' /\ UpdateInv(p)' /\ Meddles(p) /\ Meddles(p)'
    BY <1>1, <2>1 DEF UserInv, UpdateInv, Moved, UpdateSteps, Over, Meddles
  <2>5. (Good(temp[p].fresh) /\ Whole(temp[p].fresh) /\ Good(temp[p].previous) /\ Whole(temp[p].previous))'
    BY <2>1, PluginAssumption DEF Good, Whole
  <2>6. RunInv(p)' /\ PlaceInv'
    BY <1>3, <2>3, <2>4, PluginAssumption DEF RunInv, PlaceInv, Good
  <2> QED BY <2>1, <2>2, <2>3, <2>4, <2>5, <2>6, OneKeeps DEF Moved
<1>4. CASE Forward(p, "remove") /\ UNCHANGED <<place, temp>>
  <2>1. Moved(p, "remove")
    BY <1>4, ForwardIs DEF PluginInv, Steps
  <2>2. UserInv(p)' /\ UpdateInv(p)'
    BY <1>1, <1>4, <2>1 DEF UserInv, UpdateInv, Moved, UpdateSteps, Over
  <2> QED BY <1>1, <1>4, <2>2, GoOnKeeps DEF Steps
<1> QED BY <1>2, <1>3, <1>4 DEF Uninstall

(* An update begins with a good checkout: it is the only one. *)
LEMMA StartUpdateKeeps ==
  ASSUME PluginInv, UpdatesAlone, NEW p \in PluginUser, PluginAt(p, "begin"),
         user[p].req.op = "update", StartUpdate(p), place' = place, kills' = kills
  PROVE  PluginInv' /\ SameRequests
<1>1. UserInv(p) /\ user[p].step = "begin" /\ user[p].ran = Nothing /\ kills' \in 0..PluginKills
  BY DEF PluginInv, UserInv, PluginAt, Types
<1>2. CASE Leave(p, "failed") \/ Leave(p, "done")
  BY <1>1, <1>2, EndKeeps DEF UpdateSteps
<1>3. CASE /\ place \notin {Nothing, Link} /\ UNCHANGED temp
           /\ user' = [user EXCEPT ![p].step = "set_url", ![p].before = place]
  <2> DEFINE u == [user[p] EXCEPT !.step = "set_url", !.before = place]
  <2>1. place \in Tree
    BY <1>3 DEF PluginInv, Types
  <2>2. user[p] \in UserState /\ u \in UserState /\ user' = [user EXCEPT ![p] = u]
    BY <1>3, <2>1 DEF PluginInv, Types, UserState, Steps
  <2>3. /\ user' \in [PluginUser -> UserState] /\ \A q \in PluginUser \ {p} : user'[q] = user[q]
        /\ user'[p].step = "set_url" /\ user'[p].had = user[p].had /\ user'[p].req = user[p].req
        /\ user'[p].before = place /\ user'[p].ran = user[p].ran
    BY <2>2 DEF PluginInv, Types, UserState
  <2>4. temp' \in [PluginUser -> TempState] /\ \A q \in PluginUser : temp'[q] = temp[q]
    BY <1>3, StaysIs DEF PluginInv
  <2>5. Types'
    BY <2>3, <2>4 DEF PluginInv, Types
  <2>6. PlaceInv' /\ Whole(place)'
    BY <1>1, <2>3, SamePlace
  <2>7. ~Updating /\ ~Unrecorded /\ \A q \in PluginUser : user[q].req.op # "uninstall"
    <3>1. \A q \in PluginUser \ {p} : ~Meddles(q)
      BY DEF UpdatesAlone
    <3> QED BY <1>1, <3>1 DEF Updating, Unrecorded, Meddles
  <2>8. Good(place) /\ ~place.torn
    BY <2>1, <2>7 DEF PluginInv, TreesInv, PlaceInv, Whole
  <2>9. UserInv(p)'
    BY <1>1, <2>1, <2>3, <2>4, PluginAssumption DEF UserInv, UpdateSteps, Over
  <2>10. UpdateInv(p)'
    BY <2>1, <2>3, <2>8 DEF UpdateInv, Good
  <2>11. RunInv(p)'
    BY <1>1, <2>3 DEF RunInv
  <2>12. (Good(temp[p].fresh) /\ Whole(temp[p].fresh) /\ Good(temp[p].previous) /\ Whole(temp[p].previous))'
    BY <2>3, <2>4 DEF PluginInv, TreesInv, Good, Whole
  <2> QED BY <2>3, <2>4, <2>5, <2>6, <2>9, <2>10, <2>11, <2>12, OneKeeps
<1> QED BY <1>2, <1>3 DEF StartUpdate

LEMMA BeginPluginKeeps ==
  ASSUME PluginInv, UpdatesAlone, NEW p \in PluginUser, BeginPlugin(p)
  PROVE  PluginInv' /\ SameRequests
<1>1. PluginAt(p, "begin") /\ kills' = kills
  BY DEF BeginPlugin
<1>2. UserInv(p) /\ user[p].step = "begin" /\ user[p].ran = Nothing /\ kills' \in 0..PluginKills
  BY <1>1 DEF PluginInv, UserInv, PluginAt, Types
<1>3. CASE user[p].req.op = "link" /\ Leave(p, "failed") /\ UNCHANGED place
  BY <1>1, <1>2, <1>3, EndKeeps DEF UpdateSteps
<1>4. CASE user[p].req.op = "link" /\ Forward(p, "aside") /\ UNCHANGED <<place, temp>>
  <2>1. Moved(p, "aside")
    BY <1>4, ForwardIs DEF PluginInv, Steps
  <2>2. UserInv(p)' /\ UpdateInv(p)'
    BY <1>2, <1>4, <2>1 DEF UserInv, UpdateInv, Moved, UpdateSteps, Over
  <2> QED BY <1>2, <1>4, <2>2, GoOnKeeps DEF Steps
<1> QED BY <1>1, <1>3, <1>4, UninstallKeeps, EnsureInstalledKeeps, StartInstallKeeps, StartUpdateKeeps
        DEF BeginPlugin

LEMMA CloneKeeps ==
  ASSUME PluginInv, UpdatesAlone, NEW p \in PluginUser, Clone(p)
  PROVE  PluginInv' /\ SameRequests
<1>1. /\ UserInv(p) /\ user[p].step = "clone" /\ user[p].ran = Nothing
      /\ user[p].req.op \in {"use", "install"} /\ place' = place /\ kills' = kills
  BY DEF PluginInv, UserInv, PluginAt, Clone
<1>2. CASE Leave(p, "failed")
  BY <1>1, <1>2, EndKeeps DEF UpdateSteps
<1> DEFINE s == user[p].req.source
<1>3. CASE \E record \in {s, Nothing} :
             s \in HasEntry /\ temp' = [temp EXCEPT ![p].fresh = Cloned(s, record)] /\ Forward(p, "aside")
  <2>1. PICK record \in {s, Nothing} :
             s \in HasEntry /\ temp' = [temp EXCEPT ![p].fresh = Cloned(s, record)] /\ Forward(p, "aside")
    BY <1>3
  <2> DEFINE d == Cloned(s, record)
  <2>2. s \in Source /\ d \in Tree
    BY <2>1, PluginAssumption DEF Cloned, Tree, Source
  <2>3. Good(d) /\ d.torn = FALSE
    BY <2>1 DEF Good, Cloned
  <2>4. Moved(p, "aside")
    BY <2>1, ForwardIs DEF PluginInv, Steps
  <2> HIDE DEF d
  <2>5. temp[p] \in TempState /\ [temp[p] EXCEPT !.fresh = d] \in TempState
    BY <2>2 DEF PluginInv, Types, TempState
  <2>6. /\ temp' \in [PluginUser -> TempState] /\ \A q \in PluginUser \ {p} : temp'[q] = temp[q]
        /\ temp'[p].fresh = d /\ temp'[p].previous = temp[p].previous
    <3>1. temp' = [temp EXCEPT ![p] = [temp[p] EXCEPT !.fresh = d]]
      BY <2>1 DEF d
    <3> QED BY <3>1, <2>5 DEF PluginInv, Types, TempState
  <2>7. Types'
    BY <1>1, <2>4, <2>6 DEF PluginInv, Types, Moved
  <2>8. PlaceInv' /\ Whole(place)'
    BY <1>1, <2>4, SamePlace DEF Moved
  <2>9. UserInv(p)' /\ UpdateInv(p)' /\ RunInv(p)'
    BY <1>1, <2>2, <2>4, <2>6, PluginAssumption DEF UserInv, UpdateInv, RunInv, Moved, UpdateSteps, Over
  <2>10. (Good(temp[p].fresh) /\ Whole(temp[p].fresh) /\ Good(temp[p].previous) /\ Whole(temp[p].previous))'
    BY <2>3, <2>4, <2>6 DEF PluginInv, TreesInv, Good, Whole, Moved
  <2> QED BY <1>1, <2>4, <2>6, <2>7, <2>8, <2>9, <2>10, OneKeeps DEF Moved
<1> QED BY <1>2, <1>3 DEF Clone

(* Who forces is no update, so there is none and what is moved aside is good. *)
LEMMA ForcedMeansQuiet ==
  ASSUME PluginInv, UpdatesAlone, NEW p \in PluginUser, Meddles(p), user[p].req.op # "update"
  PROVE  ~Updating /\ ~Unrecorded
BY DEF UpdatesAlone, Updating, Unrecorded

LEMMA MoveAsideKeeps ==
  ASSUME PluginInv, UpdatesAlone, NEW p \in PluginUser, MoveAside(p)
  PROVE  PluginInv' /\ SameRequests
<1>1. /\ UserInv(p) /\ user[p].step = "aside" /\ user[p].ran = Nothing /\ user[p].had = FALSE
      /\ user[p].req.op \in {"use", "install", "link"} /\ kills' = kills
  BY DEF PluginInv, UserInv, PluginAt, MoveAside, Types, UserState
<1>2. CASE Leave(p, "failed") /\ UNCHANGED place
  BY <1>1, <1>2, EndKeeps DEF UpdateSteps
<1>3. CASE Forward(p, "put") /\ UNCHANGED <<place, temp>>
  <2>1. Moved(p, "put")
    BY <1>3, ForwardIs DEF PluginInv, Steps
  <2>2. UserInv(p)' /\ UpdateInv(p)'
    BY <1>1, <1>3, <2>1 DEF UserInv, UpdateInv, Moved, UpdateSteps, Over
  <2> QED BY <1>1, <1>3, <2>2, GoOnKeeps DEF Steps, PluginInv, Types
<1>4. CASE /\ user[p].req.force /\ place # Nothing
           /\ temp' = [temp EXCEPT ![p].previous = place] /\ place' = Nothing
           /\ user' = [user EXCEPT ![p].step = "put", ![p].had = Works(place)]
  <2> DEFINE u == [user[p] EXCEPT !.step = "put", !.had = Works(place)]
             t == [temp[p] EXCEPT !.previous = place]
  <2>1. Works(place) \in BOOLEAN
    BY DEF PluginInv, Types, Works, Tree
  <2>2. user[p] \in UserState /\ u \in UserState /\ user' = [user EXCEPT ![p] = u]
    BY <1>4, <2>1 DEF PluginInv, Types, UserState, Steps
  <2>3. /\ user' \in [PluginUser -> UserState] /\ \A q \in PluginUser \ {p} : user'[q] = user[q]
        /\ user'[p].step = "put" /\ user'[p].req = user[p].req
        /\ user'[p].before = user[p].before /\ user'[p].ran = user[p].ran
    BY <2>2 DEF PluginInv, Types, UserState
  <2>4. user'[p].had => Works(place)
    BY <2>2 DEF PluginInv, Types, UserState
  <2>5. temp[p] \in TempState /\ t \in TempState /\ temp' = [temp EXCEPT ![p] = t]
    BY <1>4 DEF PluginInv, Types, TempState
  <2>6. /\ temp' \in [PluginUser -> TempState] /\ \A q \in PluginUser \ {p} : temp'[q] = temp[q]
        /\ temp'[p].previous = place /\ temp'[p].fresh = temp[p].fresh
    BY <2>5 DEF PluginInv, Types, TempState
  <2>7. Types'
    BY <1>1, <1>4, <2>3, <2>6 DEF PluginInv, Types
  <2>8. Meddles(p) /\ Meddles(p)' /\ ~Updating /\ ~Unrecorded
    BY <1>1, <1>4, <2>3, ForcedMeansQuiet DEF Meddles
  <2>9. Good(place') /\ Whole(place)'
    BY <1>4, PluginAssumption DEF Good, Whole
  <2>10. UserInv(p)'
    <3>1. user'[p].had => Works(temp'[p].previous)
      BY <2>4, <2>6
    <3> QED BY <1>1, <1>4, <2>3, <2>6, <3>1 DEF UserInv, UpdateSteps, Over, Works
  <2>11. UpdateInv(p)' /\ RunInv(p)'
    BY <2>3, <2>8 DEF UpdateInv, RunInv, UpdateSteps
  <2>12. (Good(temp[p].fresh) /\ Whole(temp[p].fresh) /\ Good(temp[p].previous) /\ Whole(temp[p].previous))'
    BY <2>3, <2>6, <2>8 DEF PluginInv, TreesInv, PlaceInv, Good, Whole
  <2>13. PlaceInv'
    BY <2>9 DEF PlaceInv, Good
  <2> QED BY <2>3, <2>6, <2>7, <2>8, <2>9, <2>10, <2>11, <2>12, <2>13, OneKeeps
<1> QED BY <1>2, <1>3, <1>4 DEF MoveAside

(* A process that ends with something new in the empty directory. *)
LEMMA FillKeeps ==
  ASSUME PluginInv, UpdatesAlone, NEW p \in PluginUser, user[p].step = "put", place = Nothing,
         NEW s \in {"done", "failed", "load"}, Leave(p, s), kills' = kills,
         s = "load" => user[p].req.op = "use",
         place' \in Tree \cup {Link, Nothing}, Good(place'), Whole(place')
  PROVE  PluginInv' /\ SameRequests
<1>1. UserInv(p) /\ user[p].ran = Nothing /\ user[p].req.op \in {"use", "install", "link"}
  BY DEF PluginInv, UserInv
<1>2. /\ Moved(p, s) /\ temp' \in [PluginUser -> TempState]
      /\ \A q \in PluginUser \ {p} : temp'[q] = temp[q]
      /\ temp'[p].fresh = Nothing /\ temp'[p].previous = Nothing
  BY LeaveIs DEF PluginInv, Steps
<1>3. Types'
  BY <1>2 DEF PluginInv, Types, Moved
<1>4. UserInv(p)' /\ UpdateInv(p)'
  BY <1>1, <1>2 DEF UserInv, UpdateInv, Moved, UpdateSteps, Over
<1>5. user[p].had => Meddles(p)'
  BY <1>1, <1>2 DEF UserInv, Moved, Meddles, Over
<1>6. RunInv(p)'
  BY <1>2, <1>5 DEF RunInv, Moved
<1>7. (Good(temp[p].fresh) /\ Whole(temp[p].fresh) /\ Good(temp[p].previous) /\ Whole(temp[p].previous))'
  BY <1>2, PluginAssumption DEF Good, Whole
<1>8. Whole(place)' /\ PlaceInv'
  BY <1>2 DEF PlaceInv, Whole, Good, Moved
<1> QED BY <1>2, <1>3, <1>4, <1>6, <1>7, <1>8, OneKeeps DEF Moved

LEMMA PutInPlaceKeeps ==
  ASSUME PluginInv, UpdatesAlone, NEW p \in PluginUser, PutInPlace(p)
  PROVE  PluginInv' /\ SameRequests
<1>1. /\ UserInv(p) /\ user[p].step = "put" /\ user[p].ran = Nothing
      /\ user[p].req.op \in {"use", "install", "link"} /\ kills' = kills
  BY DEF PluginInv, UserInv, PluginAt, PutInPlace
<1> DEFINE s == IF user[p].req.op = "use" THEN "load" ELSE "done"
<1>2. s \in {"done", "load"} /\ (s = "load" => user[p].req.op = "use")
  OBVIOUS
<1>3. temp[p] \in TempState /\ Good(temp[p].fresh) /\ Whole(temp[p].fresh)
      /\ Good(temp[p].previous) /\ Whole(temp[p].previous)
  BY DEF PluginInv, TreesInv, Types
<1>4. CASE Installed(p) /\ UNCHANGED place
  <2>1. ~user[p].req.force => ~user[p].had
    BY <1>1 DEF UserInv, Over
  <2>2. Leave(p, s)
    BY <1>4 DEF Installed
  <2> HIDE DEF s
  <2> QED BY <1>1, <1>2, <1>4, <2>1, <2>2, EndKeeps DEF UpdateSteps
<1>5. CASE place = Nothing /\ Installed(p) /\ place' = IF user[p].req.op = "link" THEN Link ELSE temp[p].fresh
  <2>1. Leave(p, s)
    BY <1>5 DEF Installed
  <2> HIDE DEF s
  <2>2. place' \in Tree \cup {Link, Nothing} /\ Good(place') /\ Whole(place')
    BY <1>3, <1>5, PluginAssumption DEF TempState, Good, Whole
  <2> QED BY <1>1, <1>2, <1>5, <2>1, <2>2, FillKeeps
<1>6. CASE Leave(p, "unrestored") /\ UNCHANGED place
  BY <1>1, <1>6, EndKeeps DEF UpdateSteps
<1>7. CASE Leave(p, "failed") /\ place' = Restored(p)
  <2>1. CASE place' = place
    BY <1>1, <1>7, <2>1, EndKeeps DEF UpdateSteps
  <2>2. CASE place = Nothing /\ place' = temp[p].previous
    BY <1>1, <1>3, <1>7, <2>2, FillKeeps DEF TempState
  <2> QED BY <1>7, <2>1, <2>2 DEF Restored
<1> QED BY <1>4, <1>5, <1>6, <1>7 DEF PutInPlace

(* A step of an update: what it makes of the checkout. *)
LEMMA UpdateKeeps ==
  ASSUME PluginInv, UpdatesAlone, NEW p \in PluginUser, user[p].step \in UpdateSteps,
         NEW s \in Steps \ {"begin", "load"}, Forward(p, s), UNCHANGED <<temp, kills>>, place' \in Tree, ~place'.torn,
         s \in {"done", "failed"} => Good(place'),
         s = "unrecorded" => place'.entry,
         s \in UpdateSteps \cup {"done", "unrecorded", "failed", "unrestored"},
         s \in UpdateSteps => place'.record = place.record,
         s = "fetch" => place'.url = Wanted(p)'.url,
         s = "checkout" => place'.fetched = Wanted(p)',
         s = "record" => place'.code = Wanted(p)' /\ (place'.entry => place'.code \in HasEntry)
  PROVE  PluginInv' /\ SameRequests
<1>1. UserInv(p) /\ UpdateInv(p) /\ user[p].ran = Nothing /\ user[p].req.op = "update"
  BY DEF PluginInv, UserInv, UpdateSteps
<1>2. Moved(p, s) /\ temp' \in [PluginUser -> TempState] /\ \A q \in PluginUser : temp'[q] = temp[q]
  BY ForwardIs, StaysIs DEF PluginInv
<1>3. Types'
  BY <1>2 DEF PluginInv, Types, Moved
<1>4. UserInv(p)'
  BY <1>1, <1>2 DEF UserInv, Moved, UpdateSteps, Over
<1>5. UpdateInv(p)'
  BY <1>1, <1>2 DEF UpdateInv, Moved, UpdateSteps, Good
<1>6. Meddles(p) /\ Meddles(p)'
  BY <1>1, <1>2 DEF Meddles, Moved
<1>7. RunInv(p)' /\ Whole(place)'
  BY <1>6 DEF RunInv, Whole
<1>8. /\ s \in UpdateSteps \cup {"unrestored"} => Updating'
      /\ s = "unrecorded" => Unrecorded'
  BY <1>1, <1>2 DEF Updating, Unrecorded, Moved, UpdateSteps
<1>9. PlaceInv'
  BY <1>8 DEF PlaceInv, Good
<1>10. (Good(temp[p].fresh) /\ Whole(temp[p].fresh) /\ Good(temp[p].previous) /\ Whole(temp[p].previous))'
  BY <1>2 DEF PluginInv, TreesInv, Good, Whole, Moved
<1> QED BY <1>2, <1>3, <1>4, <1>5, <1>6, <1>7, <1>9, <1>10, OneKeeps DEF Moved

LEMMA WantedSource ==
  ASSUME PluginInv, NEW p \in PluginUser, place \in Tree
  PROVE  Wanted(p) \in Source
BY DEF PluginInv, Types, UserState, Request, Wanted, Tree, Source

LEMMA HoldsIs ==
  ASSUME NEW d \in Tree, NEW s \in Source
  PROVE  /\ Holds(d, s) \in Tree /\ Holds(d, s).code = s /\ (Holds(d, s).entry <=> s \in HasEntry)
         /\ Holds(d, s).url = d.url /\ Holds(d, s).record = d.record /\ Holds(d, s).torn = d.torn
<1>1. ASSUME NEW e \in BOOLEAN, e = (s \in HasEntry)
      PROVE  /\ Holds(d, s) \in Tree /\ Holds(d, s).code = s /\ Holds(d, s).entry = e
             /\ Holds(d, s).url = d.url /\ Holds(d, s).record = d.record /\ Holds(d, s).torn = d.torn
  <2>1. Holds(d, s) = [d EXCEPT !.code = s, !.entry = e]
    BY <1>1, Zenon DEF Holds
  <2> QED BY <2>1 DEF Tree
<1>2. CASE s \in HasEntry
  BY <1>1, <1>2
<1>3. CASE s \notin HasEntry
  <2>1. FALSE = (s \in HasEntry)
    BY <1>3
  <2> QED BY <1>1, <1>3, <2>1
<1> QED BY <1>2, <1>3

(* Each step of an update, and of undoing one. *)
LEMMA UpdatesKeep ==
  ASSUME PluginInv, UpdatesAlone, NEW p \in PluginUser, Update(p)
  PROVE  PluginInv' /\ SameRequests
<1>1. /\ user[p].step \in UpdateSteps /\ user[p].before \in Tree /\ UpdateInv(p) /\ place \in Tree
      /\ user[p].req \in Request
  <2>1. user[p].step \in UpdateSteps
    BY DEF Update, SetUrl, Fetch, Checkout, Record, FailUpdate, UndoUrl, UndoCheckout, PluginAt, UpdateSteps
  <2> QED BY <2>1 DEF PluginInv, UserInv, UpdateInv, Types, UserState
<1>2. UNCHANGED <<temp, kills>> /\ IsTree /\ ~place.torn /\ Wanted(p) \in Source
  BY <1>1, WantedSource, PluginAssumption DEF Update, UpdateInv, IsTree
<1>3. ASSUME user'[p].req = user[p].req, place' \in Tree,
             user[p].req.source = Nothing => place'.url = Wanted(p).url
      PROVE  Wanted(p)' = Wanted(p)
  BY <1>1, <1>3 DEF Wanted, Source
<1>4. ASSUME NEW s \in Steps, Forward(p, s) PROVE user'[p].req = user[p].req
  BY <1>4, ForwardIs DEF Moved, PluginInv
<1>5. CASE SetUrl(p)
  <2>1. place' = [place EXCEPT !.url = Wanted(p).url] /\ Forward(p, "fetch")
    BY <1>5 DEF SetUrl
  <2>2. place' \in Tree /\ place'.url = Wanted(p).url /\ place'.record = place.record /\ place'.torn = place.torn
    BY <1>1, <1>2, <2>1 DEF Tree, Source
  <2>3. Wanted(p)' = Wanted(p)
    BY <1>3, <1>4, <2>1, <2>2 DEF Steps
  <2> QED BY <1>1, <1>2, <2>1, <2>2, <2>3, UpdateKeeps DEF Steps, UpdateSteps
<1>6. CASE Fetch(p)
  <2> DEFINE f == [url |-> place.url, ref |-> Wanted(p).ref]
  <2>1. place' = [place EXCEPT !.fetched = f] /\ Forward(p, "checkout") /\ user[p].step = "fetch"
    BY <1>6 DEF Fetch, PluginAt
  <2>2. f \in Source /\ f = Wanted(p)
    BY <1>1, <1>2, <2>1 DEF UpdateInv, Source, Tree
  <2> HIDE DEF f
  <2>3. /\ place' \in Tree /\ place'.fetched = f /\ place'.url = place.url /\ place'.record = place.record
        /\ place'.torn = place.torn
    BY <1>1, <2>1, <2>2 DEF Tree
  <2>4. Wanted(p)' = Wanted(p)
    BY <1>1, <1>3, <1>4, <2>1, <2>3 DEF Steps, UpdateInv
  <2> QED BY <1>1, <1>2, <2>1, <2>2, <2>3, <2>4, UpdateKeeps DEF Steps, UpdateSteps
<1>7. CASE Checkout(p)
  <2>1. place' = Holds(place, Wanted(p)) /\ Forward(p, "record")
    BY <1>1, <1>7 DEF Checkout, PluginAt, UpdateInv
  <2>2. /\ place' \in Tree /\ place'.code = Wanted(p) /\ (place'.entry <=> Wanted(p) \in HasEntry)
        /\ place'.url = place.url /\ place'.record = place.record /\ place'.torn = place.torn
    BY <1>1, <1>2, <2>1, HoldsIs
  <2>3. Wanted(p)' = Wanted(p)
    BY <1>3, <1>4, <2>1, <2>2 DEF Steps, Wanted
  <2> QED BY <1>1, <1>2, <2>1, <2>2, <2>3, UpdateKeeps DEF Steps, UpdateSteps
<1>8. CASE Record(p)
  <2>1. place.entry /\ place.code = Wanted(p) /\ place.code \in HasEntry
    BY <1>1, <1>8 DEF Record, PluginAt, UpdateInv
  <2>2. CASE place' = [place EXCEPT !.record = Wanted(p)] /\ Forward(p, "done")
    <3>1. /\ place' \in Tree /\ place'.record = Wanted(p) /\ place'.code = Wanted(p)
          /\ place'.entry = place.entry /\ place'.torn = place.torn
      BY <1>1, <1>2, <2>1, <2>2 DEF Tree
    <3>2. Good(place')
      BY <2>1, <3>1 DEF Good
    <3> QED BY <1>1, <1>2, <2>2, <3>1, <3>2, UpdateKeeps DEF Steps, UpdateSteps
  <2>3. ASSUME NEW left \in {place.record, Nothing}, place' = [place EXCEPT !.record = left],
               Forward(p, "unrecorded")
        PROVE  PluginInv' /\ SameRequests
    <3>1. place' \in Tree /\ place'.entry = place.entry /\ place'.torn = place.torn
      BY <1>1, <2>3 DEF Tree
    <3> QED BY <1>1, <1>2, <2>1, <2>3, <3>1, UpdateKeeps DEF Steps, UpdateSteps
  <2> QED BY <1>8, <2>2, <2>3 DEF Record
<1>9. CASE FailUpdate(p)
  <2>1. place' = place /\ Forward(p, "undo_url")
    BY <1>9 DEF FailUpdate
  <2> QED BY <1>1, <1>2, <2>1, UpdateKeeps DEF Steps, UpdateSteps
<1>10. CASE UndoUrl(p)
  <2>1. /\ place' \in {place, [place EXCEPT !.url = user[p].before.url]}
        /\ Forward(p, "undo_checkout")
    BY <1>10 DEF UndoUrl
  <2>2. place' \in Tree /\ place'.record = place.record /\ place'.torn = place.torn
    BY <1>1, <2>1 DEF Tree
  <2> QED BY <1>1, <1>2, <2>1, <2>2, UpdateKeeps DEF Steps, UpdateSteps
<1>11. CASE UndoCheckout(p)
  <2> DEFINE b == user[p].before
  <2>1. CASE UNCHANGED place /\ Forward(p, "unrestored")
    BY <1>1, <1>2, <2>1, UpdateKeeps DEF Steps, UpdateSteps
  <2>2. CASE place' = Holds(place, b.code) /\ Forward(p, "failed")
    <3>1. b \in Tree /\ b.code \in Source /\ Good(b) /\ ~b.torn /\ place.record = b.record
      BY <1>1 DEF Tree, UpdateInv
    <3>2. /\ place' \in Tree /\ place'.code = b.code /\ (place'.entry <=> b.code \in HasEntry)
          /\ place'.record = b.record /\ place'.torn = place.torn
      BY <1>1, <2>2, <3>1, HoldsIs
    <3>3. Good(place')
      BY <3>1, <3>2 DEF Good
    <3> QED BY <1>1, <1>2, <2>2, <3>2, <3>3, UpdateKeeps DEF Steps, UpdateSteps
  <2> QED BY <1>11, <2>1, <2>2 DEF UndoCheckout
<1> QED BY <1>5, <1>6, <1>7, <1>8, <1>9, <1>10, <1>11 DEF Update

(* A process that removes goes on: what it leaves is torn or nothing. *)
LEMMA TearKeeps ==
  ASSUME PluginInv, UpdatesAlone, NEW p \in PluginUser, user[p].step \in {"remove", "remove_dir"},
         NEW s \in {"remove_dir", "done", "failed"}, Forward(p, s), UNCHANGED <<temp, kills>>,
         place' \in Tree \cup {Link, Nothing}, Good(place) => Good(place')
  PROVE  PluginInv' /\ SameRequests
<1>1. /\ UserInv(p) /\ user[p].ran = Nothing /\ user[p].req.op = "uninstall"
  BY DEF PluginInv, UserInv
<1>2. Moved(p, s) /\ temp' \in [PluginUser -> TempState] /\ \A q \in PluginUser : temp'[q] = temp[q]
  BY ForwardIs, StaysIs DEF PluginInv, Steps
<1>3. Types'
  BY <1>2 DEF PluginInv, Types, Moved
<1>4. UserInv(p)' /\ UpdateInv(p)'
  BY <1>1, <1>2 DEF UserInv, UpdateInv, Moved, UpdateSteps, Over
<1>5. Meddles(p) /\ Meddles(p)' /\ ~Updating /\ ~Unrecorded
  BY <1>1, <1>2, ForcedMeansQuiet DEF Meddles, Moved
<1>6. RunInv(p)' /\ Whole(place)' /\ PlaceInv'
  BY <1>1, <1>2, <1>5 DEF RunInv, Whole, Moved, PluginInv, TreesInv, PlaceInv, Good
<1>7. (Good(temp[p].fresh) /\ Whole(temp[p].fresh) /\ Good(temp[p].previous) /\ Whole(temp[p].previous))'
  BY <1>2 DEF PluginInv, TreesInv, Good, Whole, Moved
<1> QED BY <1>2, <1>3, <1>4, <1>5, <1>6, <1>7, OneKeeps DEF Moved

LEMMA RemoveKeeps ==
  ASSUME PluginInv, UpdatesAlone, NEW p \in PluginUser, RemoveFiles(p) \/ RemoveDir(p)
  PROVE  PluginInv' /\ SameRequests
<1>1. user[p].step \in {"remove", "remove_dir"} /\ UNCHANGED <<temp, kills>>
  BY DEF RemoveFiles, RemoveDir, PluginAt
<1>2. CASE UNCHANGED place /\ Forward(p, "failed")
  BY <1>1, <1>2, TearKeeps DEF PluginInv, Types
<1>3. CASE place' = Nothing /\ Forward(p, "done")
  <2>1. Good(place')
    BY <1>3, PluginAssumption DEF Good
  <2> QED BY <1>1, <1>3, <2>1, TearKeeps
<1>4. CASE /\ IsTree /\ Forward(p, "remove_dir")
           /\ \E keepEntry \in BOOLEAN :
                place' = [place EXCEPT !.entry = keepEntry /\ @, !.record = IF keepEntry THEN Nothing ELSE @,
                                       !.torn = TRUE]
  <2>1. PICK keepEntry \in BOOLEAN :
          place' = [place EXCEPT !.entry = keepEntry /\ @, !.record = IF keepEntry THEN Nothing ELSE @,
                                 !.torn = TRUE]
    BY <1>4
  <2>2. place \in Tree
    BY <1>4 DEF PluginInv, Types, IsTree
  <2>3. /\ place' \in Tree /\ place'.entry = (keepEntry /\ place.entry) /\ place'.torn = TRUE
        /\ place'.record \in {Nothing, place.record} /\ place'.code = place.code
    BY <2>1, <2>2 DEF Tree
  <2>4. Good(place) => Good(place')
    BY <2>2, <2>3 DEF Good, Tree
  <2> QED BY <1>1, <1>4, <2>3, <2>4, TearKeeps
<1> QED BY <1>2, <1>3, <1>4 DEF RemoveFiles, RemoveDir

(* A use runs what it has found. *)
LEMMA LoadKeeps ==
  ASSUME PluginInv, UpdatesAlone, NEW p \in PluginUser, Load(p)
  PROVE  PluginInv' /\ SameRequests
<1>1. /\ UserInv(p) /\ RunInv(p) /\ user[p].step = "load" /\ user[p].ran = Nothing
      /\ user[p].req.op = "use" /\ place' = place /\ UNCHANGED temp /\ kills' = kills
  BY DEF PluginInv, UserInv, PluginAt, Load
<1> DEFINE s == IF Works(place) THEN "done" ELSE "failed"
           ran == IF Works(place) THEN IF place = Link THEN Link ELSE place.code ELSE Nothing
           u == [user[p] EXCEPT !.step = s, !.ran = ran]
<1>2. /\ s \in {"done", "failed"} /\ ran \in Source \cup {Link, Nothing} /\ (ran # Nothing => s = "done")
      /\ ran \notin {Link, Nothing} => place \in Tree /\ ran = place.code
  BY DEF PluginInv, Types, Works, Tree
<1> HIDE DEF s, ran
<1>3. user[p] \in UserState /\ u \in UserState /\ user' = [user EXCEPT ![p] = u]
  BY <1>2 DEF PluginInv, Types, UserState, Steps, Load, s, ran
<1>4. /\ user' \in [PluginUser -> UserState] /\ \A q \in PluginUser \ {p} : user'[q] = user[q]
      /\ user'[p].step = s /\ user'[p].had = user[p].had /\ user'[p].req = user[p].req
      /\ user'[p].before = user[p].before /\ user'[p].ran = ran
  BY <1>3 DEF PluginInv, Types, UserState
<1>5. temp' \in [PluginUser -> TempState] /\ \A q \in PluginUser : temp'[q] = temp[q]
  BY <1>1, StaysIs DEF PluginInv
<1>6. Types'
  BY <1>1, <1>4, <1>5 DEF PluginInv, Types
<1>7. PlaceInv' /\ Whole(place)'
  BY <1>1, <1>4, SamePlace
<1>8. UserInv(p)' /\ UpdateInv(p)'
  BY <1>1, <1>2, <1>4, <1>5 DEF UserInv, UpdateInv, UpdateSteps, Over
<1>9. RunInv(p)'
  <2> SUFFICES ASSUME \A q \in PluginUser : ~Meddles(q), user[p].had, user[p].req.source # Nothing,
                      ran \notin {Link, Nothing}
               PROVE  ran = user[p].req.source
    <3>1. \A q \in PluginUser : Meddles(q)' <=> Meddles(q)
      BY <1>4 DEF Meddles
    <3> QED BY <1>2, <1>4, <3>1 DEF RunInv
  <2>1. ~Updating /\ ~Unrecorded
    BY DEF Updating, Unrecorded, Meddles
  <2>2. place \in Tree /\ ran = place.code /\ Good(place)
    BY <1>2, <2>1 DEF PluginInv, TreesInv, PlaceInv
  <2>3. place.record = user[p].req.source
    BY <1>1, <2>2, PluginAssumption DEF RunInv
  <2> QED BY <2>2, <2>3 DEF Good
<1>10. (Good(temp[p].fresh) /\ Whole(temp[p].fresh) /\ Good(temp[p].previous) /\ Whole(temp[p].previous))'
  BY <1>4, <1>5 DEF PluginInv, TreesInv, Good, Whole
<1> QED BY <1>1, <1>4, <1>5, <1>6, <1>7, <1>8, <1>9, <1>10, OneKeeps

LEMMA KillUserKeeps ==
  ASSUME PluginInv, UpdatesAlone, NEW p \in PluginUser, KillUser(p)
  PROVE  PluginInv' /\ SameRequests
<1>1. /\ UserInv(p) /\ user[p].ran = Nothing /\ user[p].step \notin {"begin", "unrecorded"} /\ Forward(p, "killed")
      /\ kills' \in 0..PluginKills /\ UNCHANGED <<place, temp>>
  BY PluginAssumption DEF PluginInv, UserInv, KillUser, Over, Types
<1>2. Moved(p, "killed")
  BY <1>1, ForwardIs DEF PluginInv, Steps
<1>3. UserInv(p)' /\ UpdateInv(p)'
  BY <1>1, <1>2 DEF UserInv, UpdateInv, Moved, UpdateSteps, Over
<1> QED BY <1>1, <1>3, GoOnKeeps DEF Steps

LEMMA PluginNextKeeps ==
  ASSUME PluginInv, UpdatesAlone, [PluginNext]_pluginVars
  PROVE  PluginInv' /\ SameRequests
<1>1. CASE UNCHANGED pluginVars
  <2>1. place' = place /\ temp' = temp /\ user' = user /\ kills' = kills
    BY <1>1 DEF pluginVars
  <2>2. SameRequests
    BY <2>1 DEF SameRequests
  <2>3. Types' /\ TreesInv'
    BY <2>1 DEF PluginInv, Types, TreesInv, PlaceInv, Good, Whole, Updating, Unrecorded
  <2>4. \A p \in PluginUser : (UserInv(p) /\ UpdateInv(p) /\ RunInv(p))'
    BY <2>1 DEF PluginInv, UserInv, UpdateInv, RunInv, Works, Wanted, Good, Meddles
  <2> QED BY <2>2, <2>3, <2>4 DEF PluginInv
<1>2. CASE PluginNext
  BY <1>2, BeginPluginKeeps, CloneKeeps, MoveAsideKeeps, PutInPlaceKeeps, UpdatesKeep, RemoveKeeps,
     LoadKeeps, KillUserKeeps
  DEF PluginNext
<1> QED BY <1>1, <1>2

LEMMA PluginInvSound == PluginInv => PluginSound
<1> SUFFICES ASSUME PluginInv PROVE PluginSound
  OBVIOUS
<1>1. IsTree => place \in Tree
  BY DEF PluginInv, Types, IsTree
<1>2. WholeCheckout /\ RecordTrue
  BY <1>1 DEF WholeCheckout, RecordTrue, PluginInv, TreesInv, PlaceInv, Good
<1>3. RunsDeclared
  BY DEF RunsDeclared, PluginInv, RunInv
<1> QED BY <1>2, <1>3 DEF PluginSound

LEMMA UpdatesAloneKeeps == PluginInv /\ UpdatesAlone /\ [PluginNext]_pluginVars => (PluginInv /\ UpdatesAlone)'
<1> SUFFICES ASSUME PluginInv, UpdatesAlone, [PluginNext]_pluginVars PROVE (PluginInv /\ UpdatesAlone)'
  OBVIOUS
<1>1. PluginInv' /\ SameRequests
  BY PluginNextKeeps
<1> QED BY <1>1 DEF SameRequests, UpdatesAlone, Meddles

LEMMA PluginKept == PluginSpec /\ UpdatesAlone => [](PluginInv /\ UpdatesAlone)
BY UpdatesAloneKeeps, PluginStarts, PTL DEF PluginSpec

(* However many processes install, link, use and update a plugin, fail or are killed: what is *)
(* in its directory is whole, is what its record says, and is what a project that runs it has *)
(* declared.  An update has to be the only change of what is in place.                        *)
THEOREM PluginIsSound == PluginSpec /\ UpdatesAlone => []PluginSound
BY PluginKept, PluginInvSound, PTL

(* Who has replaced nothing and updates nothing has nothing to keep. *)
LEMMA NothingToKeep ==
  ASSUME PluginInv, NEW p \in PluginUser,
         user[p].step \in {"begin", "clone", "aside", "remove", "remove_dir"}
  PROVE  ~user[p].had /\ ~Works(user[p].before)
<1>1. UserInv(p)
  BY DEF PluginInv
<1>2. ~user[p].had
  BY <1>1 DEF UserInv
<1>3. user[p].before = Nothing
  BY <1>1 DEF UserInv
<1> QED BY <1>2, <1>3 DEF Works

(* Where changes do not meet updates and removals, what is in place works. *)
LEMMA WorksUnlessGone ==
  ASSUME PluginInv, Apart, NEW p \in PluginUser, user[p].req.force,
         user[p].req.op \notin {"update", "uninstall"}, place # Nothing
  PROVE  Works(place)
<1>1. \A q \in PluginUser : user[q].req.op \notin {"update", "uninstall"}
  BY DEF Apart, Meddles
<1>2. Good(place) /\ (place \in Tree => ~place.torn)
  BY <1>1 DEF PluginInv, TreesInv, PlaceInv, Whole, Updating, Unrecorded
<1>3. place \in Tree \cup {Link}
  BY DEF PluginInv, Types
<1> QED BY <1>2, <1>3, PluginAssumption DEF Works, Good

LEMMA FailedPut ==
  ASSUME PluginInv, Apart, NEW p \in PluginUser, PutInPlace(p), user'[p].step = "failed",
         user[p].req.op # "use", user[p].had \/ Works(user[p].before)
  PROVE  Works(place)'
<1>1. UserInv(p) /\ user[p].step = "put" /\ user[p].req.op \in {"install", "link"} /\ user[p] \in UserState
  BY DEF PluginInv, UserInv, PutInPlace, PluginAt, Types
<1>2. user[p].before = Nothing
  BY <1>1 DEF UserInv
<1>3. user[p].had /\ user[p].req.force /\ Works(temp[p].previous)
  BY <1>1, <1>2 DEF UserInv, Works
<1>4. ~Installed(p) /\ ~Leave(p, "unrestored")
  BY <1>1 DEF Installed, Leave, Forward, PluginInv, Types, UserState
<1>5. place' = Restored(p)
  BY <1>4 DEF PutInPlace
<1>6. CASE place = Nothing
  BY <1>3, <1>5, <1>6 DEF Restored, Works
<1>7. CASE place # Nothing
  <2>1. Works(place) /\ place' = place
    BY <1>1, <1>3, <1>5, <1>7, WorksUnlessGone DEF Restored
  <2> QED BY <2>1 DEF Works
<1> QED BY <1>6, <1>7

LEMMA FailedUpdate ==
  ASSUME PluginInv, NEW p \in PluginUser, Update(p), user'[p].step = "failed",
         Works(user[p].before)
  PROVE  Works(place)'
<1>1. user[p].step \in UpdateSteps
  BY DEF Update, SetUrl, Fetch, Checkout, Record, FailUpdate, UndoUrl, UndoCheckout, PluginAt, UpdateSteps
<1>2. /\ UserInv(p) /\ UpdateInv(p) /\ user[p] \in UserState /\ place \in Tree /\ user[p].before \in Tree
  BY <1>1 DEF PluginInv, UserInv, UpdateInv, Types, UserState
<1>3. \A s \in Steps \ {"failed"} : ~Forward(p, s)
  BY <1>2 DEF Forward, PluginInv, Types, UserState
<1>4. UndoCheckout(p)
  BY <1>3 DEF Update, SetUrl, Fetch, Checkout, Record, FailUpdate, UndoUrl, Steps
<1>5. place' = Holds(place, user[p].before.code)
  BY <1>3, <1>4 DEF UndoCheckout, Steps
<1>6. user[p].before.code \in HasEntry /\ user[p].before.code \in Source
  BY <1>1, <1>2, PluginAssumption DEF UpdateInv, Good, Works, Tree
<1>7. place' \in Tree /\ place'.entry
  BY <1>2, <1>5, <1>6, HoldsIs
<1> QED BY <1>7, PluginAssumption DEF Works

(* Nobody changes the request of another process. *)
LEMMA OthersRest ==
  ASSUME Types, NEW p \in PluginUser, NEW q \in PluginUser \ {p},
         \/ BeginPlugin(q) \/ Clone(q) \/ MoveAside(q) \/ PutInPlace(q)
         \/ Update(q) \/ RemoveFiles(q) \/ RemoveDir(q) \/ Load(q) \/ KillUser(q)
  PROVE  user'[p] = user[p]
<1>1. ASSUME NEW u, user' = [user EXCEPT ![q] = u] PROVE user'[p] = user[p]
  BY <1>1 DEF Types
<1>2. \A s : Forward(q, s) => user'[p] = user[p]
  BY <1>1 DEF Forward
<1>3. \A s : Leave(q, s) => user'[p] = user[p]
  BY <1>2 DEF Leave
<1>4. Installed(q) => user'[p] = user[p]
  BY <1>3 DEF Installed
<1>5. StartInstall(q) => user'[p] = user[p]
  BY <1>2, <1>3 DEF StartInstall
<1>6. CASE BeginPlugin(q)
  BY <1>1, <1>2, <1>3, <1>5, <1>6 DEF BeginPlugin, Uninstall, EnsureInstalled, StartUpdate
<1>7. CASE Clone(q)
  BY <1>2, <1>3, <1>7 DEF Clone
<1>8. CASE MoveAside(q)
  BY <1>1, <1>2, <1>3, <1>8 DEF MoveAside
<1>9. CASE PutInPlace(q)
  BY <1>3, <1>4, <1>9 DEF PutInPlace
<1>10. CASE Update(q)
  BY <1>2, <1>10 DEF Update, SetUrl, Fetch, Checkout, Record, FailUpdate, UndoUrl, UndoCheckout
<1>11. CASE RemoveFiles(q) \/ RemoveDir(q) \/ KillUser(q)
  BY <1>2, <1>11 DEF RemoveFiles, RemoveDir, KillUser
<1>12. CASE Load(q)
  BY <1>1, <1>12 DEF Load
<1> QED BY <1>6, <1>7, <1>8, <1>9, <1>10, <1>11, <1>12

LEMMA ApartKeeps == PluginInv /\ Apart /\ [PluginNext]_pluginVars => (PluginInv /\ Apart)'
<1> SUFFICES ASSUME PluginInv, Apart, [PluginNext]_pluginVars PROVE (PluginInv /\ Apart)'
  OBVIOUS
<1>1. UpdatesAlone
  BY DEF Apart, UpdatesAlone
<1>2. PluginInv' /\ SameRequests
  BY <1>1, PluginNextKeeps
<1> QED BY <1>2 DEF SameRequests, Apart, Meddles

LEMMA FailureKeeps ==
  ASSUME PluginInv, Apart, PluginNext, NEW p \in PluginUser,
         user[p].step # "failed", user'[p].step = "failed", user[p].req.op # "use",
         user[p].had \/ Works(user[p].before)
  PROVE  Works(place)'
<1>1. Types /\ UserInv(p) /\ user[p] \in UserState
  BY DEF PluginInv, Types
<1>2. PICK q \in PluginUser : \/ BeginPlugin(q) \/ Clone(q) \/ MoveAside(q) \/ PutInPlace(q)
                              \/ Update(q) \/ RemoveFiles(q) \/ RemoveDir(q) \/ Load(q) \/ KillUser(q)
  BY DEF PluginNext
<1>3. q = p
  BY <1>1, <1>2, OthersRest
<1>4. CASE BeginPlugin(p) \/ Clone(p) \/ MoveAside(p) \/ RemoveFiles(p) \/ RemoveDir(p)
  BY <1>4, NothingToKeep DEF BeginPlugin, Clone, MoveAside, RemoveFiles, RemoveDir, PluginAt
<1>5. CASE PutInPlace(p)
  BY <1>5, FailedPut
<1>6. CASE Update(p)
  <2>1. user[p].step \in UpdateSteps
    BY <1>6 DEF Update, SetUrl, Fetch, Checkout, Record, FailUpdate, UndoUrl, UndoCheckout, PluginAt, UpdateSteps
  <2>2. ~user[p].had
    BY <1>1, <2>1 DEF UserInv
  <2> QED BY <1>6, <2>2, FailedUpdate
<1>7. CASE Load(p)
  BY <1>1, <1>7 DEF Load, PluginAt, UserInv
<1>8. CASE KillUser(p)
  BY <1>1, <1>8 DEF KillUser, Forward, Types, UserState
<1> QED BY <1>2, <1>3, <1>4, <1>5, <1>6, <1>7, <1>8

(* A forced install or link, or an update, that fails leaves a working plugin where there was *)
(* one, although others force theirs at the same time, fail or are killed.  An update or a    *)
(* removal has to be the only change of what is in place.                                     *)
THEOREM WhatWorkedIsKept == PluginSpec /\ Apart => KeptOnFailure
<1> DEFINE Kept == \A p \in PluginUser :
                     /\ user[p].step # "failed" /\ user'[p].step = "failed"
                     /\ user[p].req.op # "use"
                     /\ user[p].had \/ Works(user[p].before)
                     => Works(place)' \/ \E q \in PluginUser : Works(temp[q].previous)'
<1>1. PluginInv /\ Apart /\ [PluginNext]_pluginVars => [Kept]_pluginVars
  BY FailureKeeps
<1>2. PluginSpec /\ Apart => [][Kept]_pluginVars
  <2> HIDE DEF Kept
  <2> QED BY <1>1, ApartKeeps, PluginStarts, PTL DEF PluginSpec
<1> QED BY <1>2 DEF KeptOnFailure

(* The types, whoever changes what. *)
TypesInv == Types /\ \A p \in PluginUser : user[p].step \in UpdateSteps => user[p].before \in Tree

LEMMA PluginIdleKeeps == PluginIdle => PluginInv /\ UpdatesAlone /\ Apart
<1> SUFFICES ASSUME PluginIdle PROVE PluginInv /\ UpdatesAlone /\ Apart
  OBVIOUS
<1> DEFINE r == [op |-> "use", source |-> Nothing, force |-> FALSE]
           u == [Starting(r) EXCEPT !.step = "done"]
<1>1. r \in Request /\ r.op = "use"
  BY DEF Request
<1> HIDE DEF r
<1>2. /\ Starting(r) \in UserState /\ Starting(r).had = FALSE /\ Starting(r).before = Nothing
      /\ Starting(r).ran = Nothing /\ Starting(r).req = r
  BY <1>1 DEF Starting, UserState, Steps
<1>3. /\ u \in UserState /\ u.step = "done" /\ u.had = FALSE /\ u.before = Nothing /\ u.ran = Nothing /\ u.req = r
  <2> DEFINE v == Starting(r)
  <2>1. v \in UserState /\ v.had = FALSE /\ v.before = Nothing /\ v.ran = Nothing /\ v.req = r
    BY <1>2
  <2> HIDE DEF v
  <2>2. /\ [v EXCEPT !.step = "done"] \in UserState /\ [v EXCEPT !.step = "done"].step = "done"
        /\ [v EXCEPT !.step = "done"].had = FALSE /\ [v EXCEPT !.step = "done"].before = Nothing
        /\ [v EXCEPT !.step = "done"].ran = Nothing /\ [v EXCEPT !.step = "done"].req = r
    BY <2>1 DEF UserState, Steps
  <2> QED BY <2>2 DEF v
<1>4. user = [p \in PluginUser |-> u] /\ temp = [p \in PluginUser |-> NoTemp] /\ place = Nothing /\ kills = 0
  BY DEF PluginIdle, r
<1>5. NoTemp \in TempState /\ Nothing \notin Tree
  BY PluginAssumption DEF NoTemp, TempState
<1>6. Types
  BY <1>3, <1>4, <1>5, PluginAssumption DEF Types
<1>7. \A p \in PluginUser : /\ user[p].step = "done" /\ user[p].had = FALSE /\ user[p].before = Nothing
                            /\ user[p].ran = Nothing /\ temp[p].previous = Nothing /\ temp[p].fresh = Nothing
                            /\ user[p].req.op = "use"
  BY <1>1, <1>3, <1>4 DEF NoTemp
<1>8. TreesInv
  BY <1>4, <1>5, <1>7 DEF TreesInv, PlaceInv, Good, Whole
<1>9. ASSUME NEW p \in PluginUser PROVE UserInv(p) /\ UpdateInv(p) /\ RunInv(p)
  BY <1>7 DEF UserInv, UpdateInv, RunInv, UpdateSteps
<1> QED BY <1>6, <1>7, <1>8, <1>9 DEF PluginInv, UpdatesAlone, Apart

LEMMA TypesStart == PluginInv => TypesInv
BY DEF PluginInv, TypesInv, UserInv, Types, UserState

LEMMA TypesGoOn ==
  ASSUME TypesInv, NEW p \in PluginUser, NEW s \in Steps, Moved(p, s),
         s \in UpdateSteps => user[p].step \in UpdateSteps,
         temp' \in [PluginUser -> TempState], place' \in Tree \cup {Link, Nothing}, kills' \in 0..PluginKills
  PROVE  TypesInv'
BY DEF TypesInv, Types, Moved

LEMMA LeaveTypes ==
  ASSUME TypesInv, NEW p \in PluginUser, NEW s \in {"done", "failed", "unrestored", "load"}, Leave(p, s),
         place' \in Tree \cup {Link, Nothing}, kills' \in 0..PluginKills
  PROVE  TypesInv'
<1>1. s \in Steps /\ s \notin UpdateSteps
  BY DEF Steps, UpdateSteps
<1> QED BY <1>1, LeaveIs, TypesGoOn DEF TypesInv

LEMMA ForwardTypes ==
  ASSUME TypesInv, NEW p \in PluginUser, NEW s \in Steps, Forward(p, s),
         s \in UpdateSteps => user[p].step \in UpdateSteps,
         temp' \in [PluginUser -> TempState], place' \in Tree \cup {Link, Nothing}, kills' \in 0..PluginKills
  PROVE  TypesInv'
BY ForwardIs, TypesGoOn DEF TypesInv

LEMMA BeginTypes == ASSUME TypesInv, NEW p \in PluginUser, BeginPlugin(p) PROVE TypesInv'
<1>1. /\ Types /\ kills' = kills /\ kills \in 0..PluginKills /\ place \in Tree \cup {Link, Nothing}
      /\ temp \in [PluginUser -> TempState] /\ user[p] \in UserState
  BY DEF TypesInv, Types, BeginPlugin
<1>2. ASSUME StartInstall(p), place' = place PROVE TypesInv'
  BY <1>1, <1>2, LeaveTypes, ForwardTypes DEF StartInstall, Steps, UpdateSteps
<1>3. ASSUME Uninstall(p) PROVE TypesInv'
  BY <1>1, <1>3, LeaveTypes, ForwardTypes DEF Uninstall, Steps, UpdateSteps
<1>4. ASSUME EnsureInstalled(p), place' = place PROVE TypesInv'
  <2>1. CASE user' = [user EXCEPT ![p].step = "load", ![p].had = TRUE] /\ UNCHANGED temp
    <3>1. user' = [user EXCEPT ![p] = [user[p] EXCEPT !.step = "load", !.had = TRUE]]
      BY <2>1
    <3>2. [user[p] EXCEPT !.step = "load", !.had = TRUE] \in UserState
      BY <1>1 DEF UserState, Steps
    <3>3. user' \in [PluginUser -> UserState] /\ (\A q \in PluginUser : q # p => user'[q] = user[q])
          /\ user'[p].step = "load"
      BY <1>1, <3>1, <3>2 DEF Types, UserState
    <3> QED BY <1>1, <1>4, <2>1, <3>3 DEF TypesInv, Types, UpdateSteps
  <2> QED BY <1>1, <1>2, <1>4, <2>1, LeaveTypes DEF EnsureInstalled
<1>5. ASSUME StartUpdate(p), place' = place PROVE TypesInv'
  <2>1. CASE place \in Tree /\ user' = [user EXCEPT ![p].step = "set_url", ![p].before = place] /\ UNCHANGED temp
    <3>1. user' = [user EXCEPT ![p] = [user[p] EXCEPT !.step = "set_url", !.before = place]]
      BY <2>1
    <3>2. [user[p] EXCEPT !.step = "set_url", !.before = place] \in UserState
      BY <1>1, <2>1 DEF UserState, Steps
    <3>3. user' \in [PluginUser -> UserState] /\ (\A q \in PluginUser : q # p => user'[q] = user[q])
          /\ user'[p].before = place
      BY <1>1, <3>1, <3>2 DEF Types, UserState
    <3> QED BY <1>1, <1>5, <2>1, <3>3 DEF TypesInv, Types
  <2> QED BY <1>1, <1>5, <2>1, LeaveTypes DEF StartUpdate
<1>6. ASSUME user[p].req.op = "link", place' = place,
             IF MayReplace(p) THEN Forward(p, "aside") /\ UNCHANGED temp ELSE Leave(p, "failed")
      PROVE  TypesInv'
  BY <1>1, <1>6, LeaveTypes, ForwardTypes DEF Steps, UpdateSteps
<1> QED BY <1>2, <1>3, <1>4, <1>5, <1>6 DEF BeginPlugin

LEMMA CloneTypes == ASSUME TypesInv, NEW p \in PluginUser, Clone(p) PROVE TypesInv'
<1>1. /\ Types /\ kills' = kills /\ place' = place /\ kills \in 0..PluginKills /\ place \in Tree \cup {Link, Nothing}
      /\ temp \in [PluginUser -> TempState] /\ user[p] \in UserState
  BY DEF TypesInv, Types, Clone
<1>2. CASE Leave(p, "failed")
  BY <1>1, <1>2, LeaveTypes
<1>3. ASSUME NEW s \in HasEntry, NEW record \in {s, Nothing}, temp' = [temp EXCEPT ![p].fresh = Cloned(s, record)],
             Forward(p, "aside")
      PROVE  TypesInv'
  <2>1. Cloned(s, record) \in Tree
    BY PluginAssumption DEF Cloned, Tree, Source
  <2>2. [temp[p] EXCEPT !.fresh = Cloned(s, record)] \in TempState
    BY <1>1, <2>1 DEF TempState
  <2>3. temp' \in [PluginUser -> TempState]
    BY <1>1, <1>3, <2>2
  <2> QED BY <1>1, <1>3, <2>3, ForwardTypes DEF Steps, UpdateSteps
<1> QED BY <1>2, <1>3 DEF Clone

LEMMA MoveAsideTypes == ASSUME TypesInv, NEW p \in PluginUser, MoveAside(p) PROVE TypesInv'
<1>1. /\ Types /\ kills' = kills /\ kills \in 0..PluginKills /\ place \in Tree \cup {Link, Nothing}
      /\ temp \in [PluginUser -> TempState] /\ user[p] \in UserState
  BY DEF TypesInv, Types, MoveAside
<1>2. CASE Leave(p, "failed") /\ UNCHANGED place
  BY <1>1, <1>2, LeaveTypes
<1>3. CASE /\ temp' = [temp EXCEPT ![p].previous = place] /\ place' = Nothing /\ place # Nothing
           /\ user' = [user EXCEPT ![p].step = "put", ![p].had = Works(place)]
  <2>1. [temp[p] EXCEPT !.previous = place] \in TempState
    BY <1>1 DEF TempState
  <2>2. temp' \in [PluginUser -> TempState]
    BY <1>1, <1>3, <2>1
  <2>3. Works(place) \in BOOLEAN
    BY <1>1 DEF Works, Tree
  <2>4. [user[p] EXCEPT !.step = "put", !.had = Works(place)] \in UserState
    BY <1>1, <2>3 DEF UserState, Steps
  <2>5. user' = [user EXCEPT ![p] = [user[p] EXCEPT !.step = "put", !.had = Works(place)]]
    BY <1>3
  <2>6. user' \in [PluginUser -> UserState] /\ (\A q \in PluginUser : q # p => user'[q] = user[q])
        /\ user'[p].step = "put"
    BY <1>1, <2>4, <2>5 DEF Types, UserState
  <2> QED BY <1>1, <1>3, <2>2, <2>6 DEF TypesInv, Types, UpdateSteps
<1>4. CASE UNCHANGED <<place, temp>> /\ Forward(p, "put")
  BY <1>1, <1>4, ForwardTypes DEF Steps, UpdateSteps
<1> QED BY <1>2, <1>3, <1>4 DEF MoveAside

LEMMA PutInPlaceTypes == ASSUME TypesInv, NEW p \in PluginUser, PutInPlace(p) PROVE TypesInv'
<1>1. /\ kills' = kills /\ kills \in 0..PluginKills /\ place' \in Tree \cup {Link, Nothing}
  <2>1. place \in Tree \cup {Link, Nothing} /\ temp[p] \in TempState /\ kills \in 0..PluginKills
    BY DEF TypesInv, Types
  <2> QED BY <2>1 DEF PutInPlace, Restored, TempState
<1>2. PICK s \in {"done", "failed", "unrestored", "load"} : Leave(p, s)
  BY DEF PutInPlace, Installed
<1> QED BY <1>1, <1>2, LeaveTypes

LEMMA UpdateTypes == ASSUME TypesInv, NEW p \in PluginUser, Update(p) PROVE TypesInv'
<1>1. /\ Types /\ kills' = kills /\ temp' = temp /\ kills \in 0..PluginKills /\ place \in Tree \cup {Link, Nothing}
      /\ temp \in [PluginUser -> TempState] /\ user[p] \in UserState /\ user[p].req \in Request
      /\ user[p].step \in UpdateSteps /\ user[p].before \in Tree
  <2>1. user[p].step \in UpdateSteps
    BY DEF Update, SetUrl, Fetch, Checkout, Record, FailUpdate, UndoUrl, UndoCheckout, PluginAt, UpdateSteps
  <2> QED BY <2>1 DEF TypesInv, Types, Update, UserState
<1>2. IsTree => place \in Tree
  BY <1>1 DEF IsTree
<1>3. IsTree => Wanted(p) \in Source
  BY <1>1, <1>2 DEF Request, Wanted, Tree, Source
<1>4. \A s \in Steps : Forward(p, s) /\ place' \in Tree \cup {Link, Nothing} => TypesInv'
  BY <1>1, ForwardTypes
<1>5. CASE SetUrl(p)
  <2>1. [place EXCEPT !.url = Wanted(p).url] \in Tree
    BY <1>2, <1>3, <1>5 DEF SetUrl, Tree, Source
  <2> QED BY <1>4, <1>5, <2>1 DEF SetUrl, Steps
<1>6. CASE Fetch(p)
  <2>1. [url |-> place.url, ref |-> Wanted(p).ref] \in Source
    BY <1>2, <1>3, <1>6 DEF Fetch, Tree, Source
  <2>2. [place EXCEPT !.fetched = [url |-> place.url, ref |-> Wanted(p).ref]] \in Tree
    BY <1>2, <1>6, <2>1 DEF Fetch, Tree
  <2> QED BY <1>4, <1>6, <2>2 DEF Fetch, Steps
<1>7. CASE Checkout(p)
  <2>1. place.fetched \in Source /\ place \in Tree
    BY <1>2, <1>7 DEF Checkout, Tree
  <2>2. Holds(place, place.fetched) \in Tree
    BY <2>1, HoldsIs
  <2> QED BY <1>4, <1>7, <2>2 DEF Checkout, Steps
<1>8. CASE Record(p)
  <2>1. \A r \in {Wanted(p), place.record, Nothing} : [place EXCEPT !.record = r] \in Tree
    BY <1>2, <1>3, <1>8 DEF Record, Tree
  <2> QED BY <1>4, <1>8, <2>1 DEF Record, Steps
<1>9. CASE FailUpdate(p)
  BY <1>1, <1>4, <1>9 DEF FailUpdate, Steps
<1>10. CASE UndoUrl(p)
  <2>1. IsTree => [place EXCEPT !.url = user[p].before.url] \in Tree
    BY <1>1, <1>2 DEF Tree
  <2> QED BY <1>1, <1>4, <1>10, <2>1 DEF UndoUrl, Steps
<1>11. CASE UndoCheckout(p)
  <2>1. IsTree => Holds(place, user[p].before.code) \in Tree
    BY <1>1, <1>2, HoldsIs DEF Tree
  <2> QED BY <1>1, <1>4, <1>11, <2>1 DEF UndoCheckout, Steps
<1> QED BY <1>5, <1>6, <1>7, <1>8, <1>9, <1>10, <1>11 DEF Update

LEMMA RestTypes ==
  ASSUME TypesInv, NEW p \in PluginUser, RemoveFiles(p) \/ RemoveDir(p) \/ Load(p) \/ KillUser(p)
  PROVE  TypesInv'
<1>1. /\ Types /\ kills \in 0..PluginKills /\ place \in Tree \cup {Link, Nothing}
      /\ temp \in [PluginUser -> TempState] /\ user[p] \in UserState
  BY DEF TypesInv, Types
<1>2. IsTree => place \in Tree
  BY <1>1 DEF IsTree
<1>3. \A s \in Steps \ UpdateSteps : Forward(p, s) /\ temp' = temp /\ kills' \in 0..PluginKills
                                     /\ place' \in Tree \cup {Link, Nothing} => TypesInv'
  BY <1>1, ForwardTypes
<1>4. {"remove_dir", "done", "failed", "killed"} \subseteq Steps \ UpdateSteps
  BY DEF Steps, UpdateSteps
<1>5. CASE RemoveFiles(p)
  <2>1. ASSUME IsTree, NEW e \in BOOLEAN, NEW r \in Source \cup {Nothing}
        PROVE  [place EXCEPT !.entry = e, !.record = r, !.torn = TRUE] \in Tree
    BY <1>2, <2>1 DEF Tree
  <2>2. ASSUME IsTree, NEW k \in BOOLEAN
        PROVE  [place EXCEPT !.entry = k /\ @, !.record = IF k THEN Nothing ELSE @, !.torn = TRUE] \in Tree
    <3>1. (k /\ place.entry) \in BOOLEAN /\ (IF k THEN Nothing ELSE place.record) \in Source \cup {Nothing}
      BY <1>2, <2>2 DEF Tree
    <3> QED BY <2>1, <2>2, <3>1
  <2>3. place' \in Tree \cup {Link, Nothing}
    BY <1>1, <1>5, <2>2 DEF RemoveFiles
  <2> QED BY <1>1, <1>3, <1>4, <1>5, <2>3 DEF RemoveFiles
<1>6. CASE RemoveDir(p)
  BY <1>1, <1>3, <1>4, <1>6 DEF RemoveDir
<1>7. CASE Load(p)
  <2> DEFINE s == IF Works(place) THEN "done" ELSE "failed"
             r == IF Works(place) THEN IF place = Link THEN Link ELSE place.code ELSE Nothing
  <2>1. s \in Steps \ UpdateSteps /\ r \in Source \cup {Link, Nothing}
    BY <1>1, <1>4 DEF Works, Tree
  <2>2. user' = [user EXCEPT ![p] = [user[p] EXCEPT !.step = s, !.ran = r]]
    BY <1>7 DEF Load
  <2> HIDE DEF s, r
  <2>3. [user[p] EXCEPT !.step = s, !.ran = r] \in UserState
    BY <1>1, <2>1 DEF UserState
  <2>4. user' \in [PluginUser -> UserState] /\ (\A q \in PluginUser : q # p => user'[q] = user[q])
        /\ user'[p].step = s
    BY <1>1, <2>2, <2>3 DEF Types, UserState
  <2> QED BY <1>1, <1>7, <2>1, <2>4 DEF TypesInv, Types, Load
<1>8. CASE KillUser(p)
  <2>1. kills' \in 0..PluginKills
    BY <1>1, <1>8, PluginAssumption DEF KillUser
  <2> QED BY <1>1, <1>3, <1>4, <1>8, <2>1 DEF KillUser
<1> QED BY <1>5, <1>6, <1>7, <1>8

LEMMA PluginNextTypes == TypesInv /\ [PluginNext]_pluginVars => TypesInv'
<1>1. TypesInv /\ UNCHANGED pluginVars => TypesInv'
  BY DEF TypesInv, Types, pluginVars
<1> QED BY <1>1, BeginTypes, CloneTypes, MoveAsideTypes, PutInPlaceTypes, UpdateTypes, RestTypes DEF PluginNext

LEMMA TypesInvTypes == TypesInv => PluginTypeOK
BY DEF TypesInv, Types, PluginTypeOK, TempState, UserState

----------------------------------------------------------------------------
(* The three parts together: each moves on its own. *)

AllInv == AgeInv /\ LocalInv /\ TypesInv

LEMMA EachStarts == Init => AgeInv /\ LocalInv /\ PluginInv
<1>1. AgeInit \/ AgeIdle => AgeInv
  BY AgeStarts
<1>2. LocalInit \/ LocalIdle => LocalInv
  BY LocalStarts
<1>3. PluginInit \/ PluginIdle => PluginInv
  BY PluginStarts, PluginIdleKeeps
<1> QED BY <1>1, <1>2, <1>3 DEF Init

LEMMA EachMoves == [Next]_vars => [AgeNext]_ageVars /\ [LocalNext]_localVars /\ [PluginNext]_pluginVars
BY DEF Next, vars

LEMMA AllStarts == Init => AllInv
BY EachStarts, TypesStart DEF AllInv

LEMMA AllKeeps == AllInv /\ [Next]_vars => AllInv'
<1> SUFFICES ASSUME AllInv, [Next]_vars PROVE AllInv'
  OBVIOUS
<1>1. [AgeNext]_ageVars /\ [LocalNext]_localVars /\ [PluginNext]_pluginVars
  BY EachMoves
<1>2. AgeInv'
  BY <1>1, AgeNextKeeps DEF AllInv
<1>3. LocalInv'
  BY <1>1, LocalNextKeeps DEF AllInv
<1>4. TypesInv'
  BY <1>1, PluginNextTypes DEF AllInv
<1> QED BY <1>2, <1>3, <1>4 DEF AllInv

LEMMA AllHolds == Spec => []AllInv
BY AllStarts, AllKeeps, PTL DEF Spec

(* An age value is decrypted once for everybody who waits for it, a cell is taken only while  *)
(* somebody fills it, the user is asked by one task at a time and not again for what was      *)
(* right, and Enpass keeps only what has opened the vault.                                    *)
THEOREM UnlocksOnce == Spec => []UnlockedOnce
<1>1. AllInv => UnlockedOnce
  BY AgeInvTypes, AgeInvCells, AgeInvOpened, LocalInvTypes, LocalInvAsked, TypesInvTypes
     DEF AllInv, UnlockedOnce, TypeOK
<1> QED BY <1>1, AllHolds, PTL

(* What was encrypted is decrypted with the key that it was encrypted with, in this process   *)
(* and the next, and the secrets of one batch come from one state of the vault or the file.   *)
THEOREM ReadsAreSound == Spec => []ReadsSound
<1>1. AllInv => ReadsSound
  BY LocalInvReads DEF AllInv
<1> QED BY <1>1, AllHolds, PTL

(* The kernel gets its driver back from a task that ends, and a plugin that worked is there   *)
(* after a request that fails, when an update or a removal is the only change of it.          *)
THEOREM PutsBack == Spec /\ Apart => PutBack
<1> DEFINE Driver == usb.claimed \in Task /\ task[usb.claimed].detached /\ usb'.claimed = None
                       /\ ~(\A t \in Task : task'[t] = Idle) => usb'.driver
           Kept == \A p \in PluginUser :
                     /\ user[p].step # "failed" /\ user'[p].step = "failed"
                     /\ user[p].req.op # "use"
                     /\ user[p].had \/ Works(user[p].before)
                     => Works(place)' \/ \E q \in PluginUser : Works(temp[q].previous)'
<1>1. AllInv /\ [Next]_vars => [Driver]_localVars
  <2> SUFFICES ASSUME AllInv, LocalNext PROVE Driver
    BY EachMoves
  <2> QED BY DriverPutBack DEF AllInv
<1>2. PluginInv /\ Apart /\ [Next]_vars => (PluginInv /\ Apart)'
  BY EachMoves, ApartKeeps
<1>3. PluginInv /\ Apart /\ [Next]_vars => [Kept]_pluginVars
  BY EachMoves, FailureKeeps
<1>4. Spec => [][Driver]_localVars
  <2> HIDE DEF Driver
  <2> QED BY <1>1, AllHolds, PTL DEF Spec
<1>5. Spec /\ Apart => [][Kept]_pluginVars
  <2>1. Init => PluginInv
    BY EachStarts
  <2> HIDE DEF Kept
  <2> QED BY <1>2, <1>3, <2>1, PTL DEF Spec
<1> QED BY <1>4, <1>5 DEF PutBack, DriverRestored, KeptOnFailure

(* What is in the directory of a plugin is whole, is what its record says, and is what the    *)
(* project that runs it has declared, when an update is the only change of it.                *)
THEOREM PluginsAreSound == Spec /\ UpdatesAlone => []PluginSound
<1>1. PluginInv /\ UpdatesAlone /\ [Next]_vars => (PluginInv /\ UpdatesAlone)'
  BY EachMoves, UpdatesAloneKeeps
<1>2. Init => PluginInv
  BY EachStarts
<1> QED BY <1>1, <1>2, PluginInvSound, PTL DEF Spec
===============================================================================
