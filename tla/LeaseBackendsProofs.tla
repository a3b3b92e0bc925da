-------------------------- MODULE LeaseBackendsProofs --------------------------
(***************************************************************************)
(* Proofs about LeaseBackends, for all twelve services, any tasks, times,  *)
(* grants and tokens: what fnox reports of a lease is true at its service, *)
(* and tokens that tasks share are the newest that work.                   *)
(***************************************************************************)
EXTENDS LeaseBackends, TLAPS

Grant == [expires : Nat, alive : BOOLEAN, mints : {FALSE}]
Lease == [n : Nat, expires : Nat \cup {None}, said : BOOLEAN, known : BOOLEAN]
CachedToken == [n : Nat, expires : Nat, refresh : BOOLEAN]
Printed == [token : Nat, till : Nat]

\* A call is under way: it ends when the client's timeout passes.
Waiting == {"wait", "granted", "ok", "gone", "refused", "error"}
\* Places of the eleven services that have a call to create a lease, and of GitHub OAuth.
Calling == {"slot", "command", "exchange", "policies", "send"} \cup Waiting
Refreshing == {"keyring", "refresh", "device", "poll", "write"}
Places == {"idle", "missing"} \cup Calling \cup Refreshing

TaskState ==
  [at : Places, op : {None, "create", "revoke"}, asked : Nat, sent : Nat, n : Nat, tok : Nat,
   slot : Nat, bad : SUBSET Nat, lease : Lease \cup CachedToken \cup {None}, mints : {FALSE},
   interval : Nat, deadline : Nat]

BackendTypes ==
  /\ kind \in Kind /\ conf \in Flags(kind) /\ now \in 0..MaxTime
  /\ grants \in Seq(Grant) /\ task \in [Task -> TaskState]
  /\ leases \subseteq Lease /\ dead \subseteq Lease
  /\ token \in Nat /\ slots \in Seq(Printed \cup {None}) /\ Len(slots) > 0
  /\ rejected \subseteq Nat /\ keyring \in CachedToken \cup {None} /\ usable \subseteq DOMAIN grants
  /\ lost \subseteq Nat

(* Where a task is says which service it uses, and what it does there. *)
ShapeOK(r) ==
  /\ r.at \in Calling => kind # "github-oauth"
  /\ r.at \in Refreshing => kind = "github-oauth"
  /\ r.at \in {"granted", "policies"} => r.op = "create"
  /\ r.at \in {"ok", "gone", "error"} => r.op = "revoke"
  /\ r.at \in Calling => r.op \in {"create", "revoke"}
  /\ r.op = "revoke" /\ r.at \in Calling => kind \notin Unrevocable
  /\ r.at \in {"exchange", "policies"} => ~conf.command
  /\ r.at = "missing" => ~Prerequisites

(* A call takes no longer than the client's timeout. *)
TimeOK(r) == r.at \in Waiting => r.sent <= now /\ now <= r.sent + HttpTimeout

(* When the service ends a grant, as the task that asked for it knows. *)
EndsOK(r, ends) ==
  /\ kind = "cloudflare" => ends = r.deadline
  /\ kind = "gitlab" => ends = GitlabExpiry(r.sent + r.asked)
  /\ kind # "cloudflare" => r.sent <= ends

(* What a task holds was granted; what its revoke has ended is dead. *)
GrantOK(r) ==
  /\ r.n \in 0..Len(grants)
  /\ r.at = "granted" => r.n \in DOMAIN grants /\ EndsOK(r, grants[r.n].expires)
  /\ r.op = "revoke" /\ r.at \in Calling => r.lease \in Lease /\ r.lease.n \in DOMAIN grants
  /\ r.at \in {"ok", "gone"} /\ r.lease.known => ~grants[r.lease.n].alive
  /\ r.at = "write" => /\ r.lease \in CachedToken /\ r.lease.n \in DOMAIN grants
                       /\ r.lease.expires = grants[r.lease.n].expires
  /\ r.at = "refresh" => r.tok \in DOMAIN grants

(* The slot that a task has cloned, and the token it took from it, hold nothing that was *)
(* rejected before the task began.                                                       *)
TokenOK(r) ==
  /\ r.slot \in 0..Len(slots)
  /\ r.bad \subseteq rejected
  /\ r.at = "command" => /\ r.slot > 0
                         /\ slots[r.slot] # None => slots[r.slot].token \notin r.bad
  /\ r.at \in Calling => r.tok <= token
  /\ r.at \in {"send"} \cup Waiting => r.tok \notin r.bad
  /\ r.at = "refused" => r.tok < token

TaskOK(r) == ShapeOK(r) /\ TimeOK(r) /\ GrantOK(r) /\ TokenOK(r)

(* The last slot is as new as the last rejection; only replaced tokens are rejected. *)
SlotsOK ==
  /\ \A i \in DOMAIN slots : slots[i] # None => slots[i].token <= token
  /\ slots[Len(slots)] # None => slots[Len(slots)].token \notin rejected
  /\ \A k \in rejected : k < token
  /\ ~conf.command => rejected = {}

LeaseOK(l) ==
  /\ l.n \in DOMAIN grants
  /\ l.said /\ l.expires # None =>
       l.expires <= grants[l.n].expires + (IF kind \in Relative THEN HttpTimeout ELSE 0)

DeadOK(l) == l.n \in DOMAIN grants /\ (l.known => ~grants[l.n].alive)

Writing(t) == task[t].at = "write"

(* The refresh token of the keyring works or was lost, or the task that used it has the newer *)
(* one in its hands; the one in a task's hands works, and nobody else has it.                 *)
KeyringOK ==
  /\ keyring # None => /\ keyring.n \in DOMAIN grants /\ keyring.expires = grants[keyring.n].expires
                       /\ keyring.refresh => \/ keyring.n \in usable \cup lost
                                             \/ \E t \in Task : Writing(t) /\ task[t].tok = keyring.n
  /\ \A t \in Task : Writing(t) =>
       /\ task[t].lease.refresh => task[t].lease.n \in usable
       /\ keyring # None => keyring.n # task[t].lease.n
       /\ \A u \in Task \ {t} : Writing(u) => task[u].lease.n # task[t].lease.n
       /\ \A u \in Task : task[u].at = "refresh" => task[u].tok # task[t].lease.n

BackendInv ==
  /\ BackendTypes /\ SlotsOK /\ KeyringOK
  /\ \A t \in Task : TaskOK(task[t])
  /\ \A l \in leases : LeaseOK(l)
  /\ \A l \in dead : DeadOK(l)

LEMMA GitlabLater ==
  ASSUME NEW e \in Nat
  PROVE  GitlabExpiry(e) \in Nat /\ e <= GitlabExpiry(e)
<1>1. Day \in Nat /\ Day > 0
  BY LeaseBackendsAssumption
<1>2. (e \div Day + 1) * Day \in Nat /\ e < (e \div Day + 1) * Day
  BY <1>1
<1> QED BY <1>2 DEF GitlabExpiry

LEMMA IdleOK ==
  ASSUME BackendTypes
  PROVE  Idle \in TaskState /\ TaskOK(Idle) /\ Idle.at = "idle"
<1>1. Idle \in TaskState /\ Idle.at = "idle"
  BY DEF Idle, TaskState, Places
<1>2. ShapeOK(Idle) /\ TimeOK(Idle)
  BY DEF Idle, ShapeOK, TimeOK, Calling, Waiting, Refreshing
<1>3. GrantOK(Idle)
  BY DEF Idle, GrantOK, Calling, Waiting, BackendTypes
<1>4. TokenOK(Idle)
  BY DEF Idle, TokenOK, Calling, Waiting, BackendTypes
<1> QED BY <1>1, <1>2, <1>3, <1>4 DEF TaskOK

LEMMA BackendStarts == Init => BackendInv
<1> SUFFICES ASSUME Init PROVE BackendInv
  OBVIOUS
<1>1. Idle \in TaskState
  BY DEF Idle, TaskState, Places
<1>2. BackendTypes
  BY <1>1, LeaseBackendsAssumption DEF Init, BackendTypes
<1>3. \A t \in Task : task[t] = Idle
  BY DEF Init
<1>4. SlotsOK
  BY DEF Init, SlotsOK
<1>5. KeyringOK
  BY <1>3 DEF Init, KeyringOK, Writing, Idle
<1> QED BY <1>2, <1>3, <1>4, <1>5, IdleOK DEF Init, BackendInv

--------------------------------------------------------------------------------
(* Steps that change one task, and what is handed out. *)

Fixed == UNCHANGED <<kind, conf, now, grants, token, slots, rejected, keyring, usable, lost>>

LEMMA OneTask ==
  ASSUME BackendInv, NEW t \in Task, NEW r \in TaskState, Set(t, r), TaskOK(r), Fixed,
         leases' \subseteq Lease, \A l \in leases' \ leases : LeaseOK(l),
         dead' \subseteq Lease, \A l \in dead' \ dead : DeadOK(l),
         r.at # "write", task[t].at # "write",
         r.at = "refresh" => task[t].at = "refresh" \/ (keyring # None /\ r.tok = keyring.n),
         r.at = "refresh" /\ task[t].at = "refresh" => r.tok = task[t].tok
  PROVE  BackendInv'
<1>1. /\ task' \in [Task -> TaskState] /\ task'[t] = r
      /\ \A u \in Task \ {t} : task'[u] = task[u]
  BY DEF BackendInv, BackendTypes, Set
<1>2. BackendTypes'
  BY <1>1 DEF BackendInv, BackendTypes, Fixed, Flags
<1>3. SlotsOK'
  BY DEF BackendInv, SlotsOK, Fixed
<1>4. \A x : TaskOK(x)' <=> TaskOK(x)
  BY DEF TaskOK, ShapeOK, TimeOK, GrantOK, TokenOK, EndsOK, Prerequisites, CloudflareReady,
         GithubAppReady, VaultReady, GitlabReady, Oauth2Ready, TailscaleReady, Fixed
<1>5. \A u \in Task : TaskOK(task[u])'
  <2> SUFFICES ASSUME NEW u \in Task PROVE TaskOK(task'[u])
    BY <1>4
  <2> QED BY <1>1 DEF BackendInv
<1>6. \A l \in leases' : LeaseOK(l)'
  BY DEF BackendInv, LeaseOK, Fixed
<1>7. \A l \in dead' : DeadOK(l)'
  BY DEF BackendInv, DeadOK, Fixed
<1>8. KeyringOK'
  <2>1. \A u \in Task : Writing(u)' <=> Writing(u)
    BY <1>1 DEF Writing
  <2>2. \A u \in Task : Writing(u) => task'[u] = task[u]
    BY <1>1 DEF Writing
  <2>3. KeyringOK
    BY DEF BackendInv
  <2>4. ASSUME NEW u \in Task, NEW v \in Task, Writing(u), task'[v].at = "refresh"
        PROVE  task'[v].tok # task[u].lease.n
    BY <1>1, <2>3, <2>4 DEF KeyringOK
  <2> QED BY <2>1, <2>2, <2>3, <2>4 DEF KeyringOK, Fixed
<1> QED BY <1>2, <1>3, <1>5, <1>6, <1>7, <1>8 DEF BackendInv

LEMMA EndTask ==
  ASSUME BackendInv, NEW t \in Task, Goto(t, "idle"), Fixed, task[t].at # "write",
         leases' \subseteq Lease, \A l \in leases' \ leases : LeaseOK(l),
         dead' \subseteq Lease, \A l \in dead' \ dead : DeadOK(l)
  PROVE  BackendInv'
<1>1. Idle \in TaskState /\ TaskOK(Idle) /\ Idle.at = "idle"
  BY IdleOK DEF BackendInv
<1>2. Set(t, Idle)
  BY DEF Goto
<1> QED BY <1>1, <1>2, OneTask

(* Only Vault takes its token from a command. *)
LEMMA CommandIsVault ==
  ASSUME BackendInv, conf.command
  PROVE  kind = "vault"
BY DEF BackendInv, BackendTypes, Flags

(* A command begins with what is rejected by then, and with no token. *)
LEMMA BeginKeeps ==
  ASSUME BackendInv, NEW t \in Task, task[t].at = "idle", Fixed, leases' = leases, dead' = dead,
         NEW op \in {"create", "revoke"},
         NEW l \in Auth(op) \cup {"missing", "idle"} \cup (IF kind = "github-app" THEN {"send"} ELSE {}),
         l = "missing" => op = "create" /\ Missing,
         NEW r, Set(t, IF l = "idle" THEN Idle ELSE r),
         l # "idle" => /\ r \in TaskState /\ r.at = l /\ r.op = op /\ r.bad = rejected
                       /\ r.tok = 0 /\ r.n = 0 /\ r.slot = 0,
         op = "revoke" /\ l # "idle" => r.lease \in Lease /\ r.lease.n \in DOMAIN grants /\ kind \notin Unrevocable
  PROVE  BackendInv'
<1>1. CASE l = "idle"
  BY <1>1, EndTask DEF BackendInv, BackendTypes, Goto
<1>2. CASE l # "idle"
  <2>1. /\ l \in {"missing", "slot", "exchange", "keyring", "policies", "send"}
        /\ l \in {"exchange", "policies", "send"} => ~conf.command
        /\ l \in Calling => kind # "github-oauth"
        /\ l \in Refreshing => kind = "github-oauth"
        /\ l = "policies" => op = "create"
    BY <1>2, CommandIsVault DEF Auth, Calling, Waiting, Refreshing
  <2>5. /\ r \in TaskState /\ r.at = l /\ r.op = op /\ r.bad = rejected
        /\ r.tok = 0 /\ r.n = 0 /\ r.slot = 0
    BY <1>2
  <2>6. l = "missing" => ~Prerequisites
    BY DEF Missing, FromEnv, Filtered, Prerequisites, CloudflareReady, GithubAppReady, VaultReady,
           GitlabReady, Oauth2Ready, TailscaleReady
  <2>7. ShapeOK(r) /\ TimeOK(r)
    BY <1>2, <2>1, <2>5, <2>6 DEF ShapeOK, TimeOK, Waiting, Calling, Refreshing
  <2>8. GrantOK(r)
    BY <1>2, <2>1, <2>5 DEF GrantOK, BackendInv, BackendTypes
  <2>9. TokenOK(r)
    BY <2>1, <2>5 DEF TokenOK, Waiting, BackendInv, BackendTypes, SlotsOK
  <2>10. Set(t, r) /\ r.at \notin {"write", "refresh"}
    BY <1>2, <2>1, <2>5
  <2> QED BY <2>5, <2>7, <2>8, <2>9, <2>10, OneTask DEF TaskOK, BackendInv, BackendTypes
<1> QED BY <1>1, <1>2

LEMMA BeginCreateKeeps ==
  ASSUME BackendInv, NEW t \in Task, BeginCreate(t)
  PROVE  BackendInv'
<1> DEFINE asked(d) == IF kind \in Asks THEN d ELSE 0
           till(d) == IF kind = "cloudflare" THEN now + d ELSE 0
           r(d) == [Idle EXCEPT !.op = "create", !.asked = asked(d), !.deadline = till(d), !.bad = rejected]
<1>1. /\ task[t].at = "idle" /\ Fixed /\ leases' = leases /\ dead' = dead
  BY DEF BeginCreate, At, Fixed
<1>2. PICK d \in Durations :
        \E l \in CASE ~conf.valid -> {"idle"}
                   [] conf.valid /\ Missing -> {"missing"}
                   [] kind = "kubernetes" /\ d < MinDuration -> {"idle"}
                   [] OTHER -> Auth("create") :
           Set(t, IF l = "idle" THEN Idle ELSE [r(d) EXCEPT !.at = l])
  BY DEF BeginCreate
<1>3. asked(d) \in Nat /\ till(d) \in Nat
  BY LeaseBackendsAssumption DEF BackendInv, BackendTypes
<1>4. PICK l \in Auth("create") \cup {"missing", "idle"} :
        /\ Set(t, IF l = "idle" THEN Idle ELSE [r(d) EXCEPT !.at = l])
        /\ l = "missing" => Missing
  <2>1. "missing" \notin Auth("create")
    BY DEF Auth
  <2>2. CASE ~conf.valid
    BY <1>2, <2>2
  <2>3. CASE conf.valid /\ Missing
    BY <1>2, <2>3
  <2>4. CASE conf.valid /\ ~Missing /\ kind = "kubernetes" /\ d < MinDuration
    BY <1>2, <2>4
  <2>5. CASE conf.valid /\ ~Missing /\ ~(kind = "kubernetes" /\ d < MinDuration)
    <3>1. \E l \in Auth("create") : Set(t, IF l = "idle" THEN Idle ELSE [r(d) EXCEPT !.at = l])
      BY <1>2, <2>5
    <3> DEFINE Goes(l) == Set(t, IF l = "idle" THEN Idle ELSE [r(d) EXCEPT !.at = l])
    <3>2. \E l \in Auth("create") : Goes(l)
      BY <3>1
    <3> HIDE DEF Goes
    <3>3. \E l \in Auth("create") \cup {"missing", "idle"} : Goes(l) /\ (l = "missing" => Missing)
      BY <2>1, <3>2
    <3> QED BY <3>3 DEF Goes
  <2> QED BY <2>2, <2>3, <2>4, <2>5
<1>5. l \in Places
  BY DEF Auth, Places, Calling, Refreshing, Waiting
<1> DEFINE x == [r(d) EXCEPT !.at = l]
<1>6. /\ x \in TaskState /\ x.at = l /\ x.op = "create" /\ x.bad = rejected
      /\ x.tok = 0 /\ x.n = 0 /\ x.slot = 0
  BY <1>3, <1>5 DEF Idle, TaskState, BackendInv, BackendTypes
<1> HIDE DEF x
<1>7. Set(t, IF l = "idle" THEN Idle ELSE x)
  BY <1>4 DEF x
<1> QED BY <1>1, <1>4, <1>6, <1>7, BeginKeeps

LEMMA BeginRevokeKeeps ==
  ASSUME BackendInv, NEW t \in Task, BeginRevoke(t)
  PROVE  BackendInv'
<1>1. /\ task[t].at = "idle" /\ Fixed /\ leases' = leases /\ dead' = dead
  BY DEF BeginRevoke, At, Fixed
<1>2. PICK lease \in leases, creds \in BOOLEAN :
        LET r == [Idle EXCEPT !.op = "revoke", !.lease = lease, !.bad = rejected]
            done == kind \in Unrevocable \/ ~conf.revokes \/ (kind \in ByCredentials /\ ~creds)
        IN  \E l \in CASE done -> {"idle"}
                        [] ~done /\ kind = "github-app" -> {"send"}
                        [] OTHER -> Auth("revoke") :
                Set(t, IF l = "idle" THEN Idle ELSE [r EXCEPT !.at = l])
  BY DEF BeginRevoke
<1> DEFINE r == [Idle EXCEPT !.op = "revoke", !.lease = lease, !.bad = rejected]
           done == kind \in Unrevocable \/ ~conf.revokes \/ (kind \in ByCredentials /\ ~creds)
<1>3. lease \in Lease /\ lease.n \in DOMAIN grants
  BY DEF BackendInv, BackendTypes, LeaseOK
<1>4. CASE done
  <2>1. Goto(t, "idle")
    BY <1>2, <1>4 DEF Goto
  <2> QED BY <1>1, <2>1, EndTask DEF BackendInv, BackendTypes
<1>5. CASE ~done
  <2>1. PICK l \in Auth("revoke") \cup (IF kind = "github-app" THEN {"send"} ELSE {}) :
          Set(t, IF l = "idle" THEN Idle ELSE [r EXCEPT !.at = l])
    <3>1. CASE kind = "github-app"
      BY <1>2, <1>5, <3>1
    <3>2. CASE kind # "github-app"
      BY <1>2, <1>5, <3>2
    <3> QED BY <3>1, <3>2
  <2>2. kind \notin Unrevocable /\ l # "missing"
    BY <1>5, <2>1 DEF Auth
  <2> DEFINE x == [r EXCEPT !.at = l]
  <2>3. l \in Places
    BY DEF Auth, Places, Calling, Refreshing, Waiting
  <2>4. /\ x \in TaskState /\ x.at = l /\ x.op = "revoke" /\ x.bad = rejected
        /\ x.tok = 0 /\ x.n = 0 /\ x.slot = 0 /\ x.lease = lease
    BY <1>3, <2>3 DEF Idle, TaskState, BackendInv, BackendTypes
  <2> HIDE DEF x
  <2>5. Set(t, IF l = "idle" THEN Idle ELSE x)
    BY <2>1 DEF x
  <2> QED BY <1>1, <1>3, <2>2, <2>4, <2>5, BeginKeeps
<1> QED BY <1>4, <1>5

(* A task goes on to another place. *)
LEMMA GotoIs ==
  ASSUME BackendInv, NEW t \in Task, NEW l \in Places \ {"idle"}, Goto(t, l)
  PROVE  \E r \in TaskState :
           /\ Set(t, r) /\ r.at = l /\ r.op = task[t].op /\ r.asked = task[t].asked /\ r.sent = task[t].sent
           /\ r.n = task[t].n /\ r.tok = task[t].tok /\ r.slot = task[t].slot /\ r.bad = task[t].bad
           /\ r.lease = task[t].lease
<1> DEFINE r == [task[t] EXCEPT !.at = l]
<1>1. task[t] \in TaskState
  BY DEF BackendInv, BackendTypes
<1>2. Set(t, r)
  BY DEF Goto
<1>3. /\ r \in TaskState /\ r.at = l /\ r.op = task[t].op /\ r.asked = task[t].asked /\ r.sent = task[t].sent
      /\ r.n = task[t].n /\ r.tok = task[t].tok /\ r.slot = task[t].slot /\ r.bad = task[t].bad
      /\ r.lease = task[t].lease
  BY <1>1 DEF TaskState
<1> QED BY <1>2, <1>3

LEMMA TaskTypes ==
  ASSUME BackendInv, NEW t \in Task
  PROVE  task[t] \in TaskState /\ TaskOK(task[t]) /\ leases \subseteq Lease /\ dead \subseteq Lease
BY DEF BackendInv, BackendTypes

LEMMA Numbers ==
  ASSUME BackendInv
  PROVE  /\ now \in Nat /\ HttpTimeout \in Nat /\ now + DeviceTtl \in Nat /\ now + CacheTtl \in Nat
         /\ \A ttl \in Ttls : ttl \in Nat /\ now + ttl \in Nat
<1>1. /\ MaxTime \in Nat /\ HttpTimeout \in Nat /\ DeviceTtl \in Nat /\ CacheTtl \in Nat
      /\ \A ttl \in Ttls : ttl \in Nat
  BY LeaseBackendsAssumption
<1>2. now \in 0..MaxTime
  BY DEF BackendInv, BackendTypes
<1> QED BY ONLY <1>1, <1>2

LEMMA ExchangeKeeps ==
  ASSUME BackendInv, NEW t \in Task, ExchangeOauthClient(t)
  PROVE  BackendInv'
<1>1. /\ task[t].at = "exchange" /\ Fixed /\ leases' = leases /\ dead' = dead
      /\ task[t] \in TaskState /\ TaskOK(task[t]) /\ leases \subseteq Lease /\ dead \subseteq Lease
  BY TaskTypes DEF ExchangeOauthClient, At, Fixed
<1>2. CASE Goto(t, "idle")
  BY <1>1, <1>2, EndTask
<1>3. CASE Goto(t, "send")
  <2>1. PICK r \in TaskState :
           /\ Set(t, r) /\ r.at = "send" /\ r.op = task[t].op /\ r.asked = task[t].asked /\ r.sent = task[t].sent
           /\ r.n = task[t].n /\ r.tok = task[t].tok /\ r.slot = task[t].slot /\ r.bad = task[t].bad
           /\ r.lease = task[t].lease
    BY <1>3, GotoIs DEF Places, Calling
  <2>2. ShapeOK(r) /\ TimeOK(r) /\ GrantOK(r)
    BY <1>1, <2>1 DEF TaskOK, ShapeOK, TimeOK, GrantOK, Waiting, Calling, Refreshing
  <2>3. rejected = {}
    BY <1>1 DEF TaskOK, ShapeOK, BackendInv, SlotsOK
  <2>4. TokenOK(r)
    BY <1>1, <2>1, <2>3 DEF TaskOK, TokenOK, Calling, Waiting
  <2> QED BY <1>1, <2>1, <2>2, <2>4, OneTask DEF TaskOK
<1> QED BY <1>2, <1>3 DEF ExchangeOauthClient

(* What the child inherits has nothing about tokens. *)
LEMMA PoliciesKeep ==
  ASSUME BackendInv, NEW t \in Task, FetchParentPolicies(t)
  PROVE  BackendInv'
<1>1. /\ task[t].at = "policies" /\ Fixed /\ leases' = leases /\ dead' = dead
      /\ task[t] \in TaskState /\ TaskOK(task[t]) /\ leases \subseteq Lease /\ dead \subseteq Lease
  BY TaskTypes DEF FetchParentPolicies, At, Fixed
<1>2. CASE Goto(t, "idle")
  BY <1>1, <1>2, EndTask
<1> DEFINE r == [task[t] EXCEPT !.at = "send", !.mints = FALSE]
<1>3. CASE Set(t, r)
  <2>1. /\ r \in TaskState /\ r.at = "send" /\ r.op = task[t].op /\ r.n = task[t].n /\ r.tok = task[t].tok
        /\ r.slot = task[t].slot /\ r.bad = task[t].bad /\ r.lease = task[t].lease
    BY <1>1 DEF TaskState, Places, Calling
  <2> HIDE DEF r
  <2>2. ShapeOK(r) /\ TimeOK(r) /\ GrantOK(r)
    BY <1>1, <2>1 DEF TaskOK, ShapeOK, TimeOK, GrantOK, Waiting, Calling, Refreshing
  <2>3. rejected = {}
    BY <1>1 DEF TaskOK, ShapeOK, BackendInv, SlotsOK
  <2>4. TokenOK(r)
    BY <1>1, <2>1, <2>3 DEF TaskOK, TokenOK, Calling, Waiting
  <2> QED BY <1>1, <1>3, <2>1, <2>2, <2>4, OneTask DEF TaskOK
<1>4. ASSUME NEW parent, Set(t, [task[t] EXCEPT !.at = "send", !.mints = "api tokens" \in parent \ {"api tokens"}])
      PROVE  Set(t, r)
  <2>1. ("api tokens" \in parent \ {"api tokens"}) = FALSE
    OBVIOUS
  <2> QED BY <1>4, <2>1, Zenon
<1> HIDE DEF r
<1> QED BY <1>2, <1>3, <1>4 DEF FetchParentPolicies

(* The last slot holds nothing that was rejected. *)
LEMMA CloneSlotKeeps ==
  ASSUME BackendInv, NEW t \in Task, CloneSlot(t)
  PROVE  BackendInv'
<1>1. /\ task[t].at = "slot" /\ Fixed /\ leases' = leases /\ dead' = dead
      /\ task[t] \in TaskState /\ TaskOK(task[t]) /\ leases \subseteq Lease /\ dead \subseteq Lease
  BY TaskTypes DEF CloneSlot, At, Fixed
<1> DEFINE r == [task[t] EXCEPT !.at = "command", !.slot = Len(slots)]
<1>2. Set(t, r)
  BY DEF CloneSlot
<1>3. Len(slots) \in Nat /\ Len(slots) > 0
  BY DEF BackendInv, BackendTypes
<1>4. /\ r \in TaskState /\ r.at = "command" /\ r.op = task[t].op /\ r.n = task[t].n /\ r.tok = task[t].tok
      /\ r.slot = Len(slots) /\ r.bad = task[t].bad /\ r.lease = task[t].lease
  BY <1>1, <1>3 DEF TaskState, Places, Calling
<1> HIDE DEF r
<1>5. ShapeOK(r) /\ TimeOK(r) /\ GrantOK(r)
  BY <1>1, <1>4 DEF TaskOK, ShapeOK, TimeOK, GrantOK, Waiting, Calling, Refreshing
<1>6. TokenOK(r)
  BY <1>1, <1>3, <1>4 DEF TaskOK, TokenOK, Calling, Waiting, BackendInv, SlotsOK
<1> QED BY <1>1, <1>2, <1>4, <1>5, <1>6, OneTask DEF TaskOK

LEMMA SendKeeps ==
  ASSUME BackendInv, NEW t \in Task, Send(t)
  PROVE  BackendInv'
<1>1. /\ task[t].at = "send" /\ Fixed /\ leases' = leases /\ dead' = dead /\ now \in Nat /\ HttpTimeout \in Nat
      /\ task[t] \in TaskState /\ TaskOK(task[t]) /\ leases \subseteq Lease /\ dead \subseteq Lease
  <2>1. task[t].at = "send" /\ Fixed /\ leases' = leases /\ dead' = dead
    BY DEF Send, At, Fixed
  <2>2. task[t] \in TaskState /\ TaskOK(task[t]) /\ now \in Nat
    BY TaskTypes, Numbers
  <2>3. leases \subseteq Lease /\ dead \subseteq Lease
    BY DEF BackendInv, BackendTypes
  <2>4. HttpTimeout \in Nat
    BY LeaseBackendsAssumption
  <2> QED BY <2>1, <2>2, <2>3, <2>4
<1> DEFINE r == [task[t] EXCEPT !.at = "wait", !.sent = now]
<1>2. Set(t, r)
  BY DEF Send
<1>3. /\ r \in TaskState /\ r.at = "wait" /\ r.op = task[t].op /\ r.n = task[t].n /\ r.tok = task[t].tok
      /\ r.slot = task[t].slot /\ r.bad = task[t].bad /\ r.lease = task[t].lease /\ r.sent = now
  BY <1>1 DEF TaskState, Places, Calling, Waiting
<1> HIDE DEF r
<1>4. ShapeOK(r) /\ TimeOK(r) /\ GrantOK(r)
  BY <1>1, <1>3 DEF TaskOK, ShapeOK, TimeOK, GrantOK, Waiting, Calling, Refreshing
<1>5. TokenOK(r)
  BY <1>1, <1>3 DEF TaskOK, TokenOK, Calling, Waiting
<1> QED BY <1>1, <1>2, <1>3, <1>4, <1>5, OneTask DEF TaskOK

LEMMA EndsKeep ==
  ASSUME BackendInv, NEW t \in Task, Timeout(t) \/ ReportMissing(t)
  PROVE  BackendInv'
<1>1. /\ task[t].at # "write" /\ Fixed /\ leases' = leases /\ dead' = dead /\ Goto(t, "idle")
      /\ leases \subseteq Lease /\ dead \subseteq Lease
  BY TaskTypes DEF Timeout, ReportMissing, At, Fixed
<1> QED BY <1>1, EndTask

(* Only what the service has ended is reported as revoked. *)
LEMMA RevokedKeeps ==
  ASSUME BackendInv, NEW t \in Task, Revoked(t)
  PROVE  BackendInv'
<1>1. /\ task[t].op = "revoke" /\ task[t].at \in {"ok", "gone", "error"} /\ Fixed /\ leases' = leases
      /\ task[t] \in TaskState /\ TaskOK(task[t]) /\ leases \subseteq Lease /\ dead \subseteq Lease
      /\ Goto(t, "idle")
  BY TaskTypes DEF Revoked, Fixed
<1>2. CASE dead' = dead
  BY <1>1, <1>2, EndTask
<1>3. CASE task[t].at \in RevokedBy /\ dead' = dead \cup {task[t].lease}
  <2>1. kind \notin Unrevocable /\ kind \in Kinds
    BY <1>1, LeaseBackendsAssumption
    DEF TaskOK, ShapeOK, Calling, Waiting, BackendInv, BackendTypes
  <2>2. RevokedBy \subseteq {"ok", "gone"}
    BY <2>1 DEF RevokedBy, Unrevocable, Kinds, CloudflareRevoked, GitlabRevoked, TailscaleRevoked,
                GithubAppRevoked, Oauth2Revoked, VaultRevoked, CommandRevoked
  <2>3. task[t].lease \in Lease /\ DeadOK(task[t].lease)
    BY <1>1, <1>3, <2>2 DEF TaskOK, GrantOK, DeadOK, Calling, Waiting
  <2> QED BY <1>1, <1>3, <2>3, EndTask
<1> QED BY <1>2, <1>3 DEF Revoked

(* The expiry that a backend records, against the end that the service knows. *)
LEMMA RecordedSound ==
  ASSUME BackendInv, NEW t \in Task, task[t].at = "granted", NEW said \in BOOLEAN,
         kind = "kubernetes" => said
  PROVE  LET ends == grants[task[t].n].expires
             e == Recorded(t, ends, said)
         IN  /\ task[t].n \in DOMAIN grants
             /\ e \in Nat \cup {None}
             /\ said /\ e # None => e <= ends + (IF kind \in Relative THEN HttpTimeout ELSE 0)
<1> DEFINE ends == grants[task[t].n].expires
<1>1. task[t] \in TaskState /\ TaskOK(task[t])
  BY TaskTypes
<1>2. task[t].n \in DOMAIN grants /\ EndsOK(task[t], ends)
  BY <1>1 DEF TaskOK, GrantOK
<1>3. ends \in Nat
  <2>1. grants[task[t].n] \in Grant
    BY <1>2 DEF BackendInv, BackendTypes
  <2> QED BY <2>1 DEF Grant
<1>4. task[t].sent \in Nat /\ task[t].asked \in Nat /\ task[t].deadline \in Nat /\ now \in Nat /\ {Hour, HttpTimeout} \subseteq Nat
  BY <1>1, LeaseBackendsAssumption DEF TaskState, BackendInv, BackendTypes
<1>5. (kind # "cloudflare" => task[t].sent <= ends) /\ now <= task[t].sent + HttpTimeout /\ task[t].sent <= now
  BY <1>1, <1>2 DEF TaskOK, TimeOK, Waiting, EndsOK
<1>6. kind \in Kinds \ {"github-oauth"}
  BY <1>1, LeaseBackendsAssumption DEF TaskOK, ShapeOK, Calling, Waiting, BackendInv, BackendTypes
<1>7. kind = "cloudflare" => ends = task[t].deadline
  BY <1>2 DEF EndsOK
<1>8. kind = "gitlab" => task[t].sent + task[t].asked <= ends
  BY <1>2, <1>4, GitlabLater DEF EndsOK
<1> HIDE DEF ends
<1> DEFINE e == Recorded(t, ends, said)
           Right == /\ e \in Nat \cup {None}
                    /\ said /\ e # None => e <= ends + (IF kind \in Relative THEN HttpTimeout ELSE 0)
<1> SUFFICES Right
  BY <1>2 DEF ends
<1> HIDE DEF e
<1>9. CASE kind \in {"aws-sts", "gcp-iam", "azure-token", "command"}
  <2>1. e = IF said THEN ends ELSE None
    BY <1>9 DEF e, Recorded, AwsSts, GcpIam, AzureToken, Command
  <2> QED BY <1>3, <1>4, <1>9, <2>1 DEF Relative
<1>10. CASE kind \in {"kubernetes", "tailscale", "github-app"}
  <2>1. e = IF said THEN ends ELSE IF kind = "tailscale" THEN now + task[t].asked ELSE now + Hour
    BY <1>10 DEF e, Recorded, Kubernetes, Tailscale, GithubApp
  <2> QED BY <1>3, <1>4, <1>10, <2>1 DEF Relative
<1>11. CASE kind \in {"cloudflare", "gitlab"}
  <2>1. e = IF kind = "cloudflare" THEN task[t].deadline ELSE task[t].sent + task[t].asked
    BY <1>11 DEF e, Recorded, Cloudflare, Gitlab
  <2> QED BY <1>3, <1>4, <1>7, <1>8, <1>11, <2>1 DEF Relative
<1>12. CASE kind \in {"oauth2", "vault"}
  <2>1. e = IF said THEN now + (ends - task[t].sent)
            ELSE IF kind = "oauth2" THEN now + task[t].asked ELSE None
    BY <1>12 DEF e, Recorded, Oauth2, Vault
  <2>2. CASE said
    <3>1. e = now + (ends - task[t].sent)
      BY <2>1, <2>2
    <3>2. e \in Nat /\ e <= ends + HttpTimeout
      BY <1>3, <1>4, <1>5, <3>1
    <3> QED BY <1>12, <3>2 DEF Relative
  <2>3. CASE ~said
    BY <1>4, <2>1, <2>3
  <2> QED BY <2>2, <2>3
<1> QED BY <1>6, <1>9, <1>10, <1>11, <1>12 DEF Kinds

LEMMA GrantedKeeps ==
  ASSUME BackendInv, NEW t \in Task, Granted(t)
  PROVE  BackendInv'
<1>1. /\ task[t].at = "granted" /\ Fixed /\ dead' = dead /\ Goto(t, "idle")
      /\ task[t] \in TaskState /\ leases \subseteq Lease /\ dead \subseteq Lease
  BY TaskTypes DEF Granted, At, Fixed
<1>2. CASE leases' = leases
  BY <1>1, <1>2, EndTask
<1> DEFINE e(said) == Recorded(t, grants[task[t].n].expires, said)
<1>3. CASE \E said \in (IF kind = "kubernetes" THEN {TRUE} ELSE BOOLEAN), id \in BOOLEAN :
             leases' = leases \cup {[n |-> task[t].n, expires |-> e(said), said |-> said, known |-> id]}
  <2>1. PICK said \in (IF kind = "kubernetes" THEN {TRUE} ELSE BOOLEAN), id \in BOOLEAN :
             leases' = leases \cup {[n |-> task[t].n, expires |-> e(said), said |-> said, known |-> id]}
    BY <1>3
  <2> DEFINE l == [n |-> task[t].n, expires |-> e(said), said |-> said, known |-> id]
  <2>2. said \in BOOLEAN /\ (kind = "kubernetes" => said)
    OBVIOUS
  <2>3. /\ task[t].n \in DOMAIN grants
        /\ e(said) \in Nat \cup {None}
        /\ said /\ e(said) # None =>
             e(said) <= grants[task[t].n].expires + (IF kind \in Relative THEN HttpTimeout ELSE 0)
    BY <1>1, <2>2, RecordedSound
  <2> HIDE DEF e
  <2>4. l \in Lease
    BY <1>1, <2>2, <2>3 DEF Lease, TaskState
  <2>5. l.n = task[t].n /\ l.expires = e(said) /\ l.said = said
    OBVIOUS
  <2>6. LeaseOK(l)
    BY <2>3, <2>5 DEF LeaseOK
  <2>7. leases' = leases \cup {l}
    BY <2>1
  <2> HIDE DEF l
  <2> QED BY <1>1, <2>4, <2>6, <2>7, EndTask
<1>4. (IF kind \in {"vault", "command"} THEN BOOLEAN ELSE {TRUE}) \subseteq BOOLEAN
  OBVIOUS
<1> QED BY <1>2, <1>3, <1>4 DEF Granted

LEMMA LoadTokenKeeps ==
  ASSUME BackendInv, NEW t \in Task, LoadToken(t)
  PROVE  BackendInv'
<1>1. /\ task[t].at = "keyring" /\ Fixed /\ dead' = dead
      /\ task[t] \in TaskState /\ TaskOK(task[t]) /\ leases \subseteq Lease /\ dead \subseteq Lease
  BY TaskTypes DEF LoadToken, At, Fixed
<1>2. CASE leases' = leases /\ Goto(t, "idle")
  BY <1>1, <1>2, EndTask
<1>3. CASE keyring # None /\ leases' = leases \cup {LeaseOf(keyring)} /\ Goto(t, "idle")
  <2>1. keyring \in CachedToken /\ keyring.n \in DOMAIN grants /\ keyring.expires = grants[keyring.n].expires
    BY <1>3 DEF BackendInv, BackendTypes, KeyringOK
  <2>2. /\ LeaseOf(keyring) \in Lease /\ LeaseOf(keyring).n = keyring.n
        /\ LeaseOf(keyring).expires = keyring.expires
    BY <2>1 DEF LeaseOf, Lease, CachedToken
  <2>3. kind \notin Relative /\ keyring.expires \in Nat
    BY <1>1, <2>1 DEF TaskOK, ShapeOK, Refreshing, Relative, CachedToken
  <2>4. LeaseOK(LeaseOf(keyring))
    BY <2>1, <2>2, <2>3 DEF LeaseOK
  <2> QED BY <1>1, <1>3, <2>2, <2>4, EndTask
<1>4. CASE leases' = leases /\ Goto(t, "device")
  <2>1. PICK r \in TaskState :
           /\ Set(t, r) /\ r.at = "device" /\ r.op = task[t].op /\ r.asked = task[t].asked /\ r.sent = task[t].sent
           /\ r.n = task[t].n /\ r.tok = task[t].tok /\ r.slot = task[t].slot /\ r.bad = task[t].bad
           /\ r.lease = task[t].lease
    BY <1>4, GotoIs DEF Places, Refreshing
  <2>2. TaskOK(r)
    BY <1>1, <2>1 DEF TaskOK, ShapeOK, TimeOK, GrantOK, TokenOK, Waiting, Calling, Refreshing
  <2> QED BY <1>1, <1>4, <2>1, <2>2, OneTask
<1> DEFINE r == [task[t] EXCEPT !.at = "refresh", !.tok = keyring.n]
<1>5. CASE leases' = leases /\ keyring # None /\ Set(t, r)
  <2>1. keyring \in CachedToken /\ keyring.n \in DOMAIN grants
    BY <1>5 DEF BackendInv, BackendTypes, KeyringOK
  <2>2. keyring.n \in Nat
    BY <2>1 DEF CachedToken
  <2>3. /\ r \in TaskState /\ r.at = "refresh" /\ r.op = task[t].op /\ r.n = task[t].n
        /\ r.tok = keyring.n /\ r.slot = task[t].slot /\ r.bad = task[t].bad
        /\ r.lease = task[t].lease
    BY <1>1, <2>2 DEF TaskState, Places, Refreshing
  <2> HIDE DEF r
  <2>4. TaskOK(r)
    BY <1>1, <2>1, <2>3 DEF TaskOK, ShapeOK, TimeOK, GrantOK, TokenOK, Waiting, Calling, Refreshing
  <2> QED BY <1>1, <1>5, <2>3, <2>4, OneTask
<1> HIDE DEF r
<1> QED BY <1>2, <1>3, <1>4, <1>5 DEF LoadToken, r

LEMMA CreateDeviceCodeKeeps ==
  ASSUME BackendInv, NEW t \in Task, CreateDeviceCode(t)
  PROVE  BackendInv'
<1>1. /\ task[t].at = "device" /\ Fixed /\ dead' = dead /\ leases' = leases
      /\ task[t] \in TaskState /\ TaskOK(task[t]) /\ leases \subseteq Lease /\ dead \subseteq Lease
  BY TaskTypes DEF CreateDeviceCode, At, Fixed
<1>2. CASE Goto(t, "idle")
  BY <1>1, <1>2, EndTask
<1> DEFINE r == [task[t] EXCEPT !.at = "poll", !.sent = now, !.interval = 1, !.deadline = now + DeviceTtl]
<1>3. CASE Set(t, r)
  <2>1. now \in Nat /\ now + DeviceTtl \in Nat
    BY Numbers
  <2>2. /\ r \in TaskState /\ r.at = "poll" /\ r.op = task[t].op /\ r.n = task[t].n
        /\ r.tok = task[t].tok /\ r.slot = task[t].slot /\ r.bad = task[t].bad
        /\ r.lease = task[t].lease
    BY <1>1, <2>1 DEF TaskState, Places, Refreshing
  <2> HIDE DEF r
  <2>3. TaskOK(r)
    BY <1>1, <2>2 DEF TaskOK, ShapeOK, TimeOK, GrantOK, TokenOK, Waiting, Calling, Refreshing
  <2> QED BY <1>1, <1>3, <2>2, <2>3, OneTask
<1> HIDE DEF r
<1> QED BY <1>2, <1>3 DEF CreateDeviceCode, r

--------------------------------------------------------------------------------
(* Steps that change the tokens of Vault. *)

(* What the cache holds may be replaced by what was not rejected. *)
LEMMA TokensMove ==
  ASSUME BackendInv, UNCHANGED <<kind, conf, now, grants, keyring, usable, lost>>, leases' = leases, dead' = dead,
         token' \in Nat, token <= token', slots' \in Seq(Printed \cup {None}), Len(slots) <= Len(slots'), rejected \subseteq rejected',
         \A i \in 1..Len(slots) : slots'[i] = slots[i] \/ (slots'[i] # None => slots'[i].token \notin rejected)
  PROVE  /\ \A x \in TaskState : TaskOK(x) => TaskOK(x)'
         /\ \A l \in leases' : LeaseOK(l)'
         /\ \A l \in dead' : DeadOK(l)'
<1>1. ASSUME NEW x \in TaskState, TaskOK(x) PROVE TaskOK(x)'
  <2>1. ShapeOK(x)' /\ TimeOK(x)' /\ GrantOK(x)'
    BY <1>1 DEF TaskOK, ShapeOK, TimeOK, GrantOK, EndsOK, Prerequisites, CloudflareReady,
                GithubAppReady, VaultReady, GitlabReady, Oauth2Ready, TailscaleReady
  <2>2. /\ x.slot \in Nat /\ x.tok \in Nat /\ token \in Nat /\ token' \in Nat /\ Len(slots) \in Nat
        /\ Len(slots') \in Nat /\ x.bad \subseteq rejected
    BY <1>1 DEF BackendInv, BackendTypes, TaskState, TaskOK, TokenOK
  <2>3. x.at = "command" =>
          x.slot > 0 /\ (slots'[x.slot] # None => slots'[x.slot].token \notin x.bad)
    BY <1>1, <2>2 DEF TaskOK, TokenOK
  <2>4. TokenOK(x)'
    BY <1>1, <2>2, <2>3 DEF TaskOK, TokenOK
  <2> QED BY <2>1, <2>4 DEF TaskOK
<1>2. \A l \in leases' : LeaseOK(l)'
  BY DEF BackendInv, LeaseOK
<1>3. \A l \in dead' : DeadOK(l)'
  BY DEF BackendInv, DeadOK
<1> QED BY <1>1, <1>2, <1>3

(* One task does so. *)
LEMMA TokenTask ==
  ASSUME BackendInv, SlotsOK', NEW t \in Task, NEW r \in TaskState, Set(t, r), TaskOK(r)',
         UNCHANGED <<kind, conf, now, grants, keyring, usable, lost, token>>, leases' = leases, dead' = dead,
         slots' \in Seq(Printed \cup {None}), Len(slots) <= Len(slots'),
         rejected' \subseteq Nat, rejected \subseteq rejected',
         \A i \in 1..Len(slots) : slots'[i] = slots[i] \/ (slots'[i] # None => slots'[i].token \notin rejected),
         r.at \notin {"write", "refresh"}, task[t].at # "write"
  PROVE  BackendInv'
<1>1. /\ task' \in [Task -> TaskState] /\ task'[t] = r
      /\ \A u \in Task \ {t} : task'[u] = task[u]
  BY DEF BackendInv, BackendTypes, Set
<1>2. BackendTypes'
  <2>1. BackendTypes
    BY DEF BackendInv
  <2>2. conf' \in Flags(kind)' /\ kind' \in Kind
    BY <2>1 DEF BackendTypes, Flags
  <2>3. Len(slots') > 0
    BY <2>1 DEF BackendTypes
  <2> QED BY <1>1, <2>1, <2>2, <2>3 DEF BackendTypes
<1>3. /\ \A x \in TaskState : TaskOK(x) => TaskOK(x)'
      /\ \A l \in leases' : LeaseOK(l)'
      /\ \A l \in dead' : DeadOK(l)'
  <2>1. token' \in Nat /\ token <= token'
    BY DEF BackendInv, BackendTypes
  <2> QED BY <2>1, TokensMove
<1>4. \A u \in Task : TaskOK(task[u])'
  <2> SUFFICES ASSUME NEW u \in Task, u # t PROVE TaskOK(task[u])'
    BY <1>1
  <2>1. task'[u] = task[u] /\ task[u] \in TaskState /\ TaskOK(task[u])
    BY <1>1, TaskTypes
  <2>2. ASSUME NEW x \in TaskState, x = task[u], x = task'[u], TaskOK(x)' PROVE TaskOK(task[u])'
    BY <2>2
  <2> QED BY <1>3, <2>1, <2>2
<1>5. KeyringOK'
  <2>1. \A u \in Task : Writing(u)' <=> Writing(u)
    BY <1>1 DEF Writing
  <2>2. \A u \in Task : Writing(u) => task'[u] = task[u]
    BY <1>1 DEF Writing
  <2>3. \A u \in Task : task'[u].at = "refresh" => task'[u] = task[u]
    BY <1>1
  <2> QED BY <2>1, <2>2, <2>3 DEF KeyringOK, BackendInv
<1> QED BY <1>2, <1>3, <1>4, <1>5 DEF BackendInv

(* What the cache gives was not rejected when its slot was cloned; what the command prints *)
(* never was.                                                                              *)
LEMMA RunCommandKeeps ==
  ASSUME BackendInv, NEW t \in Task, RunCommand(t)
  PROVE  BackendInv'
<1> DEFINE i == task[t].slot
           c == slots[i]
<1>1. /\ task[t].at = "command" /\ dead' = dead /\ leases' = leases
      /\ UNCHANGED <<kind, conf, now, grants, token, rejected, keyring, usable, lost>>
      /\ task[t] \in TaskState /\ TaskOK(task[t]) /\ leases \subseteq Lease /\ dead \subseteq Lease
  BY TaskTypes DEF RunCommand, At
<1>2. i \in 1..Len(slots) /\ c \in Printed \cup {None} /\ (c # None => c.token \notin task[t].bad)
  BY <1>1 DEF TaskOK, TokenOK, BackendInv, BackendTypes, TaskState
<1>3. CASE Goto(t, "idle") /\ UNCHANGED slots
  BY <1>1, <1>3, EndTask DEF Fixed
<1>4. ASSUME NEW k \in Nat, k \notin task[t].bad, k <= token
      PROVE  LET r == [task[t] EXCEPT !.at = "send", !.tok = k]
             IN  r \in TaskState /\ r.at = "send" /\ r.tok = k /\ TaskOK(r)
  <2> DEFINE r == [task[t] EXCEPT !.at = "send", !.tok = k]
  <2>1. /\ r \in TaskState /\ r.at = "send" /\ r.op = task[t].op /\ r.n = task[t].n
        /\ r.tok = k /\ r.slot = task[t].slot /\ r.bad = task[t].bad /\ r.lease = task[t].lease
    BY <1>1, <1>4 DEF TaskState, Places, Calling
  <2> HIDE DEF r
  <2>2. ShapeOK(r) /\ TimeOK(r) /\ GrantOK(r)
    BY <1>1, <2>1 DEF TaskOK, ShapeOK, TimeOK, GrantOK, Waiting, Calling, Refreshing
  <2>3. TokenOK(r)
    BY <1>1, <1>4, <2>1 DEF TaskOK, TokenOK, Calling, Waiting
  <2>4. r \in TaskState /\ r.at = "send" /\ r.tok = k /\ TaskOK(r)
    BY <2>1, <2>2, <2>3 DEF TaskOK
  <2> QED BY <2>4 DEF r
<1>5. CASE c # None /\ Set(t, [task[t] EXCEPT !.at = "send", !.tok = c.token]) /\ UNCHANGED slots
  <2> DEFINE r == [task[t] EXCEPT !.at = "send", !.tok = c.token]
  <2>1. c.token \in Nat /\ c.token <= token
    BY <1>2, <1>5 DEF Printed, BackendInv, SlotsOK, BackendTypes
  <2>2. r \in TaskState /\ r.at = "send" /\ TaskOK(r)
    BY <1>2, <1>4, <1>5, <2>1
  <2> HIDE DEF r
  <2>3. Set(t, r)
    BY <1>5 DEF r
  <2> QED BY <1>1, <1>5, <2>2, <2>3, OneTask DEF Fixed
<1>6. CASE /\ Set(t, [task[t] EXCEPT !.at = "send", !.tok = token])
           /\ slots' = [slots EXCEPT ![i] = [token |-> token, till |-> now + CacheTtl]]
  <2> DEFINE r == [task[t] EXCEPT !.at = "send", !.tok = token]
             new == [token |-> token, till |-> now + CacheTtl]
  <2>1. token \in Nat /\ token \notin rejected /\ task[t].bad \subseteq rejected
    BY <1>1 DEF BackendInv, SlotsOK, BackendTypes, TaskOK, TokenOK
  <2>2. r \in TaskState /\ r.at = "send" /\ TaskOK(r)
    <3>1. token <= token /\ token \notin task[t].bad
      BY <2>1
    <3> QED BY <1>4, <2>1, <3>1
  <2>3. PICK x \in TaskState : x = r
    BY <2>2
  <2> HIDE DEF r
  <2>4. new \in Printed /\ new.token = token
    <3>1. now + CacheTtl \in Nat
      BY Numbers
    <3> QED BY <2>1, <3>1 DEF Printed
  <2> HIDE DEF new
  <2>5. /\ slots' \in Seq(Printed \cup {None}) /\ Len(slots') = Len(slots)
        /\ \A j \in 1..Len(slots) : slots'[j] = IF j = i THEN new ELSE slots[j]
    BY <1>2, <1>6, <2>4 DEF BackendInv, BackendTypes, new
  <2>6. Len(slots) \in Nat \ {0} /\ DOMAIN slots = 1..Len(slots) /\ DOMAIN slots' = 1..Len(slots)
    BY <2>5 DEF BackendInv, BackendTypes
  <2>7. SlotsOK'
    <3>1. SlotsOK
      BY DEF BackendInv
    <3>2. \A j \in DOMAIN slots' : slots'[j] # None => slots'[j].token <= token
      BY <2>1, <2>4, <2>5, <2>6, <3>1 DEF SlotsOK
    <3>3. slots'[Len(slots')] # None => slots'[Len(slots')].token \notin rejected
      BY <2>1, <2>4, <2>5, <2>6, <3>1 DEF SlotsOK
    <3> QED BY <1>1, <3>1, <3>2, <3>3 DEF SlotsOK
  <2>8. TaskOK(x)'
    <3>1. token' \in Nat /\ token <= token' /\ Len(slots) <= Len(slots') /\ rejected \subseteq rejected'
      BY <1>1, <2>1, <2>5, <2>6
    <3>2. \A j \in 1..Len(slots) : slots'[j] = slots[j] \/ (slots'[j] # None => slots'[j].token \notin rejected)
      BY <2>1, <2>4, <2>5
    <3>3. \A y \in TaskState : TaskOK(y) => TaskOK(y)'
      BY <1>1, <2>5, <3>1, <3>2, TokensMove
    <3> QED BY <2>2, <2>3, <3>3
  <2>9. Set(t, x) /\ x.at = "send"
    BY <1>6, <2>2, <2>3 DEF r
  <2>10. rejected' \subseteq Nat /\ rejected \subseteq rejected'
    BY <1>1 DEF BackendInv, BackendTypes
  <2>11. /\ Len(slots) <= Len(slots')
         /\ \A j \in 1..Len(slots) : slots'[j] = slots[j] \/ (slots'[j] # None => slots'[j].token \notin rejected)
    BY <2>1, <2>4, <2>5, <2>6
  <2> QED BY <1>1, <2>5, <2>7, <2>8, <2>9, <2>10, <2>11, TokenTask
<1> QED BY <1>3, <1>5, <1>6 DEF RunCommand

(* A refused token is one that the service has replaced; the new slot is empty. *)
LEMMA RefusedKeeps ==
  ASSUME BackendInv, NEW t \in Task, Refused(t)
  PROVE  BackendInv'
<1>1. /\ task[t].at = "refused" /\ Goto(t, "idle") /\ dead' = dead /\ leases' = leases
      /\ UNCHANGED <<kind, conf, now, grants, token, keyring, usable, lost>>
      /\ task[t] \in TaskState /\ TaskOK(task[t]) /\ leases \subseteq Lease /\ dead \subseteq Lease
  BY TaskTypes DEF Refused, At
<1>2. CASE ~conf.command
  BY <1>1, <1>2, EndTask DEF Refused, Invalidate, Fixed
<1>3. CASE conf.command
  <2>1. slots' = Append(slots, None) /\ rejected' = rejected \cup {task[t].tok}
    BY <1>3 DEF Refused, Invalidate
  <2>2. task[t].tok \in Nat /\ task[t].tok < token
    BY <1>1 DEF TaskOK, TokenOK, TaskState
  <2>3. /\ Len(slots) \in Nat \ {0} /\ slots \in Seq(Printed \cup {None}) /\ DOMAIN slots = 1..Len(slots)
        /\ token \in Nat /\ rejected \subseteq Nat /\ SlotsOK
    BY DEF BackendInv, BackendTypes
  <2>4. /\ slots' \in Seq(Printed \cup {None}) /\ Len(slots') = Len(slots) + 1
        /\ DOMAIN slots' = 1..(Len(slots) + 1)
        /\ \A i \in 1..Len(slots) : slots'[i] = slots[i]
        /\ slots'[Len(slots) + 1] = None
    BY <2>1, <2>3
  <2>5. rejected' \subseteq Nat /\ rejected \subseteq rejected' /\ Len(slots) <= Len(slots')
    <3>1. rejected' \subseteq Nat /\ rejected \subseteq rejected'
      BY <2>1, <2>2, <2>3
    <3> QED BY <2>3, <2>4, <3>1
  <2>6. SlotsOK'
    <3>1. \A i \in DOMAIN slots' : slots'[i] # None => slots'[i].token <= token
      BY <2>3, <2>4 DEF SlotsOK
    <3>2. \A k \in rejected' : k < token
      BY <2>1, <2>2, <2>3 DEF SlotsOK
    <3> QED BY <1>1, <1>3, <2>4, <3>1, <3>2 DEF SlotsOK
  <2>7. Idle \in TaskState /\ TaskOK(Idle) /\ Idle.at = "idle" /\ Set(t, Idle)
    BY <1>1, IdleOK DEF BackendInv, Goto
  <2>8. TaskOK(Idle)'
    <3>1. token' \in Nat /\ token <= token'
      BY <1>1, <2>3
    <3>2. \A y \in TaskState : TaskOK(y) => TaskOK(y)'
      BY <1>1, <2>4, <2>5, <3>1, TokensMove
    <3> QED BY <2>7, <3>2
  <2> QED BY <1>1, <2>4, <2>5, <2>6, <2>7, <2>8, TokenTask
<1> QED BY <1>2, <1>3

(* The tasks do not move, and what is right of one of them stays so. *)
LEMMA TasksStay ==
  ASSUME BackendInv, BackendTypes', SlotsOK', UNCHANGED <<task, keyring, usable, lost, grants>>,
         \A x \in TaskState : TaskOK(x) => TaskOK(x)',
         \A l \in leases' : LeaseOK(l)', \A l \in dead' : DeadOK(l)'
  PROVE  BackendInv'
<1>1. \A t \in Task : TaskOK(task[t])'
  <2> SUFFICES ASSUME NEW t \in Task PROVE TaskOK(task[t])'
    OBVIOUS
  <2>1. task'[t] = task[t] /\ task[t] \in TaskState /\ TaskOK(task[t])
    BY TaskTypes
  <2>2. ASSUME NEW x \in TaskState, x = task[t], x = task'[t], TaskOK(x)' PROVE TaskOK(task[t])'
    BY <2>2
  <2> QED BY <2>1, <2>2
<1>2. KeyringOK'
  BY DEF BackendInv, KeyringOK, Writing
<1> QED BY <1>1, <1>2 DEF BackendInv

LEMMA RotateKeeps ==
  ASSUME BackendInv, Rotate
  PROVE  BackendInv'
<1>1. /\ UNCHANGED <<kind, conf, now, grants, task, leases, slots, rejected, keyring, usable, lost, dead>>
      /\ token \in Nat /\ token' = token + 1 /\ BackendTypes /\ SlotsOK
  BY DEF Rotate, BackendInv, BackendTypes
<1>2. BackendTypes'
  <2>1. conf' \in Flags(kind)'
    BY <1>1 DEF BackendTypes, Flags
  <2>2. token' \in Nat
    BY <1>1
  <2> QED BY <1>1, <2>1, <2>2 DEF BackendTypes
<1>3. SlotsOK'
  <2>1. \A i \in DOMAIN slots : slots[i] # None => slots[i].token \in Nat
    BY <1>1 DEF BackendTypes, Printed
  <2>2. \A i \in DOMAIN slots : slots[i] # None => slots[i].token <= token + 1
    BY <1>1, <2>1 DEF SlotsOK
  <2>3. \A k \in rejected : k < token + 1
    BY <1>1 DEF SlotsOK, BackendTypes
  <2> QED BY <1>1, <2>2, <2>3 DEF SlotsOK
<1>4. /\ \A x \in TaskState : TaskOK(x) => TaskOK(x)'
      /\ \A l \in leases' : LeaseOK(l)'
      /\ \A l \in dead' : DeadOK(l)'
  <2>1. /\ token' \in Nat /\ token <= token' /\ Len(slots) <= Len(slots')
        /\ rejected \subseteq rejected' /\ slots' \in Seq(Printed \cup {None})
    BY <1>1 DEF BackendTypes
  <2> QED BY <1>1, <2>1, TokensMove
<1> QED BY <1>1, <1>2, <1>3, <1>4, TasksStay

(* The client's timeout is not overslept. *)
LEMMA TickKeeps ==
  ASSUME BackendInv, Tick
  PROVE  BackendInv'
<1>1. /\ UNCHANGED <<kind, conf, grants, task, leases, token, slots, rejected, keyring, usable, lost, dead>>
      /\ now \in Nat /\ now < MaxTime /\ now' = now + 1 /\ BackendTypes /\ SlotsOK
  BY DEF Tick, BackendInv, BackendTypes
<1>2. BackendTypes'
  <2>1. now' \in 0..MaxTime
    BY <1>1, LeaseBackendsAssumption
  <2> QED BY <1>1, <2>1 DEF BackendTypes, Flags
<1>3. SlotsOK'
  BY <1>1 DEF SlotsOK
<1>4. \A t \in Task : TaskOK(task[t])'
  <2> SUFFICES ASSUME NEW t \in Task PROVE TaskOK(task[t])'
    OBVIOUS
  <2>1. task[t] \in TaskState /\ TaskOK(task[t]) /\ task'[t] = task[t]
    BY <1>1, TaskTypes
  <2>2. (ShapeOK(task[t]) /\ GrantOK(task[t]) /\ TokenOK(task[t]))'
    BY <1>1, <2>1 DEF TaskOK, ShapeOK, GrantOK, TokenOK, EndsOK, Prerequisites, CloudflareReady,
                GithubAppReady, VaultReady, GitlabReady, Oauth2Ready, TailscaleReady
  <2>3. task[t].at \in Waiting => now < task[t].sent + HttpTimeout
    BY DEF Tick, Waiting
  <2>4. TimeOK(task[t])'
    <3>1. task[t].sent \in Nat /\ HttpTimeout \in Nat
      BY <2>1, LeaseBackendsAssumption DEF TaskState
    <3>2. task[t].at \in Waiting => task[t].sent <= now
      BY <2>1 DEF TaskOK, TimeOK
    <3>3. task[t].at \in Waiting => task[t].sent <= now + 1 /\ now + 1 <= task[t].sent + HttpTimeout
      BY <1>1, <2>3, <3>1, <3>2
    <3> QED BY <1>1, <2>1, <3>3 DEF TimeOK
  <2> QED BY <2>2, <2>4 DEF TaskOK
<1>5. KeyringOK' /\ (\A l \in leases' : LeaseOK(l)') /\ (\A l \in dead' : DeadOK(l)')
  BY <1>1 DEF BackendInv, KeyringOK, Writing, LeaseOK, DeadOK
<1> QED BY <1>2, <1>3, <1>4, <1>5 DEF BackendInv

--------------------------------------------------------------------------------
(* Steps of the service: grants are added and end, and nothing else happens to them. *)

Grown ==
  /\ grants' \in Seq(Grant) /\ Len(grants) <= Len(grants')
  /\ \A i \in 1..Len(grants) :
       grants'[i].expires = grants[i].expires /\ (~grants[i].alive => ~grants'[i].alive)

LEMMA GrantsGrow ==
  ASSUME BackendInv, Grown, UNCHANGED <<kind, conf, now, token, slots, rejected>>,
         leases' = leases, dead' = dead
  PROVE  /\ \A x \in TaskState : TaskOK(x) => TaskOK(x)'
         /\ \A l \in leases' : LeaseOK(l)'
         /\ \A l \in dead' : DeadOK(l)'
         /\ DOMAIN grants \subseteq DOMAIN grants'
<1>1. /\ grants \in Seq(Grant) /\ Len(grants) \in Nat /\ DOMAIN grants = 1..Len(grants)
      /\ Len(grants') \in Nat /\ DOMAIN grants' = 1..Len(grants')
  BY DEF BackendInv, BackendTypes, Grown
<1>2. DOMAIN grants \subseteq DOMAIN grants' /\ Len(grants) <= Len(grants')
  BY <1>1 DEF Grown
<1>3. ASSUME NEW x \in TaskState, TaskOK(x) PROVE TaskOK(x)'
  <2>1. ShapeOK(x)' /\ TimeOK(x)' /\ TokenOK(x)'
    BY <1>3 DEF TaskOK, ShapeOK, TimeOK, TokenOK, Prerequisites, CloudflareReady,
                GithubAppReady, VaultReady, GitlabReady, Oauth2Ready, TailscaleReady
  <2>2. x.n \in 0..Len(grants') /\ GrantOK(x)
    BY <1>1, <1>2, <1>3 DEF TaskOK, GrantOK
  <2>3. \A e : EndsOK(x, e)' <=> EndsOK(x, e)
    BY DEF EndsOK
  <2>4. x.at = "granted" => x.n \in DOMAIN grants' /\ EndsOK(x, grants'[x.n].expires)
    BY <1>1, <1>2, <2>2 DEF GrantOK, Grown
  <2>5. x.op = "revoke" /\ x.at \in Calling => x.lease \in Lease /\ x.lease.n \in DOMAIN grants'
    BY <1>2, <2>2 DEF GrantOK
  <2>6. x.at \in {"ok", "gone"} /\ x.lease.known => ~grants'[x.lease.n].alive
    <3>1. x.at \in {"ok", "gone"} => x.lease.n \in DOMAIN grants
      BY <1>3, <2>2 DEF GrantOK, TaskOK, ShapeOK, Calling, Waiting
    <3> QED BY <1>1, <2>2, <3>1 DEF GrantOK, Grown
  <2>7. x.at = "write" => /\ x.lease \in CachedToken /\ x.lease.n \in DOMAIN grants'
                          /\ x.lease.expires = grants'[x.lease.n].expires
    BY <1>1, <1>2, <2>2 DEF GrantOK, Grown
  <2>8. x.at = "refresh" => x.tok \in DOMAIN grants'
    BY <1>2, <2>2 DEF GrantOK
  <2>9. GrantOK(x)'
    BY <2>2, <2>3, <2>4, <2>5, <2>6, <2>7, <2>8 DEF GrantOK
  <2> QED BY <2>1, <2>9 DEF TaskOK
<1>4. \A l \in leases' : LeaseOK(l)'
  BY <1>1, <1>2 DEF BackendInv, LeaseOK, Grown
<1>5. \A l \in dead' : DeadOK(l)'
  BY <1>1, <1>2 DEF BackendInv, DeadOK, Grown
<1> QED BY <1>2, <1>3, <1>4, <1>5

(* One task moves on with the answer. *)
LEMMA GrantTask ==
  ASSUME BackendInv, Grown, UNCHANGED <<kind, conf, now, token, slots, rejected, keyring>>,
         leases' = leases, dead' = dead, usable' \subseteq DOMAIN grants', lost' \subseteq Nat, KeyringOK',
         NEW t \in Task, NEW r \in TaskState, Set(t, r), TaskOK(r)'
  PROVE  BackendInv'
<1>1. /\ task' \in [Task -> TaskState] /\ task'[t] = r
      /\ \A u \in Task \ {t} : task'[u] = task[u]
  BY DEF BackendInv, BackendTypes, Set
<1>2. /\ \A x \in TaskState : TaskOK(x) => TaskOK(x)'
      /\ \A l \in leases' : LeaseOK(l)'
      /\ \A l \in dead' : DeadOK(l)'
  BY GrantsGrow
<1>3. BackendTypes' /\ SlotsOK'
  <2>1. BackendTypes /\ SlotsOK
    BY DEF BackendInv
  <2>2. conf' \in Flags(kind)'
    BY <2>1 DEF BackendTypes, Flags
  <2> QED BY <1>1, <2>1, <2>2 DEF BackendTypes, SlotsOK, Grown
<1>4. \A u \in Task : TaskOK(task[u])'
  <2> SUFFICES ASSUME NEW u \in Task, u # t PROVE TaskOK(task[u])'
    BY <1>1
  <2>1. task'[u] = task[u] /\ task[u] \in TaskState /\ TaskOK(task[u])
    BY <1>1, TaskTypes
  <2>2. ASSUME NEW x \in TaskState, x = task[u], x = task'[u], TaskOK(x)' PROVE TaskOK(task[u])'
    BY <2>2
  <2> QED BY <1>2, <2>1, <2>2
<1> QED BY <1>2, <1>3, <1>4 DEF BackendInv

(* The same where the keyring is not concerned. *)
LEMMA AnswerTask ==
  ASSUME BackendInv, Grown, UNCHANGED <<kind, conf, now, token, slots, rejected, keyring, usable, lost>>,
         leases' = leases, dead' = dead, NEW t \in Task, NEW r \in TaskState, Set(t, r), TaskOK(r)',
         r.at \notin {"write", "refresh"}, task[t].at # "write"
  PROVE  BackendInv'
<1>1. /\ task'[t] = r
      /\ \A u \in Task \ {t} : task'[u] = task[u]
  BY DEF BackendInv, BackendTypes, Set
<1>2. /\ DOMAIN grants \subseteq DOMAIN grants' /\ DOMAIN grants = 1..Len(grants)
      /\ usable' \subseteq DOMAIN grants' /\ lost' \subseteq Nat
  BY GrantsGrow DEF BackendInv, BackendTypes
<1>3. KeyringOK'
  <2>1. \A u \in Task : Writing(u)' <=> Writing(u)
    BY <1>1 DEF Writing
  <2>2. \A u \in Task : Writing(u) => task'[u] = task[u]
    BY <1>1 DEF Writing
  <2>3. \A u \in Task : task'[u].at = "refresh" => task'[u] = task[u]
    BY <1>1
  <2>4. keyring # None => keyring.n \in DOMAIN grants' /\ keyring.expires = grants'[keyring.n].expires
    BY <1>2 DEF KeyringOK, BackendInv, Grown
  <2> QED BY <2>1, <2>2, <2>3, <2>4 DEF KeyringOK, BackendInv
<1> QED BY <1>2, <1>3, GrantTask

LEMMA ServeErrorKeeps ==
  ASSUME BackendInv, NEW t \in Task, task[t].at = "wait", Fixed, leases' = leases, dead' = dead,
         \/ Goto(t, IF task[t].op = "create" THEN "idle" ELSE "error")
         \/ Goto(t, "refused") /\ task[t].tok # token
         \/ task[t].op = "revoke" /\ ~task[t].lease.known /\ \E a \in {"ok", "error"} : Goto(t, a)
  PROVE  BackendInv'
<1>1. task[t] \in TaskState /\ TaskOK(task[t]) /\ leases \subseteq Lease /\ dead \subseteq Lease
  BY TaskTypes
<1>2. CASE Goto(t, "idle")
  BY <1>1, <1>2, EndTask
<1>3. ASSUME NEW a \in {"error", "refused", "ok"}, Goto(t, a), a # "refused" => task[t].op = "revoke",
             a = "refused" => task[t].tok # token, a = "ok" => ~task[t].lease.known
      PROVE  BackendInv'
  <2>1. PICK r \in TaskState :
           /\ Set(t, r) /\ r.at = a /\ r.op = task[t].op /\ r.asked = task[t].asked /\ r.sent = task[t].sent
           /\ r.n = task[t].n /\ r.tok = task[t].tok /\ r.slot = task[t].slot /\ r.bad = task[t].bad
           /\ r.lease = task[t].lease
    BY <1>3, GotoIs DEF Places, Calling, Waiting
  <2>2. ShapeOK(r) /\ TimeOK(r) /\ GrantOK(r)
    BY <1>1, <1>3, <2>1 DEF TaskOK, ShapeOK, TimeOK, GrantOK, Waiting, Calling, Refreshing
  <2>3. task[t].tok \in Nat /\ token \in Nat /\ task[t].tok <= token /\ task[t].tok \notin task[t].bad
    BY <1>1 DEF TaskOK, TokenOK, TaskState, Waiting, Calling, BackendInv, BackendTypes
  <2>4. a = "refused" => task[t].tok < token
    BY <1>3, <2>3
  <2>5. TokenOK(r)
    BY <1>1, <1>3, <2>1, <2>3, <2>4 DEF TaskOK, TokenOK, Calling, Waiting
  <2> QED BY <1>1, <1>3, <2>1, <2>2, <2>5, OneTask DEF TaskOK
<1>4. task[t].op \in {"create", "revoke"}
  BY <1>1 DEF TaskOK, ShapeOK, Calling, Waiting
<1> QED BY <1>2, <1>3, <1>4

(* The service ends a grant as the request asked, or after a lifetime of its own. *)
LEMMA GrantKeeps ==
  ASSUME BackendInv, NEW t \in Task, task[t].at = "wait", task[t].op = "create", NEW ttl \in Ttls,
         grants' = Append(grants, [expires |-> GrantEnds(t, ttl), alive |-> TRUE, mints |-> task[t].mints]),
         Set(t, [task[t] EXCEPT !.at = "granted", !.n = Len(grants) + 1]),
         UNCHANGED <<kind, conf, now, leases, token, slots, rejected, keyring, usable, lost, dead>>
  PROVE  BackendInv'
<1>1. /\ task[t] \in TaskState /\ TaskOK(task[t]) /\ now \in Nat /\ ttl \in Nat /\ Len(grants) \in Nat
      /\ task[t].sent \in Nat /\ task[t].asked \in Nat /\ grants \in Seq(Grant) /\ task[t].mints = FALSE
      /\ task[t].sent <= now /\ task[t].deadline \in Nat
  <2>1. task[t] \in TaskState /\ TaskOK(task[t])
    BY TaskTypes
  <2>2. now \in Nat /\ ttl \in Nat /\ Len(grants) \in Nat /\ grants \in Seq(Grant)
    <3>1. now \in Nat /\ ttl \in Nat
      BY Numbers
    <3>2. grants \in Seq(Grant)
      BY DEF BackendInv, BackendTypes
    <3> QED BY <3>1, <3>2
  <2>3. task[t].sent \in Nat /\ task[t].asked \in Nat /\ task[t].deadline \in Nat /\ task[t].mints = FALSE
    BY <2>1 DEF TaskState
  <2>4. task[t].sent <= now
    BY <2>1 DEF TaskOK, TimeOK, Waiting
  <2> QED BY <2>1, <2>2, <2>3, <2>4
<1> DEFINE ends == GrantEnds(t, ttl)
           g == [expires |-> ends, alive |-> TRUE, mints |-> task[t].mints]
<1>2. /\ ends \in Nat /\ (kind # "cloudflare" => task[t].sent <= ends)
      /\ kind = "cloudflare" => ends = task[t].deadline
      /\ kind = "gitlab" => ends = GitlabExpiry(task[t].sent + task[t].asked)
  <2>1. task[t].sent + task[t].asked \in Nat /\ task[t].sent <= task[t].sent + task[t].asked
    BY ONLY <1>1
  <2>2. CASE kind = "cloudflare"
    BY <1>1, <2>2 DEF GrantEnds
  <2>3. CASE kind = "gitlab"
    <3>1. ends = GitlabExpiry(task[t].sent + task[t].asked)
      BY <2>3 DEF GrantEnds
    <3>2. ends \in Nat /\ task[t].sent + task[t].asked <= ends
      BY <2>1, <3>1, GitlabLater
    <3> HIDE DEF ends
    <3> QED BY <1>1, <2>1, <2>3, <3>1, <3>2
  <2>4. CASE kind \notin {"cloudflare", "gitlab"}
    <3>1. ends = now + ttl
      BY <2>4 DEF GrantEnds
    <3> HIDE DEF ends
    <3> QED BY <1>1, <2>4, <3>1
  <2> QED BY <2>2, <2>3, <2>4
<1> HIDE DEF ends
<1>3. g \in Grant /\ g.expires = ends
  BY <1>1, <1>2 DEF Grant
<1>4. grants' = Append(grants, g)
  BY DEF ends
<1> HIDE DEF g
<1>5. /\ grants' \in Seq(Grant) /\ Len(grants') = Len(grants) + 1 /\ grants'[Len(grants) + 1] = g
      /\ \A i \in 1..Len(grants) : grants'[i] = grants[i]
      /\ DOMAIN grants' = 1..(Len(grants) + 1)
  BY <1>1, <1>3, <1>4
<1>6. Grown
  BY <1>1, <1>5 DEF Grown
<1>7. PICK r \in TaskState : r = [task[t] EXCEPT !.at = "granted", !.n = Len(grants) + 1]
  <2>1. Len(grants) + 1 \in Nat /\ "granted" \in Places
    BY <1>1 DEF Places, Calling, Waiting
  <2>2. [task[t] EXCEPT !.at = "granted", !.n = Len(grants) + 1] \in TaskState
    BY <1>1, <2>1 DEF TaskState
  <2> QED BY <2>2
<1>8. /\ Set(t, r) /\ r.at = "granted" /\ r.op = task[t].op /\ r.asked = task[t].asked /\ r.sent = task[t].sent
      /\ r.n = Len(grants) + 1 /\ r.tok = task[t].tok /\ r.slot = task[t].slot /\ r.bad = task[t].bad
      /\ r.deadline = task[t].deadline
  BY <1>1, <1>7 DEF TaskState
<1>9. ShapeOK(r) /\ TimeOK(r) /\ TokenOK(r)
  BY <1>1, <1>8 DEF TaskOK, ShapeOK, TimeOK, TokenOK, Waiting, Calling, Refreshing
<1>10. ShapeOK(r)' /\ TimeOK(r)' /\ TokenOK(r)'
  BY <1>9 DEF ShapeOK, TimeOK, TokenOK, Prerequisites, CloudflareReady,
              GithubAppReady, VaultReady, GitlabReady, Oauth2Ready, TailscaleReady
<1>11. GrantOK(r)'
  <2>1. r.n \in 0..Len(grants') /\ r.n \in DOMAIN grants' /\ grants'[r.n].expires = ends
    BY <1>1, <1>3, <1>5, <1>8
  <2>2. EndsOK(r, grants[r.n].expires)'
    BY <1>2, <1>8, <2>1 DEF EndsOK, GitlabExpiry
  <2> QED BY <1>8, <2>1, <2>2 DEF GrantOK
<1> QED BY <1>6, <1>8, <1>10, <1>11, AnswerTask DEF TaskOK

(* What the service has ended is dead, whatever becomes of its answer. *)
LEMMA EndKeeps ==
  ASSUME BackendInv, NEW t \in Task, task[t].at = "wait", task[t].op = "revoke",
         grants' = [grants EXCEPT ![task[t].lease.n].alive = FALSE],
         NEW a \in {"ok", "gone", "error"}, Goto(t, a),
         UNCHANGED <<kind, conf, now, leases, token, slots, rejected, keyring, usable, lost, dead>>
  PROVE  BackendInv'
<1>1. /\ task[t] \in TaskState /\ TaskOK(task[t]) /\ grants \in Seq(Grant) /\ DOMAIN grants = 1..Len(grants)
  BY TaskTypes DEF BackendInv, BackendTypes
<1> DEFINE n == task[t].lease.n
<1>2. n \in DOMAIN grants /\ task[t].lease \in Lease
  BY <1>1 DEF TaskOK, GrantOK, Calling, Waiting
<1>3. /\ [grants[n] EXCEPT !.alive = FALSE] \in Grant
      /\ [grants[n] EXCEPT !.alive = FALSE].alive = FALSE
      /\ [grants[n] EXCEPT !.alive = FALSE].expires = grants[n].expires
  <2>1. grants[n] \in Grant
    BY <1>1, <1>2
  <2> HIDE DEF n
  <2> QED BY <2>1 DEF Grant
<1>4. /\ grants' \in Seq(Grant) /\ Len(grants') = Len(grants) /\ DOMAIN grants' = DOMAIN grants
      /\ \A i \in DOMAIN grants : grants'[i] = IF i = n THEN [grants[n] EXCEPT !.alive = FALSE] ELSE grants[i]
  BY <1>1, <1>2, <1>3
<1>5. Grown
  <2>1. \A i \in 1..Len(grants) :
          grants'[i].expires = grants[i].expires /\ (~grants[i].alive => ~grants'[i].alive)
    BY <1>1, <1>3, <1>4
  <2>2. Len(grants) <= Len(grants')
    BY <1>1, <1>4
  <2> QED BY <1>4, <2>1, <2>2 DEF Grown
<1>6. PICK r \in TaskState :
         /\ Set(t, r) /\ r.at = a /\ r.op = task[t].op /\ r.asked = task[t].asked /\ r.sent = task[t].sent
         /\ r.n = task[t].n /\ r.tok = task[t].tok /\ r.slot = task[t].slot /\ r.bad = task[t].bad
         /\ r.lease = task[t].lease
  BY GotoIs DEF Places, Calling, Waiting
<1>7. ShapeOK(r) /\ TimeOK(r) /\ TokenOK(r)
  BY <1>1, <1>6 DEF TaskOK, ShapeOK, TimeOK, TokenOK, Waiting, Calling, Refreshing
<1>8. ShapeOK(r)' /\ TimeOK(r)' /\ TokenOK(r)'
  BY <1>7 DEF ShapeOK, TimeOK, TokenOK, Prerequisites, CloudflareReady,
              GithubAppReady, VaultReady, GitlabReady, Oauth2Ready, TailscaleReady
<1>9. GrantOK(r)'
  <2>1. r.n \in 0..Len(grants')
    BY <1>1, <1>4, <1>6 DEF TaskOK, GrantOK
  <2>2. r.lease.n \in DOMAIN grants' /\ r.lease \in Lease /\ ~grants'[r.lease.n].alive
    BY <1>2, <1>3, <1>4, <1>6
  <2> QED BY <1>6, <2>1, <2>2 DEF GrantOK
<1> QED BY <1>5, <1>6, <1>8, <1>9, AnswerTask DEF TaskOK

LEMMA ServeKeeps ==
  ASSUME BackendInv, NEW t \in Task, Serve(t)
  PROVE  BackendInv'
<1>1. /\ task[t].at = "wait"
      /\ UNCHANGED <<kind, conf, now, leases, token, slots, rejected, keyring, usable, lost, dead>>
  BY DEF Serve, At
<1>2. CASE Goto(t, IF task[t].op = "create" THEN "idle" ELSE "error") /\ UNCHANGED grants
  BY <1>1, <1>2, ServeErrorKeeps DEF Fixed
<1>3. CASE task[t].tok # token /\ Goto(t, "refused") /\ UNCHANGED grants
  BY <1>1, <1>3, ServeErrorKeeps DEF Fixed
<1>4. CASE /\ task[t].op = "create"
           /\ \E ttl \in Ttls : grants' = Append(grants, [expires |-> GrantEnds(t, ttl), alive |-> TRUE,
                                                          mints |-> task[t].mints])
           /\ Set(t, [task[t] EXCEPT !.at = "granted", !.n = Len(grants) + 1])
  BY <1>1, <1>4, GrantKeeps
<1>5. CASE /\ task[t].op = "revoke"
           /\ grants' = [grants EXCEPT ![task[t].lease.n].alive = FALSE]
           /\ \E a \in {"ok", "gone", "error"} : Goto(t, a)
  BY <1>1, <1>5, EndKeeps
<1>6. CASE /\ task[t].op = "revoke" /\ ~task[t].lease.known
           /\ \E a \in {"ok", "error"} : Goto(t, a)
           /\ UNCHANGED grants
  BY <1>1, <1>6, ServeErrorKeeps DEF Fixed
<1> QED BY <1>2, <1>3, <1>4, <1>5, <1>6 DEF Serve

--------------------------------------------------------------------------------
(* Steps of GitHub OAuth. *)

(* The new refresh token works and is in the hands of this task alone; the old one, if it *)
(* was that of the keyring, is about to be replaced.                                      *)
LEMMA NewPairKeeps ==
  ASSUME BackendInv, NEW t \in Task, NEW old \in SUBSET Nat, NewPair(t, old),
         task[t].at \in {"refresh", "poll"}, task[t].at = "refresh" => old = {task[t].tok},
         task[t].at = "poll" => old = {},
         UNCHANGED <<kind, conf, now, leases, token, slots, rejected, keyring, lost, dead>>
  PROVE  BackendInv'
<1>1. PICK ttl \in Ttls, refresh \in BOOLEAN :
        /\ grants' = Append(grants, [expires |-> now + ttl, alive |-> TRUE, mints |-> FALSE])
        /\ usable' = (usable \ old) \cup (IF refresh THEN {Len(grants) + 1} ELSE {})
        /\ Set(t, [task[t] EXCEPT !.at = "write", !.n = Len(grants) + 1, !.sent = now,
                      !.lease = [n |-> Len(grants) + 1, expires |-> now + ttl, refresh |-> refresh]])
  BY DEF NewPair
<1>2. /\ task[t] \in TaskState /\ TaskOK(task[t]) /\ now \in Nat /\ now + ttl \in Nat /\ Len(grants) \in Nat
      /\ grants \in Seq(Grant) /\ DOMAIN grants = 1..Len(grants)
      /\ usable \subseteq DOMAIN grants
  <2>1. task[t] \in TaskState /\ TaskOK(task[t])
    BY TaskTypes
  <2>2. now \in Nat /\ now + ttl \in Nat
    BY Numbers
  <2>3. grants \in Seq(Grant) /\ usable \subseteq DOMAIN grants
    BY DEF BackendInv, BackendTypes
  <2>4. Len(grants) \in Nat /\ DOMAIN grants = 1..Len(grants)
    BY <2>3
  <2> QED BY <2>1, <2>2, <2>3, <2>4
<1> DEFINE c == [n |-> Len(grants) + 1, expires |-> now + ttl, refresh |-> refresh]
           g == [expires |-> now + ttl, alive |-> TRUE, mints |-> FALSE]
<1>3. c \in CachedToken /\ c.n = Len(grants) + 1 /\ c.expires = now + ttl /\ c.refresh = refresh
  BY <1>2 DEF CachedToken
<1>4. g \in Grant /\ g.expires = now + ttl
  BY <1>2 DEF Grant
<1>5. PICK r \in TaskState : r = [task[t] EXCEPT !.at = "write", !.n = Len(grants) + 1, !.sent = now, !.lease = c]
  <2>1. Len(grants) + 1 \in Nat /\ "write" \in Places
    BY <1>2 DEF Places, Refreshing
  <2> HIDE DEF c
  <2>2. [task[t] EXCEPT !.at = "write", !.n = Len(grants) + 1, !.sent = now, !.lease = c] \in TaskState
    BY <1>2, <1>3, <2>1 DEF TaskState
  <2> QED BY <2>2
<1>6. grants' = Append(grants, g) /\ Set(t, r)
  BY <1>1, <1>5
<1> HIDE DEF c, g
<1>7. /\ r.at = "write" /\ r.op = task[t].op /\ r.n = Len(grants) + 1 /\ r.tok = task[t].tok
      /\ r.slot = task[t].slot /\ r.bad = task[t].bad /\ r.lease = c
  BY <1>2, <1>5 DEF TaskState
<1>8. /\ grants' \in Seq(Grant) /\ Len(grants') = Len(grants) + 1 /\ grants'[Len(grants) + 1] = g
      /\ \A i \in 1..Len(grants) : grants'[i] = grants[i]
      /\ DOMAIN grants' = 1..(Len(grants) + 1)
  BY <1>2, <1>4, <1>6
<1>9. Grown /\ usable' \subseteq DOMAIN grants' /\ lost' \subseteq Nat
  BY <1>1, <1>2, <1>8 DEF Grown, BackendInv, BackendTypes
<1>10. TaskOK(r)'
  <2>1. ShapeOK(r) /\ TimeOK(r) /\ TokenOK(r)
    BY <1>2, <1>7 DEF TaskOK, ShapeOK, TimeOK, TokenOK, Waiting, Calling, Refreshing
  <2>2. ShapeOK(r)' /\ TimeOK(r)' /\ TokenOK(r)'
    BY <2>1 DEF ShapeOK, TimeOK, TokenOK, Prerequisites, CloudflareReady,
                GithubAppReady, VaultReady, GitlabReady, Oauth2Ready, TailscaleReady
  <2>3. r.n \in 0..Len(grants') /\ r.lease.n \in DOMAIN grants' /\ r.lease.expires = grants'[r.lease.n].expires
    BY <1>2, <1>3, <1>4, <1>7, <1>8
  <2>4. GrantOK(r)'
    BY <1>3, <1>7, <2>3 DEF GrantOK, Calling, Waiting
  <2> QED BY <2>2, <2>4 DEF TaskOK
<1>11. /\ task'[t] = r
       /\ \A u \in Task \ {t} : task'[u] = task[u]
  BY <1>6 DEF BackendInv, BackendTypes, Set
<1>12. KeyringOK'
  <2>1. KeyringOK /\ \A u \in Task : GrantOK(task[u])
    BY DEF BackendInv, TaskOK
  <2>2. Writing(t)' /\ ~Writing(t) /\ \A u \in Task \ {t} : Writing(u)' <=> Writing(u)
    BY <1>7, <1>11 DEF Writing
  <2>3. keyring # None => /\ keyring.n \in DOMAIN grants' /\ keyring.expires = grants'[keyring.n].expires
                          /\ keyring.n # Len(grants) + 1
    BY <1>2, <1>8, <2>1 DEF KeyringOK
  <2>8. ASSUME keyring # None, keyring.refresh
        PROVE  keyring.n \in usable' \cup lost \/ \E u \in Task : Writing(u)' /\ task'[u].tok = keyring.n
    <3>1. CASE keyring.n \in usable \cup lost
      BY <1>1, <1>7, <1>11, <2>2, <3>1
    <3>2. CASE \E u \in Task : Writing(u) /\ task[u].tok = keyring.n
      BY <1>11, <2>2, <3>2
    <3> QED BY <2>1, <2>8, <3>1, <3>2 DEF KeyringOK
  <2>4. ASSUME NEW u \in Task \ {t}, Writing(u)
        PROVE  /\ task[u].lease.refresh => task[u].lease.n \in usable'
               /\ task[u].lease.n # Len(grants) + 1
    <3>1. /\ task[u].lease.refresh => task[u].lease.n \in usable
          /\ task[t].at = "refresh" => task[t].tok # task[u].lease.n
      BY <2>1, <2>4 DEF KeyringOK
    <3>2. task[u].lease.n \in DOMAIN grants
      BY <2>1, <2>4 DEF GrantOK, Writing
    <3> QED BY <1>1, <1>2, <3>1, <3>2
  <2>5. \A u \in Task \ {t} : task[u].at = "refresh" => task[u].tok # Len(grants) + 1
    BY <1>2, <2>1 DEF GrantOK
  <2>6. r.lease.refresh => r.lease.n \in usable'
    BY <1>1, <1>3, <1>7
  <2>7. ASSUME NEW u \in Task, Writing(u)'
        PROVE  /\ task'[u].lease.refresh => task'[u].lease.n \in usable'
               /\ keyring # None => keyring.n # task'[u].lease.n
               /\ \A v \in Task \ {u} : Writing(v)' => task'[v].lease.n # task'[u].lease.n
               /\ \A v \in Task : task'[v].at = "refresh" => task'[v].tok # task'[u].lease.n
    <3>1. CASE u = t
      BY <1>3, <1>7, <1>11, <2>2, <2>3, <2>4, <2>5, <2>6, <3>1
    <3>2. CASE u # t
      BY <1>3, <1>7, <1>11, <2>1, <2>2, <2>4, <2>7, <3>2 DEF KeyringOK
    <3> QED BY <3>1, <3>2
  <2> QED BY <2>2, <2>3, <2>7, <2>8 DEF KeyringOK
<1> QED BY <1>6, <1>9, <1>10, <1>12, GrantTask

LEMMA GotoDeviceKeeps ==
  ASSUME BackendInv, NEW t \in Task, task[t].at = "refresh",
         Set(t, [task[t] EXCEPT !.at = "device", !.tok = 0]), Fixed, leases' = leases, dead' = dead
  PROVE  BackendInv'
<1>1. task[t] \in TaskState /\ TaskOK(task[t]) /\ leases \subseteq Lease /\ dead \subseteq Lease
  BY TaskTypes
<1> DEFINE r == [task[t] EXCEPT !.at = "device", !.tok = 0]
<1>2. /\ r \in TaskState /\ r.at = "device" /\ r.op = task[t].op /\ r.n = task[t].n /\ r.tok = 0
      /\ r.slot = task[t].slot /\ r.bad = task[t].bad /\ r.lease = task[t].lease
  BY <1>1 DEF TaskState, Places, Refreshing
<1>3. Set(t, r)
  OBVIOUS
<1> HIDE DEF r
<1>4. TaskOK(r)
  BY <1>1, <1>2 DEF TaskOK, ShapeOK, TimeOK, GrantOK, TokenOK, Waiting, Calling, Refreshing
<1> QED BY <1>1, <1>2, <1>3, <1>4, OneTask

(* The service has used up a refresh token, and what it gave for it is lost. *)
LEMMA AnswerLostKeeps ==
  ASSUME BackendInv, NEW t \in Task, task[t].at = "refresh", Goto(t, "idle"),
         usable' = usable \ {task[t].tok}, lost' = lost \cup {task[t].tok},
         UNCHANGED <<kind, conf, now, grants, leases, token, slots, rejected, keyring, dead>>
  PROVE  BackendInv'
<1>1. /\ Idle \in TaskState /\ TaskOK(Idle) /\ Idle.at = "idle" /\ Set(t, Idle)
  BY IdleOK DEF BackendInv, Goto
<1>2. /\ task[t] \in TaskState /\ BackendTypes /\ SlotsOK /\ KeyringOK
      /\ leases \subseteq Lease /\ dead \subseteq Lease
  BY TaskTypes DEF BackendInv
<1>3. /\ task' \in [Task -> TaskState] /\ task'[t] = Idle
      /\ \A u \in Task \ {t} : task'[u] = task[u]
  BY <1>1, <1>2 DEF BackendTypes, Set
<1>4. BackendTypes' /\ SlotsOK'
  <2>1. conf' \in Flags(kind)' /\ lost' \subseteq Nat /\ usable' \subseteq DOMAIN grants'
    BY <1>2 DEF BackendTypes, Flags, TaskState
  <2> QED BY <1>2, <1>3, <2>1 DEF BackendTypes, SlotsOK
<1>5. \A x : TaskOK(x)' <=> TaskOK(x)
  BY DEF TaskOK, ShapeOK, TimeOK, GrantOK, TokenOK, EndsOK, Prerequisites, CloudflareReady,
         GithubAppReady, VaultReady, GitlabReady, Oauth2Ready, TailscaleReady
<1>6. \A u \in Task : TaskOK(task[u])'
  <2> SUFFICES ASSUME NEW u \in Task PROVE TaskOK(task'[u])
    BY <1>5
  <2> QED BY <1>1, <1>3 DEF BackendInv
<1>7. (\A l \in leases' : LeaseOK(l)') /\ (\A l \in dead' : DeadOK(l)')
  BY DEF BackendInv, LeaseOK, DeadOK
<1>8. KeyringOK'
  <2>1. \A u \in Task : Writing(u)' <=> Writing(u)
    BY <1>1, <1>3 DEF Writing
  <2>2. \A u \in Task : Writing(u) => task'[u] = task[u]
    BY <1>3 DEF Writing
  <2>3. \A u \in Task : task'[u].at = "refresh" => task'[u] = task[u]
    BY <1>1, <1>3
  <2>4. ASSUME keyring # None
        PROVE  /\ keyring.n \in DOMAIN grants /\ keyring.expires = grants[keyring.n].expires
               /\ keyring.refresh => \/ keyring.n \in usable' \cup lost'
                                     \/ \E u \in Task : Writing(u)' /\ task'[u].tok = keyring.n
    BY <1>2, <2>1, <2>2, <2>4 DEF KeyringOK
  <2>5. ASSUME NEW u \in Task, Writing(u)
        PROVE  /\ task[u].lease.refresh => task[u].lease.n \in usable'
               /\ keyring # None => keyring.n # task[u].lease.n
               /\ \A v \in Task \ {u} : Writing(v) => task[v].lease.n # task[u].lease.n
               /\ \A v \in Task : task[v].at = "refresh" => task[v].tok # task[u].lease.n
    BY <1>2, <2>5 DEF KeyringOK
  <2> QED BY <2>1, <2>2, <2>3, <2>4, <2>5 DEF KeyringOK
<1> QED BY <1>4, <1>6, <1>7, <1>8 DEF BackendInv

LEMMA RefreshKeeps ==
  ASSUME BackendInv, NEW t \in Task, RefreshAccessToken(t)
  PROVE  BackendInv'
<1>1. /\ task[t].at = "refresh"
      /\ UNCHANGED <<kind, conf, now, leases, token, slots, rejected, keyring, dead>>
      /\ task[t] \in TaskState /\ leases \subseteq Lease /\ dead \subseteq Lease
  BY TaskTypes DEF RefreshAccessToken, At
<1>2. CASE NewPair(t, {task[t].tok}) /\ UNCHANGED lost
  <2>1. {task[t].tok} \in SUBSET Nat
    BY <1>1 DEF TaskState
  <2>2. PICK old \in SUBSET Nat : old = {task[t].tok}
    BY <2>1
  <2>3. NewPair(t, old)
    BY <1>2, <2>2
  <2> QED BY <1>1, <1>2, <2>2, <2>3, NewPairKeeps
<1>3. CASE Set(t, [task[t] EXCEPT !.at = "device", !.tok = 0]) /\ UNCHANGED <<grants, usable, lost>>
  BY <1>1, <1>3, GotoDeviceKeeps DEF Fixed
<1>4. CASE Goto(t, "idle") /\ UNCHANGED <<grants, usable, lost>>
  BY <1>1, <1>4, EndTask DEF Fixed
<1>5. CASE /\ Goto(t, "idle") /\ UNCHANGED grants
           /\ usable' = usable \ {task[t].tok} /\ lost' = lost \cup {task[t].tok}
  BY <1>1, <1>5, AnswerLostKeeps
<1> QED BY <1>2, <1>3, <1>4, <1>5 DEF RefreshAccessToken

LEMMA PollKeeps ==
  ASSUME BackendInv, NEW t \in Task, PollAccessToken(t)
  PROVE  BackendInv'
<1>1. /\ task[t].at = "poll"
      /\ UNCHANGED <<kind, conf, now, leases, token, slots, rejected, keyring, lost, dead>>
      /\ task[t] \in TaskState /\ TaskOK(task[t]) /\ leases \subseteq Lease /\ dead \subseteq Lease
  BY TaskTypes DEF PollAccessToken, At
<1>2. CASE NewPair(t, {})
  BY <1>1, <1>2, NewPairKeeps
<1>3. CASE Goto(t, "idle") /\ UNCHANGED <<grants, usable>>
  BY <1>1, <1>3, EndTask DEF Fixed
<1>4. ASSUME NEW more \in {0, 1}, UNCHANGED <<grants, usable>>,
             Set(t, [task[t] EXCEPT !.interval = @ + more, !.sent = now + task[t].interval + more])
      PROVE  BackendInv'
  <2> DEFINE r == [task[t] EXCEPT !.interval = @ + more, !.sent = now + task[t].interval + more]
  <2>1. task[t].interval + more \in Nat /\ now + task[t].interval + more \in Nat
    BY <1>1 DEF TaskState, BackendInv, BackendTypes
  <2>2. /\ r \in TaskState /\ r.at = "poll" /\ r.op = task[t].op /\ r.n = task[t].n
        /\ r.tok = task[t].tok /\ r.slot = task[t].slot /\ r.bad = task[t].bad
        /\ r.lease = task[t].lease
    BY <1>1, <2>1 DEF TaskState
  <2> HIDE DEF r
  <2>3. TaskOK(r)
    BY <1>1, <2>2 DEF TaskOK, ShapeOK, TimeOK, GrantOK, TokenOK, Waiting, Calling, Refreshing
  <2>4. Set(t, r)
    BY <1>4 DEF r
  <2> QED BY <1>1, <1>4, <2>2, <2>3, <2>4, OneTask DEF Fixed
<1> QED BY <1>2, <1>3, <1>4 DEF PollAccessToken

(* The pair that a task has in its hands becomes that of the keyring, or is lost. *)
LEMMA WriteEnds ==
  ASSUME BackendInv, NEW t \in Task, task[t].at = "write", Goto(t, "idle"),
         (keyring' = task[t].lease /\ lost' = lost) \/ NotWritten(t),
         leases' \in {leases, leases \cup {LeaseOf(task[t].lease)}},
         UNCHANGED <<kind, conf, now, grants, token, slots, rejected, usable, dead>>
  PROVE  BackendInv'
<1> DEFINE c == task[t].lease
<1>1. /\ task[t].at = "write" /\ leases' \in {leases, leases \cup {LeaseOf(c)}}
      /\ (keyring' = c /\ lost' = lost) \/ NotWritten(t)
      /\ UNCHANGED <<kind, conf, now, grants, token, slots, rejected, usable, dead>>
      /\ task[t] \in TaskState /\ TaskOK(task[t]) /\ leases \subseteq Lease /\ dead \subseteq Lease
  BY TaskTypes
<1>2. c \in CachedToken /\ c.n \in DOMAIN grants /\ c.expires = grants[c.n].expires
  BY <1>1 DEF TaskOK, GrantOK
<1>3. /\ LeaseOf(c) \in Lease /\ LeaseOf(c).n = c.n /\ LeaseOf(c).expires = c.expires /\ c.expires \in Nat
  BY <1>2 DEF LeaseOf, Lease, CachedToken
<1>4. LeaseOK(LeaseOf(c))
  <2>1. kind \notin Relative
    BY <1>1 DEF TaskOK, ShapeOK, Refreshing, Relative
  <2> QED BY <1>2, <1>3, <2>1 DEF LeaseOK
<1>5. Idle \in TaskState /\ TaskOK(Idle) /\ Idle.at = "idle" /\ Set(t, Idle)
  BY IdleOK DEF BackendInv, Goto
<1>6. /\ task' \in [Task -> TaskState] /\ task'[t] = Idle
      /\ \A u \in Task \ {t} : task'[u] = task[u]
  BY <1>5 DEF BackendInv, BackendTypes, Set
<1>7. BackendTypes' /\ SlotsOK'
  <2>1. BackendTypes /\ SlotsOK
    BY DEF BackendInv
  <2>2. conf' \in Flags(kind)'
    BY <1>1, <2>1 DEF BackendTypes, Flags
  <2>3. leases' \subseteq Lease /\ keyring' \in CachedToken \cup {None} /\ lost' \subseteq Nat
    BY <1>1, <1>2, <1>3, <2>1 DEF BackendTypes, NotWritten, TaskState
  <2> HIDE DEF c
  <2> QED BY <1>1, <1>6, <2>1, <2>2, <2>3 DEF BackendTypes, SlotsOK
<1>8. \A x : TaskOK(x)' <=> TaskOK(x)
  BY <1>1 DEF TaskOK, ShapeOK, TimeOK, GrantOK, TokenOK, EndsOK, Prerequisites, CloudflareReady,
         GithubAppReady, VaultReady, GitlabReady, Oauth2Ready, TailscaleReady
<1>9. \A u \in Task : TaskOK(task[u])'
  <2> SUFFICES ASSUME NEW u \in Task PROVE TaskOK(task'[u])
    BY <1>8
  <2> QED BY <1>5, <1>6 DEF BackendInv
<1>10. (\A l \in leases' : LeaseOK(l)') /\ (\A l \in dead' : DeadOK(l)')
  <2>1. \A l : (LeaseOK(l)' <=> LeaseOK(l)) /\ (DeadOK(l)' <=> DeadOK(l))
    BY <1>1 DEF LeaseOK, DeadOK
  <2> QED BY <1>1, <1>4, <2>1 DEF BackendInv
<1>11. KeyringOK'
  <2>1. KeyringOK
    BY DEF BackendInv
  <2>2. \A u \in Task : Writing(u)' => u # t /\ Writing(u) /\ task'[u] = task[u]
    BY <1>5, <1>6 DEF Writing
  <2>3. \A u \in Task : task'[u].at = "refresh" => task'[u] = task[u]
    BY <1>5, <1>6
  <2>4. /\ Writing(t) /\ (c.refresh => c.n \in usable)
        /\ \A u \in Task \ {t} : Writing(u) => task[u].lease.n # c.n
    BY <1>1, <2>1 DEF KeyringOK, Writing
  <2>5. ASSUME keyring' # None
        PROVE  /\ keyring'.n \in DOMAIN grants' /\ keyring'.expires = grants'[keyring'.n].expires
               /\ keyring'.refresh => \/ keyring'.n \in usable' \cup lost'
                                      \/ \E u \in Task : Writing(u)' /\ task'[u].tok = keyring'.n
    <3>1. CASE keyring' = c
      BY <1>1, <1>2, <2>4, <3>1
    <3>2. CASE NotWritten(t)
      <4>1. keyring' = keyring /\ lost' = lost \cup {task[t].tok}
        BY <3>2 DEF NotWritten
      <4>2. \A u \in Task : Writing(u) => u = t \/ (Writing(u)' /\ task'[u].tok = task[u].tok)
        BY <1>6 DEF Writing
      <4> QED BY <1>1, <2>1, <2>5, <4>1, <4>2 DEF KeyringOK
    <3> QED BY <1>1, <3>1, <3>2
  <2>6. ASSUME NEW u \in Task, Writing(u)'
        PROVE  /\ task'[u].lease.refresh => task'[u].lease.n \in usable'
               /\ keyring' # None => keyring'.n # task'[u].lease.n
               /\ \A v \in Task \ {u} : Writing(v)' => task'[v].lease.n # task'[u].lease.n
               /\ \A v \in Task : task'[v].at = "refresh" => task'[v].tok # task'[u].lease.n
    <3>1. keyring' = c \/ keyring' = keyring
      BY <1>1 DEF NotWritten
    <3> QED BY <1>1, <2>1, <2>2, <2>3, <2>4, <2>6, <3>1 DEF KeyringOK
  <2> QED BY <2>5, <2>6 DEF KeyringOK
<1> QED BY <1>7, <1>9, <1>10, <1>11 DEF BackendInv

LEMMA StoreTokenKeeps ==
  ASSUME BackendInv, NEW t \in Task, StoreToken(t) \/ Killed(t)
  PROVE  BackendInv'
<1>1. /\ task[t].at = "write" /\ Goto(t, "idle")
      /\ (keyring' = task[t].lease /\ lost' = lost) \/ NotWritten(t)
      /\ leases' \in {leases, leases \cup {LeaseOf(task[t].lease)}}
      /\ UNCHANGED <<kind, conf, now, grants, token, slots, rejected, usable, dead>>
  BY DEF StoreToken, Killed, WriteCached, At
<1> QED BY <1>1, WriteEnds

LEMMA BackendNextKeeps == BackendInv /\ [Next]_vars => BackendInv'
<1> SUFFICES ASSUME BackendInv, [Next]_vars PROVE BackendInv'
  OBVIOUS
<1>1. CASE UNCHANGED vars
  <2>1. UNCHANGED <<kind, conf, now, grants, task, leases, token, slots, rejected, keyring, usable, lost, dead>>
    BY <1>1 DEF vars
  <2>2. BackendTypes' /\ SlotsOK' /\ KeyringOK'
    BY <2>1 DEF BackendInv, BackendTypes, SlotsOK, KeyringOK, Writing, Flags
  <2>3. \A x : TaskOK(x)' <=> TaskOK(x)
    BY <2>1 DEF TaskOK, ShapeOK, TimeOK, GrantOK, TokenOK, EndsOK, Prerequisites, CloudflareReady,
           GithubAppReady, VaultReady, GitlabReady, Oauth2Ready, TailscaleReady
  <2>4. \A u \in Task : TaskOK(task[u])'
    <3> SUFFICES ASSUME NEW u \in Task PROVE TaskOK(task'[u])
      BY <2>3
    <3> QED BY <2>1 DEF BackendInv
  <2>5. (\A l \in leases' : LeaseOK(l)') /\ (\A l \in dead' : DeadOK(l)')
    BY <2>1 DEF BackendInv, LeaseOK, DeadOK
  <2> QED BY <2>2, <2>4, <2>5 DEF BackendInv
<1>2. ASSUME NEW t \in Task, BeginCreate(t) \/ BeginRevoke(t) \/ Serve(t) \/ Killed(t) PROVE BackendInv'
  BY <1>2, BeginCreateKeeps, BeginRevokeKeeps, ServeKeeps, StoreTokenKeeps
<1>3. ASSUME NEW t \in Task, Run(t) PROVE BackendInv'
  <2>1. CASE ExchangeOauthClient(t) \/ FetchParentPolicies(t) \/ CloneSlot(t) \/ RunCommand(t) \/ Send(t)
    BY <2>1, ExchangeKeeps, PoliciesKeep, CloneSlotKeeps, RunCommandKeeps, SendKeeps
  <2>2. CASE Granted(t) \/ Revoked(t) \/ Refused(t) \/ Timeout(t) \/ ReportMissing(t)
    BY <2>2, GrantedKeeps, RevokedKeeps, RefusedKeeps, EndsKeep
  <2>3. CASE LoadToken(t) \/ RefreshAccessToken(t) \/ StoreToken(t) \/ CreateDeviceCode(t) \/ PollAccessToken(t)
    BY <2>3, LoadTokenKeeps, RefreshKeeps, StoreTokenKeeps, CreateDeviceCodeKeeps, PollKeeps
  <2> QED BY <1>3, <2>1, <2>2, <2>3 DEF Run
<1> QED BY <1>1, <1>2, <1>3, RotateKeeps, TickKeeps DEF Next

LEMMA BackendSound == BackendInv => ReportsTrue /\ TokensSound
<1> SUFFICES ASSUME BackendInv PROVE ReportsTrue /\ TokensSound
  OBVIOUS
<1>1. /\ BackendTypes /\ (\A t \in Task : TaskOK(task[t])) /\ KeyringOK
      /\ (\A l \in leases : LeaseOK(l)) /\ (\A l \in dead : DeadOK(l))
  BY DEF BackendInv
<1>2. /\ \A i \in DOMAIN grants : grants[i].expires \in Nat /\ grants[i].alive \in BOOLEAN /\ ~grants[i].mints
  <2> SUFFICES ASSUME NEW i \in DOMAIN grants
               PROVE  grants[i].expires \in Nat /\ grants[i].alive \in BOOLEAN /\ ~grants[i].mints
    OBVIOUS
  <2>1. grants[i] \in Grant
    BY <1>1 DEF BackendTypes
  <2> QED BY <2>1 DEF Grant
<1>3. \A l \in leases \cup dead : l.n \in DOMAIN grants /\ l.expires \in Nat \cup {None}
  BY <1>1 DEF BackendTypes, Lease, LeaseOK, DeadOK
<1>4. \A t \in Task :
        /\ task[t].slot \in 0..Len(slots) /\ task[t].n \in 0..Len(grants)
        /\ task[t].at = "granted" => task[t].n > 0
  BY <1>1 DEF TaskOK, TokenOK, GrantOK, BackendTypes
<1>5. TypeOK
  BY <1>1, <1>2, <1>3, <1>4 DEF TypeOK, BackendTypes, KeyringOK
<1>6. ExpirySound /\ RevokedIsDead /\ ChildCannotMint /\ PrerequisitesHold
  BY <1>1, <1>2 DEF ExpirySound, RevokedIsDead, ChildCannotMint, PrerequisitesHold, LeaseOK, DeadOK,
                    TaskOK, ShapeOK
<1>7. RejectedNotReused /\ RefreshKept
  BY <1>1 DEF RejectedNotReused, RefreshKept, At, KeyringOK, Writing, TaskOK, TokenOK, Waiting
<1> QED BY <1>5, <1>6, <1>7 DEF ReportsTrue, TokensSound

(* What fnox says of a lease is true at its service, for every one of the twelve: its record *)
(* does not outlive the grant by more than a request may take, what is reported as revoked   *)
(* is dead there, a Cloudflare child cannot make tokens, and check_prerequisites was right.  *)
THEOREM ReportsAreTrue == Spec => []ReportsTrue
<1> QED BY BackendStarts, BackendNextKeeps, BackendSound, PTL DEF Spec

(* A token that Vault rejected is not sent by a command that began later, although the cache *)
(* is shared and its lock is not held across the call; the refresh token of the keyring works *)
(* unless the task that used it is about to replace it, or its replacement was lost (an       *)
(* answer that did not arrive, a keyring that could not be written, a process killed).        *)
THEOREM TokensAreSound == Spec => []TokensSound
<1> QED BY BackendStarts, BackendNextKeeps, BackendSound, PTL DEF Spec
================================================================================
