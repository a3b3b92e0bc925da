--------------------------- MODULE LeaseBackends ---------------------------
(***************************************************************************)
(* The lease backends (crates/fnox-core/src/lease_backends): tasks create  *)
(* leases with one of the twelve services and revoke them.  The service is *)
(* external: it grants credentials that end at a time of its own, refuses, *)
(* or answers too late.  Vault may take its token from a command whose     *)
(* output is cached (credential_command.rs); GitHub OAuth keeps its token  *)
(* in the keyring and renews it with a refresh token that works once.      *)
(***************************************************************************)
EXTENDS Naturals, Sequences, FiniteSets

CONSTANTS
    Task,        \* tasks that create and revoke leases
    Kind,        \* the backends of this instance
    Durations,   \* lifetimes that are asked for
    Ttls,        \* lifetimes that the service gives
    Day, Hour,   \* a day, and the lifetime that is assumed when the answer says none
    MinDuration, \* MIN_DURATION_SECS of Kubernetes
    Buffer,      \* CACHE_REUSE_BUFFER_SECS
    HttpTimeout, \* the timeout of the HTTP client
    DeviceTtl,   \* how long a device code can be used
    CacheTtl,    \* DEFAULT_CACHE_TTL of credential_command
    None,
    LastStart,   \* bound: no command begins later
    MaxTime,     \* bound: time
    MaxGrants,   \* bound: credentials granted
    MaxCommands, \* bound: commands begun
    MaxToken     \* bound: tokens that the service has replaced

Kinds == {"aws-sts", "gcp-iam", "vault", "azure-token", "cloudflare", "github-app",
          "github-oauth", "gitlab", "kubernetes", "oauth2", "tailscale", "command"}

ASSUME LeaseBackendsAssumption ==
    /\ Kind \subseteq Kinds /\ Durations \subseteq Nat \ {0} /\ Ttls \subseteq Nat \ {0}
    /\ {Day, Hour} \subseteq Nat \ {0}
    /\ {MinDuration, Buffer, HttpTimeout, DeviceTtl, CacheTtl, LastStart, MaxTime, MaxGrants,
        MaxCommands, MaxToken} \subseteq Nat

VARIABLES
    kind,      \* the backend
    conf,      \* its configuration and the environment
    now,
    grants,    \* what the service has granted: [expires, alive, mints]
    task,      \* [Task -> record]
    leases,    \* leases handed out: [n, expires, said, known, creds]
    token,     \* the number of the token that Vault accepts
    slots,     \* CACHE of credential_command: slots[i] is a CachedToken or None; the last
               \* is the one in the map
    rejected,  \* history: tokens after whose rejection the slot was removed
    keyring,   \* CachedToken of github-oauth, or None
    usable,    \* refresh tokens that the service accepts, by the grant they came with
    lost,      \* history: used refresh tokens (0: none) whose replacement was not kept: its
               \* answer was lost or unreadable, the keyring could not be written, or the
               \* process was killed
    begun,     \* how many commands have begun
    dead       \* history: leases that a revoke reported as revoked

vars == <<kind, conf, now, grants, task, leases, token, slots, rejected, keyring, usable, lost, begun, dead>>

Idle == [at |-> "idle", op |-> None, asked |-> 0, sent |-> 0, n |-> 0, tok |-> 0, slot |-> 0,
         bad |-> {}, lease |-> None, mints |-> FALSE, interval |-> 0, deadline |-> 0]

\* Backends that read a credential from a variable; the others ask an SDK.
FromEnv == {"cloudflare", "gitlab", "oauth2", "tailscale", "github-app", "vault"}

\* valid: the constructor accepts the config; env: the variable with the credential is
\* "unset", "blank" or "set"; command: Vault's token comes from credential_command;
\* exchange: Tailscale has an OAuth client; inherit: Cloudflare has no policies of its
\* own; revokes: a revoke_command, or a revocation_url; interactive: the user is there.
Flags(k) ==
    [valid : BOOLEAN, env : IF k \in FromEnv THEN {"unset", "blank", "set"} ELSE {"set"},
     command : IF k = "vault" THEN BOOLEAN ELSE {FALSE},
     exchange : IF k = "tailscale" THEN BOOLEAN ELSE {FALSE},
     inherit : IF k = "cloudflare" THEN BOOLEAN ELSE {FALSE},
     revokes : IF k \in {"command", "oauth2"} THEN BOOLEAN ELSE {TRUE},
     interactive : IF k = "github-oauth" THEN BOOLEAN ELSE {FALSE}]

Init ==
    /\ kind \in Kind /\ conf \in Flags(kind)
    /\ now = 0 /\ grants = <<>> /\ leases = {}
    /\ task = [t \in Task |-> Idle]
    /\ token = 1 /\ slots = <<None>> /\ rejected = {}
    /\ keyring = None /\ usable = {} /\ lost = {} /\ begun = 0 /\ dead = {}

At(t, l) == task[t].at = l
Set(t, r) == task' = [task EXCEPT ![t] = r]
Goto(t, l) == Set(t, IF l = "idle" THEN Idle ELSE [task[t] EXCEPT !.at = l])

----------------------------------------------------------------------------
(* The credential that fnox itself needs. *)

\* env_credential of these takes a blank variable for an unset one.
Filtered == {"gitlab", "oauth2", "tailscale"}

\* check_prerequisites of each backend finds nothing missing.  Those that log in with an
\* SDK look for traces of a login, which does not say that it works.
CloudflareReady == conf.env # "unset"
GithubAppReady == conf.env # "unset"
VaultReady == conf.command \/ conf.env # "unset"

GitlabReady == conf.env = "set"

Oauth2Ready == conf.env = "set"
TailscaleReady == conf.env = "set"

Prerequisites ==
    CASE kind = "cloudflare" -> CloudflareReady
      [] kind = "github-app" -> GithubAppReady
      [] kind = "vault" -> VaultReady
      [] kind = "gitlab" -> GitlabReady
      [] kind = "oauth2" -> Oauth2Ready
      [] kind = "tailscale" -> TailscaleReady
      [] OTHER -> TRUE

\* The credential is not there when it is used.
Missing ==
    /\ kind \in FromEnv /\ ~conf.command
    /\ conf.env = "unset" \/ (conf.env = "blank" /\ kind \in Filtered)

\* Where a command goes on that has a credential: the call itself, for which an SDK
\* may find no login, or one that it needs before.
Auth(op) ==
    CASE kind = "vault" /\ conf.command -> {"slot"}
      [] kind = "tailscale" /\ conf.exchange -> {"exchange"}
      [] kind = "github-oauth" -> {"keyring"}
      [] kind = "cloudflare" /\ conf.inherit /\ op = "create" -> {"policies"}
      [] kind \in {"aws-sts", "gcp-iam", "azure-token", "kubernetes", "github-app"} -> {"send", "idle"}
      [] OTHER -> {"send"}

\* Backends whose record of the expiry depends on what was asked for.
Asks == {"gitlab", "tailscale", "oauth2"}

\* create_backend, then create_lease up to its first call.  Cloudflare's expires_on is set
\* before the policies of the parent are fetched.
BeginCreate(t) ==
    /\ At(t, "idle") /\ now <= LastStart /\ begun < MaxCommands /\ begun' = begun + 1
    /\ \E d \in Durations :
        LET r == [Idle EXCEPT !.op = "create", !.asked = IF kind \in Asks THEN d ELSE 0,
                              !.deadline = IF kind = "cloudflare" THEN now + d ELSE 0,
                              !.bad = rejected]
        IN  \E l \in CASE ~conf.valid -> {"idle"}
                        [] conf.valid /\ Missing -> {"missing"}
                        [] kind = "kubernetes" /\ d < MinDuration -> {"idle"}
                        [] OTHER -> Auth("create") :
                Set(t, IF l = "idle" THEN Idle ELSE [r EXCEPT !.at = l])
    /\ UNCHANGED <<kind, conf, now, grants, leases, token, slots, rejected, keyring, usable, lost, dead>>

\* What a revoke needs: nothing, when the service has no such call or the config names
\* none; the credentials of the lease, or only its ID.
Unrevocable == {"aws-sts", "gcp-iam", "azure-token", "github-oauth", "kubernetes"}
ByCredentials == {"github-app", "oauth2"}

\* create_backend and revoke_lease up to its first call.  The credentials are given
\* where the ledger has them and could decrypt them.
BeginRevoke(t) ==
    /\ At(t, "idle") /\ now <= LastStart /\ begun < MaxCommands /\ begun' = begun + 1
    /\ \E lease \in leases, creds \in BOOLEAN :
        LET r == [Idle EXCEPT !.op = "revoke", !.lease = lease, !.bad = rejected]
            done == kind \in Unrevocable \/ ~conf.revokes \/ (kind \in ByCredentials /\ ~creds)
        IN  \E l \in CASE done -> {"idle"}
                        [] ~done /\ kind = "github-app" -> {"send"}
                        [] OTHER -> Auth("revoke") :
                Set(t, IF l = "idle" THEN Idle ELSE [r EXCEPT !.at = l])
    /\ UNCHANGED <<kind, conf, now, grants, leases, token, slots, rejected, keyring, usable, lost, dead>>

\* exchange_oauth_client.
ExchangeOauthClient(t) ==
    /\ At(t, "exchange")
    /\ \E l \in {"send", "idle"} : Goto(t, l)
    /\ UNCHANGED <<kind, conf, now, grants, leases, token, slots, rejected, keyring, usable, lost, dead, begun>>

\* cf_api_call twice, each of which may fail; the child gets the groups of the parent
\* but those about tokens, and there must be some.
FetchParentPolicies(t) ==
    /\ At(t, "policies")
    /\ \/ Goto(t, "idle")
       \/ \E parent \in (SUBSET {"api tokens", "other"}) \ {{}} :
            LET cleaned == parent \ {"api tokens"}
            IN  IF cleaned = {} THEN Goto(t, "idle")
                ELSE Set(t, [task[t] EXCEPT !.at = "send", !.mints = "api tokens" \in cleaned])
    /\ UNCHANGED <<kind, conf, now, grants, leases, token, slots, rejected, keyring, usable, lost, dead, begun>>

----------------------------------------------------------------------------
(* credential_command: run and invalidate. *)

\* The slot of the command is cloned; its lock is taken in the next step.
CloneSlot(t) ==
    /\ At(t, "slot")
    /\ Set(t, [task[t] EXCEPT !.at = "command", !.slot = Len(slots)])
    /\ UNCHANGED <<kind, conf, now, grants, leases, token, slots, rejected, keyring, usable, lost, dead, begun>>

\* Under the lock: the cached token, or the output of the command.  Others wait for
\* the lock meanwhile, so that this is one step.
RunCommand(t) ==
    LET c == slots[task[t].slot]
    IN  /\ At(t, "command")
        /\ IF c # None /\ c.till > now
           THEN Set(t, [task[t] EXCEPT !.at = "send", !.tok = c.token]) /\ UNCHANGED slots
           ELSE \/ Goto(t, "idle") /\ UNCHANGED slots
                \/ /\ Set(t, [task[t] EXCEPT !.at = "send", !.tok = token])
                   /\ slots' = [slots EXCEPT ![task[t].slot] =
                                   [token |-> token, till |-> now + CacheTtl]]
        /\ UNCHANGED <<kind, conf, now, grants, leases, token, rejected, keyring, usable, lost, dead, begun>>

\* A run that begins later finds a new slot.
Invalidate(t) ==
    IF conf.command
    THEN slots' = Append(slots, None) /\ rejected' = rejected \union {task[t].tok}
    ELSE UNCHANGED <<slots, rejected>>

\* The service replaces the token; the command prints the new one from now on.
Rotate ==
    /\ kind = "vault" /\ conf.command /\ token < MaxToken /\ token' = token + 1
    /\ UNCHANGED <<kind, conf, now, grants, task, leases, slots, rejected, keyring, usable, lost, dead, begun>>

----------------------------------------------------------------------------
(* The call that creates or revokes. *)

Send(t) ==
    /\ At(t, "send")
    /\ Set(t, [task[t] EXCEPT !.at = "wait", !.sent = now])
    /\ UNCHANGED <<kind, conf, now, grants, leases, token, slots, rejected, keyring, usable, lost, dead, begun>>

\* GitLab tokens end at the start of a day: the one after the day on which the lease ends.
GitlabExpiry(end) == (end \div Day + 1) * Day

\* When the service will end what it grants now.
GrantEnds(t, ttl) ==
    CASE kind = "cloudflare" -> task[t].deadline
      [] kind = "gitlab" -> GitlabExpiry(task[t].sent + task[t].asked)
      [] OTHER -> now + ttl

\* The service grants, or refuses what Vault's replaced tokens ask for; a revoke ends the
\* grant, and is told if that has happened before.
Serve(t) ==
    LET x == task[t]  accepted == kind # "vault" \/ ~conf.command \/ x.tok = token
    IN  /\ At(t, "wait")
        /\ \/ Goto(t, IF x.op = "create" THEN "idle" ELSE "error") /\ UNCHANGED grants
           \/ ~accepted /\ Goto(t, "refused") /\ UNCHANGED grants
           \/ /\ accepted /\ x.op = "create" /\ Len(grants) < MaxGrants
              /\ \E ttl \in Ttls :
                  grants' = Append(grants, [expires |-> GrantEnds(t, ttl), alive |-> TRUE, mints |-> x.mints])
              /\ Set(t, [x EXCEPT !.at = "granted", !.n = Len(grants) + 1])
           \/ /\ accepted /\ x.op = "revoke"
              /\ IF x.lease.known
                 THEN /\ grants' = [grants EXCEPT ![x.lease.n].alive = FALSE]
                      /\ \E a \in IF grants[x.lease.n].alive THEN {"ok"} ELSE {"ok", "gone", "error"} :
                            Goto(t, a)
                 ELSE (\E a \in {"ok", "error"} : Goto(t, a)) /\ UNCHANGED grants
        /\ UNCHANGED <<kind, conf, now, leases, token, slots, rejected, keyring, usable, lost, dead, begun>>

\* create_lease of each backend: the expiry it records, for an answer that says when the
\* credential ends or does not (said).  Some then assume an expiry, some record none.
AwsSts(ends, said) == IF said THEN ends ELSE None
GcpIam(ends, said) == IF said THEN ends ELSE None
AzureToken(ends, said) == IF said THEN ends ELSE None
Command(ends, said) == IF said THEN ends ELSE None
Kubernetes(ends) == ends
Cloudflare(t) == task[t].deadline
Gitlab(t) == task[t].sent + task[t].asked
Tailscale(t, ends, said) == IF said THEN ends ELSE now + task[t].asked
GithubApp(ends, said) == IF said THEN ends ELSE now + Hour
Oauth2(t, ends, said) == now + (IF said THEN ends - task[t].sent ELSE task[t].asked)
Vault(t, ends, said) == IF said THEN now + (ends - task[t].sent) ELSE None

Recorded(t, ends, said) ==
    CASE kind = "aws-sts" -> AwsSts(ends, said)
      [] kind = "gcp-iam" -> GcpIam(ends, said)
      [] kind = "azure-token" -> AzureToken(ends, said)
      [] kind = "command" -> Command(ends, said)
      [] kind = "kubernetes" -> Kubernetes(ends)
      [] kind = "cloudflare" -> Cloudflare(t)
      [] kind = "gitlab" -> Gitlab(t)
      [] kind = "tailscale" -> Tailscale(t, ends, said)
      [] kind = "github-app" -> GithubApp(ends, said)
      [] kind = "oauth2" -> Oauth2(t, ends, said)
      [] kind = "vault" -> Vault(t, ends, said)

\* known: the service knows the lease by the ID or the credentials that are recorded.
\* Vault and the command may answer without an ID; fnox then makes one up.
Granted(t) ==
    /\ At(t, "granted")
    /\ \/ Goto(t, "idle") /\ UNCHANGED leases   \* a field of the answer is missing
       \/ \E said \in (IF kind = "kubernetes" THEN {TRUE} ELSE BOOLEAN),
             id \in (IF kind \in {"vault", "command"} THEN BOOLEAN ELSE {TRUE}) :
            /\ leases' = leases \union
                   {[n |-> task[t].n, expires |-> Recorded(t, grants[task[t].n].expires, said),
                     said |-> said, known |-> id]}
            /\ Goto(t, "idle")
    /\ UNCHANGED <<kind, conf, now, grants, token, slots, rejected, keyring, usable, lost, dead, begun>>

\* Mutant: every answer to a revoke counts.
RevokedAnyway == {"ok", "gone", "error"}

\* revoke_lease of each backend: the answers after which it reports the lease revoked.
\* Four take 404 for it.
CloudflareRevoked == {"ok", "gone"}
GitlabRevoked == {"ok", "gone"}
TailscaleRevoked == {"ok", "gone"}
GithubAppRevoked == {"ok", "gone"}
Oauth2Revoked == {"ok"}
VaultRevoked == {"ok"}
CommandRevoked == {"ok"}

RevokedBy ==
    CASE kind = "cloudflare" -> CloudflareRevoked
      [] kind = "gitlab" -> GitlabRevoked
      [] kind = "tailscale" -> TailscaleRevoked
      [] kind = "github-app" -> GithubAppRevoked
      [] kind = "oauth2" -> Oauth2Revoked
      [] kind = "vault" -> VaultRevoked
      [] kind = "command" -> CommandRevoked

Revoked(t) ==
    /\ task[t].op = "revoke" /\ task[t].at \in {"ok", "gone", "error"}
    /\ IF task[t].at \in RevokedBy
       THEN Goto(t, "idle") /\ dead' = dead \union {task[t].lease}
       ELSE Goto(t, "idle") /\ UNCHANGED dead
    /\ UNCHANGED <<kind, conf, now, grants, leases, token, slots, rejected, keyring, usable, lost, begun>>

\* 401 and 403: Vault's command is run again next time.
Refused(t) ==
    /\ At(t, "refused") /\ Goto(t, "idle") /\ Invalidate(t)
    /\ UNCHANGED <<kind, conf, now, grants, leases, token, keyring, usable, lost, dead, begun>>

\* The client gives up, whatever the service has done.
Timeout(t) ==
    /\ task[t].at \in {"wait", "granted", "ok", "gone", "refused", "error"}
    /\ now >= task[t].sent + HttpTimeout
    /\ Goto(t, "idle")
    /\ UNCHANGED <<kind, conf, now, grants, leases, token, slots, rejected, keyring, usable, lost, dead, begun>>

----------------------------------------------------------------------------
(* GitHub OAuth: create_or_load_token. *)

Lasts(c) == c.expires > now + Buffer
LeaseOf(c) == [n |-> c.n, expires |-> c.expires, said |-> TRUE, known |-> FALSE]

\* A cached token that lasts; else a refresh, if there is a refresh token; else the user.
\* A keyring that cannot be read, or is not to be used, counts as empty.
LoadToken(t) ==
    /\ At(t, "keyring")
    /\ \E cached \in {keyring, None} :
        IF cached # None /\ Lasts(cached)
        THEN leases' = leases \union {LeaseOf(cached)} /\ Goto(t, "idle")
        ELSE /\ IF cached # None /\ cached.refresh
                THEN Set(t, [task[t] EXCEPT !.at = "refresh", !.tok = cached.n])
                ELSE Goto(t, IF conf.interactive THEN "device" ELSE "idle")
             /\ UNCHANGED leases
    /\ UNCHANGED <<kind, conf, now, grants, token, slots, rejected, keyring, usable, lost, dead, begun>>

\* The service grants a new pair, and the old refresh token is used up.
NewPair(t, old) ==
    \E ttl \in Ttls, refresh \in BOOLEAN :
        /\ grants' = Append(grants, [expires |-> now + ttl, alive |-> TRUE, mints |-> FALSE])
        /\ usable' = (usable \ old) \union (IF refresh THEN {Len(grants) + 1} ELSE {})
        /\ Set(t, [task[t] EXCEPT !.at = "write", !.n = Len(grants) + 1, !.sent = now,
                      !.lease = [n |-> Len(grants) + 1, expires |-> now + ttl, refresh |-> refresh]])

\* refresh_access_token: an error that the service names, or an expired refresh token,
\* sends the user to log in again; other errors fail, also when the service has used up
\* the token but its answer does not arrive, cannot be read or has no access_token.
RefreshAccessToken(t) ==
    /\ At(t, "refresh")
    /\ \/ task[t].tok \in usable /\ Len(grants) < MaxGrants /\ NewPair(t, {task[t].tok}) /\ UNCHANGED lost
       \/ /\ IF conf.interactive THEN Set(t, [task[t] EXCEPT !.at = "device", !.tok = 0]) ELSE Goto(t, "idle")
          /\ UNCHANGED <<grants, usable, lost>>
       \/ Goto(t, "idle") /\ UNCHANGED <<grants, usable, lost>>
       \/ /\ task[t].tok \in usable /\ Goto(t, "idle")
          /\ usable' = usable \ {task[t].tok} /\ lost' = lost \union {task[t].tok}
          /\ UNCHANGED grants
    /\ UNCHANGED <<kind, conf, now, leases, token, slots, rejected, keyring, dead, begun>>

\* What is not written is lost, and what it would have replaced stays.
NotWritten(t) == keyring' = keyring /\ lost' = lost \union {task[t].tok}

\* Mutant: what the refresh gave does not replace what is there.
WriteCachedOnce(t) ==
    \/ keyring' = (IF keyring = None THEN task[t].lease ELSE keyring) /\ UNCHANGED lost
    \/ NotWritten(t)

\* write_cached_token gives up without an error.
WriteCached(t) ==
    \/ keyring' = task[t].lease /\ UNCHANGED lost
    \/ NotWritten(t)

\* token_response_to_cache: the lifetime counts from when the answer is there.
StoreToken(t) ==
    /\ At(t, "write") /\ WriteCached(t)
    /\ leases' = leases \union {LeaseOf(task[t].lease)} /\ Goto(t, "idle")
    /\ UNCHANGED <<kind, conf, now, grants, token, slots, rejected, usable, dead, begun>>

\* The process is killed before it has stored the new pair.
Killed(t) ==
    /\ At(t, "write") /\ NotWritten(t) /\ Goto(t, "idle")
    /\ UNCHANGED <<kind, conf, now, grants, leases, token, slots, rejected, usable, dead, begun>>

CreateDeviceCode(t) ==
    /\ At(t, "device")
    /\ \/ Goto(t, "idle")
       \/ Set(t, [task[t] EXCEPT !.at = "poll", !.sent = now, !.interval = 1, !.deadline = now + DeviceTtl])
    /\ UNCHANGED <<kind, conf, now, grants, leases, token, slots, rejected, keyring, usable, lost, dead, begun>>

\* Mutant: the deadline of the device code is not looked at.
PastDeadlineNever(t) == FALSE

PastDeadline(t) == now >= task[t].deadline

\* One round of poll_access_token: the user has agreed, has refused, or is still asked; the
\* next round (due at `sent`) is after the interval, which the service may lengthen.
PollAccessToken(t) ==
    LET x == task[t]
    IN  /\ At(t, "poll") /\ now >= x.sent
        /\ \/ PastDeadline(t) /\ Goto(t, "idle") /\ UNCHANGED <<grants, usable>>
           \/ /\ ~PastDeadline(t)
              /\ \/ Len(grants) < MaxGrants /\ NewPair(t, {})
                 \/ Goto(t, "idle") /\ UNCHANGED <<grants, usable>>
                 \/ \E more \in {0, 1} :
                     /\ Set(t, [x EXCEPT !.interval = @ + more, !.sent = now + x.interval + more])
                     /\ UNCHANGED <<grants, usable>>
        /\ UNCHANGED <<kind, conf, now, leases, token, slots, rejected, keyring, lost, dead, begun>>

----------------------------------------------------------------------------
\* The error that a credential is missing.
ReportMissing(t) ==
    /\ At(t, "missing") /\ Goto(t, "idle")
    /\ UNCHANGED <<kind, conf, now, grants, leases, token, slots, rejected, keyring, usable, lost, dead, begun>>

\* Time passes; the client's timeout is not overslept.  After LastStart it passes only
\* while all tasks wait, so that MaxTime is enough for what has begun.
Tick ==
    /\ now < MaxTime /\ now' = now + 1
    /\ now >= LastStart => \A t \in Task :
           task[t].at \in {"idle", "wait", "granted"} \/ (task[t].at = "poll" /\ now < task[t].sent)
    /\ \A t \in Task :
        task[t].at \in {"wait", "granted", "ok", "gone", "refused", "error"} =>
            now < task[t].sent + HttpTimeout
    /\ UNCHANGED <<kind, conf, grants, task, leases, token, slots, rejected, keyring, usable, lost, dead, begun>>

Run(t) ==
    \/ ExchangeOauthClient(t) \/ FetchParentPolicies(t) \/ CloneSlot(t) \/ RunCommand(t)
    \/ Send(t) \/ Granted(t) \/ Revoked(t) \/ Refused(t) \/ Timeout(t)
    \/ LoadToken(t) \/ RefreshAccessToken(t) \/ StoreToken(t) \/ CreateDeviceCode(t)
    \/ PollAccessToken(t) \/ ReportMissing(t)

Next ==
    \/ \E t \in Task : BeginCreate(t) \/ BeginRevoke(t) \/ Serve(t) \/ Run(t) \/ Killed(t)
    \/ Rotate \/ Tick

\* The process goes on and time passes; the service need not answer.
Spec == Init /\ [][Next]_vars /\ WF_vars(Tick) /\ \A t \in Task : WF_vars(Run(t))

----------------------------------------------------------------------------
(* Properties. *)

\* The types of the variables: leases and cached tokens name grants that were made.
TypeOK ==
    /\ kind \in Kind /\ conf \in Flags(kind) /\ now \in 0 .. MaxTime
    /\ \A i \in DOMAIN grants : grants[i].expires \in Nat /\ grants[i].alive \in BOOLEAN
    /\ \A l \in leases \union dead : l.n \in DOMAIN grants /\ l.expires \in Nat \union {None}
    /\ usable \subseteq DOMAIN grants /\ lost \subseteq Nat
    /\ \A t \in Task :
        /\ task[t].slot \in 0 .. Len(slots) /\ task[t].n \in 0 .. Len(grants)
        /\ task[t].at = "granted" => task[t].n > 0
    /\ keyring = None \/ keyring.n \in DOMAIN grants

\* These services state a lifetime, which fnox counts from the answer.
Relative == {"vault", "oauth2"}

\* A lease whose end the service has stated does not outlive, by its record, what the
\* service grants by more than a request may take; the buffer of the ledger is longer.
\* Where fnox sets the end, or the service names the time, it is not outlived at all.
ExpirySound ==
    \A l \in leases : l.said /\ l.expires # None =>
        l.expires <= grants[l.n].expires + (IF kind \in Relative THEN HttpTimeout ELSE 0)

\* What a revoke reported as revoked is dead at the service, if the service knows it; also
\* after an earlier revoke whose answer was lost.
RevokedIsDead == \A l \in dead : l.known => ~grants[l.n].alive

\* A lease of Cloudflare that inherits from its parent cannot create tokens.
ChildCannotMint == \A i \in DOMAIN grants : ~grants[i].mints

\* A token that Vault has rejected is not sent by a command that began after that.
RejectedNotReused == \A t \in Task : task[t].at = "wait" => task[t].tok \notin task[t].bad

\* A command whose credential is missing was not told otherwise by check_prerequisites.
PrerequisitesHold == \A t \in Task : task[t].at = "missing" => ~Prerequisites

\* The refresh token of the keyring works, unless the task that has just used it holds the
\* newer one: another process that lost the race for the old one does not put it back.  The
\* faults that leave a dead token there are named in `lost`; after one of them the next
\* refresh is refused and the user logs in again.
RefreshKept ==
    keyring # None /\ keyring.refresh =>
        \/ keyring.n \in usable \union lost
        \/ \E t \in Task : At(t, "write") /\ task[t].tok = keyring.n

\* Every command ends, whatever the service does and the user does not do.
Ends == \A t \in Task : []<>(task[t].at = "idle")

\* What fnox says of a lease is true at its service: when it ends, that it is revoked, what
\* it may do, and that what it needs is there.
ReportsTrue == TypeOK /\ ExpirySound /\ RevokedIsDead /\ ChildCannotMint /\ PrerequisitesHold

\* Tokens that tasks share through a cache or the keyring are the newest that work.
TokensSound == RejectedNotReused /\ RefreshKept
=============================================================================
