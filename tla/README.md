# A TLA+ development for fnox

fnox resolves secrets from many providers, hands them to shells, commands and
tools, keeps them in a per-project daemon, and issues short-lived credentials
(leases). This directory models the parts of fnox in which several processes,
tasks or steps can go wrong together, checks them with TLC on small instances,
and proves the most important results for all instances with TLAPS.

`PROJECT.json` is the index: components, runs, the source lines behind every
definition, a mutant for every property (a plausible bug that the property
catches), findings, hazards and theorems.

Contents: 1 inventory, 2 modules, 3 runs, 4 proofs, 5 known limits of the code,
6 what is left, 7 not modelled.

## 1. Inventory

| part | state | operations | interacts with |
| --- | --- | --- | --- |
| daemon (`src/src/daemon.rs`, wire format in `crates/fnox-client/src/wire.rs`) | cache of resolved values, clear epochs, one `request_lock`, a socket | resolve a batch, one secret or an environment; hand resolution to the client ("foreground") and take the values back; clear; stop; start on demand | every command that reads secrets; the resolver; config files |
| secret resolver (`crates/fnox-core/src/secret_resolver.rs`) | per batch: dependency levels, results, process environment | resolve a batch, one secret, dependency closures | providers, config; called by commands and the daemon |
| providers (`crates/fnox-core/src/providers/`) | sessions, cached passwords, locks, once-cells; what services and tokens keep | read one secret or a batch, put, encrypt, decrypt, log in | services and command-line tools, the user, each other (identities and credentials kept elsewhere) |
| plugins (`crates/fnox-core/src/plugins.rs`) | a directory per plugin | install, link, update, uninstall, first use | git; several fnox processes |
| leases (`crates/fnox-core/src/lease.rs`, `src/src/commands/lease.rs`) | a ledger file per project and its `.lock` | reuse or create (exec, get, env), create, revoke, cleanup, list | lease backends; several fnox processes |
| lease backends (`crates/fnox-core/src/lease_backends/`) | cached tokens of credential commands, GitHub session in the keyring | create, revoke, check prerequisites | twelve services |
| config (`crates/fnox-core/src/config.rs`) | files of the directory and its parents, merged, with profiles | load, discover, import, merge, inherit | everything |
| edits (`src/src/commands/{set,remove,edit,import,sync,reencrypt,init}.rs`, `provider/`) | the files | load, work out, put or encrypt, write back | config, providers |
| child environments (`src/src/child_env.rs`, `commands/exec.rs`) | none; a child, its output, temporary files | select, resolve, assemble, run, redact, drain | exec, env, shell, MCP |
| MCP server (`src/src/mcp_server.rs`) | once-cell, value cache | `get_secret`, `exec` as concurrent calls | daemon, resolver |
| credential proxy and sandbox (`src/src/proxy.rs`, `commands/proxy.rs`, `sandbox.rs`) | rules, placeholders, connections, mount points | authorize, connect, inject, redact, clean up | a child, DNS, upstreams |
| shell integration (`src/src/hook_env.rs`) | a session in an environment variable, files | hook at every prompt | config, resolver |
| dashboard (`src/src/tui/`) | list, selection, popups, background resolutions | keys, mouse, results | resolver, config |
| redaction and scanning, audit log, settings, templates, fnox-client | little | | |

What is hard: requests that overlap with clears and with the daemon's end; state
that is read under a lock, used after the lock is dropped and written back
later; a kill between a remote call and the write that records it; the order of
provider calls, computed from a graph that users write; batches that must give
what single reads give; services that answer late, twice or not at all; results
that arrive after the user has moved on; text that is cut anywhere and must still
be redacted. `PROJECT.json` lists these hazards at their lines, with the
properties that cover them or the reason why none does.

What makes each part correct:

* **Daemon.** A clear is final: no value that a provider gave before it is
  returned or cached afterwards. Secrets excluded from caching are read again.
  An entry answers only requests of the configuration that resolved it. Every
  request is answered. A daemon keeps its socket path until it has drained, and
  its exit never removes another's; commands do not wait for a daemon that will
  not look at them; a daemon that nobody needs ends.
* **Resolver.** Providers are asked after the variables they read are set. A
  batch is complete and honours `if_missing` and defaults. Resolution ends.
* **Providers.** A batch agrees with single reads; failures to log in are
  reported as such; what a put acknowledged stays; the user is asked once; what
  was encrypted can be read; what is unplugged, torn or locked is given back.
* **Plugins.** What is in place is whole, is what its record says, and runs only
  for projects that declare it; a failed replacement leaves the old one.
* **Leases.** No process undoes what another wrote. A revoked lease never comes
  back. What the ledger offers has not been revoked at its backend, fits the
  configuration and was not revoked before the command began. Recorded expiries
  and revocations are true at the service.
* **Config and edits.** What a selection of profiles reads follows the documented
  order; a command changes what it was asked to change and nothing else; a
  reference never names nothing.
* **Delivery.** Each program gets what it may have and nothing else: in its
  environment, in requests, in responses, in its output and on disk, and nothing
  is left when it ends.

## 2. Modules

| module | models | composed in |
| --- | --- | --- |
| `DaemonCache` | the daemon's cache with its clients | |
| `ClearableCache` | abstract: what a cache with clears promises; `DaemonCache` refines it | |
| `DaemonLifecycle` | the daemon as a process, and the commands that start, use and stop it | |
| `SecretResolver` | the resolution of one batch | |
| `LeaseLedger` | the ledger and the processes that share it | |
| `LeaseBackends` | the twelve backends, credential commands and the GitHub session | |
| `ConfigLayers` | loading and merging as operators | `ConfigEdits` |
| `ConfigEdits` | the commands that write files | |
| `ProviderStore`, `ProviderReads`, `ProviderWrites` | items at a service, batch and single reads, puts | `RemoteProviders` |
| `AgeIdentity` | providers that need other providers, and the shared decrypts of age | `LocalProviders` |
| `LocalSecrets` | tokens, vaults, files, plugins in use and key services | `LocalProviders` |
| `PluginStore` | the directory of a plugin | `LocalProviders` |
| `ChildEnv`, `Redaction`, `SandboxPolicy` | pure: environments, redaction, sandbox policies | the next rows |
| `ExecSession` | `fnox exec` | `Delivery` |
| `McpServer` | the MCP server | `Delivery` |
| `CredentialProxy` | `fnox proxy run` | `Delivery` |
| `ShellHook` | the shell hook | `Delivery` |
| `SecretViewer` | the dashboard | `Delivery` |
| `DaemonProofs`, `SecretResolverProofs`, `LeaseLedgerProofs` | the TLAPS proofs of the core | |
| `LeaseBackendsProofs`, `RemoteProvidersProofs`, `LocalProvidersProofs`, `ConfigEditsProofs`, `DeliveryProofs` | the TLAPS proofs of backends, providers, what is local, config files, and consumers | |
| `MC*` | instances for TLC | |

`RemoteProviders`, `LocalProviders` and `Delivery` put parts side by side that
share no state in the code: one of them is started, the others are idle. They
share operators (`ProviderStore`, `ChildEnv`, `Redaction`) and their runs.

### DaemonCache

State: what providers would return now (`vault`, a version per secret), the
config files (`config`), the daemon process (`alive`, `incarnation`), its
`DaemonState` (`cache`, `epoch`, `fullClearEpoch`, `keyClearEpochs`),
`requestLock`, and for each client its request, what the daemon told it (`job`)
and the values so far. A value is abstracted to its origin: the version, the
configuration it was resolved with, the fingerprint and the daemon process of
the request. The cache key is the record of what the code hashes.

| action | code |
| --- | --- |
| `Begin`, `Send`, `Return` | `resolve_batch_with_context`, `call_or_start` (starts a daemon when the socket is missing) |
| `Load` | `process_request` takes `request_lock` and loads the configuration |
| `ForegroundCheck` | `foreground_resolution_if_needed`: hand over with fingerprint and epoch |
| `CacheLookup`, `ProviderRead`, `ResolveFinish`, `ResolveFail` | `resolve_with_cache_tracking`; provider reads are steps of their own, so rotations and edits fall between them |
| `EnvLookup` | `resolve_env_response` for `fnox-client` |
| `SendStore`, `StoreLoad`, `StoreResolved` | the write-back: `store_foreground_values`, `store_resolved_values` |
| `Clear` | `clear`, `refresh` under `request_lock`; `ClearState` is `DaemonState::clear` |
| `Stop` | the process ends (stop, idle timeout, kill); open requests fail |
| `Rotate`, `EditConfig` | the world |

`ClearableCache` has clears that happen at one instant and are final for the
process that handled them. `RefinesClearableCache` maps the cache to its store
and the number of ended processes to its generation; locks, epochs and clients
are hidden.

### DaemonLifecycle

`DaemonCache` has one daemon that starts and stops in one step; here are the
steps. The socket path is a file that names a listener, perhaps of a dead
process. `Look`, `Probe`, `Remove`, `Bind`, `Listen` and `Secure` are
`Listener::bind`, with the moment between bind(2) and listen(2) in which
connections are refused. `Accept`, `Respond`, `LeaveLoop` (a stop or the idle
timeout), `Abort` (the end of the grace period), `Unlink` and `Exit` are `serve`:
the listener stays open, and the path in place, until all requests are drained,
so connections made meanwhile wait in the backlog and are closed at the end.
`Connect`, `Missing`, `Spawn` and `Poll` are `call_or_start` and
`start_background_for_context`. A probing daemon's own connection is dropped at
once and is left out. `stolen` is history: some `Remove` took the path from a
daemon that was running.

### SecretResolver

One batch, from classification to the result. The configurations of the secrets
are chosen in `Init` from a set of records (`Configs`), so a run covers all
batches over that set. `Plan` checks required defaults and counts dependencies;
`NextLevel` is a round of Kahn's algorithm (the code computes all rounds before
the first level, which nothing in between can observe); the providers of a level
run concurrently through `CallProvider` (with one retry after a login),
`FallbackPass` and `Settle`; `EndLevel` adds the secrets without provider and
sets the environment; `Cycle` deals with what Kahn's algorithm leaves over. A
pass of `resolve_default_fallbacks` visits its keys in hash order, so the model
allows every order. A default is the set of names it refers to; values are named
after their source.

### LeaseLedger

The file, the lock, a clock, the leases issued by the backends and which of them
are still live there. `exec` and `get` hold the lock only to read or to append
(`PreCheck`, `CheckCache`, `Record`); creation and decryption run without it.
`lease create`, `revoke` and `cleanup` hold it throughout (`Lock` to `Leave`).
`Crash` kills a process anywhere; the operating system drops its lock. `save`
compacts, so `Saved` is part of every write. History variables: `revoked`
(reported as revoked), `seen` (`revoked` when the command began), `unsure`
(revoked at the backend by a command that did not finish). `Versions` says whether a
record may come from a version of fnox that kept no `config_hash`.

### LeaseBackends

A clock, one of the twelve backends with its configuration and environment, the
service's grants with their true ends, the leases recorded, and tasks.
`BeginCreate` and `BeginRevoke` run up to the first call; `Send`, `Serve` and
`Timeout` are a call whose answer may fail, be late or never come; `Granted` is
what each backend makes of an answer (one operator per backend: `AwsSts`,
`Gitlab`, `Vault`, ...); `Revoked` with the answers each backend takes for done;
`CloneSlot`, `RunCommand`, `Invalidate` are the cache of a credential command;
`LoadToken`, `RefreshAccessToken`, `WriteCached`, `CreateDeviceCode` and
`PollAccessToken` the GitHub session; `FetchParentPolicies` the policies a
Cloudflare token inherits. The keyring may refuse a write, and the answer to a
refresh may be lost after the service has used the token; `lost` is the history of
the refresh tokens that were used up in this way.

### ConfigLayers and ConfigEdits

A file is a directory and a name, with a root table, tables of profiles and
imports; an entry is its provider, value, sync cache and whether it is local. The
file system `fs` is a function on the files that exist, `remote` one on the names
that the remote store has. `ConfigLayers` translates `load_recursive`, the order of
file names, imports, `merge`, `resolve_profiles` and the readers `get_secret` and
`get_secrets`, with recursive functions. The recursion over inherited profiles goes
at most `Depth` deep, one more than there are profiles, since a path that has a
profile twice is refused as a cycle.
`ConfigEdits` runs one command per process: `LoadLayers` (once per round of
discovery), then the steps of the command (`SetSecret`, `PutSecret`,
`RemoveSecret`, `ImportSecrets`, `SyncSecrets`, `Reencrypt`, `EditOpen`,
`EditClose`, `InitConfig`, `ProviderAdd`, `ProviderRemove`; what `edit` stores anew it
stores with the configuration of the document itself, `ModifiedConfig`), then for each file
`SaveRead`, `Truncate` and `Fill`, since the code reads the document again, and
`fs::write` empties a file before it fills it. `Crash` may come in between.

### ProviderReads and ProviderWrites

A reference is a tuple of segments; the store has items with fields. For each
provider `Get` is its `get_secret` and `Plan` how its `get_secrets_batch`
cuts a batch into calls (one per secret, chunks of a limit, one download, one
`op inject`); a call answers all its keys in one step, and the world may change
between calls. `Printed` is what is left of a text that a tool prints when `get_secret`
has trimmed it; most batches read JSON or files, and do not trim. `ProviderWrites` has one step per call of a put, for the
create-or-update sequences of AWS, Google and Azure, Vault's compare
and set, Bitwarden's copies, FOKS's login and KeePass's database. `overlap` and
`purged` are history: whether two puts ran at the same time, and which of Vault's
secrets were removed together with their versions.

### AgeIdentity, LocalSecrets, PluginStore

`AgeIdentity`: each task is a stack of calls from provider to provider (fields
that are secrets, identities kept elsewhere); `cells` is `DECRYPT_SCOPE`, one
cell per wrapped key; `IsReentrant` is the code's check for a provider that waits
for itself. `LocalSecrets`: passwords and hardware secrets that a process caches,
its locks, once-cells of files and plugins, the YubiKey's frames with torn and
foreign ones, KeePass references with both limits, and a user who mistypes,
unplugs, edits and restarts. `PluginStore`: one step per rename, git command and
record, with the undoing of a failed update or replacement; all of them may fail, and
a process may be killed.

### Delivery

* `ChildEnv` has `select`, `resolve_set` and `assemble`; `ExecSession` runs a
  plan: leases, environment, files, the child, one copying thread per stream with
  its two flags, and the drain loop with its windows.
* `Redaction`: leftmost-longest redaction of a text, of a stream with what is
  held back (`SafeEnd`), and the proxy's ordered search with encoded forms.
* `McpServer`: calls share the once-cell of the batch, the cache and the server's own
  environment, which commands inherit.
* `CredentialProxy`: set-up, plan, sandbox, connections (resolve, check,
  connect), requests (authorize, inject), responses (redact), end by itself or by
  a signal, clean-up. `SandboxPolicy` computes what Linux mounts and the macOS
  profile let a child read and write.
* `ShellHook`: a prompt compares session and world, loads, records, exports;
  between prompts the user moves, edits, sets variables that change what is loaded,
  and deactivates; old files may resist removal.
* `SecretViewer`: the event loop, popups, filter, selection, profile switches,
  and resolutions that end late, failed or out of order.

## 3. Runs

A run's properties are often conjunctions of named parts, each stated and
commented in its module; the table names the parts.

| run | properties (parts) | instance and bounds |
| --- | --- | --- |
| `cache_clear` | `NoStaleEntry`, `FreshAnswer`, `RefinesClearableCache` | 2 clients, 1 secret, 2 rotations, 2 clears, 1 restart: enough for "resolve old, clear, write back, clear again" |
| `cache_config` | `ResolvedAsKeyed`, `Answered` | 2 clients, an edit to and fro that changes a provider and turns caching off; no rotation, clear or restart (those are in `cache_clear`; a daemon that dies under its clients is in `lifecycle`) |
| `lifecycle` | `OwnsSocket`, `AllComeToEnd` (`NoCommandStuck`, `UnneededEnds`) | 2 commands, 2 daemons, one of which may have died before and left its socket, 1 kill, 1 poll |
| `lease_commands` | `RevokedForGood`, `OfferedIsLive`, `RecordsKept` | 2 processes; get, revoke --all, cleanup; 2 leases with one ID or two, clock 0..1, lifetime 1, retention 1: leases expire, are pruned and cleaned |
| `lease_reuse` | `ReuseSound`, `Finishes` | 2 processes, 1 lease, 2 configurations: reuse concerns one lease at a time; lifetime 0 or none, so that cleanup has work without a clock |
| `resolver_batch` | `BatchSound` (`Complete`, `DefaultUsed`, `BadDefaultsRejected`), `DependenciesFirst`, `Ends` | every batch of up to 3 secrets over 21 configurations of a secret, with providers that need each other's secrets, synced copies, a default provider, one that prompts, one not configured, and defaults that refer to any name |
| `remote_providers` | `ReadsAgree` (`BatchAgrees`, `LoginReported`), `PutsSound` (`AckedKept`, `CreateTogether`, `LogsInOnce`) | 15 readers: batches of up to 3 references (duplicates, bad ones), texts of one and of several lines, chunks of 2, 1 change of store or service; 11 writers: 3 processes, 2 faults or deletions |
| `lease_backends` | `ReportsTrue` (`ExpirySound`, `RevokedIsDead`, `ChildCannotMint`, `PrerequisitesHold`), `TokensSound` (`RejectedNotReused`, `RefreshKept`), `Ends` | 12 backends, 2 tasks, 3 commands, 2 grants, days of 2 units, so that a date rounds; time up to 5, requests time out after 1 |
| `config_edits` | `LoadsSound` (`TypeOK`, `AncestorsFirst`, `ReferencesResolve`), `Precedence`, `EditsSound` (`SetIsRead`, `OthersUntouched`, `SyncTransparent`, `Reencrypted`), `Ends` | 2 processes, any 2 of 17 command lines, 6 file systems with parents, imports, two profiles that inherit, local and profile files, synced entries |
| `edit_shadowed` | `UnchangedKept` (violated, see Findings) | one `edit` |
| `local_providers` | `UnlockedOnce` (`CellsOwned`, `OpenedOnce`, `AcceptedOnly`, `AskedOnce`), `ReadsSound` (`Readable`, `OneState`), `RefsSettled`, `PluginSound` (`WholeCheckout`, `RecordTrue`, `RunsDeclared`), `PutBack` (`DriverRestored`, `KeptOnFailure`), `AllEnd` (`AgeAnswered`, `Ends`) | 2 tasks over all configurations of two age providers and one more; 2 tasks, 3 operations and 1 change of the world over 11 local providers; 3 processes over one plugin with 2 sources and 1 kill |
| `delivery` | `ProxySound` (`SentAuthorised`, `ConnectedPermitted`), `BlindChild` (`ChildBlind`, `SandboxHolds`), `NothingEchoed`, `EnvironmentRight` (`ScopeKept`, `CredentialOnly`, `Accounted`, `DescribedRight`), `OutputRight` (`StreamAgrees`, `OutputKept`), `CleanedUp` (`ProxyCleaned`, `FilesBracket`, `HookFiles`), `McpSound` (`SameAnswer`, `ExecSecretsOnly`), `HookFresh`, `ViewSound` (`ShownCurrent`, `TypedKept`, `IndexesValid`, `LoadingPending`), `DeliveryEnds` (`ExecEnds`, `CallsEnd`, `HookRetries`) | proxy: hand-picked sessions with overlapping values (one with white space around it), rules and addresses, 1 connection; exec: plans over 3 secrets and leases, 2 streams of up to 3 characters; MCP: 2 calls, 2 versions, two names in the environment that the server was started with; hook: 2 directories, 2 edits, 2 events, two file secrets, 1 file that cannot be removed; dashboard: 3 kinds of profile, 2 loads |

Why two actors: every race described in the code is between one actor and one
interfering actor; the proofs cover any number of them (section 4).
Three writers and three plugin users are there because "create, lose, retry" needs
a third. Names of bounds are the constants `Max...` of each module. The purely
sequential parts (`ChildEnv`, `Redaction`, `SandboxPolicy`, `ConfigLayers`) are
checked over the inputs listed in the MC modules, not over all inputs.

Type invariants are conjuncts of `BatchSound`, `ReadsAgree`, `PutsSound`,
`ReportsTrue`, `LoadsSound` and `UnlockedOnce`; all are proved. Deadlock is checked for the daemon and the ledger, where users
may always begin something; the other instances stop when their bounded commands,
batch or session are done. Clients and processes are interchangeable, so
`cache_clear` and `lease_commands`, which check no liveness, use symmetry.

**Fairness.** `DaemonCache`: handlers run to their end (WF), and a request that
waits for `request_lock` gets it (SF): it is a tokio mutex, which is FIFO.
`DaemonLifecycle`: commands and daemons take their steps, connections that wait
are accepted, and timeouts pass (WF); requests may hang (no fairness for
`Respond`). `LeaseLedger`: processes take their steps (WF) and the file lock
reaches those who wait (SF): waiters block in the operating system's lock call,
and holders end; backends are assumed to answer or fail, which their HTTP
timeouts see to (`LeaseBackends.Ends`). `SecretResolver`, `AgeIdentity`,
`LocalSecrets`, `McpServer`: the runtime polls a task that can go on (WF per
task); a user who is asked answers in the end, also by giving up, and a wait for
a token times out. `LeaseBackends`: time passes and tasks go on (WF); the service
need not answer. `ConfigEdits`: a process takes its steps (WF). `ExecSession`: the
drain loop and the copying threads run (WF); nothing makes the child or a
background process end, write or close. `ShellHook`: the hook runs (WF), and a load
that is tried again and again succeeds some time (SF of `LoadAll`), without
which "retries until the variables are there" has no meaning. `SecretViewer` and
`CredentialProxy` have no liveness properties: their steps are users' and
peers'. Users, edits, rotations, kills and failures are never fair.

### Findings

* `edit_shadowed` (code bug): `fnox edit` restores an unchanged secret from the
  merged configuration (`edit.rs:501`), so a secret that `fnox.local.toml`
  overrides gets that file's ciphertext written into `fnox.toml`, though
  docs/cli/edit.md says "Unchanged values keep their existing ciphertext."

Other behaviours that a reader might not expect are the limits in section 5; the
properties state exactly where they stop.

## 4. Proofs

What each theorem says, for every value of the constants that meets the named
assumptions. These give the constants their types (a batch is finite, a limit is
positive, a placeholder like `None` is no value), and the hand-written sessions of
exec and proxy their shape. `ExecAssumption` also says that the
marker is a symbol that no value has (a value that is a part of the text `[REDACTED]`
is the case it leaves out) and that the least length of a redacted value, three in
the code, is at least one; `HookAssumption` also says that a fresh temporary file
can always be made. `ProxyAssumption` also says what a machine is (`Machine`: what
exists lies in directories that exist, and what a link leads to has no further
link) and where a private value may stand in the inherited environment
(`PrivateKnown`: in variables that are a secret's, a dependency's or ambient
credentials, as a user who exports a token under another name has put it out of
fnox's sight; and in no placeholder). `LocalSecretsAssumption` also says that two
providers of one kind have different names, and that a YubiKey's frame is not empty.
`ConfigLayersAssumption` and `ConfigEditsAssumption` ask for finitely many profiles
and secrets, files and command lines of the right shape (a file refers to names of
secrets, a selection is not empty), and a provider for `provider add`.
TLC evaluates them on the instances of the runs. Each inductive invariant was checked
by TLC as an invariant of its component's run (`OutputInv` with its quantifier over
all that may still be written cut to sequences of at most two).

| module | theorems | property of a run |
| --- | --- | --- |
| `DaemonProofs` | `TypeCorrect`, `NoStaleEntryCorrect`, `FreshAnswerCorrect`, `ResolvedAsKeyedCorrect`, `Refinement`; `LifecycleTypeCorrect`, `OwnsSocketCorrect` | `NoStaleEntry`, `FreshAnswer`, `ResolvedAsKeyed`, `RefinesClearableCache`, `OwnsSocket` |
| `SecretResolverProofs` | `BatchIsSound`, `DependenciesComeFirst` | `BatchSound`, `DependenciesFirst` |
| `LeaseLedgerProofs` | `TypeCorrect`, `RevokedStaysRevoked`, `ReuseIsSound`, `NoRecordLost`, `OffersAreLive` | `RevokedForGood`, `ReuseSound`, `RecordsKept`, `OfferedIsLive` |
| `LeaseBackendsProofs` | `ReportsAreTrue`, `TokensAreSound` | `ReportsTrue`, `TokensSound` |
| `RemoteProvidersProofs` | `PutsAreSound`, `BatchesAgree` | `PutsSound`, `ReadsAgree` (all providers but 1Password) |
| `LocalProvidersProofs` | `UnlocksOnce`, `ReadsAreSound`, `PutsBack`, `PluginsAreSound`; of `PluginStore` alone `PluginIsSound`, `WhatWorkedIsKept` | `UnlockedOnce`, `ReadsSound`, `PutBack`, `PluginSound` |
| `ConfigEditsProofs` | `LoadsAreSound` | `LoadsSound` |
| `DeliveryProofs` | `CallsAgree`, `PromptIsFresh`, `PromptFilesBracketed`, `CommandEnvironment`, `OutputIsRight`, `ConnectionsPermitted`, `ProxySends`, `ProxyChildBlind`, `AllCleanedUp`, `ScreenIsSound` | `McpSound`, `HookFresh`, `EnvironmentRight`, `OutputRight`, `ProxySound`, `BlindChild`, `CleanedUp`, `ViewSound` |

### The daemon

`DaemonProofs` proves, for all clients, secrets, configurations and bounds,
from `DaemonCacheAssumption` only: `TypeCorrect`, `NoStaleEntryCorrect`,
`FreshAnswerCorrect`, `ResolvedAsKeyedCorrect` and `Refinement`
(`Spec => RefinesClearableCache`).

`NoStaleEntry` is not inductive: a client in the foreground may hold a stale
value, and only the epoch it was told keeps it out. The inductive invariant
`IndInv` says so. `LockInv`: handlers hold the lock and belong to this process.
`EpochInv`: clears have epochs of the past. `JobInv`: so have the jobs of this
process. `ValuesInv`: a value on its way back is either not older than the last
clear or `cleared_since` will reject it. `CacheInv`: entries of this process are
not older than the last clear. `IndStep` has a lemma per group of actions; the
clear is the interesting one (`ClearInd`): it raises the epoch above every job,
so each value it makes stale becomes one that `cleared_since` rejects.
`OriginInv` strengthens `ResolvedAsKeyed` in the same way with the origin of the
values in flight. The refinement follows from `IndInv`: fills are admissible,
the clear maps to `Clear`, the stop to `Restart`, everything else stutters.

It also proves, from `DaemonLifecycleAssumption`, `LifecycleTypeCorrect` and
`OwnsSocketCorrect`. `OwnsSocket` is inductive as it
stands: a path is bound only when it is free, so when no daemon holds it; and a
draining daemon holds the path, so what it unlinks is its own. The mutant that
closes the listener before draining shows that the order matters.

### Resolver and ledger

`SecretResolverProofs`: for any finite batch over any configurations,
dependencies and failures. Neither property is inductive, since neither mentions
Kahn's counters. `DegreeInv` is the fact behind the levels: as long as no cycle
was met, `in_degree[k]` is the number of dependencies of `k` that have no level
yet, and what has a level needs only what has an earlier one. With it `EnvInv`
(what is resolved is in the environment as far as a provider reads it) and
`SawInv` (a provider was asked after what it reads was resolved) give
`DependenciesFirst`. For `BatchSound`, `FoundInv` follows a usable default through
a level: it is pending or found, whatever order a pass of
`resolve_default_fallbacks` visits its keys in; and `AcyclicInv` says that defaults
that are the only source do not refer to each other in a circle, so such a pass
never stops with some of them left.

`LeaseLedgerProofs` proves, for any processes, backends, IDs, leases, clock,
buffer and retention, from the assumptions of `LeaseLedger`: `TypeCorrect`,
`RevokedStaysRevoked` (`RevokedForGood`), `ReuseIsSound` (`ReuseSound`) and
`NoRecordLost` (`RecordsKept`). The inductive invariant `IInv` has seven parts:
`TypeOK`; `LockInv`, whoever has loaded the ledger holds the lock; `OpInv`, what
each program counter says of the command and of the positions it has still to
revoke; `SoundInv`, the records in the file and in every memory are of issued
leases, with their backend and configuration, one for each lease, and those of
leases reported as revoked keep no credentials; `CoverInv`, the loaded ledger of
the lock's holder has whatever the file has; `FreshInv`, a lease that is not yet
recorded is in no ledger and nobody else's; `HandInv`, what a reader has in its
hands was of its backend and configuration and not revoked when it began. Without
`LockInv` and `CoverInv` a write could undo what another process wrote; without
one record for each lease, marking by position could leave a second record with
the credentials; `FreshInv` is what makes an append keep that.
`HoldKeeps` and `LeaveKeeps` carry the parts over the steps that hold or release
the lock; each action that writes has a lemma of its own. `Saved` keeps a
subsequence, written as a recursive function, and facts about it for ledgers of
every length are proved by taking a least counterexample (the natural numbers are
well ordered), since induction schemes cannot be instantiated by the provers.

`OffersAreLive` needs `OfferInv` on top: a record that is not marked is of a lease
that is live, or revoked by a command that did not finish, or of a backend that
cannot tell it from another, *or is being revoked just now by whoever holds the
lock* (`InHand`). The last case is why `OfferedIsLive` is not inductive: between the
call to the backend and the save the file offers a dead lease, and only the lock
keeps readers from it.

### Backends and providers

`LeaseBackendsProofs`: any tasks, commands, durations, days and time limits, all
twelve backends. `BackendInv` says what every place of a task means for its time
(`TimeOK`: an answer is of a grant made after the request began and before its
limit), its grant (`GrantOK`: what was told is at most what the service will do)
and its token (`TokenOK`: the slot a task has cloned has nothing that was rejected
before the task began). `SlotsOK` is what makes the cache of a credential command
sound: the last slot is as new as the last rejection. `KeyringOK` is `RefreshKept`
made inductive: a refresh token of the keyring that no longer works is one whose
successor is in a task's hands, and nobody else's, or one that was `lost`.

`RemoteProvidersProofs`: any writers, names, fields and values. `WriteInv` says of
each call of a put what its writer still knows of the item (`WriterOK`), and of
each field what the last acknowledged write left (`AckOK`). The first attempt
failed for a good reason: the version that `put_secret` reads from the metadata of a
deleted secret does not identify it, since a purge lets versions begin again, and
with enough writers a `kv put -cas=<version>` meets a new secret with the old number
and overwrites it. `AckedKept` now excepts exactly that (`Protected`, section 5).
`ReadInv` makes `ReadsAgree` inductive by keeping the states of the world that were
seen since the batch began: an answer agrees with a single read in one of them
(`ResultOK`), up to `Printed` for Doppler, and what has no answer yet is in a call to
come.

`LocalProvidersProofs`: any tasks, providers, configurations, vaults, frames and
changes of the world. `AgeInv` is about the stacks of calls of the age providers. A
cell is taken exactly while one call on some stack holds it (`HoldInv`), and when
providers need each other without a cycle and no ciphertext belongs to two of them,
the code's check never calls a decrypt re-entrant, so whoever opens a ciphertext
holds its cell and one that was opened is in the cell or about to be put there
(`OpenInv`). With a ciphertext of two providers this is false (section 5).
`LocalInv` is about everything else that a process keeps: a lock
belongs to the task that is where the lock is held, and to no other (`LockInv`); what
the YubiKey has received is the beginning of the frame of the task that is at it, so
that torn and foreign frames never yield a key (`TokenInv`); caches hold only what
was accepted, or the token's own secret (`CacheInv`); a password that was typed is
kept, or its task is about to open the vault with it (`KnownInv`), which is why nobody
is asked for it again; and what a task has read so far is from one state (`ReadOK`).

For plugins: any users, plans, sources and kills. Updates work in the
directory itself and take no lock, so `PluginsAreSound` is about plans in which nobody
else meddles while one updates (`UpdatesAlone`), `PutsBack` also while
one removes (`Apart`); first uses, installs, forced installs and links may race as
they like. Section 5 has what happens otherwise, and the plans of the run meet both.
`PluginInv` ties each process's place in its request to what it may find
(`UserInv`), what is in place during an update to what the update began with
(`UpdateInv`), and says that what nobody updates is a whole checkout with a true
record (`TreesInv`), unless an update ended without its record or its undoing.

### Config files

`ConfigEditsProofs`: any file systems, imports, inheritance, command lines, processes
and kills. `LoadsAreSound` says three things. Each state has its type, however files
are merged and scoped; this rests on a lemma per function of `ConfigLayers`. What is
computed by recursion over a list (`Iterates`, `Recursion`) has a value because the
least place from which it has none would have one, so it is proved without induction
over data.

*Ancestors come first.* `Leads` says what one visit of `resolve_profiles` makes of
the result so far: whatever is in it comes after what it inherits (`Ordered`), and
the visited profile is in it. It holds of every depth of the recursion, by the same
counting; a repeated profile is appended again without harm. Discovery hands a
configuration on only when the list it loaded with is the list it gets, so each
profile of it has had its file loaded (`Found`).

*References resolve.* That files refer to what the store has is not inductive: it
must also be said of what processes hold. In `IInv` (`Held`) the loaded
configuration and the document that was read refer only to names in the store, and
the writes that are planned may also name what is still to be put (`Pending`); that
`put` comes before `save` empties `Pending` before a file is written. For `edit` it
takes that each secret that a remote provider stores anew is among those that are
put (`EditPutsTyped`). A process killed between put and save leaves a value without
a reference, never a reference without a value. Nothing is ever taken out of the
store, so other processes' references stay good (`OthersHeld`). TLC checked `IInv` on
the instance of `config_edits`.

### Consumers

`DeliveryProofs`, with an invariant for each consumer.

* MCP (`McpInv`): one call fills the once-cell, nothing is cached before, and what
  was answered is what the cache still holds, because a single read is stored only
  by the call that made it or found already there. A command inherits no variable of a
  secret that is not for commands, whatever the server's environment holds: all of them
  are taken out. Any calls, rotations and inherited variables.
* Hook (`HookInv`): the session that the shell carries is true about the shell
  (`SessionInv`); the changes are computed from it, so this must hold between
  prompts too. `FilesInv` has the two sets of files that exist between load and end,
  `LeftInv` those that could not be removed.
* exec (`ExecInv`): environment, files and plan are those that `select`,
  `resolve_set` and `assemble` make of the inputs (`PlanInv` says what of the inputs
  is in which part), at each stage. Any inputs, in particular any overlap of
  secrets, leases, filters and inherited variables.
* redaction, then the output of exec: a pass over a text is a walk (`PassWalks`: the
  recursive function has a value of the right type, by the least place from which it
  has none), which leaves no pattern (`RedactClean`: a pattern would have to lie
  between two markers, in text that the walk copied, where it would have been found).
  `PushSplits` is the heart of the stream: nothing beyond `SafeEnd` matters to the
  places before it, since a pattern that reaches beyond the text begins at a place
  that is held back; so the redaction of what was held back, of a chunk and of
  *whatever comes later* begins with what `push` gives out, and goes on with the
  redaction of what it holds back and of what comes later. With it `OutputInv` says of
  each stream that what is out, what is being written and the redaction of the held
  text, the pipe and any continuation is the redaction of all of it (`Flows`), and
  carries that through failed writes, background processes and the timeout; `Settled`
  is `OutputKept` before fnox ends. Any patterns, chunks and lengths.
* proxy (`ProxyInv`): an address that was permitted stays permitted until it is
  connected to; mount points are empty unless somebody else wrote there. `SentInv`:
  what is sent has gone through `authorize`, under rules in which each secret has a
  placeholder of its own (`RulesOK`). A placeholder that occurs in the request is in
  one place only, which a rule of its secret allows, or the request is refused; and
  injecting writes the value only where the placeholder stood. Later rules work on
  what earlier ones made, which may hold a placeholder that was not there before:
  `checked` keeps one whose turn is over from being replaced again. Any rules, requests,
  values and DNS answers.
* the proxy's child (`ChildInv`): its environment is what `assemble` keeps, plus
  placeholders and the proxy's address, and no private value is a part of either
  (`EnvironmentBlind`). The sandbox's policy is that of the start, while other programs
  make files until the child runs (`Later`). `LinuxHolds`: the last set of mounts
  that covers a path decides, and in it the deepest; a path that holds credentials is
  below one that is hidden and has no hidden one above it, whose mount is in the last
  set, or it has none because `/tmp` or `/run` already hides it. `MacHolds` is the same
  for the profile's rules. Any machine, links and settings.
* dashboard (`ViewInv`): at most one resolution is current and it is the one waited
  for, so what comes late is of another number and is dropped; index bounds for any
  list, filter and event. Positions of the filtered rows are a set, whose cardinality
  is the number of rows.

### Only model-checked

* Liveness (`Answered`, `AllComeToEnd`, `Finishes`, `Ends`, `AllEnd`,
  `DeliveryEnds`): fairness and ENABLED are out of the prover's reach.
* `ConfigEdits`: `Precedence` and `EditsSound`. `Precedence` does
  not hold for every file system: when the file of an inherited profile changes who
  inherits from whom, the list that discovery ends with and the one that the reader
  works out differ. `EditsSound` compares whole reads before and after a write.
* `RefsSettled` compares two recursions over KeePass references, which needs
  induction over data.
* `ReadsAgree` of 1Password: what `op inject` prints is taken apart by a recursion
  over its lines.
* `NothingEchoed`: that no character of an injected value is in a response is false
  for arbitrary values, since a value that is a part of two others side by side is
  redacted in their place and leaves the rest of them. TLC checks it for chosen
  values that overlap otherwise, one inside another among them.

## 5. Known limits of the code

The models show these behaviours; the properties are stated so that they hold,
and each names its exception. They are listed for whoever changes the code.

**Daemon.** Epochs belong to one daemon process, but a write-back may reach the
next one, which accepts a value that was cleared (daemon.rs:1502). The write-back
compares two fingerprints of the daemon's own loads, never the configuration the
client resolved with (1493). A stopped daemon drains with its socket in place,
and a command that connects meanwhile fails instead of starting a new one (735,
929).

**Leases.** cleanup revokes by ID, and takes back the active lease of a backend
that uses an ID again (commands/lease.rs:869). A lease whose creation timed out
or whose record could not be saved is known to nobody (lease.rs:408). Revoking a
GitHub App lease whose credentials are not there reports success though the token
lives; Vault and commands that answer without an ID get one made up; answers
without expiry get an assumed one or none. The GitHub session is lost, and the
keyring keeps a refresh token that no longer works, when a process is killed between
a refresh and `write_cached_token` (github_oauth.rs:338), when the keyring cannot be
written, which nothing reports (133-146), and when the service has used the token
but its answer is lost, unreadable or without an access token (236-262).
`RefreshKept` exempts exactly the tokens that were lost so (`lost`). A record without
`config_hash`, which only older versions of fnox wrote, is reused for any
configuration (lease.rs:245); `ReuseSound` allows it for these records only.

**Resolver.** What Kahn's algorithm leaves over is treated as a cycle, also secrets
that merely need one (secret_resolver.rs:1193). An age identity that is kept by
a provider whose own credential that age provider encrypts waits for itself, and
no cycle is reported (age.rs:85, resolver.rs:324). A ciphertext that two age
providers have, one of them for the identity of the other, is opened by each.

**Providers.** Tools print a value and a line end, so reads through Vault, Doppler,
1Password, Bitwarden and Proton Pass trim what is printed, blanks that belong to the
value included. Doppler's batch reads JSON and gives the value as it is (doppler.rs:105
and 149-153), so it differs from a single read for a value with white space around it;
`BatchAgrees` names this exception, and the instance has such a value. Bitwarden Secrets Manager's batch reports a failed login as a
failed command (bitwarden_sm.rs:186), and two processes that create a key make two
(248). Infisical's cached login is never dropped. Two concurrent creates at AWS
Secrets Manager: the second fails (aws_sm.rs:236). KeePass caches a mistyped
password before it is tried, and two puts at once lose one (keepass.rs:589). A put
at Vault over a deleted secret is tied to the version read before (vault.rs:383), but
versions begin again when a secret is removed with its metadata: put again as often
meanwhile, it has that version, and is overwritten. Token
secrets are cached by the provider's name alone, so a process that serves two
projects may mix them up. A killed process leaves the kernel's driver detached.
A Lua plugin may be loaded twice.

**Plugins.** A first use that loses the install race to another project's source
runs that code once (plugins.rs:359). An update killed between checkout and record, or
whose record cannot be written, which is only warned of (289-293, 406), leaves new code
under the old record; so may one that fails and whose undoing fails too (412-423).
`RecordTrue` except these (`Unrecorded`, `Updating`), and the run meets them. Overlapping
updates share FETCH_HEAD and may mix; a first use during an update may run
half-updated code. A forced install killed between its two renames leaves the
plugin missing, and a backup that cannot be put back is deleted with the temporary
directory although the warning names its path; `KeptOnFailure` is about replacements
and updates whose undoing, if they fail, succeeds. The plans of the run exclude
overlapping updates, and an update with a forced install.

**Config.** No lock: a concurrent edit is lost, and `fs::write` truncates first
(config.rs:1587). set, import and edit keep a stale sync cache, only --generate
clears it. Reencrypting a secret from `[profiles.q]` inside `fnox.p.toml` writes to
that file's root table (1689); provider add on `fnox.<p>.toml` moves root entries
under `[profiles.p]`. A remote put whose save fails leaves an unreferenced value.
docs/guide/config-files.md:22 ("a closer directory always beats its parent") is
not true across tables; a root entry of a local cache overrides every profile
(docs/guide/sync.md:221). The window of `edit` loses concurrent edits, and
what another process takes out of the edited file meanwhile may be inherited from the
layers that were loaded before (`InheritOuterLayers`).

**Delivery.** exec.rs:399-407: between `writing = false` and `moved = true` a slow
consumer may be taken for an idle one and cut off. A held-back prefix of a value is
lost when a background process keeps the pipe open, and a failed write is then
reported as success (exec.rs:335). child_env.rs:551: a filter that drops a lease's
variable re-scrubs only ambient keys. The guard of temporary variables removes
rather than restores what was inherited (lease.rs:278). The hook records the
configs' times after it has loaded them (commands/hook_env.rs:128), in
milliseconds; nested shells share a session and its files; a rotation at the
provider is not noticed; variables that the user had before are unset on leaving,
not restored. A killed exec leaves its files, an un-sandboxed proxy killed by a
signal its CA file. Values injected into headers are not redacted when echoed
percent-encoded. An empty file that someone made at a mount point is removed; a
hidden path that is made after the start is visible where the directory is not
writable. A hidden directory below `/tmp` or `/run` gets no mount of its own, since
the sandbox's own `/tmp` hides it (sandbox.rs:360), but what is in it counts as
covered by it (162): a writable directory inside it shows what is hidden there again.
On macOS `/tmp` stays writable, so that a missing credential file there can be made
by the child although the policy leaves it out as one that cannot (154). `SandboxHolds`
leaves both out (`Separate`). Of two values injected side by side a third that is a
part of both may be redacted, and the rest of them shown. MCP output is cut before it
is redacted, and may show part of a value; the model of MCP has commands and their
environment, not their output. Redaction searches for values without the white space
around them, which stays. A deactivation that fails for one file has removed the others,
whose variables stay until it succeeds (deactivate.rs:36); an old file of the hook that
cannot be removed is forgotten with a warning (`HookFiles` names both).
Of the device rules of the macOS profile the model has none: no secret is there. In
the dashboard a value set while its own resolution is loading is overwritten, and
values set in memory are lost on a refresh or a switch.

## 6. What is left

1. Single-secret resolution and its closures against the batch; `DaemonCache` with
   the dependencies between secrets, so that a clear of one that others were
   computed from can be discussed.
2. `parse_duration` with 64-bit arithmetic; `--dry-run` and explicit `--config`
   of the edit commands.

## 7. Not modelled

Single-secret resolution (`resolve_secret_raw`), `parse_duration`, the I/O of
`fnox-client`, sockets' framing, peer checks and Windows pipes, the audit log,
settings and templates, `scan` and `ci-redact`, `doctor`, `completion` and other
printing commands, TOML parsing and validation messages, TLS and HTTP framing, the
scripts of the shells, rendering, scrolling and key bindings, and all wording.
Services, tools, git and the kernel are external: what fnox asks of them is
modelled, and that they answer, fail, are late or change. Providers whose calls are
like those of a modelled one are not modelled again. `PROJECT.json` gives the
status of each component.
