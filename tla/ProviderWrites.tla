--------------------------- MODULE ProviderWrites ---------------------------
(***************************************************************************)
(* Storing secrets with the providers that write (put_secret in            *)
(* crates/fnox-core/src/providers).  Each call to a service or tool is one *)
(* step, so the puts of several processes interleave between the calls of  *)
(* one put: create-or-update sequences, compare-and-set and the read,      *)
(* change and save of a KeePass database.                                  *)
(*                                                                         *)
(* The services are external.  Texts are taken up to the blanks around     *)
(* them, which some tools do not print.                                    *)
(***************************************************************************)
EXTENDS ProviderStore, Naturals, Sequences

CONSTANTS
    Writer,       \* processes that store a secret each
    Jobs,         \* what the writers store: functions from Writer to [name, field, value]
    MaxFaults     \* bound: deletions and failures

ASSUME ProviderWritesAssumption ==
    /\ MaxFaults \in Nat /\ Jobs # {}
    /\ Jobs \subseteq [Writer -> [name : Name, field : Field, value : Value]]

Target == {"vault", "aws-sm", "aws-ps", "azure-sm", "gcp-sm", "bitwarden-sm", "keychain",
           "password-store", "gopass", "foks", "keepass"}

VARIABLES
    target,     \* the provider in use
    store,      \* [Name -> [state, version, fields, copies]]
    job,        \* what each writer stores
    pc,         \* [Writer -> the next call]
    local,      \* what a writer carries between calls: a version, the index of a copy,
                \* or a copy of the whole database
    login,      \* [session, outcome]: FOKS's session, and the outcome of the one login
    acked,      \* history: the writes that took effect, and deletions, in order
    overlap,    \* history: two puts were under way at once
    purged,     \* history: secrets of Vault that were removed with their versions, which
                \* then begin again
    faults

writeVars == <<target, store, job, pc, local, login, acked, overlap, purged, faults>>

Empty == [f \in Field |-> None]
Missing == [state |-> "absent", version |-> 0, fields |-> Empty, copies |-> <<>>]

Active == {w \in Writer : pc[w] \notin {"idle", "ok", "error"}}

Live(n) == store[n].state = "live"

\* The item with one field changed, and the item with that field alone.
With(i, f, v) ==
    [i EXCEPT !.state = "live", !.version = @ + 1, !.fields[f] = v]
Only(i, f, v) ==
    [i EXCEPT !.state = "live", !.version = @ + 1, !.fields = [Empty EXCEPT ![f] = v]]

Goto(w, l) == pc' = [pc EXCEPT ![w] = l]

\* The call faults nothing and the put goes on at l.
Continue(w, l) == Goto(w, l) /\ UNCHANGED <<store, acked>>

\* The call makes item i of it, and the put succeeds.
Commit(w, i) ==
    /\ store' = [store EXCEPT ![job[w].name] = i]
    /\ acked' = Append(acked, job[w])
    /\ Goto(w, "ok")

At(w, l) ==
    /\ pc[w] = l
    /\ UNCHANGED <<target, job, login, overlap, purged, faults>>

Change == faults < MaxFaults /\ faults' = faults + 1

----------------------------------------------------------------------------
(* HashiCorp Vault.  A reference with a field patches the secret. *)

\* `kv patch`; a secret that is missing or deleted leads on to l.
Patch(w, l) ==
    /\ UNCHANGED local
    /\ IF Live(job[w].name) THEN Commit(w, With(store[job[w].name], job[w].field, job[w].value))
       ELSE Continue(w, l)

\* Mutant: creating the secret does not check that it is still absent.
VaultCreateAnyway(w) ==
    /\ At(w, "create") /\ UNCHANGED local
    /\ Commit(w, Only(store[job[w].name], job[w].field, job[w].value))

\* `kv put -cas=0`, which fails once there is a version.
VaultCreate(w) ==
    /\ At(w, "create") /\ UNCHANGED local
    /\ IF store[job[w].name].version = 0
       THEN Commit(w, Only(store[job[w].name], job[w].field, job[w].value))
       ELSE Continue(w, "retry")

\* `kv metadata get`: the version to replace, if the current one is deleted.
DeletedSecretVersion(w) ==
    LET i == store[job[w].name]
    IN  /\ At(w, "metadata")
        /\ local' = [local EXCEPT ![w] = i.version]
        /\ CASE i.state = "absent" -> Continue(w, "error")
             [] i.state = "deleted" -> Continue(w, "recreate")
             [] OTHER -> Continue(w, "last")

\* `kv put -cas=<version>`.
VaultRecreate(w) ==
    /\ At(w, "recreate") /\ UNCHANGED local
    /\ IF store[job[w].name].version = local[w]
       THEN Commit(w, Only(store[job[w].name], job[w].field, job[w].value))
       ELSE Continue(w, "last")

\* Whatever the error of these two calls, another writer is assumed to have been first.
VaultPutFails(w) ==
    /\ Change /\ pc[w] \in {"create", "recreate"}
    /\ Continue(w, IF pc[w] = "create" THEN "retry" ELSE "last")
    /\ UNCHANGED <<target, job, local, login, overlap, purged>>

\* A reference without a field replaces the whole secret.
VaultPut(w) ==
    /\ At(w, "put") /\ UNCHANGED local
    /\ Commit(w, Only(store[job[w].name], Main, job[w].value))

Vault(w) ==
    \/ At(w, "patch") /\ Patch(w, "create")
    \/ VaultCreate(w)
    \/ At(w, "retry") /\ Patch(w, "metadata")
    \/ DeletedSecretVersion(w)
    \/ VaultRecreate(w)
    \/ At(w, "last") /\ Patch(w, "error")
    \/ VaultPut(w)

----------------------------------------------------------------------------
(* AWS, Azure and Google. *)

\* put_secret_value, and create_secret if there is none; what is scheduled for
\* deletion can neither be written nor created.
AwsPutValue(w) ==
    /\ At(w, "put_value") /\ UNCHANGED local
    /\ CASE Live(job[w].name) -> Commit(w, With(store[job[w].name], Main, job[w].value))
         [] store[job[w].name].state = "absent" -> Continue(w, "create_secret")
         [] OTHER -> Continue(w, "error")

AwsCreate(w) ==
    /\ At(w, "create_secret") /\ UNCHANGED local
    /\ IF store[job[w].name].state = "absent"
       THEN Commit(w, With(store[job[w].name], Main, job[w].value))
       ELSE Continue(w, "error")

\* The secret is created without a version.  That it exists by now is no error.
GcpCreate(w) ==
    /\ At(w, "create_empty") /\ UNCHANGED <<local, acked>>
    /\ store' = [store EXCEPT ![job[w].name].state = "live"]
    /\ Goto(w, "add_again")

\* add_secret_version; the second time a missing secret is an error.
GcpAdd(w) ==
    /\ At(w, pc[w]) /\ pc[w] \in {"add_version", "add_again"} /\ UNCHANGED local
    /\ IF Live(job[w].name) THEN Commit(w, With(store[job[w].name], Main, job[w].value))
       ELSE Continue(w, IF pc[w] = "add_version" THEN "create_empty" ELSE "error")

\* One call that writes or overwrites.
Overwrite(w, prov) ==
    /\ target = prov /\ At(w, "overwrite") /\ UNCHANGED local
    /\ Commit(w, With(store[job[w].name], Main, job[w].value))

PutParameter(w) == Overwrite(w, "aws-ps")

\* Key Vault refuses the name of a deleted secret.
AzureSet(w) ==
    \/ store[job[w].name].state # "deleted" /\ Overwrite(w, "azure-sm")
    \/ /\ target = "azure-sm" /\ At(w, "overwrite") /\ UNCHANGED local
       /\ store[job[w].name].state = "deleted" /\ Continue(w, "error")

KeychainSet(w) == Overwrite(w, "keychain")

\* `pass insert -m -f` and `gopass insert -f`.
PassInsert(w) == Overwrite(w, "password-store")
GopassInsert(w) == Overwrite(w, "gopass")

Cloud(w) ==
    \/ AwsPutValue(w) \/ AwsCreate(w) \/ GcpAdd(w) \/ GcpCreate(w) \/ PutParameter(w) \/ AzureSet(w)
    \/ KeychainSet(w) \/ PassInsert(w) \/ GopassInsert(w)

----------------------------------------------------------------------------
(* Bitwarden Secrets Manager: keys need not be unique; the first copy counts. *)

BwsList(w) ==
    /\ At(w, "list") /\ UNCHANGED local
    /\ Continue(w, IF store[job[w].name].copies # <<>> THEN "edit" ELSE "create_copy")

\* By ID: it fails if the secret has been deleted since.
BwsEdit(w) ==
    LET i == store[job[w].name]
    IN  /\ At(w, "edit") /\ UNCHANGED local
        /\ IF i.copies # <<>>
           THEN Commit(w, [With(i, Main, job[w].value) EXCEPT !.copies[1] = job[w].value])
           ELSE Continue(w, "error")

\* A second copy is not the one that is read.
BwsCreate(w) ==
    LET i == store[job[w].name]
        n == [i EXCEPT !.copies = Append(@, job[w].value)]
    IN  /\ At(w, "create_copy") /\ UNCHANGED local
        /\ Commit(w, IF i.copies = <<>> THEN [With(i, Main, job[w].value) EXCEPT !.copies = n.copies]
                     ELSE n)

Bws(w) == BwsList(w) \/ BwsEdit(w) \/ BwsCreate(w)

----------------------------------------------------------------------------
(* FOKS: an expired session is renewed once in the life of the process. *)

RunBotLogin(ok) ==
    login' = [session |-> ok, outcome |-> IF ok THEN "yes" ELSE "no", logins |-> login.logins + 1]

\* Under a lock: the first failure logs in, later ones use its outcome.
TryAutoLogin(w) ==
    \/ /\ login.outcome = "none"
       /\ \E ok \in BOOLEAN : RunBotLogin(ok) /\ Continue(w, IF ok THEN "kv_again" ELSE "error")
    \/ /\ login.outcome # "none"
       /\ Continue(w, IF login.outcome = "yes" THEN "kv_again" ELSE "error")
       /\ UNCHANGED login

\* `kv put` with a session.
KvPutOnce(w) ==
    /\ login.session /\ UNCHANGED login
    /\ Commit(w, With(store[job[w].name], Main, job[w].value))

FoksPut(w) ==
    /\ pc[w] \in {"kv_put", "kv_again"}
    /\ UNCHANGED <<target, job, local, overlap, purged, faults>>
    /\ \/ KvPutOnce(w)
       \/ ~login.session /\ pc[w] = "kv_put" /\ TryAutoLogin(w)
       \/ ~login.session /\ pc[w] = "kv_again" /\ Continue(w, "error") /\ UNCHANGED login

----------------------------------------------------------------------------
(* KeePass: the database is read, changed and replaced as a whole. *)

OpenDatabase(w) ==
    /\ At(w, "open") /\ UNCHANGED <<store, acked>>
    /\ local' = [local EXCEPT ![w] = store]
    /\ Goto(w, "save")

\* The entry, found in its group or created with the groups on its path, gets the field.
FindOrCreateEntry(db, j) == [db EXCEPT ![j.name] = With(@, j.field, j.value)]

\* save_database renames a complete temporary file over the old one.
SaveDatabase(w) ==
    /\ At(w, "save") /\ UNCHANGED local
    /\ store' = FindOrCreateEntry(local[w], job[w])
    /\ acked' = Append(acked, job[w])
    /\ Goto(w, "ok")

Keepass(w) == OpenDatabase(w) \/ SaveDatabase(w)

----------------------------------------------------------------------------
(* The whole. *)

WriteInit ==
    /\ target \in Target
    /\ store = [n \in Name |-> Missing]
    /\ job \in Jobs
    /\ pc = [w \in Writer |-> "idle"]
    /\ local = [w \in Writer |-> 0]
    /\ login = [session |-> FALSE, outcome |-> "none", logins |-> 0]
    /\ acked = <<>>
    /\ overlap = FALSE /\ purged = {}
    /\ faults = 0

\* Nothing is written.
WriteIdle ==
    /\ target = "vault" /\ store = [n \in Name |-> Missing] /\ job = CHOOSE j \in Jobs : TRUE
    /\ pc = [w \in Writer |-> "ok"] /\ local = [w \in Writer |-> 0]
    /\ login = [session |-> FALSE, outcome |-> "none", logins |-> 0]
    /\ acked = <<>> /\ overlap = FALSE /\ purged = {} /\ faults = 0

\* The first call of put_secret.
FirstCall(w) ==
    CASE target = "vault" -> IF job[w].field = Main THEN "put" ELSE "patch"
      [] target = "aws-sm" -> "put_value"
      [] target = "gcp-sm" -> "add_version"
      [] target = "bitwarden-sm" -> "list"
      [] target = "foks" -> "kv_put"
      [] target = "keepass" -> "open"
      [] OTHER -> "overwrite"

Start(w) ==
    /\ pc[w] = "idle"
    /\ job[w].field = Main \/ target \in {"vault", "keepass"}
    /\ Goto(w, FirstCall(w))
    /\ overlap' = (overlap \/ Active # {})
    /\ UNCHANGED <<target, store, job, local, login, acked, purged, faults>>

\* Somebody deletes an item; a deleted version can be brought back with a new one, until
\* the item is purged.
Delete(n, purge) ==
    /\ Change
    /\ Live(n) \/ (purge /\ store[n].state = "deleted")
    /\ store' = [store EXCEPT ![n] =
                    IF purge \/ target \notin {"vault", "aws-sm", "azure-sm"} THEN Missing
                    ELSE [@ EXCEPT !.state = "deleted", !.fields = Empty]]
    /\ acked' = Append(acked, [name |-> n, field |-> Main, value |-> None])
    /\ purged' = IF purge /\ target = "vault" THEN purged \union {n} ELSE purged
    /\ UNCHANGED <<target, job, pc, local, login, overlap>>

\* The process is killed, or a call fails whose error ends the put.
Fail(w) ==
    /\ Change /\ w \in Active
    /\ Goto(w, "error")
    /\ UNCHANGED <<target, store, job, local, login, acked, overlap, purged>>

Expire ==
    /\ Change /\ login.session
    /\ login' = [login EXCEPT !.session = FALSE]
    /\ UNCHANGED <<target, store, job, pc, local, acked, overlap, purged>>

WriteNext ==
    \/ \E w \in Writer : Start(w) \/ Vault(w) \/ Cloud(w) \/ Bws(w) \/ FoksPut(w) \/ Keepass(w)
          \/ VaultPutFails(w) \/ Fail(w)
    \/ \E n \in Name, purge \in BOOLEAN : Delete(n, purge)
    \/ Expire

----------------------------------------------------------------------------
(* Properties. *)

WriteTypeOK ==
    /\ target \in Target /\ job \in Jobs
    /\ store \in [Name -> [state : {"absent", "live", "deleted"}, version : Nat,
                           fields : [Field -> Value \union {None}], copies : Seq(Value)]]
    /\ pc \in [Writer -> {"idle", "ok", "error", "patch", "create", "retry", "metadata", "recreate",
                          "last", "put", "put_value", "create_secret", "add_version", "create_empty",
                          "add_again", "overwrite", "list", "edit", "create_copy", "kv_put",
                          "kv_again", "open", "save"}]
    /\ login.outcome \in {"none", "yes", "no"} /\ overlap \in BOOLEAN /\ faults \in 0..MaxFaults

\* What the write at position i did to field f of item n: it set it, cleared it (a
\* deletion, or a Vault put of the whole secret), or left it alone.
Touches(i, n, f) ==
    /\ acked[i].name = n
    /\ \/ acked[i].field = f
       \/ acked[i].value = None
       \/ target = "vault" /\ acked[i].field = Main
Last(n, f) == CHOOSE i \in {0} \union {j \in DOMAIN acked : Touches(j, n, f)} :
                  \A j \in DOMAIN acked : Touches(j, n, f) => j <= i

\* A put that reported success stays until something later writes the same field or
\* removes the item: no other put, of another field or another item, takes it away,
\* whatever the calls of the two are interleaved with.  (Two puts at once into a KeePass
\* database, or that both create a key in Bitwarden, are not protected; nor is a secret of
\* Vault that is purged between the two calls of a compare-and-set, since its versions
\* begin again.)
Protected(n) == overlap => target \notin {"keepass", "bitwarden-sm"} /\ n \notin purged
AckedKept ==
    \A n \in Name, f \in Field :
        LET i == Last(n, f)
        IN  (Protected(n) /\ i # 0 /\ acked[i].value # None /\ acked[i].field = f)
                => store[n].fields[f] = acked[i].value

\* Creating a secret that another process creates at the same time does not fail: the
\* error of a Google or Vault put has a deletion or a failure behind it.
CreateTogether ==
    \A w \in Writer :
        pc[w] = "error" /\ target \in {"vault", "gcp-sm"} => faults > 0

\* The bot's token is used for one login in the life of a process.
LogsInOnce == login.logins <= 1

\* Putting is safe among processes that put at the same time: what was stored stays, those
\* who create one secret do not fail each other, and a process logs in once.
PutsSound == WriteTypeOK /\ AckedKept /\ CreateTogether /\ LogsInOnce
=============================================================================
