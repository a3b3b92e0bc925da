--------------------------- MODULE ProviderReads ---------------------------
(***************************************************************************)
(* Reading secrets from the remote providers (crates/fnox-core/src/        *)
(* providers): how each of them reads one secret (get_secret) and a batch  *)
(* (get_secrets_batch).  A batch is split into calls, which run while the  *)
(* store and the service may change; what comes back is sorted out by key. *)
(*                                                                         *)
(* A reference, the value of a secret in the config, is a tuple of its     *)
(* segments, the parts between slashes, and its scheme; the vault in a URI *)
(* and prefixes are left out.  Services, command line tools and their      *)
(* answers are external: a service is up or fails in one of the ways the   *)
(* code tells apart.                                                       *)
(***************************************************************************)
EXTENDS ProviderStore, Naturals, Sequences, FiniteSets

CONSTANTS
    Ref,          \* references: [scheme, path]; scheme is "", "uri", "env" or "id"
    Lines,        \* Lines[v]: the lines of a text; a line is [key, text], the key that
                  \* stands before its first "=" (0: none of a batch's)
    Similar,      \* Similar[n]: the names of items that contain n, up to case
    BATCH_SIZE,   \* secrets in one call of the AWS APIs
    Batches,      \* the batches to consider: sequences of references
    Stores,       \* the contents of the store to consider
    Items,        \* what an item may change to
    MaxChanges,   \* changes of the world
    Absent,       \* no item
    Malformed     \* a reference that the provider cannot read

Trouble == {"denied", "down", "logged_out", "no_cli"}
Failure == {"notfound", "auth", "api", "cli", "nocli", "invalid"}
Provider == {"aws-sm", "aws-ps", "gcp-sm", "azure-sm", "azure-ac", "vault", "bitwarden-sm",
             "doppler", "infisical", "keeper", "kubernetes", "passwordstate", "1password",
             "bitwarden", "proton-pass"}

\* An item maps its fields to texts; a field without text is binary or not set.
Item == [Field -> Value \union {None}]

\* A text is not taken for a failure.
ASSUME ProviderReadsAssumption ==
    /\ (Failure \union {"pending"}) \intersect (Value \union {None}) = {}
    /\ \A v \in Value : Lines[v] # <<>> /\ Lines[v][1].key = 0
    /\ BATCH_SIZE \in Nat \ {0} /\ MaxChanges \in Nat
    /\ Stores \subseteq [Name -> Item \union {Absent}] /\ Items \subseteq Item \union {Absent}
    /\ Batches \subseteq Seq(Ref)

VARIABLES
    provider,     \* the provider asked
    world,        \* [svc, store, login]: the service, what it holds, and whether the
                  \* process keeps a session of an earlier login
    batch,        \* the references asked for; keys are their positions
    calls,        \* the calls still to make: [keys, how]
    results,      \* the answer for each key so far
    seen,         \* history: the worlds during the batch
    changes       \* number of changes of the world

readVars == <<provider, world, batch, calls, results, seen, changes>>

Keys == DOMAIN batch

----------------------------------------------------------------------------
(* References. *)

\* For these providers the value is the name.
Whole(r) == IF Len(r.path) = 1 THEN r.path[1] ELSE None

\* split_once: what follows the first slash, if it is one segment.
Rest(r) == IF Len(r.path) = 2 THEN r.path[2] ELSE None

HasEmpty(r) == \E i \in DOMAIN r.path : r.path[i] = ""

Find(w, n) == IF n \in Name THEN w.store[n] ELSE Absent

\* The text of a field; a missing one is an invalid response.
Text(i, f) == IF f \in Field /\ i[f] # None THEN i[f] ELSE "invalid"

\* The text of field f of item n, when a missing item is reported as `missing`.
Read(w, n, f, missing) == IF Find(w, n) = Absent THEN missing ELSE Text(Find(w, n), f)

\* Only the lines between the first and the last that are not empty.
Trimmed(ls) ==
    LET full == {i \in DOMAIN ls : ls[i] # [key |-> 0, text |-> ""]}
    IN  IF full = {} THEN <<>>
        ELSE SubSeq(ls, CHOOSE i \in full : \A j \in full : i <= j,
                        CHOOSE i \in full : \A j \in full : i >= j)

\* The text with these lines; None if it is not among the texts considered.
Joined(ls) == IF \E v \in Value : Lines[v] = ls THEN CHOOSE v \in Value : Lines[v] = ls ELSE None

\* What a tool prints is trimmed; texts taken from JSON that it prints are not.
Printed(t) == IF t \in Value THEN Joined(Trimmed(Lines[t])) ELSE t

----------------------------------------------------------------------------
(* AWS Secrets Manager and Parameter Store. *)

\* Missing credentials surface as dispatch failures that mention them.
AwsSmError(t) == IF t \in {"denied", "logged_out"} THEN "auth" ELSE "api"

AwsPsError(t) == IF t \in {"denied", "logged_out"} THEN "auth" ELSE "api"

AwsSmGet(w, r) == IF w.svc # "up" THEN AwsSmError(w.svc) ELSE Read(w, Whole(r), Main, "notfound")

AwsPsGet(w, r) == IF w.svc # "up" THEN AwsPsError(w.svc) ELSE Read(w, Whole(r), Main, "notfound")

\* Mutant: a name is mapped to one key only.
SecretIdToKey(K, id) ==
    LET ks == {k \in K : Whole(batch[k]) = id}
    IN  {k \in ks : \A j \in ks : j <= k}

\* The keys of a chunk that ask for a name.
SecretIdToKeys(K, id) == {k \in K : Whole(batch[k]) = id}

\* One request for the distinct names of a chunk.  The values and the errors of the
\* response are handed to all the keys that asked for their name.
AwsSmBatch(w, K) ==
    LET ids == {Whole(batch[k]) : k \in K}
        values == {id \in ids : Find(w, id) # Absent}
        Of(k, some) == {id \in some : k \in SecretIdToKeys(K, id)}
    IN  [k \in K |->
            CASE w.svc # "up" -> AwsSmError(w.svc)
              [] w.svc = "up" /\ Of(k, values) # {} -> Text(Find(w, Whole(batch[k])), Main)
              [] w.svc = "up" /\ Of(k, ids \ values) # {} -> "api"
              [] OTHER -> "notfound"]

\* fetch_batch: the same, but missing names are listed without an error.
AwsPsBatch(w, K) ==
    LET found == {id \in {Whole(batch[k]) : k \in K} : Find(w, id) # Absent}
    IN  [k \in K |->
            CASE w.svc # "up" -> AwsPsError(w.svc)
              [] w.svc = "up" /\ \E id \in found : k \in SecretIdToKeys(K, id) ->
                    Text(Find(w, Whole(batch[k])), Main)
              [] OTHER -> "notfound"]

\* Chunks of BATCH_SIZE secrets in the order of the batch.
Chunks == {{k \in Keys : (k - 1) \div BATCH_SIZE = c} : c \in {(k - 1) \div BATCH_SIZE : k \in Keys}}

----------------------------------------------------------------------------
(* Google, Azure. *)

GcpError(t) == IF t \in {"denied", "logged_out"} THEN "auth" ELSE "api"

GcpGet(w, r) == IF w.svc # "up" THEN GcpError(w.svc) ELSE Read(w, Whole(r), Main, "notfound")

AzureSmGet(w, r) ==
    CASE w.svc \in {"denied", "logged_out"} -> "auth"
      [] w.svc \in {"down", "no_cli"} -> "api"
      [] OTHER -> Read(w, Whole(r), Main, "notfound")

\* The status of a response; a 404 is left to the caller.
AzureAcStatus(w) ==
    CASE w.svc = "logged_out" -> "auth"      \* no token
      [] w.svc = "denied" -> "auth"          \* 401 and 403
      [] w.svc \in {"down", "no_cli"} -> "api"
      [] OTHER -> "success"

AzureAcGet(w, r) ==
    IF AzureAcStatus(w) # "success" THEN AzureAcStatus(w) ELSE Read(w, Whole(r), Main, "notfound")

----------------------------------------------------------------------------
(* HashiCorp Vault and Bitwarden Secrets Manager, through their tools. *)

\* name or name/field, without empty or further segments.
VaultReference(r) ==
    CASE Len(r.path) = 1 -> [name |-> r.path[1], field |-> Main]
      [] Len(r.path) = 2 /\ ~HasEmpty(r) -> [name |-> r.path[1], field |-> r.path[2]]
      [] OTHER -> Malformed

\* The tool needs a token; what it prints tells a refusal from other errors.
VaultRun(w) ==
    CASE w.svc \in {"logged_out", "denied"} -> "auth"
      [] w.svc = "no_cli" -> "nocli"
      [] w.svc = "down" -> "cli"
      [] OTHER -> "success"

VaultGet(w, r) ==
    LET ref == VaultReference(r)
    IN  CASE ref = Malformed -> "invalid"
          [] ref # Malformed /\ VaultRun(w) # "success" -> VaultRun(w)
          [] OTHER -> IF Read(w, ref.name, ref.field, "cli") \in Value
                      THEN Printed(Read(w, ref.name, ref.field, "cli")) ELSE "cli"

BwsRun(w) ==
    CASE w.svc \in {"logged_out", "denied"} -> "auth"
      [] w.svc = "no_cli" -> "nocli"
      [] w.svc = "down" -> "cli"
      [] OTHER -> "success"

\* The fields are value, key and note, whatever the secret is.
BwsResolve(w, r) ==
    LET f == IF Len(r.path) = 1 THEN Main ELSE Rest(r)
    IN  IF f \notin Field THEN "invalid" ELSE Read(w, r.path[1], f, "notfound")

BwsGet(w, r) == IF BwsRun(w) # "success" THEN BwsRun(w) ELSE BwsResolve(w, r)

\* One listing for all; when it fails, whatever the reason, all fail with it.
BwsBatch(w, K) == [k \in K |-> IF BwsRun(w) # "success" THEN "cli" ELSE BwsResolve(w, batch[k])]

----------------------------------------------------------------------------
(* Doppler and Infisical. *)

\* A name that is not there is reported as such only for a single secret.
DopplerClassify(t, single) ==
    CASE t \in {"denied", "logged_out"} -> "auth"
      [] t = "no_cli" -> "nocli"
      [] t = "missing" /\ single -> "notfound"
      [] OTHER -> "cli"

DopplerGet(w, r) ==
    CASE w.svc # "up" -> DopplerClassify(w.svc, TRUE)
      [] w.svc = "up" /\ Find(w, Whole(r)) = Absent -> DopplerClassify("missing", TRUE)
      [] OTHER -> Printed(Text(Find(w, Whole(r)), Main))

\* The error of the command is every secret's error.
DopplerBatchError(e) == e

\* One command for all, which prints JSON.  The tool leaves out what is missing, or refuses.
DopplerBatch(w, K, refuses) ==
    CASE w.svc # "up" -> [k \in K |-> DopplerBatchError(DopplerClassify(w.svc, FALSE))]
      [] w.svc = "up" /\ refuses -> [k \in K |-> DopplerBatchError(DopplerClassify("missing", FALSE))]
      [] OTHER -> [k \in K |-> IF Read(w, Whole(batch[k]), Main, "notfound") \in Value
                               THEN Read(w, Whole(batch[k]), Main, "notfound") ELSE "notfound"]

DopplerRefuses(w, K) == w.svc = "up" /\ \E k \in K : Find(w, Whole(batch[k])) = Absent

InfisicalClassify(t) ==
    CASE t \in {"denied", "logged_out"} -> "auth"
      [] t = "no_cli" -> "nocli"
      [] OTHER -> "cli"

\* The login token is kept for the life of the process; with one, none is asked for.
InfisicalRun(w) == IF w.svc = "logged_out" /\ w.login THEN "success"
                   ELSE IF w.svc = "up" THEN "success" ELSE InfisicalClassify(w.svc)

InfisicalGet(w, r) ==
    IF InfisicalRun(w) # "success" THEN InfisicalRun(w) ELSE Read(w, Whole(r), Main, "notfound")

\* Missing secrets are in the response, marked; others without a text are not.
InfisicalBatch(w, K) ==
    [k \in K |-> IF InfisicalRun(w) # "success" THEN InfisicalRun(w)
                 ELSE LET t == Read(w, Whole(batch[k]), Main, "notfound")
                      IN  IF t \in Value THEN t ELSE "notfound"]

----------------------------------------------------------------------------
(* Keeper, Kubernetes, Passwordstate. *)

KeeperError(t) == IF t \in {"denied", "logged_out"} THEN "auth" ELSE "api"

KeeperGet(w, r) ==
    IF w.svc # "up" THEN KeeperError(w.svc)
    ELSE LET t == Read(w, r.path[1], IF Len(r.path) = 1 THEN Main ELSE Rest(r), "notfound")
         IN  IF t \in Value THEN t ELSE "notfound"

\* name, name/key or namespace/name/key, without empty segments.
KubernetesReference(r) ==
    CASE HasEmpty(r) \/ Len(r.path) > 3 -> Malformed
      [] ~HasEmpty(r) /\ Len(r.path) = 1 -> [name |-> r.path[1], key |-> None]
      [] ~HasEmpty(r) /\ Len(r.path) = 2 -> [name |-> r.path[1], key |-> r.path[2]]
      [] OTHER -> [name |-> r.path[2], key |-> r.path[3]]

KubernetesError(t) ==
    CASE t = "denied" -> "auth"     \* 401 and 403
      [] t = "missing" -> "notfound"
      [] OTHER -> "api"             \* no usable configuration, or no answer

\* Without a key the Secret must have exactly one.
ReadSecretValue(i, key) ==
    LET data == {f \in Field : i[f] # None}
    IN  CASE data = {} -> "invalid"
          [] data # {} /\ key # None -> Text(i, key)
          [] data # {} /\ key = None /\ Cardinality(data) = 1 -> i[CHOOSE f \in data : TRUE]
          [] OTHER -> "invalid"

\* The client comes first, then the reference, then the Secret.
KubernetesAnswer(w, ref) ==
    CASE w.svc = "logged_out" -> KubernetesError(w.svc)
      [] w.svc # "logged_out" /\ ref = Malformed -> "invalid"
      [] w.svc \notin {"up", "logged_out"} /\ ref # Malformed -> KubernetesError(w.svc)
      [] OTHER -> IF Find(w, ref.name) = Absent THEN KubernetesError("missing")
                  ELSE ReadSecretValue(Find(w, ref.name), ref.key)

\* One request per Secret, for all the keys that refer to it.
KubernetesBatch(w, K) == [k \in K |-> KubernetesAnswer(w, KubernetesReference(batch[k]))]

\* A single secret is a batch of one.
KubernetesGet(w, r) ==
    LET ref == KubernetesReference(r)
    IN  KubernetesAnswer(w, ref)

\* Keys whose references name one Secret, and those that name none.
SameSecret(k, j) ==
    LET r == KubernetesReference(batch[k])  s == KubernetesReference(batch[j])
    IN  IF r = Malformed \/ s = Malformed THEN r = s ELSE r.name = s.name

PasswordstateReference(r) ==
    CASE Len(r.path) = 1 -> [name |-> r.path[1], field |-> Main]
      [] Len(r.path) = 2 -> [name |-> r.path[1], field |-> r.path[2]]
      [] OTHER -> Malformed

\* By ID or by title: the entry, or the status of the response.
PasswordstateEntry(w, n) ==
    CASE w.svc \in {"denied", "logged_out"} -> "auth"   \* 401 and 403
      [] w.svc \in {"down", "no_cli"} -> "api"
      [] OTHER -> IF Find(w, n) = Absent THEN "notfound" ELSE "found"

PasswordstateGet(w, r) ==
    LET ref == PasswordstateReference(r)
    IN  CASE ref = Malformed -> "invalid"
          [] ref # Malformed /\ PasswordstateEntry(w, ref.name) # "found" ->
                PasswordstateEntry(w, ref.name)
          [] OTHER -> Text(Find(w, ref.name), ref.field)

----------------------------------------------------------------------------
(* 1Password. *)

\* op:// references pass; others need the vault, and one or two segments.
OpReference(r) ==
    CASE r.scheme = "uri" -> [name |-> r.path[1], field |-> Rest(r)]
      [] r.scheme # "uri" /\ Len(r.path) = 1 -> [name |-> r.path[1], field |-> Main]
      [] r.scheme # "uri" /\ Len(r.path) = 2 -> [name |-> r.path[1], field |-> r.path[2]]
      [] OTHER -> Malformed

OpRun(w) ==
    CASE w.svc \in {"denied", "logged_out"} -> "auth"
      [] w.svc = "no_cli" -> "nocli"
      [] w.svc = "down" -> "cli"
      [] OTHER -> "success"

\* environment references: environment://<id>/<variable>.
OpEnvironment(w, r) ==
    CASE Len(r.path) # 2 \/ HasEmpty(r) -> "invalid"
      [] Len(r.path) = 2 /\ ~HasEmpty(r) /\ OpRun(w) # "success" -> OpRun(w)
      [] OTHER -> IF Find(w, r.path[1]) = Absent THEN "cli"
                  ELSE IF Text(Find(w, r.path[1]), r.path[2]) \in Value
                       THEN Text(Find(w, r.path[1]), r.path[2]) ELSE "notfound"

\* `op read`; its output is trimmed.
OpRead(w, r) ==
    LET ref == OpReference(r)
    IN  CASE ref = Malformed -> "invalid"
          [] ref # Malformed /\ OpRun(w) # "success" -> OpRun(w)
          [] OTHER -> LET t == Read(w, ref.name, ref.field, "cli")
                      IN  IF t \in Value THEN Printed(t) ELSE "cli"

OpGet(w, r) == IF r.scheme = "env" THEN OpEnvironment(w, r) ELSE OpRead(w, r)

\* `op inject` fails as a whole when it cannot resolve a reference.
OpInjectFails(w, K) ==
    \/ OpRun(w) # "success"
    \/ \E k \in K : LET ref == OpReference(batch[k])
                    IN  ref # Malformed /\ Read(w, ref.name, ref.field, "cli") \notin Value

\* What it prints: the keys in order, each with its text after "=".
OpInjectOutput(w, K) ==
    LET out[n \in 0..Len(batch)] ==
            IF n = 0 THEN <<>>
            ELSE IF n \notin K \/ OpReference(batch[n]) = Malformed THEN out[n - 1]
            ELSE LET ref == OpReference(batch[n])
                     ls == Lines[Read(w, ref.name, ref.field, "cli")]
                 IN  out[n - 1] \o <<[Head(ls) EXCEPT !.key = n]>> \o Tail(ls)
    IN  out[Len(batch)]

\* Sorting the lines out: a line that begins with a key of the batch starts its text,
\* others continue the text before them.  Empty lines at the start get lost.
OpInjectTexts(K, ls) ==
    LET blank == [key |-> 0, text |-> ""]
        step[n \in 0..Len(ls)] ==
            IF n = 0 THEN [key |-> 0, texts |-> [k \in K |-> <<>>]]
            ELSE LET s == step[n - 1]
                 IN  CASE ls[n].key \in K ->
                              [key |-> ls[n].key,
                               texts |-> [s.texts EXCEPT ![ls[n].key] = <<[ls[n] EXCEPT !.key = 0]>>]]
                       [] ls[n].key \notin K /\ s.key # 0 ->
                              [s EXCEPT !.texts[s.key] =
                                  IF @ = <<blank>> THEN <<ls[n]>> ELSE Append(@, ls[n])]
                       [] OTHER -> s
    IN  step[Len(ls)].texts

\* A text that is not among those considered stays as it is: its lines.
OpInject(w, K) ==
    LET asked == {k \in K : OpReference(batch[k]) # Malformed}
        texts == OpInjectTexts(asked, OpInjectOutput(w, K))
    IN  [k \in K |-> CASE k \notin asked -> "invalid"
                       [] k \in asked /\ texts[k] = <<>> -> "notfound"
                       [] OTHER -> Joined(texts[k])]

----------------------------------------------------------------------------
(* Bitwarden (bw with a folder) and Proton Pass. *)

BitwardenRun(w) ==
    CASE w.svc \in {"denied", "logged_out"} -> "auth"   \* no session, or a locked vault
      [] w.svc = "no_cli" -> "nocli"
      [] w.svc = "down" -> "cli"
      [] OTHER -> "success"

\* The entry of this name, or the only one that contains it.
SelectEntry(w, n) ==
    LET listed == {m \in Name : Find(w, m) # Absent}
        near == IF n \in listed THEN {n} ELSE listed \intersect Similar[n]
    IN  CASE near = {} -> "notfound"
          [] Cardinality(near) = 1 -> CHOOSE m \in near : TRUE
          [] OTHER -> "cli"

\* The item's ID is looked up first, then the field is asked for; custom fields (not
\* modelled) are taken from the whole item, as JSON.
BitwardenGet(w, r) ==
    LET n == SelectEntry(w, r.path[1])
    IN  CASE BitwardenRun(w) # "success" -> BitwardenRun(w)
          [] BitwardenRun(w) = "success" /\ n \in {"notfound", "cli"} -> n
          [] OTHER -> Printed(Text(Find(w, n), IF Len(r.path) = 1 THEN Main ELSE Rest(r)))

ProtonReference(r) ==
    CASE r.scheme = "uri" /\ (Len(r.path) < 2 \/ HasEmpty(r)) -> Malformed
      [] r.scheme = "uri" /\ Len(r.path) >= 2 /\ ~HasEmpty(r) ->
            [name |-> r.path[1], field |-> Rest(r)]
      [] r.scheme = "" /\ Len(r.path) = 1 -> [name |-> r.path[1], field |-> Main]
      [] r.scheme = "" /\ Len(r.path) = 2 -> [name |-> r.path[1], field |-> r.path[2]]
      [] r.scheme = "" /\ Len(r.path) = 3 -> [name |-> r.path[2], field |-> r.path[3]]
      [] OTHER -> Malformed

ProtonClassify(t) ==
    CASE t \in {"denied", "logged_out"} -> "auth"
      [] t = "no_cli" -> "nocli"
      [] t \in {"missing", "no_field"} -> "notfound"
      [] OTHER -> "cli"

\* id: references name an item of the vault by its ID.
ProtonGet(w, r) ==
    LET ref == IF r.scheme = "id"
               THEN [name |-> r.path[1], field |-> IF Len(r.path) = 1 THEN Main ELSE Rest(r)]
               ELSE ProtonReference(r)
    IN  CASE ref = Malformed -> "invalid"
          [] ref # Malformed /\ w.svc # "up" -> ProtonClassify(w.svc)
          [] OTHER -> LET t == Read(w, ref.name, ref.field, ProtonClassify("missing"))
                      IN  IF t = "invalid" THEN ProtonClassify("no_field") ELSE Printed(t)

----------------------------------------------------------------------------
(* Batches. *)

\* get_secret of each provider.
Get(w, r) ==
    CASE provider = "aws-sm" -> AwsSmGet(w, r)
      [] provider = "aws-ps" -> AwsPsGet(w, r)
      [] provider = "gcp-sm" -> GcpGet(w, r)
      [] provider = "azure-sm" -> AzureSmGet(w, r)
      [] provider = "azure-ac" -> AzureAcGet(w, r)
      [] provider = "vault" -> VaultGet(w, r)
      [] provider = "bitwarden-sm" -> BwsGet(w, r)
      [] provider = "doppler" -> DopplerGet(w, r)
      [] provider = "infisical" -> InfisicalGet(w, r)
      [] provider = "keeper" -> KeeperGet(w, r)
      [] provider = "kubernetes" -> KubernetesGet(w, r)
      [] provider = "passwordstate" -> PasswordstateGet(w, r)
      [] provider = "1password" -> OpGet(w, r)
      [] provider = "bitwarden" -> BitwardenGet(w, r)
      [] provider = "proton-pass" -> ProtonGet(w, r)

Call(K, how) == [keys |-> K, how |-> how]
Singles(K) == {Call({k}, "get") : k \in K}

\* One call for all, unless there is only one secret.
Together(K) == IF Cardinality(K) = 1 THEN Singles(K) ELSE {Call(K, "batch")} \ {Call({}, "batch")}

\* 1Password: references in one call, and one call for each environment.
OpCalls ==
    LET envs == {k \in Keys : batch[k].scheme = "env"}
    IN  Together(Keys \ envs)
            \union {Call({j \in envs : batch[j].path[1] = batch[k].path[1]}, "env") : k \in envs}

\* The calls of get_secrets_batch; by default one for each secret, concurrently.
Plan ==
    CASE provider \in {"aws-sm", "aws-ps"} -> {Call(K, "batch") : K \in Chunks}
      [] provider = "bitwarden-sm" -> {Call(Keys, "batch")} \ {Call({}, "batch")}
      [] provider \in {"doppler", "infisical"} -> Together(Keys)
      [] provider = "kubernetes" -> {Call({j \in Keys : SameSecret(j, k)}, "batch") : k \in Keys}
      [] provider = "keeper" /\ ~world.login -> {Call(Keys, "prime")} \ {Call({}, "prime")}
      [] provider = "1password" -> OpCalls
      [] OTHER -> Singles(Keys)

First(K) == CHOOSE k \in K : \A j \in K : k <= j

Before(d, c) ==
    IF d.how = "env" <=> c.how = "env" THEN First(d.keys) < First(c.keys) ELSE c.how = "env"

\* Chunks of Secrets Manager, and the calls of 1Password, are made one after another.
MayCall(c) == provider \in {"aws-sm", "1password"} => \A d \in calls : ~Before(d, c)

ReadInit ==
    /\ provider \in Provider
    /\ world \in {[svc |-> v, store |-> s, login |-> FALSE] : v \in {"up", "logged_out"}, s \in Stores}
    /\ batch \in Batches
    /\ calls = Plan
    /\ results = [k \in Keys |-> "pending"]
    /\ seen = {world}
    /\ changes = 0

\* Nothing is read.
ReadIdle ==
    /\ provider = "vault" /\ world = [svc |-> "up", store |-> [n \in Name |-> Absent], login |-> FALSE]
    /\ batch = <<>> /\ calls = {} /\ results = <<>> /\ seen = {} /\ changes = 0

\* The answers of a call for all its keys.
Answers(c) ==
    CASE c.how = "get" -> {[k \in c.keys |-> Get(world, batch[k])]}
      [] c.how = "env" -> {[k \in c.keys |-> OpEnvironment(world, batch[k])]}
      [] c.how = "batch" /\ provider = "aws-sm" -> {AwsSmBatch(world, c.keys)}
      [] c.how = "batch" /\ provider = "aws-ps" -> {AwsPsBatch(world, c.keys)}
      [] c.how = "batch" /\ provider = "bitwarden-sm" -> {BwsBatch(world, c.keys)}
      [] c.how = "batch" /\ provider = "doppler" ->
            {DopplerBatch(world, c.keys, b) : b \in {FALSE, DopplerRefuses(world, c.keys)}}
      [] c.how = "batch" /\ provider = "infisical" -> {InfisicalBatch(world, c.keys)}
      [] c.how = "batch" /\ provider = "kubernetes" -> {KubernetesBatch(world, c.keys)}
      [] c.how = "batch" /\ provider = "1password" -> {OpInject(world, c.keys)}

Record(c, answer) ==
    /\ results' = [k \in Keys |-> IF k \in c.keys THEN answer[k] ELSE results[k]]
    /\ calls' = calls \ {c}

\* A call is answered.  A login that worked is remembered.
Fetch(c) ==
    /\ c \in calls /\ MayCall(c)
    /\ c.how # "prime"
    /\ ~(provider = "1password" /\ c.how = "batch" /\ OpInjectFails(world, c.keys))
    /\ \E answer \in Answers(c) : Record(c, answer)
    /\ world' = [world EXCEPT !.login = @ \/ (provider = "infisical" /\ world.svc = "up")]
    /\ seen' = seen \union {world'}
    /\ UNCHANGED <<provider, batch, changes>>

\* `op inject` failed: the secrets with a usable reference are read one by one.
InjectFailed(c) ==
    LET bad == {k \in c.keys : OpReference(batch[k]) = Malformed}
    IN  /\ c \in calls /\ MayCall(c)
        /\ provider = "1password" /\ c.how = "batch" /\ OpInjectFails(world, c.keys)
        /\ results' = [k \in Keys |-> IF k \in bad THEN "invalid" ELSE results[k]]
        /\ calls' = (calls \ {c}) \union Singles(c.keys \ bad)
        /\ UNCHANGED <<provider, world, batch, seen, changes>>

\* Keeper's token is bound by a first request, before parallel ones.
Prime(c) ==
    /\ c \in calls /\ c.how = "prime"
    /\ IF world.svc = "up"
       THEN /\ calls' = Singles(Keys)
            /\ world' = [world EXCEPT !.login = TRUE]
            /\ UNCHANGED results
       ELSE /\ Record(c, [k \in c.keys |-> KeeperError(world.svc)])
            /\ UNCHANGED world
    /\ seen' = seen \union {world'}
    /\ UNCHANGED <<provider, batch, changes>>

----------------------------------------------------------------------------
(* The world. *)

Disturb(w) ==
    /\ calls # {} /\ changes < MaxChanges
    /\ world' = w /\ seen' = seen \union {w}
    /\ changes' = changes + 1
    /\ UNCHANGED <<provider, batch, calls, results>>

Rotate(n, i) == i # world.store[n] /\ Disturb([world EXCEPT !.store[n] = i])

Service(s) == s # world.svc /\ Disturb([world EXCEPT !.svc = s])

ReadNext ==
    \/ \E c \in calls : Fetch(c) \/ InjectFailed(c) \/ Prime(c)
    \/ \E n \in Name, i \in Items : Rotate(n, i)
    \/ \E s \in Trouble \union {"up"} : Service(s)

----------------------------------------------------------------------------
(* Properties. *)

\* Answers are texts or failures, for the secrets of the batch.
ReadTypeOK ==
    /\ provider \in Provider
    /\ world.svc \in Trouble \union {"up"} /\ world.store \in [Name -> Item \union {Absent}]
    /\ \A c \in calls : c.keys \in SUBSET Keys /\ c.how \in {"get", "batch", "env", "prime"}
    /\ results \in [Keys -> Value \union Failure \union {"pending", None}]
    /\ changes \in 0..MaxChanges

\* The answers agree: the same text, or both fail.
Agree(a, b) == a = b \/ (a \in Failure /\ b \in Failure)

\* Texts that survive being read in one piece with others: `op inject` output is
\* split at lines, `op read` output is trimmed.
Unambiguous(v) ==
    /\ \A i \in DOMAIN Lines[v] : Lines[v][i].key = 0
    /\ Trimmed(Lines[v]) = Lines[v]
Clean == \A w \in seen, n \in Name :
            w.store[n] = Absent \/ \A f \in Field : w.store[n][f] = None \/ Unambiguous(w.store[n][f])

\* What a batch returns for a secret is what reading that secret alone returns in
\* some state of the world during the batch: chunking, shared requests, duplicate
\* references and other secrets that are missing make no difference.  Doppler is the
\* exception: its tool may refuse a whole batch, and a batch does not trim the texts that
\* a single read trims.  (For 1Password see Clean.)
BatchAgrees ==
    \A k \in Keys :
        \/ results[k] = "pending"
        \/ \E w \in seen : Agree(results[k], Get(w, batch[k]))
        \/ provider = "doppler" /\ Len(batch) > 1
              /\ (results[k] = "cli" \/ \E w \in seen : Printed(results[k]) = Get(w, batch[k]))
        \/ provider = "1password" /\ ~Clean

\* A failure to log in is reported as one, whichever way the secret is read, so that
\* the user is offered to log in.  (Bitwarden Secrets Manager's batch hides it.)
LoginReported ==
    \A k \in Keys :
        (results[k] # "pending" /\ \A w \in seen : Get(w, batch[k]) = "auth")
            => results[k] = "auth" \/ provider = "bitwarden-sm"

\* A batch is as good as reading its secrets one by one: each is answered with the same
\* text, or fails as it would, but for the exceptions named above.
ReadsAgree == ReadTypeOK /\ BatchAgrees /\ LoginReported
=============================================================================
