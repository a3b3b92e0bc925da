---------------------------- MODULE LocalSecrets ----------------------------
(***************************************************************************)
(* The providers that unlock something on this machine and keep the key in *)
(* the process (crates/fnox-core/src/providers): FIDO2 and YubiKey tokens, *)
(* Enpass and KeePass vaults, files of secrets, Lua plugins, and the key   *)
(* services, which keep nothing.  Tasks of one process share its caches    *)
(* and locks; the user types, touches, unplugs and edits; the process may  *)
(* be killed and started again, which keeps what was encrypted.            *)
(*                                                                         *)
(* A password, a hardware secret and a ciphertext are the values that they *)
(* depend on; ciphers open exactly what they have closed.                  *)
(***************************************************************************)
EXTENDS Naturals, Sequences, SequencesExt, FiniteSetsExt, TLC

CONSTANTS
    Task,
    Provider,   \* provider instances
    Configs,    \* sets of providers that are used together
    Kind,       \* Kind[p]: "fido2", "yubikey", "enpass", "keepass", "plain", "lua", "aws", "gcp" or "azure"
    NameOf,     \* NameOf[p]: the provider's name in the config
    VaultOf,    \* VaultOf[p]: its vault, database, file, plugin or key
    Configured, \* Configured[p]: the password or PIN of the config or the environment, or None
    Mode,       \* Mode[p]: how a FIDO2 key verifies: "biometric", "pin", "touch" or None (not known)
    Frame,      \* Frame[p]: the chunks that a YubiKey is sent; 0 is a chunk of zeros
    Field,      \* fields of the KeePass entries
    Databases,  \* Databases: what they may refer to: [Field -> sequence of fields]
    MAX_REF_DEPTH, MAX_REF_LOOKUPS,
    None,
    Interactive, \* whether there is a terminal to ask on
    MaxOps,     \* bound: operations begun
    MaxChanges  \* bound: changes of the world and kills

Vault == {VaultOf[p] : p \in Provider}
Names == {NameOf[p] : p \in Provider}
Hardware == {"fido2", "yubikey"}
Services == {"aws", "gcp", "azure"}
Cells == {"plain", "lua"}
Locks == {"fido2", "yubikey", "keepass", "prompt"} \cup Vault

\* What an operation ends with.
Outcomes == {"values", "auth", "undecryptable", "invalid", "nodevice", "timeout", "crc", "notfound", "api"}

ASSUME LocalSecretsAssumption ==
    /\ \A c \in Configs : c \subseteq Provider
    /\ \A p \in Provider : Kind[p] \in Hardware \cup {"enpass", "keepass"} \cup Cells \cup Services
    /\ \A p, q \in Provider : p # q /\ Kind[p] = Kind[q] => NameOf[p] # NameOf[q]
    /\ \A p \in Provider : Kind[p] = "yubikey" => Frame[p] \in Seq(Nat) /\ Len(Frame[p]) > 1
    /\ \A db \in Databases : db \in [Field -> Seq(Field)]
    /\ MAX_REF_DEPTH \in Nat /\ MAX_REF_LOOKUPS \in Nat /\ MaxOps \in Nat /\ MaxChanges \in Nat
    /\ Vault \cap {"fido2", "yubikey", "keepass", "prompt"} = {}
    /\ None \notin Task \cup Nat \cup Outcomes

VARIABLES
    cache, \* passwords and hardware secrets that the process keeps, by kind and key
    lock,  \* [Locks -> task or None]
    cell,  \* [Provider -> [st, v]]: "empty", "busy", "failed" or "ready" with the version read
    task,  \* [Task -> record]
    world, \* the user's passwords, the contents' versions, the token and the service
    usb,   \* the YubiKey: [claimed, driver, buf, pending]
    store, \* [Provider -> ciphertext or None]: what the config holds
    inUse, \* the providers of the config
    ops, changes,
    known  \* history: providers whose vault's present password was typed in this process

localVars == <<cache, lock, cell, task, world, usb, store, inUse, ops, changes, known>>

Encrypts(p) == Kind[p] \in Hardware \cup Services

\* A token's answer depends on the provider's own credential and salt, or challenge.
Secret(p) == [of |-> p]

\* hw_encrypt derives the key from that and the provider's name; a service has its own.
Key(p, secret) == IF Kind[p] \in Hardware THEN [of |-> secret, context |-> NameOf[p]] ELSE [of |-> VaultOf[p], context |-> Kind[p]]

Idle == [at |-> "idle", p |-> None, op |-> None, pw |-> None, prompted |-> FALSE, retried |-> FALSE,
         i |-> 0, snap |-> 0, got |-> <<>>, detached |-> FALSE, f |-> None, out |-> None]

\* Caches are keyed by the provider's name for tokens, by the vault for passwords.
NoCache == [k \in Hardware \cup {"enpass", "keepass"} |-> [x \in IF k \in Hardware THEN Names ELSE Vault |-> None]]

NoFrame == <<>>
EmptyCells == [p \in Provider |-> [st |-> "empty", v |-> 0]]

LocalInit ==
    /\ cache = NoCache /\ lock = [l \in Locks |-> None]
    /\ cell = EmptyCells /\ task = [t \in Task |-> Idle]
    /\ world = [pw |-> [v \in Vault |-> 1], ver |-> [v \in Vault |-> 1], plugged |-> TRUE, svc |-> "up"]
    /\ usb = [claimed |-> None, driver |-> TRUE, buf |-> NoFrame, pending |-> 0]
    /\ store = [p \in Provider |-> IF Encrypts(p) THEN Key(p, Secret(p)) ELSE None]
    /\ inUse \in Configs /\ ops = 0 /\ changes = 0 /\ known = {}

\* Nothing is in use.
LocalIdle ==
    /\ cache = NoCache /\ lock = [l \in Locks |-> None]
    /\ cell = EmptyCells /\ task = [t \in Task |-> Idle]
    /\ world = [pw |-> [v \in Vault |-> 1], ver |-> [v \in Vault |-> 1], plugged |-> TRUE, svc |-> "up"]
    /\ usb = [claimed |-> None, driver |-> TRUE, buf |-> NoFrame, pending |-> 0]
    /\ store = [p \in Provider |-> IF Encrypts(p) THEN Key(p, Secret(p)) ELSE None]
    /\ inUse = {} /\ ops = MaxOps /\ changes = MaxChanges /\ known = {}

At(t, l) == task[t].at = l
Prov(t) == task[t].p
KindOf(t) == Kind[Prov(t)]
Goto(t, l) == task' = [task EXCEPT ![t].at = l]
Done(t, out) == task' = [task EXCEPT ![t].at = "done", ![t].out = out]
Free(l) == lock' = [lock EXCEPT ![l] = None]
Take(l, t) == lock[l] = None /\ lock' = [lock EXCEPT ![l] = t]

----------------------------------------------------------------------------
(* Beginning, and the locks under which a key is looked up or asked for. *)

LockOf(p) == IF Kind[p] = "enpass" THEN VaultOf[p] ELSE Kind[p]

\* KeePass uses a configured password before it takes the lock of its cache.
FirstStep(p) ==
    CASE Kind[p] \in Hardware \cup {"enpass"} -> "lock"
      [] Kind[p] = "keepass" -> IF Configured[p] # None THEN "open" ELSE "lock"
      [] Kind[p] \in Cells -> "cell"
      [] Kind[p] \in Services -> "call"

Begin(t) ==
    /\ At(t, "idle") /\ ops < MaxOps /\ ops' = ops + 1
    /\ \E p \in inUse, op \in {"get", "encrypt"} :
        /\ op = "encrypt" => Encrypts(p)
        /\ task' = [task EXCEPT ![t] = [Idle EXCEPT !.at = FirstStep(p), !.p = p, !.op = op, !.pw = Configured[p]]]
    /\ UNCHANGED <<cache, lock, cell, world, usb, store, changes, known>>

End(t) ==
    /\ At(t, "done") /\ task' = [task EXCEPT ![t] = Idle]
    /\ UNCHANGED <<cache, lock, cell, world, usb, store, ops, changes, known>>

\* The name of the provider alone, or the vault with its key file.
CacheKey(p) == IF Kind[p] \in Hardware THEN NameOf[p] ELSE VaultOf[p]

Cached(p) == cache[Kind[p]][CacheKey(p)]

\* get_hmac_secret of both tokens: the lock is kept until the token has answered.
LockToken(t) ==
    /\ At(t, "lock") /\ KindOf(t) \in Hardware
    /\ IF Cached(Prov(t)) # None
       THEN /\ lock[LockOf(Prov(t))] = None /\ UNCHANGED lock
            /\ task' = [task EXCEPT ![t].at = "use", ![t].pw = Cached(Prov(t))]
       ELSE Take(LockOf(Prov(t)), t) /\ Goto(t, "device")

\* KeePassProvider::get_password
LockKeePass(t) ==
    /\ At(t, "lock") /\ KindOf(t) = "keepass" /\ lock["keepass"] = None
    /\ CASE Cached(Prov(t)) # None ->
                task' = [task EXCEPT ![t].at = "open", ![t].pw = Cached(Prov(t))] /\ UNCHANGED lock
         [] Cached(Prov(t)) = None /\ Interactive -> Take("keepass", t) /\ Goto(t, "prompt")
         [] OTHER -> Done(t, "auth") /\ UNCHANGED lock

\* EnpassProvider::open: one task opens a vault at a time.
LockEnpass(t) == At(t, "lock") /\ KindOf(t) = "enpass" /\ Take(LockOf(Prov(t)), t) /\ Goto(t, "ask")

LockStep(t) ==
    /\ LockToken(t) \/ LockKeePass(t) \/ LockEnpass(t)
    /\ UNCHANGED <<cache, cell, world, usb, store, ops, changes, known>>

----------------------------------------------------------------------------
(* Enpass and KeePass: asking for the password, and opening. *)

\* EnpassProvider::get_password
Ask(t) ==
    /\ At(t, "ask")
    /\ LET p == Prov(t)
       IN  CASE Configured[p] # None -> task' = [task EXCEPT ![t].at = "open", ![t].pw = Configured[p]] /\ UNCHANGED lock
             [] Configured[p] = None /\ Cached(p) # None ->
                    task' = [task EXCEPT ![t].at = "open", ![t].pw = Cached(p), ![t].prompted = FALSE] /\ UNCHANGED lock
             [] Configured[p] = None /\ Cached(p) = None /\ Interactive -> Take("prompt", t) /\ Goto(t, "prompt")
             [] OTHER -> Done(t, "auth") /\ Free(LockOf(p))
    /\ UNCHANGED <<cache, cell, world, usb, store, ops, changes, known>>

Wrong == 0

\* KeePass keeps what was typed before it is tried.
KeepPrompted(t, w) ==
    cache' = IF KindOf(t) = "keepass" THEN [cache EXCEPT !.keepass[CacheKey(Prov(t))] = w] ELSE cache

\* The user types the password or something else, or nothing can be read.
Prompt(t) ==
    /\ At(t, "prompt")
    /\ LET p == Prov(t)
           release == IF KindOf(t) = "keepass" THEN [lock EXCEPT !["keepass"] = None] ELSE [lock EXCEPT !["prompt"] = None]
       IN  \/ \E w \in {world.pw[VaultOf[p]], Wrong} :
                /\ task' = [task EXCEPT ![t].at = "open", ![t].pw = w, ![t].prompted = TRUE]
                /\ lock' = release /\ KeepPrompted(t, w)
                /\ known' = IF w # Wrong THEN known \cup {p} ELSE known
           \/ /\ Done(t, "auth") /\ UNCHANGED <<cache, known>>
              /\ lock' = IF KindOf(t) = "enpass" THEN [release EXCEPT ![LockOf(p)] = None] ELSE release
    /\ UNCHANGED <<cell, world, usb, store, ops, changes>>

\* derive_hex_key and open_with_key
Opens(t) == task[t].pw = world.pw[VaultOf[Prov(t)]]

\* A password that was typed and opens the vault is kept, a cached one that does not goes.
Remember(t) == IF task[t].prompted THEN [cache EXCEPT !.enpass[CacheKey(Prov(t))] = task[t].pw] ELSE cache

Forget(t) == IF Cached(Prov(t)) = task[t].pw THEN [cache EXCEPT !.enpass[CacheKey(Prov(t))] = None] ELSE cache

\* The loop of EnpassProvider::open: after a cached password that does not open the vault
\* the user is asked, once.
OpenEnpass(t) ==
    /\ At(t, "open") /\ KindOf(t) = "enpass"
    /\ LET again == ~Opens(t) /\ Cached(Prov(t)) = task[t].pw /\ ~task[t].retried /\ Interactive
       IN  /\ cache' = IF Opens(t) THEN Remember(t) ELSE Forget(t)
           /\ IF again THEN UNCHANGED lock ELSE Free(LockOf(Prov(t)))
           /\ CASE Opens(t) -> Goto(t, "items")
                [] ~Opens(t) /\ again -> task' = [task EXCEPT ![t].at = "ask", ![t].retried = TRUE]
                [] OTHER -> Done(t, "auth")
    /\ UNCHANGED <<cell, world, usb, store, ops, changes, known>>

\* The vault's files may be missing, damaged or of another format, before or after its
\* password is tried (derive_hex_key, open_with_key, load_items, fields_for).  What was
\* typed for it is then not kept.
Unreadable(t) ==
    /\ Done(t, "invalid")
    /\ \/ /\ At(t, "open") /\ KindOf(t) = "enpass" /\ Free(LockOf(Prov(t)))
          /\ known' = IF task[t].prompted THEN {p \in known : VaultOf[p] # VaultOf[Prov(t)]} ELSE known
       \/ task[t].at \in {"items", "fields"} /\ UNCHANGED <<lock, known>>
    /\ UNCHANGED <<cache, cell, world, usb, store, ops, changes>>

\* Mutant: one reference too many is resolved.
TooManyLate(n) == n > MAX_REF_LOOKUPS

TooMany(n) == n >= MAX_REF_LOOKUPS

\* resolve_field_refs: the references in a field, one after the other, each replaced by
\* the field that it names with its own references resolved; `left` is how many levels
\* deeper they may go, n how many references were resolved before.
ResolveRefs(db) ==
    LET resolve[left \in Nat] ==
            [f \in Field, n \in Nat |->
                LET after[i \in Nat] ==
                        IF i = 0 THEN [n |-> n, err |-> FALSE]
                        ELSE LET r == after[i - 1]
                             IN  IF r.err \/ left = 0 \/ TooMany(r.n) THEN [r EXCEPT !.err = TRUE]
                                 ELSE resolve[left - 1][db[f][i], r.n + 1]
                IN  after[Len(db[f])]]
    IN  [f \in Field |-> resolve[MAX_REF_DEPTH][f, 0]]

\* open_database reads the whole database; the field may refer to others.
OpenKeePass(t) ==
    /\ At(t, "open") /\ KindOf(t) = "keepass"
    /\ LET v == world.ver[VaultOf[Prov(t)]]
       IN  \E db \in Databases, f \in Field :
            task' = CASE ~Opens(t) -> [task EXCEPT ![t].at = "done", ![t].out = "auth"]
                      [] Opens(t) /\ ResolveRefs(db)[f].err -> [task EXCEPT ![t].at = "done", ![t].out = "invalid", ![t].f = [db |-> db, f |-> f]]
                      [] OTHER -> [task EXCEPT ![t].at = "done", ![t].got = <<v, v>>, ![t].out = "values", ![t].f = [db |-> db, f |-> f]]
    /\ UNCHANGED <<cache, lock, cell, world, usb, store, ops, changes, known>>

\* Mutant: no transaction: each statement reads what is there.
SnapshotNow(t) == world.ver[VaultOf[Prov(t)]]

\* Both statements of lookup_many read the state at BEGIN.
Snapshot(t) == task[t].snap

\* load_items
LoadItems(t) ==
    /\ At(t, "items")
    /\ task' = [task EXCEPT ![t].at = "fields", ![t].snap = world.ver[VaultOf[Prov(t)]]]
    /\ UNCHANGED <<cache, lock, cell, world, usb, store, ops, changes, known>>

\* find_field for one reference of the batch after the other, then COMMIT.
FindField(t) ==
    /\ At(t, "fields")
    /\ LET got == Append(task[t].got, Snapshot(t))
       IN  task' = [task EXCEPT ![t].got = got, ![t].at = IF Len(got) = 2 THEN "done" ELSE @,
                                ![t].out = IF Len(got) = 2 THEN "values" ELSE @]
    /\ UNCHANGED <<cache, lock, cell, world, usb, store, ops, changes, known>>

----------------------------------------------------------------------------
(* FIDO2. *)

\* verification_for and the first choice of authenticate.  With a configured PIN, or a
\* touch alone, the token is asked at once; otherwise the user may be asked for the PIN.
FidoStart(t) ==
    /\ At(t, "device") /\ KindOf(t) = "fido2"
    /\ LET m == Mode[Prov(t)]
       IN  CASE ~world.plugged -> Done(t, "nodevice") /\ Free("fido2")
             [] world.plugged /\ (Configured[Prov(t)] # None \/ m \in {"biometric", "touch"}) -> Goto(t, "assert") /\ UNCHANGED lock
             [] world.plugged /\ Configured[Prov(t)] = None /\ m \in {"pin", None} /\ Interactive -> Goto(t, "askpin") /\ UNCHANGED lock
             [] world.plugged /\ Configured[Prov(t)] = None /\ m = "pin" /\ ~Interactive -> Done(t, "auth") /\ Free("fido2")
             [] OTHER -> Goto(t, "assert") /\ UNCHANGED lock
    /\ UNCHANGED <<cache, cell, world, usb, store, ops, changes, known>>

\* read_pin; an empty answer goes on without a PIN, or gives up after a fingerprint failed.
AskPin(t) ==
    /\ At(t, "askpin")
    /\ \/ \E w \in {1, Wrong} : task' = [task EXCEPT ![t].at = "assert", ![t].pw = w] /\ UNCHANGED lock
       \/ IF task[t].retried \/ Mode[Prov(t)] = "pin" THEN Done(t, "auth") /\ Free("fido2")
          ELSE Goto(t, "assert") /\ UNCHANGED lock
    /\ UNCHANGED <<cache, cell, world, usb, store, ops, changes, known>>

\* assert_hmac_secret: a right PIN and a touch, or without a PIN a finger or a touch.  After
\* a finger that failed the PIN is asked for.
AssertHmac(t) ==
    /\ At(t, "assert")
    /\ \E ok \in BOOLEAN :
        LET p == Prov(t)
            w == task[t].pw
            good == ok /\ world.plugged /\ (w = 1 \/ (w = None /\ Mode[p] \in {"biometric", "touch"}))
            again == ~good /\ Mode[p] = "biometric" /\ w = None /\ Interactive
        IN  /\ cache' = IF good THEN [cache EXCEPT !.fido2[CacheKey(p)] = Secret(p)] ELSE cache
            /\ IF again THEN UNCHANGED lock ELSE Free("fido2")
            /\ CASE good -> task' = [task EXCEPT ![t].at = "use", ![t].pw = Secret(p)]
                 [] ~good /\ again -> task' = [task EXCEPT ![t].at = "askpin", ![t].retried = TRUE]
                 [] OTHER -> Done(t, "auth")
    /\ UNCHANGED <<cell, world, usb, store, ops, changes, known>>

----------------------------------------------------------------------------
(* The YubiKey's HID protocol: chunks of a frame, then reports of the response. *)

Reports == 4

\* Drop of the handle: the interface is released, the driver put back.
Drop(t) == [usb EXCEPT !.claimed = None, !.driver = @ \/ task[t].detached]

UsbFails(t, out) == Done(t, out) /\ Free("yubikey") /\ usb' = Drop(t)

\* find_and_open: the kernel's driver is detached if it is there.  A token that cannot be
\* opened, detached or claimed is left as it was, with its driver back.
OpenUsb(t) ==
    /\ At(t, "device") /\ KindOf(t) = "yubikey"
    /\ \/ /\ world.plugged /\ usb' = [usb EXCEPT !.claimed = t, !.driver = FALSE]
          /\ task' = [task EXCEPT ![t].at = "write", ![t].i = 1, ![t].detached = usb.driver] /\ UNCHANGED lock
       \/ Done(t, "nodevice") /\ Free("yubikey") /\ UNCHANGED usb
    /\ UNCHANGED <<cache, cell, world, store, ops, changes, known>>

\* write_frame: only the first, the last and the chunks that are not zero are sent.
Sent(f, i) == i = 1 \/ i = Len(f) \/ f[i] # 0

\* The token takes what was not sent as zeros, and answers after the last chunk (external).
Receive(f, i) ==
    LET old == IF i = 1 THEN [j \in DOMAIN f |-> 0] ELSE usb.buf
    IN  [usb EXCEPT !.buf = [old EXCEPT ![i] = f[i]], !.pending = 0]

WriteChunk(t) ==
    /\ At(t, "write")
    /\ LET f == Frame[Prov(t)]
           i == task[t].i
       IN  IF ~world.plugged THEN UsbFails(t, "nodevice")
           ELSE /\ usb' = IF Sent(f, i) THEN Receive(f, i) ELSE usb
                /\ task' = [task EXCEPT ![t].at = IF i = Len(f) THEN "response" ELSE @,
                                        ![t].i = IF i = Len(f) THEN 1 ELSE i + 1]
                /\ UNCHANGED lock
    /\ UNCHANGED <<cache, cell, world, store, ops, changes, known>>

\* The user touches the token, which then has a response; or it gives up on one.
Touch(t) ==
    /\ At(t, "response") /\ world.plugged /\ task[t].i = 1 /\ usb.pending = 0
    /\ usb' = [usb EXCEPT !.pending = 1]
    /\ UNCHANGED <<cache, lock, cell, task, world, store, ops, changes, known>>

GiveUp ==
    /\ usb.pending > 0 /\ changes < MaxChanges /\ changes' = changes + 1
    /\ usb' = [usb EXCEPT !.pending = 0]
    /\ UNCHANGED <<cache, lock, cell, task, world, store, ops, known>>

\* wait_for gives up after WAIT_TIMEOUT.
TimeOut(t) ==
    /\ At(t, "response") /\ task[t].i = 1 /\ usb.pending = 0
    /\ UsbFails(t, "timeout")
    /\ UNCHANGED <<cache, cell, world, store, ops, changes, known>>

\* read_response: reports are read until there is none pending, then the token is reset.
ReadReport(t) ==
    /\ At(t, "response") /\ (task[t].i = 1 => usb.pending > 0)
    /\ LET n == Len(task[t].got)
           more == usb.pending > 0
       IN  IF ~world.plugged THEN UsbFails(t, "nodevice")
           ELSE /\ usb' = [usb EXCEPT !.pending = IF more /\ @ < Reports THEN @ + 1 ELSE 0]
                /\ task' = [task EXCEPT ![t].got = IF more THEN Append(@, usb.buf) ELSE @, ![t].i = 2,
                                        ![t].at = IF more /\ n + 1 < Reports THEN @ ELSE "crc"]
                /\ UNCHANGED lock
    /\ UNCHANGED <<cache, cell, world, store, ops, changes, known>>

\* crc16 of the 22 bytes is right when all the reports of one response are there.
CrcOk(got) == Len(got) = Reports

\* What the token answers: it depends on the frame that it got.
Answer(t) ==
    IF Len(task[t].got) = Reports /\ task[t].got[1] = Frame[Prov(t)] THEN Secret(Prov(t)) ELSE [of |-> None]

\* The end of challenge_response_hmac.
CheckCrc(t) ==
    /\ At(t, "crc")
    /\ IF world.plugged /\ CrcOk(task[t].got)
       THEN /\ cache' = [cache EXCEPT !.yubikey[CacheKey(Prov(t))] = Answer(t)]
            /\ task' = [task EXCEPT ![t].at = "use", ![t].pw = Answer(t), ![t].got = <<>>]
            /\ Free("yubikey") /\ usb' = Drop(t)
       ELSE UsbFails(t, "crc") /\ UNCHANGED cache
    /\ UNCHANGED <<cell, world, store, ops, changes, known>>

----------------------------------------------------------------------------
(* Ciphers. *)

UseToken(t) ==
    /\ At(t, "use")
    /\ LET key == Key(Prov(t), task[t].pw)
       IN  IF task[t].op = "encrypt"
           THEN store' = [store EXCEPT ![Prov(t)] = key] /\ Done(t, "values")
           ELSE Done(t, IF store[Prov(t)] = key THEN "values" ELSE "undecryptable") /\ UNCHANGED store
    /\ UNCHANGED <<cache, lock, cell, world, usb, ops, changes, known>>

\* What each service's errors become; only some of them lead to a login.
AwsKmsError(op) == CASE world.svc = "denied" -> "auth" [] world.svc = "nokey" -> "notfound" [] OTHER -> "api"

AzureKmsError(op) ==
    CASE world.svc = "denied" -> "auth"
      [] world.svc = "nokey" -> IF op = "get" THEN "notfound" ELSE "api"
      [] OTHER -> "api"

GcpKmsError(op) ==
    CASE world.svc = "denied" -> "auth"
      [] world.svc = "nokey" -> IF op = "get" THEN "notfound" ELSE "api"
      [] OTHER -> "api"

KmsError(t) ==
    CASE KindOf(t) = "aws" -> AwsKmsError(task[t].op)
      [] KindOf(t) = "azure" -> AzureKmsError(task[t].op)
      [] KindOf(t) = "gcp" -> GcpKmsError(task[t].op)

KmsCall(t) ==
    /\ At(t, "call")
    /\ LET key == Key(Prov(t), None)
       IN  CASE world.svc # "up" -> Done(t, KmsError(t)) /\ UNCHANGED store
             [] world.svc = "up" /\ task[t].op = "encrypt" ->
                    store' = [store EXCEPT ![Prov(t)] = key] /\ Done(t, "values")
             [] OTHER -> Done(t, IF store[Prov(t)] = key THEN "values" ELSE "undecryptable") /\ UNCHANGED store
    /\ UNCHANGED <<cache, lock, cell, world, usb, ops, changes, known>>

----------------------------------------------------------------------------
(* Files of secrets and Lua plugins are read once, in a cell. *)

GetCell(t) ==
    /\ At(t, "cell") /\ cell[Prov(t)].st # "busy"
    /\ CASE cell[Prov(t)].st = "empty" -> cell' = [cell EXCEPT ![Prov(t)].st = "busy"] /\ Goto(t, "load")
         [] cell[Prov(t)].st = "failed" -> Done(t, "invalid") /\ UNCHANGED cell
         [] OTHER -> task' = [task EXCEPT ![t].at = "read", ![t].snap = cell[Prov(t)].v] /\ UNCHANGED cell
    /\ UNCHANGED <<cache, lock, world, usb, store, ops, changes, known>>

\* get_or_init keeps a failure, get_or_try_init does not.
CellAfterFailure(p) == IF Kind[p] = "plain" THEN "failed" ELSE "empty"

\* SecretFile::secrets and LuaProvider::load
LoadCell(t) ==
    /\ At(t, "load")
    /\ \/ /\ cell' = [cell EXCEPT ![Prov(t)] = [st |-> "ready", v |-> world.ver[VaultOf[Prov(t)]]]]
          /\ Goto(t, "cell")
       \/ cell' = [cell EXCEPT ![Prov(t)].st = CellAfterFailure(Prov(t))] /\ Done(t, "invalid")
    /\ UNCHANGED <<cache, lock, world, usb, store, ops, changes, known>>

\* One secret of the batch after the other, from what the cell holds.
ReadCell(t) ==
    /\ At(t, "read")
    /\ LET got == Append(task[t].got, task[t].snap)
       IN  task' = [task EXCEPT ![t].got = got, ![t].at = IF Len(got) = 2 THEN "done" ELSE @,
                                ![t].out = IF Len(got) = 2 THEN "values" ELSE @]
    /\ UNCHANGED <<cache, lock, cell, world, usb, store, ops, changes, known>>

----------------------------------------------------------------------------
(* The world. *)

VaultsOf(kinds) == {VaultOf[p] : p \in {q \in inUse : Kind[q] \in kinds}}

Change ==
    /\ changes < MaxChanges /\ changes' = changes + 1
    /\ \/ \E v \in VaultsOf({"enpass", "keepass"}) :
            world' = [world EXCEPT !.pw[v] = @ + 1] /\ known' = {p \in known : VaultOf[p] # v}
       \/ \E v \in VaultsOf({"enpass", "keepass"} \cup Cells) : world' = [world EXCEPT !.ver[v] = @ + 1] /\ UNCHANGED known
       \/ (\E p \in inUse : Kind[p] \in Hardware) /\ world' = [world EXCEPT !.plugged = ~@] /\ UNCHANGED known
       \/ (\E p \in inUse : Kind[p] \in Services) /\ \E s \in {"up", "denied", "nokey", "down"} \ {world.svc} : world' = [world EXCEPT !.svc = s] /\ UNCHANGED known
    /\ UNCHANGED <<cache, lock, cell, task, usb, store, ops>>

\* The process ends and another one starts.  A driver that was detached stays so.
Kill ==
    /\ changes < MaxChanges /\ changes' = changes + 1
    /\ cache' = NoCache /\ lock' = [l \in Locks |-> None] /\ cell' = EmptyCells
    /\ task' = [t \in Task |-> Idle] /\ usb' = [usb EXCEPT !.claimed = None] /\ known' = {}
    /\ UNCHANGED <<world, store, ops>>

Step(t) ==
    \/ LockStep(t) \/ Ask(t) \/ Prompt(t) \/ OpenEnpass(t) \/ OpenKeePass(t) \/ LoadItems(t) \/ FindField(t)
    \/ Unreadable(t) \/ FidoStart(t) \/ AskPin(t) \/ AssertHmac(t) \/ OpenUsb(t) \/ WriteChunk(t) \/ TimeOut(t) \/ ReadReport(t)
    \/ CheckCrc(t) \/ UseToken(t) \/ KmsCall(t) \/ GetCell(t) \/ LoadCell(t) \/ ReadCell(t) \/ End(t)

LocalNext ==
    /\ Change \/ Kill \/ GiveUp \/ \E t \in Task : Begin(t) \/ Step(t) \/ Touch(t)
    /\ UNCHANGED inUse

\* A task runs on, the user answers prompts, and a wait for the token times out.
LocalFair == \A t \in Task : WF_localVars(Step(t) /\ UNCHANGED inUse)

----------------------------------------------------------------------------
(* Properties. *)

Labels == {"idle", "lock", "ask", "prompt", "open", "items", "fields", "device", "askpin", "assert", "write",
           "response", "crc", "use", "call", "cell", "load", "read", "done"}

\* The types of the variables; a lock is held by a task that runs.
LocalTypeOK ==
    /\ \A t \in Task : task[t].at \in Labels
    /\ \A l \in Locks : lock[l] = None \/ (lock[l] \in Task /\ ~At(lock[l], "idle") /\ ~At(lock[l], "done"))
    /\ ops \in 0..MaxOps /\ changes \in 0..MaxChanges

\* Enpass keeps only passwords that have opened the vault (EnpassProvider::open), so a
\* typing error is not repeated for the life of the process.
AcceptedOnly == \A v \in Vault : cache.enpass[v] # Wrong

\* The user is asked for the password of a vault by one task at a time, and not again once
\* it was typed right, for as long as the vault keeps it and could be read when it was typed.
AskedOnce ==
    /\ \A t, u \in Task : At(t, "prompt") /\ At(u, "prompt") /\ t # u => Kind[Prov(t)] # Kind[Prov(u)]
    /\ \A t \in Task : At(t, "prompt") /\ Kind[Prov(t)] = "enpass" => Prov(t) \notin known

\* What a provider has encrypted it can decrypt, in this process and the next, whatever
\* was cached, torn or unplugged in between.
Readable == \A t \in Task : task[t].out # "undecryptable"

\* All secrets of one batch come from one state of the vault or file, also when that is
\* saved by another program in the middle.
OneState == \A t \in Task : \A i, j \in DOMAIN task[t].got :
    KindOf(t) # "yubikey" => task[t].got[i] = task[t].got[j]

\* Refs(db)[k][f]: how many paths of at most k references start in the field f.
Refs(db) ==
    LET refs[k \in Nat] ==
            [f \in Field |->
                LET first[i \in Nat] ==
                        IF k = 0 \/ i = 0 THEN 0 ELSE first[i - 1] + 1 + refs[k - 1][db[f][i]]
                IN  first[Len(db[f])]]
    IN  refs

\* A KeePass field is answered exactly when its references are no deeper than
\* MAX_REF_DEPTH, which excludes cycles, and there are at most MAX_REF_LOOKUPS of them
\* (KeePassProvider::resolve_field_refs).
RefsSettled ==
    \A t \in Task : LET x == task[t].f IN x # None =>
        (task[t].out = "values") = (/\ Refs(x.db)[MAX_REF_DEPTH + 1][x.f] = Refs(x.db)[MAX_REF_DEPTH][x.f]
                                    /\ Refs(x.db)[MAX_REF_DEPTH][x.f] <= MAX_REF_LOOKUPS)

\* When no task uses the token its interface is free, and the kernel has its driver back,
\* unless a process was killed while it used it.
DriverRestored ==
    [][usb.claimed \in Task /\ task[usb.claimed].detached /\ usb'.claimed = None /\ ~(\A t \in Task : task'[t] = Idle)
        => usb'.driver]_localVars

\* Every operation ends: locks are given back on every path, nobody waits for a cell that
\* nobody fills, and a user who answers is not asked for ever.
Ends == \A t \in Task : ~At(t, "idle") ~> At(t, "idle")

\* What is read is what was written, by whatever key, and from one state.
ReadsSound == Readable /\ OneState
=============================================================================
