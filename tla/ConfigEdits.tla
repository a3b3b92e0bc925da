----------------------------- MODULE ConfigEdits -----------------------------
(***************************************************************************)
(* The commands that write configuration files (set, remove, import, sync, *)
(* reencrypt, edit, init, provider add and remove), run by processes that  *)
(* share the files and a remote store.  A command loads the layers, works  *)
(* out what to write, and then reads, truncates and fills each file; there *)
(* is no lock, and a process may be killed between any two steps.          *)
(***************************************************************************)
EXTENDS ConfigLayers

CONSTANTS
    Proc,       \* processes
    Start,      \* file systems to begin with
    Command,    \* the command lines that are run
    MaxCommands \* bound: commands begun

VARIABLES
    fs,     \* the documents of the files that exist
    remote, \* the remote store: the plaintexts of the names that it has
    proc,   \* [Proc -> record]
    next,   \* the next plaintext; every value that is set is a new one
    begun   \* how many commands have begun

vars == <<fs, remote, proc, next, begun>>

\* The command lines: op what they do, ps the profiles they select, wp the one they write
\* to, if they say so, how the value of a set comes about.
CommandLine ==
    [op : {"set", "remove", "import", "sync", "reencrypt", "edit", "init", "add", "drop"},
     ps : Seq(AnyProfile) \ {<<>>}, wp : {None} \cup AnyProfile, key : Key, keys : SUBSET Key,
     how : {"value", "generate", "metadata"}, prov : {None} \cup Provider,
     force : BOOLEAN, global : BOOLEAN, local : BOOLEAN, nd : BOOLEAN]

FilesOK(files, names) ==
    IsPartial(files, File, {files[f] : f \in DOMAIN files}) /\ \A f \in DOMAIN files : IsDoc(files[f], names)

ASSUME ConfigEditsAssumption ==
    /\ MaxCommands \in Nat
    /\ \A files \in Start : FilesOK(files, Key)
    /\ \A c \in Command : c # None /\ c \in CommandLine /\ (c.op = "add" => c.prov # None)

\* prof: the profiles that discovery has found so far; puts: what is left to put in the
\* remote store, v the value that is written; shown: the values in the editor, changed the
\* secret that the user changes there; todo: the writes that are left; doc: the document
\* that was read for the first of them; alone: nobody else has written since the command
\* began (history).
Idle == [at |-> "idle", cmd |-> None, prof |-> <<>>, cfg |-> EmptyConfig, puts |-> <<>>, v |-> None,
         shown |-> <<>>, changed |-> None, todo |-> <<>>, doc |-> EmptyDoc, alone |-> TRUE]

\* The names of the remote store that the files refer to.
Written(files) ==
    UNION {UNION {{files[f].tab[t].secrets[k].val : k \in DOMAIN files[f].tab[t].secrets} :
                  t \in DOMAIN files[f].tab} : f \in DOMAIN files}
References(files) == {v.v : v \in {v \in Written(files) : v # None /\ v.k = "ref"}}

Init ==
    /\ fs \in Start
    /\ remote = [k \in References(fs) |-> 1]
    /\ proc = [p \in Proc |-> Idle]
    /\ next = 2 /\ begun = 0

At(p, l) == proc[p].at = l
Cmd(p) == proc[p].cmd
Set(p, r) == proc' = [proc EXCEPT ![p] = r]
Quit(p) == Set(p, Idle) /\ UNCHANGED <<fs, remote, next>>
Writes(p, r) == proc' = [q \in Proc |-> IF q = p THEN r ELSE [proc[q] EXCEPT !.alone = FALSE]]

\* resolve_write_profile; None when several profiles are given and none to write to.
WriteProfile(c) ==
    CASE c.wp # None -> c.wp
      [] c.wp = None /\ Len(c.ps) = 1 -> c.ps[1]
      [] OTHER -> None

\* Remove, init and provider add do not load the layers.
Loads(c) == c.op \notin {"remove", "init", "add"}

Begin(p) ==
    /\ At(p, "idle") /\ begun < MaxCommands /\ begun' = begun + 1
    /\ \E c \in Command :
        Set(p, [Idle EXCEPT !.cmd = c, !.prof = c.ps, !.at = IF Loads(c) THEN "load" ELSE "work"])
    /\ UNCHANGED <<fs, remote, next>>

\* sync --local loads the layers without its own cache.
WithSync(c) == ~(c.op = "sync" /\ c.local)

\* The profile that may still be unknown: set and import create it.
MayBeMissing(c) == IF c.op \in {"set", "import"} THEN WriteProfile(c) ELSE None

\* Mutant: the list is compared with the one that was asked for.
MoreThanAsked(s, r) == r.out # s.cmd.ps

\* The loaded files inherit profiles whose own files are not loaded yet.
MoreProfiles(s, r) == r.out # s.prof

\* load_with_recursion: load, see which profiles are inherited, and load again with their
\* files until there are no more; then load_config validates the profiles.
LoadLayers(p) ==
    /\ proc[p].at \in {"load", "reload"}
    /\ \E s \in {proc[p]} : \E c \in {LoadRecursive(fs, s.prof, WithSync(s.cmd), s.cmd.nd)} :
       \E r \in {ResolveProfiles(c, s.prof, FALSE)} :
       LET ok == /\ c.found /\ ValidProfiles(c, s.cmd.ps, MayBeMissing(s.cmd))
                 /\ WriteProfile(s.cmd) # None
       IN  Set(p, CASE c.err \/ r.err -> Idle
                    [] ~(c.err \/ r.err) /\ MoreProfiles(s, r) ->
                            [s EXCEPT !.prof = r.out, !.at = IF s.at = "load" THEN "reload" ELSE "load"]
                    [] OTHER -> IF ok THEN [s EXCEPT !.at = "work", !.cfg = c] ELSE Idle)
    /\ UNCHANGED <<fs, remote, next, begun>>

----------------------------------------------------------------------------
(* Documents and what is written to them. *)

EmptyEntry == [prov |-> None, val |-> None, sync |-> None, local |-> FALSE]

\* to_inline_table, write_to_table: an entry without what only the loaded one has.
Stored(e) == [prov |-> e.prov, val |-> e.val, sync |-> e.sync, local |-> e.local]

Text(v) == [k |-> "text", v |-> v, fresh |-> TRUE]
Ref(k) == [k |-> "ref", v |-> k, fresh |-> TRUE]

\* What an entry stands for: the sync cache first, then the provider.
Value(e, store) ==
    CASE e.sync # None -> e.sync
      [] e.sync = None /\ e.val = None -> None
      [] e.sync = None /\ e.val # None /\ e.val.k = "ref" -> IF e.val.v \in DOMAIN store THEN store[e.val.v] ELSE None
      [] OTHER -> e.val.v

RawValue(e, store) == Value([e EXCEPT !.sync = None], store)

Update(f, w, puts, dels) ==
    [file |-> f, kind |-> "update", tbl |-> TableFor(f, w), puts |-> [k \in DOMAIN puts |-> Stored(puts[k])], dels |-> dels]
Replace(f, d) == [file |-> f, kind |-> "replace", doc |-> d]

\* Mutant: the table is written anew.
ApplyAlone(d, u) ==
    IF u.kind = "replace" THEN u.doc
    ELSE [d EXCEPT !.tab = Over(One(u.tbl, [Table(d.tab, u.tbl) EXCEPT !.secrets = u.puts]), @)]

\* update_secrets_in_source, save_secret_to_source and remove_secret_from_source on the
\* document that was read.
Apply(d, u) ==
    IF u.kind = "replace" THEN u.doc
    ELSE LET t == Table(d.tab, u.tbl)
             kept == [k \in DOMAIN t.secrets \ u.dels |-> t.secrets[k]]
         IN  [d EXCEPT !.tab = Over(One(u.tbl, [t EXCEPT !.secrets = Over(u.puts, kept)]), @)]

\* Config::save of a file that was loaded: root entries of a profile file come out under
\* [profiles.<p>], and profiles that are empty go.
Saved(c) ==
    LET Bare(t) == [t EXCEPT !.secrets = [k \in DOMAIN @ |-> Stored(@[k])]]
    IN  [root |-> c.root, imports |-> c.imports,
         tab |-> [p \in {q \in DOMAIN c.tab : q = Default \/ c.tab[q] # EmptyTable} |-> Bare(c.tab[p])]]

Plan(p, todo) == Set(p, [proc[p] EXCEPT !.at = "save", !.todo = todo]) /\ UNCHANGED <<fs, remote, next>>

\* The file that a command edits.
Target(c) == IF c.global THEN Global ELSE FindLocalConfig(fs, WriteProfile(c))

----------------------------------------------------------------------------
(* set, remove and import *)

BelongsToTarget(e, f, w) == e # None /\ e.src = f /\ e.own = w

\* target_has_secret
TargetHas(f, w, k) == f \in DOMAIN fs /\ k \in DOMAIN Table(fs[f].tab, TableFor(f, w)).secrets

\* --provider, then the provider that the secret has, then the default one.
ProviderToUse(c, cfg, eff) ==
    CASE c.prov # None -> [ok |-> TRUE, prov |-> c.prov]
      [] c.prov = None /\ eff # None /\ eff.prov # None -> [ok |-> TRUE, prov |-> eff.prov]
      [] OTHER -> GetDefaultProvider(cfg, <<WriteProfile(c)>>)

\* resolve_remote_key_name
RemoteKeyName(k, existing, prov) ==
    IF existing # None /\ existing.prov = prov /\ existing.val # None THEN existing.val.v ELSE k

SyncAfterSet(c, e) == IF c.how = "generate" THEN None ELSE e.sync

\* The entry that set writes: what the write profile has in the loaded layers, or a copy
\* of the inherited secret when only metadata is set.
EntryToSet(c, cfg, eff, existing, q, val) ==
    LET mine == Table(cfg.tab, WriteProfile(c)).secrets
        base == CASE c.key \in DOMAIN mine -> mine[c.key]
                  [] c.key \notin DOMAIN mine /\ c.how = "metadata" /\ existing = None /\ eff # None -> eff
                  [] OTHER -> EmptyEntry
    IN  [base EXCEPT !.prov = IF c.prov # None \/ @ = None THEN q ELSE @,
                     !.sync = SyncAfterSet(c, base), !.val = IF c.how = "metadata" THEN @ ELSE val]

SetSecret(p) ==
    /\ At(p, "work") /\ Cmd(p).op = "set"
    /\ LET c == Cmd(p)
           cfg == proc[p].cfg
           w == WriteProfile(c)
           f == Target(c)
       IN
       \E eff \in {GetSecret(cfg, <<w>>, c.key, c.nd)} : \E use \in {ProviderToUse(c, cfg, eff)} :
       LET existing == IF BelongsToTarget(eff, f, w) THEN eff ELSE None
           name == RemoteKeyName(c.key, existing, use.prov)
           refused == c.how = "generate" /\ ~c.force /\ (eff # None \/ TargetHas(f, w, c.key))
           unknown == c.how # "metadata" /\ use.prov # None /\ use.prov \notin GetProviders(cfg, <<w>>)
           isRemote == use.prov # None /\ Cap[use.prov] = "remote" /\ c.how # "metadata"
           val == IF isRemote THEN Ref(name) ELSE Text(next)
           e == EntryToSet(c, cfg, eff, existing, use.prov, val)
       IN  IF refused \/ ~use.ok \/ unknown THEN Quit(p)
           ELSE /\ Set(p, [proc[p] EXCEPT !.at = IF isRemote THEN "put" ELSE "save",
                                          !.puts = IF isRemote THEN <<[name |-> name, v |-> next]>> ELSE <<>>,
                                          !.v = next, !.todo = <<Update(f, w, One(c.key, e), {})>>])
                /\ next' = next + 1 /\ UNCHANGED <<fs, remote>>
    /\ UNCHANGED begun

\* Mutant: the reference is saved before the value is stored.
PutLate(p) ==
    /\ At(p, "put") /\ Set(p, [proc[p] EXCEPT !.at = "save", !.puts = <<>>]) /\ UNCHANGED <<fs, remote, next, begun>>

\* edit writes the document that it has read before.
AfterPuts(c) == IF c.op = "edit" THEN "write" ELSE "save"

\* put_secret, before the file is written.
PutSecret(p) ==
    /\ At(p, "put")
    /\ LET put == Head(proc[p].puts)
           last == Len(proc[p].puts) = 1
       IN  /\ remote' = Over(One(put.name, put.v), remote)
           /\ Writes(p, [proc[p] EXCEPT !.puts = Tail(@), !.at = IF last THEN AfterPuts(Cmd(p)) ELSE @])
    /\ UNCHANGED <<fs, next, begun>>

\* remove looks at the target alone.
RemoveSecret(p) ==
    /\ At(p, "work") /\ Cmd(p).op = "remove"
    /\ LET c == Cmd(p)
           f == Target(c)
           w == WriteProfile(c)
       IN  IF w # None /\ f \in DOMAIN fs /\ c.key \in DOMAIN Table(Load(fs, f).tab, w).secrets
           THEN Plan(p, <<Update(f, w, <<>>, {c.key})>>)
           ELSE Quit(p)
    /\ UNCHANGED begun

\* import: the entries that the target has under the profile that is read, with new values
\* of an encryption provider, saved under the one that is written.
ImportSecrets(p) ==
    /\ At(p, "work") /\ Cmd(p).op = "import"
    /\ LET c == Cmd(p)
           f == Target(c)
           had == IF f \notin DOMAIN fs THEN <<>> ELSE Table(Load(fs, f).tab, Last(c.ps)).secrets
           New(k) == [IF k \in DOMAIN had THEN had[k] ELSE EmptyEntry
                      EXCEPT !.prov = c.prov, !.val = Text(next)]
       IN  IF c.prov \in GetProviders(proc[p].cfg, c.ps) /\ Cap[c.prov] = "encrypt"
           THEN /\ Set(p, [proc[p] EXCEPT !.at = "save", !.v = next,
                               !.todo = <<Update(f, WriteProfile(c), [k \in c.keys |-> New(k)], {})>>])
                /\ next' = next + 1 /\ UNCHANGED <<fs, remote>>
           ELSE Quit(p)
    /\ UNCHANGED begun

----------------------------------------------------------------------------
(* sync and reencrypt *)

\* Secrets of another provider than the one to encrypt with.
ToSync(c, cfg) ==
    LET all == GetSecrets(cfg, c.ps, c.nd)
    IN  {k \in DOMAIN all : all[k].prov \notin {None, c.prov} /\ (c.keys = {} \/ k \in c.keys)}

\* is_local_source
IsLocalSource(e, f, w) == e.src = f /\ e.own = w /\ IsLocal(f)

\* sync --local writes to the hidden file when there is one.
SyncTarget(c) ==
    LET f == FindLocalConfig(fs, WriteProfile(c))
    IN  CASE c.local -> IF <<"cwd", ".local">> \in DOMAIN fs THEN <<"cwd", ".local">> ELSE <<"cwd", LocalOverride(f)>>
          [] ~c.local /\ c.global -> Global
          [] OTHER -> <<"cwd", "fnox">>

CacheProfiles(c, cfg) ==
    LET ps == Range(ResolveProfiles(cfg, c.ps, TRUE).out)
    IN  ps \cup {WriteProfile(c)} \cup (IF Named(c.ps) = <<>> \/ ~c.nd THEN {Default} ELSE {})

HasSource(c, cfg, q, k) ==
    LET all == GetSecrets(cfg, <<q>>, c.nd) IN k \in DOMAIN all /\ all[k].prov \notin {None, c.prov}

Cached(f, q) == Table(Load(fs, f).tab, q).secrets

\* Mutant: nothing is ever taken out of the cache.
StaleNever(c, cfg, f, q) == {}

\* Cached copies whose source is gone.
Stale(c, cfg, f, q) ==
    {k \in DOMAIN Cached(f, q) : /\ Cached(f, q)[k].sync # None /\ ~Cached(f, q)[k].local
                                 /\ k \notin ToSync(c, cfg) /\ ~HasSource(c, cfg, q, k)}

\* Local secrets that were synced and are not any more: the entry stays without its cache.
Unsynced(c, cfg, f, q) ==
    {k \in DOMAIN Cached(f, q) : /\ Cached(f, q)[k].sync # None /\ Cached(f, q)[k].local
                                 /\ ~HasSource(c, cfg, q, k)}

\* The entries of a cache that lose it, but for those that are synced now.
Cleared(c, cfg, f, q, got) ==
    [k \in Unsynced(c, cfg, f, q) \ got |-> [Cached(f, q)[k] EXCEPT !.sync = None, !.local = FALSE]]

\* Local files and tables that a full sync --local goes through.
CachePlaces(c, cfg) ==
    IF c.local /\ c.keys = {}
    THEN {<<"cwd", n>> : n \in {m \in Locals : <<"cwd", m>> \in DOMAIN fs}} \X CacheProfiles(c, cfg)
    ELSE {}

\* One write for each of the places at which there is something to do.
Updates(puts, dels) ==
    LET todo == SetToSeq({x \in DOMAIN puts : DOMAIN puts[x] # {} \/ dels[x] # {}})
    IN  [i \in DOMAIN todo |-> Update(todo[i][1], todo[i][2], puts[todo[i]], dels[todo[i]])]

\* The writes of sync, in the order of the code: what is synced, with what is gone from the
\* same table; what is gone elsewhere; entries that only lose their cache.
SyncPlan(c, cfg, here, places, new) ==
    LET Gone(x) == IF x \in places THEN Stale(c, cfg, x[1], x[2]) ELSE {}
        Clear(x) == Cleared(c, cfg, x[1], x[2], IF x = here THEN DOMAIN new ELSE {})
    IN  Updates([x \in {here} |-> new], [x \in {here} |-> Gone(x)])
            \o Updates([x \in places \ {here} |-> <<>>], [x \in places \ {here} |-> Gone(x)])
            \o Updates([x \in places |-> Clear(x)], [x \in places |-> {}])

\* What is synced: the values of the secrets that have one, next to what is known of them.
Synced(c, cfg, here, all) ==
    [k \in {k \in ToSync(c, cfg) : RawValue(all[k], remote) # None} |->
        [all[k] EXCEPT !.sync = RawValue(all[k], remote), !.local = IsLocalSource(all[k], here[1], here[2])]]

SyncSecrets(p) ==
    /\ At(p, "work") /\ Cmd(p).op = "sync"
    /\ LET c == Cmd(p)
           cfg == proc[p].cfg
           ok == /\ c.prov \in GetProviders(cfg, c.ps) /\ Cap[c.prov] = "encrypt"
                 /\ c.local => LocalOverride(FindLocalConfig(fs, WriteProfile(c))) # None
       IN
       \E here \in {<<SyncTarget(c), WriteProfile(c)>>} :
       \E new \in {Synced(c, cfg, here, GetSecrets(cfg, c.ps, c.nd))} :
       \E todo \in {SyncPlan(c, cfg, here, CachePlaces(c, cfg), new)} :
           IF ok /\ todo # <<>> THEN Plan(p, todo) ELSE Quit(p)
    /\ UNCHANGED begun

ToReencrypt(c, cfg) ==
    LET Encrypted(q) == /\ q \in GetProviders(cfg, c.ps) /\ Cap[q] = "encrypt"
        Keys(all, d) == {k \in DOMAIN all : /\ Encrypted(IF all[k].prov # None THEN all[k].prov ELSE d.prov)
                                            /\ all[k].val # None}
    IN  Keys(GetSecrets(cfg, c.ps, c.nd), GetDefaultProvider(cfg, c.ps))

\* The table that a secret comes from.
SaveProfile(e, c) == e.own

\* One write for each of the tables that the secrets come from.
ReencryptPlan(c, all, keys) ==
    LET Place(k) == <<all[k].src, SaveProfile(all[k], c)>>
        New(k) == [all[k] EXCEPT !.sync = None, !.local = FALSE, !.val = Text(RawValue(all[k], remote))]
        places == SetToSeq({Place(k) : k \in keys})
    IN  [i \in DOMAIN places |->
            Update(places[i][1], places[i][2], [k \in {k \in keys : Place(k) = places[i]} |-> New(k)], {})]

\* reencrypt decrypts everything before it writes, then goes through the files.
Reencrypt(p) ==
    /\ At(p, "work") /\ Cmd(p).op = "reencrypt"
    /\ LET c == Cmd(p)
           cfg == proc[p].cfg
       IN
       \E all \in {GetSecrets(cfg, c.ps, c.nd)}, keys \in {ToReencrypt(c, cfg)} :
           IF keys = {} \/ ~GetDefaultProvider(cfg, c.ps).ok THEN Quit(p) ELSE Plan(p, ReencryptPlan(c, all, keys))
    /\ UNCHANGED begun

----------------------------------------------------------------------------
(* edit, init and providers *)

Edited == <<"cwd", "fnox">>

\* The secrets of a document or of the loaded layers, by table.
Shown(cfg) == {x \in (DOMAIN cfg.tab) \X Key : x[2] \in DOMAIN cfg.tab[x[1]].secrets}
EntryAt(tab, x) == tab[x[1]].secrets[x[2]]

\* edit reads the document and shows the value of each secret of the loaded layers; one
\* that has none fails the command, whatever its if_missing says.
EditOpen(p) ==
    /\ At(p, "work") /\ Cmd(p).op = "edit"
    /\ LET cfg == proc[p].cfg
       IN  IF Edited \notin DOMAIN fs \/ \E x \in Shown(cfg) : Value(EntryAt(cfg.tab, x), remote) = None THEN Quit(p)
           ELSE /\ Set(p, [proc[p] EXCEPT !.at = "editor", !.doc = fs[Edited],
                           !.shown = [x \in Shown(cfg) |-> Value(EntryAt(cfg.tab, x), remote)]])
                /\ UNCHANGED <<fs, remote, next>>
    /\ UNCHANGED begun

EditProvider(cfg, x, e) == IF e.prov # None THEN e.prov ELSE GetDefaultProvider(cfg, <<x[1]>>).prov

\* collect_secrets: a provider that can only be read.
IsReadOnly(cfg, x) ==
    x \in Shown(cfg) /\ LET q == EditProvider(cfg, x, EntryAt(cfg.tab, x)) IN q # None /\ Cap[q] = "read"

\* A secret is stored anew if its value was changed, if the document names another
\* provider than the loaded layers do, or if it was not shown (it came between the two).
StoredAnew(cfg, x, e, changed) ==
    changed \/ x \notin Shown(cfg) \/ (e.prov # EntryAt(cfg.tab, x).prov /\ ~IsReadOnly(cfg, x))

\* What the provider is given for a secret that was not shown: its ciphertext.
Garbled == 0

\* reencrypt_secrets_table: a value that was not changed gets back what the loaded layers
\* have for that secret.
EditedEntry(cfg, q, x, e, changed, v) ==
    CASE StoredAnew(cfg, x, e, changed) -> [e EXCEPT !.val = IF q # None /\ Cap[q] = "remote" THEN Ref(x[2]) ELSE Text(v)]
      [] OTHER -> [e EXCEPT !.val = EntryAt(cfg.tab, x).val]

\* What the editor has for x when the user has changed u.
InEditor(s, x, u) ==
    CASE x = u -> next
      [] x # u /\ x \in Shown(s.cfg) -> s.shown[x]
      [] OTHER -> Garbled

\* inherit_outer_layers: what the document and its imports do not say comes from the
\* loaded layers.  (The code leaves out what the loaded layers took from the document or its
\* imports, which differs only if another process changes these files meanwhile.)
InheritOuterLayers(own, loaded) ==
    LET Inherit(t, outer) == [t EXCEPT !.providers = @ \cup outer.providers,
                                       !.dflt = IF @ # None THEN @ ELSE outer.dflt]
    IN  [own EXCEPT !.tab = [p \in DOMAIN @ \cup DOMAIN loaded.tab |-> Inherit(Table(@, p), Table(loaded.tab, p))]]

\* The configuration that the saved document is stored with, and the provider that it has
\* for x: the document's own settings come before those of higher layers.
ModifiedConfig(s) == InheritOuterLayers(WithImports(fs, Load(One(Edited, s.doc), Edited)), s.cfg)
DocProvider(s, x) == EditProvider(ModifiedConfig(s), x, EntryAt(s.doc.tab, x))

\* The document with the secrets as they are stored.
EditedSecrets(s, u, t) ==
    LET Edit(x) == EditedEntry(s.cfg, DocProvider(s, x), x, EntryAt(s.doc.tab, x), x = u, InEditor(s, x, u))
    IN  [k \in DOMAIN s.doc.tab[t].secrets |-> Edit(<<t, k>>)]

EditedDoc(s, u) ==
    [s.doc EXCEPT !.tab = [t \in DOMAIN @ |-> [@[t] EXCEPT !.secrets = EditedSecrets(s, u, t)]]]

\* The secrets that are stored anew, and what a remote provider is given for its own.
EditAnew(s, u) == {x \in Shown(s.doc) : StoredAnew(s.cfg, x, EntryAt(s.doc.tab, x), x = u)}
RemoteAnew(s, u) == {x \in EditAnew(s, u) : DocProvider(s, x) # None /\ Cap[DocProvider(s, x)] = "remote"}

EditPuts(s, u) ==
    LET names == SetToSeq(RemoteAnew(s, u))
    IN  [i \in DOMAIN names |-> [name |-> names[i][2], v |-> InEditor(s, names[i], u)]]

\* No provider can be named, the one named is not there, or it can only be read.
CannotStore(s, x) ==
    LET q == DocProvider(s, x)
    IN  IF q = None THEN ~GetDefaultProvider(ModifiedConfig(s), <<x[1]>>).ok
        ELSE q \notin GetProviders(ModifiedConfig(s), <<x[1]>>) \/ Cap[q] = "read"

\* The user saves with one secret changed, or none; a secret of a provider that can only
\* read must stay as it is.
EditClose(p) ==
    /\ At(p, "editor")
    /\ LET s == proc[p]
       IN  \E u \in Shown(s.doc) \cup {None} : \E puts \in {EditPuts(s, u)} :
                IF \/ ModifiedConfig(s).err \/ (u # None /\ IsReadOnly(s.cfg, u))
                   \/ \E x \in EditAnew(s, u) : CannotStore(s, x)
                THEN Quit(p)
                ELSE /\ Set(p, [s EXCEPT !.at = IF puts # <<>> THEN "put" ELSE "write", !.puts = puts,
                                         !.todo = <<Replace(Edited, EditedDoc(s, u))>>, !.shown = <<>>, !.changed = u])
                     /\ next' = next + 1 /\ UNCHANGED <<fs, remote>>
    /\ UNCHANGED begun

\* init refuses to overwrite without --force.
InitConfig(p) ==
    /\ At(p, "work") /\ Cmd(p).op = "init"
    /\ LET f == IF Cmd(p).global THEN Global ELSE Edited
       IN  IF f \in DOMAIN fs /\ ~Cmd(p).force THEN Quit(p) ELSE Plan(p, <<Replace(f, EmptyDoc)>>)
    /\ UNCHANGED begun

ProviderTable(c) == IF c.global THEN Default ELSE WriteProfile(c)

\* provider add loads the target alone and saves it with the provider.
ProviderAdd(p) ==
    /\ At(p, "work") /\ Cmd(p).op = "add"
    /\ LET c == Cmd(p)
           f == Target(c)
           w == ProviderTable(c)
           old == IF f \notin DOMAIN fs THEN EmptyConfig ELSE Load(fs, f)
           t == Table(old.tab, w)
           new == [old EXCEPT !.tab = Over(One(w, [t EXCEPT !.providers = @ \cup {c.prov}]), @)]
       IN  IF w = None \/ c.prov \in t.providers THEN Quit(p) ELSE Plan(p, <<Replace(f, Saved(new))>>)
    /\ UNCHANGED begun

ProviderRemove(p) ==
    /\ At(p, "work") /\ Cmd(p).op = "drop"
    /\ LET c == Cmd(p)
           f == Target(c)
           w == ProviderTable(c)
       IN  IF w = None \/ f \notin DOMAIN fs THEN Quit(p)
           ELSE LET old == Load(fs, f)
                    t == Table(old.tab, w)
                    new == [old EXCEPT !.tab = Over(One(w, [t EXCEPT !.providers = @ \ {c.prov}]), @)]
                IN  IF c.prov \in t.providers THEN Plan(p, <<Replace(f, Saved(new))>>) ELSE Quit(p)
    /\ UNCHANGED begun

----------------------------------------------------------------------------
(* Writing a file. *)

Item(p) == Head(proc[p].todo)

\* The document is read again; a remove that finds nothing there writes nothing.
SaveRead(p) ==
    /\ At(p, "save")
    /\ LET u == Item(p)
           d == IF u.file \notin DOMAIN fs THEN EmptyDoc ELSE fs[u.file]
           gone == Cmd(p).op = "remove" /\ ~(u.dels \subseteq DOMAIN Table(d.tab, u.tbl).secrets)
       IN  IF u.kind = "update" /\ gone THEN Quit(p)
           ELSE Set(p, [proc[p] EXCEPT !.at = "write", !.doc = d]) /\ UNCHANGED <<fs, remote, next>>
    /\ UNCHANGED begun

\* fs::write truncates the file, then fills it.
Truncate(p) ==
    /\ At(p, "write")
    /\ fs' = Over(One(Item(p).file, EmptyDoc), fs)
    /\ Writes(p, [proc[p] EXCEPT !.at = "fill"])
    /\ UNCHANGED <<remote, next, begun>>

LastItem(p) == Len(proc[p].todo) = 1

Fill(p) ==
    /\ At(p, "fill")
    /\ fs' = Over(One(Item(p).file, Apply(proc[p].doc, Item(p))), fs)
    /\ Writes(p, IF LastItem(p) THEN Idle ELSE [proc[p] EXCEPT !.at = "save", !.todo = Tail(@)])
    /\ UNCHANGED <<remote, next, begun>>

\* The process is killed; before its first write that is as if it had not begun.
Crash(p) == proc[p].at \in {"put", "save", "fill"} /\ Quit(p) /\ UNCHANGED begun

Step(p) ==
    \/ LoadLayers(p) \/ SetSecret(p) \/ PutSecret(p) \/ RemoveSecret(p) \/ ImportSecrets(p)
    \/ SyncSecrets(p) \/ Reencrypt(p) \/ EditOpen(p) \/ InitConfig(p)
    \/ ProviderAdd(p) \/ ProviderRemove(p) \/ SaveRead(p) \/ Truncate(p) \/ Fill(p)

Next == \E p \in Proc : Begin(p) \/ Step(p) \/ EditClose(p) \/ Crash(p)

\* A process goes on unless it is idle or waits for its editor: weak fairness of Step(p),
\* which is enabled everywhere else.
Spec == Init /\ [][Next]_vars /\ \A p \in Proc : []<>(proc[p].at \in {"idle", "editor"}) \/ []<><<Step(p)>>_vars

----------------------------------------------------------------------------
(* Properties. *)

Labels == {"idle", "load", "reload", "work", "put", "editor", "save", "write", "fill"}

\* The writes of a command.
IsItem(u, names) ==
    IF u.kind = "update"
    THEN /\ u \in [file : File, kind : {"update"}, tbl : AnyProfile, puts : {u.puts}, dels : SUBSET Key]
         /\ IsPartial(u.puts, Key, Entries(names))
    ELSE u \in [file : File, kind : {"replace"}, doc : {u.doc}] /\ IsDoc(u.doc, names)

RemoteNames == Key \cup Nat
Puts == [name : RemoteNames, v : Nat]

\* What a process holds.
IsHolding(s) ==
    /\ s \in [at : Labels, cmd : {None} \cup Command, prof : Seq(AnyProfile), cfg : {s.cfg}, puts : Seq(Puts),
              v : {None} \cup Nat, shown : {s.shown}, changed : {None} \cup (AnyProfile \X Key),
              todo : {s.todo}, doc : {s.doc}, alone : BOOLEAN]
    /\ IsConfig(s.cfg, RemoteNames) /\ IsDoc(s.doc, RemoteNames)
    /\ IsPartial(s.shown, AnyProfile \X Key, Nat)
    /\ s.todo \in Seq({s.todo[i] : i \in DOMAIN s.todo}) /\ \A i \in DOMAIN s.todo : IsItem(s.todo[i], RemoteNames)

\* There is something to put only at "put", and something to write only from there on.
InPlace(s) ==
    /\ s.cmd = None <=> s.at = "idle"
    /\ s.puts # <<>> <=> s.at = "put"
    /\ s.todo # <<>> <=> s.at \in {"put", "save", "write", "fill"}

\* The types of the variables.
TypeOK ==
    /\ FilesOK(fs, RemoteNames)
    /\ IsPartial(remote, RemoteNames, Nat)
    /\ proc \in [Proc -> {proc[p] : p \in Proc}] /\ \A p \in Proc : IsHolding(proc[p]) /\ InPlace(proc[p])
    /\ next \in Nat /\ begun \in 0..MaxCommands

\* All the profiles of a selection, with the layers that hold them.
Discovered(files, profiles, nd) ==
    LET from[ps \in Seq(AnyProfile)] ==
            LET Expand(c, r) ==
                    CASE c.err \/ r.err \/ ~c.found -> [ok |-> FALSE]
                      [] ~(c.err \/ r.err \/ ~c.found) /\ r.out # ps -> from[r.out]
                      [] OTHER -> [ok |-> ~ResolveProfiles(c, ps, TRUE).err, c |-> c, prof |-> ps]
                Loaded(c) == Expand(c, ResolveProfiles(c, ps, FALSE))
            IN  Loaded(LoadRecursive(files, ps, TRUE, nd))
    IN  from[profiles]

\* The reference for precedence, from the files themselves: [file, table, via, k] where
\* via is the file that is loaded, which is the file itself or imports it.
Sources(files, prof) ==
    LET There(d) == {<<Dirs[d], n>> : n \in {m \in Range(Names(prof)) : <<Dirs[d], m>> \in DOMAIN files}}
        Closed(d) == \E g \in There(d) : files[g].root
        vias == UNION {There(d) : d \in {d \in DOMAIN Dirs : \A e \in 1..(d - 1) : ~Closed(e)}}
                    \cup ({Global} \cap DOMAIN files)
    IN  UNION {{[file |-> f, via |-> v, tbl |-> t] : t \in DOMAIN files[f].tab} :
                f \in UNION {{v} \cup Range(files[v].imports) : v \in vias}, v \in vias}

SourcesOf(files, prof, k) ==
    {s \in Sources(files, prof) : /\ s.file = s.via \/ s.file \in Range(files[s.via].imports)
                                  /\ k \in DOMAIN files[s.file].tab[s.tbl].secrets}

\* The profile whose table a source belongs to when it is loaded.
Belongs(s, prof, nd) ==
    CASE s.tbl = Default /\ FileProfile(s.file) # None -> FileProfile(s.file)
      [] s.tbl = Default /\ FileProfile(s.file) = None /\ IsLocal(s.via) /\ ~nd -> Last(prof)
      [] OTHER -> s.tbl

Visible(s, prof, nd) ==
    LET p == Belongs(s, prof, nd)
    IN  IF p = Default THEN ~(nd /\ Named(prof) # <<>>) ELSE p \in Range(prof)

IndexOf(seq, x) == CHOOSE i \in DOMAIN seq : seq[i] = x /\ \A j \in (i + 1)..Len(seq) : seq[j] # x

\* Profile first, then directory, then name, then table, then the file before its imports.
Rank(files, s, prof, nd) ==
    LET p == Belongs(s, prof, nd)
        pos == IF p = Default THEN 0 ELSE IndexOf(prof, p)
        dir == IF s.via = Global THEN 0 ELSE 1 + Len(Dirs) - IndexOf(Dirs, s.via[1])
        name == IF s.via = Global THEN 0 ELSE IndexOf(Names(prof), s.via[2])
        table == IF IsLocal(s.via) = (s.tbl = Default) THEN 0 ELSE 1
        own == IF s.file = s.via THEN 9 ELSE 9 - IndexOf(files[s.via].imports, s.file)
    IN  10000 * pos + 1000 * dir + 100 * name + 10 * table + own

\* The source that a selection must see: the highest of the visible ones.
Winners(files, x, k, nd) ==
    LET seen == {s \in SourcesOf(files, x.prof, k) : Visible(s, x.prof, nd)}
    IN  {s \in seen : \A o \in seen : Rank(files, o, x.prof, nd) <= Rank(files, s, x.prof, nd)}

\* A secret read alone, e, and among all is the one of the winner.
IsWinner(files, won, k, e, all) ==
    IF won = {} THEN e = None /\ k \notin DOMAIN all
    ELSE /\ k \in DOMAIN all /\ e = all[k]
         /\ \E s \in won : e.src = s.file /\ Stored(e) = files[s.file].tab[s.tbl].secrets[k]

SeesWinner(files, ps, k, nd) ==
    LET Sees(x) == x.ok => IsWinner(files, Winners(files, x, k, nd), k, GetSecret(x.c, ps, k, nd),
                                    GetSecrets(x.c, ps, nd))
    IN  Sees(Discovered(files, ps, nd))

\* The layers give every selection of profiles the secret of the highest source, by the
\* order of docs/reference/configuration.md, whether one secret is asked for (get_secret)
\* or all of them (get_secrets): merging, imports, profile files, local files and
\* no_defaults agree with the order.  (Looked at when no command runs.)
Precedence ==
    (\A p \in Proc : At(p, "idle")) =>
    \A ps \in {c.ps : c \in Command}, nd \in {c.nd : c \in Command}, k \in Key : SeesWinner(fs, ps, k, nd)

\* Discovery ends with every inherited profile before the one that inherits it, and has
\* loaded the file of each (load_with_recursion).
AncestorsFirst ==
    \A p \in Proc : At(p, "work") /\ Loads(Cmd(p)) =>
        LET s == proc[p]
        IN  /\ \A i \in DOMAIN s.prof : \A q \in Range(Inherits(s.cfg, s.prof[i])) :
                    \E j \in 1..(i - 1) : s.prof[j] = q
            /\ s.alone => \A q \in Range(s.prof) : q \in Profile /\ <<"cwd", q>> \in DOMAIN fs => q \in s.cfg.loaded

\* A reference in a file names something that the remote store has: the value is stored
\* before the file is written, also when the process dies between the two.
ReferencesResolve == References(fs) \subseteq DOMAIN remote

Finishes(p) == At(p, "fill") /\ LastItem(p) /\ proc[p].alone /\ Fill(p)

SetsValue(c) == (c.op = "set" /\ c.how # "metadata") \/ c.op = "import"
KeysOf(c) == IF c.op = "import" THEN c.keys ELSE {c.key}

\* A value that set or import has acknowledged is what its profile reads, unless a higher
\* source defines the secret, or the entry has kept the cache of an earlier sync, which
\* only set --generate clears.
SetIsRead ==
    [][\A p \in Proc : Finishes(p) /\ SetsValue(Cmd(p)) =>
        \A k \in KeysOf(Cmd(p)) :
            LET c == Cmd(p)
                w == WriteProfile(c)
                f == Item(p).file
                x == Discovered(fs', <<w>>, c.nd)
                e == GetSecret(x.c, <<w>>, k, c.nd)
                mine == [file |-> f, via |-> f, tbl |-> Item(p).tbl]
            IN  x.ok => /\ e # None
                        /\ IF e.src = f THEN Value(e, remote) = proc[p].v \/ (e.sync # None /\ c.how # "generate")
                           ELSE \A s \in Winners(fs', x, k, c.nd) :
                                    Rank(fs', s, x.prof, c.nd) > Rank(fs', mine, x.prof, c.nd)]_vars

Touched(c) ==
    CASE c.op \in {"set", "remove"} -> {c.key}
      [] c.op = "import" -> c.keys
      [] OTHER -> {}

Seen(files, ps, k, nd) ==
    LET x == Discovered(files, ps, nd)
        e == IF x.ok THEN GetSecret(x.c, ps, k, nd) ELSE None
    IN  IF e = None THEN None ELSE Stored(e)

\* A command leaves alone what it was not asked to change: no other secret of any
\* selection gets another entry, also where the whole file is written anew (provider add
\* and remove).
OthersUntouched ==
    [][\A p \in Proc :
        At(p, "fill") /\ proc[p].alone /\ Cmd(p).op \in {"set", "remove", "import", "add", "drop"} /\ Fill(p) =>
            \A ps \in {c.ps : c \in Command}, k \in Key \ Touched(Cmd(p)) :
                Discovered(fs', ps, FALSE).ok =>
                    Seen(fs', ps, k, FALSE) = Seen([fs EXCEPT ![Item(p).file] = proc[p].doc], ps, k, FALSE)]_vars

\* After a full sync --local the layers read with the cache give what they give without:
\* nothing cached is older than its source or has outlived it.  (A secret at the root of a
\* local file overrides every profile, so a cache there is none of a named profile's.)
SyncTransparent ==
    [][\A p \in Proc : Finishes(p) /\ Cmd(p).op = "sync" /\ Cmd(p).local /\ Cmd(p).keys = {} =>
        LET c == Cmd(p)
            x == Discovered(fs', c.ps, c.nd)
            bare == LoadRecursive(fs', x.prof, FALSE, c.nd)
        IN  \A k \in Key : LET e == GetSecret(x.c, c.ps, k, c.nd)
                               b == GetSecret(bare, c.ps, k, c.nd)
                           IN  (e # None /\ IsLocal(e.src) => e.own = WriteProfile(c)) =>
                               /\ (e = None) = (b = None)
                               /\ e # None => Value(e, remote) \in {RawValue(b, remote), Value(b, remote)}]_vars

\* After reencrypt every secret of its selection that an encryption provider holds is
\* encrypted anew where it is, whichever file and table that is, and has no old cache left.
Reencrypted ==
    [][\A p \in Proc : Finishes(p) /\ Cmd(p).op = "reencrypt" =>
        LET c == Cmd(p)
            x == Discovered(fs', c.ps, c.nd)
            old == GetSecrets(proc[p].cfg, c.ps, c.nd)
            all == GetSecrets(x.c, c.ps, c.nd)
        IN  \A k \in ToReencrypt(c, x.c) : /\ all[k].val.fresh /\ all[k].sync = None
                                           /\ all[k].src = old[k].src /\ all[k].own = old[k].own]_vars

\* A command ends, however the profiles inherit from one another, unless it waits for an
\* editor.
Ends == \A p \in Proc : (~At(p, "idle") /\ Cmd(p).op # "edit") ~> At(p, "idle")

\* edit leaves the secrets that the user did not change as they are in the file
\* ("Unchanged values keep their existing ciphertext", docs/cli/edit.md).
UnchangedKept ==
    [][\A p \in Proc : At(p, "fill") /\ proc[p].alone /\ Cmd(p).op = "edit" /\ Fill(p) =>
        \A t \in DOMAIN proc[p].doc.tab : \A k \in DOMAIN proc[p].doc.tab[t].secrets :
            proc[p].changed # <<t, k>> =>
                fs'[Edited].tab[t].secrets[k].val = proc[p].doc.tab[t].secrets[k].val]_vars

\* Whatever the files and the order of steps, each state is of the right shape, a command
\* works with all the profiles that its own inherit, and files refer to what is there.
LoadsSound == TypeOK /\ AncestorsFirst /\ ReferencesResolve

\* A command that writes a file changes what it was asked to change and nothing else, and
\* no cache of a synced secret outlives what it is a cache of, no old ciphertext a reencrypt.
EditsSound == SetIsRead /\ OthersUntouched /\ SyncTransparent /\ Reencrypted
=============================================================================
