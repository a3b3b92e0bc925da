---------------------------- MODULE ConfigLayers ----------------------------
(***************************************************************************)
(* How fnox puts its configuration together (crates/fnox-core/src/config.rs): *)
(* the files of the current directory, of its parents and the global one,  *)
(* with their imports, merged into one; profiles that inherit from one     *)
(* another; and what a selection of profiles then sees.  A file is the     *)
(* pair of its directory and its name, a file system a function on the     *)
(* files that exist, a table the entries under the root ("default") or     *)
(* under [profiles.<p>].                                                   *)
(***************************************************************************)
EXTENDS Naturals, Sequences, FiniteSets, SequencesExt

CONSTANTS
    Default,   \* the profile "default", which is the root of a file
    Profile,   \* named profiles
    Key,       \* secrets
    Provider,  \* providers
    Elsewhere, \* files that are only imported
    Cap,       \* Cap[q]: "encrypt", "remote" or "read", what the provider q can do
    None

ASSUME ConfigLayersAssumption == IsFiniteSet(Profile) /\ IsFiniteSet(Key) /\ Default \notin Profile

Dirs == <<"cwd", "parent">>
Global == <<"home", "config">>
AnyProfile == {Default} \cup Profile
File == ({"cwd", "parent"} \X ({"fnox", ".fnox", "local", ".local"} \cup Profile)) \cup {Global} \cup Elsewhere

Over(f, g) == [x \in DOMAIN f \cup DOMAIN g |-> IF x \in DOMAIN f THEN f[x] ELSE g[x]]
One(x, e) == [y \in {x} |-> e]

EmptyTable == [secrets |-> <<>>, providers |-> {}, dflt |-> None, inherits |-> None]
EmptyDoc == [root |-> FALSE, imports |-> <<>>, tab |-> One(Default, EmptyTable)]

\* The selection without the default profile, which is always there.
Named(profiles) ==
    LET upTo[n \in 0..Len(profiles)] ==
            CASE n = 0 -> <<>>
              [] n # 0 /\ profiles[n] = Default -> upTo[n - 1]
              [] OTHER -> Append(upTo[n - 1], profiles[n])
    IN  upTo[Len(profiles)]

\* The directory part of all_config_filenames: a later name wins.  The names under
\* .config/ come third in each group and behave like the second.
Names(profiles) == <<"fnox", ".fnox">> \o Named(profiles) \o <<"local", ".local">>

Locals == {"local", ".local"}
IsLocal(f) == f[2] \in Locals

\* profile_name_from_file
FileProfile(f) == IF f[2] \in Profile THEN f[2] ELSE None

\* is_profile_file decides where a command writes.
TableFor(f, w) == IF w = Default \/ f[2] \in Profile THEN Default ELSE w

\* uses_config_discovery, local_override_filename
LocalOverride(f) == CASE f[2] = "fnox" -> "local" [] f[2] = ".fnox" -> ".local" [] OTHER -> None

\* find_local_config: the file that a command edits in the current directory.
FindLocalConfig(fs, w) ==
    LET names == IF w = Default THEN <<"fnox", ".fnox", "local", ".local">> ELSE <<w, "fnox", ".fnox">>
        hits == {i \in DOMAIN names : <<"cwd", names[i]>> \in DOMAIN fs}
    IN  <<"cwd", IF hits = {} THEN "fnox" ELSE names[Min(hits)]>>

----------------------------------------------------------------------------
(* Types, with the names that a reference may have in the remote store. *)

IsPartial(f, A, B) == DOMAIN f \subseteq A /\ f \in [DOMAIN f -> B]

Values(names) ==
    [k : {"text"}, v : Nat, fresh : BOOLEAN] \cup [k : {"ref"}, v : names, fresh : BOOLEAN]

Entries(names) ==
    [prov : {None} \cup Provider, val : {None} \cup Values(names), sync : {None} \cup Nat, local : BOOLEAN]

\* Entries that are loaded know the file and the table that they come from.
LoadedEntries(names) ==
    [prov : {None} \cup Provider, val : {None} \cup Values(names), sync : {None} \cup Nat, local : BOOLEAN,
     src : File, own : AnyProfile]

IsTable(t, entries) ==
    /\ t \in [secrets : {t.secrets}, providers : SUBSET Provider, dflt : {None} \cup Provider,
              inherits : {None} \cup Seq(AnyProfile)]
    /\ IsPartial(t.secrets, Key, entries)

\* The root inherits nothing.
IsTab(tab, entries) ==
    /\ IsPartial(tab, AnyProfile, {tab[p] : p \in DOMAIN tab})
    /\ \A p \in DOMAIN tab : IsTable(tab[p], entries)
    /\ Default \in DOMAIN tab /\ tab[Default].inherits = None

IsDoc(d, names) ==
    d \in [root : BOOLEAN, imports : Seq(File), tab : {d.tab}] /\ IsTab(d.tab, Entries(names))

IsConfig(c, names) ==
    /\ c \in [root : BOOLEAN, err : BOOLEAN, imports : Seq(File), loaded : SUBSET Profile, found : BOOLEAN,
              tab : {c.tab}]
    /\ IsTab(c.tab, LoadedEntries(names))

----------------------------------------------------------------------------
(* Merging. *)

Table(tab, p) == IF p \in DOMAIN tab THEN tab[p] ELSE EmptyTable

MergeTable(base, over) ==
    [secrets |-> Over(over.secrets, base.secrets),
     providers |-> base.providers \cup over.providers,
     dflt |-> IF over.dflt # None THEN over.dflt ELSE base.dflt,
     inherits |-> IF over.inherits # None THEN over.inherits ELSE base.inherits]

MergeConfigs(base, over) ==
    [root |-> base.root \/ over.root, err |-> base.err \/ over.err, imports |-> base.imports,
     loaded |-> base.loaded \cup over.loaded, found |-> base.found \/ over.found,
     tab |-> [p \in DOMAIN base.tab \cup DOMAIN over.tab |->
                 MergeTable(Table(base.tab, p), Table(over.tab, p))]]

EmptyConfig == [root |-> FALSE, err |-> FALSE, imports |-> <<>>, loaded |-> {}, found |-> FALSE,
                tab |-> One(Default, EmptyTable)]

\* scope_to_profile: the root entries of fnox.<p>.toml are entries of p, above what the
\* file has under [profiles.<p>].
ScopeToProfile(tab, p) ==
    [q \in DOMAIN tab \cup {p} |->
        CASE q = Default -> EmptyTable
          [] q # Default /\ q = p -> MergeTable(Table(tab, p), tab[Default])
          [] OTHER -> tab[q]]

\* scope_root_entries_to_profile_as_base, for a local file: below the file's own
\* [profiles.<p>].  With no_defaults the root secrets stay where they are.
ScopeAsBase(tab, p, noDefaults) ==
    LET root == tab[Default]
        moved == IF noDefaults THEN [root EXCEPT !.secrets = <<>>] ELSE root
        kept == IF noDefaults THEN [EmptyTable EXCEPT !.secrets = root.secrets] ELSE EmptyTable
    IN  [q \in DOMAIN tab \cup {p} |->
            CASE q = Default -> kept
              [] q # Default /\ q = p -> MergeTable(moved, Table(tab, p))
              [] OTHER -> tab[q]]

\* set_source_paths: each secret knows the file and the table that it comes from.
Sourced(e, f, p) ==
    [prov |-> e.prov, val |-> e.val, sync |-> e.sync, local |-> e.local, src |-> f, own |-> p]

WithSources(tab, f) ==
    [p \in DOMAIN tab |-> [tab[p] EXCEPT !.secrets = [k \in DOMAIN @ |-> Sourced(@[k], f, p)]]]

Load(fs, f) ==
    LET d == fs[f]
        named == f[2] \in Profile
    IN  [root |-> d.root, err |-> FALSE, imports |-> d.imports, found |-> TRUE,
         loaded |-> IF named THEN {f[2]} ELSE {},
         tab |-> WithSources(IF named THEN ScopeToProfile(d.tab, f[2]) ELSE d.tab, f)]

\* load_import: the imports of an import are not followed.
LoadImport(fs, f) ==
    IF f \notin DOMAIN fs THEN [EmptyConfig EXCEPT !.err = TRUE]
    ELSE [Load(fs, f) EXCEPT !.root = FALSE, !.imports = <<>>]

\* with_imports: below the file itself, an earlier import above a later one.
WithImports(fs, c) ==
    LET upTo[n \in 0..Len(c.imports)] ==
            IF n = 0 THEN c ELSE MergeConfigs(LoadImport(fs, c.imports[n]), upTo[n - 1])
    IN  upTo[Len(c.imports)]

StripSyncCache(secrets) ==
    LET kept == {k \in DOMAIN secrets : secrets[k].sync = None \/ secrets[k].local}
    IN  [k \in kept |-> [secrets[k] EXCEPT !.sync = None, !.local = FALSE]]

\* strip_local_sync_cache: what the local file says without what sync has put there.
StripLocalSyncCache(tab) ==
    [p \in DOMAIN tab |-> [tab[p] EXCEPT !.secrets = StripSyncCache(@)]]

\* The tables of a local file, for the profile that is selected.
LocalTables(tab, w, withSync, noDefaults) ==
    LET t == IF withSync THEN tab ELSE StripLocalSyncCache(tab)
    IN  IF w = Default THEN t ELSE ScopeAsBase(t, w, noDefaults)

\* One file of load_recursive.
LoadFile(fs, f, profiles, withSync, noDefaults) ==
    [WithImports(fs, Load(fs, f)) EXCEPT
        !.tab = IF IsLocal(f) THEN LocalTables(@, Last(profiles), withSync, noDefaults) ELSE @,
        !.imports = <<>>]

\* Mutant: an earlier name wins.
LoadDirFirst(fs, dir, profiles, withSync, noDefaults) ==
    LET names == Names(profiles)
        upTo[n \in 0..Len(names)] ==
            CASE n = 0 -> EmptyConfig
              [] n # 0 /\ <<dir, names[n]>> \notin DOMAIN fs -> upTo[n - 1]
              [] OTHER -> MergeConfigs(LoadFile(fs, <<dir, names[n]>>, profiles, withSync, noDefaults), upTo[n - 1])
    IN  upTo[Len(names)]

LoadDir(fs, dir, profiles, withSync, noDefaults) ==
    LET names == Names(profiles)
        upTo[n \in 0..Len(names)] ==
            CASE n = 0 -> EmptyConfig
              [] n # 0 /\ <<dir, names[n]>> \notin DOMAIN fs -> upTo[n - 1]
              [] OTHER -> MergeConfigs(upTo[n - 1], LoadFile(fs, <<dir, names[n]>>, profiles, withSync, noDefaults))
    IN  upTo[Len(names)]

LoadGlobal(fs) ==
    IF Global \notin DOMAIN fs THEN EmptyConfig ELSE [WithImports(fs, Load(fs, Global)) EXCEPT !.imports = <<>>]

\* load_recursive: a directory over its parents, the last or a root over the global file.
LoadRecursive(fs, profiles, withSync, noDefaults) ==
    LET Above(parents, c) == MergeConfigs(IF c.root THEN LoadGlobal(fs) ELSE parents, c)
        upTo[n \in 0..Len(Dirs)] ==
            IF n = 0 THEN LoadGlobal(fs)
            ELSE Above(upTo[n - 1], LoadDir(fs, Dirs[Len(Dirs) + 1 - n], profiles, withSync, noDefaults))
    IN  upTo[Len(Dirs)]

----------------------------------------------------------------------------
(* Profiles. *)

Known(c, p) == p \in DOMAIN c.tab \/ p \in c.loaded
Inherits(c, p) == LET i == Table(c.tab, p).inherits IN IF i = None THEN <<>> ELSE i

Visits == [out : Seq(AnyProfile), path : Seq(AnyProfile), seen : SUBSET AnyProfile, err : BOOLEAN]
NoVisits == [out |-> <<>>, path |-> <<>>, seen |-> {}, err |-> FALSE]

Failed(s) == [s EXCEPT !.err = TRUE]
Reached(s, p) == [s EXCEPT !.seen = @ \cup {p}, !.out = Append(@, p)]

\* p comes after what it inherits.
Visited(s, p, path) == IF s.err THEN s ELSE [Reached(s, p) EXCEPT !.path = path]

\* One profile after the other.
VisitAll(visit, s, ps, force) ==
    LET upTo[n \in 0..Len(ps)] == IF n = 0 THEN s ELSE visit[<<ps[n], upTo[n - 1], force>>]
    IN  upTo[Len(ps)]

\* resolve_profiles_inner; visit is the same for the profiles that p inherits.
VisitOne(c, validate, visit, p, s, force) ==
    CASE s.err \/ (p \in s.seen /\ ~force) -> s
      [] ~s.err /\ (p \notin s.seen \/ force) /\ p = Default -> Reached(s, p)
      [] OTHER ->
            IF (validate /\ ~force /\ ~Known(c, p)) \/ p \in Range(s.path) THEN Failed(s)
            ELSE Visited(VisitAll(visit, [s EXCEPT !.path = Append(@, p)], Inherits(c, p), FALSE), p, s.path)

\* No path has a profile twice, so none is longer than this.
Depth == Cardinality(Profile) + 1

Visit(c, validate) ==
    LET Calls == AnyProfile \X Visits \X BOOLEAN
        visit[n \in 0..Depth] ==
            IF n = 0 THEN [x \in Calls |-> Failed(x[2])]
            ELSE [x \in Calls |-> VisitOne(c, validate, visit[n - 1], x[1], x[2], x[3])]
    IN  visit[Depth]

\* resolve_profiles (validate) and resolve_profiles_for_discovery
ResolveProfiles(c, profiles, validate) == VisitAll(Visit(c, validate), NoVisits, profiles, TRUE)

\* validate_profiles
ValidProfiles(c, profiles, allowed) ==
    LET Valid(r) == ~r.err /\ \A p \in Range(r.out) \ {Default} :
                        Known(c, p) \/ (p = allowed /\ p \in Range(profiles))
    IN  Valid(ResolveProfiles(c, profiles, TRUE))

\* The profiles of a selection whose tables are looked at.
Selected(c, profiles) == Named(ResolveProfiles(c, profiles, TRUE).out)

\* get_secrets: later profiles over earlier ones over the root.
SecretsOf(c, ps, noDefaults) ==
    LET upTo[n \in 0..Len(ps)] ==
            CASE n = 0 /\ ps # <<>> /\ noDefaults -> <<>>
              [] n = 0 /\ ~(ps # <<>> /\ noDefaults) -> c.tab[Default].secrets
              [] OTHER -> Over(Table(c.tab, ps[n]).secrets, upTo[n - 1])
    IN  upTo[Len(ps)]

GetSecrets(c, profiles, noDefaults) == SecretsOf(c, Selected(c, profiles), noDefaults)

\* get_secret: the last profile that has it, or the root.
SecretOf(c, ps, k, noDefaults) ==
    LET own == {i \in DOMAIN ps : k \in DOMAIN Table(c.tab, ps[i]).secrets}
    IN  CASE own # {} -> Table(c.tab, ps[Max(own)]).secrets[k]
          [] own = {} /\ ~(ps # <<>> /\ noDefaults) /\ k \in DOMAIN c.tab[Default].secrets -> c.tab[Default].secrets[k]
          [] OTHER -> None

GetSecret(c, profiles, k, noDefaults) == SecretOf(c, Selected(c, profiles), k, noDefaults)

GetProviders(c, profiles) ==
    UNION {Table(c.tab, p).providers : p \in {Default} \cup Range(ResolveProfiles(c, profiles, TRUE).out)}

NoProvider == [ok |-> TRUE, prov |-> None]
BadProvider == [ok |-> FALSE, prov |-> None]

\* get_default_provider: the last that a table names, or the only one there is.
DefaultProvider(c, all, ps) ==
    LET named == {i \in DOMAIN ps : Table(c.tab, ps[i]).dflt # None}
        q == Table(c.tab, ps[Max(named)]).dflt
    IN  CASE all = {} -> IF c.root THEN NoProvider ELSE BadProvider
          [] all # {} /\ named # {} -> IF q \in all THEN [ok |-> TRUE, prov |-> q] ELSE BadProvider
          [] OTHER -> IF \E x \in all : all = {x} THEN [ok |-> TRUE, prov |-> CHOOSE x \in all : TRUE] ELSE NoProvider

GetDefaultProvider(c, profiles) ==
    DefaultProvider(c, GetProviders(c, profiles), <<Default>> \o Selected(c, profiles))
=============================================================================
