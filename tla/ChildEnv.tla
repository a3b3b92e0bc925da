-------------------------------- MODULE ChildEnv --------------------------------
(***************************************************************************)
(* What a child process gets (src/child_env.rs, src/secret_filter.rs): the *)
(* selection of secrets and leases, the secrets that must be resolved for  *)
(* them, and the environment made of the results.                          *)
(*                                                                         *)
(* An input i has                                                          *)
(*   secrets   a function to [mode, file, value]; mode is "all", "exec" or *)
(*             "none" (env = true, "exec", false)                          *)
(*   leases    a sequence of [name, produces, consumes, known]             *)
(*   deps      what a secret's provider and default refer to               *)
(*   defaultDeps   the variables the default provider reads                *)
(*   scope     "exec" or "shell"                                           *)
(*   roots     [kind, keys, only, except]; a pattern is [glob, names]      *)
(*   env       the environment fnox was started with                       *)
(***************************************************************************)
EXTENDS Naturals, Sequences, FiniteSets, Functions, TLC

CONSTANT AMBIENT              \* variables that are always taken out

(* The entries of f, and those of g that f has not. *)
Over(f, g) == [k \in DOMAIN f \cup DOMAIN g |-> IF k \in DOMAIN f THEN f[k] ELSE g[k]]

scope_allows(scope, mode) == mode = "all" \/ (mode = "exec" /\ scope = "exec")

Matches(patterns, k) == \E p \in patterns : k \in p.names

(* SecretFilter::allows. *)
FilterAllows(f, k) == (f.only = {} \/ Matches(f.only, k)) /\ ~Matches(f.except, k)

InScope(i) == {k \in DOMAIN i.secrets : scope_allows(i.scope, i.secrets[k].mode)}

(* produced_env_vars: what a lease is known to produce before it runs; a command lease *)
(* says nothing of itself (known is FALSE). *)
produced_env_vars(l) == IF l.known THEN l.produces ELSE {}

(* The variables of leases: a shell gets none. *)
Produced(i) ==
  IF i.scope = "exec" THEN UNION {produced_env_vars(l) : l \in Range(i.leases)} ELSE {}

(* SecretFilter::validate: a name must exist, one of --only must be injectable, and *)
(* a glob of --only must fit something injectable. *)
FilterValid(i) ==
  LET known == DOMAIN i.secrets \cup Produced(i)
      injectable == InScope(i) \cup Produced(i)
  IN  /\ \A p \in i.roots.only : p.names \cap injectable # {}
      /\ \A p \in i.roots.except : p.glob \/ p.names \subseteq known

(* select_filtered: a lease runs when --only names a variable of it (or is absent), *)
(* --except names none, and its inputs are known. *)
select_filtered(i) ==
  [ok |-> FilterValid(i),
   roots |-> {k \in InScope(i) : FilterAllows(i.roots, k)},
   requested |-> {},
   leases |-> {l.name : l \in {m \in Range(i.leases) :
                 /\ i.scope = "exec" /\ m.known
                 /\ i.roots.only = {} \/ \E k \in m.produces : Matches(i.roots.only, k)
                 /\ ~\E k \in m.produces : Matches(i.roots.except, k)}}]

(* The Roots::Keys case: every key is a secret in scope or comes from a lease. *)
SelectKeys(i) ==
  [ok |-> i.roots.keys \subseteq InScope(i) \cup Produced(i),
   roots |-> i.roots.keys \cap InScope(i),
   requested |-> i.roots.keys,
   leases |-> {l.name : l \in {m \in Range(i.leases) :
                 i.scope = "exec" /\ produced_env_vars(m) \cap i.roots.keys # {}}}]

select(i) ==
  CASE i.roots.kind = "scope" ->
         [ok |-> TRUE, roots |-> InScope(i), requested |-> {},
          leases |-> IF i.scope = "exec" THEN {l.name : l \in Range(i.leases)} ELSE {}]
    [] i.roots.kind = "filter" -> select_filtered(i)
    [] i.roots.kind = "keys" -> SelectKeys(i)

(* Everything the roots depend on, as far as it is configured. *)
dependency_closure(i, roots) ==
  LET keys == DOMAIN i.secrets
      more[n \in 0..Cardinality(keys)] ==
        IF n = 0 THEN roots ELSE more[n - 1] \cup UNION {i.deps[k] : k \in more[n - 1] \cap keys}
  IN  more[Cardinality(keys)] \cap keys

(* The leases that are selected, by their places in the order. *)
Chosen(i, sel) == {n \in DOMAIN i.leases : i.leases[n].name \in sel.leases}

resolve_set(i, sel) ==
  LET chosen == {i.leases[n] : n \in Chosen(i, sel)}
  IN  IF \E l \in chosen : ~l.known THEN DOMAIN i.secrets
      ELSE dependency_closure(i, sel.roots \cup UNION {l.consumes : l \in chosen}
                                  \cup (IF chosen = {} THEN {} ELSE i.defaultDeps))

(* A credential of a lease stands in for the secret of the same name. *)
LeaseWins(creds, values, k) == k \in DOMAIN creds

(* assemble: values are the secrets that resolved, creds what the leases gave, used *)
(* the places of the leases that ran. *)
assemble(i, sel, values, creds, used) ==
  LET keys == DOMAIN i.secrets
      wanted(k) == sel.requested = {} \/ k \in sel.requested
      leased == {k \in keys : LeaseWins(creds, values, k)}
      fromCreds == {k \in leased \cup (DOMAIN creds \ keys) : wanted(k)}
      plain == (sel.roots \ leased) \cap DOMAIN values
      files == {k \in plain : i.secrets[k].file}
      set == [k \in fromCreds \cup (plain \ files) |->
                IF k \in fromCreds THEN creds[k] ELSE values[k]]
      given == DOMAIN set \cup files
      skipped == UNION {produced_env_vars(i.leases[n]) : n \in Chosen(i, sel) \ used}
  IN  [set |-> set,
       files |-> [k \in files |-> values[k]],
       missing |-> ((sel.roots \ leased) \ DOMAIN values) \cup (sel.requested \ given)
                     \cup (IF sel.requested = {} THEN skipped \ given ELSE {}),
       remove |-> (AMBIENT \cup (keys \ InScope(i))) \ given]

(* The last part of plan: a filter drops what leases produced beyond it. *)
Filtered(i, e) ==
  IF i.roots.kind # "filter" THEN e
  ELSE LET kept == {k \in DOMAIN e.set : FilterAllows(i.roots, k)}
       IN  [e EXCEPT !.set = [k \in kept |-> @[k]],
                     !.remove = @ \cup (AMBIENT \ (kept \cup DOMAIN e.files))]

(* describe: what kind of key a caller is told about, and where it can be injected. *)
describe(i, k) ==
  [lease |-> \E l \in Range(i.leases) : k \in produced_env_vars(l),
   exec |-> (\E l \in Range(i.leases) : k \in produced_env_vars(l))
              \/ (k \in DOMAIN i.secrets /\ scope_allows("exec", i.secrets[k].mode)),
   shell |-> k \in DOMAIN i.secrets /\ scope_allows("shell", i.secrets[k].mode)]
================================================================================
