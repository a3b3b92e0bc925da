---------------------------- MODULE MCConfigEdits ----------------------------
(* Instances of ConfigEdits for TLC: file systems to start from, and command lines. *)
EXTENDS ConfigEdits, TLC

CONSTANTS p1, p2, k1, k2, prod, stg, age, vault, plain

CapDef == (age :> "encrypt") @@ (vault :> "remote") @@ (plain :> "read")

Imported == {<<"cwd", "import">>}

E(q, v) == [EmptyEntry EXCEPT !.prov = q, !.val = v]
Old(n) == [k |-> "text", v |-> n, fresh |-> FALSE]
OldRef(k) == [k |-> "ref", v |-> k, fresh |-> FALSE]
S(secrets) == [EmptyTable EXCEPT !.secrets = secrets]
D(tab) == [EmptyDoc EXCEPT !.tab = tab]
Base(secrets) == [S(secrets) EXCEPT !.providers = {age, vault}, !.dflt = age]
Cwd(n) == <<"cwd", n>>
Parent == <<"parent", "fnox">>

\* A project with a remote and an encrypted secret, a profile in a table and a parent.
Plain ==
    (Cwd("fnox") :> D((Default :> Base(k1 :> E(vault, OldRef(k1)))) @@ (prod :> S(k1 :> E(age, Old(10))))))
    @@ (Parent :> D(Default :> S(k2 :> E(age, Old(11)))))

\* Profile files, one inheriting from the other, and a global file with the providers.
Inheriting ==
    (Global :> D(Default :> Base(<<>>)))
    @@ (Cwd("fnox") :> D((Default :> S(k1 :> E(age, Old(12)))) @@ (stg :> S(k2 :> E(age, Old(21))))))
    @@ (Cwd(prod) :> D((Default :> S(k1 :> E(age, Old(13)))) @@ (prod :> [EmptyTable EXCEPT !.inherits = <<stg>>])))
    @@ (Cwd(stg) :> D(Default :> S(k2 :> E(age, Old(14)))))

\* A local file over an import, and a root that hides the parent.
Layered ==
    (Cwd("fnox") :> [D(Default :> Base(k1 :> E(age, Old(15)))) EXCEPT !.root = TRUE, !.imports = <<Cwd("import")>>])
    @@ (Cwd("import") :> D((Default :> S((k1 :> E(age, Old(16))) @@ (k2 :> E(vault, OldRef(k2)))))
                           @@ (prod :> S(k2 :> E(age, Old(17))))))
    @@ (Cwd("local") :> D(Default :> S(k1 :> E(age, Old(18)))))
    @@ (Parent :> D((Default :> EmptyTable) @@ (prod :> S(k1 :> E(age, Old(19))))))

\* A hidden local file with old caches, one of a secret that is gone.
Cached1 ==
    (Parent :> D(Default :> Base(k1 :> E(vault, OldRef(k1)))))
    @@ (Cwd(".local") :> D(Default :> S((k1 :> [E(vault, OldRef(k1)) EXCEPT !.sync = 9])
                                        @@ (k2 :> [E(vault, OldRef(k2)) EXCEPT !.sync = 8]))))
    @@ (Cwd("fnox") :> D((Default :> EmptyTable) @@ (stg :> S(k2 :> E(age, Old(20))))))

\* Profiles that inherit from one another.
Cycle ==
    (Cwd("fnox") :> D((Default :> Base(k1 :> E(vault, OldRef(k1))))
                      @@ (prod :> [EmptyTable EXCEPT !.inherits = <<stg>>]) @@ (stg :> [EmptyTable EXCEPT !.inherits = <<prod>>])))


Starts == {Plain, Inheriting, Layered, Cached1, Cycle, <<>>}
Shadowed == {Layered}

C(op, ps) == [op |-> op, ps |-> ps, wp |-> None, key |-> k1, keys |-> {}, how |-> "value",
              force |-> FALSE, global |-> FALSE, prov |-> None, local |-> FALSE, nd |-> FALSE]

Dflt == <<Default>>
Prod == <<prod>>

Commands ==
    {C("set", ps) : ps \in {Dflt, Prod}}
    \cup {[C("set", Dflt) EXCEPT !.prov = vault, !.key = k2], [C("set", Prod) EXCEPT !.how = "metadata", !.global = TRUE],
          [C("set", Dflt) EXCEPT !.how = "generate", !.force = TRUE],
          [C("set", <<stg, prod>>) EXCEPT !.how = "generate", !.wp = stg, !.nd = TRUE]}
    \cup {C("remove", ps) : ps \in {Dflt, Prod}}
    \cup {[C("sync", ps) EXCEPT !.prov = age, !.local = TRUE] : ps \in {Dflt, Prod}}
    \cup {[C("sync", Dflt) EXCEPT !.prov = age], [C("import", Prod) EXCEPT !.keys = Key, !.prov = age]}
    \cup {C("reencrypt", Prod), C("edit", Dflt), C("init", Dflt)}
    \cup {[C("add", Prod) EXCEPT !.prov = plain], [C("drop", Dflt) EXCEPT !.prov = vault]}

Edits == {C("edit", Dflt)}
=============================================================================
