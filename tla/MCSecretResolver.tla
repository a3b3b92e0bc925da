------------------------- MODULE MCSecretResolver -------------------------
(* Instances of SecretResolver for TLC. *)
EXTENDS SecretResolver

CONSTANTS a, b, c, vault, op, prompt, gone

Secret(provider, default, if_missing) ==
    [sync |-> None, value |-> provider # None, provider |-> provider, default |-> default,
     if_missing |-> if_missing]

\* vault reads the variable a, op reads b, gone is not configured.
Needs == [q \in Provider |-> CASE q = vault -> {a} [] q = op -> {b} [] OTHER -> {}]

\* Secrets that providers need of each other; a default of no provider.
Chains ==
    {Secret(q, None, m) : q \in {None, vault, op}, m \in {"error", "warn"}}
        \union {Secret(None, {a}, "warn")}

\* Secrets with defaults that refer to each other, or to nothing.
Defaults == {Secret(q, d, "warn") : q \in {None, vault, gone}, d \in {{}, {a}, {b}, {c}}}

\* Secrets whose source is the synced copy, the default provider, or one that prompts.
Sources ==
    {[Secret(op, {b}, "ignore") EXCEPT !.sync = vault],
     [Secret(None, None, "error") EXCEPT !.value = TRUE],
     Secret(prompt, {b}, "ignore")}

Everything == Chains \union Defaults \union Sources

\* Nothing is known before, or a is, or a is known to be missing.
Nothing == {[k \in {} |-> None]}
KnownA == Nothing \union [{a} -> {"cached", None}]
=============================================================================
