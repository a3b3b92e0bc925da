--------------------------- MODULE MCDaemonCache ---------------------------
(* Instances of DaemonCache for TLC. *)
EXTENDS DaemonCache, TLC

CONSTANTS c1, c2, A, B, old, new, plain, check, s0

AllDefined == [cfg \in Config |-> Secret]
\* The edit sets daemon_cache = false.
OnlyOldCached == [cfg \in Config |-> IF cfg = old THEN Secret ELSE {}]
\* An edit of a provider's settings leaves every secret's own entry alone.
SameSpec == [cfg \in Config |-> [k \in Secret |-> s0]]

Resolve(K, ctx, nonInteractive, evict) ==
    [op |-> "resolve", keys |-> K, ctx |-> ctx, nonInteractive |-> nonInteractive,
     evict |-> evict]
ClearKeys(K) == [op |-> "clear", keys |-> {}, ctx |-> plain, nonInteractive |-> FALSE,
                 evict |-> K]
Env(K) == [op |-> "env", keys |-> K, ctx |-> plain, nonInteractive |-> TRUE, evict |-> {}]

\* One secret: reads in a terminal and through fnox-client, `fnox check`,
\* `--refresh` and a full clear.
OneSecret == {Resolve({A}, plain, FALSE, {}), Resolve({A}, check, TRUE, {}),
              Resolve({A}, plain, FALSE, {A}), ClearKeys({}), Env({A})}
\* Reads in a terminal.
Reads == {Resolve({A}, plain, FALSE, {})}

Symmetry == Permutations(Client)
=============================================================================
