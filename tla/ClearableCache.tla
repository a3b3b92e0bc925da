--------------------------- MODULE ClearableCache ---------------------------
(***************************************************************************)
(* What a clearable cache in front of a store of versioned secrets         *)
(* promises: a clear takes effect at one instant, what it evicts is gone,  *)
(* and nothing a provider gave before that instant is put back by the      *)
(* process that handled it.  The cache may be filled and forgotten at any  *)
(* time.  An entry resolved for an earlier process (generation) carries no *)
(* promise about clears.                                                   *)
(***************************************************************************)
EXTENDS Naturals

CONSTANTS
    Secret,    \* secret names
    Key,       \* cache keys
    SecretOf,  \* SecretOf[key]: the secret that key is about
    None       \* no entry

VARIABLES
    vault,      \* the version of each secret a provider would return now
    cleared,    \* the version each secret had when it was last cleared
    generation, \* the cache process
    store       \* store[key]: version and generation of the entry, or None

vars == <<vault, cleared, generation, store>>

Entry == [ver : Nat, generation : Nat]

Empty == [key \in Key |-> None]

Init ==
    /\ vault = [k \in Secret |-> 0]
    /\ cleared = [k \in Secret |-> 0]
    /\ generation = 0
    /\ store = Empty

Rotate(k) ==
    /\ vault' = [vault EXCEPT ![k] = @ + 1]
    /\ UNCHANGED <<cleared, generation, store>>

\* Evict the secrets in K; from now on their older versions are stale.
Clear(K) ==
    /\ cleared' = [k \in Secret |-> IF k \in K THEN vault[k] ELSE cleared[k]]
    /\ store' = [key \in Key |-> IF SecretOf[key] \in K THEN None ELSE store[key]]
    /\ UNCHANGED <<vault, generation>>

\* What may be put under a key.
Admissible(key, e) ==
    /\ e \in Entry
    /\ e.ver <= vault[SecretOf[key]]
    /\ e.generation <= generation
    /\ e.generation = generation => e.ver >= cleared[SecretOf[key]]

Fill ==
    /\ \A key \in Key : store'[key] = store[key] \/ Admissible(key, store'[key])
    /\ UNCHANGED <<vault, cleared, generation>>

\* The process ends and the next one begins with nothing.
Restart ==
    /\ generation' = generation + 1
    /\ store' = Empty
    /\ UNCHANGED <<vault, cleared>>

Next ==
    \/ \E k \in Secret : Rotate(k)
    \/ \E K \in SUBSET Secret : Clear(K)
    \/ Fill
    \/ Restart

Spec == Init /\ [][Next]_vars
=============================================================================
