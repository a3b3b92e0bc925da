--------------------------- MODULE MCLeaseLedger ---------------------------
(* Instances of LeaseLedger for TLC. *)
EXTENDS LeaseLedger, TLC

CONSTANTS p1, p2, aws, id1, id2, h1, h2

Op(kind, backend, id) == [kind |-> kind, backend |-> backend, id |-> id]

\* A command that holds the lock only to write, and two that hold it throughout.
Commands == {Op("get", aws, None), Op("revoke", None, None), Op("cleanup", None, None)}
\* A reader of one backend, and everything that holds the lock throughout.
Readers == {Op("exec", aws, None), Op("create", aws, None), Op("revoke", aws, None),
            Op("revoke", None, id1), Op("cleanup", None, None)}

\* The backend sometimes uses an ID again.
SomeIds == [n \in 1 .. MaxLease |-> {id1, id2} \ IF n = 1 THEN {id2} ELSE {}]

Symmetry == Permutations(Process)
=============================================================================
