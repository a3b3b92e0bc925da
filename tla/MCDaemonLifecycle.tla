------------------------- MODULE MCDaemonLifecycle -------------------------
(* Instances of DaemonLifecycle for TLC. *)
EXTENDS DaemonLifecycle, TLC

CONSTANTS c1, c2, d1, d2
=============================================================================
