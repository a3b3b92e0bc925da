-------------------------- MODULE MCLeaseBackends --------------------------
(* Instances of LeaseBackends for TLC: all backends, in units of which a day has two. *)
EXTENDS LeaseBackends

CONSTANTS t1, t2
=============================================================================
