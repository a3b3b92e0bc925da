-------------------------- MODULE RemoteProviders --------------------------
(***************************************************************************)
(* A process reads a batch of secrets from a remote provider, or several   *)
(* processes store secrets with one.                                       *)
(***************************************************************************)
EXTENDS ProviderReads, ProviderWrites

vars == <<readVars, writeVars>>

Init == (ReadInit /\ WriteIdle) \/ (ReadIdle /\ WriteInit)

Next ==
    \/ ReadNext /\ UNCHANGED writeVars
    \/ WriteNext /\ UNCHANGED readVars

Spec == Init /\ [][Next]_vars

=============================================================================
