--------------------------- MODULE LocalProviders ---------------------------
(***************************************************************************)
(* Decryption on this machine: the tasks of a request open age values with *)
(* identities that other providers keep, or the tasks of a process use the *)
(* tokens, vaults and files of LocalSecrets, or processes install, change  *)
(* and use a plugin.                                                       *)
(***************************************************************************)
EXTENDS AgeIdentity, LocalSecrets, PluginStore

vars == <<ageVars, localVars, pluginVars>>

Init ==
    \/ AgeInit /\ LocalIdle /\ PluginIdle
    \/ AgeIdle /\ LocalInit /\ PluginIdle
    \/ AgeIdle /\ LocalIdle /\ PluginInit

Next ==
    \/ AgeNext /\ UNCHANGED <<localVars, pluginVars>>
    \/ LocalNext /\ UNCHANGED <<ageVars, pluginVars>>
    \/ PluginNext /\ UNCHANGED <<ageVars, localVars>>

Spec == Init /\ [][Next]_vars /\ AgeFair /\ LocalFair

\* The types of the variables of the three parts.
TypeOK == AgeTypeOK /\ LocalTypeOK /\ PluginTypeOK

\* The user is asked once, and only what was accepted is kept: tasks share a decrypt and an
\* unlocked vault, and a cell is taken only while someone fills it.
UnlockedOnce == TypeOK /\ CellsOwned /\ OpenedOnce /\ AcceptedOnly /\ AskedOnce

\* What is taken away for an operation is put back when that fails: the kernel's driver of a
\* token, and the plugin that is replaced.
PutBack == DriverRestored /\ KeptOnFailure

\* Every task ends, although tasks wait for each other's decrypts, vaults and tokens.
AllEnd == AgeAnswered /\ Ends
=============================================================================
