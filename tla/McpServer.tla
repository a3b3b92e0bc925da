------------------------------- MODULE McpServer -------------------------------
(***************************************************************************)
(* `fnox mcp` (src/mcp_server.rs, src/commands/mcp.rs): tool calls that    *)
(* run at the same time share one cache of values, filled once by a batch  *)
(* and afterwards by single secrets.                                       *)
(*                                                                         *)
(* A secret's value is a version number: it may change at its provider at  *)
(* any time.  0 stands for "has no value".  Of the server's own            *)
(* environment only the variables named like secrets are here.             *)
(***************************************************************************)
EXTENDS Naturals, FiniteSets, Sequences, TLC

CONSTANTS Calls,              \* tool calls
          McpSecrets,         \* a function to [mode, file, listed]
          McpTools,           \* the tools the config enables
          McpInherited,       \* the secrets that have a variable where the server is started
          MaxVersion,         \* bound: how often a value changes
          Absent              \* not in the cache

ASSUME McpAssumption == Absent \notin Nat /\ McpInherited \subseteq DOMAIN McpSecrets

VARIABLES mcp,                \* the server: the once-cell, the cache, values at the provider,
                              \* and the secrets that have a variable in its environment
          call                \* every call

mcpVars == <<mcp, call>>

(* filter_secrets: the secrets the config's list leaves. *)
Profile == {k \in DOMAIN McpSecrets : McpSecrets[k].listed}

in_exec(k) == McpSecrets[k].mode \in {"all", "exec"}

NewCall == [st |-> "new", tool |-> "none", name |-> "none", got |-> Absent, env |-> <<>>,
            inherited |-> {}, files |-> {}, result |-> "none"]

McpInit ==
  /\ mcp = [cell |-> "empty", cache |-> [k \in Profile |-> Absent],
            now |-> [k \in DOMAIN McpSecrets |-> 1], process |-> McpInherited]
  /\ call = [c \in Calls |-> NewCall]

McpIdle ==
  /\ mcp = [cell |-> "off", cache |-> [k \in Profile |-> Absent],
            now |-> [k \in DOMAIN McpSecrets |-> 1], process |-> McpInherited]
  /\ call = [c \in Calls |-> NewCall]

McpOn == mcp.cell # "off"

Answered(c, st, result) == call' = [call EXCEPT ![c].st = st, ![c].result = result]

(* call_tool: a tool that is not enabled is refused; so is a file for get_secret. *)
CallTool(c) ==
  /\ McpOn /\ call[c].st = "new"
  /\ \E tool \in {"get_secret", "exec"}, name \in DOMAIN McpSecrets :
       IF tool \notin McpTools \/ (tool = "get_secret" /\ name \in Profile /\ McpSecrets[name].file)
       THEN call' = [call EXCEPT ![c].st = "done", ![c].tool = tool, ![c].result = "refused"]
       ELSE call' = [call EXCEPT ![c].st = "ensure", ![c].tool = tool, ![c].name = name]
  /\ UNCHANGED mcp

(* ensure_resolved: one call fills the cell, the others wait for it. *)
EnterCell(c) ==
  /\ call[c].st = "ensure"
  /\ \/ mcp.cell = "full" /\ call' = [call EXCEPT ![c].st = "ready"] /\ UNCHANGED mcp
     \/ /\ mcp.cell = "empty"
        /\ call' = [call EXCEPT ![c].st = "batch"]
        /\ mcp' = [mcp EXCEPT !.cell = "filling"]

(* The secrets of the batch: the ones an exec may have. *)
Batch == {k \in Profile : in_exec(k)}

(* Mutant of CellAfterFailure: a batch that failed keeps the cell. *)
CellStuck == "filling"

(* get_or_try_init: a failure leaves the cell to the next caller. *)
CellAfterFailure == "empty"

(* The batch ends: its values go into the cache, or the cell stays empty for the next. *)
(* Resolved in this process, and not by the daemon, they are in its environment too: a *)
(* batch that fails has come to some of them.                                          *)
FillCell(c) ==
  /\ call[c].st = "batch"
  /\ \/ \E absent \in SUBSET Batch : \E set \in {{}, Batch \ absent} :
          /\ mcp' = [mcp EXCEPT !.cell = "full", !.process = @ \cup set, !.cache =
                       [k \in Profile |-> IF k \in Batch THEN IF k \in absent THEN 0 ELSE mcp.now[k]
                                          ELSE @[k]]]
          /\ call' = [call EXCEPT ![c].st = "ready"]
     \/ /\ \E set \in SUBSET Batch :
             mcp' = [mcp EXCEPT !.cell = CellAfterFailure, !.process = @ \cup set]
        /\ Answered(c, "done", "error")

(* get_secret after the batch: from the cache, or one secret by itself. *)
GetSecret(c) ==
  /\ call[c].st = "ready" /\ call[c].tool = "get_secret"
  /\ LET k == call[c].name
     IN  IF k \notin Profile THEN Answered(c, "done", "unknown")
         ELSE IF mcp.cache[k] # Absent
         THEN call' = [call EXCEPT ![c].st = "done", ![c].got = mcp.cache[k],
                         ![c].result = IF mcp.cache[k] = 0 THEN "novalue" ELSE "value"]
         ELSE IF in_exec(k) THEN Answered(c, "done", "error")
         ELSE call' = [call EXCEPT ![c].st = "single"]
  /\ UNCHANGED mcp

(* resolve_single reads the provider without a lock on the cache, and may leave the value *)
(* in the server's environment ...                                                        *)
ReadSingle(c) ==
  /\ call[c].st = "single"
  /\ \/ \E v \in {0, mcp.now[call[c].name]} : \E set \in {{}, {call[c].name}} :
          /\ v = 0 => set = {}
          /\ call' = [call EXCEPT ![c].st = "store", ![c].got = v]
          /\ mcp' = [mcp EXCEPT !.process = @ \cup set]
     \/ Answered(c, "done", "error") /\ UNCHANGED mcp

(* Mutant of Keep: the last one to finish wins. *)
KeepLast(cached, got) == got

(* What another call has stored meanwhile is kept. *)
Keep(cached, got) == IF cached # Absent THEN cached ELSE got

(* ... and stores what it got, unless another call was faster. *)
StoreSingle(c) ==
  /\ call[c].st = "store"
  /\ LET v == Keep(mcp.cache[call[c].name], call[c].got)
     IN  /\ mcp' = [mcp EXCEPT !.cache[call[c].name] = v]
         /\ call' = [call EXCEPT ![c].st = "done", ![c].got = v,
                       ![c].result = IF v = 0 THEN "novalue" ELSE "value"]

(* The variables of a command: get_secret may have put others into the cache. *)
ExecKeys == {k \in Profile : in_exec(k) /\ mcp.cache[k] \notin {Absent, 0}}

(* The secrets that are not for commands, which env_remove takes out. *)
Deferred == {k \in Profile : ~in_exec(k)}

(* exec: the files and the environment, on top of the server's own, then the command. *)
StartExec(c) ==
  /\ call[c].st = "ready" /\ call[c].tool = "exec"
  /\ \/ Answered(c, "done", "error")
     \/ call' = [call EXCEPT ![c].st = "run",
                   ![c].env = [k \in ExecKeys |-> mcp.cache[k]],
                   ![c].inherited = mcp.process \ (ExecKeys \cup Deferred),
                   ![c].files = {k \in ExecKeys : McpSecrets[k].file}]
  /\ UNCHANGED mcp

(* The command ends, or the time is up: dropping the call kills it and removes its files. *)
(* The output is data here: it is cut off at a limit and its values are redacted           *)
(* (redact_all of Redaction) on the way into the answer.                                   *)
EndExec(c) ==
  /\ call[c].st = "run"
  /\ \E result \in {"output", "timeout"} :
       call' = [call EXCEPT ![c].st = "done", ![c].files = {}, ![c].result = result]
  /\ UNCHANGED mcp

(* A value changes at its provider; the bound lets one secret change. *)
Rotate ==
  /\ McpOn
  /\ \E k \in Profile :
       /\ mcp.now[k] < MaxVersion /\ \A j \in Profile \ {k} : mcp.now[j] = 1
       /\ mcp' = [mcp EXCEPT !.now[k] = @ + 1]
  /\ UNCHANGED call

CallStep(c) ==
  \/ EnterCell(c) \/ FillCell(c) \/ GetSecret(c) \/ ReadSingle(c) \/ StoreSingle(c)
  \/ StartExec(c) \/ EndExec(c)

McpNext == Rotate \/ \E c \in Calls : CallTool(c) \/ CallStep(c)

(* Providers answer or fail, and a command is stopped after its time. *)
McpFair == \A c \in Calls : WF_mcpVars(CallStep(c))

--------------------------------------------------------------------------------
(* Properties. *)

(* A session gives one answer for a secret: calls at the same time, and later ones,   *)
(* get the same value from get_secret and in the environment of exec, although the    *)
(* value changes at its provider in between.                                          *)
SameAnswer ==
  \A c, d \in Calls :
    LET answers(x) ==
          IF call[x].result \in {"value", "novalue"} THEN {<<call[x].name, call[x].got>>}
          ELSE {<<k, call[x].env[k]>> : k \in DOMAIN call[x].env}
    IN  \A a \in answers(c), b \in answers(d) : a[1] = b[1] => a[2] = b[2]

(* A command gets the secrets that are meant for commands and no others, although the *)
(* cache also holds what get_secret has read, and the server's own environment, which *)
(* the command inherits, may hold it too; the others are not even read for it.        *)
ExecSecretsOnly ==
  /\ \A c \in Calls :
       /\ \A k \in DOMAIN call[c].env : k \in Profile /\ in_exec(k)
       /\ \A k \in call[c].inherited \cap Profile : in_exec(k)
  /\ \A k \in Profile : ~in_exec(k) /\ mcp.cache[k] # Absent =>
       \E c \in Calls : call[c].name = k /\ call[c].tool = "get_secret"

(* Every call is answered: a batch that fails does not leave the others waiting for *)
(* it.                                                                                 *)
CallsEnd == \A c \in Calls : (McpOn /\ call[c].st = "ensure") ~> (call[c].st = "done")

\* Calls that run at the same time get one answer for a secret, and commands only the
\* secrets that are for commands.
McpSound == SameAnswer /\ ExecSecretsOnly
================================================================================
