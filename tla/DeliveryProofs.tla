----------------------------- MODULE DeliveryProofs -----------------------------
(***************************************************************************)
(* What the consumers of secrets keep, for any number of calls, secrets,   *)
(* profiles and directories.  A component is started or not; its variables *)
(* change only in its own steps.                                           *)
(***************************************************************************)
EXTENDS Delivery, FiniteSetTheorems, NaturalsInduction, WellFoundedInduction, TLAPS

--------------------------------------------------------------------------------
(* The MCP server. *)

Envs == UNION {[K -> Nat] : K \in SUBSET Profile}

Status == {"new", "ensure", "batch", "ready", "single", "store", "run", "done"}
Result == {"none", "refused", "error", "unknown", "value", "novalue", "output", "timeout"}

ToolCall ==
  [st : Status, tool : {"none", "get_secret", "exec"}, name : DOMAIN McpSecrets \cup {"none"},
   got : Nat \cup {Absent}, env : Envs, inherited : SUBSET (DOMAIN McpSecrets \ Deferred),
   files : SUBSET Profile, result : Result]

Server ==
  [cell : {"off", "empty", "filling", "full"}, cache : [Profile -> Nat \cup {Absent}],
   now : [DOMAIN McpSecrets -> Nat], process : SUBSET DOMAIN McpSecrets]

McpTypeOK == mcp \in Server /\ call \in [Calls -> ToolCall]

(* One call fills the cell; until it is full nothing is in the cache. *)
CellInv ==
  /\ \A c \in Calls : call[c].st = "batch" => mcp.cell = "filling"
  /\ \A c, d \in Calls : call[c].st = "batch" /\ call[d].st = "batch" => c = d
  /\ \A c \in Calls : call[c].st \in {"ready", "single", "store", "run"} => mcp.cell = "full"
  /\ mcp.cell # "full" => \A k \in Profile : mcp.cache[k] = Absent

(* What was answered is what the cache still holds. *)
AnswerInv ==
  \A c \in Calls :
    /\ call[c].result \in {"value", "novalue"} =>
         call[c].name \in Profile /\ call[c].got \in Nat /\ mcp.cache[call[c].name] = call[c].got
    /\ \A k \in DOMAIN call[c].env :
         k \in Profile /\ in_exec(k) /\ call[c].env[k] \in Nat /\ mcp.cache[k] = call[c].env[k]

(* A secret that commands do not get is asked for one by one. *)
SingleInv ==
  /\ \A c \in Calls :
       /\ call[c].st = "new" => call[c].tool = "none"
       /\ call[c].st # "done" => call[c].result = "none"
       /\ call[c].st \in {"single", "store"} =>
            call[c].tool = "get_secret" /\ call[c].name \in Profile /\ ~in_exec(call[c].name)
       /\ call[c].st = "store" => call[c].got \in Nat
  /\ \A k \in Profile : ~in_exec(k) /\ mcp.cache[k] # Absent =>
       \E c \in Calls : call[c].name = k /\ call[c].tool = "get_secret"

McpInv == McpTypeOK /\ CellInv /\ AnswerInv /\ SingleInv

LEMMA Labels ==
  /\ "new" \in Status /\ "ensure" \in Status /\ "batch" \in Status /\ "ready" \in Status
  /\ "single" \in Status /\ "store" \in Status /\ "run" \in Status /\ "done" \in Status
  /\ "none" \in Result /\ "refused" \in Result /\ "error" \in Result /\ "unknown" \in Result
  /\ "value" \in Result /\ "novalue" \in Result /\ "output" \in Result /\ "timeout" \in Result
BY DEF Status, Result

(* Nothing is cached, and no call is made. *)
LEMMA McpStarts == McpInit \/ McpIdle => McpInv
<1> SUFFICES ASSUME McpInit \/ McpIdle PROVE McpInv
  OBVIOUS
<1>0. <<>> \in Envs /\ DOMAIN <<>> = {}
  <2>1. <<>> \in [{} -> Nat] /\ {} \in SUBSET Profile
    OBVIOUS
  <2> QED BY <2>1 DEF Envs
<1>1. McpTypeOK
  <2>1. NewCall \in ToolCall
    BY <1>0, Labels DEF NewCall, ToolCall
  <2>2. mcp \in Server
    BY McpAssumption DEF McpInit, McpIdle, Server
  <2> QED BY <2>1, <2>2 DEF McpInit, McpIdle, McpTypeOK
<1>2. \A c \in Calls : call[c] = NewCall
  BY DEF McpInit, McpIdle
<1>3. \A k \in Profile : mcp.cache[k] = Absent
  BY DEF McpInit, McpIdle
<1>4. CellInv /\ AnswerInv /\ SingleInv
  BY <1>0, <1>2, <1>3 DEF NewCall, CellInv, AnswerInv, SingleInv
<1> QED BY <1>1, <1>4 DEF McpInv

(* One call's record is replaced. *)
LEMMA Replaced ==
  ASSUME McpInv, NEW c \in Calls, NEW r \in ToolCall, call' = [call EXCEPT ![c] = r]
  PROVE  call' \in [Calls -> ToolCall]
BY DEF McpInv, McpTypeOK

LEMMA AnsweredTyped ==
  ASSUME McpInv, NEW c \in Calls, NEW st \in Status, NEW result \in Result, Answered(c, st, result)
  PROVE  call' \in [Calls -> ToolCall]
<1> DEFINE r == [call[c] EXCEPT !.st = st, !.result = result]
<1>1. r \in ToolCall
  BY DEF McpInv, McpTypeOK, ToolCall
<1>2. call' = [call EXCEPT ![c] = r]
  BY DEF Answered, McpInv, McpTypeOK
<1> HIDE DEF r
<1> QED BY <1>1, <1>2, Replaced

(* A call that is made. *)
LEMMA CallToolKeeps ==
  ASSUME McpInv, NEW c \in Calls, CallTool(c)
  PROVE  McpInv'
<1>1. call[c].st = "new" /\ mcp' = mcp
  BY DEF CallTool
<1>2. PICK tool \in {"get_secret", "exec"}, name \in DOMAIN McpSecrets :
         \/ call' = [call EXCEPT ![c].st = "done", ![c].tool = tool, ![c].result = "refused"]
         \/ call' = [call EXCEPT ![c].st = "ensure", ![c].tool = tool, ![c].name = name]
  BY DEF CallTool
<1>3. McpTypeOK'
  BY <1>1, <1>2, Labels DEF McpInv, McpTypeOK, ToolCall
<1>4. /\ \A d \in Calls \ {c} : call'[d] = call[d]
      /\ call'[c].st \in {"done", "ensure"} /\ call'[c].env = call[c].env
      /\ call'[c].result \in {"none", "refused"} /\ (call'[c].st = "ensure" => call'[c].result = "none")
  BY <1>1, <1>2, Labels DEF McpInv, McpTypeOK, ToolCall, SingleInv
<1>5. CellInv'
  BY <1>1, <1>4 DEF McpInv, CellInv
<1>6. AnswerInv'
  BY <1>1, <1>4 DEF McpInv, AnswerInv
<1>7. SingleInv'
  BY <1>1, <1>4 DEF McpInv, SingleInv
<1> QED BY <1>3, <1>5, <1>6, <1>7 DEF McpInv

(* A step of a call that was made: the cache only grows, and by what the call asked for. *)
LEMMA StepKeeps ==
  ASSUME McpInv, NEW c \in Calls, McpTypeOK', CellInv',
         \A d \in Calls \ {c} : call'[d] = call[d],
         call'[c].tool = call[c].tool, call'[c].name = call[c].name, call'[c].st # "new",
         call'[c].st # "done" => call'[c].result = "none",
         \A k \in Profile : mcp.cache[k] # Absent => mcp'.cache[k] = mcp.cache[k],
         \A k \in Profile : mcp'.cache[k] # mcp.cache[k] =>
            in_exec(k) \/ (call[c].tool = "get_secret" /\ call[c].name = k),
         call'[c].result \in {"value", "novalue"} =>
            call[c].name \in Profile /\ call'[c].got \in Nat /\ mcp'.cache[call[c].name] = call'[c].got,
         \A k \in DOMAIN call'[c].env :
            k \in Profile /\ in_exec(k) /\ call'[c].env[k] \in Nat /\ mcp'.cache[k] = call'[c].env[k],
         call'[c].st \in {"single", "store"} =>
            call[c].tool = "get_secret" /\ call[c].name \in Profile /\ ~in_exec(call[c].name),
         call'[c].st = "store" => call'[c].got \in Nat
  PROVE  McpInv'
<1>1. ASSUME NEW d \in Calls, d # c
      PROVE  /\ call'[d].result \in {"value", "novalue"} =>
                  /\ call'[d].name \in Profile /\ call'[d].got \in Nat
                  /\ mcp'.cache[call'[d].name] = call'[d].got
             /\ \A k \in DOMAIN call'[d].env :
                  k \in Profile /\ in_exec(k) /\ call'[d].env[k] \in Nat /\ mcp'.cache[k] = call'[d].env[k]
  BY <1>1, McpAssumption DEF McpInv, AnswerInv
<1>2. AnswerInv'
  BY <1>1 DEF AnswerInv
<1>3. ASSUME NEW k \in Profile, ~in_exec(k), mcp'.cache[k] # Absent
      PROVE  \E d \in Calls : call'[d].name = k /\ call'[d].tool = "get_secret"
  <2>1. CASE mcp'.cache[k] # mcp.cache[k]
    BY <1>3, <2>1
  <2>2. CASE mcp'.cache[k] = mcp.cache[k]
    BY <1>3, <2>2 DEF McpInv, SingleInv
  <2> QED BY <2>1, <2>2
<1>4. SingleInv'
  BY <1>3 DEF McpInv, SingleInv
<1> QED BY <1>2, <1>4 DEF McpInv

(* ensure_resolved. *)
LEMMA EnterCellKeeps ==
  ASSUME McpInv, NEW c \in Calls, EnterCell(c)
  PROVE  McpInv'
<1>1. /\ call[c].st = "ensure"
      /\ \/ mcp.cell = "full" /\ call' = [call EXCEPT ![c].st = "ready"] /\ mcp' = mcp
         \/ /\ mcp.cell = "empty" /\ call' = [call EXCEPT ![c].st = "batch"]
            /\ mcp' = [mcp EXCEPT !.cell = "filling"]
  BY DEF EnterCell
<1>2. McpTypeOK' /\ mcp'.cache = mcp.cache
  BY <1>1, Labels DEF McpInv, McpTypeOK, ToolCall, Server
<1>3. /\ \A d \in Calls \ {c} : call'[d] = call[d]
      /\ call'[c].tool = call[c].tool /\ call'[c].name = call[c].name /\ call'[c].env = call[c].env
      /\ call'[c].result = "none" /\ call'[c].st \in {"ready", "batch"}
  BY <1>1, Labels DEF McpInv, McpTypeOK, ToolCall, SingleInv
<1>4. CellInv'
  <2>1. CASE mcp.cell = "full"
    <3>1. call'[c].st = "ready" /\ mcp' = mcp
      BY <1>1, <2>1, Labels DEF McpInv, McpTypeOK, ToolCall
    <3> QED BY <1>3, <2>1, <3>1 DEF McpInv, CellInv
  <2>2. CASE mcp.cell = "empty"
    <3>1. call'[c].st = "batch" /\ mcp'.cell = "filling"
      BY <1>1, <2>2, Labels DEF McpInv, McpTypeOK, ToolCall, Server
    <3>2. \A d \in Calls : call[d].st \notin {"batch", "ready", "single", "store", "run"}
      BY <2>2 DEF McpInv, CellInv
    <3> QED BY <1>2, <1>3, <2>2, <3>1, <3>2 DEF McpInv, CellInv
  <2> QED BY <1>1, <2>1, <2>2
<1>5. \A k \in DOMAIN call'[c].env :
        k \in Profile /\ in_exec(k) /\ call'[c].env[k] \in Nat /\ mcp'.cache[k] = call'[c].env[k]
  BY <1>2, <1>3 DEF McpInv, AnswerInv
<1> QED BY <1>2, <1>3, <1>4, <1>5, StepKeeps

(* The batch ends: before it, nothing is in the cache. *)
LEMMA FillCellKeeps ==
  ASSUME McpInv, NEW c \in Calls, FillCell(c)
  PROVE  McpInv'
<1>1. call[c].st = "batch" /\ mcp.cell = "filling" /\ \A k \in Profile : mcp.cache[k] = Absent
  BY DEF FillCell, McpInv, CellInv
<1>2. \A d \in Calls : d # c => call[d].st # "batch"
  BY <1>1 DEF McpInv, CellInv
<1>3. \A d \in Calls : call[d].st \notin {"ready", "single", "store", "run"}
  BY <1>1 DEF McpInv, CellInv
<1>4. DOMAIN call[c].env = {}
  BY <1>1, McpAssumption DEF McpInv, AnswerInv
<1>0. Batch \subseteq DOMAIN McpSecrets
  BY DEF Batch, Profile
<1>5. CASE \E absent \in SUBSET Batch, set \in SUBSET Batch :
             /\ mcp' = [mcp EXCEPT !.cell = "full", !.process = @ \cup set, !.cache =
                          [k \in Profile |-> IF k \in Batch THEN IF k \in absent THEN 0 ELSE mcp.now[k]
                                             ELSE @[k]]]
             /\ call' = [call EXCEPT ![c].st = "ready"]
  <2>1. PICK absent \in SUBSET Batch, set \in SUBSET Batch :
             /\ mcp' = [mcp EXCEPT !.cell = "full", !.process = @ \cup set, !.cache =
                          [k \in Profile |-> IF k \in Batch THEN IF k \in absent THEN 0 ELSE mcp.now[k]
                                             ELSE @[k]]]
             /\ call' = [call EXCEPT ![c].st = "ready"]
    BY <1>5
  <2> DEFINE filled == [k \in Profile |-> IF k \in Batch THEN IF k \in absent THEN 0 ELSE mcp.now[k]
                                          ELSE mcp.cache[k]]
  <2>2. filled \in [Profile -> Nat \cup {Absent}]
    BY DEF McpInv, McpTypeOK, Server, Profile
  <2>3. \A k \in Profile : ~in_exec(k) => filled[k] = mcp.cache[k]
    BY DEF Batch
  <2>4. mcp' = [mcp EXCEPT !.cell = "full", !.process = @ \cup set, !.cache = filled]
    BY <2>1 DEF McpInv, McpTypeOK, Server
  <2> HIDE DEF filled
  <2>5. McpTypeOK' /\ mcp'.cache = filled /\ mcp'.cell = "full"
    <3>1. mcp' \in Server /\ mcp'.cache = filled /\ mcp'.cell = "full"
      BY <1>0, <2>2, <2>4 DEF McpInv, McpTypeOK, Server
    <3>2. call' \in [Calls -> ToolCall]
      BY <2>1, Labels DEF McpInv, McpTypeOK, ToolCall
    <3> QED BY <3>1, <3>2 DEF McpTypeOK
  <2>6. /\ \A d \in Calls \ {c} : call'[d] = call[d]
        /\ call'[c].tool = call[c].tool /\ call'[c].name = call[c].name /\ call'[c].env = call[c].env
        /\ call'[c].result = "none" /\ call'[c].st = "ready"
    BY <1>1, <2>1, Labels DEF McpInv, McpTypeOK, ToolCall, SingleInv
  <2>7. CellInv'
    BY <1>2, <1>3, <2>5, <2>6 DEF CellInv
  <2> QED BY <1>1, <1>4, <2>3, <2>5, <2>6, <2>7, StepKeeps
<1>6. CASE /\ \E set \in SUBSET Batch :
                mcp' = [mcp EXCEPT !.cell = CellAfterFailure, !.process = @ \cup set]
           /\ Answered(c, "done", "error")
  <2>1. McpTypeOK' /\ mcp'.cache = mcp.cache /\ mcp'.cell = "empty"
    <3>1. mcp' \in Server /\ mcp'.cache = mcp.cache /\ mcp'.cell = "empty"
      BY <1>0, <1>6 DEF McpInv, McpTypeOK, Server, CellAfterFailure
    <3>2. call' \in [Calls -> ToolCall]
      BY <1>6, Labels, AnsweredTyped
    <3> QED BY <3>1, <3>2 DEF McpTypeOK
  <2>2. /\ \A d \in Calls \ {c} : call'[d] = call[d]
        /\ call'[c].tool = call[c].tool /\ call'[c].name = call[c].name /\ call'[c].env = call[c].env
        /\ call'[c].result = "error" /\ call'[c].st = "done"
    BY <1>6, Labels DEF McpInv, McpTypeOK, ToolCall, Answered
  <2>3. CellInv'
    BY <1>1, <1>2, <1>3, <2>1, <2>2 DEF CellInv
  <2> QED BY <1>4, <2>1, <2>2, <2>3, StepKeeps
<1> QED BY <1>5, <1>6 DEF FillCell

(* A step of a call that leaves the cell and the cache alone; at `st` it has what it needs. *)
LEMMA LocalKeeps ==
  ASSUME McpInv, NEW c \in Calls, call' \in [Calls -> ToolCall],
         mcp' \in Server, mcp'.cell = mcp.cell, mcp'.cache = mcp.cache,
         call[c].st \in {"ready", "single", "store", "run"},
         \A d \in Calls \ {c} : call'[d] = call[d],
         call'[c].tool = call[c].tool, call'[c].name = call[c].name,
         call'[c].st \in {"single", "store", "run", "done"},
         call'[c].st # "done" => call'[c].result = "none",
         call'[c].result \in {"value", "novalue"} =>
            call[c].name \in Profile /\ call'[c].got \in Nat /\ mcp.cache[call[c].name] = call'[c].got,
         \A k \in DOMAIN call'[c].env :
            k \in Profile /\ in_exec(k) /\ call'[c].env[k] \in Nat /\ mcp.cache[k] = call'[c].env[k],
         call'[c].st \in {"single", "store"} =>
            call[c].tool = "get_secret" /\ call[c].name \in Profile /\ ~in_exec(call[c].name),
         call'[c].st = "store" => call'[c].got \in Nat
  PROVE  McpInv'
<1>1. McpTypeOK'
  BY DEF McpInv, McpTypeOK
<1>2. mcp.cell = "full"
  BY DEF McpInv, CellInv
<1>3. CellInv'
  BY <1>2 DEF McpInv, CellInv
<1> QED BY <1>1, <1>3, StepKeeps

(* An answer that says nothing of a value. *)
LEMMA AnsweredKeeps ==
  ASSUME McpInv, NEW c \in Calls, mcp' = mcp, call[c].st \in {"ready", "single", "store", "run"},
         NEW result \in {"error", "unknown"}, Answered(c, "done", result)
  PROVE  McpInv'
<1>1. call' \in [Calls -> ToolCall]
  BY Labels, AnsweredTyped
<1>2. /\ \A d \in Calls \ {c} : call'[d] = call[d]
      /\ call'[c].tool = call[c].tool /\ call'[c].name = call[c].name /\ call'[c].env = call[c].env
      /\ call'[c].result = result /\ call'[c].st = "done"
  BY Labels DEF McpInv, McpTypeOK, ToolCall, Answered
<1>3. \A k \in DOMAIN call'[c].env :
        k \in Profile /\ in_exec(k) /\ call'[c].env[k] \in Nat /\ mcp.cache[k] = call'[c].env[k]
  BY <1>2 DEF McpInv, AnswerInv
<1>4. mcp' \in Server /\ mcp'.cell = mcp.cell /\ mcp'.cache = mcp.cache
  BY DEF McpInv, McpTypeOK
<1> QED BY <1>1, <1>2, <1>3, <1>4, LocalKeeps

(* get_secret from the cache. *)
LEMMA GetSecretKeeps ==
  ASSUME McpInv, NEW c \in Calls, GetSecret(c)
  PROVE  McpInv'
<1> DEFINE k == call[c].name
<1>1. /\ call[c].st = "ready" /\ call[c].tool = "get_secret" /\ mcp' = mcp
      /\ mcp' \in Server /\ mcp'.cell = mcp.cell /\ mcp'.cache = mcp.cache
  BY DEF GetSecret, McpInv, McpTypeOK
<1>2. CASE Answered(c, "done", "unknown") \/ Answered(c, "done", "error")
  BY <1>1, <1>2, AnsweredKeeps
<1>3. \A j \in DOMAIN call[c].env :
        j \in Profile /\ in_exec(j) /\ call[c].env[j] \in Nat /\ mcp.cache[j] = call[c].env[j]
  BY DEF McpInv, AnswerInv
<1>4. CASE /\ k \in Profile /\ mcp.cache[k] # Absent
           /\ call' = [call EXCEPT ![c].st = "done", ![c].got = mcp.cache[k],
                         ![c].result = IF mcp.cache[k] = 0 THEN "novalue" ELSE "value"]
  <2>1. mcp.cache[k] \in Nat
    BY <1>4 DEF McpInv, McpTypeOK, Server
  <2>2. call' \in [Calls -> ToolCall]
    <3> DEFINE r == [call[c] EXCEPT !.st = "done", !.got = mcp.cache[k],
                                    !.result = IF mcp.cache[k] = 0 THEN "novalue" ELSE "value"]
    <3>1. r \in ToolCall
      BY <2>1, Labels DEF McpInv, McpTypeOK, ToolCall
    <3>2. call' = [call EXCEPT ![c] = r]
      BY <1>4 DEF McpInv, McpTypeOK
    <3> HIDE DEF r
    <3> QED BY <3>1, <3>2, Replaced
  <2>3. /\ \A d \in Calls \ {c} : call'[d] = call[d]
        /\ call'[c].tool = call[c].tool /\ call'[c].name = call[c].name /\ call'[c].env = call[c].env
        /\ call'[c].got = mcp.cache[k] /\ call'[c].st = "done"
    BY <1>4, Labels DEF McpInv, McpTypeOK, ToolCall
  <2>4. \A j \in DOMAIN call'[c].env :
          j \in Profile /\ in_exec(j) /\ call'[c].env[j] \in Nat /\ mcp.cache[j] = call'[c].env[j]
    BY <1>3, <2>3
  <2> QED BY <1>1, <1>4, <2>1, <2>2, <2>3, <2>4, LocalKeeps
<1>5. CASE k \in Profile /\ ~in_exec(k) /\ call' = [call EXCEPT ![c].st = "single"]
  <2>1. call' \in [Calls -> ToolCall]
    BY <1>5, Labels DEF McpInv, McpTypeOK, ToolCall
  <2>2. /\ \A d \in Calls \ {c} : call'[d] = call[d]
        /\ call'[c].tool = call[c].tool /\ call'[c].name = call[c].name /\ call'[c].env = call[c].env
        /\ call'[c].result = "none" /\ call'[c].st = "single"
    BY <1>1, <1>5, Labels DEF McpInv, McpTypeOK, ToolCall, SingleInv
  <2> QED BY <1>1, <1>3, <1>5, <2>1, <2>2, LocalKeeps
<1> QED BY <1>2, <1>4, <1>5 DEF GetSecret

(* resolve_single asks the provider. *)
LEMMA ReadSingleKeeps ==
  ASSUME McpInv, NEW c \in Calls, ReadSingle(c)
  PROVE  McpInv'
<1>1. call[c].st = "single"
  BY DEF ReadSingle
<1>2. CASE Answered(c, "done", "error") /\ mcp' = mcp
  BY <1>1, <1>2, AnsweredKeeps
<1>3. CASE \E v \in {0, mcp.now[call[c].name]} : \E set \in {{}, {call[c].name}} :
             /\ call' = [call EXCEPT ![c].st = "store", ![c].got = v]
             /\ mcp' = [mcp EXCEPT !.process = @ \cup set]
  <2>1. call[c].tool = "get_secret" /\ call[c].name \in Profile /\ ~in_exec(call[c].name)
    BY <1>1 DEF McpInv, SingleInv
  <2>2. mcp.now[call[c].name] \in Nat
    BY <2>1 DEF McpInv, McpTypeOK, Server, Profile
  <2>3. PICK v \in Nat : call' = [call EXCEPT ![c].st = "store", ![c].got = v]
    BY <1>3, <2>2
  <2>4. call' \in [Calls -> ToolCall]
    <3> DEFINE r == [call[c] EXCEPT !.st = "store", !.got = v]
    <3>1. r \in ToolCall
      BY Labels DEF McpInv, McpTypeOK, ToolCall
    <3>2. call' = [call EXCEPT ![c] = r]
      BY <2>3 DEF McpInv, McpTypeOK
    <3> HIDE DEF r
    <3> QED BY <3>1, <3>2, Replaced
  <2>5. /\ \A d \in Calls \ {c} : call'[d] = call[d]
        /\ call'[c].tool = call[c].tool /\ call'[c].name = call[c].name /\ call'[c].env = call[c].env
        /\ call'[c].result = "none" /\ call'[c].st = "store" /\ call'[c].got = v
    BY <1>1, <2>3, Labels DEF McpInv, McpTypeOK, ToolCall, SingleInv
  <2>6. \A k \in DOMAIN call[c].env :
          k \in Profile /\ in_exec(k) /\ call[c].env[k] \in Nat /\ mcp.cache[k] = call[c].env[k]
    BY DEF McpInv, AnswerInv
  <2>7. mcp' \in Server /\ mcp'.cell = mcp.cell /\ mcp'.cache = mcp.cache
    BY <1>3, <2>1 DEF McpInv, McpTypeOK, Server, Profile
  <2> QED BY <1>1, <2>1, <2>4, <2>5, <2>6, <2>7, LocalKeeps
<1> QED BY <1>2, <1>3 DEF ReadSingle

(* resolve_single stores what it got, unless another call was faster. *)
LEMMA StoreSingleKeeps ==
  ASSUME McpInv, NEW c \in Calls, StoreSingle(c)
  PROVE  McpInv'
<1> DEFINE k == call[c].name
           v == Keep(mcp.cache[k], call[c].got)
<1>1. /\ call[c].st = "store" /\ mcp' = [mcp EXCEPT !.cache[k] = v]
      /\ call' = [call EXCEPT ![c].st = "done", ![c].got = v, ![c].result = IF v = 0 THEN "novalue" ELSE "value"]
  BY DEF StoreSingle
<1>2. call[c].tool = "get_secret" /\ k \in Profile /\ ~in_exec(k) /\ call[c].got \in Nat
  BY <1>1 DEF McpInv, SingleInv
<1>3. v \in Nat /\ (mcp.cache[k] # Absent => v = mcp.cache[k])
  BY <1>2 DEF Keep, McpInv, McpTypeOK, Server
<1>4. mcp.cell = "full"
  BY <1>1 DEF McpInv, CellInv
<1> HIDE DEF v
<1>5. /\ mcp' \in Server /\ mcp'.cell = mcp.cell
      /\ mcp'.cache[k] = v /\ \A j \in Profile : j # k => mcp'.cache[j] = mcp.cache[j]
  BY <1>1, <1>2, <1>3 DEF McpInv, McpTypeOK, Server
<1>6. call' \in [Calls -> ToolCall]
  <2> DEFINE r == [call[c] EXCEPT !.st = "done", !.got = v, !.result = IF v = 0 THEN "novalue" ELSE "value"]
  <2>1. r \in ToolCall
    <3>1. PICK q \in ToolCall : q = call[c]
      BY DEF McpInv, McpTypeOK
    <3>2. PICK a \in Result : a = IF v = 0 THEN "novalue" ELSE "value"
      BY Labels
    <3>3. r = [q EXCEPT !.st = "done", !.got = v, !.result = a]
      BY <3>1, <3>2
    <3> HIDE DEF r
    <3> QED BY ONLY <1>3, <3>3, Labels, q \in ToolCall, a \in Result DEF ToolCall
  <2>2. call' = [call EXCEPT ![c] = r]
    BY <1>1 DEF McpInv, McpTypeOK
  <2> HIDE DEF r
  <2> QED BY <2>1, <2>2, Replaced
<1>7. /\ \A d \in Calls \ {c} : call'[d] = call[d]
      /\ call'[c].tool = call[c].tool /\ call'[c].name = k /\ call'[c].env = call[c].env
      /\ call'[c].got = v /\ call'[c].st = "done"
  BY <1>1, Labels DEF McpInv, McpTypeOK, ToolCall
<1>8. CellInv'
  BY <1>4, <1>5, <1>7 DEF McpInv, CellInv
<1>9. \A j \in DOMAIN call[c].env :
        j \in Profile /\ in_exec(j) /\ call[c].env[j] \in Nat /\ mcp'.cache[j] = call[c].env[j]
  BY <1>2, <1>5 DEF McpInv, AnswerInv
<1>10. McpTypeOK'
  BY <1>5, <1>6 DEF McpTypeOK
<1>11. \A j \in Profile : mcp.cache[j] # Absent => mcp'.cache[j] = mcp.cache[j]
  BY <1>3, <1>5
<1>12. \A j \in Profile : mcp'.cache[j] # mcp.cache[j] => j = k
  BY <1>5
<1> QED BY <1>2, <1>3, <1>5, <1>7, <1>8, <1>9, <1>10, <1>11, <1>12, StepKeeps

(* exec: the environment is a part of the cache. *)
LEMMA StartExecKeeps ==
  ASSUME McpInv, NEW c \in Calls, StartExec(c)
  PROVE  McpInv'
<1> DEFINE env == [k \in ExecKeys |-> mcp.cache[k]]
           files == {k \in ExecKeys : McpSecrets[k].file}
           inherited == mcp.process \ (ExecKeys \cup Deferred)
<1>1. /\ call[c].st = "ready" /\ mcp' = mcp
      /\ mcp' \in Server /\ mcp'.cell = mcp.cell /\ mcp'.cache = mcp.cache
  BY DEF StartExec, McpInv, McpTypeOK
<1>2. CASE Answered(c, "done", "error")
  BY <1>1, <1>2, AnsweredKeeps
<1>3. CASE call' = [call EXCEPT ![c].st = "run", ![c].env = env, ![c].inherited = inherited,
                                ![c].files = files]
  <2>1. \A k \in ExecKeys : k \in Profile /\ in_exec(k) /\ mcp.cache[k] \in Nat
    BY DEF ExecKeys, McpInv, McpTypeOK, Server
  <2>2. env \in Envs /\ DOMAIN env = ExecKeys /\ \A k \in ExecKeys : env[k] = mcp.cache[k]
    <3>1. ExecKeys \in SUBSET Profile /\ env \in [ExecKeys -> Nat]
      BY <2>1
    <3> QED BY <3>1 DEF Envs
  <2>3. files \in SUBSET Profile /\ inherited \in SUBSET (DOMAIN McpSecrets \ Deferred)
    BY <2>1 DEF McpInv, McpTypeOK, Server
  <2> HIDE DEF env, files, inherited
  <2> DEFINE r == [call[c] EXCEPT !.st = "run", !.env = env, !.inherited = inherited, !.files = files]
  <2>4. r \in ToolCall
    <3>1. PICK q \in ToolCall : q = call[c]
      BY DEF McpInv, McpTypeOK
    <3>2. r = [q EXCEPT !.st = "run", !.env = env, !.inherited = inherited, !.files = files]
      BY <3>1
    <3> HIDE DEF r
    <3> QED BY ONLY <2>2, <2>3, <3>2, Labels, q \in ToolCall DEF ToolCall
  <2>5. call' = [call EXCEPT ![c] = r]
    BY <1>3 DEF McpInv, McpTypeOK
  <2>6. /\ r.tool = call[c].tool /\ r.name = call[c].name /\ r.env = env
        /\ r.result = "none" /\ r.st = "run"
    BY <1>1 DEF McpInv, McpTypeOK, ToolCall, SingleInv
  <2> HIDE DEF r
  <2>7. call' \in [Calls -> ToolCall] /\ call'[c] = r /\ \A d \in Calls \ {c} : call'[d] = call[d]
    BY <2>4, <2>5, Replaced DEF McpInv, McpTypeOK
  <2> QED BY <1>1, <2>1, <2>2, <2>6, <2>7, LocalKeeps
<1> QED BY <1>2, <1>3 DEF StartExec

(* The command ends. *)
LEMMA EndExecKeeps ==
  ASSUME McpInv, NEW c \in Calls, EndExec(c)
  PROVE  McpInv'
<1>1. /\ call[c].st = "run" /\ mcp' = mcp
      /\ mcp' \in Server /\ mcp'.cell = mcp.cell /\ mcp'.cache = mcp.cache
  BY DEF EndExec, McpInv, McpTypeOK
<1>2. PICK result \in {"output", "timeout"} :
        call' = [call EXCEPT ![c].st = "done", ![c].files = {}, ![c].result = result]
  BY DEF EndExec
<1> DEFINE r == [call[c] EXCEPT !.st = "done", !.files = {}, !.result = result]
<1>3. r \in ToolCall
  BY Labels DEF McpInv, McpTypeOK, ToolCall
<1>4. call' = [call EXCEPT ![c] = r]
  BY <1>2 DEF McpInv, McpTypeOK
<1>5. /\ r.tool = call[c].tool /\ r.name = call[c].name /\ r.env = call[c].env
      /\ r.result = result /\ r.st = "done"
  BY DEF McpInv, McpTypeOK, ToolCall
<1> HIDE DEF r
<1>6. call' \in [Calls -> ToolCall] /\ call'[c] = r /\ \A d \in Calls \ {c} : call'[d] = call[d]
  BY <1>3, <1>4, Replaced DEF McpInv, McpTypeOK
<1>7. \A k \in DOMAIN call[c].env :
        k \in Profile /\ in_exec(k) /\ call[c].env[k] \in Nat /\ mcp.cache[k] = call[c].env[k]
  BY DEF McpInv, AnswerInv
<1> QED BY <1>1, <1>5, <1>6, <1>7, LocalKeeps

(* A value that changes at its provider is not in the cache yet. *)
LEMMA RotateKeeps ==
  ASSUME McpInv, Rotate
  PROVE  McpInv'
<1>1. PICK k \in Profile : mcp' = [mcp EXCEPT !.now[k] = @ + 1] /\ call' = call
  BY DEF Rotate
<1>2. mcp' \in Server /\ mcp'.cell = mcp.cell /\ mcp'.cache = mcp.cache
  BY <1>1 DEF McpInv, McpTypeOK, Server, Profile
<1> QED BY <1>1, <1>2 DEF McpInv, McpTypeOK, CellInv, AnswerInv, SingleInv

LEMMA McpNextKeeps ==
  ASSUME McpInv, [McpNext]_mcpVars
  PROVE  McpInv'
<1>1. CASE UNCHANGED mcpVars
  BY <1>1 DEF mcpVars, McpInv, McpTypeOK, CellInv, AnswerInv, SingleInv
<1>2. CASE Rotate
  BY <1>2, RotateKeeps
<1>3. ASSUME NEW c \in Calls, CallTool(c) \/ CallStep(c)
      PROVE  McpInv'
  BY <1>3, CallToolKeeps, EnterCellKeeps, FillCellKeeps, GetSecretKeeps, ReadSingleKeeps,
     StoreSingleKeeps, StartExecKeeps, EndExecKeeps DEF CallStep
<1> QED BY <1>1, <1>2, <1>3 DEF McpNext

(* All answers are what the cache holds, and it holds one value for a secret. *)
LEMMA McpInvSound == McpInv => McpSound
<1> SUFFICES ASSUME McpInv PROVE McpSound
  OBVIOUS
<1> DEFINE answers(x) ==
        IF call[x].result \in {"value", "novalue"} THEN {<<call[x].name, call[x].got>>}
        ELSE {<<k, call[x].env[k]>> : k \in DOMAIN call[x].env}
<1>1. \A c \in Calls : \A a \in answers(c) : a[2] = mcp.cache[a[1]]
  BY DEF McpInv, AnswerInv
<1>2. SameAnswer
  BY <1>1 DEF SameAnswer
<1>3. \A c \in Calls : \A k \in call[c].inherited \cap Profile : in_exec(k)
  BY DEF McpInv, McpTypeOK, ToolCall, Deferred
<1>4. ExecSecretsOnly
  BY <1>3 DEF McpInv, AnswerInv, SingleInv, ExecSecretsOnly
<1> QED BY <1>2, <1>4 DEF McpSound

(* Calls of the MCP server that run at the same time get one answer for a secret, *)
(* from get_secret and in the environment of a command, and commands get only the *)
(* secrets that are for commands: any number of calls, secrets and changes.       *)
THEOREM CallsAgree == Spec => []McpSound
<1>1. Init => McpInv
  BY McpStarts DEF Init
<1>2. McpInv /\ [Next]_vars => McpInv'
  <2>1. [Next]_vars => [McpNext]_mcpVars
    BY DEF Next, vars
  <2> QED BY <2>1, McpNextKeeps
<1> QED BY <1>1, <1>2, McpInvSound, PTL DEF Spec

--------------------------------------------------------------------------------
(* The shell hook. *)

HookStates == {"off", "prompt", "load", "record", "done"}

Configs == SUBSET (ConfigFiles \X (1..MaxEdits))

Basis == {<<>>} \cup (Configs \X {0, 1})

ShellState ==
  [on : BOOLEAN, dir : Dirs, vars : HookValues, session : HookSession \cup {NoSession}]

HookState ==
  [st : HookStates, loaded : HookValues, temp : HookNames, retry : BOOLEAN, basis : Basis,
   changed : BOOLEAN]

WorldState ==
  [mtime : [ConfigFiles -> 0..MaxEdits], fnoxVars : {0, 1}, files : SUBSET FileIds,
   left : SUBSET FileIds, gone : SUBSET FileIds, now : [DOMAIN HookSecrets -> Nat], events : Nat]

HookTypeOK == shell \in ShellState /\ hook \in HookState /\ world \in WorldState

(* The secrets that some versions of config files give a shell with FNOX_ variables v. *)
GivenBy(configs, v) ==
  {k \in UNION {Configured[p[1]][p[2]][v] : p \in configs} : HookSecrets[k].mode = "all"}

FileVars(given) == {k \in DOMAIN given : given[k].file}
FilesOf(given) == {given[k].n : k \in FileVars(given)}

(* The files of a session are those of its variables. *)
Named(given, temp) == DOMAIN temp = FileVars(given) /\ \A k \in DOMAIN temp : given[k].n = temp[k]

(* The variables are the ones of these config files, all of them unless one is tried again. *)
Given(given, configs, v, retry) ==
  DOMAIN given \subseteq GivenBy(configs, v) /\ (~retry => DOMAIN given = GivenBy(configs, v))

(* The session is true about the shell: the changes are computed from it. *)
SessionInv ==
  /\ shell.session = NoSession => DOMAIN shell.vars = {}
  /\ shell.session # NoSession =>
       /\ shell.vars = shell.session.hashes
       /\ Named(shell.vars, shell.session.temp)
       /\ ~shell.session.raced =>
            Given(shell.vars, shell.session.configs, shell.session.fnoxVars, shell.session.retry)

LoadInv ==
  hook.st = "record" =>
    /\ Named(hook.loaded, hook.temp)
    /\ Given(hook.loaded, hook.basis[1], world.fnoxVars, hook.retry)

DoneInv ==
  hook.st = "done" /\ ~hook.changed /\ shell.session # NoSession =>
    shell.session.configs = collect_config_files /\ shell.session.fnoxVars = world.fnoxVars

(* Between the load and the end of the hook there are two sets of files. *)
FilesInv ==
  IF hook.st = "record"
  THEN /\ world.files = ((FilesOf(shell.vars) \ world.gone) \cup world.left)
                          \cup {hook.temp[k] : k \in DOMAIN hook.temp}
       /\ (FilesOf(shell.vars) \cup world.left) \cap {hook.temp[k] : k \in DOMAIN hook.temp} = {}
  ELSE world.files = (FilesOf(shell.vars) \ world.gone) \cup world.left

(* Files that could not be removed belong to no session any more. *)
LeftInv ==
  world.left \cap FilesOf(shell.vars) = {} /\ Cardinality(world.left) <= MaxLeft

HookInv == HookTypeOK /\ SessionInv /\ LoadInv /\ DoneInv /\ FilesInv /\ LeftInv

LEMMA States ==
  "off" \in HookStates /\ "prompt" \in HookStates /\ "load" \in HookStates
  /\ "record" \in HookStates /\ "done" \in HookStates
BY DEF HookStates

LEMMA EmptyValues ==
  /\ <<>> \in HookValues /\ <<>> \in HookNames /\ <<>> \in Basis
  /\ DOMAIN <<>> = {} /\ FileVars(<<>>) = {} /\ FilesOf(<<>>) = {}
<1>1. <<>> \in [{} -> [file : BOOLEAN, n : Nat \cup FileIds]] /\ {} \in SUBSET DOMAIN HookSecrets
  OBVIOUS
<1>2. <<>> \in [{} -> FileIds] /\ {} \in SUBSET FileSecrets
  OBVIOUS
<1>3. DOMAIN <<>> = {}
  OBVIOUS
<1> QED BY <1>1, <1>2, <1>3 DEF HookValues, HookNames, Basis, FileVars, FilesOf

LEMMA NoHookTyped == NoHook \in HookState /\ NoHook.st = "prompt" /\ NoHook.changed = FALSE
BY EmptyValues, States DEF NoHook, HookState

LEMMA HookStarts == HookInit \/ HookIdle => HookInv
<1> SUFFICES ASSUME HookInit \/ HookIdle PROVE HookInv
  OBVIOUS
<1>1. /\ shell.on \in BOOLEAN /\ shell.vars = <<>> /\ shell.session = NoSession
      /\ shell.dir = (CHOOSE d \in Dirs : TRUE)
      /\ shell = [on |-> shell.on, dir |-> shell.dir, vars |-> <<>>, session |-> NoSession]
  <2> DEFINE first == CHOOSE d \in Dirs : TRUE
  <2>1. PICK on \in BOOLEAN : shell = [on |-> on, dir |-> first, vars |-> <<>>, session |-> NoSession]
    BY DEF HookInit, HookIdle
  <2> HIDE DEF first
  <2>2. shell.on = on /\ shell.vars = <<>> /\ shell.session = NoSession /\ shell.dir = first
    BY <2>1
  <2> QED BY <2>1, <2>2 DEF first
<1>2. shell \in ShellState
  BY <1>1, EmptyValues, HookAssumption DEF ShellState
<1>3. hook \in HookState /\ hook.st \in {"prompt", "off"}
  <2>1. hook = NoHook \/ hook = [NoHook EXCEPT !.st = "off"]
    BY DEF HookInit, HookIdle
  <2> QED BY <2>1, NoHookTyped, States DEF HookState
<1>4. world \in WorldState /\ world.files = {} /\ world.left = {}
  <2>1. CASE HookInit
    <3>1. world \in [mtime : [ConfigFiles -> {0, 1}], fnoxVars : {0}, files : {{}}, left : {{}},
                     gone : {{}}, now : {[k \in DOMAIN HookSecrets |-> 1]}, events : {0}]
      BY <2>1 DEF HookInit
    <3>2. /\ world.mtime \in [ConfigFiles -> 0..MaxEdits]
          /\ world.now \in [DOMAIN HookSecrets -> Nat]
      <4>1. 0 \in 0..MaxEdits /\ 1 \in 0..MaxEdits
        BY HookAssumption
      <4>2. world.mtime \in [ConfigFiles -> {0, 1}] /\ world.now = [k \in DOMAIN HookSecrets |-> 1]
        BY <3>1
      <4> QED BY <4>1, <4>2
    <3> QED BY <3>1, <3>2 DEF WorldState
  <2>2. CASE HookIdle
    BY <2>2, HookAssumption DEF HookIdle, WorldState
  <2> QED BY <2>1, <2>2
<1>5. FilesOf(shell.vars) = {} /\ DOMAIN shell.vars = {}
  BY <1>1, EmptyValues
<1>6. LeftInv
  BY <1>4, HookAssumption, FS_EmptySet DEF LeftInv
<1> QED BY <1>1, <1>2, <1>3, <1>4, <1>5, <1>6
        DEF HookInv, HookTypeOK, SessionInv, LoadInv, DoneInv, FilesInv

(* What is found is a set of versions of config files, and gives what a shell should have. *)
LEMMA Collected ==
  ASSUME HookTypeOK
  PROVE  /\ collect_config_files \in Configs
         /\ InShell = GivenBy(collect_config_files, world.fnoxVars)
         /\ InShell \subseteq DOMAIN HookSecrets
<1> DEFINE here == ConfigsHere
           v == world.fnoxVars
<1>0. v \in {0, 1}
  BY DEF HookTypeOK, WorldState
<1>1. \A f \in here : f \in ConfigFiles /\ world.mtime[f] \in 1..MaxEdits
  BY <1>0, HookAssumption DEF HookTypeOK, ShellState, WorldState, ConfigFiles, ConfigsHere
<1>2. collect_config_files \in Configs
  BY <1>1 DEF collect_config_files, Configs
<1>3. InShell = GivenBy(collect_config_files, v)
  <2>1. UNION {Configured[f][world.mtime[f]][v] : f \in here}
          = UNION {Configured[p[1]][p[2]][v] : p \in collect_config_files}
    <3>1. \A k : (\E f \in here : k \in Configured[f][world.mtime[f]][v])
                 <=> \E p \in collect_config_files : k \in Configured[p[1]][p[2]][v]
      <4>1. ASSUME NEW f \in here
            PROVE  \E p \in collect_config_files : p[1] = f /\ p[2] = world.mtime[f]
        <5>1. <<f, world.mtime[f]>> \in collect_config_files
          BY DEF collect_config_files
        <5> QED BY <5>1
      <4>2. ASSUME NEW p \in collect_config_files
            PROVE  p[1] \in here /\ p[2] = world.mtime[p[1]]
        BY DEF collect_config_files
      <4> QED BY <4>1, <4>2
    <3> HIDE DEF here
    <3> QED BY <3>1
  <2> QED BY <2>1 DEF InShell, GivenBy
<1>4. InShell \subseteq DOMAIN HookSecrets
  BY <1>0, <1>1, HookAssumption DEF InShell
<1> QED BY <1>2, <1>3, <1>4

(* What is found depends on the directory, the FNOX_ variables and the files' times. *)
LEMMA SameConfigs ==
  ASSUME shell'.dir = shell.dir, world'.mtime = world.mtime, world'.fnoxVars = world.fnoxVars
  PROVE  collect_config_files' = collect_config_files
BY DEF collect_config_files, ConfigsHere

LEMMA BeginHookKeeps ==
  ASSUME HookInv, BeginHook
  PROVE  HookInv'
<1>1. /\ hook.st = "prompt" /\ shell' = shell /\ world' = world
      /\ \/ hook' = [hook EXCEPT !.st = "done", !.changed = FALSE] /\ should_exit_early
         \/ hook' = [hook EXCEPT !.st = "load", !.changed = FALSE]
  BY DEF BeginHook
<1>2. /\ hook' \in HookState /\ hook'.st \in {"done", "load"}
      /\ hook'.st = "done" => should_exit_early
  BY <1>1, States DEF HookInv, HookTypeOK, HookState
<1>3. HookTypeOK' /\ SessionInv' /\ LoadInv' /\ FilesInv' /\ LeftInv'
  BY <1>1, <1>2 DEF HookInv, HookTypeOK, SessionInv, LoadInv, FilesInv, LeftInv
<1>4. DoneInv'
  BY <1>1, <1>2, SameConfigs DEF DoneInv, should_exit_early
<1> QED BY <1>3, <1>4 DEF HookInv

LEMMA PromptKeeps ==
  ASSUME HookInv, Prompt
  PROVE  HookInv'
<1>1. hook.st = "done" /\ hook' = [NoHook EXCEPT !.st = "prompt"] /\ shell' = shell /\ world' = world
  BY DEF Prompt
<1>2. hook' \in HookState /\ hook'.st = "prompt"
  BY <1>1, NoHookTyped, States DEF HookState
<1> QED BY <1>1, <1>2 DEF HookInv, HookTypeOK, SessionInv, LoadInv, DoneInv, FilesInv, LeftInv

LEMMA ActivateKeeps ==
  ASSUME HookInv, Activate
  PROVE  HookInv'
<1>1. hook.st = "prompt" /\ shell' = [shell EXCEPT !.on = TRUE] /\ hook' = hook /\ world' = world
  BY DEF Activate
<1>2. shell' \in ShellState /\ shell'.vars = shell.vars /\ shell'.session = shell.session
  BY <1>1 DEF HookInv, HookTypeOK, ShellState
<1> QED BY <1>1, <1>2 DEF HookInv, HookTypeOK, SessionInv, LoadInv, DoneInv, FilesInv, LeftInv

(* Another directory, other FNOX_ variables: the session is not asked about them yet. *)
LEMMA UserActsKeeps ==
  ASSUME HookInv, UserActs
  PROVE  HookInv'
<1>1. hook.st = "prompt" /\ hook' = hook
  BY DEF UserActs
<1>2. /\ shell' \in ShellState /\ shell'.vars = shell.vars /\ shell'.session = shell.session
      /\ world' \in WorldState /\ world'.files = world.files
      /\ world'.left = world.left /\ world'.gone = world.gone
  <2>1. CASE \E d \in Dirs \ {shell.dir} :
               shell' = [shell EXCEPT !.dir = d] /\ world' = [world EXCEPT !.events = @ + 1]
    BY <2>1 DEF HookInv, HookTypeOK, ShellState, WorldState
  <2>2. CASE world' = [world EXCEPT !.fnoxVars = 1 - @, !.events = @ + 1] /\ shell' = shell
    <3>1. world.fnoxVars \in {0, 1} /\ world.events \in Nat
      BY DEF HookInv, HookTypeOK, WorldState
    <3>2. 1 - world.fnoxVars \in {0, 1} /\ world.events + 1 \in Nat
      BY <3>1
    <3> QED BY <2>2, <3>2 DEF HookInv, HookTypeOK, WorldState
  <2> QED BY <2>1, <2>2 DEF UserActs
<1> QED BY <1>1, <1>2 DEF HookInv, HookTypeOK, SessionInv, LoadInv, DoneInv, FilesInv, LeftInv

LEMMA ConfigEditedKeeps ==
  ASSUME HookInv, ConfigEdited
  PROVE  HookInv'
<1>1. /\ shell' = shell /\ hook' = [hook EXCEPT !.changed = TRUE]
      /\ \E f \in ConfigFiles : \E m \in {0, world.mtime[f] + 1} :
           m <= MaxEdits /\ world' = [world EXCEPT !.mtime[f] = m, !.events = @ + 1]
  BY DEF ConfigEdited
<1>2. /\ hook' \in HookState /\ hook'.st = hook.st /\ hook'.changed /\ hook'.loaded = hook.loaded
      /\ hook'.temp = hook.temp /\ hook'.basis = hook.basis /\ hook'.retry = hook.retry
  BY <1>1 DEF HookInv, HookTypeOK, HookState
<1>3. /\ world' \in WorldState /\ world'.files = world.files /\ world'.fnoxVars = world.fnoxVars
      /\ world'.left = world.left /\ world'.gone = world.gone
  <2>0. PICK f \in ConfigFiles : \E m \in {0, world.mtime[f] + 1} :
          m <= MaxEdits /\ world' = [world EXCEPT !.mtime[f] = m, !.events = @ + 1]
    BY <1>1
  <2>1. PICK m \in {0, world.mtime[f] + 1} :
          m <= MaxEdits /\ world' = [world EXCEPT !.mtime[f] = m, !.events = @ + 1]
    BY <2>0
  <2>2. world.mtime[f] \in 0..MaxEdits /\ world.events + 1 \in Nat
    BY DEF HookInv, HookTypeOK, WorldState
  <2>3. m \in 0..MaxEdits
    BY <2>1, <2>2, HookAssumption
  <2> QED BY <2>1, <2>2, <2>3 DEF HookInv, HookTypeOK, WorldState
<1> QED BY <1>1, <1>2, <1>3 DEF HookInv, HookTypeOK, SessionInv, LoadInv, DoneInv, FilesInv, LeftInv

LEMMA ValueChangedKeeps ==
  ASSUME HookInv, ValueChanged
  PROVE  HookInv'
<1>1. PICK k \in DOMAIN HookSecrets : world' = [world EXCEPT !.now[k] = @ + 1, !.events = @ + 1]
  BY DEF ValueChanged
<1>2. shell' = shell /\ hook' = hook
  BY DEF ValueChanged
<1>3. /\ world' \in WorldState /\ world'.files = world.files /\ world'.mtime = world.mtime
      /\ world'.fnoxVars = world.fnoxVars /\ world'.left = world.left /\ world'.gone = world.gone
  <2> DEFINE now == [world.now EXCEPT ![k] = @ + 1]
  <2>1. now \in [DOMAIN HookSecrets -> Nat] /\ world.events + 1 \in Nat
    BY DEF HookInv, HookTypeOK, WorldState
  <2>2. world' = [world EXCEPT !.now = now, !.events = @ + 1]
    BY <1>1 DEF HookInv, HookTypeOK, WorldState
  <2> HIDE DEF now
  <2> QED BY <2>1, <2>2 DEF HookInv, HookTypeOK, WorldState
<1> QED BY <1>2, <1>3, SameConfigs
        DEF HookInv, HookTypeOK, SessionInv, LoadInv, DoneInv, FilesInv, LeftInv

LEMMA OwnFilesAre ==
  ASSUME HookInv, shell.session # NoSession
  PROVE  OwnFiles = FilesOf(shell.vars) /\ OwnFiles \subseteq FileIds
<1>1. shell.session.temp \in HookNames
  BY DEF HookInv, HookTypeOK, ShellState, HookSession
<1>2. \A k \in DOMAIN shell.session.temp : shell.session.temp[k] \in FileIds
  BY <1>1 DEF HookNames
<1>3. OwnFiles = FilesOf(shell.vars)
  BY DEF OwnFiles, HookInv, SessionInv, Named, FilesOf
<1> QED BY <1>2, <1>3 DEF OwnFiles

(* The session's files and its variables go with it. *)
LEMMA DeactivateKeeps ==
  ASSUME HookInv, Deactivate
  PROVE  HookInv'
<1>1. /\ hook.st = "prompt" /\ shell.session # NoSession /\ hook' = hook
      /\ world' = [world EXCEPT !.files = @ \ OwnFiles, !.gone = {}]
      /\ shell' = [shell EXCEPT !.on = FALSE, !.session = NoSession,
                     !.vars = [k \in DOMAIN @ \ DOMAIN shell.session.hashes |-> @[k]]]
  BY DEF Deactivate
<1>2. DOMAIN shell.vars \ DOMAIN shell.session.hashes = {}
  BY <1>1 DEF HookInv, SessionInv
<1> DEFINE none == [k \in DOMAIN shell.vars \ DOMAIN shell.session.hashes |-> shell.vars[k]]
<1>3. none = <<>>
  BY <1>2
<1>4. none \in HookValues /\ DOMAIN none = {} /\ FilesOf(none) = {}
  BY <1>3, EmptyValues
<1>5. shell' = [shell EXCEPT !.on = FALSE, !.session = NoSession, !.vars = none]
  BY <1>1 DEF HookInv, HookTypeOK, ShellState
<1> HIDE DEF none
<1>6. shell' \in ShellState /\ shell'.vars = none /\ shell'.session = NoSession
  BY <1>4, <1>5 DEF HookInv, HookTypeOK, ShellState
<1>7. /\ world' \in WorldState /\ world'.files = world.left
      /\ world'.left = world.left /\ world'.gone = {}
  <2>1. OwnFiles = FilesOf(shell.vars)
    BY <1>1, OwnFilesAre
  <2>2. world.files \ OwnFiles = world.left
    BY <1>1, <2>1 DEF HookInv, FilesInv, LeftInv
  <2> QED BY <1>1, <2>2 DEF HookInv, HookTypeOK, WorldState
<1> QED BY <1>1, <1>4, <1>6, <1>7 DEF HookInv, HookTypeOK, SessionInv, LoadInv, DoneInv, FilesInv, LeftInv

(* Some of them are gone, and the shell is as it was. *)
LEMMA DeactivateFailsKeeps ==
  ASSUME HookInv, DeactivateFails
  PROVE  HookInv'
<1>1. /\ hook.st = "prompt" /\ shell.session # NoSession /\ hook' = hook /\ shell' = shell
      /\ \E stuck \in SUBSET (OwnFiles \cap world.files) :
           world' = [world EXCEPT !.files = @ \ (OwnFiles \ stuck), !.gone = OwnFiles \ stuck]
  BY DEF DeactivateFails
<1>2. PICK stuck \in SUBSET (OwnFiles \cap world.files) :
        world' = [world EXCEPT !.files = @ \ (OwnFiles \ stuck), !.gone = OwnFiles \ stuck]
  BY <1>1
<1>3. OwnFiles = FilesOf(shell.vars) /\ OwnFiles \subseteq FileIds
  BY <1>1, OwnFilesAre
<1>4. /\ world' \in WorldState /\ world'.files = world.files \ (OwnFiles \ stuck)
      /\ world'.gone = OwnFiles \ stuck /\ world'.left = world.left
      /\ world'.mtime = world.mtime /\ world'.fnoxVars = world.fnoxVars
  BY <1>2, <1>3 DEF HookInv, HookTypeOK, WorldState
<1>5. FilesInv' /\ LeftInv'
  BY <1>1, <1>3, <1>4 DEF HookInv, FilesInv, LeftInv
<1> QED BY <1>1, <1>4, <1>5, SameConfigs DEF HookInv, HookTypeOK, SessionInv, LoadInv, DoneInv

(* There are names for the new files that no file has. *)
LEMMA FreshNames ==
  ASSUME HookInv, hook.st = "load", NEW inFiles \in SUBSET FileSecrets
  PROVE  /\ UsedIds = FilesOf(shell.vars) \cup world.left
         /\ \E o \in [inFiles -> FileIds \ UsedIds] : \A j, k \in inFiles : o[j] = o[k] => j = k
<1> DEFINE old == FileVars(shell.vars)
           used == [k \in old |-> shell.vars[k].n]
<1>1. UsedIds = FilesOf(shell.vars) \cup world.left
  BY DEF UsedIds, HookInv, FilesInv, FilesOf, FileVars
<1>2. old \in SUBSET FileSecrets /\ used \in [old -> FileIds]
  <2>1. CASE shell.session = NoSession
    <3>1. old = {}
      BY <2>1 DEF HookInv, SessionInv, FileVars
    <3> QED BY <3>1
  <2>2. CASE shell.session # NoSession
    <3>1. shell.session.temp \in HookNames
      BY <2>2 DEF HookInv, HookTypeOK, ShellState, HookSession
    <3>2. /\ DOMAIN shell.session.temp \in SUBSET FileSecrets
          /\ \A k \in DOMAIN shell.session.temp : shell.session.temp[k] \in FileIds
      BY <3>1 DEF HookNames
    <3>3. DOMAIN shell.session.temp = old /\ \A k \in old : shell.vars[k].n = shell.session.temp[k]
      BY <2>2 DEF HookInv, SessionInv, Named
    <3> QED BY <3>2, <3>3
  <2> QED BY <2>1, <2>2
<1>3. {used[k] : k \in old} = FilesOf(shell.vars)
  BY DEF FilesOf
<1> HIDE DEF old, used
<1>4. \E o \in [inFiles -> FileIds \ ({used[k] : k \in old} \cup world.left)] :
        \A j, k \in inFiles : o[j] = o[k] => j = k
  <2>1. world.left \in SUBSET FileIds /\ Cardinality(world.left) <= MaxLeft
    BY DEF HookInv, HookTypeOK, WorldState, LeftInv
  <2>2. \A new \in SUBSET FileSecrets, f \in [old -> FileIds], left \in SUBSET FileIds :
          Cardinality(left) <= MaxLeft =>
            \E o \in [new -> FileIds \ ({f[k] : k \in old} \cup left)] : \A j, k \in new : o[j] = o[k] => j = k
    BY <1>2, HookAssumption
  <2>3. \A left \in SUBSET FileIds : Cardinality(left) <= MaxLeft =>
            \E o \in [inFiles -> FileIds \ ({used[k] : k \in old} \cup left)] :
              \A j, k \in inFiles : o[j] = o[k] => j = k
    BY <1>2, <2>2
  <2> QED BY <2>1, <2>3
<1> QED BY <1>1, <1>3, <1>4

(* load_secrets_from_config. *)
LEMMA LoadSomeKeeps ==
  ASSUME HookInv, hook.st = "load", NEW absent \in SUBSET InShell, LoadSome(absent)
  PROVE  HookInv'
<1> DEFINE keys == InShell \ absent
           inFiles == {k \in keys : HookSecrets[k].file}
           Fresh(o) == \A j, k \in inFiles : o[j] = o[k] => j = k
           temp == CHOOSE o \in [inFiles -> FileIds \ UsedIds] : Fresh(o)
           loaded == [k \in keys |-> IF k \in inFiles THEN [file |-> TRUE, n |-> temp[k]]
                                     ELSE [file |-> FALSE, n |-> world.now[k]]]
           basis == <<collect_config_files, world.fnoxVars>>
<1>1. /\ hook' = [hook EXCEPT !.st = "record", !.loaded = loaded, !.temp = temp,
                              !.retry = absent # {}, !.basis = basis]
      /\ world' = [world EXCEPT !.files = @ \cup {temp[k] : k \in inFiles}]
      /\ shell' = shell
  BY DEF LoadSome
<1>2. keys \in SUBSET DOMAIN HookSecrets /\ inFiles \in SUBSET FileSecrets
  BY Collected DEF HookInv, FileSecrets
<1>3. temp \in [inFiles -> FileIds \ UsedIds]
  <2>1. \E o \in [inFiles -> FileIds \ UsedIds] : Fresh(o)
    BY <1>2, FreshNames
  <2> HIDE DEF inFiles, Fresh
  <2> QED BY <2>1
<1> HIDE DEF temp
<1>4. temp \in HookNames /\ DOMAIN temp = inFiles /\ \A k \in inFiles : temp[k] \in FileIds \ UsedIds
  <2>1. temp \in [inFiles -> FileIds]
    BY <1>3
  <2> HIDE DEF inFiles
  <2> QED BY <1>2, <1>3, <2>1 DEF HookNames
<1>5. /\ loaded \in HookValues /\ DOMAIN loaded = keys /\ FileVars(loaded) = inFiles
      /\ \A k \in inFiles : loaded[k].n = temp[k]
  <2>1. \A k \in keys : world.now[k] \in Nat
    BY <1>2 DEF HookInv, HookTypeOK, WorldState
  <2>2. loaded \in [keys -> [file : BOOLEAN, n : Nat \cup FileIds]]
    BY <1>4, <2>1
  <2>3. DOMAIN loaded = keys /\ \A k \in keys : loaded[k].file <=> k \in inFiles
    OBVIOUS
  <2>4. FileVars(loaded) = inFiles
    BY <2>3 DEF FileVars
  <2>5. \A k \in inFiles : loaded[k].n = temp[k]
    OBVIOUS
  <2> HIDE DEF keys, loaded, inFiles
  <2> QED BY <1>2, <2>2, <2>3, <2>4, <2>5 DEF HookValues
<1>6. Given(loaded, collect_config_files, world.fnoxVars, absent # {})
  BY <1>5, Collected DEF HookInv, Given
<1>7. basis \in Basis /\ basis[1] = collect_config_files
  BY Collected DEF HookInv, HookTypeOK, WorldState, Basis
<1> HIDE DEF loaded, keys, inFiles, basis
<1>8. /\ hook' \in HookState /\ hook'.st = "record" /\ hook'.loaded = loaded /\ hook'.temp = temp
      /\ hook'.retry = (absent # {}) /\ hook'.basis = basis
  <2>1. (absent # {}) \in BOOLEAN
    OBVIOUS
  <2> QED BY <1>1, <1>4, <1>5, <1>7, <2>1, States DEF HookInv, HookTypeOK, HookState
<1>9. /\ world' \in WorldState /\ world'.files = world.files \cup {temp[k] : k \in inFiles}
      /\ world'.left = world.left /\ world'.gone = world.gone /\ world'.fnoxVars = world.fnoxVars
  BY <1>1, <1>4 DEF HookInv, HookTypeOK, WorldState
<1>10. LoadInv'
  BY <1>4, <1>5, <1>6, <1>7, <1>8, <1>9 DEF LoadInv, Named
<1>11. FilesInv' /\ LeftInv'
  <2>1. /\ world.files = (FilesOf(shell.vars) \ world.gone) \cup world.left
        /\ UsedIds = FilesOf(shell.vars) \cup world.left
    BY <1>2, FreshNames DEF HookInv, FilesInv
  <2>2. {temp[k] : k \in inFiles} \cap UsedIds = {}
    BY <1>4
  <2> QED BY <1>1, <1>4, <1>8, <1>9, <2>1, <2>2 DEF HookInv, FilesInv, LeftInv
<1> QED BY <1>1, <1>8, <1>9, <1>10, <1>11 DEF HookInv, HookTypeOK, SessionInv, DoneInv

LEMMA LoadFailsKeeps ==
  ASSUME HookInv, LoadFails
  PROVE  HookInv'
<1> DEFINE basis == <<collect_config_files, world.fnoxVars>>
<1>1. /\ hook.st = "load" /\ shell' = shell /\ world' = world
      /\ hook' = [hook EXCEPT !.st = "record", !.loaded = <<>>, !.temp = <<>>, !.retry = TRUE,
                              !.basis = basis]
  BY DEF LoadFails
<1>2. basis \in Basis
  BY Collected DEF HookInv, HookTypeOK, WorldState, Basis
<1> HIDE DEF basis
<1>3. /\ hook' \in HookState /\ hook'.st = "record" /\ hook'.loaded = <<>> /\ hook'.temp = <<>>
      /\ hook'.retry = TRUE
  BY <1>1, <1>2, EmptyValues, States DEF HookInv, HookTypeOK, HookState
<1>4. LoadInv' /\ FilesInv'
  BY <1>1, <1>3, EmptyValues DEF HookInv, LoadInv, FilesInv, Named, Given
<1> QED BY <1>1, <1>3, <1>4 DEF HookInv, HookTypeOK, SessionInv, DoneInv, LeftInv

(* The rest of hook-env: the changes make the shell's variables the ones that were loaded. *)
LEMMA RecordSessionKeeps ==
  ASSUME HookInv, RecordSession
  PROVE  HookInv'
<1> DEFINE old == IF shell.session = NoSession THEN [hashes |-> <<>>, temp |-> <<>>]
                  ELSE [hashes |-> shell.session.hashes, temp |-> shell.session.temp]
           gone == cleanup_old_temp_files(old.temp, hook.temp)
           raced == hook.basis[1] # collect_config_files
           session == [configs |-> collect_config_files, fnoxVars |-> world.fnoxVars,
                       hashes |-> hook.loaded, temp |-> hook.temp, retry |-> hook.retry, raced |-> raced]
           vars1 == [k \in Added(old.hashes, hook.loaded)
                             \cup (DOMAIN shell.vars \ Removed(old.hashes, hook.loaded)) |->
                       IF k \in Added(old.hashes, hook.loaded) THEN hook.loaded[k] ELSE shell.vars[k]]
<1>1. /\ hook.st = "record" /\ hook' = [hook EXCEPT !.st = "done"]
      /\ \E stuck \in SUBSET (gone \cap world.files) :
           /\ Cardinality(world.left \cup stuck) <= MaxLeft
           /\ world' = [world EXCEPT !.files = @ \ (gone \ stuck), !.left = @ \cup stuck, !.gone = {}]
      /\ shell' = [shell EXCEPT !.vars = vars1, !.session = session]
  BY DEF RecordSession, HookInv, HookTypeOK, ShellState
<1> HIDE DEF gone
<1>s. PICK stuck \in SUBSET (gone \cap world.files) :
        /\ Cardinality(world.left \cup stuck) <= MaxLeft
        /\ world' = [world EXCEPT !.files = @ \ (gone \ stuck), !.left = @ \cup stuck, !.gone = {}]
  BY <1>1
<1>2. hook.loaded \in HookValues /\ hook.temp \in HookNames /\ hook.retry \in BOOLEAN
  BY DEF HookInv, HookTypeOK, HookState
<1>3. DOMAIN old.hashes = DOMAIN shell.vars /\ \A k \in DOMAIN shell.vars : old.hashes[k] = shell.vars[k]
  <2>1. CASE shell.session = NoSession
    <3>1. old.hashes = <<>> /\ DOMAIN shell.vars = {}
      BY <2>1 DEF HookInv, SessionInv
    <3> QED BY <3>1, EmptyValues
  <2>2. CASE shell.session # NoSession
    BY <2>2 DEF HookInv, SessionInv
  <2> QED BY <2>1, <2>2
<1>4. Named(shell.vars, old.temp)
  BY EmptyValues DEF HookInv, SessionInv, Named, FileVars
<1> HIDE DEF old
<1>5. vars1 = hook.loaded
  <2> DEFINE hashes == old.hashes
             loaded == hook.loaded
             env == shell.vars
             names == Added(hashes, loaded)
  <2>1. DOMAIN hashes = DOMAIN env /\ \A k \in DOMAIN env : hashes[k] = env[k]
    BY <1>3
  <2>2. loaded \in HookValues
    BY <1>2
  <2> HIDE DEF hashes, loaded, env
  <2>3. /\ names \cup (DOMAIN env \ Removed(hashes, loaded)) = DOMAIN loaded
        /\ \A k \in DOMAIN loaded \ names : env[k] = loaded[k]
    BY <2>1, <2>2 DEF Added, Removed
  <2>4. vars1 = [k \in DOMAIN loaded |-> IF k \in names THEN loaded[k] ELSE env[k]]
    BY <2>3 DEF hashes, loaded, env
  <2>5. loaded = [k \in DOMAIN loaded |-> loaded[k]]
    BY <2>2 DEF HookValues
  <2> HIDE DEF names
  <2> QED BY <2>3, <2>4, <2>5 DEF loaded
<1> HIDE DEF vars1
<1>6. session \in HookSession
  <2>1. raced \in BOOLEAN
    OBVIOUS
  <2>2. world.fnoxVars \in {0, 1} /\ collect_config_files \in SUBSET (ConfigFiles \X (1..MaxEdits))
    BY Collected DEF HookInv, HookTypeOK, WorldState, Configs
  <2> HIDE DEF raced
  <2> QED BY <1>2, <2>1, <2>2 DEF HookSession
<1>7. /\ session.hashes = hook.loaded /\ session.temp = hook.temp /\ session.retry = hook.retry
      /\ session.configs = collect_config_files /\ session.fnoxVars = world.fnoxVars
      /\ ~session.raced => hook.basis[1] = collect_config_files
  OBVIOUS
<1> HIDE DEF session
<1>8. session # NoSession
  BY <1>6, HookAssumption
<1>9. /\ shell' \in ShellState /\ shell'.vars = hook.loaded /\ shell'.session = session
      /\ shell'.dir = shell.dir
  BY <1>1, <1>2, <1>5, <1>6 DEF HookInv, HookTypeOK, ShellState
<1>10. hook' \in HookState /\ hook'.st = "done"
  BY <1>1, States DEF HookInv, HookTypeOK, HookState
<1>11. /\ Named(hook.loaded, hook.temp)
       /\ Given(hook.loaded, hook.basis[1], world.fnoxVars, hook.retry)
       /\ world.files = ((FilesOf(shell.vars) \ world.gone) \cup world.left)
                          \cup {hook.temp[k] : k \in DOMAIN hook.temp}
       /\ (FilesOf(shell.vars) \cup world.left) \cap {hook.temp[k] : k \in DOMAIN hook.temp} = {}
  BY <1>1 DEF HookInv, LoadInv, FilesInv
<1>12. SessionInv'
  BY <1>7, <1>8, <1>9, <1>11 DEF SessionInv
<1>13. gone = FilesOf(shell.vars)
  <2>1. \A k \in DOMAIN old.temp : old.temp[k] \in FilesOf(shell.vars)
    BY <1>4 DEF Named, FilesOf
  <2>2. \A k \in DOMAIN old.temp : k \notin DOMAIN hook.temp \/ hook.temp[k] # old.temp[k]
    BY <1>11, <2>1
  <2>3. gone = {old.temp[k] : k \in DOMAIN old.temp}
    BY <2>2 DEF cleanup_old_temp_files, gone
  <2> QED BY <1>4, <2>3 DEF Named, FilesOf
<1>14. /\ world' \in WorldState /\ world'.files = world.files \ (gone \ stuck)
       /\ world'.left = world.left \cup stuck /\ world'.gone = {}
       /\ world'.mtime = world.mtime /\ world'.fnoxVars = world.fnoxVars
  BY <1>s DEF HookInv, HookTypeOK, WorldState
<1>15. world'.files = FilesOf(shell'.vars) \cup world'.left /\ LeftInv'
  <2>1. FilesOf(hook.loaded) = {hook.temp[k] : k \in DOMAIN hook.temp}
    BY <1>11 DEF Named, FilesOf
  <2>2. world.left \cap FilesOf(shell.vars) = {}
    BY DEF HookInv, LeftInv
  <2>3. world'.left \cap FilesOf(shell'.vars) = {} /\ Cardinality(world'.left) <= MaxLeft
    BY <1>s, <1>9, <1>11, <1>13, <1>14, <2>1
  <2> QED BY <1>9, <1>11, <1>13, <1>14, <2>1, <2>2, <2>3 DEF LeftInv
<1>16. DoneInv'
  BY <1>7, <1>9, <1>14, SameConfigs DEF DoneInv
<1> QED BY <1>9, <1>10, <1>12, <1>14, <1>15, <1>16 DEF HookInv, HookTypeOK, LoadInv, FilesInv

LEMMA HookNextKeeps ==
  ASSUME HookInv, [HookNext]_hookVars
  PROVE  HookInv'
<1>1. CASE UNCHANGED hookVars
  <2>1. shell' = shell /\ hook' = hook /\ world' = world
    BY <1>1 DEF hookVars
  <2> QED BY <2>1, SameConfigs DEF HookInv, HookTypeOK, SessionInv, LoadInv, DoneInv, FilesInv, LeftInv
<1>2. CASE LoadSecrets
  BY <1>2, LoadSomeKeeps DEF LoadSecrets
<1> QED BY <1>1, <1>2, BeginHookKeeps, LoadFailsKeeps, RecordSessionKeeps, DeactivateKeeps,
           DeactivateFailsKeeps, ActivateKeeps, PromptKeeps, UserActsKeeps, ConfigEditedKeeps, ValueChangedKeeps
        DEF HookNext

LEMMA HookInvSound == HookInv => HookFresh /\ HookFiles
<1> SUFFICES ASSUME HookInv PROVE HookFresh /\ HookFiles
  OBVIOUS
<1>1. HookFresh
  BY Collected DEF HookInv, SessionInv, DoneInv, Given, HookFresh
<1>2. HookFiles
  BY DEF HookInv, FilesInv, FilesOf, FileVars, HookFiles
<1> QED BY <1>1, <1>2

LEMMA HookKept == Spec => []HookInv
<1>1. Init => HookInv
  BY HookStarts DEF Init
<1>2. HookInv /\ [Next]_vars => HookInv'
  <2>1. [Next]_vars => [HookNext]_hookVars
    BY DEF Next, vars
  <2> QED BY <2>1, HookNextKeeps
<1> QED BY <1>1, <1>2, PTL DEF Spec

(* At the prompt the shell has exactly the variables that the config files visible  *)
(* from its directory give it, whatever directories it was in before, although only *)
(* the changes from the session are told to the shell.                              *)
THEOREM PromptIsFresh == Spec => []HookFresh
BY HookKept, HookInvSound, PTL

(* The files on disk are the ones that the shell's variables name: none is left when *)
(* a directory is left or the hook is deactivated, and none is missing.              *)
THEOREM PromptFilesBracketed == Spec => []HookFiles
BY HookKept, HookInvSound, PTL

--------------------------------------------------------------------------------
(* The command of `fnox exec`: its environment. *)

(* What is chosen is in scope and passes the filter; what is asked for is chosen or asked *)
(* of a lease.                                                                            *)
LEMMA SelectRight ==
  ASSUME NEW n \in DOMAIN ExecInputs, NEW i, i = ExecInputs[n], NEW sel, sel = select(i)
  PROVE  /\ sel.roots \subseteq InScope(i)
         /\ \A k \in sel.roots : FilterAllows(i.roots, k)
         /\ i.roots.kind # "keys" => sel.requested = {}
         /\ i.roots.kind = "keys" => sel.roots \subseteq sel.requested
         /\ i.leases = <<>> => sel.leases = {}
<1>1. /\ i.roots.kind \in {"scope", "filter", "keys"}
      /\ i.roots.kind # "filter" => i.roots.only = {} /\ i.roots.except = {}
  BY ExecAssumption
<1>2. i.leases = <<>> => Range(i.leases) = {}
  BY DEF Range
<1>3. CASE i.roots.kind = "scope"
  <2>1. sel = [ok |-> TRUE, roots |-> InScope(i), requested |-> {},
               leases |-> IF i.scope = "exec" THEN {l.name : l \in Range(i.leases)} ELSE {}]
    BY <1>3 DEF select
  <2> QED BY <1>1, <1>2, <1>3, <2>1 DEF FilterAllows, Matches
<1>4. CASE i.roots.kind = "filter"
  <2>1. sel = select_filtered(i)
    BY <1>4 DEF select
  <2> QED BY <1>2, <1>4, <2>1 DEF select_filtered
<1>5. CASE i.roots.kind = "keys"
  <2>1. sel = SelectKeys(i)
    BY <1>5 DEF select
  <2> QED BY <1>1, <1>2, <1>5, <2>1 DEF SelectKeys, FilterAllows, Matches
<1> QED BY <1>1, <1>3, <1>4, <1>5

(* The plan that was made of these. *)
Plans(i, sel, values, creds, plan) ==
  /\ sel = select(i) /\ (i.replace => ReplaceAllowed(i))
  /\ DOMAIN values \subseteq DOMAIN i.secrets
  /\ \A k \in DOMAIN values : values[k] = i.secrets[k].value
  /\ \E ran \in SUBSET Chosen(i, sel) :
       creds = Credentials(i, ran) /\ plan = Filtered(i, assemble(i, sel, values, creds, ran))

(* What of the inputs is in which part of the plan. *)
PlanInv(i, sel, values, creds, p) ==
  /\ \A k \in DOMAIN p.set :
       \/ k \in DOMAIN creds /\ p.set[k] = creds[k]
       \/ k \in sel.roots \cap DOMAIN values /\ k \notin DOMAIN creds /\ p.set[k] = values[k]
  /\ \A k \in DOMAIN p.files : /\ k \in sel.roots /\ k \notin DOMAIN creds /\ i.secrets[k].file
                               /\ k \in DOMAIN values /\ p.files[k] = values[k]
  /\ \A k \in DOMAIN i.secrets \ InScope(i) :
       \/ k \in p.remove
       \/ k \in DOMAIN p.set
       \/ i.roots.kind = "filter" /\ k \in DOMAIN creds
  /\ sel.roots \cup sel.requested \subseteq DOMAIN p.set \cup DOMAIN p.files \cup p.missing
  /\ (DOMAIN p.set \cup DOMAIN p.files) \cap p.missing = {} /\ DOMAIN p.set \cap DOMAIN p.files = {}
  /\ (DOMAIN p.set \cup DOMAIN p.files) \cap p.remove = {}
  /\ i.roots.kind = "filter" => \A k \in DOMAIN p.set \cup DOMAIN p.files : FilterAllows(i.roots, k)

Assembled(i, sel, values, creds, e) ==
  /\ e = [set |-> e.set, files |-> e.files, missing |-> e.missing, remove |-> e.remove]
  /\ \A k \in DOMAIN e.set :
       \/ k \in DOMAIN creds /\ e.set[k] = creds[k]
       \/ k \in sel.roots \cap DOMAIN values /\ k \notin DOMAIN creds /\ e.set[k] = values[k]
  /\ \A k \in DOMAIN e.files : /\ k \in sel.roots /\ k \notin DOMAIN creds /\ i.secrets[k].file
                               /\ k \in DOMAIN values /\ e.files[k] = values[k]
  /\ \A k \in sel.roots \cup sel.requested : k \in DOMAIN e.set \cup DOMAIN e.files \cup e.missing
  /\ (DOMAIN e.set \cup DOMAIN e.files) \cap e.missing = {} /\ DOMAIN e.set \cap DOMAIN e.files = {}
  /\ e.remove = (AMBIENT \cup (DOMAIN i.secrets \ InScope(i))) \ (DOMAIN e.set \cup DOMAIN e.files)

(* assemble, before the filter. *)
LEMMA AssembleRight ==
  ASSUME NEW n \in DOMAIN ExecInputs, NEW i, i = ExecInputs[n], NEW sel, sel = select(i),
         NEW values, NEW creds, NEW used, DOMAIN values \subseteq DOMAIN i.secrets,
         NEW e, e = assemble(i, sel, values, creds, used)
  PROVE  Assembled(i, sel, values, creds, e)
<1> DEFINE keys == DOMAIN i.secrets
           wanted(k) == sel.requested = {} \/ k \in sel.requested
           leased == {k \in keys : LeaseWins(creds, values, k)}
           fromCreds == {k \in leased \cup (DOMAIN creds \ keys) : wanted(k)}
           plain == (sel.roots \ leased) \cap DOMAIN values
           files == {k \in plain : i.secrets[k].file}
           set == [k \in fromCreds \cup (plain \ files) |->
                     IF k \in fromCreds THEN creds[k] ELSE values[k]]
           given == DOMAIN set \cup files
           skipped == UNION {produced_env_vars(i.leases[m]) : m \in Chosen(i, sel) \ used}
           missing == ((sel.roots \ leased) \ DOMAIN values) \cup (sel.requested \ given)
                        \cup (IF sel.requested = {} THEN skipped \ given ELSE {})
<1>1. e = [set |-> set, files |-> [k \in files |-> values[k]], missing |-> missing,
           remove |-> (AMBIENT \cup (keys \ InScope(i))) \ given]
  BY DEF assemble
<1>2. /\ DOMAIN set = fromCreds \cup (plain \ files)
      /\ \A k \in DOMAIN set : set[k] = IF k \in fromCreds THEN creds[k] ELSE values[k]
  OBVIOUS
<1>3. /\ fromCreds \subseteq DOMAIN creds
      /\ \A k \in plain : k \in sel.roots \cap DOMAIN values /\ k \notin DOMAIN creds
      /\ \A k \in files : k \in plain /\ i.secrets[k].file
      /\ plain \cap fromCreds = {}
  BY DEF LeaseWins
<1>4. \A k \in sel.roots : k \in InScope(i) /\ k \in keys
  BY SelectRight DEF InScope
<1>5. \A k \in sel.roots : wanted(k)
  BY SelectRight
<1>6. \A k \in sel.roots : k \in fromCreds \/ k \in plain \/ k \in missing
  BY <1>4, <1>5
<1>7. sel.requested \subseteq given \cup missing
  OBVIOUS
<1>8. given \cap missing = {}
  <2>1. given \cap ((sel.roots \ leased) \ DOMAIN values) = {}
    BY <1>2, <1>4
  <2> HIDE DEF given, leased
  <2> QED BY <2>1
<1> HIDE DEF fromCreds, plain, files, missing, leased, set, keys
<1>9. /\ e.set = set /\ DOMAIN e.files = files /\ e.missing = missing
      /\ e.remove = (AMBIENT \cup (keys \ InScope(i))) \ given
      /\ e = [set |-> e.set, files |-> e.files, missing |-> e.missing, remove |-> e.remove]
  BY <1>1
<1>10. DOMAIN e.set \cap DOMAIN e.files = {}
  BY <1>2, <1>3, <1>9
<1>11. \A k \in sel.roots \cup sel.requested : k \in DOMAIN e.set \cup DOMAIN e.files \cup e.missing
  BY <1>2, <1>6, <1>7, <1>9
<1>12. (DOMAIN e.set \cup DOMAIN e.files) \cap e.missing = {}
  BY <1>8, <1>9
<1>13. \A k \in DOMAIN e.set :
              \/ k \in DOMAIN creds /\ e.set[k] = creds[k]
              \/ k \in sel.roots \cap DOMAIN values /\ k \notin DOMAIN creds /\ e.set[k] = values[k]
  BY <1>2, <1>3, <1>9
<1>14. \A k \in DOMAIN e.files : /\ k \in sel.roots /\ k \notin DOMAIN creds /\ i.secrets[k].file
                                 /\ k \in DOMAIN values /\ e.files[k] = values[k]
  BY <1>1, <1>3, <1>9
<1>15. e.remove = (AMBIENT \cup (DOMAIN i.secrets \ InScope(i))) \ (DOMAIN e.set \cup DOMAIN e.files)
  BY <1>9 DEF keys
<1> QED BY <1>9, <1>10, <1>11, <1>12, <1>13, <1>14, <1>15 DEF Assembled

(* The plan, after the filter. *)
LEMMA PlanRight ==
  ASSUME NEW n \in DOMAIN ExecInputs, NEW i, i = ExecInputs[n],
         NEW sel, NEW values, NEW creds, NEW plan, Plans(i, sel, values, creds, plan)
  PROVE  PlanInv(i, sel, values, creds, plan)
<1>1. PICK ran \in SUBSET Chosen(i, sel) :
        creds = Credentials(i, ran) /\ plan = Filtered(i, assemble(i, sel, values, creds, ran))
  BY DEF Plans
<1> DEFINE e == assemble(i, sel, values, creds, ran)
<1>2. sel = select(i) /\ DOMAIN values \subseteq DOMAIN i.secrets
  BY DEF Plans
<1>3. Assembled(i, sel, values, creds, e)
  BY <1>2, AssembleRight
<1>4. plan = Filtered(i, e)
  BY <1>1
<1>5. sel.roots \subseteq InScope(i) /\ \A k \in sel.roots : FilterAllows(i.roots, k)
  BY <1>2, SelectRight
<1> HIDE DEF e
<1> USE <1>3 DEF Assembled
<1>6. CASE i.roots.kind # "filter"
  <2>1. plan = e
    BY <1>4, <1>6 DEF Filtered
  <2>2. \A k \in DOMAIN i.secrets \ InScope(i) : k \in plan.remove \/ k \in DOMAIN plan.set
    BY <1>5, <2>1
  <2>3. (DOMAIN plan.set \cup DOMAIN plan.files) \cap plan.remove = {}
    BY <2>1
  <2>4. sel.roots \cup sel.requested \subseteq DOMAIN plan.set \cup DOMAIN plan.files \cup plan.missing
    BY <2>1
  <2> QED BY <1>6, <2>1, <2>2, <2>3, <2>4 DEF PlanInv
<1>7. CASE i.roots.kind = "filter"
  <2> DEFINE kept == {k \in DOMAIN e.set : FilterAllows(i.roots, k)}
  <2>1. plan = [e EXCEPT !.set = [k \in kept |-> @[k]], !.remove = @ \cup (AMBIENT \ (kept \cup DOMAIN e.files))]
    BY <1>4, <1>7 DEF Filtered
  <2>2. /\ plan.set = [k \in kept |-> e.set[k]] /\ plan.files = e.files /\ plan.missing = e.missing
        /\ plan.remove = e.remove \cup (AMBIENT \ (kept \cup DOMAIN e.files))
    BY <1>3, <2>1
  <2>3. DOMAIN plan.set = kept /\ \A k \in kept : plan.set[k] = e.set[k]
    BY <2>2
  <2>4. sel.requested = {}
    BY <1>2, <1>7, SelectRight
  <2>5. \A k \in kept : k \in DOMAIN e.set /\ FilterAllows(i.roots, k)
    OBVIOUS
  <2>6. \A k \in sel.roots : k \in DOMAIN e.set => k \in kept
    BY <1>5
  <2> HIDE DEF kept
  <2>7. \A k \in DOMAIN plan.set :
              \/ k \in DOMAIN creds /\ plan.set[k] = creds[k]
              \/ k \in sel.roots \cap DOMAIN values /\ k \notin DOMAIN creds /\ plan.set[k] = values[k]
    BY <1>3, <2>3, <2>5
  <2>8. sel.roots \cup sel.requested \subseteq DOMAIN plan.set \cup DOMAIN plan.files \cup plan.missing
    BY <1>3, <2>2, <2>3, <2>4, <2>6
  <2>9. /\ (DOMAIN plan.set \cup DOMAIN plan.files) \cap plan.missing = {}
        /\ DOMAIN plan.set \cap DOMAIN plan.files = {}
        /\ (DOMAIN plan.set \cup DOMAIN plan.files) \cap plan.remove = {}
    BY <1>3, <2>2, <2>3, <2>5
  <2>10. \A k \in DOMAIN plan.set \cup DOMAIN plan.files : FilterAllows(i.roots, k)
    BY <1>3, <1>5, <2>2, <2>3, <2>5
  <2>11. ASSUME NEW k \in DOMAIN i.secrets \ InScope(i)
         PROVE  k \in plan.remove \/ k \in DOMAIN plan.set \/ k \in DOMAIN creds
    BY <1>3, <1>5, <2>2
  <2> QED BY <1>3, <1>7, <2>2, <2>7, <2>8, <2>9, <2>10, <2>11 DEF PlanInv
<1> QED BY <1>6, <1>7

(* What the command finds, and what is on disk for the leases. *)
FinalEnv(i, sel, values, plan) ==
  LET before == AfterLeases(i.env, sel, values)
      kept == [v \in DOMAIN before \ plan.remove |-> before[v]]
  IN  Over(FilePaths(plan.files), Over(plan.set, kept))

LeaseFiles(i, sel, values) == {k \in DOMAIN values : i.secrets[k].file /\ sel.leases # {}}

ExecFields == {"pc", "in", "env", "files", "plan", "sel", "values", "creds", "patterns", "child",
               "result", "cut"}

(* The record keeps what the plan and the environment were made of. *)
ExecInv ==
  ExecOn =>
    /\ DOMAIN exec = ExecFields /\ exec.in \in DOMAIN ExecInputs
    /\ exec.child \in {"none", "running", "ended"}
    /\ exec.pc \in {"plan", "spawn"} => exec.child = "none"
    /\ exec.pc \in {"drain", "finish"} => exec.child = "ended"
    /\ exec.child = "running" <=> exec.pc \in {"wait", "replaced"}
    /\ exec.pc = "spawn" \/ exec.child # "none" =>
         Plans(ei, exec.sel, exec.values, exec.creds, exec.plan)
    /\ exec.pc = "spawn" =>
         /\ exec.env = AfterLeases(ei.env, exec.sel, exec.values)
         /\ exec.files = LeaseFiles(ei, exec.sel, exec.values)
    /\ exec.child # "none" => exec.env = FinalEnv(ei, exec.sel, exec.values, exec.plan)
    /\ exec.pc \in {"wait", "replaced"} =>
         exec.files = LeaseFiles(ei, exec.sel, exec.values) \cup DOMAIN exec.plan.files
    /\ exec.pc = "replaced" => ei.replace
    /\ exec.pc = "ended" => exec.files = {}

LEMMA ExecStarts == ExecInit \/ ExecIdle => ExecInv
<1>1. ExecIdle => ExecInv
  BY DEF ExecIdle, ExecInv, ExecOn
<1>2. ASSUME ExecInit PROVE ExecInv
  <2>1. /\ DOMAIN exec = ExecFields /\ exec.in \in DOMAIN ExecInputs
        /\ exec.pc = "plan" /\ exec.child = "none"
    BY <1>2 DEF ExecInit, ExecFields
  <2> QED BY <2>1 DEF ExecInv
<1> QED BY <1>1, <1>2

LEMMA ExecFailKeeps ==
  ASSUME ExecInv, exec.pc \in {"plan", "spawn"}, ExecFail
  PROVE  ExecInv'
<1>1. DOMAIN exec = ExecFields /\ exec.in \in DOMAIN ExecInputs /\ exec.child = "none"
  BY DEF ExecInv, ExecOn
<1>2. /\ DOMAIN exec' = ExecFields /\ exec'.in = exec.in /\ exec'.child = "none"
      /\ exec'.pc = "ended" /\ exec'.files = {}
  BY <1>1 DEF ExecFail, ExecFields
<1> QED BY <1>1, <1>2 DEF ExecInv

LEMMA PlanExecKeeps ==
  ASSUME ExecInv, PlanExec
  PROVE  ExecInv'
<1>1. exec.pc = "plan"
  BY DEF PlanExec
<1>2. DOMAIN exec = ExecFields /\ exec.in \in DOMAIN ExecInputs /\ exec.child = "none"
  BY <1>1 DEF ExecInv, ExecOn
<1> DEFINE sel == select(ei)
           valuesOf(absent) == [k \in resolve_set(ei, sel) \ absent |-> ei.secrets[k].value]
<1>3. CASE ExecFail
  BY <1>1, <1>3, ExecFailKeeps
<1>4. CASE \E absent \in SUBSET (resolve_set(ei, sel) \cap ei.mayLack) :
             LET values == valuesOf(absent)
                 set == DOMAIN values \cup DOMAIN ei.env
                 ran == {n \in Chosen(ei, sel) : ei.leases[n].consumes \subseteq set \/ ei.leases[n].cached}
                 creds == Credentials(ei, ran)
                 plan == Filtered(ei, assemble(ei, sel, values, creds, ran))
             IN  /\ ei.replace => ReplaceAllowed(ei)
                 /\ exec' = [exec EXCEPT
                        !.pc = "spawn", !.sel = sel, !.values = values, !.creds = creds, !.plan = plan,
                        !.files = {k \in DOMAIN values : ei.secrets[k].file /\ sel.leases # {}},
                        !.env = AfterLeases(ei.env, sel, values)]
  <2>1. PICK absent : LET values == valuesOf(absent)
                 set == DOMAIN values \cup DOMAIN ei.env
                 ran == {n \in Chosen(ei, sel) : ei.leases[n].consumes \subseteq set \/ ei.leases[n].cached}
                 creds == Credentials(ei, ran)
                 plan == Filtered(ei, assemble(ei, sel, values, creds, ran))
             IN  /\ ei.replace => ReplaceAllowed(ei)
                 /\ exec' = [exec EXCEPT
                        !.pc = "spawn", !.sel = sel, !.values = values, !.creds = creds, !.plan = plan,
                        !.files = {k \in DOMAIN values : ei.secrets[k].file /\ sel.leases # {}},
                        !.env = AfterLeases(ei.env, sel, values)]
    BY <1>4
  <2> DEFINE values == valuesOf(absent)
             set == DOMAIN values \cup DOMAIN ei.env
             ran == {n \in Chosen(ei, sel) : ei.leases[n].consumes \subseteq set \/ ei.leases[n].cached}
             creds == Credentials(ei, ran)
             plan == Filtered(ei, assemble(ei, sel, values, creds, ran))
  <2>2. DOMAIN values \subseteq DOMAIN ei.secrets /\ \A k \in DOMAIN values : values[k] = ei.secrets[k].value
    BY DEF resolve_set, dependency_closure
  <2>3. ran \in SUBSET Chosen(ei, sel)
    OBVIOUS
  <2>4. /\ ei.replace => ReplaceAllowed(ei)
        /\ exec' = [exec EXCEPT
                  !.pc = "spawn", !.sel = sel, !.values = values, !.creds = creds, !.plan = plan,
                  !.files = LeaseFiles(ei, sel, values), !.env = AfterLeases(ei.env, sel, values)]
    BY <2>1 DEF LeaseFiles
  <2>5. Plans(ei, sel, values, creds, plan)
    <3> HIDE DEF values, ran
    <3> QED BY <2>2, <2>3, <2>4 DEF Plans
  <2> HIDE DEF values, creds, plan, sel
  <2>6. /\ DOMAIN exec' = ExecFields /\ exec'.in = exec.in /\ exec'.child = "none" /\ exec'.pc = "spawn"
        /\ exec'.sel = sel /\ exec'.values = values /\ exec'.creds = creds /\ exec'.plan = plan
        /\ exec'.files = LeaseFiles(ei, sel, values) /\ exec'.env = AfterLeases(ei.env, sel, values)
    BY <1>2, <2>4 DEF ExecFields
  <2>7. ei' = ei
    BY <2>6 DEF ei
  <2> QED BY <1>2, <2>5, <2>6, <2>7 DEF ExecInv
<1> QED BY <1>3, <1>4 DEF PlanExec

LEMMA SpawnExecKeeps ==
  ASSUME ExecInv, SpawnExec
  PROVE  ExecInv'
<1>1. exec.pc = "spawn"
  BY DEF SpawnExec
<1>2. /\ DOMAIN exec = ExecFields /\ exec.in \in DOMAIN ExecInputs /\ exec.child = "none"
      /\ Plans(ei, exec.sel, exec.values, exec.creds, exec.plan)
      /\ exec.env = AfterLeases(ei.env, exec.sel, exec.values)
      /\ exec.files = LeaseFiles(ei, exec.sel, exec.values)
  BY <1>1 DEF ExecInv, ExecOn
<1>3. CASE ExecFail
  BY <1>1, <1>3, ExecFailKeeps
<1> DEFINE kept == [v \in DOMAIN exec.env \ exec.plan.remove |-> exec.env[v]]
           env == Over(FilePaths(exec.plan.files), Over(exec.plan.set, kept))
<1>4. CASE \E patterns : exec' = [exec EXCEPT
                 !.pc = IF ei.replace THEN "replaced" ELSE "wait", !.child = "running",
                 !.env = env, !.files = @ \cup DOMAIN exec.plan.files, !.patterns = patterns]
  <2>1. PICK patterns : exec' = [exec EXCEPT
                 !.pc = IF ei.replace THEN "replaced" ELSE "wait", !.child = "running",
                 !.env = env, !.files = @ \cup DOMAIN exec.plan.files, !.patterns = patterns]
    BY <1>4
  <2>2. env = FinalEnv(ei, exec.sel, exec.values, exec.plan)
    BY <1>2 DEF FinalEnv
  <2> HIDE DEF env
  <2>3. /\ DOMAIN exec' = ExecFields /\ exec'.in = exec.in /\ exec'.child = "running"
        /\ exec'.pc = IF ei.replace THEN "replaced" ELSE "wait"
        /\ exec'.sel = exec.sel /\ exec'.values = exec.values /\ exec'.creds = exec.creds
        /\ exec'.plan = exec.plan /\ exec'.env = env /\ exec'.files = exec.files \cup DOMAIN exec.plan.files
    BY <1>2, <2>1 DEF ExecFields
  <2>4. ei' = ei
    BY <2>3 DEF ei
  <2> QED BY <1>2, <2>2, <2>3, <2>4 DEF ExecInv
<1>5. ExecFail \/ \E patterns : exec' = [exec EXCEPT
                 !.pc = IF ei.replace THEN "replaced" ELSE "wait", !.child = "running",
                 !.env = env, !.files = @ \cup DOMAIN exec.plan.files, !.patterns = patterns]
  BY DEF SpawnExec
<1> QED BY <1>3, <1>4, <1>5

(* The other steps end the command or fnox; the rest of the record stays. *)
LEMMA LaterKeeps ==
  ASSUME ExecInv, exec.pc \in {"wait", "drain", "finish"}, exec'.pc \in {"drain", "finish", "ended"},
         DOMAIN exec' = DOMAIN exec, exec'.in = exec.in, exec'.sel = exec.sel,
         exec'.values = exec.values, exec'.creds = exec.creds, exec'.plan = exec.plan,
         exec'.env = exec.env, exec'.child = "ended", exec'.pc = "ended" => exec'.files = {}
  PROVE  ExecInv'
<1>1. /\ DOMAIN exec = ExecFields /\ exec.in \in DOMAIN ExecInputs
      /\ Plans(ei, exec.sel, exec.values, exec.creds, exec.plan)
      /\ exec.env = FinalEnv(ei, exec.sel, exec.values, exec.plan)
  BY DEF ExecInv, ExecOn
<1>2. ei' = ei
  BY DEF ei
<1> QED BY <1>1, <1>2 DEF ExecInv

LEMMA ExecNextKeeps ==
  ASSUME ExecInv, [ExecNext]_execVars
  PROVE  ExecInv'
<1>1. CASE exec' = exec
  BY <1>1 DEF ExecInv, ExecOn, ei
<1>2. CASE PlanExec
  BY <1>2, PlanExecKeeps
<1>3. CASE SpawnExec
  BY <1>3, SpawnExecKeeps
<1>4. CASE ExitChild
  <2>1. /\ exec.pc = "wait" /\ exec' = [exec EXCEPT !.child = "ended", !.pc = "drain"]
        /\ DOMAIN exec = ExecFields
    BY <1>4 DEF ExitChild, ExecInv, ExecOn
  <2> QED BY <2>1, LaterKeeps DEF ExecFields
<1>5. CASE TimeOutDrain \/ AllCopied
  <2>1. CASE exec' = exec
    BY <2>1, <1>1
  <2>2. CASE /\ exec.pc = "drain"
             /\ \E cut : exec' = [exec EXCEPT !.pc = "finish", !.cut = cut]
    <3>1. DOMAIN exec = ExecFields /\ exec.child = "ended"
      BY <2>2 DEF ExecInv, ExecOn
    <3> QED BY <2>2, <3>1, LaterKeeps DEF ExecFields, ExecInv, ExecOn
  <2>3. CASE AllCopied
    <3>1. exec.pc = "drain" /\ exec' = [exec EXCEPT !.pc = "finish"] /\ DOMAIN exec = ExecFields
      BY <2>3 DEF AllCopied, ExecInv, ExecOn
    <3> QED BY <3>1, LaterKeeps DEF ExecFields, ExecInv, ExecOn
  <2> QED BY <1>5, <2>1, <2>2, <2>3 DEF TimeOutDrain
<1>6. CASE FinishExec
  <2>1. PICK result : exec' = [exec EXCEPT !.pc = "ended", !.files = {}, !.result = result]
    BY <1>6 DEF FinishExec
  <2>2. exec.pc = "finish" /\ DOMAIN exec = ExecFields
    BY <1>6 DEF FinishExec, ExecInv, ExecOn
  <2> QED BY <2>1, <2>2, LaterKeeps DEF ExecFields, ExecInv, ExecOn
<1>7. ASSUME NEW s \in Streams, Writes(s) \/ BackgroundEnds(s) \/ CopyStep(s) \/ EndWrite(s)
      PROVE  exec' = exec
  BY <1>7 DEF Writes, BackgroundEnds, CopyStep, EndWrite, ReadChunk, ReadEnd, BeginWrite, SetMoved,
              DrainAfterError
<1> QED BY <1>1, <1>2, <1>3, <1>4, <1>5, <1>6, <1>7 DEF ExecNext, execVars

(* Nothing is made for a command that takes the place of fnox. *)
LEMMA FilesKept == ExecInv => FilesBracket
<1> SUFFICES ASSUME ExecInv, ExecOn PROVE FilesBracket
  BY DEF FilesBracket
<1>1. exec.child = "running" => DOMAIN exec.plan.files \subseteq exec.files
  BY DEF ExecInv
<1>2. ASSUME exec.pc = "replaced" PROVE exec.files = {} /\ exec.creds = <<>>
  <2> DEFINE i == ei
             sel == exec.sel
  <2>1. /\ exec.in \in DOMAIN ExecInputs /\ i = ExecInputs[exec.in] /\ i.replace
        /\ Plans(i, sel, exec.values, exec.creds, exec.plan)
        /\ exec.files = LeaseFiles(i, sel, exec.values) \cup DOMAIN exec.plan.files
    BY <1>2 DEF ExecInv, ei
  <2> HIDE DEF i
  <2>2. ReplaceAllowed(i) /\ sel = select(i)
    BY <2>1 DEF Plans
  <2>3. i.leases = <<>> /\ \A k \in InScope(i) : FilterAllows(i.roots, k) => ~i.secrets[k].file
    BY <2>2 DEF ReplaceAllowed
  <2>4. sel.leases = {} /\ sel.roots \subseteq InScope(i) /\ \A k \in sel.roots : FilterAllows(i.roots, k)
    BY <2>1, <2>2, <2>3, SelectRight
  <2>5. LeaseFiles(i, sel, exec.values) = {}
    BY <2>4 DEF LeaseFiles
  <2>6. DOMAIN exec.plan.files = {}
    <3>1. \A k \in DOMAIN exec.plan.files : k \in sel.roots /\ i.secrets[k].file
      BY <2>1, PlanRight DEF PlanInv
    <3> QED BY <2>3, <2>4, <3>1
  <2>7. exec.creds = <<>>
    <3>1. PICK ran \in SUBSET Chosen(i, sel) : exec.creds = Credentials(i, ran)
      BY <2>1 DEF Plans
    <3>2. ran = {}
      BY <2>3 DEF Chosen
    <3> DEFINE keys == UNION {i.leases[n].produces : n \in ran}
    <3>3. keys = {}
      BY <3>2
    <3> QED BY <3>1, <3>3 DEF Credentials
  <2> QED BY <2>1, <2>5, <2>6, <2>7
<1> QED BY <1>1, <1>2 DEF ExecInv, FilesBracket

(* The value of a variable of the command, by where it comes from. *)
LEMMA EnvFrom ==
  ASSUME NEW i, NEW sel, NEW values, NEW plan, NEW env, env = FinalEnv(i, sel, values, plan),
         NEW v \in DOMAIN env
  PROVE  \/ v \in DOMAIN plan.files /\ env[v] = <<"path", v>>
         \/ v \notin DOMAIN plan.files /\ v \in DOMAIN plan.set /\ env[v] = plan.set[v]
         \/ /\ v \notin DOMAIN plan.set /\ v \in DOMAIN i.env /\ v \notin plan.remove /\ env[v] = i.env[v]
            /\ sel.leases # {} => v \notin DOMAIN values
<1> DEFINE before == AfterLeases(i.env, sel, values)
           kept == [w \in DOMAIN before \ plan.remove |-> before[w]]
           paths == FilePaths(plan.files)
           rest == Over(plan.set, kept)
<1>1. env = Over(paths, rest)
  BY DEF FinalEnv
<1>2. \A w \in DOMAIN before :
        w \in DOMAIN i.env /\ before[w] = i.env[w] /\ (sel.leases # {} => w \notin DOMAIN values)
  BY DEF AfterLeases
<1>3. \A w \in DOMAIN kept : w \in DOMAIN before /\ w \notin plan.remove /\ kept[w] = before[w]
  OBVIOUS
<1>4. DOMAIN paths = DOMAIN plan.files /\ \A w \in DOMAIN paths : paths[w] = <<"path", w>>
  BY DEF FilePaths
<1> HIDE DEF before, kept, paths
<1>5. /\ DOMAIN rest = DOMAIN plan.set \cup DOMAIN kept
      /\ \A w \in DOMAIN rest : rest[w] = IF w \in DOMAIN plan.set THEN plan.set[w] ELSE kept[w]
  BY DEF Over
<1> HIDE DEF rest
<1>6. v \in DOMAIN paths \cup DOMAIN rest /\ env[v] = IF v \in DOMAIN paths THEN paths[v] ELSE rest[v]
  BY <1>1 DEF Over
<1> QED BY <1>2, <1>3, <1>4, <1>5, <1>6

(* Only leases that were selected give credentials, and a credential is no value. *)
LEMMA CredsFrom ==
  ASSUME NEW n \in DOMAIN ExecInputs, NEW i, i = ExecInputs[n],
         NEW sel, NEW values, NEW creds, NEW plan, Plans(i, sel, values, creds, plan)
  PROVE  /\ DOMAIN creds # {} => sel.leases # {}
         /\ \A k \in DOMAIN creds, j \in DOMAIN i.secrets : creds[k] # i.secrets[j].value
         /\ \A j, k \in DOMAIN i.secrets : <<"path", k>> # i.secrets[j].value
<1>1. PICK ran \in SUBSET Chosen(i, sel) : creds = Credentials(i, ran)
  BY DEF Plans
<1>2. \A j \in DOMAIN i.secrets :
         1 \in DOMAIN i.secrets[j].value => i.secrets[j].value[1] \notin {"lease", "path"}
  BY ExecAssumption
<1>3. \A x : 1 \in DOMAIN <<"lease", x>> /\ <<"lease", x>>[1] = "lease"
  OBVIOUS
<1>4. \A x : 1 \in DOMAIN <<"path", x>> /\ <<"path", x>>[1] = "path"
  OBVIOUS
<1>5. \A k \in DOMAIN creds : \E x : creds[k] = <<"lease", x>>
  BY <1>1 DEF Credentials
<1>6. DOMAIN creds # {} => sel.leases # {}
  <2>1. DOMAIN creds # {} => ran # {}
    BY <1>1 DEF Credentials
  <2> QED BY <2>1 DEF Chosen
<1>7. \A k \in DOMAIN creds, j \in DOMAIN i.secrets : creds[k] # i.secrets[j].value
  BY <1>2, <1>3, <1>5
<1>8. \A j, k \in DOMAIN i.secrets : <<"path", k>> # i.secrets[j].value
  BY <1>2, <1>4
<1> QED BY <1>6, <1>7, <1>8

(* A value stands for its secret. *)
LEMMA ValuesApart ==
  ASSUME NEW n \in DOMAIN ExecInputs, NEW i, i = ExecInputs[n], NEW k \in DOMAIN i.secrets
  PROVE  /\ \A j \in DOMAIN i.secrets : i.secrets[j].value = i.secrets[k].value => j = k
         /\ \A v \in DOMAIN i.env : i.env[v] = i.secrets[k].value => v = k
BY ExecAssumption

(* What --describe says is what the selection does. *)
LEMMA Described == ExecInv => DescribedRight
<1> SUFFICES ASSUME ExecInv, exec.pc = "plan", NEW k \in DOMAIN ei.secrets \cup Produced(ei)
             PROVE  LET ask(scope) == [ei EXCEPT !.scope = scope, !.roots.keys = {k}, !.roots.kind = "keys"]
                    IN  /\ describe(ei, k).exec <=> select(ask("exec")).ok
                        /\ describe(ei, k).shell <=> select(ask("shell")).ok
  BY DEF DescribedRight
<1> DEFINE ask(scope) == [ei EXCEPT !.scope = scope, !.roots.keys = {k}, !.roots.kind = "keys"]
<1>1. exec.in \in DOMAIN ExecInputs
  BY DEF ExecInv, ExecOn
<1>2. /\ ei = [secrets |-> ei.secrets, leases |-> ei.leases, deps |-> ei.deps,
               defaultDeps |-> ei.defaultDeps, scope |-> ei.scope, roots |-> ei.roots, env |-> ei.env,
               replace |-> ei.replace, redact |-> ei.redact, streams |-> ei.streams,
               mayLack |-> ei.mayLack]
      /\ ei.roots = [kind |-> ei.roots.kind, keys |-> ei.roots.keys, only |-> ei.roots.only,
                     except |-> ei.roots.except]
  BY <1>1, ExecAssumption DEF ei
<1>3. ASSUME NEW scope
      PROVE  /\ ask(scope).scope = scope /\ ask(scope).secrets = ei.secrets
             /\ ask(scope).leases = ei.leases /\ ask(scope).roots.kind = "keys"
             /\ ask(scope).roots.keys = {k}
  BY <1>2
<1> HIDE DEF ask
<1>4. ASSUME NEW scope
      PROVE  select(ask(scope)).ok <=> k \in InScope(ask(scope)) \cup Produced(ask(scope))
  <2>1. select(ask(scope)) = SelectKeys(ask(scope))
    BY <1>3 DEF select
  <2> DEFINE known == InScope(ask(scope)) \cup Produced(ask(scope))
  <2>2. SelectKeys(ask(scope)).ok = ({k} \subseteq known)
    BY <1>3 DEF SelectKeys
  <2> HIDE DEF known
  <2>3. CASE k \in known
    <3>1. ({k} \subseteq known) = TRUE
      BY <2>3
    <3> QED BY <2>1, <2>2, <2>3, <3>1 DEF known
  <2>4. CASE k \notin known
    <3>1. ({k} \subseteq known) = FALSE
      BY <2>4
    <3> QED BY <2>1, <2>2, <2>4, <3>1 DEF known
  <2> QED BY <2>3, <2>4
<1>5. ASSUME NEW scope
      PROVE  k \in InScope(ask(scope)) <=> k \in DOMAIN ei.secrets /\ scope_allows(scope, ei.secrets[k].mode)
  BY <1>3 DEF InScope
<1>6. /\ k \in Produced(ask("exec")) <=> \E l \in Range(ei.leases) : k \in produced_env_vars(l)
      /\ Produced(ask("shell")) = {}
  BY <1>3 DEF Produced
<1>7. describe(ei, k).exec <=> select(ask("exec")).ok
  BY <1>4, <1>5, <1>6 DEF describe
<1>8. describe(ei, k).shell <=> select(ask("shell")).ok
  BY <1>4, <1>5, <1>6 DEF describe
<1> QED BY <1>7, <1>8 DEF ask

LEMMA EnvironmentKept == ExecInv => EnvironmentRight
<1> SUFFICES ASSUME ExecInv PROVE EnvironmentRight
  OBVIOUS
<1> DEFINE i == ei
           sel == exec.sel
           values == exec.values
           creds == exec.creds
           plan == exec.plan
<1>1. ASSUME ExecOn, exec.child # "none" \/ exec.pc = "spawn"
      PROVE  /\ exec.in \in DOMAIN ExecInputs /\ i = ExecInputs[exec.in]
             /\ Plans(i, sel, values, creds, plan)
  BY <1>1 DEF ExecInv, ei
<1>2. ASSUME ExecOn, exec.child # "none" PROVE exec.env = FinalEnv(i, sel, values, plan)
  BY <1>2 DEF ExecInv
<1> HIDE DEF i
<1>3. ScopeKept
  <2> SUFFICES ASSUME ExecOn, exec.child # "none"
               PROVE  /\ DOMAIN exec.env \subseteq DOMAIN i.env \cup DOMAIN plan.set \cup DOMAIN plan.files
                      /\ \A k \in DOMAIN i.secrets \ InScope(i) :
                           /\ \A v \in DOMAIN exec.env \ {k} : exec.env[v] # i.secrets[k].value
                           /\ k \in DOMAIN exec.env /\ exec.env[k] = i.secrets[k].value =>
                                i.roots.kind = "filter" /\ k \in DOMAIN creds /\ k \notin DOMAIN values
    BY DEF ScopeKept, i
  <2>1. /\ Plans(i, sel, values, creds, plan) /\ PlanInv(i, sel, values, creds, plan)
        /\ exec.env = FinalEnv(i, sel, values, plan)
    BY <1>1, <1>2, PlanRight
  <2>2. DOMAIN exec.env \subseteq DOMAIN i.env \cup DOMAIN plan.set \cup DOMAIN plan.files
    BY <2>1, EnvFrom
  <2>3. ASSUME NEW k \in DOMAIN i.secrets \ InScope(i), NEW v \in DOMAIN exec.env \ {k}
        PROVE  exec.env[v] # i.secrets[k].value
    <3>1. CASE v \in DOMAIN plan.files /\ exec.env[v] = <<"path", v>>
      <4>1. v \in DOMAIN i.secrets
        BY <1>1, <2>1, <3>1, SelectRight DEF PlanInv, Plans, InScope
      <4> QED BY <1>1, <2>1, <3>1, <4>1, CredsFrom
    <3>2. CASE v \in DOMAIN plan.set /\ exec.env[v] = plan.set[v]
      <4>1. CASE v \in DOMAIN creds /\ plan.set[v] = creds[v]
        BY <1>1, <2>1, <3>2, <4>1, CredsFrom
      <4>2. CASE v \in DOMAIN values /\ plan.set[v] = values[v]
        <5>1. v \in DOMAIN i.secrets /\ values[v] = i.secrets[v].value
          BY <2>1, <4>2 DEF Plans
        <5>2. i.secrets[v].value # i.secrets[k].value
          BY <1>1, <5>1, ValuesApart
        <5> QED BY <3>2, <4>2, <5>1, <5>2
      <4> QED BY <2>1, <3>2, <4>1, <4>2 DEF PlanInv
    <3>3. CASE v \in DOMAIN i.env /\ exec.env[v] = i.env[v]
      BY <1>1, <3>3, ValuesApart
    <3> QED BY <2>1, <3>1, <3>2, <3>3, EnvFrom
  <2>4. ASSUME NEW k \in DOMAIN i.secrets \ InScope(i), k \in DOMAIN exec.env,
               exec.env[k] = i.secrets[k].value
        PROVE  i.roots.kind = "filter" /\ k \in DOMAIN creds /\ k \notin DOMAIN values
    <3>1. sel.roots \subseteq InScope(i)
      BY <1>1, <2>1, SelectRight DEF Plans
    <3>2. k \notin DOMAIN plan.files
      BY <2>1, <3>1 DEF PlanInv
    <3>3. ~(k \in DOMAIN plan.set /\ exec.env[k] = plan.set[k])
      <4>1. SUFFICES ASSUME k \in DOMAIN plan.set, exec.env[k] = plan.set[k] PROVE FALSE
        OBVIOUS
      <4>2. k \in DOMAIN creds /\ plan.set[k] = creds[k]
        BY <2>1, <3>1, <4>1 DEF PlanInv
      <4>3. creds[k] # i.secrets[k].value
        BY <1>1, <2>1, <4>2, CredsFrom
      <4> QED BY <2>4, <4>1, <4>2, <4>3
    <3>4. k \notin DOMAIN plan.set /\ k \notin plan.remove /\ (sel.leases # {} => k \notin DOMAIN values)
      BY <2>1, <2>4, <3>2, <3>3, EnvFrom
    <3>5. i.roots.kind = "filter" /\ k \in DOMAIN creds
      BY <2>1, <3>4 DEF PlanInv
    <3> QED BY <1>1, <2>1, <3>4, <3>5, CredsFrom
  <2> QED BY <2>2, <2>3, <2>4
<1>4. CredentialOnly
  <2> SUFFICES ASSUME ExecOn, exec.child # "none",
                      NEW k \in DOMAIN creds \cap DOMAIN exec.env \cap DOMAIN values
               PROVE  exec.env[k] = creds[k]
    BY DEF CredentialOnly
  <2>1. /\ Plans(i, sel, values, creds, plan) /\ PlanInv(i, sel, values, creds, plan)
        /\ exec.env = FinalEnv(i, sel, values, plan)
    BY <1>1, <1>2, PlanRight
  <2>2. sel.leases # {}
    BY <1>1, <2>1, CredsFrom
  <2>3. k \notin DOMAIN plan.files /\ (k \in DOMAIN plan.set => plan.set[k] = creds[k])
    BY <2>1 DEF PlanInv
  <2> QED BY <2>1, <2>2, <2>3, EnvFrom
<1>5. Accounted
  <2> SUFFICES ASSUME ExecOn, exec.pc \in {"spawn", "wait", "replaced"}
               PROVE  /\ sel.roots \cup sel.requested \subseteq DOMAIN plan.set \cup DOMAIN plan.files \cup plan.missing
                      /\ (DOMAIN plan.set \cup DOMAIN plan.files) \cap plan.missing = {}
                      /\ DOMAIN plan.set \cap DOMAIN plan.files = {}
                      /\ (DOMAIN plan.set \cup DOMAIN plan.files) \cap plan.remove = {}
                      /\ i.roots.kind = "filter" =>
                           \A k \in DOMAIN plan.set \cup DOMAIN plan.files : FilterAllows(i.roots, k)
    BY DEF Accounted, i
  <2>1. exec.child # "none" \/ exec.pc = "spawn"
    BY DEF ExecInv
  <2>2. PlanInv(i, sel, values, creds, plan)
    BY <1>1, <2>1, PlanRight
  <2> QED BY <2>2 DEF PlanInv
<1> QED BY <1>3, <1>4, <1>5, Described DEF EnvironmentRight

LEMMA ExecKept == Spec => []ExecInv
<1>1. Init => ExecInv
  BY ExecStarts DEF Init
<1>2. ExecInv /\ [Next]_vars => ExecInv'
  <2>1. [Next]_vars => [ExecNext]_execVars
    BY DEF Next, vars
  <2> QED BY <2>1, ExecNextKeeps
<1> QED BY <1>1, <1>2, PTL DEF Spec

(* The environment of the command that `fnox exec` runs has what the selection gives  *)
(* it and nothing that was only there to make it, its account of the selection is the *)
(* whole of it, and what describes the environment agrees with it: whichever leases   *)
(* ran and whatever the parent's environment held.                                    *)
THEOREM CommandEnvironment == Spec => []EnvironmentRight
BY ExecKept, EnvironmentKept, PTL

--------------------------------------------------------------------------------
(* Redaction: a pass over a text, and the same text in chunks. *)

(* Every set of natural numbers has a least element, and a greatest one if it is bounded. *)
LEMMA LeastNatural ==
  ASSUME NEW T \in SUBSET Nat, T # {}
  PROVE  \E n \in T : \A m \in T : n <= m
<1>1. PICK n \in T : \A m \in T : ~(<<m, n>> \in OpToRel(<, Nat))
  BY WFMin, NatLessThanWellFounded, Zenon
<1>2. \A m \in T : ~(m < n)
  BY <1>1 DEF OpToRel
<1> QED BY <1>2

LEMMA GreatestNatural ==
  ASSUME NEW b \in Nat, NEW T \in SUBSET (0..b), T # {}
  PROVE  \E n \in T : \A m \in T : m <= n
<1> DEFINE U == {b - m : m \in T}
<1>1. U \in SUBSET Nat /\ U # {}
  <2>1. PICK t \in T : TRUE
    OBVIOUS
  <2>2. b - t \in U
    OBVIOUS
  <2>3. \A v \in U : v \in Nat
    OBVIOUS
  <2> HIDE DEF U
  <2> QED BY <2>2, <2>3
<1>2. PICK u \in U : \A v \in U : u <= v
  <2> HIDE DEF U
  <2> QED BY <1>1, LeastNatural
<1>3. PICK n \in T : u = b - n
  BY <1>2
<1>4. ASSUME NEW m \in T PROVE m <= n
  <2>1. b - m \in U
    OBVIOUS
  <2> HIDE DEF U
  <2>2. b - n <= b - m
    BY <1>2, <1>3, <2>1
  <2> QED BY <2>2
<1> QED BY <1>3, <1>4

(* What the redactor looks for: texts of at least one character, none of them the marker, and *)
(* no longer than some length.                                                                *)
IsText(p) == Len(p) \in Nat /\ p = [k \in 1..Len(p) |-> p[k]]

Searchable(ps) ==
  /\ \A p \in ps : IsText(p) /\ Len(p) > 0 /\ \A k \in 1..Len(p) : p[k] # MARKER
  /\ \E m \in Nat : \A p \in ps : Len(p) <= m

(* At, character by character. *)
Reads(s, i, p) == i + Len(p) - 1 <= Len(s) /\ \A k \in 1..Len(p) : s[i + k - 1] = p[k]

LEMMA AtMeans ==
  ASSUME NEW S, NEW s \in Seq(S), NEW i \in 1..Len(s) + 1, NEW p, IsText(p)
  PROVE  At(s, i, p) <=> Reads(s, i, p)
<1> DEFINE j == i + Len(p) - 1
           sub == SubSeq(s, i, j)
<1>1. Len(p) \in Nat /\ p = [k \in 1..Len(p) |-> p[k]]
  BY DEF IsText
<1>2. CASE j <= Len(s)
  <2>1. sub = [k \in 1..Len(p) |-> s[i + k - 1]]
    BY <1>1, <1>2
  <2>2. At(s, i, p) <=> [k \in 1..Len(p) |-> s[i + k - 1]] = p
    BY <1>1, <1>2, <2>1 DEF At
  <2>3. [k \in 1..Len(p) |-> s[i + k - 1]] = p <=> \A k \in 1..Len(p) : s[i + k - 1] = p[k]
    <3>1. ASSUME [k \in 1..Len(p) |-> s[i + k - 1]] = p, NEW k \in 1..Len(p)
          PROVE  s[i + k - 1] = p[k]
      BY <3>1, Zenon
    <3>2. ASSUME \A k \in 1..Len(p) : s[i + k - 1] = p[k]
          PROVE  [k \in 1..Len(p) |-> s[i + k - 1]] = p
      <4>1. [k \in 1..Len(p) |-> s[i + k - 1]] = [k \in 1..Len(p) |-> p[k]]
        BY <3>2
      <4> QED BY <4>1, <1>1
    <3> QED BY <3>1, <3>2
  <2> QED BY <1>2, <2>2, <2>3 DEF Reads
<1>3. CASE ~(j <= Len(s))
  BY <1>3 DEF At, Reads
<1> QED BY <1>2, <1>3

(* One step of a pass: what is passed on for the place i, and the place after it. *)
Emit(ps, s, i) == IF Found(ps, s, i) THEN <<MARKER>> ELSE <<s[i]>>
After(ps, s, i) == IF Found(ps, s, i) THEN i + Len(Longest(ps, s, i)) ELSE i + 1
Stop(i) == [out |-> <<>>, pos |-> i]
Step(ps, s, end, w, i) ==
  IF i > end THEN Stop(i)
  ELSE [w[After(ps, s, i)] EXCEPT !.out = Emit(ps, s, i) \o @]

LEMMA LongestFound ==
  ASSUME NEW ps, Searchable(ps), NEW S, NEW s \in Seq(S), NEW i \in 1..Len(s), Found(ps, s, i)
  PROVE  Longest(ps, s, i) \in ps /\ At(s, i, Longest(ps, s, i))
<1> DEFINE found == {p \in ps : At(s, i, p)}
           lens == {Len(p) : p \in found}
<1>1. \A p \in found : p \in ps /\ IsText(p) /\ Len(p) \in Nat /\ Len(p) <= Len(s)
  BY DEF Searchable, IsText, At
<1>2. lens \in SUBSET (0..Len(s)) /\ lens # {}
  <2>1. PICK q \in found : TRUE
    BY DEF Found
  <2>2. Len(q) \in lens
    OBVIOUS
  <2> HIDE DEF found
  <2>3. \A n \in lens : n \in 0..Len(s)
    BY <1>1
  <2> HIDE DEF lens
  <2> QED BY <2>2, <2>3
<1>3. PICK m \in lens : \A n \in lens : n <= m
  <2> HIDE DEF lens
  <2>1. Len(s) \in Nat
    OBVIOUS
  <2> QED BY <1>2, <2>1, GreatestNatural
<1>4. PICK p \in found : m = Len(p)
  BY <1>3
<1>5. \A q \in found : Len(q) <= Len(p)
  <2> HIDE DEF found
  <2> QED BY <1>3, <1>4
<1>6. (CHOOSE r \in found : \A q \in found : Len(q) <= Len(r)) \in found
  <2> HIDE DEF found
  <2> QED BY <1>4, <1>5
<1> QED BY <1>6 DEF Longest

LEMMA Advance ==
  ASSUME NEW ps, Searchable(ps), NEW S, NEW s \in Seq(S), NEW i \in 1..Len(s)
  PROVE  After(ps, s, i) \in i + 1..Len(s) + 1 /\ Emit(ps, s, i) \in Seq(S \cup {MARKER})
         /\ Len(Emit(ps, s, i)) = 1
<1>1. Len(s) \in Nat /\ s[i] \in S
  OBVIOUS
<1>2. CASE Found(ps, s, i)
  <2>1. PICK p \in ps : p = Longest(ps, s, i) /\ At(s, i, p)
    BY <1>2, LongestFound
  <2>2. Len(p) \in Nat /\ Len(p) > 0 /\ i + Len(p) - 1 <= Len(s)
    BY <2>1 DEF Searchable, IsText, At
  <2>3. After(ps, s, i) = i + Len(p) /\ Emit(ps, s, i) = <<MARKER>>
    BY <1>2, <2>1 DEF After, Emit
  <2> QED BY <2>2, <2>3, <1>1
<1>3. CASE ~Found(ps, s, i)
  <2>1. After(ps, s, i) = i + 1 /\ Emit(ps, s, i) = <<s[i]>>
    BY <1>3 DEF After, Emit
  <2> QED BY <2>1, <1>1
<1> QED BY <1>2, <1>3

(* The recursive function of a pass exists. *)
LEMMA WalkExists ==
  ASSUME NEW ps, Searchable(ps), NEW S, NEW s \in Seq(S), NEW end \in 0..Len(s)
  PROVE  \E w : w = [i \in 1..Len(s) + 1 |-> Step(ps, s, end, w, i)]
<1> DEFINE n == Len(s)
           Is(w, a) == w = [i \in a..n + 1 |-> Step(ps, s, end, w, i)]
           T == {m \in 0..n : ~\E w : Is(w, n + 1 - m)}
<1>n. n \in Nat /\ end \in 0..n
  OBVIOUS
<1>j. \A i \in 1..n : After(ps, s, i) \in i + 1..n + 1
  BY Advance
<1> HIDE DEF n
<1>1. CASE T = {}
  <2>1. n \in 0..n /\ n + 1 - n = 1
    BY <1>n
  <2>2. \E w : Is(w, 1)
    BY <1>1, <2>1
  <2> QED BY <2>2 DEF n
<1>2. CASE T # {}
  <2>1. PICK m \in T : \A k \in T : m <= k
    <3> T \in SUBSET Nat
      BY <1>n
    <3> HIDE DEF T
    <3> QED BY <1>2, LeastNatural
  <2>2. m \in 0..n /\ ~\E w : Is(w, n + 1 - m)
    BY <2>1
  <2>3. CASE m = 0
    <3> DEFINE w == [i \in n + 1..n + 1 |-> Stop(i)]
    <3>1. \A i \in n + 1..n + 1 : Step(ps, s, end, w, i) = Stop(i)
      BY <1>n DEF Step
    <3>2. Is(w, n + 1)
      BY <3>1
    <3>3. n + 1 - m = n + 1
      BY <2>3, <1>n
    <3> HIDE DEF w, Is
    <3> QED BY <2>2, <3>2, <3>3
  <2>4. CASE m # 0
    <3> DEFINE a == n + 1 - m
    <3>1. m - 1 \in 0..n /\ m - 1 \notin T /\ n + 1 - (m - 1) = a + 1 /\ a \in 1..n
      <4> HIDE DEF T
      <4> QED BY <2>1, <2>2, <2>4, <1>n
    <3>2. PICK w : Is(w, a + 1)
      <4>1. \E w : Is(w, n + 1 - (m - 1))
        BY <3>1
      <4> HIDE DEF Is
      <4> QED BY <3>1, <4>1
    <3> HIDE DEF a
    <3>3. \A i \in a + 1..n + 1 : w[i] = Step(ps, s, end, w, i)
      BY <3>2, Zenon
    <3> DEFINE h == [i \in a..n + 1 |-> IF i = a THEN Step(ps, s, end, w, a) ELSE w[i]]
    <3>4. ASSUME NEW i \in a..n + 1 PROVE Step(ps, s, end, h, i) = Step(ps, s, end, w, i)
      <4>1. CASE i > end
        BY <4>1 DEF Step
      <4>2. CASE ~(i > end)
        <5>1. i \in 1..n
          BY <4>2, <1>n, <3>1
        <5>2. After(ps, s, i) \in a..n + 1 /\ After(ps, s, i) # a
          BY <5>1, <1>j, <3>1
        <5>3. h[After(ps, s, i)] = w[After(ps, s, i)]
          BY <5>2
        <5> HIDE DEF h
        <5> QED BY <4>2, <5>3 DEF Step
      <4> QED BY <4>1, <4>2
    <3>5. ASSUME NEW i \in a..n + 1 PROVE h[i] = Step(ps, s, end, h, i)
      <4>1. CASE i = a
        <5>1. h[i] = Step(ps, s, end, w, i)
          BY <4>1
        <5> HIDE DEF h
        <5> QED BY <5>1, <3>4
      <4>2. CASE i # a
        <5>1. h[i] = w[i] /\ i \in a + 1..n + 1
          BY <4>2, <3>1, <1>n
        <5> HIDE DEF h
        <5> QED BY <5>1, <3>3, <3>4
      <4> QED BY <4>1, <4>2
    <3>6. h = [i \in a..n + 1 |-> h[i]]
      OBVIOUS
    <3> HIDE DEF h
    <3>7. Is(h, a)
      BY <3>5, <3>6
    <3> HIDE DEF Is
    <3> QED BY <2>2, <3>7 DEF a
  <2> QED BY <2>3, <2>4
<1> QED BY <1>1, <1>2

(* What a pass over s up to the place end does from each place on. *)
IsWalk(ps, s, end, S, w) ==
  /\ w \in [1..Len(s) + 1 -> [out : Seq(S \cup {MARKER}), pos : 1..Len(s) + 1]]
  /\ \A i \in 1..Len(s) + 1 :
       /\ i > end => w[i].out = <<>> /\ w[i].pos = i
       /\ i <= end => /\ w[i].out = Emit(ps, s, i) \o w[After(ps, s, i)].out
                      /\ w[i].pos = w[After(ps, s, i)].pos

LEMMA PassWalks ==
  ASSUME NEW ps, Searchable(ps), NEW S, NEW s \in Seq(S), NEW end \in 0..Len(s)
  PROVE  \E w : IsWalk(ps, s, end, S, w) /\ Pass(ps, s, end) = w[1]
<1> DEFINE n == Len(s)
           C == S \cup {MARKER}
           w == CHOOSE f : f = [i \in 1..Len(s) + 1 |-> Step(ps, s, end, f, i)]
           R == [out : Seq(C), pos : 1..n + 1]
           T == {i \in 0..n + 1 : i # 0 /\ w[i] \notin R}
<1>n. n \in Nat /\ end \in 0..n
  OBVIOUS
<1>j. \A i \in 1..n : After(ps, s, i) \in i + 1..n + 1 /\ Emit(ps, s, i) \in Seq(C)
  BY Advance
<1>1. w = [i \in 1..n + 1 |-> Step(ps, s, end, w, i)]
  BY WalkExists, Zenon
<1>2. Pass(ps, s, end) = w[1]
  BY DEF Pass, Step, Stop, Emit, After
<1> HIDE DEF w, n, C
<1>3. \A i \in 1..n + 1 : w[i] = Step(ps, s, end, w, i)
  BY <1>1, Zenon
<1>4. ASSUME NEW i \in 1..n + 1, i > end PROVE w[i] = Stop(i)
  BY <1>3, <1>4 DEF Step
<1>5. ASSUME NEW i \in 1..n + 1, i <= end, NEW r \in R, w[After(ps, s, i)] = r
      PROVE  w[i] \in R /\ w[i].out = Emit(ps, s, i) \o r.out /\ w[i].pos = r.pos
  <2>1. i \in 1..n /\ ~(i > end)
    BY <1>5, <1>n
  <2>2. w[i] = [r EXCEPT !.out = Emit(ps, s, i) \o @]
    BY <1>3, <1>5, <2>1 DEF Step
  <2>3. PICK e \in Seq(C) : e = Emit(ps, s, i)
    BY <2>1, <1>j
  <2>4. e \o r.out \in Seq(C)
    OBVIOUS
  <2>5. w[i] = [r EXCEPT !.out = e \o @]
    BY <2>2, <2>3
  <2> QED BY <2>3, <2>4, <2>5
<1>6. T = {}
  <2> SUFFICES ASSUME T # {} PROVE FALSE
    OBVIOUS
  <2>1. PICK i \in T : \A k \in T : k <= i
    <3> T \in SUBSET (0..n + 1) /\ n + 1 \in Nat
      BY <1>n
    <3> HIDE DEF T
    <3> QED BY GreatestNatural
  <2>2. i \in 1..n + 1 /\ w[i] \notin R
    BY <2>1, <1>n
  <2>3. \A k \in 1..n + 1 : k > i => w[k] \in R
    <3> SUFFICES ASSUME NEW k \in 1..n + 1, k > i, w[k] \notin R PROVE FALSE
      OBVIOUS
    <3>1. k \in T
      BY <1>n
    <3> HIDE DEF T
    <3> QED BY <2>1, <2>2, <3>1, <1>n
  <2> HIDE DEF T
  <2>4. CASE i > end
    <3>1. Stop(i) \in R
      BY <2>2 DEF Stop
    <3> QED BY <2>2, <2>4, <3>1, <1>4
  <2>5. CASE ~(i > end)
    <3>1. i \in 1..n /\ i <= end
      BY <2>2, <2>5, <1>n
    <3>2. After(ps, s, i) \in 1..n + 1 /\ After(ps, s, i) > i
      BY <3>1, <1>j, <1>n
    <3>3. w[After(ps, s, i)] \in R
      BY <2>3, <3>2
    <3> HIDE DEF R
    <3> QED BY <1>5, <2>2, <3>1, <3>3
  <2> QED BY <2>4, <2>5
<1>7. \A i \in 1..n + 1 : w[i] \in R
  BY <1>6, <1>n
<1> HIDE DEF T
<1>8. w \in [1..n + 1 -> R]
  <2>1. w = [i \in 1..n + 1 |-> w[i]]
    BY <1>1, <1>3
  <2> HIDE DEF R
  <2> QED BY <1>7, <2>1
<1>9. ASSUME NEW i \in 1..n + 1
      PROVE  /\ i > end => w[i].out = <<>> /\ w[i].pos = i
             /\ i <= end => /\ w[i].out = Emit(ps, s, i) \o w[After(ps, s, i)].out
                            /\ w[i].pos = w[After(ps, s, i)].pos
  <2>1. CASE i > end
    <3>1. w[i] = Stop(i)
      BY <2>1, <1>4
    <3>2. Stop(i).out = <<>> /\ Stop(i).pos = i
      BY DEF Stop
    <3> QED BY <3>1, <3>2, <2>1, <1>n
  <2>2. CASE ~(i > end)
    <3>1. i \in 1..n /\ i <= end
      BY <2>2, <1>n
    <3>2. After(ps, s, i) \in 1..n + 1
      BY <3>1, <1>j, <1>n
    <3>3. w[After(ps, s, i)] \in R
      BY <1>7, <3>2
    <3> HIDE DEF R
    <3> QED BY <1>5, <3>1, <3>3, <2>2
  <2> QED BY <2>1, <2>2
<1>10. IsWalk(ps, s, end, S, w)
  BY <1>8, <1>9 DEF IsWalk, n, C
<1> QED BY <1>2, <1>10

Associates(a, b, c) == a \o (b \o c) = (a \o b) \o c

LEMMA ConcatAssoc ==
  ASSUME NEW C, NEW a \in Seq(C), NEW b \in Seq(C), NEW c \in Seq(C)
  PROVE  Associates(a, b, c)
BY SMTT(30) DEF Associates

(* The places up to end are treated in u as in s. *)
Agrees(ps, s, u, end) ==
  \A i \in 1..end : After(ps, u, i) = After(ps, s, i) /\ Emit(ps, u, i) = Emit(ps, s, i)

(* g does what f does, and then goes on. *)
Continues(f, g, n) == \A i \in 1..n + 1 : g[i].out = f[i].out \o g[f[i].pos].out

(* If nothing beyond s matters for the places up to end, a pass over all of u, of which *)
(* s is the start, is the one over s up to end, and then goes on where that one stopped.         *)
LEMMA Follow ==
  ASSUME NEW ps, Searchable(ps), NEW S, NEW s \in Seq(S), NEW u \in Seq(S), Len(s) <= Len(u),
         NEW end \in 0..Len(s),
         NEW f, IsWalk(ps, s, end, S, f), NEW g, IsWalk(ps, u, Len(u), S, g),
         Agrees(ps, s, u, end)
  PROVE  Continues(f, g, Len(s))
<1> DEFINE n == Len(s)
           C == S \cup {MARKER}
           P(i) == g[i].out = f[i].out \o g[f[i].pos].out
           T == {i \in 0..n + 1 : i # 0 /\ ~P(i)}
<1>n. n \in Nat /\ end \in 0..n /\ Len(u) \in Nat /\ n <= Len(u)
  OBVIOUS
<1>g. \A i \in 1..Len(u) + 1 : g[i].out \in Seq(C)
  BY DEF IsWalk
<1>f. \A i \in 1..n + 1 : f[i].out \in Seq(C) /\ f[i].pos \in 1..n + 1
  BY DEF IsWalk
<1>j. \A i \in 1..n : After(ps, s, i) \in i + 1..n + 1 /\ Emit(ps, s, i) \in Seq(C)
  BY Advance
<1>1. ASSUME NEW i \in 1..n + 1, i > end PROVE f[i].out = <<>> /\ f[i].pos = i
  BY <1>1 DEF IsWalk
<1>2. ASSUME NEW i \in 1..n + 1, i <= end
      PROVE  /\ f[i].out = Emit(ps, s, i) \o f[After(ps, s, i)].out
             /\ f[i].pos = f[After(ps, s, i)].pos
             /\ g[i].out = Emit(ps, s, i) \o g[After(ps, s, i)].out
  <2>1. i \in 1..Len(u) + 1 /\ i <= Len(u) /\ i \in 1..end
    BY <1>2, <1>n
  <2> QED BY <1>2, <2>1 DEF IsWalk, Agrees
<1> SUFFICES ASSUME T # {} PROVE FALSE
  <2> SUFFICES \A i \in 1..n + 1 : P(i)
    BY DEF Continues
  <2> HIDE DEF P
  <2> QED BY <1>n
<1> HIDE DEF P, n
<1>3. PICK i \in T : \A k \in T : k <= i
  <2> T \in SUBSET (0..n + 1) /\ n + 1 \in Nat
    BY <1>n
  <2> HIDE DEF T
  <2> QED BY GreatestNatural
<1>4. i \in 1..n + 1 /\ ~P(i)
  BY <1>3, <1>n
<1>5. \A k \in 1..n + 1 : k > i => P(k)
  <2> SUFFICES ASSUME NEW k \in 1..n + 1, k > i, ~P(k) PROVE FALSE
    OBVIOUS
  <2>1. k \in T
    BY <1>n
  <2> HIDE DEF T
  <2> QED BY <1>3, <1>4, <2>1, <1>n
<1> HIDE DEF T, n, C
<1>6. CASE i > end
  <2>1. f[i].out = <<>> /\ f[i].pos = i
    BY <1>1, <1>4, <1>6
  <2>2. g[i].out \in Seq(C)
    BY <1>4, <1>g, <1>n
  <2>3. <<>> \o g[i].out = g[i].out
    BY <2>2
  <2> QED BY <1>4, <2>1, <2>3 DEF P
<1>7. CASE ~(i > end)
  <2>1. i \in 1..n /\ i <= end /\ i \in 1..n + 1
    BY <1>4, <1>7, <1>n
  <2>2. PICK a \in 1..n + 1 : a = After(ps, s, i) /\ a > i
    BY <2>1, <1>j, <1>n
  <2>3. PICK e \in Seq(C) : e = Emit(ps, s, i)
    BY <2>1, <1>j
  <2>4. f[i].out = e \o f[a].out /\ f[i].pos = f[a].pos /\ g[i].out = e \o g[a].out
    BY <1>2, <2>1, <2>2, <2>3
  <2>5. g[a].out = f[a].out \o g[f[a].pos].out
    BY <1>5, <2>2 DEF P
  <2>6. f[a].out \in Seq(C) /\ f[a].pos \in 1..Len(u) + 1
    BY <1>f, <2>2, <1>n
  <2>7. g[f[a].pos].out \in Seq(C)
    BY <2>6, <1>g
  <2>8. PICK d \in Seq(C), v \in Seq(C) : d = f[a].out /\ v = g[f[a].pos].out
    BY <2>6, <2>7
  <2>9. g[i].out = (e \o d) \o v
    <3>1. g[i].out = e \o (d \o v)
      BY <2>4, <2>5, <2>8
    <3>2. Associates(e, d, v)
      BY ConcatAssoc
    <3> QED BY ONLY <3>1, <3>2 DEF Associates
  <2> QED BY <1>4, <2>4, <2>8, <2>9 DEF P
<1> QED BY <1>6, <1>7

(* What a place after the start of a text begins with is what the rest of the text does. *)
RestOf(u, j, v) == Len(v) = Len(u) + 1 - j /\ \A k \in 1..Len(v) : v[k] = u[j + k - 1]

LEMMA SubRest ==
  ASSUME NEW S, NEW u \in Seq(S), NEW j \in 1..Len(u) + 1
  PROVE  SubSeq(u, j, Len(u)) \in Seq(S) /\ RestOf(u, j, SubSeq(u, j, Len(u)))
BY DEF RestOf

LEMMA SubStep ==
  ASSUME NEW ps, Searchable(ps), NEW S, NEW u \in Seq(S), NEW j \in 1..Len(u) + 1,
         NEW v \in Seq(S), RestOf(u, j, v), NEW k \in 1..Len(v)
  PROVE  /\ Emit(ps, v, k) = Emit(ps, u, j + k - 1)
         /\ After(ps, u, j + k - 1) = After(ps, v, k) + j - 1
<1>1. /\ v \in Seq(S) /\ Len(v) = Len(u) + 1 - j /\ Len(u) \in Nat
      /\ \A i \in 1..Len(v) : v[i] = u[j + i - 1]
  BY DEF RestOf
<1>2. ASSUME NEW p \in ps PROVE At(v, k, p) <=> At(u, j + k - 1, p)
  <2>1. IsText(p) /\ Len(p) \in Nat
    BY DEF Searchable, IsText
  <2>2. At(v, k, p) <=> k + Len(p) - 1 <= Len(v) /\ \A i \in 1..Len(p) : v[k + i - 1] = p[i]
    <3>1. k \in 1..Len(v) + 1
      BY <1>1
    <3>2. v \in Seq(S)
      BY <1>1
    <3> QED BY <2>1, <3>1, <3>2, AtMeans DEF Reads
  <2>3. j + k - 1 \in 1..Len(u) + 1
    BY <1>1
  <2>4. At(u, j + k - 1, p) <=> /\ j + k - 1 + Len(p) - 1 <= Len(u)
                                /\ \A i \in 1..Len(p) : u[j + k - 1 + i - 1] = p[i]
    <3> DEFINE l == j + k - 1
    <3>1. l \in 1..Len(u) + 1
      BY <2>3
    <3> HIDE DEF l
    <3>2. At(u, l, p) <=> Reads(u, l, p)
      BY <2>1, <3>1, AtMeans
    <3> QED BY <3>2 DEF l, Reads
  <2>5. k + Len(p) - 1 <= Len(v) <=> j + k - 1 + Len(p) - 1 <= Len(u)
    BY <1>1, <2>1
  <2>6. ASSUME k + Len(p) - 1 <= Len(v), NEW i \in 1..Len(p)
        PROVE  v[k + i - 1] = u[j + k - 1 + i - 1]
    <3>1. k + i - 1 \in 1..Len(v) /\ j + (k + i - 1) - 1 = j + k - 1 + i - 1
      <4>1. Len(v) \in Nat
        BY <1>1
      <4> QED BY <4>1, <2>1, <2>6
    <3> QED BY <3>1, <1>1
  <2> QED BY <2>2, <2>4, <2>5, <2>6
<1>3. {p \in ps : At(v, k, p)} = {p \in ps : At(u, j + k - 1, p)}
  BY <1>2
<1>4. Found(ps, v, k) <=> Found(ps, u, j + k - 1)
  BY <1>2 DEF Found
<1>5. Longest(ps, v, k) = Longest(ps, u, j + k - 1)
  BY <1>3 DEF Longest
<1>6. v[k] = u[j + k - 1]
  BY <1>1
<1>7. Emit(ps, v, k) = Emit(ps, u, j + k - 1)
  BY <1>4, <1>6 DEF Emit
<1>8. CASE Found(ps, v, k)
  <2>1. PICK p \in ps : p = Longest(ps, v, k) /\ Len(p) \in Nat
    BY <1>8, <1>1, LongestFound DEF Searchable, IsText
  <2>2. After(ps, v, k) = k + Len(p) /\ After(ps, u, j + k - 1) = j + k - 1 + Len(p)
    BY <1>8, <1>4, <1>5, <2>1 DEF After
  <2> QED BY <1>7, <2>1, <2>2
<1>9. CASE ~Found(ps, v, k)
  <2>1. After(ps, v, k) = k + 1 /\ After(ps, u, j + k - 1) = j + k - 1 + 1
    BY <1>9, <1>4 DEF After
  <2> QED BY <1>7, <2>1
<1> QED BY <1>8, <1>9

(* From a place on, a pass does what one over the rest of the text does. *)
LEMMA Shift ==
  ASSUME NEW ps, Searchable(ps), NEW S, NEW u \in Seq(S), NEW j \in 1..Len(u) + 1,
         NEW v \in Seq(S), RestOf(u, j, v),
         NEW g, IsWalk(ps, u, Len(u), S, g), NEW h, IsWalk(ps, v, Len(v), S, h)
  PROVE  h[1].out = g[j].out
<1> DEFINE n == Len(v)
           T == {k \in 0..n + 1 : k # 0 /\ h[k].out # g[j + k - 1].out}
<1>1. v \in Seq(S) /\ n = Len(u) + 1 - j /\ n \in Nat /\ Len(u) \in Nat
  BY DEF RestOf
<1>2. ASSUME NEW k \in 1..n + 1, k <= n
      PROVE  /\ h[k].out = Emit(ps, v, k) \o h[After(ps, v, k)].out
             /\ g[j + k - 1].out = Emit(ps, v, k) \o g[j + After(ps, v, k) - 1].out
             /\ After(ps, v, k) \in 1..n + 1 /\ After(ps, v, k) > k
  <2>1. k \in 1..n
    BY <1>1, <1>2
  <2>2. After(ps, v, k) \in k + 1..n + 1
    BY <1>1, <2>1, Advance
  <2>3. /\ Emit(ps, v, k) = Emit(ps, u, j + k - 1)
        /\ After(ps, u, j + k - 1) = After(ps, v, k) + j - 1
    BY <2>1, SubStep
  <2>4. j + k - 1 \in 1..Len(u) + 1 /\ j + k - 1 <= Len(u)
    BY <1>1, <2>1
  <2>5. g[j + k - 1].out = Emit(ps, u, j + k - 1) \o g[After(ps, u, j + k - 1)].out
    BY <2>4 DEF IsWalk
  <2>6. After(ps, v, k) + j - 1 = j + After(ps, v, k) - 1
    BY <2>2, <1>1
  <2>7. h[k].out = Emit(ps, v, k) \o h[After(ps, v, k)].out
    BY <1>2 DEF IsWalk
  <2>8. After(ps, v, k) \in 1..n + 1 /\ After(ps, v, k) > k
    BY <2>1, <2>2, <1>1
  <2>9. g[j + k - 1].out = Emit(ps, v, k) \o g[j + After(ps, v, k) - 1].out
    BY <2>3, <2>5, <2>6
  <2> QED BY <2>7, <2>8, <2>9
<1>3. ASSUME NEW k \in 1..n + 1, k > n PROVE h[k].out = g[j + k - 1].out
  <2>1. j + k - 1 \in 1..Len(u) + 1 /\ j + k - 1 > Len(u)
    BY <1>1, <1>3
  <2>2. h[k].out = <<>>
    BY <1>3 DEF IsWalk
  <2>3. g[j + k - 1].out = <<>>
    BY <2>1 DEF IsWalk
  <2> QED BY <2>2, <2>3
<1>4. T = {}
  <2> SUFFICES ASSUME T # {} PROVE FALSE
    OBVIOUS
  <2>1. PICK k \in T : \A i \in T : i <= k
    <3> T \in SUBSET (0..n + 1) /\ n + 1 \in Nat
      BY <1>1
    <3> HIDE DEF T
    <3> QED BY GreatestNatural
  <2>2. k \in 1..n + 1 /\ h[k].out # g[j + k - 1].out
    BY <2>1, <1>1
  <2>3. \A i \in 1..n + 1 : i > k => h[i].out = g[j + i - 1].out
    <3> SUFFICES ASSUME NEW i \in 1..n + 1, i > k, h[i].out # g[j + i - 1].out PROVE FALSE
      OBVIOUS
    <3>1. i \in T
      BY <1>1
    <3> HIDE DEF T
    <3> QED BY <2>1, <2>2, <3>1, <1>1
  <2> HIDE DEF T
  <2>4. k <= n
    BY <2>2, <1>3, <1>1
  <2> HIDE DEF n
  <2>5. PICK a \in 1..n + 1 : a = After(ps, v, k) /\ a > k
    BY <2>2, <2>4, <1>2
  <2>6. h[k].out = Emit(ps, v, k) \o h[a].out /\ g[j + k - 1].out = Emit(ps, v, k) \o g[j + a - 1].out
    BY <2>2, <2>4, <2>5, <1>2
  <2> QED BY <2>2, <2>3, <2>5, <2>6
<1>5. 1 \in 1..n + 1 /\ 1 \notin T /\ j + 1 - 1 = j
  <2> HIDE DEF T
  <2> QED BY <1>1, <1>4
<1> QED BY <1>5

(* A text has characters. *)
LEMMA TextIsSeq ==
  ASSUME NEW p, IsText(p)
  PROVE  p \in Seq({p[k] : k \in 1..Len(p)})
<1>1. Len(p) \in Nat /\ p = [k \in 1..Len(p) |-> p[k]]
  BY DEF IsText
<1>2. p \in [1..Len(p) -> {p[k] : k \in 1..Len(p)}]
  BY <1>1
<1> QED BY <1>1, <1>2

LEMMA PrefixAt ==
  ASSUME NEW S, NEW s \in Seq(S), NEW i \in 0..Len(s) - 1, NEW p, IsText(p), Len(p) >= Len(s) - i,
         \A k \in 1..Len(s) - i : s[i + k] = p[k]
  PROVE  At(p, 1, SubSeq(s, i + 1, Len(s)))
<1> DEFINE sub == SubSeq(s, i + 1, Len(s))
           P == {p[k] : k \in 1..Len(p)}
<1>1. Len(sub) = Len(s) - i /\ Len(sub) \in Nat /\ \A k \in 1..Len(s) - i : sub[k] = s[i + k]
  OBVIOUS
<1>2. sub \in Seq(S)
  OBVIOUS
<1>3. sub = [k \in 1..Len(sub) |-> sub[k]]
  BY <1>2
<1>4. p \in Seq(P) /\ 1 \in 1..Len(p) + 1 /\ Len(p) \in Nat
  <2>1. p \in Seq(P)
    BY TextIsSeq
  <2> QED BY <2>1 DEF IsText
<1> HIDE DEF sub, P
<1>5. IsText(sub)
  BY <1>1, <1>3 DEF IsText
<1>6. \A k \in 1..Len(sub) : p[1 + k - 1] = sub[k]
  BY <1>1
<1>7. 1 + Len(sub) - 1 <= Len(p)
  BY <1>1, <1>4
<1>8. At(p, 1, sub)
  BY <1>4, <1>5, <1>6, <1>7, AtMeans DEF Reads
<1> QED BY <1>8 DEF sub

(* Up to SafeEnd what is found in s is what is found however s goes on. *)
LEMMA SafeEndAt ==
  ASSUME NEW ps, Searchable(ps), NEW S, NEW s \in Seq(S), NEW x \in Seq(S)
  PROVE  /\ SafeEnd(ps, s) \in 0..Len(s)
         /\ \A i \in 1..SafeEnd(ps, s), p \in ps : At(s \o x, i, p) <=> At(s, i, p)
<1> DEFINE n == Len(s)
           longest == Max({Len(p) : p \in ps})
           from == IF n > longest - 1 THEN n - (longest - 1) ELSE 0
           begins == {i \in from..n - 1 : \E p \in ps :
                        Len(p) >= n - i /\ At(p, 1, SubSeq(s, i + 1, n))}
<1>n. n \in Nat /\ s \o x \in Seq(S) /\ Len(s \o x) = n + Len(x) /\ Len(x) \in Nat
      /\ \A k \in 1..n : (s \o x)[k] = s[k]
  OBVIOUS
<1>e. SafeEnd(ps, s) = IF begins = {} THEN n ELSE Min(begins)
  BY DEF SafeEnd
<1>p. \A p \in ps : IsText(p) /\ Len(p) \in Nat /\ Len(p) > 0
  BY DEF Searchable, IsText
<1>1. CASE ps = {}
  <2>1. begins = {}
    BY <1>1
  <2>2. SafeEnd(ps, s) = n
    BY <1>e, <2>1
  <2> QED BY <1>1, <1>n, <2>2
<1>2. CASE ps # {}
  <2>1. longest \in Nat /\ longest > 0 /\ \A p \in ps : Len(p) <= longest
    <3> DEFINE L == {Len(p) : p \in ps}
    <3>1. PICK m \in Nat : \A p \in ps : Len(p) <= m
      BY DEF Searchable
    <3>2. L \in SUBSET (0..m) /\ L # {}
      <4>1. PICK p \in ps : TRUE
        BY <1>2
      <4>2. Len(p) \in L
        OBVIOUS
      <4>3. \A k \in L : k \in 0..m
        BY <1>p, <3>1
      <4> HIDE DEF L
      <4> QED BY <4>2, <4>3
    <3>3. \A k \in L : k \in Nat /\ k > 0
      BY <1>p
    <3>4. \A p \in ps : Len(p) \in L
      OBVIOUS
    <3> HIDE DEF L
    <3>5. PICK l \in L : \A k \in L : k <= l
      BY <3>1, <3>2, GreatestNatural
    <3>6. Max(L) \in L /\ \A k \in L : Max(L) >= k
      <4>1. \A k \in L : l >= k
        BY <3>3, <3>5
      <4> QED BY <3>5, <4>1 DEF Max
    <3>7. longest = Max(L)
      BY DEF L
    <3> HIDE DEF longest
    <3> QED BY <3>3, <3>4, <3>6, <3>7
  <2> HIDE DEF longest
  <2>2. from \in 0..n
    BY <2>1, <1>n
  <2>3. begins \in SUBSET (0..n - 1)
    BY <2>2, <1>n
  <2>4. SafeEnd(ps, s) \in 0..n /\ \A i \in begins : SafeEnd(ps, s) <= i
    <3>1. CASE begins = {}
      <4>1. SafeEnd(ps, s) = n
        BY <1>e, <3>1
      <4> HIDE DEF begins
      <4> QED BY <3>1, <4>1, <1>n
    <3>2. CASE begins # {}
      <4> HIDE DEF begins
      <4>1. begins \in SUBSET Nat
        BY <2>3, <1>n
      <4>2. PICK b \in begins : \A i \in begins : b <= i
        BY <3>2, <4>1, LeastNatural
      <4>3. Min(begins) \in begins /\ \A i \in begins : Min(begins) <= i
        BY <4>2 DEF Min
      <4> QED BY <1>e, <3>2, <4>3, <2>3, <1>n
    <3> QED BY <3>1, <3>2
  <2>5. ASSUME NEW i \in 1..SafeEnd(ps, s), NEW p \in ps PROVE At(s \o x, i, p) <=> At(s, i, p)
    <3>1. i \in 1..n /\ i \in 1..Len(s) + 1 /\ i \in 1..Len(s \o x) + 1
      BY <2>4, <1>n
    <3>2. IsText(p) /\ Len(p) \in Nat /\ Len(p) > 0 /\ Len(p) <= longest
      BY <1>p, <2>1
    <3>3. At(s, i, p) <=> i + Len(p) - 1 <= n /\ \A k \in 1..Len(p) : s[i + k - 1] = p[k]
      <4>1. At(s, i, p) <=> Reads(s, i, p)
        BY <3>1, <3>2, AtMeans
      <4> QED BY <4>1 DEF Reads
    <3>4. At(s \o x, i, p) <=> /\ i + Len(p) - 1 <= Len(s \o x)
                               /\ \A k \in 1..Len(p) : (s \o x)[i + k - 1] = p[k]
      <4>1. PICK u \in Seq(S) : u = s \o x
        BY <1>n
      <4>2. i \in 1..Len(u) + 1
        BY <3>1, <4>1
      <4>3. At(u, i, p) <=> Reads(u, i, p)
        BY <3>2, <4>2, AtMeans
      <4> QED BY <4>1, <4>3 DEF Reads
    <3>5. \A k \in 1..Len(p) : i + k - 1 <= n => (s \o x)[i + k - 1] = s[i + k - 1]
      <4> TAKE k \in 1..Len(p)
      <4>1. i + k - 1 \in Nat /\ i + k - 1 > 0
        BY <3>1, <3>2
      <4> QED BY <4>1, <1>n
    <3>6. CASE i + Len(p) - 1 <= n
      <4>1. \A k \in 1..Len(p) : i + k - 1 <= n
        BY <3>6, <3>2, <3>1, <1>n
      <4>2. i + Len(p) - 1 <= Len(s \o x)
        BY <3>6, <3>2, <3>1, <1>n
      <4> QED BY <3>3, <3>4, <3>5, <3>6, <4>1, <4>2
    <3>7. CASE ~(i + Len(p) - 1 <= n)
      <4>1. SUFFICES ASSUME At(s \o x, i, p) PROVE FALSE
        BY <3>7, <3>3
      <4>2. i - 1 \in from..n - 1 /\ i - 1 \in 0..Len(s) - 1
        BY <3>1, <3>2, <3>7, <1>n, <2>1
      <4>3. Len(p) >= n - (i - 1)
        BY <3>1, <3>2, <3>7, <1>n
      <4>4. ASSUME NEW k \in 1..n - (i - 1) PROVE s[i - 1 + k] = p[k]
        <5>1. k \in 1..Len(p) /\ i + k - 1 <= n /\ i + k - 1 = i - 1 + k
          BY <4>3, <3>1, <3>2, <1>n
        <5> QED BY <5>1, <3>4, <3>5, <4>1
      <4>5. At(p, 1, SubSeq(s, i - 1 + 1, n))
        <5> DEFINE j == i - 1
        <5>1. j \in 0..Len(s) - 1 /\ Len(p) >= Len(s) - j /\ \A k \in 1..Len(s) - j : s[j + k] = p[k]
          BY <4>2, <4>3, <4>4
        <5> HIDE DEF j
        <5>2. At(p, 1, SubSeq(s, j + 1, Len(s)))
          BY <5>1, <3>2, PrefixAt
        <5> QED BY <5>2 DEF j
      <4>6. i - 1 \in begins
        BY <4>2, <4>3, <4>5
      <4> HIDE DEF begins
      <4> QED BY <2>4, <4>6, <3>1
    <3> QED BY <3>6, <3>7
  <2> QED BY <2>4, <2>5
<1> QED BY <1>1, <1>2

(* What is passed on of a text, and the redaction of what is held back together with whatever *)
(* comes, is the redaction of all of it.                                                      *)
LEMMA RedactTypes ==
  ASSUME NEW ps, Searchable(ps), NEW S, NEW s \in Seq(S)
  PROVE  redact_all(ps, s) \in Seq(S \cup {MARKER})
<1>1. Len(s) \in 0..Len(s) /\ Len(s) \in Nat
  OBVIOUS
<1>2. PICK w : IsWalk(ps, s, Len(s), S, w) /\ Pass(ps, s, Len(s)) = w[1]
  BY <1>1, PassWalks
<1>3. w[1].out \in Seq(S \cup {MARKER})
  BY <1>1, <1>2 DEF IsWalk
<1> QED BY <1>2, <1>3 DEF redact_all

LEMMA RedactNothing ==
  ASSUME NEW ps, Searchable(ps)
  PROVE  redact_all(ps, <<>>) = <<>>
<1>1. PICK e \in Seq({MARKER}) : e = <<>> /\ Len(e) = 0
  <2>1. <<>> \in Seq({MARKER}) /\ Len(<<>>) = 0
    OBVIOUS
  <2> QED BY <2>1
<1>2. PICK w : IsWalk(ps, e, Len(e), {MARKER}, w) /\ Pass(ps, e, Len(e)) = w[1]
  <2>1. Len(e) \in 0..Len(e)
    BY <1>1
  <2> QED BY <2>1, PassWalks
<1>3. w[1].out = <<>>
  <2>1. 1 \in 1..Len(e) + 1 /\ 1 > Len(e)
    BY <1>1
  <2> QED BY <1>2, <2>1 DEF IsWalk
<1> QED BY <1>1, <1>2, <1>3 DEF redact_all

(* Whatever comes after s, the redaction of all of it is out, and then that of what is held *)
(* back and of what comes.                                                                   *)
Splits(ps, S, s, out, pending) ==
  \A x \in Seq(S) : redact_all(ps, s \o x) = out \o redact_all(ps, pending \o x)

LEMMA PushSplits ==
  ASSUME NEW ps, Searchable(ps), NEW S, NEW held \in Seq(S), NEW chunk \in Seq(S)
  PROVE  \E out \in Seq(S \cup {MARKER}), pending \in Seq(S) :
           /\ Push(ps, held, chunk) = [out |-> out, pending |-> pending]
           /\ Splits(ps, S, held \o chunk, out, pending)
<1> DEFINE pushed == Push(ps, held, chunk)
<1>1. PICK s \in Seq(S) : s = held \o chunk
  <2>1. held \o chunk \in Seq(S)
    OBVIOUS
  <2> QED BY <2>1
<1>2. PICK end \in 0..Len(s) : end = SafeEnd(ps, s)
  <2>1. <<>> \in Seq(S)
    OBVIOUS
  <2> QED BY <2>1, SafeEndAt
<1>3. PICK f : IsWalk(ps, s, end, S, f) /\ Pass(ps, s, end) = f[1]
  BY PassWalks
<1>4. PICK pos \in 1..Len(s) + 1, out \in Seq(S \cup {MARKER}) : pos = f[1].pos /\ out = f[1].out
  <2>1. 1 \in 1..Len(s) + 1
    OBVIOUS
  <2>2. f[1] \in [out : Seq(S \cup {MARKER}), pos : 1..Len(s) + 1]
    BY <1>3, <2>1 DEF IsWalk
  <2> QED BY <2>2
<1>5. PICK pending \in Seq(S) : pending = SubSeq(s, pos, Len(s)) /\ RestOf(s, pos, pending)
  BY SubRest
<1>6. pushed = [out |-> out, pending |-> pending]
  BY <1>1, <1>2, <1>3, <1>4, <1>5 DEF Push
<1>7. ASSUME NEW x \in Seq(S)
      PROVE  redact_all(ps, s \o x) = out \o redact_all(ps, pending \o x)
  <2>c. s \o x \in Seq(S) /\ pending \o x \in Seq(S)
    OBVIOUS
  <2>1. PICK u \in Seq(S) : u = s \o x
    BY <2>c
  <2>2. PICK v \in Seq(S) : v = pending \o x
    BY <2>c
  <2>3. RestOf(u, pos, v) /\ pos \in 1..Len(u) + 1
    <3>1. Len(u) = Len(s) + Len(x) /\ Len(v) = Len(pending) + Len(x) /\ Len(x) \in Nat /\ Len(s) \in Nat
          /\ Len(pending) = Len(s) + 1 - pos
      <4>1. Len(u) = Len(s) + Len(x) /\ Len(x) \in Nat /\ Len(s) \in Nat
        BY <2>1
      <4>2. Len(v) = Len(pending) + Len(x)
        BY <2>2
      <4>3. Len(pending) = Len(s) + 1 - pos
        BY <1>5 DEF RestOf
      <4> QED BY <4>1, <4>2, <4>3
    <3>2. ASSUME NEW k \in 1..Len(v) PROVE v[k] = u[pos + k - 1]
      <4>1. CASE k <= Len(pending)
        <5>1. k \in 1..Len(pending) /\ pos + k - 1 \in 1..Len(s)
          BY <4>1, <3>1
        <5>2. v[k] = pending[k] /\ u[pos + k - 1] = s[pos + k - 1]
          BY <5>1, <2>1, <2>2
        <5> QED BY <5>1, <5>2, <1>5 DEF RestOf
      <4>2. CASE ~(k <= Len(pending))
        <5>1. k - Len(pending) \in 1..Len(x) /\ pos + k - 1 - Len(s) = k - Len(pending)
              /\ pos + k - 1 > Len(s) /\ pos + k - 1 <= Len(s) + Len(x)
          BY <4>2, <3>1
        <5>2. v[k] = x[k - Len(pending)]
          <6>1. k \in 1..Len(pending) + Len(x)
            BY <3>1
          <6> QED BY <6>1, <4>2, <2>2
        <5>3. u[pos + k - 1] = x[pos + k - 1 - Len(s)]
          BY <5>1, <3>1, <2>1
        <5> QED BY <5>1, <5>2, <5>3
      <4> QED BY <4>1, <4>2
    <3>3. Len(v) = Len(u) + 1 - pos /\ pos \in 1..Len(u) + 1
      BY <3>1
    <3> QED BY <3>2, <3>3 DEF RestOf
  <2>4. PICK g : IsWalk(ps, u, Len(u), S, g) /\ Pass(ps, u, Len(u)) = g[1]
    <3>1. Len(u) \in 0..Len(u)
      OBVIOUS
    <3> QED BY <3>1, PassWalks
  <2>5. PICK h : IsWalk(ps, v, Len(v), S, h) /\ Pass(ps, v, Len(v)) = h[1]
    <3>1. Len(v) \in 0..Len(v)
      OBVIOUS
    <3> QED BY <3>1, PassWalks
  <2>6. h[1].out = g[pos].out
    BY <2>3, <2>4, <2>5, Shift
  <2>7. ASSUME NEW i \in 1..end
        PROVE  After(ps, u, i) = After(ps, s, i) /\ Emit(ps, u, i) = Emit(ps, s, i)
    <3>1. \A p \in ps : At(u, i, p) <=> At(s, i, p)
      BY <1>2, <2>1, SafeEndAt
    <3>2. Found(ps, u, i) <=> Found(ps, s, i)
      BY <3>1 DEF Found
    <3>3. {p \in ps : At(u, i, p)} = {p \in ps : At(s, i, p)}
      BY <3>1
    <3>4. Longest(ps, u, i) = Longest(ps, s, i)
      BY <3>3 DEF Longest
    <3>5. u[i] = s[i]
      BY <2>1, <1>2
    <3> QED BY <3>2, <3>4, <3>5 DEF After, Emit
  <2>8. g[1].out = f[1].out \o g[f[1].pos].out
    <3>1. 1 \in 1..Len(s) + 1
      OBVIOUS
    <3>2. Len(s) <= Len(u)
      BY <2>1
    <3>4. Continues(f, g, Len(s))
      <4>1. Searchable(ps) /\ s \in Seq(S) /\ u \in Seq(S) /\ end \in 0..Len(s)
        OBVIOUS
      <4>2. IsWalk(ps, s, end, S, f) /\ IsWalk(ps, u, Len(u), S, g)
        BY <1>3, <2>4
      <4>3. Agrees(ps, s, u, end)
        BY <2>7 DEF Agrees
      <4> QED BY <4>2, <4>3, <3>2, Follow
    <3> QED BY <3>1, <3>4 DEF Continues
  <2>9. redact_all(ps, u) = g[1].out /\ redact_all(ps, v) = h[1].out
    BY <2>4, <2>5 DEF redact_all
  <2> QED BY <2>1, <2>2, <2>6, <2>8, <2>9, <1>4
<1>8. Splits(ps, S, held \o chunk, out, pending)
  BY <1>1, <1>7 DEF Splits
<1> QED BY <1>6, <1>8

(* No value is left in what was redacted. *)
LEMMA RedactClean ==
  ASSUME NEW ps, Searchable(ps), NEW S, NEW s \in Seq(S), NEW p \in ps
  PROVE  ~Occurs(redact_all(ps, s), p)
<1> DEFINE n == Len(s)
           C == S \cup {MARKER}
<1>n. n \in Nat /\ n \in 0..Len(s)
  OBVIOUS
<1>1. PICK w : IsWalk(ps, s, n, S, w) /\ Pass(ps, s, n) = w[1]
  BY <1>n, PassWalks
<1>p. IsText(p) /\ Len(p) \in Nat /\ Len(p) > 0 /\ \A k \in 1..Len(p) : p[k] # MARKER
  BY DEF Searchable, IsText
<1>t. \A i \in 1..n + 1 : w[i].out \in Seq(C)
  BY <1>1 DEF IsWalk
<1>j. \A i \in 1..n : After(ps, s, i) \in i + 1..n + 1
  BY Advance
<1> HIDE DEF n, C
<1>e. w[n + 1].out = <<>>
  BY <1>n, <1>1 DEF IsWalk, n
<1>s. ASSUME NEW i \in 1..n
      PROVE  \E a \in i + 1..n + 1, c \in C :
               /\ a = After(ps, s, i) /\ w[i].out = <<c>> \o w[a].out
               /\ Found(ps, s, i) => c = MARKER
               /\ ~Found(ps, s, i) => c = s[i] /\ a = i + 1
  <2>1. i \in 1..Len(s) + 1 /\ i <= n /\ s[i] \in S
    BY <1>n DEF n
  <2>2. w[i].out = Emit(ps, s, i) \o w[After(ps, s, i)].out
    BY <2>1, <1>1 DEF IsWalk
  <2>3. PICK a \in i + 1..n + 1 : a = After(ps, s, i)
    BY <1>j
  <2>4. CASE Found(ps, s, i)
    <3>1. MARKER \in C /\ w[i].out = <<MARKER>> \o w[a].out
      BY <2>2, <2>3, <2>4 DEF Emit, C
    <3> QED BY <2>3, <2>4, <3>1
  <2>5. CASE ~Found(ps, s, i)
    <3>1. s[i] \in C /\ w[i].out = <<s[i]>> \o w[a].out /\ a = i + 1
      BY <2>1, <2>2, <2>3, <2>5 DEF Emit, After, C
    <3> QED BY <2>3, <2>5, <3>1
  <2> QED BY <2>4, <2>5
(* Text without the marker that a place begins with is there in s. *)
<1> DEFINE Same(i) == \A l \in 1..Len(w[i].out) :
                        (\A k \in 1..l : w[i].out[k] # MARKER) =>
                          i + l - 1 <= n /\ \A k \in 1..l : s[i + k - 1] = w[i].out[k]
           T == {i \in 0..n + 1 : i # 0 /\ ~Same(i)}
<1>2. T = {}
  <2> SUFFICES ASSUME T # {} PROVE FALSE
    OBVIOUS
  <2> HIDE DEF Same
  <2>1. PICK i \in T : \A k \in T : k <= i
    <3> T \in SUBSET (0..n + 1) /\ n + 1 \in Nat
      BY <1>n
    <3> HIDE DEF T
    <3> QED BY GreatestNatural
  <2>2. i \in 1..n + 1 /\ ~Same(i)
    BY <2>1, <1>n
  <2>3. \A k \in 1..n + 1 : k > i => Same(k)
    <3> SUFFICES ASSUME NEW k \in 1..n + 1, k > i, ~Same(k) PROVE FALSE
      OBVIOUS
    <3>1. k \in T
      BY <1>n
    <3> HIDE DEF T
    <3> QED BY <2>1, <2>2, <3>1, <1>n
  <2> HIDE DEF T
  <2>4. CASE i = n + 1
    <3>1. Len(w[i].out) = 0
      BY <2>4, <1>e
    <3> QED BY <2>2, <3>1 DEF Same
  <2>5. CASE i # n + 1
    <3>1. i \in 1..n
      BY <2>2, <2>5, <1>n
    <3>2. PICK a \in i + 1..n + 1, c \in C :
            /\ a = After(ps, s, i) /\ w[i].out = <<c>> \o w[a].out
            /\ Found(ps, s, i) => c = MARKER
            /\ ~Found(ps, s, i) => c = s[i] /\ a = i + 1
      BY <3>1, <1>s
    <3>3. PICK v \in Seq(C) : v = w[a].out
      BY <3>1, <3>2, <1>t, <1>n
    <3>4. PICK u \in Seq(C) : u = w[i].out
      BY <3>1, <1>t, <1>n
    <3>5. Len(u) = Len(v) + 1 /\ u[1] = c /\ Len(v) \in Nat /\ \A k \in 1..Len(v) : u[k + 1] = v[k]
      BY <3>2, <3>3, <3>4
    <3>6. ASSUME NEW l \in 1..Len(u), \A k \in 1..l : u[k] # MARKER
          PROVE  i + l - 1 <= n /\ \A k \in 1..l : s[i + k - 1] = u[k]
      <4>1. c # MARKER /\ c = s[i] /\ a = i + 1
        <5>1. 1 \in 1..l
          BY <3>5, <3>6
        <5> QED BY <5>1, <3>2, <3>5, <3>6
      <4>2. CASE l = 1
        <5>1. \A k \in 1..l : k = 1
          BY <4>2
        <5>2. i + 1 - 1 = i /\ i <= n
          BY <3>1, <1>n
        <5> QED BY <4>1, <4>2, <5>1, <5>2, <3>5
      <4>3. CASE l # 1
        <5>1. l - 1 \in 1..Len(v)
          BY <4>3, <3>5
        <5>2. \A k \in 1..l - 1 : v[k] # MARKER
          <6> TAKE k \in 1..l - 1
          <6>1. k + 1 \in 1..l /\ k \in 1..Len(v)
            BY <3>5
          <6> QED BY <6>1, <3>5, <3>6
        <5>3. Same(a) /\ a \in 1..n + 1
          BY <2>3, <3>1, <3>2, <1>n
        <5>4. a + (l - 1) - 1 <= n /\ \A k \in 1..l - 1 : s[a + k - 1] = v[k]
          BY <3>3, <5>1, <5>2, <5>3 DEF Same
        <5>5. ASSUME NEW k \in 1..l PROVE s[i + k - 1] = u[k]
          <6>1. CASE k = 1
            <7>1. i + k - 1 = i
              BY <6>1, <3>1
            <7> QED BY <6>1, <7>1, <4>1, <3>5
          <6>2. CASE k # 1
            <7>1. k - 1 \in 1..l - 1 /\ k - 1 \in 1..Len(v) /\ (k - 1) + 1 = k
                  /\ a + (k - 1) - 1 = i + k - 1
              BY <6>2, <5>1, <4>1, <3>1, <3>5
            <7>2. s[i + k - 1] = v[k - 1]
              BY <5>4, <7>1
            <7>3. u[k] = v[k - 1]
              BY <3>5, <7>1
            <7> QED BY <7>2, <7>3
          <6> QED BY <6>1, <6>2
        <5>6. i + l - 1 <= n
          BY <5>4, <4>1, <3>1, <5>1
        <5> QED BY <5>5, <5>6
      <4> QED BY <4>2, <4>3
    <3> QED BY <2>2, <3>4, <3>6 DEF Same
  <2> QED BY <2>4, <2>5
<1>3. \A i \in 1..n + 1 : Same(i)
  <2> HIDE DEF Same
  <2> QED BY <1>2, <1>n
<1> HIDE DEF T, Same
(* p is nowhere. *)
<1> DEFINE Clean(i) == \A l \in 1..Len(w[i].out) : ~At(w[i].out, l, p)
           U == {i \in 0..n + 1 : i # 0 /\ ~Clean(i)}
<1>4. U = {}
  <2> SUFFICES ASSUME U # {} PROVE FALSE
    OBVIOUS
  <2> HIDE DEF Clean
  <2>1. PICK i \in U : \A k \in U : k <= i
    <3> U \in SUBSET (0..n + 1) /\ n + 1 \in Nat
      BY <1>n
    <3> HIDE DEF U
    <3> QED BY GreatestNatural
  <2>2. i \in 1..n + 1 /\ ~Clean(i)
    BY <2>1, <1>n
  <2>3. \A k \in 1..n + 1 : k > i => Clean(k)
    <3> SUFFICES ASSUME NEW k \in 1..n + 1, k > i, ~Clean(k) PROVE FALSE
      OBVIOUS
    <3>1. k \in U
      BY <1>n
    <3> HIDE DEF U
    <3> QED BY <2>1, <2>2, <3>1, <1>n
  <2> HIDE DEF U
  <2>4. PICK u \in Seq(C) : u = w[i].out
    BY <2>2, <1>t
  <2>5. PICK l \in 1..Len(u) : At(u, l, p)
    BY <2>2, <2>4 DEF Clean
  <2>6. l + Len(p) - 1 <= Len(u) /\ \A k \in 1..Len(p) : u[l + k - 1] = p[k]
    <3>1. l \in 1..Len(u) + 1
      OBVIOUS
    <3>2. Reads(u, l, p)
      BY <2>5, <3>1, <1>p, AtMeans
    <3> QED BY <3>2 DEF Reads
  <2>7. i \in 1..n
    <3>1. i # n + 1
      BY <1>e, <2>4, <2>5
    <3> QED BY <2>2, <3>1, <1>n
  <2>8. PICK a \in i + 1..n + 1, c \in C :
          /\ a = After(ps, s, i) /\ w[i].out = <<c>> \o w[a].out
          /\ Found(ps, s, i) => c = MARKER
          /\ ~Found(ps, s, i) => c = s[i] /\ a = i + 1
    BY <2>7, <1>s
  <2>9. PICK v \in Seq(C) : v = w[a].out
    BY <2>7, <2>8, <1>t, <1>n
  <2>10. Len(u) = Len(v) + 1 /\ u[1] = c /\ Len(v) \in Nat /\ \A k \in 1..Len(v) : u[k + 1] = v[k]
    BY <2>4, <2>8, <2>9
  <2>11. CASE l = 1
    <3>1. \A k \in 1..Len(p) : u[k] = p[k]
      <4> TAKE k \in 1..Len(p)
      <4>1. l + k - 1 = k
        BY <2>11, <1>p
      <4> QED BY <4>1, <2>6
    <3>2. Len(p) \in 1..Len(u)
      BY <2>6, <2>11, <1>p
    <3>3. Same(i) /\ i \in 1..n + 1
      BY <1>3, <2>7, <1>n
    <3>4. i + Len(p) - 1 <= n /\ \A k \in 1..Len(p) : s[i + k - 1] = u[k]
      BY <3>1, <3>2, <3>3, <2>4, <1>p DEF Same
    <3>5. At(s, i, p)
      <4>1. i \in 1..Len(s) + 1
        BY <2>7, <1>n DEF n
      <4>2. Reads(s, i, p)
        BY <3>1, <3>4 DEF n, Reads
      <4> QED BY <4>1, <4>2, <1>p, AtMeans
    <3>6. c = MARKER
      BY <2>8, <3>5 DEF Found
    <3>7. 1 \in 1..Len(p)
      BY <1>p
    <3> QED BY <3>1, <3>6, <3>7, <2>10, <1>p
  <2>12. CASE l # 1
    <3>1. l - 1 \in 1..Len(v) /\ l - 1 \in 1..Len(v) + 1
      BY <2>12, <2>10
    <3>2. l - 1 + Len(p) - 1 <= Len(v)
      BY <2>6, <2>10, <1>p
    <3>3. ASSUME NEW k \in 1..Len(p) PROVE v[l - 1 + k - 1] = p[k]
      <4>1. l - 1 + k - 1 \in 1..Len(v) /\ (l - 1 + k - 1) + 1 = l + k - 1
        <5>1. l \in Nat /\ k \in Nat /\ k >= 1 /\ l - 1 >= 1 /\ k <= Len(p) /\ Len(p) \in Nat
          BY <3>1, <1>p
        <5>2. PICK m \in Nat : m = Len(v)
          BY <2>10
        <5>3. PICK q \in Nat : q = Len(p)
          BY <5>1
        <5>4. l - 1 + q - 1 <= m /\ k <= q
          BY <5>1, <5>2, <5>3, <3>2
        <5> QED BY ONLY <5>1, <5>2, <5>3, <5>4
      <4> QED BY <4>1, <2>6, <2>10
    <3>4. At(v, l - 1, p)
      <4>1. PICK m \in 1..Len(v) + 1 : m = l - 1
        BY <3>1
      <4>2. m + Len(p) - 1 <= Len(v) /\ \A k \in 1..Len(p) : v[m + k - 1] = p[k]
        BY <3>2, <3>3, <4>1
      <4>3. At(v, m, p)
        <5>1. Reads(v, m, p)
          BY <4>2 DEF Reads
        <5> QED BY <5>1, <1>p, AtMeans
      <4> QED BY <4>1, <4>3
    <3>5. Clean(a)
      BY <2>3, <2>7, <2>8, <1>n
    <3> QED BY <3>1, <3>4, <3>5, <2>9 DEF Clean
  <2> QED BY <2>11, <2>12
<1>5. Clean(1)
  <2> HIDE DEF Clean
  <2> QED BY <1>4, <1>n
<1>6. redact_all(ps, s) = w[1].out
  BY <1>1 DEF redact_all, n
<1> QED BY <1>5, <1>6 DEF Occurs

--------------------------------------------------------------------------------
(* What the redactor of a command looks for. *)

LEMMA ConcatEmpty == \A C : \A a \in Seq(C) : a \o <<>> = a /\ <<>> \o a = a /\ <<>> \in Seq(C)
OBVIOUS

(* The values that the command gets, of the plan. *)
ValuesOf(plan) == {plan.set[k] : k \in DOMAIN plan.set} \cup {plan.files[k] : k \in DOMAIN plan.files}

(* A credential is no marker either. *)
LEMMA CredentialText ==
  ASSUME NEW n \in DOMAIN ExecInputs, NEW i, i = ExecInputs[n],
         NEW sel, NEW values, NEW creds, NEW plan, Plans(i, sel, values, creds, plan),
         NEW k \in DOMAIN creds
  PROVE  \E name : name # MARKER /\ creds[k] = <<"lease", name>>
<1>1. PICK ran \in SUBSET Chosen(i, sel) : creds = Credentials(i, ran)
  BY DEF Plans
<1>2. i.leases \in Seq(Range(i.leases)) /\ \A l \in Range(i.leases) : l.name # MARKER
  BY ExecAssumption
<1>3. ran \in SUBSET (1..Len(i.leases)) /\ Len(i.leases) \in Nat
  BY <1>2 DEF Chosen
<1> DEFINE made == {m \in ran : k \in i.leases[m].produces}
<1>4. creds[k] = <<"lease", i.leases[Max(made)].name>> /\ made # {}
  BY <1>1 DEF Credentials
<1>5. Max(made) \in made
  <2>1. made \in SUBSET (0..Len(i.leases)) /\ made # {}
    BY <1>3, <1>4
  <2>2. PICK m \in made : \A j \in made : j <= m
    BY <1>3, <2>1, GreatestNatural
  <2>3. \A j \in made : m >= j
    BY <1>3, <2>2
  <2> HIDE DEF made
  <2> QED BY <2>3 DEF Max
<1>6. Max(made) \in 1..Len(i.leases)
  BY <1>3, <1>5
<1> HIDE DEF made
<1>7. i.leases[Max(made)] \in Range(i.leases)
  BY <1>2, <1>6 DEF Range
<1> QED BY <1>2, <1>4, <1>7

LEMMA TrimIs ==
  ASSUME NEW v, IsText(v), \A k \in 1..Len(v) : v[k] # MARKER
  PROVE  /\ IsText(trim(v)) /\ Len(trim(v)) \in Nat /\ Len(trim(v)) <= Len(v)
         /\ \A k \in 1..Len(trim(v)) : trim(v)[k] # MARKER
<1> DEFINE ink == {k \in 1..Len(v) : v[k] \notin Whitespace}
           from == Min(ink)
           to == Max(ink)
           S == {v[k] : k \in 1..Len(v)}
<1>1. Len(v) \in Nat /\ v \in Seq(S)
  <2>1. Len(v) \in Nat /\ v = [k \in 1..Len(v) |-> v[k]]
    BY DEF IsText
  <2>2. \A k \in 1..Len(v) : v[k] \in S
    OBVIOUS
  <2>3. [k \in 1..Len(v) |-> v[k]] \in Seq(S)
    <3> HIDE DEF S
    <3> QED BY <2>1, <2>2
  <2> HIDE DEF S
  <2> QED BY <2>1, <2>3
<1>2. CASE ink = {}
  BY <1>1, <1>2 DEF trim, IsText
<1>3. CASE ink # {}
  <2>1. from \in ink /\ to \in ink
    <3>1. ink \in SUBSET Nat /\ ink \in SUBSET (0..Len(v))
      BY <1>1
    <3>2. PICK a \in ink : \A k \in ink : a <= k
      <4> HIDE DEF ink
      <4> QED BY <1>3, <3>1, LeastNatural
    <3>3. PICK b \in ink : \A k \in ink : k <= b
      <4> HIDE DEF ink
      <4> QED BY <1>1, <1>3, <3>1, GreatestNatural
    <3>4. \A k \in ink : b >= k
      BY <1>1, <3>3
    <3> HIDE DEF ink
    <3> QED BY <3>2, <3>4 DEF Min, Max
  <2>2. trim(v) = SubSeq(v, from, to)
    BY <1>3 DEF trim
  <2>3. from \in 1..Len(v) /\ to \in 1..Len(v)
    BY <2>1
  <2> HIDE DEF ink, from, to, S
  <2>4. /\ SubSeq(v, from, to) = [k \in 1..(to - from + 1) |-> v[from + k - 1]]
        /\ Len(SubSeq(v, from, to)) = IF from <= to THEN to - from + 1 ELSE 0
    BY <1>1, <2>3
  <2>5. CASE from <= to
    <3>1. to - from + 1 \in 1..Len(v)
      BY <1>1, <2>3, <2>5
    <3>2. \A k \in 1..(to - from + 1) : from + k - 1 \in 1..Len(v)
      BY <1>1, <2>3, <2>5
    <3> QED BY <1>1, <2>2, <2>4, <2>5, <3>1, <3>2 DEF IsText
  <2>6. CASE ~(from <= to)
    <3>1. SubSeq(v, from, to) = <<>>
      BY <1>1, <2>3, <2>6
    <3> QED BY <1>1, <2>2, <3>1 DEF IsText
  <2> QED BY <2>5, <2>6
<1> QED BY <1>2, <1>3

LEMMA PatternsSearchable ==
  ASSUME NEW n \in DOMAIN ExecInputs, NEW i, i = ExecInputs[n],
         NEW sel, NEW values, NEW creds, NEW plan, Plans(i, sel, values, creds, plan)
  PROVE  Searchable(Patterns(ValuesOf(plan)))
<1>1. PlanInv(i, sel, values, creds, plan)
  BY PlanRight
<1>2. /\ DOMAIN values \subseteq DOMAIN i.secrets
      /\ \A k \in DOMAIN values : values[k] = i.secrets[k].value
  BY DEF Plans
<1>3. \A v \in ValuesOf(plan) : (\E k \in DOMAIN creds : v = creds[k])
                               \/ (\E k \in DOMAIN i.secrets : v = i.secrets[k].value)
  BY <1>1, <1>2 DEF PlanInv, ValuesOf
<1>4. MIN_REDACT_LENGTH \in Nat \ {0} /\ MARKER \notin Bytes \cup Whitespace /\ MARKER # "lease"
  BY ExecAssumption
<1>5. \A k \in DOMAIN i.secrets : i.secrets[k].value \in Seq(Bytes \cup Whitespace)
  BY ExecAssumption
<1>6. \A k \in DOMAIN creds : \E name : name # MARKER /\ creds[k] = <<"lease", name>>
  BY CredentialText
<1>7. \A name : name # MARKER =>
         /\ IsText(<<"lease", name>>) /\ Len(<<"lease", name>>) = 2
         /\ \A k \in 1..Len(<<"lease", name>>) : <<"lease", name>>[k] # MARKER
  BY <1>4 DEF IsText
<1>8. \A v \in Seq(Bytes \cup Whitespace) : IsText(v) /\ Len(v) \in Nat /\ \A k \in 1..Len(v) : v[k] # MARKER
  BY <1>4 DEF IsText
<1>9. \A v \in ValuesOf(plan) : IsText(v) /\ Len(v) \in Nat /\ \A k \in 1..Len(v) : v[k] # MARKER
  BY <1>3, <1>5, <1>6, <1>7, <1>8
<1>10. \E m \in Nat : \A v \in ValuesOf(plan) : Len(v) <= m
  <2>1. CASE DOMAIN i.secrets = {}
    <3>1. \A v \in ValuesOf(plan) : Len(v) = 2
      BY <1>3, <1>6, <1>7, <2>1
    <3> QED BY <3>1
  <2>2. CASE DOMAIN i.secrets # {}
    <3>1. PICK k \in DOMAIN i.secrets :
            \A j \in DOMAIN i.secrets : Len(i.secrets[j].value) <= Len(i.secrets[k].value)
      BY <2>2, ExecAssumption
    <3>2. PICK m \in Nat : m = Len(i.secrets[k].value)
      BY <1>5, <1>8
    <3>3. \A v \in ValuesOf(plan) : Len(v) = 2 \/ Len(v) <= m
      BY <1>3, <1>6, <1>7, <3>1, <3>2
    <3>4. \A v \in ValuesOf(plan) : Len(v) <= m + 2
      BY <1>9, <3>2, <3>3
    <3>5. m + 2 \in Nat
      BY <3>2
    <3> QED BY <3>4, <3>5
  <2> QED BY <2>1, <2>2
<1>11. \A v \in ValuesOf(plan) :
         /\ IsText(trim(v)) /\ Len(trim(v)) \in Nat /\ Len(trim(v)) <= Len(v)
         /\ \A k \in 1..Len(trim(v)) : trim(v)[k] # MARKER
  BY <1>9, TrimIs
<1>12. \A p \in Patterns(ValuesOf(plan)) :
         \E v \in ValuesOf(plan) : p = trim(v) /\ Len(p) >= MIN_REDACT_LENGTH
  BY DEF Patterns, redactable
<1>13. \A p \in Patterns(ValuesOf(plan)) :
         IsText(p) /\ Len(p) > 0 /\ \A k \in 1..Len(p) : p[k] # MARKER
  BY <1>4, <1>11, <1>12
<1>14. \E m \in Nat : \A p \in Patterns(ValuesOf(plan)) : Len(p) <= m
  <2>1. PICK m \in Nat : \A v \in ValuesOf(plan) : Len(v) <= m
    BY <1>10
  <2>2. \A p \in Patterns(ValuesOf(plan)) : Len(p) <= m
    BY <1>9, <1>11, <1>12, <2>1
  <2> QED BY <2>2
<1> QED BY <1>13, <1>14 DEF Searchable

LEMMA NothingSearchable == Searchable({})
BY DEF Searchable

--------------------------------------------------------------------------------
(* What `fnox exec` passes on. *)

OutChars == Bytes \cup {MARKER}

CopyState ==
  [wrote : Seq(Bytes), pipe : Seq(Bytes), open : BOOLEAN, held : Seq(Bytes), out : Seq(OutChars),
   next : Seq(OutChars), moved : BOOLEAN, writing : BOOLEAN,
   st : {"none", "read", "write", "moved", "last", "lastMoved", "done", "failed", "broken", "error"}]

Copying == {"read", "write", "moved"}
Ending == {"last", "lastMoved", "done"}
Failing == {"failed", "broken", "error"}

(* Whatever the command goes on to write, x, what is passed on, what will be next and the *)
(* redaction of what is held back, of the pipe and of x are the redaction of all of it.   *)
Flows(c, ps, x) ==
  c.out \o (c.next \o redact_all(ps, c.held \o (c.pipe \o x))) = redact_all(ps, c.wrote \o x)

Begins(whole, t) == \E u \in Seq(OutChars) : whole = t \o u

CopyOK(c, ps) ==
  /\ c.st \in Copying => \A x \in Seq(Bytes) : Flows(c, ps, x)
  /\ c.st \in Ending => /\ c.out \o c.next = redact_all(ps, c.wrote)
                        /\ c.held = <<>> /\ c.pipe = <<>> /\ ~c.open
  /\ c.st \in Failing => \A x \in Seq(Bytes) :
       c.open \/ x = <<>> => Begins(redact_all(ps, c.wrote \o x), c.out)
  /\ c.st \in {"read", "moved", "lastMoved", "done"} => c.next = <<>>

(* Nothing is missing of what can be passed on: OutputKept, of one stream. *)
Settled(c, ps) ==
  \/ c.out = redact_all(ps, c.wrote)
  \/ c.st = "broken"
  \/ c.open /\ \/ c.st = "failed"
               \/ c.pipe = <<>> /\ c.next = <<>> /\ c.held # <<>>

OutputInv ==
  /\ copy \in [Streams -> CopyState]
  /\ ~ExecOn => exec.child = "none"
  /\ ExecOn =>
       /\ Searchable(exec.patterns)
       /\ \A s \in Streams : CopyOK(copy[s], exec.patterns)
       /\ exec.pc \in {"plan", "spawn"} => Written = {} /\ exec.result = "none"
       /\ exec.child = "running" => \A s \in Written : copy[s].open
       /\ exec.pc = "finish" /\ ~exec.cut =>
            \A s \in Written : copy[s].st = "error" \/ Settled(copy[s], exec.patterns)
       /\ exec.pc = "ended" /\ exec.result = "ok" /\ ~exec.cut =>
            \A s \in Written : Settled(copy[s], exec.patterns)

LEMMA NoCopyTyped == NoCopy \in CopyState /\ NoCopy.st = "none" /\ NoCopy.open = FALSE
BY DEF NoCopy, CopyState

LEMMA NoneOK == \A ps : \A c \in CopyState : c.st = "none" => CopyOK(c, ps)
BY DEF CopyOK, Copying, Ending, Failing

LEMMA OutputStarts == ExecInit \/ ExecIdle => OutputInv
<1> SUFFICES ASSUME ExecInit \/ ExecIdle PROVE OutputInv
  OBVIOUS
<1>1. copy = [s \in Streams |-> NoCopy]
  BY DEF ExecInit, ExecIdle
<1>2. copy \in [Streams -> CopyState] /\ \A s \in Streams : copy[s] \in CopyState /\ copy[s].st = "none"
  BY <1>1, NoCopyTyped
<1>3. ASSUME ExecOn
      PROVE  exec.patterns = {} /\ exec.pc = "plan" /\ exec.result = "none" /\ exec.child = "none"
  <2>1. ExecInit
    BY <1>3 DEF ExecIdle, ExecOn
  <2> QED BY <2>1 DEF ExecInit
<1>4. ASSUME ~ExecOn PROVE exec.child = "none"
  <2>1. ExecIdle \/ exec.pc = "plan"
    BY DEF ExecInit
  <2> QED BY <1>4, <2>1 DEF ExecIdle, ExecOn
<1> QED BY <1>2, <1>3, <1>4, NoneOK, NothingSearchable DEF OutputInv, Written

(* What OutputInv says of a stream, for the lemmas on one thread. *)
LEMMA OneStream ==
  ASSUME OutputInv, ExecOn, NEW s \in Streams
  PROVE  /\ copy[s] \in CopyState /\ CopyOK(copy[s], exec.patterns) /\ Searchable(exec.patterns)
         /\ exec.child = "running" /\ copy[s].st # "none" => copy[s].open
BY DEF OutputInv, Written

(* A step of one thread, or of the command with one stream. *)
LEMMA CopyKeeps ==
  ASSUME OutputInv, ExecInv, exec' = exec, exec.pc \in {"wait", "replaced", "drain"},
         NEW s \in Streams, NEW r \in CopyState, copy' = [copy EXCEPT ![s] = r],
         CopyOK(r, exec.patterns), exec.child = "running" /\ r.st # "none" => r.open
  PROVE  OutputInv'
<1>1. copy \in [Streams -> CopyState] /\ ExecOn
  BY DEF OutputInv, ExecOn
<1>2. /\ copy' \in [Streams -> CopyState] /\ copy'[s] = r
      /\ \A t \in Streams : t # s => copy'[t] = copy[t]
  BY <1>1
<1>3. \A t \in Streams : CopyOK(copy'[t], exec.patterns)
  BY <1>1, <1>2, OneStream
<1>4. \A t \in Streams : exec.child = "running" /\ copy'[t].st # "none" => copy'[t].open
  BY <1>1, <1>2, OneStream
<1>5. Searchable(exec.patterns)
  BY <1>1 DEF OutputInv
<1>6. ExecOn' /\ exec'.pc \notin {"plan", "spawn", "finish", "ended"}
  BY <1>1 DEF ExecOn
<1> QED BY <1>2, <1>3, <1>4, <1>5, <1>6 DEF OutputInv, Written

LEMMA OneMore ==
  ASSUME NEW C, NEW p \in Seq(C), NEW b \in C, NEW x \in Seq(C)
  PROVE  <<b>> \o x \in Seq(C) /\ Append(p, b) \o x = p \o (<<b>> \o x)
OBVIOUS

LEMMA WritesKeeps ==
  ASSUME OutputInv, ExecInv, NEW s \in Streams, Writes(s)
  PROVE  OutputInv'
<1>1. PICK b \in Bytes : copy' = [copy EXCEPT ![s].wrote = Append(@, b), ![s].pipe = Append(@, b)]
  BY DEF Writes
<1>2. /\ exec' = exec /\ exec.child = "running" /\ copy[s].st # "none" /\ ExecOn
      /\ copy \in [Streams -> CopyState] /\ exec.pc \in {"wait", "replaced"}
  BY DEF Writes, Written, OutputInv, ExecInv, ExecOn
<1> DEFINE c == copy[s]
           ps == exec.patterns
           r == [c EXCEPT !.wrote = Append(c.wrote, b), !.pipe = Append(c.pipe, b)]
<1>3. c \in CopyState /\ CopyOK(c, ps) /\ Searchable(ps) /\ c.open
  BY <1>2, OneStream
<1>4. copy' = [copy EXCEPT ![s] = r]
  BY <1>1, <1>2, <1>3 DEF CopyState
<1>5. /\ c.wrote \in Seq(Bytes) /\ c.pipe \in Seq(Bytes) /\ <<b>> \in Seq(Bytes)
      /\ Append(c.wrote, b) \in Seq(Bytes) /\ Append(c.pipe, b) \in Seq(Bytes)
  BY <1>3 DEF CopyState
<1>6. /\ r \in CopyState /\ r.wrote = Append(c.wrote, b) /\ r.pipe = Append(c.pipe, b)
      /\ r.out = c.out /\ r.next = c.next /\ r.held = c.held /\ r.st = c.st /\ r.open = c.open
  BY <1>3, <1>5 DEF CopyState
<1> HIDE DEF c, ps, r
<1>7. ASSUME NEW x \in Seq(Bytes)
      PROVE  /\ <<b>> \o x \in Seq(Bytes)
             /\ r.wrote \o x = c.wrote \o (<<b>> \o x) /\ r.pipe \o x = c.pipe \o (<<b>> \o x)
  <2>1. \A p \in Seq(Bytes) : <<b>> \o x \in Seq(Bytes) /\ Append(p, b) \o x = p \o (<<b>> \o x)
    BY OneMore
  <2> QED BY <1>5, <1>6, <2>1
<1>8. c.st \in Copying => \A x \in Seq(Bytes) : Flows(r, ps, x)
  <2> SUFFICES ASSUME c.st \in Copying, NEW x \in Seq(Bytes) PROVE Flows(r, ps, x)
    OBVIOUS
  <2>1. Flows(c, ps, <<b>> \o x)
    BY <1>3, <1>7 DEF CopyOK
  <2> QED BY ONLY <2>1, <1>6, <1>7, x \in Seq(Bytes) DEF Flows
<1>9. c.st \in Failing => \A x \in Seq(Bytes) : Begins(redact_all(ps, r.wrote \o x), r.out)
  BY <1>3, <1>6, <1>7 DEF CopyOK
<1>10. c.st \notin Ending
  BY <1>3 DEF CopyOK
<1>11. CopyOK(r, ps)
  BY <1>3, <1>6, <1>8, <1>9, <1>10 DEF CopyOK
<1> QED BY <1>2, <1>3, <1>4, <1>6, <1>11, CopyKeeps DEF ps

LEMMA BackgroundKeeps ==
  ASSUME OutputInv, ExecInv, NEW s \in Streams, BackgroundEnds(s)
  PROVE  OutputInv'
<1>1. /\ exec' = exec /\ exec.child = "ended" /\ exec.pc = "drain" /\ ExecOn
      /\ copy \in [Streams -> CopyState] /\ copy' = [copy EXCEPT ![s].open = FALSE]
  BY DEF BackgroundEnds, OutputInv, ExecOn
<1> DEFINE c == copy[s]
           r == [c EXCEPT !.open = FALSE]
<1>2. c \in CopyState /\ CopyOK(c, exec.patterns)
  BY <1>1, OneStream
<1>3. copy' = [copy EXCEPT ![s] = r]
  BY <1>1, <1>2 DEF CopyState
<1>4. /\ r \in CopyState /\ r.wrote = c.wrote /\ r.pipe = c.pipe
      /\ r.out = c.out /\ r.next = c.next /\ r.held = c.held /\ r.st = c.st /\ ~r.open
  BY <1>2 DEF CopyState
<1> HIDE DEF c, r
<1>5. CopyOK(r, exec.patterns)
  BY <1>2, <1>4 DEF CopyOK, Flows
<1> QED BY <1>1, <1>3, <1>4, <1>5, CopyKeeps

(* A read takes the first of the pipe and leaves the rest. *)
LEMMA Halves ==
  ASSUME NEW C, NEW p \in Seq(C), NEW n \in 1..Len(p)
  PROVE  /\ SubSeq(p, 1, n) \in Seq(C) /\ SubSeq(p, n + 1, Len(p)) \in Seq(C)
         /\ p = SubSeq(p, 1, n) \o SubSeq(p, n + 1, Len(p))
OBVIOUS

(* y is a \o b, and z the three of them. *)
Joined(h, a, b, x, y, z) == y = b \o x /\ z = h \o ((a \o b) \o x) /\ z = (h \o a) \o y

LEMMA ConcatIn == \A C : \A a, b \in Seq(C) : a \o b \in Seq(C)
OBVIOUS

LEMMA Rejoined ==
  ASSUME NEW C, NEW h \in Seq(C), NEW a \in Seq(C), NEW b \in Seq(C), NEW x \in Seq(C)
  PROVE  \E y \in Seq(C), z \in Seq(C) : Joined(h, a, b, x, y, z)
<1>1. PICK y \in Seq(C) : y = b \o x
  BY ConcatIn, Zenon
<1>2. (a \o b) \o x = a \o y
  <2>1. Associates(a, b, x)
    BY ConcatAssoc
  <2> QED BY ONLY <1>1, <2>1 DEF Associates
<1>3. PICK q \in Seq(C) : q = a \o y
  BY ConcatIn, Zenon
<1>4. PICK z \in Seq(C) : z = h \o q
  BY ConcatIn, Zenon
<1>5. Associates(h, a, y)
  BY ConcatAssoc
<1>6. z = h \o ((a \o b) \o x) /\ z = (h \o a) \o y
  BY ONLY <1>2, <1>3, <1>4, <1>5 DEF Associates
<1> QED BY <1>1, <1>6, Zenon DEF Joined

LEMMA ReadChunkKeeps ==
  ASSUME OutputInv, ExecInv, NEW s \in Streams, ReadChunk(s)
  PROVE  OutputInv'
<1> DEFINE c == copy[s]
           ps == exec.patterns
<1>1. /\ exec' = exec /\ exec.pc \in {"wait", "drain"} /\ ExecOn /\ c.st = "read"
      /\ copy \in [Streams -> CopyState]
  BY DEF ReadChunk, OutputInv, ExecOn
<1>2. c \in CopyState /\ CopyOK(c, ps) /\ Searchable(ps) /\ (exec.child = "running" => c.open)
  BY <1>1, OneStream
<1>3. PICK n \in 1..Len(c.pipe) :
        LET pushed == Push(ps, c.held, SubSeq(c.pipe, 1, n))
        IN  copy' = [copy EXCEPT ![s].pipe = SubSeq(@, n + 1, Len(@)), ![s].moved = TRUE,
                                 ![s].held = pushed.pending, ![s].next = pushed.out,
                                 ![s].st = IF pushed.out = <<>> THEN "read" ELSE "write"]
  BY DEF ReadChunk
<1>4. PICK p \in Seq(Bytes), h \in Seq(Bytes), o \in Seq(OutChars), w \in Seq(Bytes) :
        p = c.pipe /\ h = c.held /\ o = c.out /\ w = c.wrote
  BY <1>2 DEF CopyState
<1>5. PICK chunk \in Seq(Bytes), rest \in Seq(Bytes) :
        chunk = SubSeq(p, 1, n) /\ rest = SubSeq(p, n + 1, Len(p)) /\ p = chunk \o rest
  <2>1. /\ SubSeq(p, 1, n) \in Seq(Bytes) /\ SubSeq(p, n + 1, Len(p)) \in Seq(Bytes)
        /\ p = SubSeq(p, 1, n) \o SubSeq(p, n + 1, Len(p))
    BY <1>4, Halves
  <2> QED BY <2>1
<1>6. PICK out \in Seq(OutChars), pending \in Seq(Bytes) :
        /\ Push(ps, h, chunk) = [out |-> out, pending |-> pending]
        /\ Splits(ps, Bytes, h \o chunk, out, pending)
  BY <1>2, PushSplits DEF OutChars
<1> DEFINE r == [c EXCEPT !.pipe = rest, !.moved = TRUE, !.held = pending, !.next = out,
                          !.st = IF out = <<>> THEN "read" ELSE "write"]
<1>7. copy' = [copy EXCEPT ![s] = r]
  <2>1. copy' = [copy EXCEPT ![s].pipe = SubSeq(@, n + 1, Len(@)), ![s].moved = TRUE,
                             ![s].held = pending, ![s].next = out,
                             ![s].st = IF out = <<>> THEN "read" ELSE "write"]
    <3>1. Push(ps, h, chunk).pending = pending /\ Push(ps, h, chunk).out = out
      BY <1>6
    <3>2. Push(ps, c.held, SubSeq(c.pipe, 1, n)) = Push(ps, h, chunk)
      BY <1>4, <1>5
    <3> QED BY <1>3, <3>1, <3>2
  <2> QED BY <1>1, <1>2, <1>4, <1>5, <2>1 DEF CopyState
<1>8. /\ r \in CopyState /\ r.wrote = w /\ r.pipe = rest /\ r.held = pending /\ r.next = out
      /\ r.out = o /\ r.open = c.open /\ r.st = IF out = <<>> THEN "read" ELSE "write"
  BY <1>2, <1>4 DEF CopyState
<1>9. c.next = <<>> /\ \A x \in Seq(Bytes) : o \o (<<>> \o redact_all(ps, h \o (p \o x))) = redact_all(ps, w \o x)
  BY <1>1, <1>2, <1>4 DEF CopyOK, Copying, Flows
<1> HIDE DEF c, ps, r
<1>10. ASSUME NEW x \in Seq(Bytes)
       PROVE  o \o (out \o redact_all(ps, pending \o (rest \o x))) = redact_all(ps, w \o x)
  <2>1. PICK y \in Seq(Bytes), z \in Seq(Bytes) : Joined(h, chunk, rest, x, y, z)
    BY Rejoined
  <2>2. y = rest \o x /\ z = h \o (p \o x) /\ z = (h \o chunk) \o y
    BY <1>5, <2>1 DEF Joined
  <2>4. redact_all(ps, z) = out \o redact_all(ps, pending \o y)
    BY <1>6, <2>2 DEF Splits
  <2>5. PICK whole \in Seq(OutChars) : whole = redact_all(ps, z)
    BY <1>2, RedactTypes DEF OutChars
  <2>6. o \o whole = redact_all(ps, w \o x)
    <3>1. <<>> \o whole = whole
      BY ConcatEmpty
    <3> QED BY <1>9, <2>2, <2>5, <3>1
  <2> QED BY <2>2, <2>4, <2>5, <2>6
<1>11. \A x \in Seq(Bytes) : Flows(r, ps, x)
  BY <1>8, <1>10 DEF Flows
<1>12. CopyOK(r, ps)
  BY <1>8, <1>11 DEF CopyOK, Copying, Ending, Failing
<1> QED BY <1>1, <1>2, <1>7, <1>8, <1>12, CopyKeeps DEF ps

LEMMA ReadEndKeeps ==
  ASSUME OutputInv, ExecInv, NEW s \in Streams, ReadEnd(s)
  PROVE  OutputInv'
<1> DEFINE c == copy[s]
           ps == exec.patterns
<1>1. /\ exec' = exec /\ exec.pc \in {"wait", "drain"} /\ ExecOn /\ c.st = "read"
      /\ copy \in [Streams -> CopyState] /\ c.pipe = <<>> /\ ~c.open
      /\ copy' = [copy EXCEPT ![s].next = Finish(ps, c.held), ![s].held = <<>>, ![s].st = "last"]
  BY DEF ReadEnd, OutputInv, ExecOn
<1>2. c \in CopyState /\ CopyOK(c, ps) /\ Searchable(ps) /\ (exec.child = "running" => c.open)
  BY <1>1, OneStream
<1>3. PICK h \in Seq(Bytes), o \in Seq(OutChars), w \in Seq(Bytes) :
        h = c.held /\ o = c.out /\ w = c.wrote
  BY <1>2 DEF CopyState
<1>4. PICK last \in Seq(OutChars) : last = redact_all(ps, h)
  BY <1>2, RedactTypes DEF OutChars
<1> DEFINE r == [c EXCEPT !.next = last, !.held = <<>>, !.st = "last"]
<1>5. copy' = [copy EXCEPT ![s] = r]
  <2>1. Finish(ps, c.held) = last
    BY <1>3, <1>4 DEF Finish
  <2> QED BY <1>1, <1>2, <2>1 DEF CopyState
<1>6. /\ r \in CopyState /\ r.wrote = w /\ r.pipe = <<>> /\ r.held = <<>> /\ r.next = last
      /\ r.out = o /\ ~r.open /\ r.st = "last"
  <2>1. <<>> \in Seq(Bytes)
    OBVIOUS
  <2> QED BY <1>1, <1>2, <1>3, <2>1 DEF CopyState
<1>7. c.next = <<>> /\ \A x \in Seq(Bytes) : o \o (<<>> \o redact_all(ps, h \o (<<>> \o x))) = redact_all(ps, w \o x)
  BY <1>1, <1>2, <1>3 DEF CopyOK, Copying, Flows
<1> HIDE DEF c, ps, r
<1>8. o \o last = redact_all(ps, w)
  <2>1. /\ <<>> \in Seq(Bytes) /\ <<>> \o <<>> = <<>> /\ h \o <<>> = h /\ w \o <<>> = w
        /\ <<>> \o last = last
    OBVIOUS
  <2>2. o \o (<<>> \o redact_all(ps, h \o (<<>> \o <<>>))) = redact_all(ps, w \o <<>>)
    BY <1>7, <2>1
  <2> QED BY ONLY <1>4, <2>1, <2>2
<1>9. CopyOK(r, ps)
  BY <1>6, <1>8 DEF CopyOK, Copying, Ending, Failing
<1> QED BY <1>1, <1>2, <1>5, <1>6, <1>9, CopyKeeps DEF ps

LEMMA FlagKeeps ==
  ASSUME OutputInv, ExecInv, NEW s \in Streams, BeginWrite(s) \/ SetMoved(s)
  PROVE  OutputInv'
<1> DEFINE c == copy[s]
           ps == exec.patterns
<1>1. exec' = exec /\ exec.pc \in {"wait", "drain"} /\ ExecOn /\ copy \in [Streams -> CopyState]
  BY DEF BeginWrite, SetMoved, OutputInv, ExecOn
<1>2. c \in CopyState /\ CopyOK(c, ps) /\ (exec.child = "running" /\ c.st # "none" => c.open)
  BY <1>1, OneStream
<1>3. CASE BeginWrite(s)
  <2> DEFINE r == [c EXCEPT !.writing = TRUE]
  <2>1. copy' = [copy EXCEPT ![s] = r]
    BY <1>1, <1>2, <1>3 DEF BeginWrite, CopyState
  <2>2. /\ r \in CopyState /\ r.wrote = c.wrote /\ r.pipe = c.pipe /\ r.held = c.held
        /\ r.next = c.next /\ r.out = c.out /\ r.open = c.open /\ r.st = c.st
    BY <1>2 DEF CopyState
  <2> HIDE DEF c, r, ps
  <2>3. CopyOK(r, ps)
    BY <1>2, <2>2 DEF CopyOK, Flows
  <2> QED BY <1>1, <1>2, <2>1, <2>2, <2>3, CopyKeeps DEF ps
<1>4. CASE SetMoved(s)
  <2> DEFINE st == IF c.st = "moved" THEN "read" ELSE "done"
             r == [c EXCEPT !.moved = TRUE, !.st = st]
  <2>1. copy' = [copy EXCEPT ![s] = r] /\ c.st \in {"moved", "lastMoved"}
    BY <1>1, <1>2, <1>4 DEF SetMoved, CopyState
  <2>2. /\ r \in CopyState /\ r.wrote = c.wrote /\ r.pipe = c.pipe /\ r.held = c.held
        /\ r.next = c.next /\ r.out = c.out /\ r.open = c.open /\ r.st = st
    BY <1>2 DEF CopyState
  <2> HIDE DEF c, r, ps
  <2>3. CopyOK(r, ps)
    BY <1>2, <2>1, <2>2 DEF CopyOK, Flows, Copying, Ending, Failing
  <2> QED BY <1>1, <1>2, <2>1, <2>2, <2>3, CopyKeeps DEF ps
<1> QED BY <1>3, <1>4

(* What has gone out and what is about to are the start of what the redaction of all of *)
(* the output will be.                                                                    *)
LEMMA OutBegins ==
  ASSUME NEW c \in CopyState, NEW ps, Searchable(ps), CopyOK(c, ps), c.st \in Copying \cup Ending,
         NEW x \in Seq(Bytes), c.open \/ x = <<>>
  PROVE  \E u \in Seq(OutChars) : redact_all(ps, c.wrote \o x) = c.out \o (c.next \o u)
<1>1. PICK p \in Seq(Bytes), h \in Seq(Bytes), o \in Seq(OutChars), w \in Seq(Bytes), t \in Seq(OutChars) :
        p = c.pipe /\ h = c.held /\ o = c.out /\ w = c.wrote /\ t = c.next
  BY DEF CopyState
<1>2. CASE c.st \in Copying
  <2>1. o \o (t \o redact_all(ps, h \o (p \o x))) = redact_all(ps, w \o x)
    BY <1>1, <1>2 DEF CopyOK, Flows
  <2>2. PICK z \in Seq(Bytes) : z = h \o (p \o x)
    <3>1. PICK q \in Seq(Bytes) : q = p \o x
      BY ConcatIn, Zenon
    <3>2. PICK z \in Seq(Bytes) : z = h \o q
      BY ConcatIn, Zenon
    <3> QED BY ONLY <3>1, <3>2, z \in Seq(Bytes)
  <2>3. PICK u \in Seq(OutChars) : u = redact_all(ps, z)
    BY RedactTypes DEF OutChars
  <2> QED BY <1>1, <2>1, <2>2, <2>3
<1>3. CASE c.st \in Ending
  <2>1. o \o t = redact_all(ps, w) /\ ~c.open
    BY <1>1, <1>3 DEF CopyOK
  <2>2. w \o <<>> = w /\ t \o <<>> = t /\ <<>> \in Seq(OutChars)
    OBVIOUS
  <2> QED BY <1>1, <2>1, <2>2
<1> QED BY <1>2, <1>3

LEMMA EndWriteKeeps ==
  ASSUME OutputInv, ExecInv, NEW s \in Streams, EndWrite(s)
  PROVE  OutputInv'
<1> DEFINE c == copy[s]
           ps == exec.patterns
<1>1. /\ exec' = exec /\ exec.pc \in {"wait", "drain"} /\ ExecOn /\ copy \in [Streams -> CopyState]
      /\ c.st \in {"write", "last"}
  BY DEF EndWrite, OutputInv, ExecOn
<1>2. c \in CopyState /\ CopyOK(c, ps) /\ Searchable(ps) /\ (exec.child = "running" => c.open)
  BY <1>1, OneStream
<1>3. CASE copy' = [copy EXCEPT ![s].out = @ \o copy[s].next, ![s].next = <<>>, ![s].writing = FALSE,
                                ![s].st = IF @ = "last" THEN "lastMoved" ELSE "moved"]
  <2>1. PICK o \in Seq(OutChars), t \in Seq(OutChars) : o = c.out /\ t = c.next
    BY <1>2 DEF CopyState
  <2>2. PICK both \in Seq(OutChars) : both = o \o t
    BY ConcatIn, Zenon
  <2> DEFINE st == IF c.st = "last" THEN "lastMoved" ELSE "moved"
             r == [c EXCEPT !.out = both, !.next = <<>>, !.writing = FALSE, !.st = st]
  <2>3. copy' = [copy EXCEPT ![s] = r]
    BY <1>1, <1>2, <1>3, <2>1, <2>2 DEF CopyState
  <2>4. /\ r \in CopyState /\ r.wrote = c.wrote /\ r.pipe = c.pipe /\ r.held = c.held
        /\ r.next = <<>> /\ r.out = both /\ r.open = c.open /\ r.st = st
    <3>1. <<>> \in Seq(OutChars)
      OBVIOUS
    <3> QED BY <1>2, <3>1 DEF CopyState
  <2> HIDE DEF c, r, ps
  <2>5. ASSUME c.st = "write", NEW x \in Seq(Bytes) PROVE Flows(r, ps, x)
    <3>1. PICK rest \in Seq(OutChars) : rest = redact_all(ps, c.held \o (c.pipe \o x))
      <4>1. PICK p \in Seq(Bytes), h \in Seq(Bytes) : p = c.pipe /\ h = c.held
        BY <1>2 DEF CopyState
      <4>2. PICK q \in Seq(Bytes) : q = p \o x
        BY ConcatIn, Zenon
      <4>3. PICK z \in Seq(Bytes) : z = h \o q
        BY ConcatIn, Zenon
      <4>4. redact_all(ps, z) \in Seq(OutChars)
        BY <1>2, RedactTypes DEF OutChars
      <4> QED BY <4>1, <4>2, <4>3, <4>4
    <3>2. o \o (t \o rest) = redact_all(ps, c.wrote \o x)
      BY <1>2, <2>1, <2>5, <3>1 DEF CopyOK, Copying, Flows
    <3>3. o \o (t \o rest) = both \o (<<>> \o rest)
      BY ONLY <2>2, o \in Seq(OutChars), t \in Seq(OutChars), rest \in Seq(OutChars)
    <3> QED BY ONLY <2>4, <3>1, <3>2, <3>3 DEF Flows
  <2>6. ASSUME c.st = "last" PROVE r.out \o r.next = redact_all(ps, r.wrote)
    <3>1. both \o <<>> = both
      OBVIOUS
    <3>2. o \o t = redact_all(ps, c.wrote)
      BY <1>2, <2>1, <2>6 DEF CopyOK, Ending
    <3> QED BY ONLY <2>2, <2>4, <3>1, <3>2
  <2>7. c.st = "last" => r.held = <<>> /\ r.pipe = <<>> /\ ~r.open
    BY <1>2, <2>4 DEF CopyOK, Ending
  <2>8. CopyOK(r, ps)
    BY <1>1, <2>4, <2>5, <2>6, <2>7 DEF CopyOK, Copying, Ending, Failing
  <2> QED BY <1>1, <1>2, <2>3, <2>4, <2>8, CopyKeeps DEF ps
<1>4. CASE \E failure \in {"failed", "broken"} :
             copy' = [copy EXCEPT ![s].writing = FALSE, ![s].moved = TRUE, ![s].st = failure]
  <2>1. PICK failure \in {"failed", "broken"} :
             copy' = [copy EXCEPT ![s].writing = FALSE, ![s].moved = TRUE, ![s].st = failure]
    BY <1>4
  <2> DEFINE r == [c EXCEPT !.writing = FALSE, !.moved = TRUE, !.st = failure]
  <2>3. copy' = [copy EXCEPT ![s] = r]
    BY <1>1, <1>2, <2>1 DEF CopyState
  <2>4. /\ r \in CopyState /\ r.wrote = c.wrote /\ r.out = c.out /\ r.open = c.open /\ r.st = failure
    BY <1>2 DEF CopyState
  <2> HIDE DEF c, r, ps
  <2>5. ASSUME NEW x \in Seq(Bytes), c.open \/ x = <<>>
        PROVE  Begins(redact_all(ps, c.wrote \o x), c.out)
    <3>1. c.st \in Copying \cup Ending
      BY <1>1 DEF Copying, Ending
    <3>2. PICK u \in Seq(OutChars) : redact_all(ps, c.wrote \o x) = c.out \o (c.next \o u)
      BY <1>2, <2>5, <3>1, OutBegins
    <3>3. c.next \o u \in Seq(OutChars)
      BY <1>2 DEF CopyState
    <3> QED BY <3>2, <3>3 DEF Begins
  <2>6. CopyOK(r, ps)
    BY <2>4, <2>5 DEF CopyOK, Copying, Ending, Failing
  <2> QED BY <1>1, <1>2, <2>3, <2>4, <2>6, CopyKeeps DEF ps
<1> QED BY <1>3, <1>4 DEF EndWrite

LEMMA DrainKeeps ==
  ASSUME OutputInv, ExecInv, NEW s \in Streams, DrainAfterError(s)
  PROVE  OutputInv'
<1> DEFINE c == copy[s]
           ps == exec.patterns
<1>1. /\ exec' = exec /\ exec.pc \in {"wait", "drain"} /\ ExecOn /\ copy \in [Streams -> CopyState]
      /\ c.st = "failed"
  BY DEF DrainAfterError, OutputInv, ExecOn
<1>2. c \in CopyState /\ CopyOK(c, ps) /\ (exec.child = "running" => c.open)
  BY <1>1, OneStream
<1>3. PICK r \in {[c EXCEPT !.pipe = <<>>], [c EXCEPT !.st = "error"]} : copy' = [copy EXCEPT ![s] = r]
  BY <1>1, <1>2 DEF DrainAfterError, CopyState
<1>4. /\ r \in CopyState /\ r.wrote = c.wrote /\ r.out = c.out /\ r.open = c.open
      /\ r.st \in {"failed", "error"}
  <2>1. <<>> \in Seq(Bytes)
    OBVIOUS
  <2> QED BY <1>1, <1>2, <1>3, <2>1 DEF CopyState
<1>5. CopyOK(r, ps)
  <2> HIDE DEF c, ps
  <2> QED BY <1>1, <1>2, <1>4 DEF CopyOK, Copying, Ending, Failing
<1> QED BY <1>1, <1>2, <1>3, <1>4, <1>5, CopyKeeps

LEMMA ExitChildKeeps ==
  ASSUME OutputInv, ExecInv, ExitChild
  PROVE  OutputInv'
<1>1. PICK left \in SUBSET Written : copy' = [s \in Streams |-> [copy[s] EXCEPT !.open = s \in left]]
  BY DEF ExitChild
<1>2. /\ exec.child = "running" /\ exec.pc = "wait" /\ ExecOn /\ DOMAIN exec = ExecFields
      /\ exec' = [exec EXCEPT !.child = "ended", !.pc = "drain"]
  BY DEF ExitChild, ExecInv, ExecOn
<1>3. exec'.child = "ended" /\ exec'.pc = "drain" /\ exec'.patterns = exec.patterns
  BY <1>2 DEF ExecFields
<1>4. ASSUME NEW s \in Streams
      PROVE  copy'[s] \in CopyState /\ CopyOK(copy'[s], exec.patterns)
  <2> DEFINE c == copy[s]
             r == copy'[s]
  <2>1. c \in CopyState /\ CopyOK(c, exec.patterns) /\ (c.st # "none" => c.open)
    BY <1>2, OneStream
  <2>2. /\ r \in CopyState /\ r.wrote = c.wrote /\ r.pipe = c.pipe /\ r.held = c.held
        /\ r.next = c.next /\ r.out = c.out /\ r.st = c.st
    <3>1. r = [c EXCEPT !.open = s \in left]
      BY <1>1
    <3>2. CASE s \in left
      <4>1. r = [c EXCEPT !.open = TRUE]
        BY <3>1, <3>2
      <4> HIDE DEF c, r
      <4> QED BY <2>1, <4>1 DEF CopyState
    <3>3. CASE s \notin left
      <4>1. r = [c EXCEPT !.open = FALSE]
        <5>1. (s \in left) = FALSE
          BY <3>3
        <5> HIDE DEF c, r
        <5> QED BY <3>1, <5>1, Zenon
      <4> HIDE DEF c, r
      <4> QED BY <2>1, <4>1 DEF CopyState
    <3> QED BY <3>2, <3>3
  <2> HIDE DEF c, r
  <2>3. c.st \notin Ending
    BY <2>1 DEF CopyOK, Ending
  <2>4. c.st \in Failing => c.open
    BY <2>1 DEF Failing
  <2>5. CopyOK(r, exec.patterns)
    BY <2>1, <2>2, <2>3, <2>4 DEF CopyOK, Flows
  <2> QED BY <2>2, <2>5 DEF r
<1>5. copy' \in [Streams -> CopyState]
  BY <1>1, <1>4
<1>6. Searchable(exec.patterns)
  BY <1>2 DEF OutputInv
<1> QED BY <1>3, <1>4, <1>5, <1>6 DEF OutputInv, ExecOn

(* A thread that has ended without an error has passed on everything, or found nobody *)
(* who reads it.                                                                       *)
LEMMA EndedSettled ==
  ASSUME NEW c \in CopyState, NEW ps, CopyOK(c, ps), c.st \in {"done", "broken"}
  PROVE  Settled(c, ps)
<1>1. CASE c.st = "done"
  <2>1. c.out \o c.next = redact_all(ps, c.wrote) /\ c.next = <<>> /\ c.out \in Seq(OutChars)
    BY <1>1 DEF CopyOK, Ending, CopyState
  <2>2. c.out \o <<>> = c.out
    BY <2>1, ConcatEmpty
  <2> QED BY <2>1, <2>2 DEF Settled
<1> QED BY <1>1 DEF Settled

(* So has one that waits for more, with nothing held back. *)
LEMMA IdleSettled ==
  ASSUME NEW c \in CopyState, NEW ps, Searchable(ps), CopyOK(c, ps), c.st = "read", c.open, c.pipe = <<>>
  PROVE  Settled(c, ps)
<1>1. c.next = <<>> /\ \A x \in Seq(Bytes) : Flows(c, ps, x)
  BY DEF CopyOK, Copying
<1>2. CASE c.held = <<>>
  <2>1. PICK o \in Seq(OutChars), w \in Seq(Bytes) : o = c.out /\ w = c.wrote
    BY DEF CopyState
  <2>2. <<>> \in Seq(Bytes)
    OBVIOUS
  <2>3. o \o (<<>> \o redact_all(ps, <<>> \o (<<>> \o <<>>))) = redact_all(ps, w \o <<>>)
    BY <1>1, <1>2, <2>1, <2>2 DEF Flows
  <2>4. <<>> \o <<>> = <<>> /\ w \o <<>> = w /\ o \o <<>> = o
    OBVIOUS
  <2>5. redact_all(ps, <<>>) = <<>>
    BY RedactNothing
  <2>6. o = redact_all(ps, w)
    BY ONLY <2>3, <2>4, <2>5
  <2> QED BY <2>1, <2>6 DEF Settled
<1> QED BY <1>1, <1>2 DEF Settled

LEMMA DrainedKeeps ==
  ASSUME OutputInv, ExecInv, TimeOutDrain \/ AllCopied
  PROVE  OutputInv'
<1>1. exec.pc = "drain" /\ ExecOn /\ DOMAIN exec = ExecFields /\ exec.child = "ended"
      /\ copy \in [Streams -> CopyState]
  BY DEF TimeOutDrain, AllCopied, ExecInv, ExecOn, OutputInv
<1>2. \A s \in Streams : copy[s] \in CopyState /\ CopyOK(copy[s], exec.patterns) /\ Searchable(exec.patterns)
  BY <1>1, OneStream
<1>s. Searchable(exec.patterns)
  BY <1>1 DEF OutputInv
<1>3. CASE copy' = [s \in Streams |-> Rest(s)] /\ UNCHANGED exec
  <2>1. ASSUME NEW s \in Streams
        PROVE  copy'[s] \in CopyState /\ CopyOK(copy'[s], exec.patterns)
    <3> DEFINE c == copy[s]
               r == copy'[s]
    <3>1. /\ r \in CopyState /\ r.wrote = c.wrote /\ r.pipe = c.pipe /\ r.held = c.held
          /\ r.next = c.next /\ r.out = c.out /\ r.st = c.st /\ r.open = c.open
      BY <1>2, <1>3 DEF CopyState, Rest
    <3>2. CopyOK(c, exec.patterns)
      BY <1>2
    <3> HIDE DEF c, r
    <3>3. CopyOK(r, exec.patterns)
      BY <3>1, <3>2 DEF CopyOK, Flows
    <3> QED BY <3>1, <3>3 DEF r
  <2>2. copy' \in [Streams -> CopyState]
    BY <1>3, <2>1
  <2> QED BY <1>1, <1>3, <1>s, <2>1, <2>2 DEF OutputInv, ExecOn
<1>4. ASSUME /\ UNCHANGED copy /\ exec'.pc = "finish" /\ exec'.patterns = exec.patterns
             /\ exec'.child = "ended"
             /\ ~exec'.cut => \A s \in Written : copy[s].st = "error" \/ Settled(copy[s], exec.patterns)
      PROVE  OutputInv'
  BY <1>1, <1>2, <1>4, <1>s DEF OutputInv, ExecOn, Written
<1>5. ASSUME NEW s \in Written, s \notin Unfinished
      PROVE  copy[s].st = "error" \/ Settled(copy[s], exec.patterns)
  <2>1. s \in Streams /\ copy[s].st \in {"done", "error", "broken"}
    BY <1>5 DEF Unfinished, Written
  <2> QED BY <1>2, <2>1, EndedSettled
<1>6. CASE AllCopied
  <2>1. /\ Unfinished = {} /\ UNCHANGED copy /\ exec'.pc = "finish" /\ exec'.patterns = exec.patterns
        /\ exec'.child = "ended"
    BY <1>1, <1>6 DEF AllCopied, ExecFields
  <2> QED BY <1>4, <1>5, <2>1
<1>7. CASE TimeOutDrain /\ ~\E s \in Unfinished : take_busy(s)
  <2>1. /\ UNCHANGED copy
        /\ exec' = [exec EXCEPT !.pc = "finish",
                      !.cut = \E s \in Unfinished : copy[s].st \in {"moved", "lastMoved"}]
        /\ \A s \in Unfinished : Ready(s) => copy[s].moved
    BY <1>7 DEF TimeOutDrain
  <2>2. /\ exec'.pc = "finish" /\ exec'.patterns = exec.patterns /\ exec'.child = "ended"
        /\ exec'.cut = \E s \in Unfinished : copy[s].st \in {"moved", "lastMoved"}
    BY <1>1, <2>1 DEF ExecFields
  <2>3. ASSUME ~exec'.cut, NEW s \in Unfinished
        PROVE  Settled(copy[s], exec.patterns)
    <3> DEFINE c == copy[s]
    <3>1. s \in Streams /\ c \in CopyState /\ c.st \notin {"none", "done", "error", "broken"}
      BY <1>2 DEF Unfinished, Written
    <3>2. c.st \notin {"moved", "lastMoved"}
      BY <2>2, <2>3
    <3>3. ~take_busy(s)
      BY <1>7
    <3>4. ~c.moved /\ ~c.writing
      BY <3>3 DEF take_busy
    <3>5. ~Ready(s)
      BY <2>1, <3>4
    <3>6. c.st \in {"read", "write", "last", "failed"}
      BY <3>1, <3>2 DEF CopyState
    <3>7. CASE c.st = "read"
      <4>1. c.open /\ c.pipe = <<>>
        BY <3>5, <3>7 DEF Ready
      <4> QED BY <1>2, <3>1, <3>7, <4>1, IdleSettled
    <3>8. CASE c.st \in {"write", "last"}
      BY <3>4, <3>5, <3>8 DEF Ready
    <3>9. CASE c.st = "failed"
      BY <3>5, <3>9 DEF Ready, Settled
    <3> QED BY <3>6, <3>7, <3>8, <3>9
  <2> QED BY <1>4, <1>5, <2>1, <2>2, <2>3
<1> QED BY <1>3, <1>6, <1>7 DEF TimeOutDrain

LEMMA FinishKeeps ==
  ASSUME OutputInv, ExecInv, FinishExec
  PROVE  OutputInv'
<1>1. PICK result \in {ResultOf, "status"} :
        exec' = [exec EXCEPT !.pc = "ended", !.files = {}, !.result = result]
  BY DEF FinishExec
<1>2. exec.pc = "finish" /\ ExecOn /\ DOMAIN exec = ExecFields /\ UNCHANGED copy /\ exec.child = "ended"
  BY DEF FinishExec, ExecInv, ExecOn
<1>3. /\ exec'.pc = "ended" /\ exec'.result = result /\ exec'.patterns = exec.patterns
      /\ exec'.child = exec.child /\ exec'.cut = exec.cut
  BY <1>1, <1>2 DEF ExecFields
<1>4. result = "ok" => \A s \in Streams : copy[s].st # "error"
  BY <1>1 DEF ResultOf
<1> QED BY <1>2, <1>3, <1>4 DEF OutputInv, ExecOn, Written

LEMMA FailedKeeps ==
  ASSUME OutputInv, ExecInv, exec.pc \in {"plan", "spawn"}, ExecFail
  PROVE  OutputInv'
<1>1. ExecOn /\ DOMAIN exec = ExecFields /\ exec.child = "none"
  BY DEF ExecInv, ExecOn
<1>2. /\ exec'.pc = "ended" /\ exec'.result = "error" /\ exec'.patterns = exec.patterns
      /\ exec'.child = "none" /\ UNCHANGED copy
  BY <1>1 DEF ExecFail, ExecFields
<1> QED BY <1>1, <1>2 DEF OutputInv, ExecOn, Written

LEMMA PlannedKeeps ==
  ASSUME OutputInv, ExecInv, PlanExec
  PROVE  OutputInv'
<1>1. exec.pc = "plan" /\ ExecOn /\ DOMAIN exec = ExecFields /\ exec.child = "none"
  BY DEF PlanExec, ExecInv, ExecOn
<1>2. CASE ExecFail
  BY <1>1, <1>2, FailedKeeps
<1>3. CASE /\ UNCHANGED copy
           /\ \E absent \in SUBSET (resolve_set(ei, select(ei)) \cap ei.mayLack) :
                LET sel == select(ei)
                    values == [k \in resolve_set(ei, sel) \ absent |-> ei.secrets[k].value]
                    set == DOMAIN values \cup DOMAIN ei.env
                    ran == {n \in Chosen(ei, sel) : ei.leases[n].consumes \subseteq set \/ ei.leases[n].cached}
                    creds == Credentials(ei, ran)
                IN  exec' = [exec EXCEPT
                      !.pc = "spawn", !.sel = sel, !.values = values, !.creds = creds,
                      !.plan = Filtered(ei, assemble(ei, sel, values, creds, ran)),
                      !.files = {k \in DOMAIN values : ei.secrets[k].file /\ sel.leases # {}},
                      !.env = AfterLeases(ei.env, sel, values)]
  <2>1. /\ exec'.pc = "spawn" /\ exec'.result = exec.result /\ exec'.patterns = exec.patterns
        /\ exec'.child = "none"
    BY <1>1, <1>3 DEF ExecFields
  <2> QED BY <1>1, <1>3, <2>1 DEF OutputInv, ExecOn, Written
<1> QED BY <1>2, <1>3 DEF PlanExec

LEMMA FirstOK ==
  ASSUME NEW ps, Searchable(ps)
  PROVE  LET c == [NoCopy EXCEPT !.open = TRUE, !.st = "read"]
         IN  c \in CopyState /\ c.open /\ CopyOK(c, ps)
<1> DEFINE c == [NoCopy EXCEPT !.open = TRUE, !.st = "read"]
<1>1. /\ c \in CopyState /\ c.wrote = <<>> /\ c.pipe = <<>> /\ c.held = <<>> /\ c.out = <<>>
      /\ c.next = <<>> /\ c.st = "read" /\ c.open
  <2>1. <<>> \in Seq(Bytes) /\ <<>> \in Seq(OutChars)
    OBVIOUS
  <2> QED BY <2>1 DEF NoCopy, CopyState
<1> HIDE DEF c
<1>2. ASSUME NEW x \in Seq(Bytes) PROVE Flows(c, ps, x)
  <2>1. PICK y \in Seq(OutChars) : y = redact_all(ps, x)
    BY RedactTypes DEF OutChars
  <2>2. <<>> \o x = x /\ <<>> \o y = y
    OBVIOUS
  <2> QED BY ONLY <1>1, <2>1, <2>2 DEF Flows
<1>3. CopyOK(c, ps)
  BY <1>1, <1>2 DEF CopyOK, Copying, Ending, Failing
<1> QED BY <1>1, <1>3 DEF c

LEMMA SpawnedKeeps ==
  ASSUME OutputInv, ExecInv, SpawnExec
  PROVE  OutputInv'
<1>1. /\ exec.pc = "spawn" /\ ExecOn /\ DOMAIN exec = ExecFields /\ exec.in \in DOMAIN ExecInputs
      /\ Plans(ei, exec.sel, exec.values, exec.creds, exec.plan)
  BY DEF SpawnExec, ExecInv, ExecOn
<1>2. CASE ExecFail
  BY <1>1, <1>2, FailedKeeps
<1> DEFINE all == Patterns(ValuesOf(exec.plan))
           filter == ei.redact /\ all # {}
           first == [NoCopy EXCEPT !.open = TRUE, !.st = "read"]
           new == [s \in Streams |-> IF filter /\ s \in ei.streams THEN first ELSE NoCopy]
<1>3. CASE /\ \E pc \in {"wait", "replaced"} : \E env, files : exec' = [exec EXCEPT
                !.pc = pc, !.child = "running", !.env = env, !.files = files,
                !.patterns = IF filter THEN all ELSE {}]
           /\ copy' = new
  <2> DEFINE ps == exec'.patterns
  <2>1. exec'.pc \in {"wait", "replaced"} /\ exec'.child = "running" /\ ps \in {all, {}}
    BY <1>1, <1>3 DEF ExecFields
  <2>2. Searchable(all)
    BY <1>1, PatternsSearchable DEF ei
  <2>3. Searchable(ps)
    BY <2>1, <2>2, NothingSearchable
  <2>4. NoCopy \in CopyState /\ NoCopy.st = "none" /\ CopyOK(NoCopy, ps)
    BY NoCopyTyped, NoneOK
  <2>5. first \in CopyState /\ first.open /\ CopyOK(first, ps)
    BY <2>3, FirstOK
  <2> HIDE DEF first, filter, ps
  <2>6. \A s \in Streams : copy'[s] \in {first, NoCopy}
    BY <1>3
  <2>7. copy' \in [Streams -> CopyState]
    BY <1>3, <2>4, <2>5
  <2>8. \A s \in Streams : CopyOK(copy'[s], ps) /\ (copy'[s].st # "none" => copy'[s].open)
    BY <2>4, <2>5, <2>6
  <2> QED BY <2>1, <2>3, <2>7, <2>8 DEF OutputInv, ExecOn, Written, ps
<1> QED BY <1>2, <1>3 DEF SpawnExec, ValuesOf

LEMMA OutputNextKeeps ==
  ASSUME OutputInv, ExecInv, [ExecNext]_execVars
  PROVE  OutputInv'
<1>1. CASE UNCHANGED execVars
  BY <1>1 DEF execVars, OutputInv, ExecOn, Written
<1>2. CASE PlanExec \/ SpawnExec \/ ExitChild \/ TimeOutDrain \/ AllCopied \/ FinishExec
  BY <1>2, PlannedKeeps, SpawnedKeeps, ExitChildKeeps, DrainedKeeps, FinishKeeps
<1>3. ASSUME NEW s \in Streams, Writes(s) \/ BackgroundEnds(s) \/ CopyStep(s) \/ EndWrite(s)
      PROVE  OutputInv'
  BY <1>3, WritesKeeps, BackgroundKeeps, ReadChunkKeeps, ReadEndKeeps, FlagKeeps, DrainKeeps, EndWriteKeeps
     DEF CopyStep
<1> QED BY <1>1, <1>2, <1>3 DEF ExecNext

(* A text that begins with out, and what is in out. *)
LEMMA BeginsMeans ==
  ASSUME NEW C, NEW out \in Seq(C), NEW u \in Seq(C), NEW whole \in Seq(C), whole = out \o u
  PROVE  /\ out = SubSeq(whole, 1, Len(out))
         /\ \A p : IsText(p) /\ Occurs(out, p) => Occurs(whole, p)
<1>1. out = SubSeq(whole, 1, Len(out))
  OBVIOUS
<1>2. /\ Len(out) \in Nat /\ Len(whole) \in Nat /\ Len(out) <= Len(whole)
      /\ \A k \in 1..Len(out) : whole[k] = out[k]
  OBVIOUS
<1>3. ASSUME NEW p, IsText(p), NEW i \in 1..Len(out), At(out, i, p)
      PROVE  Occurs(whole, p)
  <2>1. Len(p) \in Nat /\ i \in 1..Len(whole) /\ i \in 1..Len(out) + 1 /\ i \in 1..Len(whole) + 1
    BY <1>2, <1>3 DEF IsText
  <2>2. Reads(out, i, p)
    BY <1>3, <2>1, AtMeans
  <2>3. Reads(whole, i, p)
    BY <1>2, <2>1, <2>2 DEF Reads
  <2>4. At(whole, i, p)
    BY <1>3, <2>1, <2>3, AtMeans
  <2> QED BY <2>1, <2>4 DEF Occurs
<1> QED BY <1>1, <1>3 DEF Occurs

LEMMA OutputInvSound == OutputInv => OutputRight
<1> SUFFICES ASSUME OutputInv, ExecOn PROVE OutputRight
  BY DEF OutputRight, StreamAgrees, OutputKept
<1>1. ASSUME NEW s \in Written
      PROVE  LET whole == redact_all(exec.patterns, copy[s].wrote)
                 out == copy[s].out
             IN  /\ out = SubSeq(whole, 1, Len(out))
                 /\ copy[s].st \notin {"failed", "broken", "error"} /\ copy[s].pipe = <<>> /\ copy[s].held = <<>> =>
                      out \o copy[s].next = whole
                 /\ \A p \in exec.patterns : ~Occurs(out, p)
  <2> DEFINE c == copy[s]
             ps == exec.patterns
  <2>1. c \in CopyState /\ CopyOK(c, ps) /\ Searchable(ps) /\ c.st \in Copying \cup Ending \cup Failing
    <3>1. s \in Streams /\ c.st # "none"
      BY DEF Written
    <3>2. c \in CopyState /\ CopyOK(c, ps) /\ Searchable(ps)
      BY <3>1, OneStream
    <3> QED BY <3>1, <3>2 DEF CopyState, Copying, Ending, Failing
  <2>2. PICK o \in Seq(OutChars), w \in Seq(Bytes), t \in Seq(OutChars) :
          o = c.out /\ w = c.wrote /\ t = c.next
    BY <2>1 DEF CopyState
  <2>3. PICK whole \in Seq(OutChars) : whole = redact_all(ps, w)
    BY <2>1, RedactTypes DEF OutChars
  <2>4. <<>> \in Seq(Bytes) /\ w \o <<>> = w
    OBVIOUS
  <2> HIDE DEF c, ps
  <2>5. PICK u \in Seq(OutChars) : whole = o \o u
    <3>1. CASE c.st \in Failing
      <4>1. Begins(redact_all(ps, w \o <<>>), o)
        BY <2>1, <2>2, <2>4, <3>1 DEF CopyOK
      <4> QED BY <2>3, <2>4, <4>1 DEF Begins
    <3>2. CASE c.st \in Copying \cup Ending
      <4>1. PICK v \in Seq(OutChars) : redact_all(ps, c.wrote \o <<>>) = c.out \o (c.next \o v)
        BY <2>1, <2>4, <3>2, OutBegins
      <4>2. PICK u \in Seq(OutChars) : u = t \o v
        BY ConcatIn, Zenon
      <4>3. whole = o \o u
        BY ONLY <2>2, <2>3, <2>4, <4>1, <4>2
      <4> QED BY <4>3
    <3> QED BY <2>1, <3>1, <3>2
  <2>6. o = SubSeq(whole, 1, Len(o)) /\ \A p : IsText(p) /\ Occurs(o, p) => Occurs(whole, p)
    BY <2>5, BeginsMeans
  <2>7. \A p \in ps : ~Occurs(o, p)
    <3> SUFFICES ASSUME NEW p \in ps PROVE ~Occurs(o, p)
      OBVIOUS
    <3>1. IsText(p)
      BY <2>1 DEF Searchable
    <3>2. ~Occurs(whole, p)
      BY <2>1, <2>3, RedactClean
    <3> QED BY <2>6, <3>1, <3>2
  <2>8. ASSUME c.st \notin {"failed", "broken", "error"}, c.pipe = <<>>, c.held = <<>>
        PROVE  o \o t = whole
    <3>1. CASE c.st \in Ending
      BY <2>1, <2>2, <2>3, <3>1 DEF CopyOK
    <3>2. CASE c.st \in Copying
      <4>1. o \o (t \o redact_all(ps, <<>> \o (<<>> \o <<>>))) = redact_all(ps, w \o <<>>)
        BY <2>1, <2>2, <2>4, <2>8, <3>2 DEF CopyOK, Flows
      <4>2. redact_all(ps, <<>>) = <<>>
        BY <2>1, RedactNothing
      <4>3. <<>> \o <<>> = <<>> /\ t \o <<>> = t
        OBVIOUS
      <4> QED BY ONLY <2>3, <2>4, <4>1, <4>2, <4>3
    <3> QED BY <2>1, <2>8, <3>1, <3>2 DEF Failing
  <2> QED BY <2>2, <2>3, <2>6, <2>7, <2>8 DEF c, ps
<1>2. StreamAgrees
  BY <1>1 DEF StreamAgrees
<1>3. OutputKept
  BY DEF OutputKept, OutputInv, Settled
<1> QED BY <1>2, <1>3 DEF OutputRight

(* However the output of the command is cut into chunks, and however the copying     *)
(* threads, the command, what it leaves behind and the two-second timeout interleave, *)
(* what `fnox exec` passes on is the start of the redaction of all of it, has no      *)
(* secret in it, and lacks nothing when fnox reports success, for every length of     *)
(* output and every set of values.                                                    *)
THEOREM OutputIsRight == Spec => []OutputRight
<1>1. Init => OutputInv
  BY OutputStarts DEF Init
<1>2. ExecInv /\ OutputInv /\ [Next]_vars => OutputInv'
  <2>1. [Next]_vars => [ExecNext]_execVars
    BY DEF Next, vars
  <2> QED BY <2>1, OutputNextKeeps
<1> QED BY <1>1, <1>2, ExecKept, OutputInvSound, PTL DEF Spec

--------------------------------------------------------------------------------
(* The credential proxy: what is on disk, and where it connects. *)

ProxyFields == {"pc", "in", "world", "policy", "requested", "plan", "env", "child"}

(* Mount points are empty unless another program has written into them. *)
DiskInv ==
  /\ DOMAIN disk = {"own", "at", "written"}
  /\ disk.written \subseteq DOMAIN disk.at
  /\ \A p \in DOMAIN disk.at : disk.at[p] = "empty" <=> p \notin disk.written
  /\ proxy.pc \in {"validate", "resolve", "plan", "listen", "spawn"} => DOMAIN disk.at = {}
  /\ proxy.pc = "ended" => disk.own = {} /\ DOMAIN disk.at = disk.written

ProxyShape ==
  On => DOMAIN proxy = ProxyFields /\ proxy.in \in DOMAIN ProxyInputs

(* An address that was permitted stays so: the settings do not change. *)
ConnInv ==
  /\ DOMAIN conn = Conns
  /\ \A c \in Conns :
       /\ DOMAIN conn[c] = {"st", "tries", "target", "sent", "at", "got"}
       /\ conn[c].st \in {"connect", "request"} => conn[c].target \in Targets
       /\ conn[c].at # None => conn[c].at \in Address /\ permits(in, conn[c].at)
       /\ conn[c].st = "request" /\ conn[c].target.literal # None => permits(in, conn[c].target.literal)

ProxyInv == ProxyShape /\ DiskInv /\ (On => ConnInv)

LEMMA ProxyStarts == ProxyInit \/ ProxyIdle => ProxyInv
<1>1. disk = [own |-> {}, at |-> <<>>, written |-> {}] => DiskInv
  BY DEF DiskInv
<1>2. ProxyIdle => ProxyInv
  BY <1>1 DEF ProxyIdle, ProxyInv, ProxyShape, On
<1>3. ASSUME ProxyInit PROVE ProxyInv
  <2>1. DOMAIN proxy = ProxyFields /\ proxy.in \in DOMAIN ProxyInputs
    BY <1>3 DEF ProxyInit, ProxyFields
  <2>2. ConnInv
    BY <1>3 DEF ProxyInit, ConnInv, IdleConn
  <2>3. DiskInv
    BY <1>1, <1>3 DEF ProxyInit
  <2> QED BY <2>1, <2>2, <2>3 DEF ProxyInv, ProxyShape
<1> QED BY <1>2, <1>3

(* A step of the session: the input stays. *)
LEMMA SessionKeeps ==
  ASSUME ProxyInv, On, conn' = conn, DOMAIN proxy' = DOMAIN proxy, proxy'.in = proxy.in, DiskInv'
  PROVE  ProxyInv'
<1>1. in' = in
  BY DEF in
<1>2. ProxyShape'
  BY DEF ProxyInv, ProxyShape
<1>3. ConnInv'
  BY <1>1 DEF ProxyInv, ConnInv
<1> QED BY <1>2, <1>3 DEF ProxyInv

LEMMA FailKeeps ==
  ASSUME ProxyInv, proxy.pc \in {"validate", "resolve", "plan", "listen"}, Fail
  PROVE  ProxyInv'
<1>1. DOMAIN proxy = ProxyFields /\ On
  BY DEF ProxyInv, ProxyShape, On
<1>2. DOMAIN proxy' = DOMAIN proxy /\ proxy'.in = proxy.in /\ proxy'.pc = "ended" /\ conn' = conn
  BY <1>1 DEF Fail, ProxyFields
<1>3. DOMAIN disk' = DOMAIN disk /\ disk'.own = {} /\ disk'.at = disk.at /\ disk'.written = disk.written
  BY DEF Fail, ProxyInv, DiskInv
<1>4. DiskInv'
  BY <1>2, <1>3 DEF ProxyInv, DiskInv
<1> QED BY <1>1, <1>2, <1>4, SessionKeeps

LEMMA PrepareKeeps ==
  ASSUME ProxyInv, Prepare
  PROVE  ProxyInv'
<1>1. proxy.pc = "validate" /\ DOMAIN proxy = ProxyFields /\ On
  BY DEF Prepare, ProxyInv, ProxyShape, On
<1>2. CASE Fail
  BY <1>1, <1>2, FailKeeps
<1>3. CASE \E policy, own :
             /\ proxy' = [proxy EXCEPT !.pc = "resolve", !.world = in.world, !.policy = policy]
             /\ disk' = [disk EXCEPT !.own = own] /\ conn' = conn
  <2>1. PICK policy, own :
             /\ proxy' = [proxy EXCEPT !.pc = "resolve", !.world = in.world, !.policy = policy]
             /\ disk' = [disk EXCEPT !.own = own] /\ conn' = conn
    BY <1>3
  <2>2. DOMAIN proxy' = DOMAIN proxy /\ proxy'.in = proxy.in /\ proxy'.pc = "resolve"
    BY <1>1, <2>1 DEF ProxyFields
  <2>3. DOMAIN disk' = DOMAIN disk /\ disk'.at = disk.at /\ disk'.written = disk.written
    BY <2>1 DEF ProxyInv, DiskInv
  <2>4. DiskInv'
    BY <1>1, <2>2, <2>3 DEF ProxyInv, DiskInv
  <2> QED BY <1>1, <2>1, <2>2, <2>4, SessionKeeps
<1>4. Fail \/ \E policy, own :
             /\ proxy' = [proxy EXCEPT !.pc = "resolve", !.world = in.world, !.policy = policy]
             /\ disk' = [disk EXCEPT !.own = own] /\ conn' = conn
  BY DEF Prepare
<1> QED BY <1>2, <1>3, <1>4

(* A step of the session that leaves the disk alone. *)
LEMMA OnwardKeeps ==
  ASSUME ProxyInv, On, conn' = conn, disk' = disk, DOMAIN proxy' = DOMAIN proxy, proxy'.in = proxy.in,
         proxy'.pc # "ended",
         proxy'.pc \in {"validate", "resolve", "plan", "listen", "spawn"} =>
           proxy.pc \in {"validate", "resolve", "plan", "listen", "spawn"}
  PROVE  ProxyInv'
<1>1. DiskInv'
  BY DEF ProxyInv, DiskInv
<1> QED BY <1>1, SessionKeeps

LEMMA SetupKeeps ==
  ASSUME ProxyInv, ResolveRules \/ MakePlan \/ Listen
  PROVE  ProxyInv'
<1>1. proxy.pc \in {"resolve", "plan", "listen"} /\ DOMAIN proxy = ProxyFields /\ On
  BY DEF ResolveRules, MakePlan, Listen, ProxyInv, ProxyShape, On
<1>2. CASE Fail
  BY <1>1, <1>2, FailKeeps
<1>3. CASE /\ \E requested : proxy' = [proxy EXCEPT !.pc = "plan", !.requested = requested]
           /\ conn' = conn /\ disk' = disk
  BY <1>1, <1>3, OnwardKeeps DEF ProxyFields
<1>4. CASE /\ \E plan : proxy' = [proxy EXCEPT !.pc = "listen", !.plan = plan]
           /\ conn' = conn /\ disk' = disk
  BY <1>1, <1>4, OnwardKeeps DEF ProxyFields
<1>5. CASE /\ proxy' = [proxy EXCEPT !.pc = "spawn"] /\ conn' = conn
           /\ \E own : disk' = [disk EXCEPT !.own = own]
  <2>1. DOMAIN proxy' = DOMAIN proxy /\ proxy'.in = proxy.in /\ proxy'.pc = "spawn"
    BY <1>1, <1>5 DEF ProxyFields
  <2>2. DOMAIN disk' = DOMAIN disk /\ disk'.at = disk.at /\ disk'.written = disk.written
    BY <1>5 DEF ProxyInv, DiskInv
  <2>3. DiskInv'
    BY <1>1, <2>1, <2>2 DEF ProxyInv, DiskInv
  <2> QED BY <1>1, <1>5, <2>1, <2>3, SessionKeeps
<1>6. CASE ResolveRules
  BY <1>2, <1>3, <1>6 DEF ResolveRules
<1>7. CASE MakePlan
  BY <1>2, <1>4, <1>7 DEF MakePlan
<1>8. CASE Listen
  BY <1>2, <1>5, <1>8 DEF Listen
<1> QED BY <1>6, <1>7, <1>8

LEMMA SpawnKeeps ==
  ASSUME ProxyInv, Spawn
  PROVE  ProxyInv'
<1>1. proxy.pc = "spawn" /\ DOMAIN proxy = ProxyFields /\ On /\ conn' = conn
  BY DEF Spawn, ProxyInv, ProxyShape, On
<1>2. CASE proxy' = [proxy EXCEPT !.pc = "cleanup"] /\ disk' = disk
  BY <1>1, <1>2, OnwardKeeps DEF ProxyFields
<1>3. CASE \E mounts, env : /\ proxy' = [proxy EXCEPT !.pc = "run", !.child = "running", !.env = env]
                            /\ disk' = [disk EXCEPT !.at = [p \in mounts |-> "empty"]]
  <2>1. PICK mounts, env : /\ proxy' = [proxy EXCEPT !.pc = "run", !.child = "running", !.env = env]
                           /\ disk' = [disk EXCEPT !.at = [p \in mounts |-> "empty"]]
    BY <1>3
  <2>2. DOMAIN proxy' = DOMAIN proxy /\ proxy'.in = proxy.in /\ proxy'.pc = "run"
    BY <1>1, <2>1 DEF ProxyFields
  <2>3. /\ DOMAIN disk' = DOMAIN disk /\ disk'.at = [p \in mounts |-> "empty"]
        /\ disk'.written = disk.written /\ disk.written = {}
    BY <1>1, <2>1 DEF ProxyInv, DiskInv
  <2>4. DiskInv'
    BY <2>2, <2>3 DEF ProxyInv, DiskInv
  <2> QED BY <1>1, <2>2, <2>4, SessionKeeps
<1>4. \/ proxy' = [proxy EXCEPT !.pc = "cleanup"] /\ disk' = disk
      \/ \E mounts, env : /\ proxy' = [proxy EXCEPT !.pc = "run", !.child = "running", !.env = env]
                          /\ disk' = [disk EXCEPT !.at = [p \in mounts |-> "empty"]]
  BY DEF Spawn
<1> QED BY <1>2, <1>3, <1>4

LEMMA OthersKeep ==
  ASSUME ProxyInv, OtherCreates \/ ChildEnds \/ KillProxy
  PROVE  ProxyInv'
<1>1. /\ proxy.pc \in {"resolve", "plan", "listen", "spawn", "run", "cleanup"}
      /\ DOMAIN proxy = ProxyFields /\ On /\ conn' = conn /\ disk' = disk
  BY DEF OtherCreates, ChildEnds, KillProxy, ProxyInv, ProxyShape, On
<1>2. CASE OtherCreates
  <2>1. DOMAIN proxy' = DOMAIN proxy /\ proxy'.in = proxy.in /\ proxy'.pc = proxy.pc
    BY <1>1, <1>2 DEF OtherCreates, ProxyFields
  <2> QED BY <1>1, <2>1, OnwardKeeps
<1>3. CASE ChildEnds
  BY <1>1, <1>3, OnwardKeeps DEF ChildEnds, ProxyFields
<1>4. CASE KillProxy
  <2>1. PICK child : proxy' = [proxy EXCEPT !.pc = "killed", !.child = child]
    BY <1>4 DEF KillProxy
  <2> QED BY <1>1, <2>1, OnwardKeeps DEF ProxyFields
<1> QED BY <1>2, <1>3, <1>4

LEMMA OtherWritesKeeps ==
  ASSUME ProxyInv, OtherWrites
  PROVE  ProxyInv'
<1>1. PICK p \in DOMAIN disk.at \ disk.written :
        disk' = [disk EXCEPT !.at[p] = "user", !.written = @ \cup {p}]
  BY DEF OtherWrites
<1>2. proxy.pc = "run" /\ proxy' = proxy /\ conn' = conn /\ On
  BY DEF OtherWrites, On
<1>3. /\ DOMAIN disk' = DOMAIN disk /\ disk'.at = [disk.at EXCEPT ![p] = "user"]
      /\ disk'.written = disk.written \cup {p}
  BY <1>1 DEF ProxyInv, DiskInv
<1>4. DiskInv'
  BY <1>1, <1>2, <1>3 DEF ProxyInv, DiskInv
<1> QED BY <1>2, <1>4, SessionKeeps

LEMMA CleanupKeeps ==
  ASSUME ProxyInv, Cleanup
  PROVE  ProxyInv'
<1>1. proxy.pc = "cleanup" /\ DOMAIN proxy = ProxyFields /\ On /\ conn' = conn
  BY DEF Cleanup, ProxyInv, ProxyShape, On
<1>2. DOMAIN proxy' = DOMAIN proxy /\ proxy'.in = proxy.in /\ proxy'.pc = "ended"
  BY <1>1 DEF Cleanup, ProxyFields
<1>3. /\ DOMAIN disk' = DOMAIN disk /\ disk'.own = {} /\ disk'.at = remove_mount_points(disk.at)
      /\ disk'.written = disk.written
  BY DEF Cleanup, ProxyInv, DiskInv
<1>4. /\ DOMAIN disk'.at = {q \in DOMAIN disk.at : disk.at[q] # "empty"}
      /\ \A q \in DOMAIN disk'.at : disk'.at[q] = disk.at[q]
  BY <1>3 DEF remove_mount_points
<1>5. DOMAIN disk'.at = disk.written
  BY <1>4 DEF ProxyInv, DiskInv
<1>6. DiskInv'
  BY <1>2, <1>3, <1>4, <1>5 DEF ProxyInv, DiskInv
<1> QED BY <1>1, <1>2, <1>6, SessionKeeps

(* Permitted means public, or listed under the address it really is. *)
LEMMA PermitsRight ==
  ASSUME NEW n \in DOMAIN ProxyInputs, NEW a \in Address, permits(ProxyInputs[n], a)
  PROVE  \/ a.net = "public"
         \/ \E b \in ProxyInputs[n].allowPrivate : b.net = a.net /\ a.form \in {"v4", "v6", "mapped"}
<1>1. Canonical(a) \in Address /\ Canonical(a).net = a.net
      /\ (Canonical(a).form \in {"v4", "v6"} => a.form \in {"v4", "v6", "mapped"})
  BY DEF Canonical, Address
<1>2. CASE is_public(a)
  <2>1. embedded_ipv4(Canonical(a)).net = a.net /\ embedded_ipv4(Canonical(a)).form # "embedded"
    BY <1>1 DEF embedded_ipv4, Address
  <2> QED BY <1>2, <2>1 DEF is_public
<1>3. CASE Canonical(a) \in ProxyInputs[n].allowPrivate
  BY <1>1, <1>3, ProxyAssumption
<1> QED BY <1>2, <1>3 DEF permits

(* A step of one connection. *)
LEMMA ConnectionKeeps ==
  ASSUME ProxyInv, proxy.pc = "run", NEW c \in Conns, proxy' = proxy, disk' = disk,
         DOMAIN conn' = Conns, \A d \in Conns \ {c} : conn'[d] = conn[d],
         DOMAIN conn'[c] = {"st", "tries", "target", "sent", "at", "got"},
         conn'[c].st \in {"connect", "request"} => conn'[c].target \in Targets,
         conn'[c].at # None => conn'[c].at \in Address /\ permits(in, conn'[c].at),
         conn'[c].st = "request" /\ conn'[c].target.literal # None => permits(in, conn'[c].target.literal)
  PROVE  ProxyInv'
<1>1. in' = in
  BY DEF in
<1>2. ConnInv'
  BY <1>1 DEF ProxyInv, ConnInv, On
<1> QED BY <1>2 DEF ProxyInv, ProxyShape, DiskInv, On

(* The connection goes to a state where nothing more is sent. *)
LEMMA ToKeeps ==
  ASSUME ProxyInv, proxy.pc = "run", NEW c \in Conns, proxy' = proxy, disk' = disk,
         NEW st \in {"refused", "closed", "failed"}, To(c, st)
  PROVE  ProxyInv'
<1>1. ConnInv
  BY DEF ProxyInv, On
<1>2. /\ DOMAIN conn' = Conns /\ \A d \in Conns \ {c} : conn'[d] = conn[d]
      /\ DOMAIN conn'[c] = DOMAIN conn[c] /\ conn'[c].st = st /\ conn'[c].at = conn[c].at
  BY <1>1 DEF To, ConnInv
<1> QED BY <1>1, <1>2, ConnectionKeeps DEF ConnInv

LEMMA ReadHeadKeeps ==
  ASSUME ProxyInv, proxy.pc = "run", NEW c \in Conns, proxy' = proxy, disk' = disk, ReadHead(c)
  PROVE  ProxyInv'
<1>1. ConnInv /\ conn[c].st = "idle"
  BY DEF ProxyInv, On, ReadHead
<1>2. CASE To(c, "refused") \/ To(c, "closed")
  BY <1>2, ToKeeps
<1>3. CASE \E t \in Targets : conn' = [conn EXCEPT ![c].st = "connect", ![c].target = t]
  <2>1. PICK t \in Targets : conn' = [conn EXCEPT ![c].st = "connect", ![c].target = t]
    BY <1>3
  <2>2. /\ DOMAIN conn' = Conns /\ \A d \in Conns \ {c} : conn'[d] = conn[d]
        /\ DOMAIN conn'[c] = DOMAIN conn[c] /\ conn'[c].st = "connect" /\ conn'[c].target = t
        /\ conn'[c].at = conn[c].at
    BY <1>1, <2>1 DEF ConnInv
  <2> QED BY <1>1, <2>2, ConnectionKeeps DEF ConnInv
<1>4. CASE conn' = [conn EXCEPT ![c].tries = @ + 1]
  <2>1. /\ DOMAIN conn' = Conns /\ \A d \in Conns \ {c} : conn'[d] = conn[d]
        /\ DOMAIN conn'[c] = DOMAIN conn[c] /\ conn'[c].st = "idle" /\ conn'[c].at = conn[c].at
    BY <1>1, <1>4 DEF ConnInv
  <2> QED BY <1>1, <2>1, ConnectionKeeps DEF ConnInv
<1> QED BY <1>2, <1>3, <1>4 DEF ReadHead

LEMMA LookedUp ==
  ASSUME NEW t \in Targets, NEW answer \in Lookup(t)
  PROVE  answer \subseteq Address /\ (t.literal # None => answer = {t.literal})
BY ProxyAssumption DEF Lookup

LEMMA TunnelKeeps ==
  ASSUME ProxyInv, proxy.pc = "run", NEW c \in Conns, proxy' = proxy, disk' = disk, Tunnel(c)
  PROVE  ProxyInv'
<1>1. ConnInv /\ conn[c].st = "connect" /\ conn[c].target \in Targets
  BY DEF ProxyInv, On, Tunnel, ConnInv
<1>2. CASE To(c, "refused") \/ To(c, "failed")
  BY <1>2, ToKeeps
<1>3. CASE \E answer \in Lookup(conn[c].target) : \E a \in Permitted(in, answer) :
             conn' = [conn EXCEPT ![c].st = "tunnel", ![c].at = a]
  <2>1. PICK answer \in Lookup(conn[c].target) : \E a \in Permitted(in, answer) :
             conn' = [conn EXCEPT ![c].st = "tunnel", ![c].at = a]
    BY <1>3
  <2>2. PICK a \in Permitted(in, answer) : conn' = [conn EXCEPT ![c].st = "tunnel", ![c].at = a]
    BY <2>1
  <2>3. a \in Address /\ permits(in, a)
    BY <1>1, LookedUp DEF Permitted
  <2>4. /\ DOMAIN conn' = Conns /\ \A d \in Conns \ {c} : conn'[d] = conn[d]
        /\ DOMAIN conn'[c] = DOMAIN conn[c] /\ conn'[c].st = "tunnel" /\ conn'[c].at = a
    BY <1>1, <2>2 DEF ConnInv
  <2> QED BY <1>1, <2>3, <2>4, ConnectionKeeps DEF ConnInv
<1> QED BY <1>2, <1>3 DEF Tunnel

(* A literal address is checked here; it is not looked up again. *)
LEMMA InterceptKeeps ==
  ASSUME ProxyInv, proxy.pc = "run", NEW c \in Conns, proxy' = proxy, disk' = disk, Intercept(c)
  PROVE  ProxyInv'
<1>1. ConnInv /\ conn[c].st = "connect" /\ conn[c].target \in Targets
  BY DEF ProxyInv, On, Intercept, ConnInv
<1>2. CASE To(c, "refused") \/ To(c, "failed") \/ To(c, "closed")
  BY <1>2, ToKeeps
<1>3. CASE /\ To(c, "request")
           /\ \E answer \in Lookup(conn[c].target) : Permitted(in, answer) # {}
  <2>1. conn[c].target.literal # None => permits(in, conn[c].target.literal)
    BY <1>1, <1>3, LookedUp DEF Permitted
  <2>2. /\ DOMAIN conn' = Conns /\ \A d \in Conns \ {c} : conn'[d] = conn[d]
        /\ DOMAIN conn'[c] = DOMAIN conn[c] /\ conn'[c].st = "request" /\ conn'[c].at = conn[c].at
        /\ conn'[c].target = conn[c].target
    BY <1>1, <1>3 DEF ConnInv, To
  <2> QED BY <1>1, <2>1, <2>2, ConnectionKeeps DEF ConnInv
<1> QED BY <1>2, <1>3 DEF Intercept

LEMMA RequestKeeps ==
  ASSUME ProxyInv, proxy.pc = "run", NEW c \in Conns, proxy' = proxy, disk' = disk, Request(c)
  PROVE  ProxyInv'
<1>1. ConnInv /\ conn[c].st = "request" /\ conn[c].target \in Targets
  BY DEF ProxyInv, On, Request, ConnInv
<1>2. CASE To(c, "refused") \/ To(c, "failed")
  BY <1>2, ToKeeps
<1>3. CASE \E answer \in Lookup(conn[c].target) :
             \E a \in UpstreamAddresses(in, conn[c].target, answer) : \E out :
               conn' = [conn EXCEPT ![c].st = "upstream", ![c].at = a, ![c].sent = out]
  <2>1. PICK answer \in Lookup(conn[c].target) :
             \E a \in UpstreamAddresses(in, conn[c].target, answer) : \E out :
               conn' = [conn EXCEPT ![c].st = "upstream", ![c].at = a, ![c].sent = out]
    BY <1>3
  <2>2. PICK a \in UpstreamAddresses(in, conn[c].target, answer) : \E out :
               conn' = [conn EXCEPT ![c].st = "upstream", ![c].at = a, ![c].sent = out]
    BY <2>1
  <2>3. a \in Address /\ permits(in, a)
    <3>1. CASE conn[c].target.literal = None
      BY <1>1, <3>1, LookedUp DEF UpstreamAddresses, Permitted
    <3>2. CASE conn[c].target.literal # None
      BY <1>1, <3>2, LookedUp DEF UpstreamAddresses, ConnInv
    <3> QED BY <3>1, <3>2
  <2>4. /\ DOMAIN conn' = Conns /\ \A d \in Conns \ {c} : conn'[d] = conn[d]
        /\ DOMAIN conn'[c] = DOMAIN conn[c] /\ conn'[c].st = "upstream" /\ conn'[c].at = a
    BY <1>1, <2>2 DEF ConnInv
  <2> QED BY <1>1, <2>3, <2>4, ConnectionKeeps DEF ConnInv
<1>4. PICK req \in Requests :
       LET auth == authorize(proxy.plan, conn[c].target.domain, req)
           out == [auth.req EXCEPT !.headers = PassedOn(@)]
       IN  CASE req.form \in {"malformed", "noUrl"} -> To(c, "failed")
             [] req.form \in {"ambiguous", "otherHost"} -> To(c, "refused")
             [] req.form \in {"ok", "noMethod"} /\ ~auth.ok -> To(c, "refused")
             [] req.form = "noMethod" /\ auth.ok -> To(c, "failed")
             [] req.form = "ok" /\ auth.ok ->
                  \E answer \in Lookup(conn[c].target) :
                    LET addresses == UpstreamAddresses(in, conn[c].target, answer)
                    IN  IF addresses = {} THEN To(c, "failed")
                        ELSE \E a \in addresses :
                               conn' = [conn EXCEPT ![c].st = "upstream", ![c].at = a,
                                          ![c].sent = out]
  BY DEF Request
<1> DEFINE ok == authorize(proxy.plan, conn[c].target.domain, req).ok
           Sends == \E answer \in Lookup(conn[c].target) :
                      \E a \in UpstreamAddresses(in, conn[c].target, answer) : \E out :
                        conn' = [conn EXCEPT ![c].st = "upstream", ![c].at = a, ![c].sent = out]
<1>5. req.form \in {"ok", "malformed", "noUrl", "ambiguous", "otherHost", "noMethod"}
  BY ProxyAssumption
<1>6. To(c, "failed") \/ To(c, "refused") \/ Sends
  <2>1. CASE req.form \in {"malformed", "noUrl", "ambiguous", "otherHost"}
    BY <1>4, <2>1
  <2>2. CASE req.form \in {"ok", "noMethod"} /\ ~ok
    BY <1>4, <2>2
  <2>3. CASE req.form = "noMethod" /\ ok
    BY <1>4, <2>3
  <2>4. CASE req.form = "ok" /\ ok
    <3> DEFINE out == [authorize(proxy.plan, conn[c].target.domain, req).req EXCEPT !.headers = PassedOn(@)]
    <3>1. \E answer \in Lookup(conn[c].target) :
            \/ To(c, "failed")
            \/ \E a \in UpstreamAddresses(in, conn[c].target, answer) :
                 conn' = [conn EXCEPT ![c].st = "upstream", ![c].at = a, ![c].sent = out]
      BY <1>4, <2>4
    <3> HIDE DEF out
    <3> QED BY <3>1
  <2> QED BY <1>5, <2>1, <2>2, <2>3, <2>4
<1> QED BY <1>2, <1>3, <1>6

LEMMA RespondKeeps ==
  ASSUME ProxyInv, proxy.pc = "run", NEW c \in Conns, proxy' = proxy, disk' = disk, Respond(c)
  PROVE  ProxyInv'
<1>1. ConnInv
  BY DEF ProxyInv, On
<1>2. CASE To(c, "failed")
  BY <1>2, ToKeeps
<1>3. CASE \E got : conn' = [conn EXCEPT ![c].st = "answered", ![c].got = got]
  <2>1. /\ DOMAIN conn' = Conns /\ \A d \in Conns \ {c} : conn'[d] = conn[d]
        /\ DOMAIN conn'[c] = DOMAIN conn[c] /\ conn'[c].st = "answered" /\ conn'[c].at = conn[c].at
    BY <1>1, <1>3 DEF ConnInv
  <2> QED BY <1>1, <2>1, ConnectionKeeps DEF ConnInv
<1> QED BY <1>2, <1>3 DEF Respond

LEMMA ServeKeeps ==
  ASSUME ProxyInv, NEW c \in Conns, Serve(c)
  PROVE  ProxyInv'
<1>1. proxy.pc = "run" /\ proxy' = proxy /\ disk' = disk
  BY DEF Serve
<1>2. CASE BadTarget(c)
  BY <1>1, <1>2, ToKeeps DEF BadTarget
<1> QED BY <1>1, <1>2, ReadHeadKeeps, TunnelKeeps, InterceptKeeps, RequestKeeps, RespondKeeps DEF Serve

LEMMA ProxyNextKeeps ==
  ASSUME ProxyInv, [ProxyNext]_proxyVars
  PROVE  ProxyInv'
<1>1. CASE UNCHANGED proxyVars
  BY <1>1 DEF proxyVars, ProxyInv, ProxyShape, DiskInv, ConnInv, On, in
<1> QED BY <1>1, PrepareKeeps, SetupKeeps, SpawnKeeps, OthersKeep, OtherWritesKeeps, CleanupKeeps, ServeKeeps
        DEF ProxyNext

LEMMA ProxyInvSound == ProxyInv => ProxyCleaned /\ ConnectedPermitted
<1> SUFFICES ASSUME ProxyInv PROVE ProxyCleaned /\ ConnectedPermitted
  OBVIOUS
<1>1. ProxyCleaned
  BY DEF ProxyInv, DiskInv, ProxyCleaned
<1>2. ASSUME On, NEW c \in Conns, conn[c].at # None
      PROVE  \/ conn[c].at.net = "public"
             \/ \E a \in in.allowPrivate :
                  a.net = conn[c].at.net /\ conn[c].at.form \in {"v4", "v6", "mapped"}
  <2>1. proxy.in \in DOMAIN ProxyInputs /\ conn[c].at \in Address /\ permits(ProxyInputs[proxy.in], conn[c].at)
    BY <1>2 DEF ProxyInv, ProxyShape, ConnInv, in
  <2> QED BY <2>1, PermitsRight DEF in
<1>3. ConnectedPermitted
  BY <1>2 DEF ConnectedPermitted
<1> QED BY <1>1, <1>3

LEMMA ProxyKept == Spec => []ProxyInv
<1>1. Init => ProxyInv
  BY ProxyStarts DEF Init
<1>2. ProxyInv /\ [Next]_vars => ProxyInv'
  <2>1. [Next]_vars => [ProxyNext]_proxyVars
    BY DEF Next, vars
  <2> QED BY <2>1, ProxyNextKeeps
<1> QED BY <1>1, <1>2, PTL DEF Spec

(* Every connection that the proxy makes goes to a public address or to a listed one, *)
(* although a name is looked up twice and may have a different answer each time.      *)
THEOREM ConnectionsPermitted == Spec => []ConnectedPermitted
BY ProxyKept, ProxyInvSound, PTL

--------------------------------------------------------------------------------
(* What the proxy puts into a request: authorize, and what it leaves in the text. *)

Fields(req) == {x \in Places(req) : x.in \in {"header", "query"}}

Value(req, x) == FieldOf(req, x).value

Secrets(text) == {text[j].of : j \in DOMAIN text} \ {None}

(* A request with texts that have characters of the child and of secrets. *)
RequestOK(req) ==
  /\ DOMAIN req = {"form", "method", "path", "text", "headers", "query"}
  /\ \A k \in DOMAIN req.headers : DOMAIN req.headers[k] = {"name", "value"}
  /\ \A k \in DOMAIN req.query : DOMAIN req.query[k] = {"name", "text", "value"}
  /\ \A x \in Fields(req) : IsSequence(Value(req, x))

(* Each secret has its placeholder. *)
RulesOK(rules) ==
  /\ Len(rules) \in Nat /\ DOMAIN rules = 1..Len(rules)
  /\ \A r \in Range(rules) : IsSequence(r.placeholder) /\ IsSequence(r.value) /\ r.secret # None
  /\ \A q, r \in Range(rules) : q.placeholder = r.placeholder <=> q.secret = r.secret

LEMMA SequenceIs ==
  ASSUME NEW s
  PROVE  /\ \A S : s \in Seq(S) => IsSequence(s)
         /\ IsSequence(s) => Len(s) \in Nat /\ DOMAIN s = 1..Len(s)
         /\ \A S : IsSequence(s) /\ Range(s) \subseteq S => s \in Seq(S)
<1>1. ASSUME NEW S, s \in Seq(S) PROVE s \in Seq(Range(s))
  <2>1. Len(s) \in Nat /\ s = [k \in 1..Len(s) |-> s[k]] /\ DOMAIN s = 1..Len(s)
    BY <1>1
  <2>2. \A k \in 1..Len(s) : s[k] \in Range(s)
    BY <2>1 DEF Range
  <2> QED BY <2>1, <2>2
<1>2. ASSUME NEW S, s \in Seq(Range(s)), Range(s) \subseteq S PROVE s \in Seq(S)
  BY <1>2
<1>3. s \in Seq(Range(s)) => Len(s) \in Nat /\ DOMAIN s = 1..Len(s)
  OBVIOUS
<1> QED BY <1>1, <1>2, <1>3 DEF IsSequence

LEMMA MarkedIs ==
  ASSUME NEW s, IsSequence(s), NEW secret
  PROVE  /\ IsSequence(Marked(s, secret)) /\ Secrets(Marked(s, secret)) \subseteq {secret}
         /\ \A k \in DOMAIN s : Marked(s, secret)[k].of = secret
<1>1. Len(s) \in Nat /\ DOMAIN s = 1..Len(s)
  BY SequenceIs
<1>2. Marked(s, secret) \in Seq({[c |-> s[k], of |-> secret] : k \in DOMAIN s})
  BY <1>1 DEF Marked
<1>3. IsSequence(Marked(s, secret))
  BY <1>2, SequenceIs
<1> QED BY <1>3 DEF Marked, Secrets

(* Only the secret's characters are new. *)
LEMMA FilledIs ==
  ASSUME NEW text, IsSequence(text), NEW r, IsSequence(r.placeholder), IsSequence(r.value),
         Occurs(Chars(text), r.placeholder)
  PROVE  IsSequence(Filled(text, r)) /\ Secrets(Filled(text, r)) \subseteq Secrets(text) \cup {r.secret}
<1> DEFINE p == r.placeholder
           T == {j \in 1..Len(text) : At(Chars(text), j, p)}
           at == Min(T)
           m == Marked(r.value, r.secret)
           S == Range(text) \cup Range(m)
<1>1. Len(text) \in Nat /\ DOMAIN text = 1..Len(text) /\ Len(p) \in Nat /\ IsSequence(m)
  BY SequenceIs, MarkedIs
<1>2. Len(Chars(text)) = Len(text)
  BY <1>1 DEF Chars
<1>3. at \in 1..Len(text)
  <2>1. T \in SUBSET Nat /\ T # {}
    BY <1>1, <1>2 DEF Occurs
  <2> HIDE DEF T
  <2>2. \E n \in T : \A k \in T : n <= k
    BY <2>1, LeastNatural
  <2>3. at \in T
    BY <2>2 DEF Min
  <2> QED BY <2>3 DEF T
<1>4. text \in Seq(S) /\ m \in Seq(S)
  <2> HIDE DEF m
  <2> QED BY <1>1, SequenceIs
<1> HIDE DEF at, m, S
<1> DEFINE left == SubSeq(text, 1, at - 1)
           right == SubSeq(text, at + Len(p), Len(text))
<1>5. left \in Seq(S)
  BY <1>1, <1>3, <1>4
<1>6. right \in Seq(S)
  BY <1>1, <1>3, <1>4
<1>7. Filled(text, r) = left \o m \o right
  BY DEF Filled, at, m
<1> HIDE DEF left, right
<1>8. Filled(text, r) \in Seq(S)
  BY <1>4, <1>5, <1>6, <1>7
<1>9. IsSequence(Filled(text, r)) /\ \A k \in DOMAIN Filled(text, r) : Filled(text, r)[k] \in S
  BY <1>8, SequenceIs
<1>10. ASSUME NEW g \in S PROVE g.of \in {text[j].of : j \in DOMAIN text} \cup {r.secret}
  <2>1. CASE g \in Range(text)
    BY <2>1 DEF Range
  <2>2. CASE g \in Range(m)
    <3>1. PICK k \in DOMAIN m : g = m[k]
      BY <2>2 DEF Range
    <3>2. g.of = r.secret
      BY <3>1 DEF m, Marked
    <3> QED BY <3>2
  <2> QED BY <2>1, <2>2 DEF S
<1> QED BY <1>9, <1>10 DEF Secrets

(* One field of the request is changed, and only its value. *)
LEMMA ReplaceIs ==
  ASSUME NEW req, RequestOK(req), NEW x \in Fields(req), NEW r, IsSequence(r.placeholder),
         IsSequence(r.value), Occurs(Chars(Value(req, x)), r.placeholder), NEW new,
         new = ReplaceIn(req, x, r)
  PROVE  /\ RequestOK(new) /\ Fields(new) = Fields(req)
         /\ new.method = req.method /\ new.path = req.path
         /\ \A y \in Fields(req) : FieldOf(new, y).name = FieldOf(req, y).name
         /\ Value(new, x) = Filled(Value(req, x), r)
         /\ \A y \in Fields(req) \ {x} : Value(new, y) = Value(req, y)
<1>1. IsSequence(Filled(Value(req, x), r))
  BY FilledIs DEF RequestOK
<1> DEFINE v == Filled(Value(req, x), r)
<1>2. CASE x.in = "header"
  <2>1. x \in [in : {"header"}, k : DOMAIN req.headers]
    BY <1>2 DEF Fields, Places
  <2>2. new = [req EXCEPT !.headers[x.k].value = v]
    BY <1>2 DEF ReplaceIn, Value, FieldOf
  <2> HIDE DEF v
  <2>3. /\ DOMAIN new = DOMAIN req /\ new.query = req.query
        /\ new.method = req.method /\ new.path = req.path
        /\ new.headers = [req.headers EXCEPT ![x.k].value = v]
    BY <2>2 DEF RequestOK
  <2>4. /\ DOMAIN new.headers = DOMAIN req.headers
        /\ new.headers[x.k] = [req.headers[x.k] EXCEPT !.value = v]
        /\ \A k \in DOMAIN req.headers \ {x.k} : new.headers[k] = req.headers[k]
    BY <2>1, <2>3
  <2>5. /\ DOMAIN new.headers[x.k] = {"name", "value"} /\ new.headers[x.k].name = req.headers[x.k].name
        /\ new.headers[x.k].value = v
    BY <2>1, <2>4 DEF RequestOK
  <2>6. Fields(new) = Fields(req)
    BY <2>3, <2>4 DEF Fields, Places
  <2>7. \A y \in Fields(req) \ {x} : FieldOf(new, y) = FieldOf(req, y)
    <3> TAKE y \in Fields(req) \ {x}
    <3>1. CASE y.in = "header"
      <4>1. y \in [in : {"header"}, k : DOMAIN req.headers]
        BY <3>1 DEF Fields, Places
      <4>2. y.k # x.k
        BY <2>1, <4>1
      <4> QED BY <2>4, <3>1, <4>1, <4>2 DEF FieldOf
    <3>2. CASE y.in # "header"
      BY <2>3, <3>2 DEF FieldOf
    <3> QED BY <3>1, <3>2
  <2>8. FieldOf(new, x).name = FieldOf(req, x).name /\ Value(new, x) = v
    BY <1>2, <2>5 DEF FieldOf, Value
  <2>9. \A y \in Fields(new) : IsSequence(Value(new, y))
    BY <1>1, <2>6, <2>7, <2>8 DEF RequestOK, Value, v
  <2>10. RequestOK(new)
    BY <2>3, <2>4, <2>5, <2>9 DEF RequestOK
  <2> QED BY <2>3, <2>6, <2>7, <2>8, <2>10 DEF Value, v
<1>3. CASE x.in = "query"
  <2>1. x \in [in : {"name", "query"}, k : DOMAIN req.query]
    BY <1>3 DEF Fields, Places
  <2>2. new = [req EXCEPT !.query[x.k].value = v]
    BY <1>3 DEF ReplaceIn, Value, FieldOf
  <2> HIDE DEF v
  <2>3. /\ DOMAIN new = DOMAIN req /\ new.headers = req.headers
        /\ new.method = req.method /\ new.path = req.path
        /\ new.query = [req.query EXCEPT ![x.k].value = v]
    BY <2>2 DEF RequestOK
  <2>4. /\ DOMAIN new.query = DOMAIN req.query
        /\ new.query[x.k] = [req.query[x.k] EXCEPT !.value = v]
        /\ \A k \in DOMAIN req.query \ {x.k} : new.query[k] = req.query[k]
    BY <2>1, <2>3
  <2>5. /\ DOMAIN new.query[x.k] = {"name", "text", "value"}
        /\ new.query[x.k].name = req.query[x.k].name /\ new.query[x.k].value = v
    BY <2>1, <2>4 DEF RequestOK
  <2>6. Fields(new) = Fields(req)
    BY <2>3, <2>4 DEF Fields, Places
  <2>7. \A y \in Fields(req) \ {x} : FieldOf(new, y) = FieldOf(req, y)
    <3> TAKE y \in Fields(req) \ {x}
    <3>1. CASE y.in = "query"
      <4>1. y \in [in : {"name", "query"}, k : DOMAIN req.query]
        BY <3>1 DEF Fields, Places
      <4>2. y.k # x.k
        BY <2>1, <3>1, <4>1, <1>3
      <4> QED BY <2>4, <3>1, <4>1, <4>2 DEF FieldOf
    <3>2. CASE y.in = "header"
      BY <2>3, <3>2 DEF FieldOf
    <3> QED BY <3>1, <3>2 DEF Fields
  <2>8. FieldOf(new, x).name = FieldOf(req, x).name /\ Value(new, x) = v
    BY <1>3, <2>5 DEF FieldOf, Value
  <2>9. \A y \in Fields(new) : IsSequence(Value(new, y))
    BY <1>1, <2>6, <2>7, <2>8 DEF RequestOK, Value, v
  <2>10. RequestOK(new)
    BY <2>3, <2>4, <2>5, <2>9 DEF RequestOK
  <2> QED BY <2>3, <2>6, <2>7, <2>8, <2>10 DEF Value, v
<1> QED BY <1>2, <1>3 DEF Fields

(* Every secret in the request has been put there by a rule that allows it, in one field, and *)
(* its placeholder has been looked at.                                                        *)
Traced(rs, acc) ==
  /\ DOMAIN acc = {"ok", "req", "checked"}
  /\ RequestOK(acc.req)
  /\ \A x \in Fields(acc.req) : \A s \in Secrets(Value(acc.req, x)) :
       /\ \E r \in rs : /\ r.secret = s /\ r.placeholder \in acc.checked
                        /\ route_matches(r, acc.req)
                        /\ r.target = [in |-> x.in, name |-> FieldOf(acc.req, x).name]
       /\ \A y \in Fields(acc.req) : s \in Secrets(Value(acc.req, y)) => y = x

LEMMA InjectTraced ==
  ASSUME NEW rules, RulesOK(rules), NEW rs \in SUBSET Range(rules), NEW acc, Traced(rs, acc),
         NEW r \in rs
  PROVE  Traced(rs, Inject(rs, acc, r))
<1> DEFINE p == r.placeholder
           found == {x \in Places(acc.req) : Occurs(TextAt(acc.req, x), p)}
           x == CHOOSE y \in found : TRUE
           fits == /\ found = {x} /\ ~Twice(TextAt(acc.req, x), p)
                   /\ x.in \in {"header", "query"} /\ Allows(rs, acc.req, p, x)
           new == ReplaceIn(acc.req, x, r)
<1>1. CASE ~acc.ok \/ p \in acc.checked
  BY <1>1 DEF Inject
<1>2. ASSUME NEW b \in {[acc EXCEPT !.checked = @ \cup {p}], [acc EXCEPT !.ok = FALSE]}
      PROVE  Traced(rs, b)
  <2>1. DOMAIN b = DOMAIN acc /\ b.req = acc.req /\ acc.checked \subseteq b.checked
    BY <1>2 DEF Traced
  <2> QED BY <2>1 DEF Traced
<1>3. CASE p \notin acc.checked /\ fits
  <2>1. x \in Fields(acc.req) /\ Occurs(Chars(Value(acc.req, x)), p)
    <3>1. x \in found /\ x.in \in {"header", "query"}
      BY <1>3
    <3> HIDE DEF x
    <3> QED BY <3>1 DEF Fields, TextAt, Value, FieldOf
  <2>2. Allows(rs, acc.req, p, x)
    BY <1>3
  <2> HIDE DEF x, fits, found
  <2>3. RequestOK(acc.req) /\ IsSequence(p) /\ IsSequence(r.value)
    BY DEF Traced, RulesOK
  <2>4. /\ RequestOK(new) /\ Fields(new) = Fields(acc.req)
        /\ new.method = acc.req.method /\ new.path = acc.req.path
        /\ \A y \in Fields(acc.req) : FieldOf(new, y).name = FieldOf(acc.req, y).name
        /\ Value(new, x) = Filled(Value(acc.req, x), r)
        /\ \A y \in Fields(acc.req) \ {x} : Value(new, y) = Value(acc.req, y)
    BY <2>1, <2>3, ReplaceIs
  <2> HIDE DEF new
  <2>5. Secrets(Value(new, x)) \subseteq Secrets(Value(acc.req, x)) \cup {r.secret}
    <3>1. IsSequence(Value(acc.req, x))
      BY <2>1, <2>3 DEF RequestOK
    <3> QED BY <3>1, <2>1, <2>3, <2>4, FilledIs
  <2>6. \A y \in Fields(acc.req) : r.secret \notin Secrets(Value(acc.req, y))
    <3> SUFFICES ASSUME NEW y \in Fields(acc.req), r.secret \in Secrets(Value(acc.req, y)) PROVE FALSE
      OBVIOUS
    <3> DEFINE s == r.secret
    <3>0. \E q \in rs : /\ q.secret = s /\ q.placeholder \in acc.checked
                        /\ route_matches(q, acc.req)
                        /\ q.target = [in |-> y.in, name |-> FieldOf(acc.req, y).name]
      <4>1. s \in Secrets(Value(acc.req, y))
        OBVIOUS
      <4> HIDE DEF s
      <4> QED BY <4>1 DEF Traced
    <3>1. PICK q \in rs : q.secret = r.secret /\ q.placeholder \in acc.checked
      BY <3>0
    <3>2. q.placeholder = p
      BY <3>1 DEF RulesOK
    <3> QED BY <1>3, <3>1, <3>2
  <2> DEFINE b == [acc EXCEPT !.req = new, !.checked = @ \cup {p}]
  <2>7. DOMAIN b = DOMAIN acc /\ b.req = new /\ b.checked = acc.checked \cup {p}
    BY DEF Traced
  <2> HIDE DEF b
  <2>8. ASSUME NEW y \in Fields(new), NEW s \in Secrets(Value(new, y)), s # r.secret
        PROVE  s \in Secrets(Value(acc.req, y)) /\ y \in Fields(acc.req)
    BY <2>4, <2>5, <2>8
  <2>9. ASSUME NEW y \in Fields(new), r.secret \in Secrets(Value(new, y)) PROVE y = x
    BY <2>4, <2>6, <2>9
  <2>10. ASSUME NEW y \in Fields(new), NEW s \in Secrets(Value(new, y))
         PROVE  \E q \in rs : /\ q.secret = s /\ q.placeholder \in b.checked
                              /\ route_matches(q, new)
                              /\ q.target = [in |-> y.in, name |-> FieldOf(new, y).name]
    <3>0. \A q \in rs : route_matches(q, acc.req) => route_matches(q, new)
      BY <2>4 DEF route_matches
    <3>1. CASE s = r.secret
      <4>1. PICK q \in rs : /\ q.placeholder = p /\ route_matches(q, acc.req)
                            /\ q.target = [in |-> x.in, name |-> FieldOf(acc.req, x).name]
        BY <2>2 DEF Allows
      <4>2. q.secret = r.secret
        BY <4>1 DEF RulesOK
      <4>3. y = x /\ FieldOf(new, y).name = FieldOf(acc.req, x).name
        BY <2>1, <2>4, <2>9, <3>1
      <4> QED BY <2>7, <3>0, <3>1, <4>1, <4>2, <4>3
    <3>2. CASE s # r.secret
      <4>1. s \in Secrets(Value(acc.req, y)) /\ y \in Fields(acc.req)
        BY <2>8, <3>2
      <4>2. PICK q \in rs : /\ q.secret = s /\ q.placeholder \in acc.checked /\ route_matches(q, acc.req)
                            /\ q.target = [in |-> y.in, name |-> FieldOf(acc.req, y).name]
        BY <4>1 DEF Traced
      <4> QED BY <2>4, <2>7, <3>0, <4>1, <4>2
    <3> QED BY <3>1, <3>2
  <2>11. ASSUME NEW y \in Fields(new), NEW s \in Secrets(Value(new, y)),
                NEW z \in Fields(new), s \in Secrets(Value(new, z))
         PROVE  z = y
    <3>1. CASE s = r.secret
      BY <2>9, <2>11, <3>1
    <3>2. CASE s # r.secret
      BY <2>8, <2>11, <3>2 DEF Traced
    <3> QED BY <3>1, <3>2
  <2>12. Traced(rs, b)
    BY <2>4, <2>7, <2>10, <2>11 DEF Traced
  <2>13. Inject(rs, acc, r) \in {acc, b}
    <3>1. CASE acc.ok
      BY <1>3, <3>1 DEF Inject, b, new, fits, found, x
    <3> QED BY <3>1 DEF Inject
  <2> QED BY <2>12, <2>13
<1>4. CASE p \notin acc.checked /\ ~fits /\ acc.ok
  <2>1. Inject(rs, acc, r) \in {[acc EXCEPT !.checked = @ \cup {p}], [acc EXCEPT !.ok = FALSE]}
    BY <1>4 DEF Inject
  <2> HIDE DEF fits
  <2> QED BY <1>2, <2>1
<1> HIDE DEF fits
<1> QED BY <1>1, <1>3, <1>4

LEMMA OwnTraced ==
  ASSUME NEW req \in Requests, NEW rs, NEW ok
  PROVE  Traced(rs, [ok |-> ok, req |-> Own(req), checked |-> {}])
<1> DEFINE own(fields) == [k \in DOMAIN fields |-> [fields[k] EXCEPT !.value = Marked(@, None)]]
           new == Own(req)
<1>1. /\ DOMAIN req = {"form", "method", "path", "text", "headers", "query"}
      /\ \A k \in DOMAIN req.headers : DOMAIN req.headers[k] = {"name", "value"} /\ IsSequence(req.headers[k].value)
      /\ \A k \in DOMAIN req.query : DOMAIN req.query[k] = {"name", "text", "value"} /\ IsSequence(req.query[k].value)
  BY ProxyAssumption DEF Range
<1>2. DOMAIN new = DOMAIN req /\ new.headers = own(req.headers) /\ new.query = own(req.query)
  BY <1>1 DEF Own
<1> HIDE DEF new
<1>3. /\ DOMAIN new.headers = DOMAIN req.headers
      /\ \A k \in DOMAIN req.headers : /\ DOMAIN new.headers[k] = {"name", "value"}
                                       /\ new.headers[k].value = Marked(req.headers[k].value, None)
  BY <1>1, <1>2
<1>4. /\ DOMAIN new.query = DOMAIN req.query
      /\ \A k \in DOMAIN req.query : /\ DOMAIN new.query[k] = {"name", "text", "value"}
                                     /\ new.query[k].value = Marked(req.query[k].value, None)
  BY <1>1, <1>2
<1>5. ASSUME NEW x \in Fields(new)
      PROVE  \E v : IsSequence(v) /\ Value(new, x) = Marked(v, None)
  <2>1. CASE x.in = "header"
    <3>1. x.k \in DOMAIN new.headers
      BY <2>1 DEF Fields, Places
    <3> QED BY <1>1, <1>3, <2>1, <3>1 DEF Value, FieldOf
  <2>2. CASE x.in = "query"
    <3>1. x.k \in DOMAIN new.query
      BY <2>2 DEF Fields, Places
    <3> QED BY <1>1, <1>4, <2>2, <3>1 DEF Value, FieldOf
  <2> QED BY <2>1, <2>2 DEF Fields
<1>6. ASSUME NEW x \in Fields(new) PROVE IsSequence(Value(new, x)) /\ Secrets(Value(new, x)) = {}
  <2>1. PICK v : IsSequence(v) /\ Value(new, x) = Marked(v, None)
    BY <1>5
  <2>2. IsSequence(Marked(v, None)) /\ Secrets(Marked(v, None)) \subseteq {None}
    BY <2>1, MarkedIs
  <2> QED BY <2>1, <2>2 DEF Secrets
<1>7. RequestOK(new)
  BY <1>1, <1>2, <1>3, <1>4, <1>6 DEF RequestOK
<1> DEFINE acc == [ok |-> ok, req |-> new, checked |-> {}]
<1>8. DOMAIN acc = {"ok", "req", "checked"} /\ acc.req = new
  OBVIOUS
<1> HIDE DEF acc
<1>9. Traced(rs, acc)
  BY <1>6, <1>7, <1>8 DEF Traced
<1> QED BY <1>9 DEF acc, new

(* The rules of a domain are gone through in their order. *)
RulesOf(rules, domain) == {r \in Range(rules) : domain_matches(r.domain, domain)}

AuthorizeStep(rules, rs, req, f, n) ==
  IF n = 0 THEN [ok |-> \E r \in rs : route_matches(r, req), req |-> Own(req), checked |-> {}]
  ELSE IF rules[n] \in rs THEN Inject(rs, f[n - 1], rules[n]) ELSE f[n - 1]

LEMMA AuthorizeExists ==
  ASSUME NEW rules, RulesOK(rules), NEW rs, NEW req
  PROVE  \E f : f = [n \in 0..Len(rules) |-> AuthorizeStep(rules, rs, req, f, n)]
<1> DEFINE Is(f, m) == f = [n \in 0..m |-> AuthorizeStep(rules, rs, req, f, n)]
           T == {m \in Nat : ~\E f : Is(f, m)}
<1>1. CASE T = {}
  <2>1. Len(rules) \in Nat
    BY DEF RulesOK
  <2> QED BY <1>1, <2>1
<1>2. CASE T # {}
  <2>1. PICK m \in T : \A k \in T : m <= k
    <3> T \in SUBSET Nat
      OBVIOUS
    <3> HIDE DEF T
    <3> QED BY <1>2, LeastNatural
  <2>2. m \in Nat /\ ~\E f : Is(f, m)
    BY <2>1
  <2>3. CASE m = 0
    <3> DEFINE a == AuthorizeStep(rules, rs, req, <<>>, 0)
               h == [n \in 0..0 |-> a]
    <3>1. \A f : AuthorizeStep(rules, rs, req, f, 0) = a
      BY DEF AuthorizeStep
    <3> HIDE DEF a
    <3>2. \A n \in 0..0 : AuthorizeStep(rules, rs, req, h, n) = a
      BY <3>1
    <3>3. Is(h, 0)
      BY <3>2
    <3> HIDE DEF h, Is
    <3> QED BY <2>2, <2>3, <3>3
  <2>4. CASE m # 0
    <3>1. m - 1 \in Nat /\ m - 1 \notin T
      <4> HIDE DEF T
      <4> QED BY <2>1, <2>2, <2>4
    <3>2. PICK g : Is(g, m - 1)
      <4> HIDE DEF Is
      <4> QED BY <3>1
    <3>3. \A n \in 0..m - 1 : g[n] = AuthorizeStep(rules, rs, req, g, n)
      BY <3>2, Zenon
    <3> DEFINE h == [n \in 0..m |-> IF n = m THEN AuthorizeStep(rules, rs, req, g, m) ELSE g[n]]
    <3>4. ASSUME NEW n \in 0..m PROVE AuthorizeStep(rules, rs, req, h, n) = AuthorizeStep(rules, rs, req, g, n)
      <4>1. CASE n = 0
        BY <4>1 DEF AuthorizeStep
      <4>2. CASE n # 0
        <5>1. n - 1 \in 0..m /\ n - 1 # m
          BY <2>2, <4>2
        <5>2. h[n - 1] = g[n - 1]
          BY <5>1
        <5> HIDE DEF h
        <5> QED BY <4>2, <5>2 DEF AuthorizeStep
      <4> QED BY <4>1, <4>2
    <3>5. ASSUME NEW n \in 0..m PROVE h[n] = AuthorizeStep(rules, rs, req, h, n)
      <4>1. CASE n = m
        <5>1. h[n] = AuthorizeStep(rules, rs, req, g, n)
          BY <4>1
        <5> HIDE DEF h
        <5> QED BY <5>1, <3>4
      <4>2. CASE n # m
        <5>1. h[n] = g[n] /\ n \in 0..m - 1
          BY <4>2, <2>2
        <5> HIDE DEF h
        <5> QED BY <5>1, <3>3, <3>4
      <4> QED BY <4>1, <4>2
    <3>6. h = [n \in 0..m |-> h[n]]
      OBVIOUS
    <3> HIDE DEF h
    <3>7. Is(h, m)
      BY <3>5, <3>6
    <3> HIDE DEF Is
    <3> QED BY <2>2, <3>7
  <2> QED BY <2>3, <2>4
<1> QED BY <1>1, <1>2

LEMMA AuthorizeTraced ==
  ASSUME NEW plan, RulesOK(plan.rules), NEW domain, NEW req \in Requests
  PROVE  Traced(RulesOf(plan.rules, domain), authorize(plan, domain, req))
<1> DEFINE rules == plan.rules
           rs == RulesOf(rules, domain)
           f == CHOOSE g : g = [n \in 0..Len(rules) |-> AuthorizeStep(rules, rs, req, g, n)]
           T == {n \in 0..Len(rules) : ~Traced(rs, f[n])}
<1>1. Len(rules) \in Nat /\ DOMAIN rules = 1..Len(rules) /\ rs \in SUBSET Range(rules)
  BY DEF RulesOK, RulesOf
<1>2. f = [n \in 0..Len(rules) |-> AuthorizeStep(rules, rs, req, f, n)]
  <2>1. RulesOK(rules)
    OBVIOUS
  <2>2. \E g : g = [n \in 0..Len(rules) |-> AuthorizeStep(rules, rs, req, g, n)]
    <3> HIDE DEF rs, rules
    <3> QED BY <2>1, AuthorizeExists
  <2> HIDE DEF rs, rules
  <2> QED BY <2>2, Zenon
<1>3. authorize(plan, domain, req) = f[Len(rules)]
  BY DEF authorize, AuthorizeStep, RulesOf
<1> HIDE DEF f, rs
<1>4. \A n \in 0..Len(rules) : f[n] = AuthorizeStep(rules, rs, req, f, n)
  BY <1>2, Zenon
<1>5. ASSUME T # {} PROVE FALSE
  <2>1. PICK n \in T : \A k \in T : n <= k
    <3> T \in SUBSET Nat
      BY <1>1
    <3> HIDE DEF T
    <3> QED BY <1>5, LeastNatural
  <2>2. n \in 0..Len(rules) /\ ~Traced(rs, f[n]) /\ f[n] = AuthorizeStep(rules, rs, req, f, n)
    BY <1>4, <2>1
  <2>3. CASE n = 0
    BY <2>2, <2>3, OwnTraced DEF AuthorizeStep
  <2>4. CASE n # 0
    <3>1. n - 1 \in 0..Len(rules) /\ n - 1 \notin T
      <4>1. n - 1 \in 0..Len(rules) /\ ~(n <= n - 1)
        BY <1>1, <2>2, <2>4
      <4> HIDE DEF T
      <4> QED BY <2>1, <4>1
    <3>2. Traced(rs, f[n - 1])
      BY <3>1
    <3>3. CASE rules[n] \in rs
      <4>1. Traced(rs, Inject(rs, f[n - 1], rules[n]))
        BY <1>1, <3>2, <3>3, InjectTraced
      <4> QED BY <2>2, <2>4, <3>3, <4>1 DEF AuthorizeStep
    <3>4. CASE rules[n] \notin rs
      BY <2>2, <2>4, <3>2, <3>4 DEF AuthorizeStep
    <3> QED BY <3>3, <3>4
  <2> QED BY <2>3, <2>4
<1>6. Traced(rs, f[Len(rules)])
  BY <1>1, <1>5
<1> QED BY <1>3, <1>6 DEF rs

(* What is sent is what authorize made, less the headers that are not passed on. *)
LEMMA AuthorizeRight ==
  ASSUME NEW plan, RulesOK(plan.rules), NEW to, to.port = 443, NEW req \in Requests, NEW out,
         out = [authorize(plan, to.domain, req).req EXCEPT !.headers = PassedOn(@)]
  PROVE  Authorised(plan, out, to)
<1> DEFINE rs == RulesOf(plan.rules, to.domain)
           acc == authorize(plan, to.domain, req)
<1>1. Traced(rs, acc)
  BY AuthorizeTraced
<1>2. out = [acc.req EXCEPT !.headers = PassedOn(@)]
  OBVIOUS
<1> HIDE DEF acc
<1>3. /\ out.headers = PassedOn(acc.req.headers) /\ out.query = acc.req.query
      /\ out.method = acc.req.method /\ out.path = acc.req.path
  BY <1>1, <1>2 DEF Traced, RequestOK
<1>4. /\ DOMAIN out.headers \subseteq DOMAIN acc.req.headers
      /\ \A k \in DOMAIN out.headers : out.headers[k] = acc.req.headers[k]
  BY <1>3 DEF PassedOn
<1>5. ASSUME NEW x \in Fields(out) PROVE x \in Fields(acc.req) /\ FieldOf(out, x) = FieldOf(acc.req, x)
  BY <1>3, <1>4 DEF Fields, Places, FieldOf
<1>6. ASSUME NEW x \in Fields(out), NEW s \in Secrets(Value(out, x))
      PROVE  \E r \in Range(plan.rules) :
               /\ r.secret = s /\ domain_matches(r.domain, to.domain) /\ route_matches(r, out)
               /\ r.target = [in |-> x.in, name |-> FieldOf(out, x).name]
  <2>1. x \in Fields(acc.req) /\ FieldOf(out, x) = FieldOf(acc.req, x) /\ s \in Secrets(Value(acc.req, x))
    BY <1>5 DEF Value
  <2>2. PICK r \in rs : /\ r.secret = s /\ route_matches(r, acc.req)
                        /\ r.target = [in |-> x.in, name |-> FieldOf(acc.req, x).name]
    BY <1>1, <2>1 DEF Traced
  <2>3. r \in Range(plan.rules) /\ domain_matches(r.domain, to.domain) /\ route_matches(r, out)
    BY <1>3, <2>2 DEF RulesOf, route_matches
  <2> QED BY <2>1, <2>2, <2>3
<1>7. ASSUME NEW x \in Fields(out), NEW s \in Secrets(Value(out, x)),
             NEW y \in Fields(out), s \in Secrets(Value(out, y))
      PROVE  y = x
  <2>1. /\ x \in Fields(acc.req) /\ s \in Secrets(Value(acc.req, x))
        /\ y \in Fields(acc.req) /\ s \in Secrets(Value(acc.req, y))
    BY <1>5, <1>7 DEF Value
  <2> QED BY <1>1, <2>1 DEF Traced
<1>8. \A x \in Fields(out) : \A s \in Secrets(Value(out, x)) :
        /\ \E r \in Range(plan.rules) :
             /\ r.secret = s /\ domain_matches(r.domain, to.domain) /\ route_matches(r, out)
             /\ r.target = [in |-> x.in, name |-> FieldOf(out, x).name]
        /\ \A y \in Fields(out) : s \in Secrets(Value(out, y)) => y = x
        /\ to.port = 443
  BY <1>6, <1>7
<1> HIDE DEF rs
<1> QED BY <1>8, Zenon DEF Authorised, Fields, Secrets, Value

(* A placeholder is that of some rule of the secret, or made for it. *)
LEMMA PlaceholderFrom ==
  ASSUME NEW n \in DOMAIN ProxyInputs, NEW i, i = ProxyInputs[n], NEW s \in {r.secret : r \in Range(i.rules)}
  PROVE  \E r \in Range(i.rules) :
           /\ r.secret = s
           /\ PlaceholderOf(i.rules, s) = IF r.placeholder = <<>> THEN Generated[s] ELSE r.placeholder
<1> DEFINE T == {k \in DOMAIN i.rules : i.rules[k].secret = s}
           first == Min(T)
<1>1. DOMAIN i.rules = 1..Len(i.rules) /\ Len(i.rules) \in Nat
  BY ProxyAssumption, SequenceIs
<1>2. T \in SUBSET Nat /\ T # {}
  BY <1>1 DEF Range
<1>3. first \in T
  <2> HIDE DEF T
  <2>1. \E m \in T : \A k \in T : m <= k
    BY <1>2, LeastNatural
  <2> QED BY <2>1 DEF Min
<1> HIDE DEF first
<1>4. i.rules[first] \in Range(i.rules) /\ i.rules[first].secret = s
  BY <1>3 DEF Range
<1>5. PlaceholderOf(i.rules, s) =
        IF i.rules[first].placeholder = <<>> THEN Generated[s] ELSE i.rules[first].placeholder
  BY DEF PlaceholderOf, first
<1> QED BY <1>4, <1>5

(* Two secrets of a plan have different placeholders: none is found in another. *)
LEMMA PlanRules ==
  ASSUME NEW n \in DOMAIN ProxyInputs, NEW i, i = ProxyInputs[n], PlanOk(i, i.value)
  PROVE  RulesOK(ProxyPlan(i, i.value).rules)
<1> DEFINE secrets == {r.secret : r \in Range(i.rules)}
           ph(s) == PlaceholderOf(i.rules, s)
           rules == ProxyPlan(i, i.value).rules
<1>1. Len(i.rules) \in Nat /\ DOMAIN i.rules = 1..Len(i.rules)
  BY ProxyAssumption, SequenceIs
<1>2. \A k \in DOMAIN i.rules : i.rules[k] \in Range(i.rules)
  BY DEF Range
<1>3. ASSUME NEW s \in secrets PROVE IsSequence(ph(s)) /\ ph(s) # <<>>
  <2>1. PICK r \in Range(i.rules) :
          r.secret = s /\ ph(s) = IF r.placeholder = <<>> THEN Generated[s] ELSE r.placeholder
    BY PlaceholderFrom
  <2>2. IsSequence(r.placeholder) /\ IsSequence(Generated[s]) /\ Generated[s] # <<>>
    BY <2>1, ProxyAssumption
  <2> QED BY <2>1, <2>2
<1>4. ASSUME NEW s \in secrets, NEW t \in secrets, ph(s) = ph(t), s # t PROVE FALSE
  <2> DEFINE p == ph(s)
  <2>1. IsSequence(p) /\ p # <<>> /\ ~Occurs(p, p)
    BY <1>3, <1>4 DEF PlanOk
  <2> HIDE DEF p
  <2>2. Len(p) \in Nat /\ Len(p) # 0 /\ DOMAIN p = 1..Len(p) /\ p \in Seq(Range(p))
    BY <2>1, SequenceIs DEF IsSequence
  <2>3. SubSeq(p, 1, Len(p)) = p
    BY <2>2
  <2>4. At(p, 1, p) /\ 1 \in 1..Len(p)
    BY <2>2, <2>3 DEF At
  <2> QED BY <2>1, <2>4 DEF Occurs
<1>5. /\ DOMAIN rules = DOMAIN i.rules
      /\ \A k \in DOMAIN rules : /\ rules[k].secret = i.rules[k].secret /\ rules[k].secret \in secrets
                                 /\ rules[k].placeholder = ph(rules[k].secret)
                                 /\ rules[k].value = i.value[rules[k].secret]
  BY <1>2 DEF ProxyPlan
<1>6. \A s \in secrets : IsSequence(i.value[s]) /\ s # None
  BY ProxyAssumption
<1> HIDE DEF rules, ph, secrets
<1>7. \A r \in Range(rules) : /\ r.secret \in secrets /\ r.placeholder = ph(r.secret)
                              /\ r.value = i.value[r.secret]
  BY <1>5 DEF Range
<1>8. Len(rules) \in Nat /\ DOMAIN rules = 1..Len(rules)
  <2>1. rules = [k \in 1..Len(i.rules) |-> rules[k]]
    BY <1>1, <1>5 DEF rules, ProxyPlan
  <2>2. rules \in Seq(Range(rules))
    BY <1>1, <1>5, <2>1 DEF Range
  <2> QED BY <2>2
<1>9. ASSUME NEW q \in Range(rules), NEW r \in Range(rules)
      PROVE  q.placeholder = r.placeholder <=> q.secret = r.secret
  BY <1>4, <1>7
<1>10. \A r \in Range(rules) : IsSequence(r.placeholder) /\ IsSequence(r.value) /\ r.secret # None
  BY <1>3, <1>6, <1>7
<1>11. RulesOK(rules)
  BY <1>8, <1>9, <1>10 DEF RulesOK
<1> QED BY <1>11 DEF rules

(* Nothing is sent before the child runs; then what is sent went through authorize. *)
ConnSent(plan, k) ==
  /\ k.st \in {"idle", "connect", "request"} => k.sent = None
  /\ k.st = "request" => k.target.port = 443
  /\ k.sent # None => Authorised(plan, k.sent, k.target)

SentInv ==
  On => /\ proxy.pc \in {"listen", "spawn", "run"} => RulesOK(proxy.plan.rules)
        /\ proxy.pc \in {"validate", "resolve", "plan", "listen", "spawn"} =>
             \A c \in Conns : conn[c].sent = None
        /\ \A c \in Conns : ConnSent(proxy.plan, conn[c])

LEMMA SentStarts == ProxyInit \/ ProxyIdle => SentInv
BY DEF ProxyInit, ProxyIdle, SentInv, IdleConn, ConnSent, On

(* A step of the session that keeps its plan. *)
LEMMA SessionKeepsSent ==
  ASSUME SentInv, On, conn' = conn, proxy'.plan = proxy.plan,
         proxy'.pc \in {"listen", "spawn", "run"} => proxy.pc \in {"listen", "spawn", "run"},
         proxy'.pc \in {"validate", "resolve", "plan", "listen", "spawn"} =>
           proxy.pc \in {"validate", "resolve", "plan", "listen", "spawn"}
  PROVE  SentInv'
<1>1. \A c \in Conns : ConnSent(proxy'.plan, conn'[c])
  BY DEF SentInv
<1> QED BY <1>1 DEF SentInv

LEMMA StepsKeepSent ==
  ASSUME ProxyInv, SentInv,
         Prepare \/ ResolveRules \/ Listen \/ Spawn \/ ChildEnds \/ KillProxy \/ Cleanup
           \/ OtherCreates \/ OtherWrites
  PROVE  SentInv'
<1>1. On /\ DOMAIN proxy = ProxyFields
  BY DEF Prepare, ResolveRules, Listen, Spawn, ChildEnds, KillProxy, Cleanup, OtherCreates, OtherWrites,
         ProxyInv, ProxyShape, On
<1>2. CASE Prepare
  <2>1. conn' = conn /\ proxy'.plan = proxy.plan /\ proxy.pc = "validate" /\ proxy'.pc \in {"ended", "resolve"}
    BY <1>1, <1>2 DEF Prepare, Fail, ProxyFields
  <2> QED BY <1>1, <2>1, SessionKeepsSent
<1>3. CASE ResolveRules
  <2>1. conn' = conn /\ proxy'.plan = proxy.plan /\ proxy.pc = "resolve" /\ proxy'.pc \in {"ended", "plan"}
    BY <1>1, <1>3 DEF ResolveRules, Fail, ProxyFields
  <2> QED BY <1>1, <2>1, SessionKeepsSent
<1>4. CASE Listen
  <2>1. conn' = conn /\ proxy'.plan = proxy.plan /\ proxy.pc = "listen" /\ proxy'.pc \in {"ended", "spawn"}
    BY <1>1, <1>4 DEF Listen, Fail, ProxyFields
  <2> QED BY <1>1, <2>1, SessionKeepsSent
<1>5. CASE Spawn
  <2>1. conn' = conn /\ proxy'.plan = proxy.plan /\ proxy.pc = "spawn" /\ proxy'.pc \in {"run", "cleanup"}
    BY <1>1, <1>5 DEF Spawn, ProxyFields
  <2> QED BY <1>1, <2>1, SessionKeepsSent
<1>6. CASE ChildEnds \/ Cleanup
  <2>1. conn' = conn /\ proxy'.plan = proxy.plan /\ proxy'.pc \in {"cleanup", "ended"}
    BY <1>1, <1>6 DEF ChildEnds, Cleanup, ProxyFields
  <2> QED BY <1>1, <2>1, SessionKeepsSent
<1>7. CASE KillProxy
  <2>1. conn' = conn /\ proxy'.plan = proxy.plan /\ proxy'.pc = "killed"
    BY <1>1, <1>7 DEF KillProxy, ProxyFields
  <2> QED BY <1>1, <2>1, SessionKeepsSent
<1>8. CASE OtherCreates
  <2>1. conn' = conn /\ proxy'.plan = proxy.plan /\ proxy'.pc = proxy.pc
    BY <1>1, <1>8 DEF OtherCreates, ProxyFields
  <2> QED BY <1>1, <2>1, SessionKeepsSent
<1>9. CASE OtherWrites
  <2>1. conn' = conn /\ proxy' = proxy
    BY <1>9 DEF OtherWrites
  <2> QED BY <1>1, <2>1, SessionKeepsSent
<1> QED BY <1>2, <1>3, <1>4, <1>5, <1>6, <1>7, <1>8, <1>9

LEMMA MakePlanKeepsSent ==
  ASSUME ProxyInv, SentInv, MakePlan
  PROVE  SentInv'
<1>1. On /\ DOMAIN proxy = ProxyFields /\ proxy.in \in DOMAIN ProxyInputs /\ proxy.pc = "plan"
  BY DEF MakePlan, ProxyInv, ProxyShape, On
<1>2. CASE Fail
  <2>1. conn' = conn /\ proxy'.plan = proxy.plan /\ proxy'.pc = "ended"
    BY <1>1, <1>2 DEF Fail, ProxyFields
  <2> QED BY <1>1, <2>1, SessionKeepsSent
<1>3. CASE ~Fail
  <2>1. PlanOk(in, in.value) /\ proxy' = [proxy EXCEPT !.pc = "listen", !.plan = ProxyPlan(in, in.value)]
        /\ conn' = conn
    BY <1>3 DEF MakePlan
  <2>2. RulesOK(ProxyPlan(in, in.value).rules)
    BY <1>1, <2>1, PlanRules DEF in
  <2>3. proxy'.plan = ProxyPlan(in, in.value) /\ proxy'.pc = "listen"
    BY <1>1, <2>1 DEF ProxyFields
  <2>4. \A c \in Conns : conn[c].sent = None
    BY <1>1 DEF SentInv
  <2>5. \A c \in Conns : ConnSent(proxy'.plan, conn'[c])
    BY <1>1, <2>1, <2>4 DEF SentInv, ConnSent
  <2> QED BY <2>1, <2>2, <2>3, <2>4, <2>5 DEF SentInv
<1> QED BY <1>2, <1>3

(* A step of one connection. *)
LEMMA ConnectionKeepsSent ==
  ASSUME SentInv, proxy.pc = "run", NEW c \in Conns, proxy' = proxy,
         \A d \in Conns \ {c} : conn'[d] = conn[d], ConnSent(proxy.plan, conn'[c])
  PROVE  SentInv'
<1>1. \A d \in Conns : ConnSent(proxy.plan, conn'[d])
  BY DEF SentInv, On
<1> QED BY <1>1 DEF SentInv, On

LEMMA RequestKeepsSent ==
  ASSUME ProxyInv, SentInv, proxy.pc = "run", NEW c \in Conns, proxy' = proxy, Request(c)
  PROVE  SentInv'
<1>1. /\ ConnInv /\ conn[c].st = "request" /\ ConnSent(proxy.plan, conn[c])
      /\ conn[c].target.port = 443 /\ RulesOK(proxy.plan.rules)
  BY DEF ProxyInv, SentInv, ConnSent, On, Request
<1>2. CASE To(c, "refused") \/ To(c, "failed")
  <2>1. /\ \A d \in Conns \ {c} : conn'[d] = conn[d]
        /\ conn'[c].st \in {"refused", "failed"} /\ conn'[c].sent = conn[c].sent /\ conn'[c].target = conn[c].target
    BY <1>1, <1>2 DEF To, ConnInv
  <2> QED BY <1>1, <2>1, ConnectionKeepsSent DEF ConnSent
<1>3. ASSUME NEW out, Authorised(proxy.plan, out, conn[c].target), NEW a,
             conn' = [conn EXCEPT ![c].st = "upstream", ![c].at = a, ![c].sent = out]
      PROVE  SentInv'
  <2>1. /\ \A d \in Conns \ {c} : conn'[d] = conn[d]
        /\ conn'[c].st = "upstream" /\ conn'[c].sent = out /\ conn'[c].target = conn[c].target
    BY <1>1, <1>3 DEF ConnInv
  <2> QED BY <1>3, <2>1, ConnectionKeepsSent DEF ConnSent
<1>4. PICK req \in Requests :
       LET auth == authorize(proxy.plan, conn[c].target.domain, req)
           out == [auth.req EXCEPT !.headers = PassedOn(@)]
       IN  CASE req.form \in {"malformed", "noUrl"} -> To(c, "failed")
             [] req.form \in {"ambiguous", "otherHost"} -> To(c, "refused")
             [] req.form \in {"ok", "noMethod"} /\ ~auth.ok -> To(c, "refused")
             [] req.form = "noMethod" /\ auth.ok -> To(c, "failed")
             [] req.form = "ok" /\ auth.ok ->
                  \E answer \in Lookup(conn[c].target) :
                    LET addresses == UpstreamAddresses(in, conn[c].target, answer)
                    IN  IF addresses = {} THEN To(c, "failed")
                        ELSE \E a \in addresses :
                               conn' = [conn EXCEPT ![c].st = "upstream", ![c].at = a,
                                          ![c].sent = out]
  BY DEF Request
<1> DEFINE auth == authorize(proxy.plan, conn[c].target.domain, req)
           out == [auth.req EXCEPT !.headers = PassedOn(@)]
<1>5. Authorised(proxy.plan, out, conn[c].target)
  BY <1>1, AuthorizeRight
<1>6. req.form \in {"ok", "malformed", "noUrl", "ambiguous", "otherHost", "noMethod"}
  BY ProxyAssumption
<1>7. CASE req.form \in {"malformed", "noUrl", "ambiguous", "otherHost"}
  BY <1>2, <1>4, <1>7
<1>8. CASE req.form \in {"ok", "noMethod"} /\ ~auth.ok
  BY <1>2, <1>4, <1>8
<1>9. CASE req.form = "noMethod" /\ auth.ok
  BY <1>2, <1>4, <1>9
<1>10. CASE req.form = "ok" /\ auth.ok
  <2>1. \/ To(c, "failed")
        \/ \E a : conn' = [conn EXCEPT ![c].st = "upstream", ![c].at = a, ![c].sent = out]
    BY <1>4, <1>10
  <2> HIDE DEF out
  <2> QED BY <1>2, <1>3, <1>5, <2>1
<1> QED BY <1>6, <1>7, <1>8, <1>9, <1>10

LEMMA ServeKeepsSent ==
  ASSUME ProxyInv, SentInv, NEW c \in Conns, Serve(c)
  PROVE  SentInv'
<1>1. /\ proxy.pc = "run" /\ proxy' = proxy /\ ConnInv /\ ConnSent(proxy.plan, conn[c])
  BY DEF Serve, ProxyInv, SentInv, On
<1>2. ASSUME NEW st \in {"refused", "failed", "closed"}, To(c, st) PROVE SentInv'
  <2>1. /\ \A d \in Conns \ {c} : conn'[d] = conn[d]
        /\ conn'[c].st = st /\ conn'[c].sent = conn[c].sent /\ conn'[c].target = conn[c].target
    BY <1>1, <1>2 DEF To, ConnInv
  <2> QED BY <1>1, <2>1, ConnectionKeepsSent DEF ConnSent
<1>3. CASE ReadHead(c)
  <2>1. CASE \E t \in Targets : conn' = [conn EXCEPT ![c].st = "connect", ![c].target = t]
    <3>1. /\ \A d \in Conns \ {c} : conn'[d] = conn[d]
          /\ conn'[c].st = "connect" /\ conn'[c].sent = conn[c].sent
      BY <1>1, <2>1 DEF ConnInv
    <3>2. conn[c].sent = None
      BY <1>1, <1>3 DEF ReadHead, ConnSent
    <3> QED BY <1>1, <3>1, <3>2, ConnectionKeepsSent DEF ConnSent
  <2>2. CASE conn' = [conn EXCEPT ![c].tries = @ + 1]
    <3>1. /\ \A d \in Conns \ {c} : conn'[d] = conn[d]
          /\ conn'[c].st = conn[c].st /\ conn'[c].sent = conn[c].sent /\ conn'[c].target = conn[c].target
      BY <1>1, <2>2 DEF ConnInv
    <3> QED BY <1>1, <3>1, ConnectionKeepsSent DEF ConnSent
  <2> QED BY <1>2, <1>3, <2>1, <2>2 DEF ReadHead
<1>4. CASE BadTarget(c)
  BY <1>2, <1>4 DEF BadTarget
<1>5. CASE Tunnel(c)
  <2>1. CASE \E a : conn' = [conn EXCEPT ![c].st = "tunnel", ![c].at = a]
    <3>1. /\ \A d \in Conns \ {c} : conn'[d] = conn[d]
          /\ conn'[c].st = "tunnel" /\ conn'[c].sent = conn[c].sent /\ conn'[c].target = conn[c].target
      BY <1>1, <2>1 DEF ConnInv
    <3> QED BY <1>1, <3>1, ConnectionKeepsSent DEF ConnSent
  <2>2. \/ To(c, "refused") \/ To(c, "failed")
        \/ \E a : conn' = [conn EXCEPT ![c].st = "tunnel", ![c].at = a]
    BY <1>5 DEF Tunnel
  <2> QED BY <1>2, <2>1, <2>2
<1>6. CASE Intercept(c)
  <2>1. CASE To(c, "request") /\ conn[c].target.port = 443
    <3>1. /\ \A d \in Conns \ {c} : conn'[d] = conn[d]
          /\ conn'[c].st = "request" /\ conn'[c].sent = conn[c].sent /\ conn'[c].target = conn[c].target
      BY <1>1, <2>1 DEF ConnInv, To
    <3>2. conn[c].sent = None
      BY <1>1, <1>6 DEF Intercept, ConnSent
    <3> QED BY <1>1, <2>1, <3>1, <3>2, ConnectionKeepsSent DEF ConnSent
  <2>2. \/ To(c, "refused") \/ To(c, "failed") \/ To(c, "closed")
        \/ To(c, "request") /\ conn[c].target.port = 443
    BY <1>6 DEF Intercept
  <2> QED BY <1>2, <2>1, <2>2
<1>7. CASE Respond(c)
  <2>1. CASE \E got : conn' = [conn EXCEPT ![c].st = "answered", ![c].got = got]
    <3>1. /\ \A d \in Conns \ {c} : conn'[d] = conn[d]
          /\ conn'[c].st = "answered" /\ conn'[c].sent = conn[c].sent /\ conn'[c].target = conn[c].target
      BY <1>1, <2>1 DEF ConnInv
    <3> QED BY <1>1, <3>1, ConnectionKeepsSent DEF ConnSent
  <2>2. \/ To(c, "failed")
        \/ \E got : conn' = [conn EXCEPT ![c].st = "answered", ![c].got = got]
    BY <1>7 DEF Respond
  <2> QED BY <1>2, <2>1, <2>2
<1> QED BY <1>1, <1>3, <1>4, <1>5, <1>6, <1>7, RequestKeepsSent DEF Serve

LEMMA SentKept == Spec => []SentInv
<1>1. Init => SentInv
  BY SentStarts DEF Init
<1>2. ProxyInv /\ SentInv /\ [Next]_vars => SentInv'
  <2> SUFFICES ASSUME ProxyInv, SentInv, [Next]_vars PROVE SentInv'
    OBVIOUS
  <2>1. CASE UNCHANGED proxyVars
    BY <2>1 DEF proxyVars, SentInv, On
  <2>2. CASE ProxyNext
    BY <2>2, StepsKeepSent, MakePlanKeepsSent, ServeKeepsSent DEF ProxyNext
  <2> QED BY <2>1, <2>2 DEF Next, vars
<1> QED BY <1>1, <1>2, ProxyKept, PTL DEF Spec

(* A real value leaves fnox only where a rule of that secret allows it, in one place of the *)
(* request and over port 443, and every connection goes to a permitted address: whatever    *)
(* rules, requests, values and answers of the DNS there are.                                *)
THEOREM ProxySends == Spec => []ProxySound
<1>1. SentInv => SentAuthorised
  BY DEF SentInv, SentAuthorised, ConnSent
<1> QED BY <1>1, SentKept, ConnectionsPermitted, PTL DEF ProxySound

--------------------------------------------------------------------------------
(* The sandbox of the proxy: paths, the policy and what the child finds. *)

LEMMA UnderIs ==
  ASSUME NEW p \in Path, NEW q \in Path
  PROVE  Under(p, q) <=> Len(q) <= Len(p) /\ \A k \in 1..Len(q) : p[k] = q[k]
<1>1. ASSUME Len(q) <= Len(p)
      PROVE  SubSeq(p, 1, Len(q)) = q <=> \A k \in 1..Len(q) : p[k] = q[k]
  <2>1. /\ SubSeq(p, 1, Len(q)) \in Path /\ Len(SubSeq(p, 1, Len(q))) = Len(q)
        /\ \A k \in 1..Len(q) : SubSeq(p, 1, Len(q))[k] = p[k]
    BY <1>1 DEF Path
  <2> QED BY <2>1 DEF Path
<1> QED BY <1>1 DEF Under

LEMMA UnderOrders ==
  ASSUME NEW p \in Path, NEW q \in Path, NEW r \in Path
  PROVE  /\ Under(p, p) /\ Under(p, <<>>)
         /\ Under(p, q) /\ Under(q, r) => Under(p, r)
         /\ Under(p, q) /\ Under(p, r) => Under(q, r) \/ Under(r, q)
         /\ Under(p, q) /\ Len(p) <= Len(q) => p = q
         /\ Under(p, q) /\ p # q => Len(q) \in 0..Len(p) - 1
<1>1. Len(p) \in Nat /\ Len(q) \in Nat /\ Len(r) \in Nat /\ <<>> \in Path /\ Len(<<>>) = 0
  BY DEF Path
<1>2. Under(p, p) /\ Under(p, <<>>)
  BY <1>1, UnderIs
<1>3. Under(p, q) /\ Under(q, r) => Under(p, r)
  BY <1>1, UnderIs
<1>4. Under(p, q) /\ Under(p, r) => Under(q, r) \/ Under(r, q)
  BY <1>1, UnderIs
<1>5. Under(p, q) /\ Len(p) <= Len(q) => p = q
  BY <1>1, UnderIs DEF Path
<1> QED BY <1>1, <1>2, <1>3, <1>4, <1>5, UnderIs

LEMMA PrefixIs ==
  ASSUME NEW p \in Path, NEW n \in 0..Len(p)
  PROVE  SubSeq(p, 1, n) \in Path /\ Under(p, SubSeq(p, 1, n)) /\ Len(SubSeq(p, 1, n)) = n
<1>1. /\ SubSeq(p, 1, n) \in Path /\ Len(SubSeq(p, 1, n)) = n
      /\ \A k \in 1..n : SubSeq(p, 1, n)[k] = p[k]
  BY DEF Path
<1> DEFINE q == SubSeq(p, 1, n)
<1>2. Len(p) \in Nat /\ q \in Path /\ Len(q) = n /\ \A k \in 1..n : q[k] = p[k]
  BY <1>1 DEF Path
<1> HIDE DEF q
<1>3. Under(p, q)
  BY <1>2, UnderIs
<1> QED BY <1>2, <1>3 DEF q

(* The canonical form of a path has no link in it. *)
LEMMA CanonicalIs ==
  ASSUME NEW w, Machine(w), NEW p \in Path
  PROVE  /\ canonicalize_lossy(w, p) \in Path
         /\ canonicalize_lossy(w, canonicalize_lossy(w, p)) = canonicalize_lossy(w, p)
<1> DEFINE linked(q) == {l \in DOMAIN w.links : Under(q, l)}
           l == CHOOSE m \in linked(p) : TRUE
<1>1. \A q : linked(q) = {} => canonicalize_lossy(w, q) = q
  BY DEF canonicalize_lossy
<1>2. CASE linked(p) = {}
  BY <1>1, <1>2
<1>3. CASE linked(p) # {}
  <2> DEFINE rest == SubSeq(p, Len(l) + 1, Len(p))
             c == w.links[l] \o rest
  <2>1. l \in DOMAIN w.links /\ Under(p, l) /\ canonicalize_lossy(w, p) = c
    BY <1>3 DEF canonicalize_lossy
  <2>2. l \in Path /\ w.links[l] \in Path
    BY <2>1 DEF Machine
  <2> HIDE DEF l
  <2>3. rest \in Path
    BY <2>2 DEF Path
  <2> HIDE DEF rest
  <2>4. c \in Path /\ Len(c) >= Len(w.links[l]) /\ \A k \in 1..Len(w.links[l]) : c[k] = w.links[l][k]
    BY <2>2, <2>3 DEF Path
  <2> HIDE DEF c
  <2>5. Under(c, w.links[l])
    BY <2>2, <2>4, UnderIs
  <2>6. ASSUME NEW m \in linked(c) PROVE FALSE
    <3>1. m \in DOMAIN w.links /\ m \in Path /\ Under(c, m)
      BY <2>6 DEF Machine
    <3>2. Under(w.links[l], m) \/ Under(m, w.links[l])
      BY <2>2, <2>4, <2>5, <3>1, UnderOrders
    <3> QED BY <2>1, <3>1, <3>2 DEF Machine
  <2>7. linked(c) = {}
    BY <2>6
  <2> QED BY <1>1, <2>1, <2>4, <2>7
<1> QED BY <1>2, <1>3

LEMMA ExpandIs ==
  ASSUME NEW w, Machine(w), NEW e \in Settings(w)
  PROVE  expand(w, e) \in Path
<1>1. e.path \in Path /\ w.home \in Path /\ w.cwd \in Path
  BY DEF Machine
<1> DEFINE p == IF e.home THEN w.home \o e.path ELSE IF e.abs THEN e.path ELSE w.cwd \o e.path
<1>2. p \in Path
  <2>1. w.home \o e.path \in Path /\ w.cwd \o e.path \in Path
    BY <1>1 DEF Path
  <2> QED BY <1>1, <2>1
<1> HIDE DEF p
<1>3. canonicalize_lossy(w, p) \in Path
  BY <1>2, CanonicalIs
<1>4. expand(w, e) = IF Exists(w, p) THEN canonicalize_lossy(w, p) ELSE p
  BY DEF expand, p
<1> QED BY <1>2, <1>3, <1>4

LEMMA EnvironmentPaths ==
  ASSUME NEW w, Machine(w)
  PROVE  from_environment(w) \subseteq Path
<1>1. \A p \in CREDENTIAL_PATHS : w.home \o p \in Path
  BY SandboxAssumption DEF Machine, Path
<1>2. \A e \in w.denyRead : expand(w, e) \in Path
  BY ExpandIs DEF Settings
<1> QED BY <1>1, <1>2 DEF from_environment, Machine

(* What is above an existing path is a directory. *)
LEMMA AboveExists ==
  ASSUME NEW w, Machine(w), NEW p \in Path, canonicalize_lossy(w, p) = p, Exists(w, p),
         NEW h \in Path, Under(p, h), h # p
  PROVE  h \in w.dirs
<1>1. p \in w.dirs \cup w.plain /\ Len(h) \in 0..Len(p) - 1
  BY UnderOrders DEF Exists
<1> QED BY <1>1 DEF Machine, Under

LEMMA MaskIs ==
  ASSUME NEW w, NEW p \in Path
  PROVE  mask_target(w, p) \in Path /\ Under(p, mask_target(w, p))
<1> DEFINE missing == {n \in 1..Len(p) : ~Exists(w, SubSeq(p, 1, n))}
           n == CHOOSE n \in missing : \A m \in missing : n <= m
<1>1. CASE missing = {}
  <2>1. mask_target(w, p) = p
    BY <1>1 DEF mask_target
  <2> QED BY <2>1, UnderOrders
<1>2. CASE missing # {}
  <2>1. Len(p) \in Nat /\ missing \in SUBSET Nat
    BY DEF Path
  <2>2. \E k \in missing : \A m \in missing : k <= m
    <3> HIDE DEF missing
    <3> QED BY <1>2, <2>1, LeastNatural
  <2>3. n \in missing
    <3> HIDE DEF missing
    <3> QED BY <2>2
  <2>4. mask_target(w, p) = SubSeq(p, 1, n)
    BY <1>2, Zenon DEF mask_target
  <2>5. n \in 0..Len(p)
    BY <2>1, <2>3
  <2> HIDE DEF n
  <2> QED BY <2>4, <2>5, PrefixIs
<1> QED BY <1>1, <1>2

Candidates(w) == {canonicalize_lossy(w, q) : q \in from_environment(w)}

MayRead(w) == {expand(w, e) : e \in w.allowRead}

(* The paths of a policy: what holds credentials is shown, or it lies in a hidden path *)
(* if it exists or could be made.                                                      *)
LEMMA BuildIs ==
  ASSUME NEW w, Machine(w), NEW pol, pol = build(w)
  PROVE  /\ pol.writable \cup pol.hide \cup pol.readOnly \subseteq Path
         /\ \A p \in Candidates(w) : p \in Path /\ canonicalize_lossy(w, p) = p
         /\ \A h \in pol.hide : canonicalize_lossy(w, h) = h
         /\ \A p \in Candidates(w) : UnderAny(p, pol.writable) /\ UnderAny(p, MayRead(w)) => p \in pol.readOnly
         /\ \A p \in Candidates(w) :
              ~UnderAny(p, MayRead(w)) /\ (Exists(w, p) \/ UnderAny(p, pol.writable)) =>
                \E h \in pol.hide : Under(p, h)
<1> DEFINE writable == {p \in {w.cwd} \cup {expand(w, e) : e \in w.allowWrite} : Exists(w, p)}
           allowed == {p \in Candidates(w) : UnderAny(p, MayRead(w))}
           hidden == {p \in Candidates(w) \ allowed : Exists(w, p) \/ UnderAny(p, writable)}
           git == IF canonicalize_lossy(w, w.cwd \o <<"git">>) \in w.dirs
                  THEN {w.cwd \o <<"git", "hooks">>, w.cwd \o <<"git", "config">>} ELSE {}
<1>1. /\ pol.writable = writable
      /\ pol.hide = {p \in hidden : ~CoveredBy(p, hidden)}
      /\ pol.readOnly = {p \in allowed : UnderAny(p, writable)} \cup git
  BY DEF build, Candidates, MayRead
<1>2. \A p \in Candidates(w) : p \in Path /\ canonicalize_lossy(w, p) = p
  BY EnvironmentPaths, CanonicalIs DEF Candidates
<1>3. writable \subseteq Path
  BY ExpandIs DEF Machine, Settings
<1>4. git \subseteq Path
  <2>1. w.cwd \in Path /\ <<"git", "hooks">> \in Path /\ <<"git", "config">> \in Path
    BY SandboxAssumption DEF Machine, Path
  <2>2. w.cwd \o <<"git", "hooks">> \in Path /\ w.cwd \o <<"git", "config">> \in Path
    BY <2>1 DEF Path
  <2> QED BY <2>2
<1> HIDE DEF writable, git
<1>5. \A p \in Candidates(w) : UnderAny(p, pol.writable) /\ UnderAny(p, MayRead(w)) => p \in pol.readOnly
  BY <1>1
<1>6. ASSUME NEW p \in hidden PROVE \E h \in pol.hide : Under(p, h)
  <2> DEFINE above == {q \in hidden : Under(p, q)}
             lengths == {Len(q) : q \in above}
  <2>1. hidden \subseteq Path
    BY <1>2
  <2> HIDE DEF hidden
  <2>2. p \in above /\ \A q \in above : Len(q) \in Nat
    BY <1>6, <2>1, UnderOrders DEF Path
  <2>3. lengths \in SUBSET Nat /\ lengths # {}
    <3> HIDE DEF above
    <3> QED BY <2>2
  <2>4. \E n \in lengths : \A m \in lengths : n <= m
    <3> HIDE DEF lengths
    <3> QED BY <2>3, LeastNatural
  <2>5. PICK h \in above : \A q \in above : Len(h) <= Len(q)
    BY <2>4
  <2>6. ASSUME NEW q \in hidden, q # h, Under(h, q) PROVE FALSE
    <3>1. p \in Path /\ h \in Path /\ q \in Path
      BY <1>6, <2>1
    <3>2. Under(p, q)
      BY <2>5, <2>6, <3>1, UnderOrders
    <3>3. Len(h) <= Len(q)
      BY <2>5, <3>2
    <3> QED BY <2>6, <3>1, <3>3, UnderOrders
  <2>7. h \in pol.hide
    BY <1>1, <2>5, <2>6 DEF CoveredBy
  <2> QED BY <2>5, <2>7
<1>7. \A p \in Candidates(w) : ~UnderAny(p, MayRead(w)) /\ (Exists(w, p) \/ UnderAny(p, pol.writable)) => p \in hidden
  BY <1>1
<1>8. pol.hide \subseteq Candidates(w)
  BY <1>1
<1> QED BY <1>1, <1>2, <1>3, <1>4, <1>5, <1>6, <1>7, <1>8

(* The last set of mounts that covers a path decides. *)
LEMMA BwrapIs ==
  ASSUME NEW w, NEW pol, NEW p \in Path, pol.writable \cup pol.hide \cup pol.readOnly \subseteq Path
  PROVE  \E i \in 1..5 : \E m \in bwrap_args(w, pol)[i] :
           /\ BwrapView(w, pol, p) = m.kind /\ Under(p, m.at)
           /\ \A j \in 1..5 : j > i => ~\E n \in bwrap_args(w, pol)[j] : Under(p, n.at)
<1> DEFINE args == bwrap_args(w, pol)
           covers(i) == {m \in args[i] : Under(p, m.at)}
           IsLast(i) == covers(i) # {} /\ \A j \in 1..5 : j > i => covers(j) = {}
           last == CHOOSE i \in 1..5 : IsLast(i)
           deepest == CHOOSE m \in covers(last) : \A n \in covers(last) : Len(n.at) <= Len(m.at)
<1>1. DOMAIN args = 1..5 /\ args[1] = Mount("ro", {<<>>})
  BY DEF bwrap_args
<1>2. ASSUME NEW i \in 1..5, NEW m \in args[i] PROVE m.at \in Path
  <2>1. \A q \in pol.hide \cup pol.readOnly : mask_target(w, q) \in Path
    BY MaskIs
  <2>2. <<>> \in Path /\ <<"tmp">> \in Path /\ <<"run">> \in Path
    BY SandboxAssumption DEF Path
  <2>3. CASE i \in {1, 2, 3}
    BY <1>2, <2>2, <2>3 DEF bwrap_args, Mount
  <2>4. CASE i = 4
    BY <1>2, <2>1, <2>4 DEF bwrap_args, Mount
  <2>5. CASE i = 5
    BY <1>2, <2>1, <2>5 DEF bwrap_args, Mount
  <2> QED BY <2>3, <2>4, <2>5
<1>3. BwrapView(w, pol, p) = deepest.kind
  BY <1>1 DEF BwrapView
<1> HIDE DEF args
<1>4. covers(1) # {}
  <2>1. [kind |-> "ro", at |-> <<>>] \in args[1]
    BY <1>1 DEF Mount
  <2> QED BY <2>1, UnderOrders
<1>5. \E i \in 1..5 : IsLast(i)
  <2> HIDE DEF covers
  <2> QED BY <1>4
<1>6. last \in 1..5 /\ IsLast(last)
  <2> HIDE DEF IsLast
  <2> QED BY <1>5
<1> HIDE DEF last
<1>7. \E m \in covers(last) : \A n \in covers(last) : Len(n.at) <= Len(m.at)
  <2> DEFINE lengths == {Len(m.at) : m \in covers(last)}
  <2>1. Len(p) \in Nat /\ covers(last) # {}
    BY <1>6 DEF Path
  <2>2. \A m \in covers(last) : Len(m.at) \in 0..Len(p)
    BY <1>2, <1>6 DEF Path, Under
  <2> HIDE DEF covers
  <2>3. lengths \in SUBSET (0..Len(p)) /\ lengths # {}
    BY <2>1, <2>2
  <2>4. \E n \in lengths : \A m \in lengths : m <= n
    <3> HIDE DEF lengths
    <3> QED BY <2>1, <2>3, GreatestNatural
  <2> QED BY <2>4
<1>8. deepest \in covers(last)
  <2> HIDE DEF covers
  <2> QED BY <1>7
<1> HIDE DEF deepest
<1> QED BY <1>3, <1>6, <1>8 DEF args

(* The same machine, later: other programs have made files. *)
Later(w, v) ==
  /\ DOMAIN v = DOMAIN w
  /\ v.links = w.links /\ v.dirs = w.dirs /\ v.linux = w.linux /\ w.plain \subseteq v.plain

LEMMA LaterExists ==
  ASSUME NEW w, NEW v, Later(w, v), NEW p
  PROVE  canonicalize_lossy(v, p) = canonicalize_lossy(w, p) /\ (Exists(w, p) => Exists(v, p))
<1>1. canonicalize_lossy(v, p) = canonicalize_lossy(w, p)
  BY DEF canonicalize_lossy, Later
<1> QED BY <1>1 DEF Exists, Later

LEMMA LinuxHolds ==
  ASSUME NEW w, Machine(w), w.linux, Separate(w), NEW v, Later(w, v), NEW p \in Candidates(w)
  PROVE  /\ BwrapView(v, build(w), p) # "rw"
         /\ Exists(w, p) /\ ~UnderAny(p, MayRead(w)) => BwrapView(v, build(w), p) \in {"null", "tmpfs"}
<1> DEFINE pol == build(w)
           args == bwrap_args(v, pol)
           hides == {h \in pol.hide : ~hidden_by_tmpfs(pol, h)}
<1>1. /\ pol.writable \cup pol.hide \cup pol.readOnly \subseteq Path
      /\ p \in Path
      /\ \A h \in pol.hide : canonicalize_lossy(w, h) = h
      /\ UnderAny(p, pol.writable) /\ UnderAny(p, MayRead(w)) => p \in pol.readOnly
      /\ ~UnderAny(p, MayRead(w)) /\ (Exists(w, p) \/ UnderAny(p, pol.writable)) => \E h \in pol.hide : Under(p, h)
  BY BuildIs
<1>2. \A h \in pol.hide : hidden_by_tmpfs(pol, h) => \A b \in pol.writable \cup pol.readOnly : ~Under(b, h)
  BY DEF Separate
<1>3. /\ args[1] = Mount("ro", {<<>>}) /\ args[2] = Mount("tmpfs", {<<"tmp">>, <<"run">>})
      /\ args[3] = Mount("rw", pol.writable)
      /\ args[4] = Mount("ro", {b \in pol.readOnly : Exists(v, b)})
                     \cup Mount("null", {mask_target(v, b) : b \in {q \in pol.readOnly : ~Exists(v, q)}})
      /\ args[5] = Mount("null", {mask_target(v, b) : b \in {q \in hides : ~Exists(v, q)}})
                     \cup Mount("tmpfs", {b \in hides : b \in v.dirs})
                     \cup Mount("null", {b \in hides : b \in v.plain})
  BY DEF bwrap_args
<1> HIDE DEF pol
<1>4. PICK i \in 1..5 : \E m \in args[i] :
        /\ BwrapView(v, pol, p) = m.kind /\ Under(p, m.at)
        /\ \A j \in 1..5 : j > i => ~\E n \in args[j] : Under(p, n.at)
  BY <1>1, BwrapIs
<1> HIDE DEF args, hides
<1>5. PICK m \in args[i] :
        /\ BwrapView(v, pol, p) = m.kind /\ Under(p, m.at)
        /\ \A j \in 1..5 : j > i => ~\E n \in args[j] : Under(p, n.at)
  BY <1>4
<1>6. /\ i = 1 => m.kind = "ro"
      /\ i = 2 => m.kind = "tmpfs"
      /\ i = 3 => m.kind = "rw" /\ m.at \in pol.writable
      /\ i = 4 => m.kind = "null" \/ (m.kind = "ro" /\ m.at \in pol.readOnly)
      /\ i = 5 => m.kind \in {"null", "tmpfs"}
  <2>1. CASE i = 1
    BY <1>3, <1>5, <2>1 DEF Mount
  <2>2. CASE i = 2
    BY <1>3, <1>5, <2>2 DEF Mount
  <2>3. CASE i = 3
    BY <1>3, <1>5, <2>3 DEF Mount
  <2>4. CASE i = 4
    BY <1>3, <1>5, <2>4 DEF Mount
  <2>5. CASE i = 5
    BY <1>3, <1>5, <2>5 DEF Mount
  <2> QED BY <2>1, <2>2, <2>3, <2>4, <2>5
<1>7. ASSUME NEW h \in pol.hide, Under(p, h)
      PROVE  m.kind \in {"null", "tmpfs"}
  <2>1. CASE ~hidden_by_tmpfs(pol, h)
    <3>1. h \in hides /\ h \in Path /\ mask_target(v, h) \in Path /\ Under(h, mask_target(v, h))
      BY <1>1, <1>7, <2>1, MaskIs DEF hides
    <3>2. Under(p, mask_target(v, h))
      BY <1>1, <1>7, <3>1, UnderOrders
    <3>3. \E n \in args[5] : Under(p, n.at)
      <4>1. CASE ~Exists(v, h)
        <5>1. [kind |-> "null", at |-> mask_target(v, h)] \in args[5]
          BY <1>3, <3>1, <4>1 DEF Mount
        <5> QED BY <3>2, <5>1
      <4>2. CASE Exists(v, h)
        <5>1. h \in v.dirs \cup v.plain
          BY <1>1, <1>7, <4>2, LaterExists DEF Exists
        <5>2. [kind |-> "tmpfs", at |-> h] \in args[5] \/ [kind |-> "null", at |-> h] \in args[5]
          BY <1>3, <3>1, <5>1 DEF Mount
        <5> QED BY <1>7, <5>2
      <4> QED BY <4>1, <4>2
    <3>4. i = 5
      BY <1>5, <3>3
    <3> QED BY <1>6, <3>4
  <2>2. CASE hidden_by_tmpfs(pol, h)
    <3> DEFINE tmp == {<<"tmp">>, <<"run">>}
    <3>1. PICK t \in tmp : Under(h, t)
      BY <2>2 DEF hidden_by_tmpfs, UnderAny
    <3>2. t \in Path /\ h \in Path
      <4>1. <<"tmp">> \in Path /\ <<"run">> \in Path
        BY SandboxAssumption DEF Path
      <4> QED BY <1>1, <3>1, <4>1
    <3>3. Under(p, t)
      BY <1>1, <1>7, <3>1, <3>2, UnderOrders
    <3>4. [kind |-> "tmpfs", at |-> t] \in args[2]
      BY <1>3, <3>1 DEF Mount
    <3>5. i # 1
      BY <1>5, <3>3, <3>4
    <3>6. ASSUME NEW b \in pol.writable \cup pol.readOnly PROVE ~Under(p, b)
      <4>1. ~Under(b, h) /\ ~Under(h, b) /\ b \in Path
        BY <1>1, <1>2, <2>2, <3>6 DEF hidden_by_tmpfs, UnderAny
      <4> QED BY <1>1, <1>7, <3>2, <4>1, UnderOrders
    <3> QED BY <1>5, <1>6, <3>5, <3>6
  <2> QED BY <2>1, <2>2
<1>8. m.kind # "rw"
  <2> SUFFICES ASSUME m.kind = "rw" PROVE FALSE
    OBVIOUS
  <2>1. i = 3 /\ UnderAny(p, pol.writable)
    BY <1>5, <1>6 DEF UnderAny
  <2>2. CASE UnderAny(p, MayRead(w))
    <3>1. p \in pol.readOnly /\ mask_target(v, p) \in Path /\ Under(p, mask_target(v, p)) /\ Under(p, p)
      BY <1>1, <2>1, <2>2, MaskIs, UnderOrders
    <3>2. [kind |-> "ro", at |-> p] \in args[4] \/ [kind |-> "null", at |-> mask_target(v, p)] \in args[4]
      BY <1>3, <3>1 DEF Mount
    <3>3. \E n \in args[4] : Under(p, n.at)
      BY <3>1, <3>2
    <3> QED BY <1>5, <2>1, <3>3
  <2>3. CASE ~UnderAny(p, MayRead(w))
    BY <1>1, <1>7, <2>1, <2>3
  <2> QED BY <2>2, <2>3
<1>9. Exists(w, p) /\ ~UnderAny(p, MayRead(w)) => m.kind \in {"null", "tmpfs"}
  BY <1>1, <1>7
<1> QED BY <1>5, <1>8, <1>9 DEF pol

LEMMA MacHolds ==
  ASSUME NEW w, Machine(w), ~w.linux, Separate(w), NEW v, Later(w, v), NEW p \in Candidates(w)
  PROVE  /\ SeatbeltView(v, build(w), p) = "rw" =>
              \E n \in 0..Len(p) - 1 :
                SubSeq(p, 1, n) \notin w.dirs /\ SeatbeltView(v, build(w), SubSeq(p, 1, n)) # "rw"
         /\ Exists(w, p) /\ ~UnderAny(p, MayRead(w)) => SeatbeltView(v, build(w), p) = "null"
<1> DEFINE pol == build(w)
           Hides(h, q) == IF h \in v.dirs THEN Under(q, h) ELSE q = h
<1>1. /\ pol.writable \cup pol.hide \cup pol.readOnly \subseteq Path
      /\ p \in Path /\ canonicalize_lossy(w, p) = p
      /\ UnderAny(p, pol.writable) /\ UnderAny(p, MayRead(w)) => p \in pol.readOnly
      /\ ~UnderAny(p, MayRead(w)) /\ (Exists(w, p) \/ UnderAny(p, pol.writable)) => \E h \in pol.hide : Under(p, h)
  BY BuildIs
<1>2. UnderAny(p, MacTemp) => UnderAny(p, pol.writable \cup pol.hide)
  BY DEF Separate, Candidates
<1>3. /\ \A q : (\E h \in pol.hide : Hides(h, q)) => SeatbeltView(v, pol, q) = "null"
      /\ UnderAny(p, pol.readOnly) => SeatbeltView(v, pol, p) # "rw"
      /\ SeatbeltView(v, pol, p) = "rw" => UnderAny(p, pol.writable \cup MacTemp)
  BY DEF SeatbeltView
<1> HIDE DEF pol
<1>4. ASSUME NEW h \in pol.hide, Under(p, h)
      PROVE  /\ SeatbeltView(v, pol, p) = "null"
                \/ \E n \in 0..Len(p) - 1 :
                     SubSeq(p, 1, n) \notin w.dirs /\ SeatbeltView(v, pol, SubSeq(p, 1, n)) # "rw"
             /\ Exists(w, p) => SeatbeltView(v, pol, p) = "null"
  <2>1. h \in Path /\ v.dirs = w.dirs
    BY <1>1 DEF Later
  <2>2. CASE h \in v.dirs \/ p = h
    BY <1>3, <1>4, <2>2
  <2>3. CASE h \notin v.dirs /\ p # h
    <3>1. Len(h) \in 0..Len(p) - 1 /\ SubSeq(p, 1, Len(h)) = h
      BY <1>1, <1>4, <2>1, <2>3, UnderOrders DEF Under
    <3>2. SeatbeltView(v, pol, h) = "null"
      BY <1>3, <2>3
    <3>3. ~Exists(w, p)
      BY <1>1, <1>4, <2>1, <2>3, AboveExists
    <3> QED BY <2>1, <2>3, <3>1, <3>2, <3>3
  <2> QED BY <2>2, <2>3
<1>5. ASSUME SeatbeltView(v, pol, p) = "rw"
      PROVE  \E h \in pol.hide : Under(p, h)
  <2>1. ~UnderAny(p, pol.readOnly) /\ UnderAny(p, pol.writable \cup MacTemp)
    BY <1>3, <1>5
  <2>2. CASE UnderAny(p, pol.writable)
    <3>1. ~UnderAny(p, MayRead(w))
      BY <1>1, <2>1, <2>2, UnderOrders DEF UnderAny
    <3> QED BY <1>1, <2>2, <3>1
  <2>3. CASE ~UnderAny(p, pol.writable)
    BY <1>2, <2>1, <2>3 DEF UnderAny
  <2> QED BY <2>2, <2>3
<1>6. SeatbeltView(v, pol, p) = "rw" =>
        \E n \in 0..Len(p) - 1 :
          SubSeq(p, 1, n) \notin w.dirs /\ SeatbeltView(v, pol, SubSeq(p, 1, n)) # "rw"
  BY <1>4, <1>5
<1>7. Exists(w, p) /\ ~UnderAny(p, MayRead(w)) => SeatbeltView(v, pol, p) = "null"
  BY <1>1, <1>4
<1> QED BY <1>6, <1>7 DEF pol

LEMMA SandboxIsRight ==
  ASSUME NEW w, Machine(w), Separate(w), NEW v, Later(w, v), NEW p \in Candidates(w)
  PROVE  /\ View(v, build(w), p) = "rw" =>
              \E n \in 0..Len(p) - 1 : SubSeq(p, 1, n) \notin w.dirs /\ View(v, build(w), SubSeq(p, 1, n)) # "rw"
         /\ Exists(w, p) /\ ~UnderAny(p, MayRead(w)) => View(v, build(w), p) \in {"null", "tmpfs"}
<1>1. CASE w.linux
  <2>1. View(v, build(w), p) = BwrapView(v, build(w), p)
    BY <1>1 DEF View, Later
  <2> QED BY <1>1, <2>1, LinuxHolds
<1>2. CASE ~w.linux
  <2>1. \A q : View(v, build(w), q) = SeatbeltView(v, build(w), q)
    BY <1>2 DEF View, Later
  <2> QED BY <1>2, <2>1, MacHolds
<1> QED BY <1>1, <1>2

(* No variable of the child holds a private value: what may hold one is removed, and *)
(* what is added holds none.                                                          *)
LEMMA EnvironmentBlind ==
  ASSUME NEW n \in DOMAIN ProxyInputs, NEW i, i = ProxyInputs[n], NEW env,
         env = ProxyEnv(i, ProxyPlan(i, i.value)), NEW v \in DOMAIN env, NEW w \in i.private
  PROVE  ~Occurs(env[v], w)
<1> DEFINE child == ProxyPlan(i, i.value).childEnv
           kept == DOMAIN i.env \ RemovedVars(i)
<1>1. PrivateKnown(i)
  BY ProxyAssumption
<1>2. /\ v \in i.settings \cup DOMAIN child \cup kept
      /\ env[v] = IF v \in i.settings THEN ProxyUrl ELSE IF v \in DOMAIN child THEN child[v] ELSE i.env[v]
  BY DEF ProxyEnv
<1>3. ASSUME v \in DOMAIN child PROVE ~Occurs(child[v], w)
  <2>1. child = [x \in {EnvName(r) : r \in Range(i.rules)} |->
                   PlaceholderOf(i.rules, (CHOOSE r \in Range(i.rules) : EnvName(r) = x).secret)]
    BY DEF ProxyPlan
  <2>2. PICK r \in Range(i.rules) : child[v] = PlaceholderOf(i.rules, r.secret)
    BY <1>3, <2>1
  <2>3. PICK q \in Range(i.rules) :
          /\ q.secret = r.secret
          /\ PlaceholderOf(i.rules, r.secret) = IF q.placeholder = <<>> THEN Generated[r.secret] ELSE q.placeholder
    BY PlaceholderFrom
  <2> HIDE DEF child
  <2> QED BY <1>1, <2>2, <2>3 DEF PrivateKnown
<1>4. ASSUME v \in kept PROVE ~Occurs(i.env[v], w)
  BY <1>1, <1>4 DEF PrivateKnown, RemovedVars
<1> HIDE DEF child, kept
<1>5. ~Occurs(ProxyUrl, w)
  BY <1>1 DEF PrivateKnown
<1> QED BY <1>2, <1>3, <1>4, <1>5

Prepared == {"resolve", "plan", "listen", "spawn", "run", "cleanup"}

(* The policy is that of the start, also when other programs have made files since. *)
Policed == proxy.policy = build(in.world) /\ Later(in.world, proxy.world)

ChildInv ==
  On => /\ proxy.pc \in {"validate", "resolve", "plan", "listen", "spawn"} => proxy.child = "none"
        /\ proxy.pc = "run" => proxy.child # "none"
        /\ in.sandbox /\ (proxy.pc \in Prepared \/ proxy.child # "none") => Policed
        /\ proxy.pc \in {"listen", "spawn"} => proxy.plan = ProxyPlan(in, in.value)
        /\ proxy.child # "none" => proxy.env = ProxyEnv(in, ProxyPlan(in, in.value))

LEMMA ChildStarts == ProxyInit \/ ProxyIdle => ChildInv
BY DEF ProxyInit, ProxyIdle, ChildInv, On, Prepared

LEMMA ChildStepKeeps ==
  ASSUME ProxyInv, ChildInv, ProxyNext
  PROVE  ChildInv'
<1>1. On /\ DOMAIN proxy = ProxyFields /\ proxy.in \in DOMAIN ProxyInputs
  BY DEF ProxyNext, Prepare, ResolveRules, MakePlan, Listen, Spawn, ChildEnds, KillProxy, Cleanup,
         OtherCreates, OtherWrites, Serve, ProxyInv, ProxyShape, On
<1>2. ASSUME NEW pc, proxy' = [proxy EXCEPT !.pc = pc],
             pc \in {"validate", "resolve", "plan", "listen", "spawn"} => proxy.child = "none", pc # "run",
             pc \in Prepared => proxy.pc \in Prepared,
             pc \in {"listen", "spawn"} => proxy.pc \in {"listen", "spawn"}
      PROVE  ChildInv'
  <2>1. /\ proxy'.pc = pc /\ proxy'.in = proxy.in /\ proxy'.world = proxy.world /\ proxy'.policy = proxy.policy
        /\ proxy'.child = proxy.child /\ proxy'.env = proxy.env /\ proxy'.plan = proxy.plan
    BY <1>1, <1>2 DEF ProxyFields
  <2>2. in' = in /\ (Policed => Policed')
    BY <2>1 DEF in, Policed
  <2> QED BY <1>1, <1>2, <2>1, <2>2 DEF ChildInv, Prepared
<1>3. ASSUME Fail, proxy.pc \in {"validate", "resolve", "plan", "listen"} PROVE ChildInv'
  BY <1>1, <1>2, <1>3 DEF Fail, ChildInv, Prepared
<1>4. CASE Prepare
  <2>1. CASE Fail
    BY <1>3, <1>4, <2>1 DEF Prepare
  <2>2. CASE ~Fail
    <3>1. /\ proxy.pc = "validate"
          /\ proxy' = [proxy EXCEPT !.pc = "resolve", !.world = in.world,
                                    !.policy = IF in.sandbox THEN build(in.world) ELSE None]
      BY <1>4, <2>2 DEF Prepare
    <3>2. /\ proxy'.pc = "resolve" /\ proxy'.in = proxy.in /\ proxy'.child = proxy.child
          /\ proxy'.world = in.world /\ (in.sandbox => proxy'.policy = build(in.world))
      BY <1>1, <3>1 DEF ProxyFields
    <3>3. in' = in /\ (in.sandbox => Policed')
      BY <3>2 DEF in, Policed, Later
    <3> QED BY <1>1, <3>1, <3>2, <3>3 DEF ChildInv, Prepared
  <2> QED BY <2>1, <2>2
<1>5. CASE ResolveRules
  <2>1. CASE Fail
    BY <1>3, <1>5, <2>1 DEF ResolveRules
  <2>2. CASE ~Fail
    <3>1. proxy.pc = "resolve" /\ \E requested : proxy' = [proxy EXCEPT !.pc = "plan", !.requested = requested]
      BY <1>5, <2>2 DEF ResolveRules
    <3>2. /\ proxy'.pc = "plan" /\ proxy'.in = proxy.in /\ proxy'.world = proxy.world
          /\ proxy'.policy = proxy.policy /\ proxy'.child = proxy.child
      BY <1>1, <3>1 DEF ProxyFields
    <3>3. in' = in /\ (Policed => Policed')
      BY <3>2 DEF in, Policed
    <3> QED BY <1>1, <3>1, <3>2, <3>3 DEF ChildInv, Prepared
  <2> QED BY <2>1, <2>2
<1>6. CASE MakePlan
  <2>1. CASE Fail
    BY <1>3, <1>6, <2>1 DEF MakePlan
  <2>2. CASE ~Fail
    <3>1. proxy.pc = "plan" /\ proxy' = [proxy EXCEPT !.pc = "listen", !.plan = ProxyPlan(in, in.value)]
      BY <1>6, <2>2 DEF MakePlan
    <3>2. /\ proxy'.pc = "listen" /\ proxy'.in = proxy.in /\ proxy'.world = proxy.world
          /\ proxy'.policy = proxy.policy /\ proxy'.child = proxy.child /\ proxy'.plan = ProxyPlan(in, in.value)
      BY <1>1, <3>1 DEF ProxyFields
    <3>3. in' = in /\ (Policed => Policed')
      BY <3>2 DEF in, Policed
    <3> QED BY <1>1, <3>1, <3>2, <3>3 DEF ChildInv, Prepared
  <2> QED BY <2>1, <2>2
<1>7. CASE Listen
  <2>1. CASE Fail
    BY <1>3, <1>7, <2>1 DEF Listen
  <2>2. CASE proxy.pc = "listen" /\ proxy' = [proxy EXCEPT !.pc = "spawn"]
    BY <1>1, <1>2, <2>2 DEF ChildInv, Prepared
  <2> QED BY <1>7, <2>1, <2>2 DEF Listen
<1>8. CASE Spawn
  <2>1. CASE proxy.pc = "spawn" /\ proxy' = [proxy EXCEPT !.pc = "cleanup"]
    BY <1>1, <1>2, <2>1 DEF ChildInv, Prepared
  <2>2. CASE /\ proxy.pc = "spawn"
             /\ proxy' = [proxy EXCEPT !.pc = "run", !.child = "running", !.env = ProxyEnv(in, proxy.plan)]
    <3>1. /\ proxy'.pc = "run" /\ proxy'.in = proxy.in /\ proxy'.world = proxy.world
          /\ proxy'.policy = proxy.policy /\ proxy'.env = ProxyEnv(in, proxy.plan)
      BY <1>1, <2>2 DEF ProxyFields
    <3>2. in' = in /\ (Policed => Policed')
      BY <3>1 DEF in, Policed
    <3> QED BY <1>1, <2>2, <3>1, <3>2 DEF ChildInv, Prepared
  <2> QED BY <1>8, <2>1, <2>2 DEF Spawn
<1>9. CASE OtherCreates
  <2>1. PICK p : proxy' = [proxy EXCEPT !.world.plain = @ \cup {p}]
    BY <1>9 DEF OtherCreates
  <2>2. /\ proxy.pc \in Prepared /\ proxy'.pc = proxy.pc /\ proxy'.in = proxy.in /\ proxy'.policy = proxy.policy
        /\ proxy'.child = proxy.child /\ proxy'.plan = proxy.plan /\ proxy'.env = proxy.env
        /\ proxy'.world = [proxy.world EXCEPT !.plain = @ \cup {p}]
    BY <1>1, <1>9, <2>1 DEF ProxyFields, OtherCreates, Prepared
  <2>3. ASSUME Later(in.world, proxy.world) PROVE Later(in.world, proxy'.world)
    <3>1. {"dirs", "plain", "links", "linux"} \subseteq DOMAIN proxy.world
      BY <1>1, <2>3, ProxyAssumption DEF Later, Machine, in
    <3> QED BY <2>2, <2>3, <3>1 DEF Later
  <2>4. in' = in /\ (Policed => Policed')
    BY <2>2, <2>3 DEF in, Policed
  <2> QED BY <1>1, <2>2, <2>4 DEF ChildInv, Prepared
<1>10. ASSUME NEW pc \in {"cleanup", "killed"}, NEW child, proxy' = [proxy EXCEPT !.pc = pc, !.child = child],
              proxy.pc \in Prepared, child # "none" => proxy.child # "none" \/ proxy.pc = "run"
       PROVE  ChildInv'
  <2>1. /\ proxy'.pc = pc /\ proxy'.in = proxy.in /\ proxy'.world = proxy.world /\ proxy'.policy = proxy.policy
        /\ proxy'.child = child /\ proxy'.env = proxy.env
    BY <1>1, <1>10 DEF ProxyFields
  <2>2. in' = in /\ (Policed => Policed')
    BY <2>1 DEF in, Policed
  <2> QED BY <1>1, <1>10, <2>1, <2>2 DEF ChildInv, Prepared
<1>11. CASE ChildEnds
  <2>1. proxy.pc = "run" /\ proxy' = [proxy EXCEPT !.pc = "cleanup", !.child = "stopped"]
    BY <1>11 DEF ChildEnds
  <2> QED BY <1>10, <2>1 DEF Prepared
<1>12. CASE KillProxy
  <2>1. PICK child : /\ proxy' = [proxy EXCEPT !.pc = "killed", !.child = child]
                     /\ child # "none" => proxy.child # "none"
    BY <1>12 DEF KillProxy
  <2>2. proxy.pc \in Prepared
    BY <1>12 DEF KillProxy, Prepared
  <2> QED BY <1>10, <2>1, <2>2
<1>13. CASE Cleanup
  BY <1>1, <1>2, <1>13 DEF Cleanup, ChildInv, Prepared
<1>14. CASE OtherWrites \/ \E c \in Conns : Serve(c)
  BY <1>14 DEF OtherWrites, Serve, ChildInv, Policed, in, On
<1> QED BY <1>4, <1>5, <1>6, <1>7, <1>8, <1>9, <1>11, <1>12, <1>13, <1>14 DEF ProxyNext

LEMMA ChildKept == Spec => []ChildInv
<1>1. Init => ChildInv
  BY ChildStarts DEF Init
<1>2. ProxyInv /\ ChildInv /\ [Next]_vars => ChildInv'
  <2>1. UNCHANGED proxyVars /\ ChildInv => ChildInv'
    BY DEF proxyVars, ChildInv, Policed, On, in
  <2>2. [Next]_vars => ProxyNext \/ UNCHANGED proxyVars
    BY DEF Next, vars
  <2> QED BY <2>1, <2>2, ChildStepKeeps
<1> QED BY <1>1, <1>2, ProxyKept, PTL DEF Spec

LEMMA ChildInvSound == ProxyInv /\ ChildInv => BlindChild
<1> SUFFICES ASSUME ProxyInv, ChildInv PROVE BlindChild
  OBVIOUS
<1>1. On => proxy.in \in DOMAIN ProxyInputs
  BY DEF ProxyInv, ProxyShape
<1>2. ChildBlind
  BY <1>1, EnvironmentBlind DEF ChildInv, ChildBlind, in
<1>3. ASSUME On, proxy.child = "running", in.sandbox, Separate(in.world), NEW p \in Candidates(in.world)
      PROVE  /\ View(proxy.world, proxy.policy, p) = "rw" =>
                  \E n \in 0..Len(p) - 1 : /\ SubSeq(p, 1, n) \notin in.world.dirs
                                           /\ View(proxy.world, proxy.policy, SubSeq(p, 1, n)) # "rw"
             /\ Exists(in.world, p) /\ ~UnderAny(p, MayRead(in.world)) =>
                  View(proxy.world, proxy.policy, p) \in {"null", "tmpfs"}
  <2>1. Machine(in.world) /\ proxy.policy = build(in.world) /\ Later(in.world, proxy.world)
    BY <1>1, <1>3, ProxyAssumption DEF ChildInv, Policed, in
  <2> QED BY <1>3, <2>1, SandboxIsRight
<1>4. SandboxHolds
  BY <1>3 DEF SandboxHolds, Candidates, MayRead
<1> QED BY <1>2, <1>4 DEF BlindChild

(* The child of the proxy finds no credential in its environment, and in the sandbox it can *)
(* neither read nor make or change a file that holds one, for every machine, every policy   *)
(* and whatever files appear between the policy and the mounts.                             *)
THEOREM ProxyChildBlind == Spec => []BlindChild
BY ProxyKept, ChildKept, ChildInvSound, PTL

--------------------------------------------------------------------------------

(* What was written to disk for a program is there while it needs it, and gone when the *)
(* proxy, the command or the shell's session has ended: whatever failed on the way, and *)
(* whatever others wrote into the proxy's mount points meanwhile.                       *)
THEOREM AllCleanedUp == Spec => []CleanedUp
<1>1. ProxyInv /\ ExecInv /\ HookInv => CleanedUp
  BY ProxyInvSound, FilesKept, HookInvSound DEF CleanedUp
<1> QED BY <1>1, ProxyKept, ExecKept, HookKept, PTL

--------------------------------------------------------------------------------
(* The dashboard. *)

Known == DOMAIN ProfileSecrets
Shown(p) == [of : {p}, typed : BOOLEAN, text : Nat] \cup {NoValue}
PopupShape == [kind : {"none", "help", "picker", "detail", "confirm", "edit", "set"}, key : Nat, value : Nat,
               field : {"key", "value"}, cursor : Nat]
AppShape(values) ==
  [running : BOOLEAN, focus : {"secrets", "providers"}, popup : PopupShape, profile : Known,
   providers : Nat, providerIndex : Nat, secrets : Seq(Nat), secretIndex : Nat, values : {values},
   loading : BOOLEAN, id : Nat, error : BOOLEAN, filter : Nat, searching : BOOLEAN, picker : Nat]

(* IndexesValid of an App that an event makes. *)
IndexOK(a) ==
  /\ a.secretIndex = 0 \/ a.secretIndex < Rows(a)
  /\ a.providerIndex = 0 \/ a.providerIndex < a.providers
  /\ a.picker < Len(Profiles)

PopupOK(a) ==
  /\ a.popup.kind \in {"detail", "confirm", "edit"} => a.popup.key \in ToSet(a.secrets)
  /\ a.popup.cursor <= IF a.popup.kind = "set" /\ a.popup.field = "key" THEN a.popup.key ELSE a.popup.value

AppOK(a) ==
  /\ a \in AppShape(a.values) /\ IndexOK(a) /\ PopupOK(a)
  /\ a.values \in [DOMAIN a.values -> Shown(a.profile)]

(* What an event may do to the values: add some, or start anew. *)
Evolves(a, b) ==
  \/ b.id = a.id /\ b.profile = a.profile /\ b.loading = a.loading /\ DOMAIN a.values \subseteq DOMAIN b.values
  \/ b.id = a.id + 1 /\ b.loading /\ b.values = <<>>

(* At most one resolution is current: the one that is waited for.  Until it ends nothing that *)
(* was typed has to be kept.                                                                  *)
TasksInv ==
  /\ tasks \subseteq [id : Nat, profile : Known, keys : SUBSET Nat]
  /\ \A t \in tasks : t.id <= app.id /\ (IsCurrent(app, t) => app.loading /\ t.profile = app.profile)
  /\ \A t, u \in tasks : IsCurrent(app, t) /\ IsCurrent(app, u) => t = u
  /\ app.loading => typed = <<>>

ViewInv == AppOK(app) /\ TasksInv /\ LoadingPending /\ TypedKept

Good(a, b) == AppOK(b) /\ Evolves(a, b)

LEMMA RowsTypes ==
  ASSUME NEW a, a.secrets \in Seq(Nat)
  PROVE  IsFiniteSet(FilteredSecrets(a)) /\ Rows(a) \in Nat
<1>1. IsFiniteSet(1..Len(a.secrets))
  BY FS_Interval
<1>2. FilteredSecrets(a) \subseteq 1..Len(a.secrets)
  BY DEF FilteredSecrets
<1>3. IsFiniteSet(FilteredSecrets(a))
  BY <1>1, <1>2, FS_Subset
<1> QED BY <1>3, FS_CardinalityType DEF Rows

(* A secret that is added at the end moves no row. *)
LEMMA RowsGrow ==
  ASSUME NEW a, NEW b, NEW key \in Nat, a.secrets \in Seq(Nat), b.secrets = Append(a.secrets, key),
         a.filter \in Nat, b.filter = a.filter
  PROVE  Rows(a) <= Rows(b)
<1>0. b.secrets \in Seq(Nat) /\ \A i \in DOMAIN a.secrets : i \in DOMAIN b.secrets /\ b.secrets[i] = a.secrets[i]
  OBVIOUS
<1>1. FilteredSecrets(a) \subseteq FilteredSecrets(b)
  BY <1>0 DEF FilteredSecrets
<1> QED BY <1>0, <1>1, RowsTypes, FS_Subset DEF Rows

LEMMA SelectedIn ==
  ASSUME NEW a, a.secrets \in Seq(Nat), SelectedSecret(a) # 0
  PROVE  SelectedSecret(a) \in Nat /\ SelectedSecret(a) \in ToSet(a.secrets)
<1> DEFINE rows == FilteredSecrets(a)
           at == {i \in rows : Cardinality({j \in rows : j < i}) = a.secretIndex}
<1>1. at # {} /\ SelectedSecret(a) = a.secrets[CHOOSE i \in at : TRUE]
  BY DEF SelectedSecret
<1>2. PICK i \in at : SelectedSecret(a) = a.secrets[i]
  BY <1>1
<1>3. i \in DOMAIN a.secrets
  BY DEF FilteredSecrets
<1> QED BY <1>2, <1>3 DEF ToSet

(* An event that changes neither the values nor the list of secrets. *)
LEMMA Quiet ==
  ASSUME NEW a, AppOK(a), NEW b, b \in AppShape(a.values), b.secrets = a.secrets, b.providers = a.providers,
         b.profile = a.profile, b.id = a.id, b.loading = a.loading,
         b.secretIndex = 0 \/ (b.secretIndex < Rows(a) /\ b.filter = a.filter),
         b.providerIndex = 0 \/ b.providerIndex < a.providers, b.picker < Len(Profiles), PopupOK(b)
  PROVE  Good(a, b)
<1>1. b.values = a.values
  BY DEF AppShape
<1>2. b.filter = a.filter => Rows(b) = Rows(a)
  BY DEF Rows, FilteredSecrets
<1>3. IndexOK(b)
  BY <1>2 DEF IndexOK
<1>4. AppOK(b)
  BY <1>1, <1>3 DEF AppOK
<1>5. Evolves(a, b)
  BY <1>1 DEF Evolves
<1> QED BY <1>4, <1>5 DEF Good

(* The fields of an App. *)
LEMMA AppFields ==
  ASSUME NEW a, AppOK(a)
  PROVE  /\ a \in AppShape(a.values) /\ a.popup \in PopupShape /\ a.profile \in Known /\ a.secrets \in Seq(Nat)
         /\ a.providers \in Nat /\ a.providerIndex \in Nat /\ a.secretIndex \in Nat /\ a.filter \in Nat
         /\ a.id \in Nat /\ a.picker \in Nat /\ a.picker < Len(Profiles) /\ PopupOK(a) /\ IndexOK(a)
         /\ a.focus \in {"secrets", "providers"} /\ a.error \in BOOLEAN /\ a.searching \in BOOLEAN
BY DEF AppOK, AppShape, IndexOK

LEMMA NoPopupShape == NoPopup \in PopupShape
BY DEF NoPopup, PopupShape

LEMMA SameGood ==
  ASSUME NEW a, AppOK(a)
  PROVE  Good(a, a)
BY DEF Good, Evolves

LEMMA ErrorGood ==
  ASSUME NEW a, AppOK(a), NEW e \in BOOLEAN
  PROVE  Good(a, [a EXCEPT !.error = e])
<1> DEFINE b == [a EXCEPT !.error = e]
<1>1. b \in AppShape(a.values)
  BY AppFields DEF AppShape
<1>2. /\ b.secrets = a.secrets /\ b.providers = a.providers /\ b.profile = a.profile /\ b.id = a.id
      /\ b.loading = a.loading /\ b.secretIndex = a.secretIndex /\ b.filter = a.filter
      /\ b.providerIndex = a.providerIndex /\ b.picker = a.picker /\ b.popup = a.popup
  BY AppFields DEF AppShape
<1> HIDE DEF b
<1>3. PopupOK(b)
  BY <1>2, AppFields DEF PopupOK
<1>4. Good(a, b)
  BY <1>1, <1>2, <1>3, AppFields, Quiet DEF IndexOK
<1> QED BY <1>4 DEF b

(* A popup that is opened, changed or closed. *)
LEMMA PopupGood ==
  ASSUME NEW a, AppOK(a), NEW p \in PopupShape,
         p.kind \in {"detail", "confirm", "edit"} => p.key \in ToSet(a.secrets),
         p.cursor <= IF p.kind = "set" /\ p.field = "key" THEN p.key ELSE p.value
  PROVE  Good(a, [a EXCEPT !.popup = p])
<1> DEFINE b == [a EXCEPT !.popup = p]
<1>1. b \in AppShape(a.values)
  BY AppFields DEF AppShape
<1>2. /\ b.secrets = a.secrets /\ b.providers = a.providers /\ b.profile = a.profile /\ b.id = a.id
      /\ b.loading = a.loading /\ b.secretIndex = a.secretIndex /\ b.filter = a.filter
      /\ b.providerIndex = a.providerIndex /\ b.picker = a.picker /\ b.popup = p
  BY AppFields DEF AppShape
<1> HIDE DEF b
<1>3. PopupOK(b)
  BY <1>2 DEF PopupOK
<1>4. Good(a, b)
  BY <1>1, <1>2, <1>3, AppFields, Quiet DEF IndexOK
<1> QED BY <1>4 DEF b

LEMMA ClosedGood ==
  ASSUME NEW a, AppOK(a)
  PROVE  Good(a, Closed(a))
<1>1. NoPopup.kind = "none" /\ NoPopup.cursor = 0 /\ NoPopup.value = 0
  BY DEF NoPopup
<1> QED BY <1>1, NoPopupShape, PopupGood DEF Closed

(* Events after each other. *)
LEMMA GoodAgain ==
  ASSUME NEW a, NEW b, NEW c, Good(a, b), Good(b, c), b.id = a.id \/ c.id = b.id, c.values = b.values, c.loading = b.loading
  PROVE  Good(a, c)
BY DEF Good, Evolves

(* A resolution is started: for what is on the screen, or for another profile. *)
LEMMA SpawnGood ==
  ASSUME NEW a, AppOK(a), NEW c \in AppShape(a.values), c.id = a.id, IndexOK(c), PopupOK(c)
  PROVE  Good(a, SpawnResolve(c)) /\ SpawnResolve(c).popup = c.popup
<1> DEFINE b == SpawnResolve(c)
<1>1. b \in AppShape(<<>>) /\ b.values = <<>> /\ b.id = a.id + 1 /\ b.loading
  <2>1. b = [c EXCEPT !.id = a.id + 1, !.values = <<>>, !.loading = TRUE] /\ a.id + 1 \in Nat
    BY AppFields DEF SpawnResolve
  <2>2. b.values = <<>> /\ b.id = a.id + 1 /\ b.loading
    BY <2>1 DEF AppShape
  <2>3. b \in AppShape(<<>>)
    BY <2>1 DEF AppShape
  <2> QED BY <2>2, <2>3
<1>2. /\ b.secrets = c.secrets /\ b.providers = c.providers /\ b.profile = c.profile
      /\ b.secretIndex = c.secretIndex /\ b.filter = c.filter
      /\ b.providerIndex = c.providerIndex /\ b.picker = c.picker /\ b.popup = c.popup
  BY DEF AppShape, SpawnResolve
<1> HIDE DEF b
<1>3. IndexOK(b)
  BY <1>2 DEF IndexOK, Rows, FilteredSecrets
<1>4. PopupOK(b)
  BY <1>2 DEF PopupOK
<1>5. b.values \in [DOMAIN b.values -> Shown(b.profile)]
  BY <1>1
<1>6. Good(a, b)
  BY <1>1, <1>3, <1>4, <1>5 DEF Good, AppOK, Evolves
<1> QED BY <1>2, <1>6 DEF b

LEMMA SwitchGood ==
  ASSUME NEW a, AppOK(a), a.popup.kind = "picker", NEW p \in Known \cup BrokenProfiles
  PROVE  Good(a, SwitchProfile(a, p))
<1>1. CASE p = a.profile
  BY <1>1, SameGood DEF SwitchProfile
<1>2. CASE p # a.profile /\ p \in BrokenProfiles
  BY <1>2, ErrorGood DEF SwitchProfile
<1>3. CASE p # a.profile /\ p \notin BrokenProfiles
  <2> DEFINE c == [a EXCEPT !.profile = p, !.providers = ProfileProviders[p], !.providerIndex = 0,
                            !.secrets = ProfileSecrets[p], !.secretIndex = 0, !.filter = 0]
  <2>1. p \in Known /\ ProfileSecrets[p] \in Seq(Nat) /\ ProfileProviders[p] \in Nat
    BY <1>3, ViewAssumption DEF Known
  <2>2. c \in AppShape(a.values)
    BY <2>1, AppFields DEF AppShape
  <2>3. c.secretIndex = 0 /\ c.providerIndex = 0 /\ c.picker = a.picker /\ c.popup = a.popup /\ c.id = a.id
    BY AppFields DEF AppShape
  <2>4. SwitchProfile(a, p) = SpawnResolve(c)
    BY <1>3 DEF SwitchProfile
  <2> HIDE DEF c
  <2>5. IndexOK(c)
    BY <2>3, AppFields DEF IndexOK
  <2>6. PopupOK(c)
    BY <2>3, AppFields DEF PopupOK
  <2> QED BY <2>2, <2>3, <2>4, <2>5, <2>6, SpawnGood
<1> QED BY <1>1, <1>2, <1>3

Indexed(a, f, i, j, n) == [a EXCEPT !.focus = f, !.secretIndex = i, !.providerIndex = j, !.picker = n]

(* Indexes move within what they index. *)
LEMMA IndexGood ==
  ASSUME NEW a, AppOK(a), NEW f \in {"secrets", "providers"}, NEW i \in Nat, NEW j \in Nat, NEW n \in Nat,
         i = 0 \/ i < Rows(a), j = 0 \/ j < a.providers, n < Len(Profiles)
  PROVE  Good(a, Indexed(a, f, i, j, n))
<1> DEFINE b == [a EXCEPT !.focus = f, !.secretIndex = i, !.providerIndex = j, !.picker = n]
<1>1. b \in AppShape(a.values)
  BY AppFields DEF AppShape
<1>2. /\ b.secrets = a.secrets /\ b.providers = a.providers /\ b.profile = a.profile /\ b.id = a.id
      /\ b.loading = a.loading /\ b.secretIndex = i /\ b.filter = a.filter
      /\ b.providerIndex = j /\ b.picker = n /\ b.popup = a.popup
  BY AppFields DEF AppShape
<1> HIDE DEF b
<1>3. PopupOK(b)
  BY <1>2, AppFields DEF PopupOK
<1>4. Good(a, b)
  BY <1>1, <1>2, <1>3, Quiet
<1> QED BY <1>4 DEF b, Indexed

LEMMA MovedWithin ==
  ASSUME NEW index \in Nat, NEW length \in Nat, index = 0 \/ index < length, NEW down
  PROVE  Moved(index, length, down) \in Nat /\ (Moved(index, length, down) = 0 \/ Moved(index, length, down) < length)
BY DEF Moved

(* Setting a field to what it is changes nothing. *)
LEMMA IndexSame ==
  ASSUME NEW a, AppOK(a), NEW x
  PROVE  /\ [a EXCEPT !.secretIndex = x] = Indexed(a, a.focus, x, a.providerIndex, a.picker)
         /\ [a EXCEPT !.providerIndex = x] = Indexed(a, a.focus, a.secretIndex, x, a.picker)
         /\ [a EXCEPT !.picker = x] = Indexed(a, a.focus, a.secretIndex, a.providerIndex, x)
         /\ [a EXCEPT !.focus = x] = Indexed(a, x, a.secretIndex, a.providerIndex, a.picker)
BY AppFields DEF AppShape, Indexed

LEMMA MoveGood ==
  ASSUME NEW a, AppOK(a), NEW down
  PROVE  Good(a, MoveSelection(a, down))
<1>0. Rows(a) \in Nat
  BY AppFields, RowsTypes
<1> DEFINE i == Moved(a.secretIndex, Rows(a), down)
           j == Moved(a.providerIndex, a.providers, down)
<1>1. i \in Nat /\ (i = 0 \/ i < Rows(a)) /\ j \in Nat /\ (j = 0 \/ j < a.providers)
  BY <1>0, AppFields, MovedWithin DEF IndexOK
<1>2. MoveSelection(a, down) = [a EXCEPT !.providerIndex = j] \/ MoveSelection(a, down) = [a EXCEPT !.secretIndex = i]
  BY DEF MoveSelection
<1> HIDE DEF i, j
<1>3. Good(a, Indexed(a, a.focus, a.secretIndex, j, a.picker)) /\ Good(a, Indexed(a, a.focus, i, a.providerIndex, a.picker))
  BY <1>1, AppFields, IndexGood DEF IndexOK
<1> QED BY <1>2, <1>3, IndexSame

LEMMA JumpGood ==
  ASSUME NEW a, AppOK(a), NEW last
  PROVE  Good(a, Jump(a, last))
<1>0. Rows(a) \in Nat
  BY AppFields, RowsTypes
<1> DEFINE row(rows, old) == IF ~last THEN 0 ELSE IF rows = 0 THEN old ELSE rows - 1
           i == row(Rows(a), a.secretIndex)
           j == row(a.providers, a.providerIndex)
<1>1. i \in Nat /\ (i = 0 \/ i < Rows(a)) /\ j \in Nat /\ (j = 0 \/ j < a.providers)
  BY <1>0, AppFields DEF IndexOK
<1>2. Jump(a, last) = [a EXCEPT !.providerIndex = j] \/ Jump(a, last) = [a EXCEPT !.secretIndex = i]
  BY DEF Jump
<1> HIDE DEF i, j
<1>3. Good(a, Indexed(a, a.focus, a.secretIndex, j, a.picker)) /\ Good(a, Indexed(a, a.focus, i, a.providerIndex, a.picker))
  BY <1>1, AppFields, IndexGood DEF IndexOK
<1> QED BY <1>2, <1>3, IndexSame

LEMMA ClickGood ==
  ASSUME NEW a, AppOK(a), NEW area \in {"providers", "secrets"}, NEW row \in 0..2
  PROVE  Good(a, Click(a, area, row))
<1>1. CASE a.popup.kind \in {"help", "detail"}
  BY <1>1, ClosedGood DEF Click
<1>2. CASE a.popup.kind \notin {"help", "detail", "none"}
  BY <1>2, SameGood DEF Click
<1>3. CASE a.popup.kind = "none" /\ area = "providers"
  <2> DEFINE j == IF row < a.providers THEN row ELSE a.providerIndex
  <2>1. j \in Nat /\ (j = 0 \/ j < a.providers)
    BY AppFields DEF IndexOK
  <2>2. Click(a, area, row) = [a EXCEPT !.focus = "providers", !.providerIndex = j]
    BY <1>3 DEF Click
  <2> HIDE DEF j
  <2>3. Click(a, area, row) = Indexed(a, "providers", a.secretIndex, j, a.picker)
    BY <2>2, AppFields DEF AppShape, Indexed
  <2> QED BY <2>1, <2>3, AppFields, IndexGood DEF IndexOK
<1>4. CASE a.popup.kind = "none" /\ area = "secrets"
  <2> DEFINE i == IF row < Rows(a) THEN row ELSE a.secretIndex
  <2>1. i \in Nat /\ (i = 0 \/ i < Rows(a))
    BY AppFields DEF IndexOK
  <2>2. Click(a, area, row) = [a EXCEPT !.focus = "secrets", !.secretIndex = i]
    BY <1>4 DEF Click
  <2> HIDE DEF i
  <2>3. Click(a, area, row) = Indexed(a, "secrets", i, a.providerIndex, a.picker)
    BY <2>2, AppFields DEF AppShape, Indexed
  <2> QED BY <2>1, <2>3, AppFields, IndexGood DEF IndexOK
<1> QED BY <1>1, <1>2, <1>3, <1>4

LEMMA GoodAfter ==
  ASSUME NEW a, NEW b, NEW c, AppOK(a), Good(a, b), b.id = a.id, Good(b, c)
  PROVE  Good(a, c)
<1>1. a.id \in Nat
  BY AppFields
<1> QED BY <1>1 DEF Good, Evolves

LEMMA ClosedFields ==
  ASSUME NEW a, AppOK(a)
  PROVE  /\ Closed(a).values = a.values /\ Closed(a).id = a.id /\ Closed(a).loading = a.loading
         /\ Closed(a).popup.kind = "none" /\ Closed(a).profile = a.profile /\ Closed(a).secrets = a.secrets
BY AppFields DEF AppShape, Closed, NoPopup

LEMMA ErrorFields ==
  ASSUME NEW a, AppOK(a), NEW e
  PROVE  /\ [a EXCEPT !.error = e].id = a.id /\ [a EXCEPT !.error = e].popup = a.popup
         /\ [a EXCEPT !.error = e].profile = a.profile
BY AppFields DEF AppShape

LEMMA CopyGood ==
  ASSUME NEW a, AppOK(a), NEW key
  PROVE  Good(a, Copy(a, key)) /\ Copy(a, key).id = a.id
<1> DEFINE e == a.error \/ ValueOf(a, key) = NoValue \/ ~ClipboardWorks
<1>1. e \in BOOLEAN
  OBVIOUS
<1>2. Copy(a, key) = [a EXCEPT !.error = e]
  BY DEF Copy
<1> HIDE DEF e
<1> QED BY <1>1, <1>2, ErrorGood, ErrorFields

LEMMA CopySelectedGood ==
  ASSUME NEW a, AppOK(a)
  PROVE  Good(a, CopySelected(a))
BY CopyGood, SameGood DEF CopySelected

LEMMA PickerGood ==
  ASSUME NEW a, AppOK(a), a.popup.kind = "picker", NEW key
  PROVE  Good(a, PickerKey(a, key))
<1> DEFINE n == Len(Profiles)
           down == (a.picker + 1) % n
           up == (a.picker + n - 1) % n
<1>0. n \in Nat /\ n > 0 /\ a.picker \in Nat /\ a.picker < n
  BY AppFields, ViewAssumption
<1>1. CASE key = "Esc"
  BY <1>1, ClosedGood DEF PickerKey
<1>2. CASE key = "Enter"
  <2> DEFINE b == SwitchProfile(a, Profiles[a.picker + 1])
  <2>1. Profiles[a.picker + 1] \in Known \cup BrokenProfiles
    BY <1>0, ViewAssumption DEF Known
  <2>2. Good(a, b)
    BY <2>1, SwitchGood
  <2>3. PickerKey(a, key) = Closed(b)
    BY <1>2 DEF PickerKey
  <2> HIDE DEF b
  <2>4. AppOK(b)
    BY <2>2 DEF Good
  <2>5. Good(b, Closed(b))
    BY <2>4, ClosedGood
  <2>6. Closed(b).values = b.values /\ Closed(b).id = b.id /\ Closed(b).loading = b.loading
    BY <2>4, ClosedFields
  <2> QED BY <2>2, <2>3, <2>5, <2>6, GoodAgain
<1>3. CASE key = "Down"
  <2>1. down \in Nat /\ down < n
    BY <1>0
  <2>2. PickerKey(a, key) = [a EXCEPT !.picker = down]
    BY <1>3 DEF PickerKey
  <2> HIDE DEF down
  <2>3. Good(a, Indexed(a, a.focus, a.secretIndex, a.providerIndex, down))
    BY <2>1, AppFields, IndexGood DEF IndexOK
  <2> QED BY <2>2, <2>3, IndexSame
<1>4. CASE key = "Up"
  <2>1. up \in Nat /\ up < n
    BY <1>0
  <2>2. PickerKey(a, key) = [a EXCEPT !.picker = up]
    BY <1>4 DEF PickerKey
  <2> HIDE DEF up
  <2>3. Good(a, Indexed(a, a.focus, a.secretIndex, a.providerIndex, up))
    BY <2>1, AppFields, IndexGood DEF IndexOK
  <2> QED BY <2>2, <2>3, IndexSame
<1>5. CASE key \notin {"Esc", "Enter", "Down", "Up"}
  BY <1>5, SameGood DEF PickerKey
<1> QED BY <1>1, <1>2, <1>3, <1>4, <1>5

LEMMA ConfirmGood ==
  ASSUME NEW a, AppOK(a), NEW key
  PROVE  Good(a, ConfirmDeleteKey(a, key))
<1>1. CASE key \in {"Esc", "n"}
  BY <1>1, ClosedGood DEF ConfirmDeleteKey
<1>2. CASE key = "y"
  <2>1. ConfirmDeleteKey(a, key) = [Closed(a) EXCEPT !.error = TRUE]
    BY <1>2 DEF ConfirmDeleteKey
  <2>2. Good(a, Closed(a)) /\ Closed(a).id = a.id /\ AppOK(Closed(a))
    BY ClosedGood, ClosedFields DEF Good
  <2>3. Good(Closed(a), [Closed(a) EXCEPT !.error = TRUE])
    BY <2>2, ErrorGood
  <2> QED BY <2>1, <2>2, <2>3, GoodAfter
<1>3. CASE key \notin {"Esc", "n", "y"}
  BY <1>3, SameGood DEF ConfirmDeleteKey
<1> QED BY <1>1, <1>2, <1>3

(* The cursor stays within the text. *)
LEMMA TextKeyWithin ==
  ASSUME NEW text \in Nat, NEW cursor \in Nat, cursor <= text, NEW key
  PROVE  LET r == TextKey(text, cursor, key) IN r[1] \in Nat /\ r[2] \in Nat /\ r[2] <= r[1]
<1>1. CASE key = "Backspace"
  BY <1>1 DEF TextKey
<1>2. CASE key = "Delete"
  BY <1>2 DEF TextKey
<1>3. CASE key = "Left"
  BY <1>3 DEF TextKey
<1>4. CASE key = "Right"
  BY <1>4 DEF TextKey
<1>5. CASE key = "char"
  BY <1>5 DEF TextKey
<1>6. CASE key \notin {"Backspace", "Delete", "Left", "Right", "char"}
  BY <1>6 DEF TextKey
<1> QED BY <1>1, <1>2, <1>3, <1>4, <1>5, <1>6

(* A value is typed, for a secret that is in the list or added to it. *)
LEMMA TypeGood ==
  ASSUME NEW a, AppOK(a), a.popup.kind = "none", NEW key \in Nat, NEW text \in Nat, NEW s,
         s = a.secrets \/ s = Append(a.secrets, key)
  PROVE  Good(a, [a EXCEPT !.secrets = s, !.values = With(a.values, key, Typed(a, text))])
<1> DEFINE v == With(a.values, key, Typed(a, text))
           b == [a EXCEPT !.secrets = s, !.values = v]
<1>0. s \in Seq(Nat)
  <2>1. a.secrets \in Seq(Nat)
    BY AppFields
  <2>2. Append(a.secrets, key) \in Seq(Nat)
    BY <2>1
  <2> QED BY <2>1, <2>2
<1>1. Typed(a, text) \in Shown(a.profile)
  BY DEF Typed, Shown
<1>2. a.values \in [DOMAIN a.values -> Shown(a.profile)]
  BY DEF AppOK
<1>3. v \in [DOMAIN a.values \cup {key} -> Shown(a.profile)]
  <2> HIDE DEF Shown
  <2> QED BY <1>1, <1>2 DEF With
<1>4. DOMAIN v = DOMAIN a.values \cup {key}
  BY <1>3
<1> HIDE DEF v
<1>5. b \in AppShape(v)
  <2>1. a \in AppShape(a.values)
    BY AppFields
  <2> QED BY <1>0, <2>1 DEF AppShape
<1>6. /\ b.secrets = s /\ b.values = v /\ b.providers = a.providers /\ b.profile = a.profile /\ b.id = a.id
      /\ b.loading = a.loading /\ b.secretIndex = a.secretIndex /\ b.filter = a.filter
      /\ b.providerIndex = a.providerIndex /\ b.picker = a.picker /\ b.popup = a.popup
  BY AppFields DEF AppShape
<1>7. b = [a EXCEPT !.secrets = s, !.values = v]
  OBVIOUS
<1> HIDE DEF b
<1>8. Rows(a) <= Rows(b)
  <2>1. CASE s = a.secrets
    <3>1. Rows(b) = Rows(a) /\ Rows(a) \in Nat
      BY <1>6, <2>1, AppFields, RowsTypes DEF Rows, FilteredSecrets
    <3> QED BY <3>1
  <2>2. CASE s = Append(a.secrets, key)
    BY <1>6, <2>2, AppFields, RowsGrow
  <2> QED BY <2>1, <2>2
<1>9. Rows(a) \in Nat /\ Rows(b) \in Nat
  BY <1>0, <1>6, AppFields, RowsTypes
<1>10. IndexOK(b)
  BY <1>6, <1>8, <1>9, AppFields DEF IndexOK
<1>11. PopupOK(b)
  BY <1>6, AppFields DEF PopupOK
<1>12. b.values \in [DOMAIN b.values -> Shown(b.profile)]
  BY <1>3, <1>4, <1>6
<1>13. AppOK(b)
  BY <1>5, <1>6, <1>10, <1>11, <1>12 DEF AppOK
<1>14. Evolves(a, b)
  BY <1>4, <1>6 DEF Evolves
<1> QED BY <1>7, <1>13, <1>14 DEF Good, v

LEMMA PopupFields ==
  ASSUME NEW a, AppOK(a)
  PROVE  /\ a.popup.kind \in {"none", "help", "picker", "detail", "confirm", "edit", "set"}
         /\ a.popup.key \in Nat /\ a.popup.value \in Nat /\ a.popup.cursor \in Nat
         /\ a.popup.field \in {"key", "value"}
BY AppFields DEF PopupShape

(* Popup of a kind, for a secret that is there or for none. *)
LEMMA OpenGood ==
  ASSUME NEW a, AppOK(a), NEW kind \in {"help", "picker", "detail", "confirm", "set"}, NEW key \in Nat,
         kind \in {"detail", "confirm"} => key \in ToSet(a.secrets)
  PROVE  Good(a, [a EXCEPT !.popup = Popup(kind, key)])
<1>1. /\ Popup(kind, key) \in PopupShape /\ Popup(kind, key).kind = kind /\ Popup(kind, key).key = key
      /\ Popup(kind, key).cursor = 0 /\ Popup(kind, key).value = 0
  BY DEF Popup, NoPopup, PopupShape
<1> QED BY <1>1, PopupGood

LEMMA OpenSelectedGood ==
  ASSUME NEW a, AppOK(a), NEW kind \in {"detail", "confirm"}
  PROVE  Good(a, OpenSelected(a, kind))
<1>1. a.secrets \in Seq(Nat)
  BY AppFields
<1> QED BY <1>1, SelectedIn, OpenGood, SameGood DEF OpenSelected

LEMMA OpenPickerGood ==
  ASSUME NEW a, AppOK(a)
  PROVE  Good(a, OpenPicker(a))
<1> DEFINE at == {i \in DOMAIN Profiles : Profiles[i] = a.profile}
           n == IF at = {} THEN 0 ELSE (CHOOSE i \in at : TRUE) - 1
           b == [a EXCEPT !.picker = n]
<1>1. n \in Nat /\ n < Len(Profiles)
  <2>1. Len(Profiles) \in Nat /\ Len(Profiles) > 0 /\ DOMAIN Profiles = 1..Len(Profiles)
    BY ViewAssumption
  <2>2. at # {} => (CHOOSE i \in at : TRUE) \in DOMAIN Profiles
    OBVIOUS
  <2> QED BY <2>1, <2>2
<1>2. OpenPicker(a) = [a EXCEPT !.picker = n, !.popup = Popup("picker", 0)]
  BY DEF OpenPicker
<1> HIDE DEF n
<1>3. Good(a, b)
  <2>1. Good(a, Indexed(a, a.focus, a.secretIndex, a.providerIndex, n))
    BY <1>1, AppFields, IndexGood DEF IndexOK
  <2> QED BY <2>1, IndexSame
<1>4. OpenPicker(a) = [b EXCEPT !.popup = Popup("picker", 0)] /\ b.id = a.id
  BY <1>2, AppFields DEF AppShape
<1> HIDE DEF b
<1>5. AppOK(b)
  BY <1>3 DEF Good
<1>6. Good(b, [b EXCEPT !.popup = Popup("picker", 0)])
  BY <1>5, OpenGood
<1> QED BY <1>3, <1>4, <1>6, GoodAfter

LEMMA OpenEditGood ==
  ASSUME NEW a, AppOK(a)
  PROVE  Good(a, OpenEdit(a))
<1> DEFINE key == SelectedSecret(a)
           text == IF ValueOf(a, key) = NoValue THEN 0 ELSE ValueOf(a, key).text
           p == [Popup("edit", key) EXCEPT !.value = text, !.cursor = text]
<1>1. CASE key = 0
  BY <1>1, SameGood DEF OpenEdit
<1>2. CASE key # 0
  <2>1. key \in Nat /\ key \in ToSet(a.secrets)
    BY <1>2, AppFields, SelectedIn
  <2>2. text \in Nat
    <3>1. a.values \in [DOMAIN a.values -> Shown(a.profile)]
      BY DEF AppOK
    <3> QED BY <3>1 DEF ValueOf, Shown
  <2>3. OpenEdit(a) = [a EXCEPT !.popup = p]
    BY <1>2 DEF OpenEdit
  <2> HIDE DEF key, text
  <2>4. p \in PopupShape /\ p.kind = "edit" /\ p.key = key /\ p.cursor = text /\ p.value = text
    BY <2>1, <2>2 DEF Popup, NoPopup, PopupShape
  <2> HIDE DEF p
  <2> QED BY <2>1, <2>2, <2>3, <2>4, PopupGood
<1> QED BY <1>1, <1>2

ValueTyped(a, x, y) == [a EXCEPT !.popup.value = x, !.popup.cursor = y]
KeyTyped(a, x, y) == [a EXCEPT !.popup.key = x, !.popup.cursor = y]
FieldChosen(a, f, y) == [a EXCEPT !.popup.field = f, !.popup.cursor = y]
Entered(a, s, key, text) == [Closed(a) EXCEPT !.secrets = s, !.values = With(a.values, key, Typed(a, text))]

(* The text of a dialog, or the name in it, changes. *)
LEMMA DialogGood ==
  ASSUME NEW a, AppOK(a), a.popup.kind \in {"edit", "set"}, NEW x \in Nat, NEW y \in Nat, y <= x
  PROVE  /\ ~(a.popup.kind = "set" /\ a.popup.field = "key") => Good(a, ValueTyped(a, x, y))
         /\ a.popup.kind = "set" /\ a.popup.field = "key" => Good(a, KeyTyped(a, x, y))
<1> DEFINE p == a.popup
<1>0. a.popup \in PopupShape /\ (p.kind = "edit" => p.key \in ToSet(a.secrets))
  BY AppFields DEF PopupOK
<1>1. ASSUME ~(p.kind = "set" /\ p.field = "key") PROVE Good(a, ValueTyped(a, x, y))
  <2> DEFINE q == [p EXCEPT !.value = x, !.cursor = y]
  <2>1. q \in PopupShape /\ q.kind = p.kind /\ q.key = p.key /\ q.field = p.field /\ q.value = x /\ q.cursor = y
    BY <1>0 DEF PopupShape
  <2>2. ValueTyped(a, x, y) = [a EXCEPT !.popup = q]
    BY AppFields DEF AppShape, ValueTyped
  <2> HIDE DEF q
  <2>3. Good(a, [a EXCEPT !.popup = q])
    BY <1>0, <1>1, <2>1, PopupGood
  <2> QED BY <2>2, <2>3
<1>2. ASSUME p.kind = "set" /\ p.field = "key" PROVE Good(a, KeyTyped(a, x, y))
  <2> DEFINE q == [p EXCEPT !.key = x, !.cursor = y]
  <2>1. q \in PopupShape /\ q.kind = p.kind /\ q.key = x /\ q.field = p.field /\ q.cursor = y
    BY <1>0 DEF PopupShape
  <2>2. KeyTyped(a, x, y) = [a EXCEPT !.popup = q]
    BY AppFields DEF AppShape, KeyTyped
  <2> HIDE DEF q
  <2>3. Good(a, [a EXCEPT !.popup = q])
    BY <1>0, <1>2, <2>1, PopupGood
  <2> QED BY <2>2, <2>3
<1> QED BY <1>1, <1>2

LEMMA FieldGood ==
  ASSUME NEW a, AppOK(a), a.popup.kind = "set", NEW f \in {"key", "value"}, NEW y \in Nat,
         y <= IF f = "key" THEN a.popup.key ELSE a.popup.value
  PROVE  Good(a, FieldChosen(a, f, y))
<1> DEFINE p == a.popup
           q == [p EXCEPT !.field = f, !.cursor = y]
<1>1. p \in PopupShape
  BY AppFields
<1>2. q \in PopupShape /\ q.kind = p.kind /\ q.key = p.key /\ q.field = f /\ q.value = p.value /\ q.cursor = y
  BY <1>1 DEF PopupShape
<1>3. FieldChosen(a, f, y) = [a EXCEPT !.popup = q]
  BY AppFields DEF AppShape, FieldChosen
<1> HIDE DEF q
<1>4. Good(a, [a EXCEPT !.popup = q])
  BY <1>2, PopupGood
<1> QED BY <1>3, <1>4

(* Enter in a dialog: it is closed, and the value is the one typed. *)
LEMMA EnterGood ==
  ASSUME NEW a, AppOK(a), NEW key \in Nat, NEW text \in Nat, NEW s, s = a.secrets \/ s = Append(a.secrets, key)
  PROVE  Good(a, Entered(a, s, key, text))
<1>1. Good(a, Closed(a))
  BY ClosedGood
<1>2. AppOK(Closed(a))
  BY <1>1 DEF Good
<1>3. Typed(Closed(a), text) = Typed(a, text)
  BY ClosedFields DEF Typed
<1>4. Good(Closed(a), [Closed(a) EXCEPT !.secrets = s, !.values = With(Closed(a).values, key, Typed(Closed(a), text))])
  BY <1>2, ClosedFields, TypeGood
<1>5. Good(Closed(a), Entered(a, s, key, text))
  BY <1>3, <1>4, ClosedFields DEF Entered
<1> QED BY <1>1, <1>5, ClosedFields, GoodAfter

LEMMA EditGood ==
  ASSUME NEW a, AppOK(a), a.popup.kind = "edit", NEW key
  PROVE  Good(a, EditKey(a, key))
<1> DEFINE p == a.popup
           r == TextKey(p.value, p.cursor, key)
<1>0. p.value \in Nat /\ p.key \in Nat /\ p.cursor \in Nat /\ p.cursor <= p.value
  BY PopupFields, AppFields DEF PopupOK
<1>1. CASE key = "Esc"
  BY <1>1, ClosedGood DEF EditKey
<1>2. CASE key = "Enter"
  <2> DEFINE v == With(a.values, p.key, Typed(a, p.value))
  <2>1. EditKey(a, key) = [Closed(a) EXCEPT !.values = v]
    BY <1>2, ClosedFields DEF EditKey
  <2>2. Closed(a).secrets = a.secrets /\ Closed(a) \in AppShape(a.values)
    BY AppFields, NoPopupShape DEF AppShape, Closed
  <2>3. Good(a, [Closed(a) EXCEPT !.secrets = a.secrets, !.values = v])
    BY <1>0, EnterGood DEF Entered
  <2> HIDE DEF v
  <2>4. [Closed(a) EXCEPT !.secrets = a.secrets, !.values = v] = [Closed(a) EXCEPT !.values = v]
    BY <2>2 DEF AppShape
  <2> QED BY <2>1, <2>3, <2>4
<1>3. CASE key = "Home"
  <2>1. EditKey(a, key) = ValueTyped(a, p.value, 0)
    BY <1>3, AppFields DEF EditKey, AppShape, PopupShape, ValueTyped
  <2> QED BY <1>0, <2>1, DialogGood
<1>4. CASE key = "End"
  <2>1. EditKey(a, key) = ValueTyped(a, p.value, p.value)
    BY <1>4, AppFields DEF EditKey, AppShape, PopupShape, ValueTyped
  <2> QED BY <1>0, <2>1, DialogGood
<1>5. CASE key \notin {"Esc", "Enter", "Home", "End"}
  <2>1. EditKey(a, key) = ValueTyped(a, r[1], r[2])
    BY <1>5 DEF EditKey, ValueTyped
  <2>2. r[1] \in Nat /\ r[2] \in Nat /\ r[2] <= r[1]
    BY <1>0, TextKeyWithin
  <2> HIDE DEF r
  <2> QED BY <2>1, <2>2, DialogGood
<1> QED BY <1>1, <1>2, <1>3, <1>4, <1>5

LEMMA SetKeyGood ==
  ASSUME NEW before, AppOK(before), before.popup.kind = "set", NEW key
  PROVE  Good(before, SetKey(before, key))
<1> DEFINE p == before.popup
           a == [before EXCEPT !.error = FALSE]
           r == IF p.field = "key" THEN TextKey(p.key, p.cursor, key) ELSE TextKey(p.value, p.cursor, key)
<1>0. /\ p.value \in Nat /\ p.key \in Nat /\ p.cursor \in Nat /\ p.field \in {"key", "value"}
      /\ p.cursor <= IF p.field = "key" THEN p.key ELSE p.value
  BY PopupFields, AppFields DEF PopupOK
<1>1. CASE key = "Esc"
  BY <1>1, ClosedGood DEF SetKey
<1>2. CASE key # "Esc"
  <2>1. Good(before, a) /\ a.id = before.id /\ a.popup = p
    BY ErrorGood, ErrorFields
  <2>2. SetKey(before, key) =
          CASE key = "Tab" /\ p.field = "key" -> FieldChosen(a, "value", p.value)
            [] key = "Tab" /\ p.field = "value" -> FieldChosen(a, "key", p.key)
            [] key = "Enter" -> IF p.key = 0 THEN [a EXCEPT !.error = TRUE] ELSE SetSecret(a)
            [] OTHER -> IF p.field = "key" THEN KeyTyped(a, r[1], r[2]) ELSE ValueTyped(a, r[1], r[2])
    BY <1>2 DEF SetKey, FieldChosen, KeyTyped, ValueTyped
  <2>3. r[1] \in Nat /\ r[2] \in Nat /\ r[2] <= r[1]
    BY <1>0, TextKeyWithin
  <2>0. a.popup.kind = "set"
    BY <2>1
  <2> HIDE DEF a, r
  <2>4. AppOK(a)
    BY <2>1 DEF Good
  <2>5. CASE key = "Tab" /\ p.field = "key"
    <3>1. SetKey(before, key) = FieldChosen(a, "value", p.value)
      BY <2>2, <2>5
    <3>2. Good(a, FieldChosen(a, "value", p.value))
      BY <1>0, <2>1, <2>4, <2>0, FieldGood
    <3> QED BY <2>1, <3>1, <3>2, GoodAfter
  <2>6. CASE key = "Tab" /\ p.field = "value"
    <3>1. SetKey(before, key) = FieldChosen(a, "key", p.key)
      BY <2>2, <2>6
    <3>2. Good(a, FieldChosen(a, "key", p.key))
      BY <1>0, <2>1, <2>4, <2>0, FieldGood
    <3> QED BY <2>1, <3>1, <3>2, GoodAfter
  <2>7. CASE key = "Enter" /\ p.key = 0
    <3>1. SetKey(before, key) = [a EXCEPT !.error = TRUE]
      BY <2>2, <2>7
    <3>2. Good(a, [a EXCEPT !.error = TRUE])
      BY <2>4, ErrorGood
    <3> QED BY <2>1, <3>1, <3>2, GoodAfter
  <2>8. CASE key = "Enter" /\ p.key # 0
    <3> DEFINE s == IF p.key \in ToSet(a.secrets) THEN a.secrets ELSE Append(a.secrets, p.key)
    <3>1. SetKey(before, key) = SetSecret(a)
      BY <2>2, <2>8
    <3>2. SetSecret(a) = Entered(a, s, p.key, p.value)
      BY <2>1, <2>4, ClosedFields DEF SetSecret, Entered
    <3>3. s = a.secrets \/ s = Append(a.secrets, p.key)
      OBVIOUS
    <3> HIDE DEF s
    <3>4. Good(a, SetSecret(a))
      BY <1>0, <2>4, <3>2, <3>3, EnterGood
    <3> QED BY <2>1, <3>1, <3>4, GoodAfter
  <2>9. CASE key \notin {"Tab", "Enter"}
    <3>1. SetKey(before, key) = IF p.field = "key" THEN KeyTyped(a, r[1], r[2]) ELSE ValueTyped(a, r[1], r[2])
      BY <1>2, <2>2, <2>9
    <3>2. Good(a, SetKey(before, key))
      BY <2>0, <2>1, <2>3, <2>4, <3>1, DialogGood
    <3> QED BY <2>1, <3>2, GoodAfter
  <2> QED BY <1>0, <2>5, <2>6, <2>7, <2>8, <2>9
<1> QED BY <1>1, <1>2

ModeOf(a, run, search, f, i) == [a EXCEPT !.running = run, !.searching = search, !.filter = f, !.secretIndex = i]

(* Keys that change neither an index, unless it becomes 0, nor a popup. *)
LEMMA ModeGood ==
  ASSUME NEW a, AppOK(a), NEW run \in BOOLEAN, NEW search \in BOOLEAN, NEW f \in Nat, NEW i \in {0, a.secretIndex},
         i = 0 \/ f = a.filter
  PROVE  Good(a, ModeOf(a, run, search, f, i))
<1> DEFINE b == [a EXCEPT !.running = run, !.searching = search, !.filter = f, !.secretIndex = i]
<1>0. i \in Nat
  BY AppFields
<1>1. b \in AppShape(a.values)
  BY <1>0, AppFields DEF AppShape
<1>2. /\ b.secrets = a.secrets /\ b.providers = a.providers /\ b.profile = a.profile /\ b.id = a.id
      /\ b.loading = a.loading /\ b.secretIndex = i /\ b.filter = f
      /\ b.providerIndex = a.providerIndex /\ b.picker = a.picker /\ b.popup = a.popup
  BY AppFields DEF AppShape
<1> HIDE DEF b
<1>3. PopupOK(b)
  BY <1>2, AppFields DEF PopupOK
<1>4. Good(a, b)
  BY <1>1, <1>2, <1>3, AppFields, Quiet DEF IndexOK
<1> QED BY <1>4 DEF b, ModeOf

LEMMA SearchGood ==
  ASSUME NEW a, AppOK(a), NEW key
  PROVE  Good(a, SearchKey(a, key))
<1> DEFINE M(s, f, i) == ModeOf(a, a.running, s, f, i)
           less == IF a.filter > 0 THEN a.filter - 1 ELSE 0
<1>0. a.filter \in Nat /\ a.running \in BOOLEAN /\ a.searching \in BOOLEAN /\ less \in Nat /\ a.filter + 1 \in Nat
  BY AppFields DEF AppShape
<1>1. Good(a, M(FALSE, 0, 0)) /\ Good(a, M(FALSE, a.filter, a.secretIndex))
  BY <1>0, ModeGood
<1>2. Good(a, M(a.searching, less, 0)) /\ Good(a, M(a.searching, a.filter + 1, 0))
  <2> HIDE DEF less
  <2> QED BY <1>0, ModeGood
<1>3. SearchKey(a, key) \in {M(FALSE, 0, 0), M(FALSE, a.filter, a.secretIndex), M(a.searching, less, 0),
                             M(a.searching, a.filter + 1, 0), a}
  <2>1. CASE key = "Esc"
    <3>1. SearchKey(a, key) = [a EXCEPT !.searching = FALSE, !.filter = 0, !.secretIndex = 0]
      BY <2>1 DEF SearchKey
    <3>2. SearchKey(a, key) = M(FALSE, 0, 0)
      BY <3>1, AppFields DEF AppShape, ModeOf
    <3> HIDE DEF M
    <3> QED BY <3>2
  <2>2. CASE key = "Enter"
    <3>1. SearchKey(a, key) = [a EXCEPT !.searching = FALSE]
      BY <2>2 DEF SearchKey
    <3>2. SearchKey(a, key) = M(FALSE, a.filter, a.secretIndex)
      BY <3>1, AppFields DEF AppShape, ModeOf
    <3> HIDE DEF M
    <3> QED BY <3>2
  <2>3. CASE key = "Backspace"
    <3>1. SearchKey(a, key) = [a EXCEPT !.filter = less, !.secretIndex = 0]
      BY <2>3 DEF SearchKey
    <3>2. SearchKey(a, key) = M(a.searching, less, 0)
      <4> HIDE DEF less
      <4> QED BY <3>1, AppFields DEF AppShape, ModeOf
    <3> HIDE DEF M
    <3> QED BY <3>2
  <2>4. CASE key = "char"
    <3>1. SearchKey(a, key) = [a EXCEPT !.filter = a.filter + 1, !.secretIndex = 0]
      BY <2>4 DEF SearchKey
    <3>2. SearchKey(a, key) = M(a.searching, a.filter + 1, 0)
      BY <3>1, AppFields DEF AppShape, ModeOf
    <3> HIDE DEF M
    <3> QED BY <3>2
  <2>5. CASE key \notin {"Esc", "Enter", "Backspace", "char"}
    <3>1. SearchKey(a, key) = a
      BY <2>5 DEF SearchKey
    <3> HIDE DEF M
    <3> QED BY <3>1
  <2> QED BY <2>1, <2>2, <2>3, <2>4, <2>5
<1> HIDE DEF M
<1> QED BY <1>1, <1>2, <1>3, SameGood

LEMMA MainGood ==
  ASSUME NEW a, AppOK(a), NEW key
  PROVE  Good(a, MainKey(a, key))
<1>0. /\ a.filter \in Nat /\ a.running \in BOOLEAN /\ a.searching \in BOOLEAN
      /\ a.focus \in {"secrets", "providers"} /\ a \in AppShape(a.values)
  BY AppFields DEF AppShape
<1>1. CASE key = "Esc"
  <2>1. MainKey(a, key) = [a EXCEPT !.running = FALSE]
    BY <1>1 DEF MainKey
  <2>2. MainKey(a, key) = ModeOf(a, FALSE, a.searching, a.filter, a.secretIndex)
    BY <1>0, <2>1 DEF AppShape, ModeOf
  <2> QED BY <1>0, <2>2, ModeGood
<1>2. CASE key = "Tab"
  <2> DEFINE f == IF a.focus = "secrets" THEN "providers" ELSE "secrets"
  <2>1. MainKey(a, key) = [a EXCEPT !.focus = f] /\ f \in {"secrets", "providers"}
    BY <1>2 DEF MainKey
  <2> HIDE DEF f
  <2>2. MainKey(a, key) = Indexed(a, f, a.secretIndex, a.providerIndex, a.picker)
    <3>1. PICK b : b = a /\ b \in AppShape(a.values)
      BY <1>0
    <3>2. [b EXCEPT !.focus = f] = Indexed(b, f, b.secretIndex, b.providerIndex, b.picker)
      BY ONLY <3>1 DEF AppShape, Indexed
    <3> QED BY ONLY <2>1, <3>1, <3>2
  <2>3. a.secretIndex = 0 \/ a.secretIndex < Rows(a)
    BY AppFields DEF IndexOK
  <2>4. a.providerIndex = 0 \/ a.providerIndex < a.providers
    BY AppFields DEF IndexOK
  <2>5. a.secretIndex \in Nat /\ a.providerIndex \in Nat /\ a.picker \in Nat /\ a.picker < Len(Profiles)
    BY <1>0, AppFields DEF AppShape, IndexOK
  <2>6. Good(a, Indexed(a, f, a.secretIndex, a.providerIndex, a.picker))
    BY <2>1, <2>3, <2>4, <2>5, IndexGood
  <2> QED BY ONLY <2>2, <2>6
<1>3. CASE key = "/"
  <2>1. MainKey(a, key) = [a EXCEPT !.searching = TRUE]
    BY <1>3 DEF MainKey
  <2>2. MainKey(a, key) = ModeOf(a, a.running, TRUE, a.filter, a.secretIndex)
    BY <1>0, <2>1 DEF AppShape, ModeOf
  <2> QED BY <1>0, <2>2, ModeGood
<1>4. CASE key \in {"Down", "Up"}
  <2>1. MainKey(a, key) = MoveSelection(a, key = "Down")
    BY <1>4 DEF MainKey
  <2> QED BY <2>1, MoveGood
<1>5. CASE key \in {"g", "G"}
  <2>1. MainKey(a, key) = Jump(a, key = "G")
    BY <1>5 DEF MainKey
  <2> QED BY <2>1, JumpGood
<1>6. CASE key = "?"
  <2>1. MainKey(a, key) = [a EXCEPT !.popup = Popup("help", 0)]
    BY <1>6 DEF MainKey
  <2> QED BY <2>1, OpenGood
<1>7. CASE key = "P"
  <2>1. MainKey(a, key) = OpenPicker(a)
    BY <1>7 DEF MainKey
  <2> QED BY <2>1, OpenPickerGood
<1>8. CASE key = "r"
  <2>1. MainKey(a, key) = SpawnResolve(a)
    BY <1>8 DEF MainKey
  <2> QED BY <2>1, AppFields, SpawnGood
<1>9. CASE key = "c"
  <2>1. MainKey(a, key) = CopySelected(a)
    BY <1>9 DEF MainKey
  <2> QED BY <2>1, CopySelectedGood
<1>10. CASE key \in {"Enter", "d"}
  <2>1. MainKey(a, key) = OpenSelected(a, "detail") \/ MainKey(a, key) = OpenSelected(a, "confirm")
    BY <1>10 DEF MainKey
  <2> QED BY <2>1, OpenSelectedGood
<1>11. CASE key = "e"
  <2>1. MainKey(a, key) = OpenEdit(a) \/ MainKey(a, key) = a
    BY <1>11 DEF MainKey
  <2> QED BY <2>1, OpenEditGood, SameGood
<1>12. CASE key = "s"
  <2>1. MainKey(a, key) = [a EXCEPT !.popup = Popup("set", 0)]
    BY <1>12 DEF MainKey
  <2> QED BY <2>1, OpenGood
<1>13. CASE key \notin {"Esc", "Tab", "/", "Down", "Up", "g", "G", "?", "P", "r", "c", "Enter", "d", "e", "s"}
  <2>1. MainKey(a, key) = a
    BY <1>13 DEF MainKey
  <2> QED BY <2>1, SameGood
<1> QED BY <1>1, <1>2, <1>3, <1>4, <1>5, <1>6, <1>7, <1>8, <1>9, <1>10, <1>11, <1>12, <1>13

LEMMA KeyGood ==
  ASSUME NEW a, AppOK(a), NEW pressed
  PROVE  Good(a, HandleKey(a, pressed))
<1> DEFINE key == Meant(a, pressed)
           kind == a.popup.kind
<1>0. kind \in {"none", "help", "picker", "detail", "confirm", "edit", "set"} /\ a.searching \in BOOLEAN /\ a.error \in BOOLEAN
  BY PopupFields, AppFields
<1> HIDE DEF key
<1>1. CASE kind = "none"
  <2>1. \/ HandleKey(a, pressed) = [a EXCEPT !.error = FALSE]
        \/ HandleKey(a, pressed) = SearchKey(a, key)
        \/ HandleKey(a, pressed) = MainKey(a, key)
    BY <1>1 DEF HandleKey, key
  <2> QED BY <2>1, ErrorGood, SearchGood, MainGood
<1>2. CASE kind = "help"
  <2>1. HandleKey(a, pressed) = Closed(a)
    BY <1>2 DEF HandleKey
  <2> QED BY <2>1, ClosedGood
<1>3. CASE kind = "picker"
  <2>1. HandleKey(a, pressed) = PickerKey(a, key)
    BY <1>3 DEF HandleKey, key
  <2> QED BY <1>3, <2>1, PickerGood
<1>4. CASE kind = "detail"
  <2> DEFINE b == IF key = "c" THEN Copy(a, a.popup.key) ELSE a
  <2>1. HandleKey(a, pressed) = Closed(b)
    BY <1>4 DEF HandleKey, key
  <2>2. Good(a, b) /\ b.id = a.id
    BY CopyGood, SameGood
  <2> HIDE DEF b
  <2>3. AppOK(b)
    BY <2>2 DEF Good
  <2>4. Good(b, Closed(b))
    BY <2>3, ClosedGood
  <2> QED BY <2>1, <2>2, <2>4, GoodAfter
<1>5. CASE kind = "confirm"
  <2>1. HandleKey(a, pressed) = ConfirmDeleteKey(a, key)
    BY <1>5 DEF HandleKey, key
  <2> QED BY <2>1, ConfirmGood
<1>6. CASE kind = "edit"
  <2>1. HandleKey(a, pressed) = EditKey(a, key)
    BY <1>6 DEF HandleKey, key
  <2> QED BY <1>6, <2>1, EditGood
<1>7. CASE kind = "set"
  <2>1. HandleKey(a, pressed) = SetKey(a, key)
    BY <1>7 DEF HandleKey, key
  <2> QED BY <1>7, <2>1, SetKeyGood
<1> QED BY <1>0, <1>1, <1>2, <1>3, <1>4, <1>5, <1>6, <1>7

(* Resolutions that are under way stay so; a new one is the only current one. *)
LEMMA BecomesKeeps ==
  ASSUME ViewInv, NEW a, Good(app, a), Becomes(a)
  PROVE  ViewInv'
<1>0. AppOK(a) /\ Evolves(app, a) /\ app' = a /\ app.id \in Nat /\ a.id \in Nat
  BY AppFields DEF Good, Becomes, ViewInv
<1>1. CASE a.id = app.id
  <2>1. a.profile = app.profile /\ a.loading = app.loading /\ DOMAIN app.values \subseteq DOMAIN a.values
    BY <1>0, <1>1 DEF Evolves
  <2>2. tasks' = tasks
    BY <1>1 DEF Becomes
  <2>3. \A t : IsCurrent(a, t) <=> IsCurrent(app, t)
    BY <1>1 DEF IsCurrent
  <2> DEFINE changed == {k \in DOMAIN a.values : k \notin DOMAIN app.values \/ a.values[k] # app.values[k]}
  <2>4. typed' = IF a.loading THEN typed ELSE [k \in DOMAIN typed \cup changed |-> a.values[k]]
    BY <1>1, <2>1 DEF Becomes
  <2>5. TypedKept'
    <3>1. CASE a.loading
      <4>1. typed' = <<>>
        BY <2>1, <2>4, <3>1 DEF ViewInv, TasksInv
      <4> QED BY <4>1 DEF TypedKept
    <3>2. CASE ~a.loading
      <4>1. DOMAIN typed \subseteq DOMAIN a.values
        BY <2>1 DEF ViewInv, TypedKept
      <4>2. typed' = [k \in DOMAIN typed \cup changed |-> a.values[k]]
        BY <2>4, <3>2
      <4>3. \A k \in DOMAIN typed' : k \in DOMAIN a.values /\ a.values[k] = typed'[k]
        BY <4>1, <4>2
      <4> QED BY <1>0, <4>3 DEF TypedKept
    <3> QED BY <3>1, <3>2
  <2>6. TasksInv'
    <3>1. app'.loading => typed' = <<>>
      BY <1>0, <2>1, <2>4 DEF ViewInv, TasksInv
    <3> QED BY <1>0, <1>1, <2>1, <2>2, <2>3, <3>1 DEF ViewInv, TasksInv
  <2>7. LoadingPending'
    BY <1>0, <2>1, <2>2, <2>3 DEF ViewInv, LoadingPending
  <2> QED BY <1>0, <2>5, <2>6, <2>7 DEF ViewInv
<1>2. CASE a.id # app.id
  <2>1. a.id = app.id + 1 /\ a.loading
    BY <1>0, <1>2 DEF Evolves
  <2>2. tasks' = tasks \cup {Task(a)} /\ typed' = <<>>
    BY <1>2 DEF Becomes
  <2>3. Task(a) \in [id : Nat, profile : Known, keys : SUBSET Nat] /\ Task(a).id = a.id /\ Task(a).profile = a.profile
    <3>1. ToSet(a.secrets) \subseteq Nat
      BY <1>0, AppFields DEF ToSet
    <3> QED BY <1>0, <3>1, AppFields DEF Task
  <2>4. \A t \in tasks : t.id \in Nat /\ t.id <= app.id
    BY DEF ViewInv, TasksInv
  <2>5. \A t \in tasks : t.id <= a.id /\ ~IsCurrent(a, t)
    BY <1>0, <2>1, <2>4 DEF IsCurrent
  <2>6. TypedKept'
    BY <2>2 DEF TypedKept
  <2>7. TasksInv'
    <3>1. tasks' \subseteq [id : Nat, profile : Known, keys : SUBSET Nat]
      BY <2>2, <2>3 DEF ViewInv, TasksInv
    <3>2. \A t \in tasks' : t.id <= a.id /\ (IsCurrent(a, t) => t = Task(a))
      BY <1>0, <2>2, <2>3, <2>5
    <3> QED BY <1>0, <2>1, <2>2, <2>3, <3>1, <3>2 DEF TasksInv
  <2>8. LoadingPending'
    BY <1>0, <2>2, <2>3 DEF LoadingPending, IsCurrent
  <2> QED BY <1>0, <2>6, <2>7, <2>8 DEF ViewInv
<1> QED BY <1>1, <1>2

(* The result of a resolution, taken if it is the current one. *)
LEMMA ResultKeeps ==
  ASSUME ViewInv, NEW t \in tasks, Resolved(t) \/ ResolveFailed(t)
  PROVE  ViewInv'
<1>0. tasks' = tasks \ {t} /\ typed' = typed
  BY DEF Resolved, ResolveFailed
<1>00. t \in [id : Nat, profile : Known, keys : SUBSET Nat]
  BY DEF ViewInv, TasksInv
<1>1. CASE ~IsCurrent(app, t)
  <2>1. app' = app
    BY <1>1 DEF Resolved, ResolveFailed
  <2>2. TasksInv'
    BY <1>0, <2>1 DEF ViewInv, TasksInv
  <2>3. LoadingPending' /\ TypedKept'
    BY <1>0, <1>1, <2>1 DEF ViewInv, LoadingPending, TypedKept
  <2> QED BY <2>1, <2>2, <2>3 DEF ViewInv
<1>2. CASE IsCurrent(app, t)
  <2>1. app.loading /\ t.profile = app.profile /\ typed = <<>>
    BY <1>2 DEF ViewInv, TasksInv
  <2>2. AppOK(app)
    BY DEF ViewInv
  <2>3. AppOK(app') /\ app'.id = app.id /\ app'.loading = FALSE
    <3>1. ASSUME NEW v, NEW e \in BOOLEAN, v \in [DOMAIN v -> Shown(app.profile)],
                 app' = [app EXCEPT !.loading = FALSE, !.values = v, !.error = e]
          PROVE  AppOK(app') /\ app'.id = app.id /\ app'.loading = FALSE
      <4>1. PICK b : b = app'
        OBVIOUS
      <4>2. b \in AppShape(v) /\ b.values = v /\ b.loading = FALSE
        <5>1. PICK a : a = app
          OBVIOUS
        <5>2. a \in AppShape(a.values) /\ b = [a EXCEPT !.loading = FALSE, !.values = v, !.error = e]
          BY <2>2, <3>1, <4>1, <5>1, AppFields
        <5>3. b.values = v /\ b.loading = FALSE
          BY <5>2 DEF AppShape
        <5>4. b \in AppShape(v)
          BY <5>2 DEF AppShape
        <5> QED BY <5>3, <5>4
      <4>3. /\ b.secrets = app.secrets /\ b.providers = app.providers /\ b.profile = app.profile /\ b.id = app.id
            /\ b.secretIndex = app.secretIndex /\ b.filter = app.filter
            /\ b.providerIndex = app.providerIndex /\ b.picker = app.picker /\ b.popup = app.popup
        BY <2>2, <3>1, <4>1, AppFields DEF AppShape
      <4>4. IndexOK(b)
        BY <2>2, <4>3, AppFields DEF IndexOK, Rows, FilteredSecrets
      <4>5. PopupOK(b)
        BY <2>2, <4>3, AppFields DEF PopupOK
      <4>6. AppOK(b)
        BY <3>1, <4>2, <4>3, <4>4, <4>5 DEF AppOK
      <4> QED BY <4>1, <4>2, <4>3, <4>6
    <3>2. CASE Resolved(t)
      <4>1. PICK some \in SUBSET t.keys :
               app' = [app EXCEPT !.loading = FALSE,
                                  !.values = [k \in t.keys |-> IF k \notin some THEN NoValue
                                                ELSE [of |-> t.profile, typed |-> FALSE, text |-> 1]]]
        BY <1>2, <3>2 DEF Resolved
      <4> DEFINE v == [k \in t.keys |-> IF k \notin some THEN NoValue ELSE [of |-> t.profile, typed |-> FALSE, text |-> 1]]
      <4>2. v \in [DOMAIN v -> Shown(app.profile)]
        BY <2>1 DEF Shown
      <4>3. app' = [app EXCEPT !.loading = FALSE, !.values = v]
        BY <4>1
      <4> HIDE DEF v
      <4>4. app' = [app EXCEPT !.loading = FALSE, !.values = v, !.error = app.error]
        BY <2>2, <4>3, AppFields DEF AppShape
      <4>5. app.error \in BOOLEAN
        BY <2>2, AppFields
      <4> QED BY <3>1, <4>2, <4>4, <4>5
    <3>3. CASE ResolveFailed(t)
      <4>1. app' = [app EXCEPT !.error = TRUE, !.loading = FALSE]
        BY <1>2, <3>3 DEF ResolveFailed, FailedLoad
      <4>2. app' = [app EXCEPT !.loading = FALSE, !.values = app.values, !.error = TRUE]
        BY <2>2, <4>1, AppFields DEF AppShape
      <4>3. app.values \in [DOMAIN app.values -> Shown(app.profile)]
        BY <2>2 DEF AppOK
      <4> QED BY <3>1, <4>2, <4>3
    <3> QED BY <3>2, <3>3
  <2>4. \A u \in tasks' : ~IsCurrent(app, u)
    BY <1>0, <1>2 DEF ViewInv, TasksInv
  <2>5. \A u \in tasks' : ~IsCurrent(app', u)
    BY <2>3, <2>4 DEF IsCurrent
  <2>6. TasksInv'
    BY <1>0, <2>3, <2>5 DEF ViewInv, TasksInv
  <2>7. LoadingPending' /\ TypedKept'
    BY <1>0, <2>1, <2>3 DEF LoadingPending, TypedKept
  <2>8. AppOK(app)'
    BY <2>3
  <2> QED BY <2>6, <2>7, <2>8 DEF ViewInv
<1> QED BY <1>1, <1>2

LEMMA ViewKeeps == ViewInv /\ [ViewNext]_viewVars => ViewInv'
<1> SUFFICES ASSUME ViewInv, [ViewNext]_viewVars PROVE ViewInv'
  OBVIOUS
<1>0. AppOK(app)
  BY DEF ViewInv
<1>1. ASSUME NEW key \in Keys, Becomes(HandleKey(app, key)) PROVE ViewInv'
  BY <1>0, <1>1, KeyGood, BecomesKeeps
<1>2. ASSUME NEW area \in {"providers", "secrets"}, NEW row \in 0..2, Becomes(Click(app, area, row)) PROVE ViewInv'
  BY <1>0, <1>2, ClickGood, BecomesKeeps
<1>3. ASSUME NEW down \in BOOLEAN, Becomes(MoveSelection(app, down)) PROVE ViewInv'
  BY <1>0, <1>3, MoveGood, BecomesKeeps
<1>4. ASSUME NEW t \in tasks, Resolved(t) \/ ResolveFailed(t) PROVE ViewInv'
  BY <1>4, ResultKeeps
<1>5. CASE UNCHANGED viewVars
  <2>1. app' = app /\ tasks' = tasks /\ typed' = typed
    BY <1>5 DEF viewVars
  <2> QED BY <2>1 DEF ViewInv, TasksInv, LoadingPending, TypedKept
<1> QED BY <1>1, <1>2, <1>3, <1>4, <1>5 DEF ViewNext

LEMMA ViewStarts == ViewInit \/ ViewIdle => ViewInv
<1>0. /\ \A p \in StartProfiles : p \in Known /\ ProfileSecrets[p] \in Seq(Nat) /\ ProfileProviders[p] \in Nat
      /\ Len(Profiles) > 0 /\ (CHOOSE p \in StartProfiles : TRUE) \in StartProfiles
  BY ViewAssumption DEF Known
<1>1. ASSUME NEW p \in StartProfiles PROVE AppOK(NewApp(p)) /\ NewApp(p).id = 0
  <2> DEFINE a == NewApp(p)
  <2>1. a \in AppShape(a.values) /\ a.values = <<>> /\ a.id = 0
    BY <1>0, NoPopupShape DEF NewApp, AppShape
  <2>2. /\ a.secretIndex = 0 /\ a.providerIndex = 0 /\ a.picker = 0 /\ a.popup = NoPopup
    BY DEF NewApp
  <2> HIDE DEF a
  <2>3. IndexOK(a)
    BY <1>0, <2>2 DEF IndexOK
  <2>4. PopupOK(a)
    BY <2>2 DEF PopupOK, NoPopup
  <2>5. a.values \in [DOMAIN a.values -> Shown(a.profile)]
    BY <2>1
  <2>6. AppOK(a)
    BY <2>1, <2>3, <2>4, <2>5 DEF AppOK
  <2> QED BY <2>1, <2>6 DEF a
<1>2. ASSUME ViewInit PROVE ViewInv
  <2>1. PICK p \in StartProfiles : app = SpawnResolve(NewApp(p))
    BY <1>2 DEF ViewInit
  <2>2. Good(NewApp(p), app)
    BY <1>1, <2>1, AppFields, SpawnGood
  <2>3. AppOK(app) /\ app.id = 1 /\ app.loading
    <3>1. NewApp(p).id = 0
      BY <1>1
    <3>2. app.id = 1 /\ app.loading
      BY <2>1 DEF NewApp, SpawnResolve
    <3> QED BY <2>2, <3>2 DEF Good
  <2>4. tasks = {Task(app)} /\ typed = <<>>
    BY <1>2 DEF ViewInit
  <2>5. Task(app) \in [id : Nat, profile : Known, keys : SUBSET Nat] /\ Task(app).id = app.id /\ Task(app).profile = app.profile
    <3>1. ToSet(app.secrets) \subseteq Nat
      BY <2>3, AppFields DEF ToSet
    <3> QED BY <2>3, <3>1, AppFields DEF Task
  <2>6. TasksInv
    BY <2>3, <2>4, <2>5 DEF TasksInv
  <2>7. LoadingPending /\ TypedKept
    BY <2>4, <2>5 DEF LoadingPending, TypedKept, IsCurrent
  <2> QED BY <2>3, <2>6, <2>7 DEF ViewInv
<1>3. ASSUME ViewIdle PROVE ViewInv
  <2>1. PICK p \in StartProfiles : app = [NewApp(p) EXCEPT !.running = FALSE]
    BY <1>0, <1>3 DEF ViewIdle
  <2>2. AppOK(NewApp(p)) /\ NewApp(p).filter \in Nat
    BY <1>1, AppFields
  <2>3. PICK a : a = NewApp(p)
    OBVIOUS
  <2>4. a \in AppShape(a.values) /\ a.secretIndex = 0 /\ a.filter = 0 /\ a.searching = FALSE
    BY <2>2, <2>3, AppFields DEF NewApp
  <2>5. AppOK(app)
    <3>1. app = ModeOf(a, FALSE, FALSE, 0, 0)
      BY <2>1, <2>3, <2>4 DEF AppShape, ModeOf
    <3>2. Good(a, ModeOf(a, FALSE, FALSE, 0, 0))
      BY <2>2, <2>3, ModeGood
    <3> QED BY <3>1, <3>2 DEF Good
  <2>6. tasks = {} /\ typed = <<>> /\ ~app.loading
    BY <1>3, <2>1 DEF ViewIdle, NewApp
  <2> QED BY <2>5, <2>6 DEF ViewInv, TasksInv, LoadingPending, TypedKept
<1> QED BY <1>2, <1>3

LEMMA ViewInvSound == ViewInv => ViewSound
<1> SUFFICES ASSUME ViewInv PROVE ViewSound
  OBVIOUS
<1>0. AppOK(app)
  BY DEF ViewInv
<1>1. ShownCurrent
  <2>1. app.values \in [DOMAIN app.values -> Shown(app.profile)]
    BY <1>0 DEF AppOK
  <2> QED BY <2>1 DEF ShownCurrent, Shown
<1>2. IndexesValid
  BY <1>0, AppFields DEF IndexesValid, IndexOK, PopupOK
<1> QED BY <1>1, <1>2 DEF ViewSound, ViewInv

(* Whatever keys and clicks come in, and however late resolutions end: the dashboard shows    *)
(* values of the profile it shows, keeps what was typed, points at rows that are there, and   *)
(* waits only for a resolution that is under way.  For any profiles and secrets.              *)
THEOREM ScreenIsSound == Spec => []ViewSound
<1>1. Init => ViewInv
  BY ViewStarts DEF Init
<1>2. ViewInv /\ [Next]_vars => ViewInv'
  BY ViewKeeps DEF Next, vars
<1> QED BY <1>1, <1>2, ViewInvSound, PTL DEF Spec
================================================================================
