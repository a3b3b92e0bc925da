------------------------------ MODULE ExecSession ------------------------------
(***************************************************************************)
(* `fnox exec` (src/commands/exec.rs): the environment and the files of a  *)
(* command, its output through the redactor, and what is left when it      *)
(* ends.  Time passes in windows of two seconds, the timeout of the loop   *)
(* that waits for the threads which copy the output.                       *)
(***************************************************************************)
EXTENDS ChildEnv, Redaction

CONSTANTS ExecInputs,         \* a sequence of inputs of ChildEnv with [replace, redact, streams, mayLack]:
                              \* redact is on for the streams that are no terminals, and
                              \* the secrets in mayLack may have no value
          Streams,            \* stdout and stderr
          Bytes,              \* the characters a command writes
          MaxBytes            \* bound: how many it writes in all

(* What an input is.  Values are data: a value stands for its secret, is in the parent's *)
(* environment under no other name, and is neither a credential nor a path; one of them  *)
(* is the longest.  The marker is no character of a value.                               *)
ASSUME ExecAssumption ==
  /\ MIN_REDACT_LENGTH \in Nat \ {0} /\ MARKER \notin Bytes \cup Whitespace \cup {"lease"}
  /\ \A n \in DOMAIN ExecInputs :
      LET i == ExecInputs[n]
          r == i.roots
      IN  /\ i = [secrets |-> i.secrets, leases |-> i.leases, deps |-> i.deps,
                  defaultDeps |-> i.defaultDeps, scope |-> i.scope, roots |-> r, env |-> i.env,
                  replace |-> i.replace, redact |-> i.redact, streams |-> i.streams,
                  mayLack |-> i.mayLack]
          /\ r = [kind |-> r.kind, keys |-> r.keys, only |-> r.only, except |-> r.except]
          /\ i.scope \in {"exec", "shell"} /\ r.kind \in {"scope", "filter", "keys"}
          /\ r.kind # "filter" => r.only = {} /\ r.except = {}
          /\ i.leases \in Seq(Range(i.leases)) /\ \A l \in Range(i.leases) : l.name # MARKER
          /\ DOMAIN i.secrets # {} => \E k \in DOMAIN i.secrets :
               \A j \in DOMAIN i.secrets : Len(i.secrets[j].value) <= Len(i.secrets[k].value)
          /\ \A k \in DOMAIN i.secrets :
               LET value == i.secrets[k].value
               IN  /\ value \in Seq(Bytes \cup Whitespace)
                   /\ 1 \in DOMAIN value => value[1] \notin {"lease", "path"}
                   /\ \A j \in DOMAIN i.secrets : i.secrets[j].value = value => j = k
                   /\ \A v \in DOMAIN i.env : i.env[v] = value => v = k

VARIABLES exec,               \* the command: its step, plan, environment and files
          copy                \* every stream with the thread that copies it

execVars == <<exec, copy>>

NoCopy == [wrote |-> <<>>, pipe |-> <<>>, open |-> FALSE, held |-> <<>>, out |-> <<>>,
           next |-> <<>>, st |-> "none", moved |-> FALSE, writing |-> FALSE]

ExecInit ==
  /\ exec \in [pc : {"plan"}, in : DOMAIN ExecInputs, env : {<<>>}, files : {{}}, plan : {<<>>},
               sel : {<<>>}, values : {<<>>}, creds : {<<>>}, patterns : {{}}, child : {"none"},
               result : {"none"}, cut : {FALSE}]
  /\ copy = [s \in Streams |-> NoCopy]

ExecIdle == exec = [pc |-> "off", child |-> "none"] /\ copy = [s \in Streams |-> NoCopy]

ei == ExecInputs[exec.in]

ExecFail ==
  exec' = [exec EXCEPT !.pc = "ended", !.files = {}, !.result = "error"] /\ UNCHANGED copy

(* --replace leaves nobody to redact, to remove files or to end leases. *)
ReplaceAllowed(i) ==
  /\ ~i.redact
  /\ i.leases = <<>>
  /\ \A k \in InScope(i) : FilterAllows(i.roots, k) => ~i.secrets[k].file

(* The credentials of the leases that run, in their order: a later one wins.  A lease *)
(* whose prerequisites are missing is skipped. *)
Credentials(i, ran) ==
  [k \in UNION {i.leases[n].produces : n \in ran} |->
     <<"lease", i.leases[Max({n \in ran : k \in i.leases[n].produces})].name>>]

(* Mutant of AfterLeases: the process keeps the variables set for the leases. *)
AfterLeasesKept(env, sel, values) == env @@ values

(* TempEnvGuard: what was set for the leases is removed, not put back. *)
AfterLeases(env, sel, values) ==
  IF sel.leases = {} THEN env ELSE [v \in DOMAIN env \ DOMAIN values |-> env[v]]

(* child_env::plan with the checks before it.  Any of the resolved secrets may have no *)
(* value, a lease may fail, and a lease that lacks a variable is skipped. *)
PlanExec ==
  /\ exec.pc = "plan"
  /\ LET sel == select(ei)
     IN  \/ (ei.replace /\ ~ReplaceAllowed(ei)) /\ ExecFail
         \/ ~sel.ok /\ ExecFail
         \/ /\ sel.ok /\ (ei.replace => ReplaceAllowed(ei))
            /\ \E absent \in SUBSET (resolve_set(ei, sel) \cap ei.mayLack) :
                 LET values == [k \in resolve_set(ei, sel) \ absent |-> ei.secrets[k].value]
                     set == DOMAIN values \cup DOMAIN ei.env
                     ran == {n \in Chosen(ei, sel) : ei.leases[n].consumes \subseteq set \/ ei.leases[n].cached}
                     creds == Credentials(ei, ran)
                     plan == Filtered(ei, assemble(ei, sel, values, creds, ran))
                 IN  \/ ran # {} /\ ExecFail
                     \/ /\ exec' = [exec EXCEPT
                             !.pc = "spawn", !.sel = sel, !.values = values, !.creds = creds,
                             !.plan = plan,
                             !.files = {k \in DOMAIN values : ei.secrets[k].file /\ sel.leases # {}},
                             !.env = AfterLeases(ei.env, sel, values)]
                        /\ UNCHANGED copy

(* A file for each value; its path is the variable's value. *)
FilePaths(files) == [k \in DOMAIN files |-> <<"path", k>>]

(* The files are written, the child's environment is set, and the child starts or, *)
(* with --replace, takes the place of fnox. *)
SpawnExec ==
  /\ exec.pc = "spawn"
  /\ \/ ExecFail
     \/ LET plan == exec.plan
            kept == [v \in DOMAIN exec.env \ plan.remove |-> exec.env[v]]
            env == Over(FilePaths(plan.files), Over(plan.set, kept))
            values == {plan.set[k] : k \in DOMAIN plan.set} \cup {plan.files[k] : k \in DOMAIN plan.files}
            filter == ei.redact /\ Patterns(values) # {}
        IN  /\ exec' = [exec EXCEPT
                 !.pc = IF ei.replace THEN "replaced" ELSE "wait", !.child = "running",
                 !.env = env, !.files = @ \cup DOMAIN plan.files,
                 !.patterns = IF filter THEN Patterns(values) ELSE {}]
            /\ copy' = [s \in Streams |->
                 IF filter /\ s \in ei.streams THEN [NoCopy EXCEPT !.open = TRUE, !.st = "read"]
                 ELSE NoCopy]

--------------------------------------------------------------------------------
(* The command and a process it may leave behind, which keeps the pipe open. *)

Written == {s \in Streams : copy[s].st # "none"}

Writes(s) ==
  /\ exec.child = "running" /\ s \in Written
  /\ MapThenSumSet(LAMBDA t : Len(copy[t].wrote), Streams) < MaxBytes
  /\ \E b \in Bytes :
       copy' = [copy EXCEPT ![s].wrote = Append(@, b), ![s].pipe = Append(@, b)]
  /\ UNCHANGED exec

(* The command ends; each pipe is closed unless a background process has it. *)
ExitChild ==
  /\ exec.child = "running" /\ exec.pc = "wait"
  /\ \E left \in SUBSET Written :
       copy' = [s \in Streams |-> [copy[s] EXCEPT !.open = s \in left]]
  /\ exec' = [exec EXCEPT !.child = "ended", !.pc = "drain"]

(* The background process goes, and the pipe is closed. *)
BackgroundEnds(s) ==
  /\ exec.child = "ended" /\ exec.pc = "drain" /\ copy[s].open
  /\ copy' = [copy EXCEPT ![s].open = FALSE]
  /\ UNCHANGED exec

--------------------------------------------------------------------------------
(* The copying threads: Redactor::copy through ActivityIo. *)

(* A read takes some of what is in the pipe. *)
ReadChunk(s) ==
  /\ copy[s].st = "read" /\ copy[s].pipe # <<>> /\ exec.pc \in {"wait", "drain"}
  /\ \E n \in 1..Len(copy[s].pipe) :
       LET chunk == SubSeq(copy[s].pipe, 1, n)
           pushed == Push(exec.patterns, copy[s].held, chunk)
       IN  copy' = [copy EXCEPT ![s].pipe = SubSeq(@, n + 1, Len(@)), ![s].moved = TRUE,
                                ![s].held = pushed.pending, ![s].next = pushed.out,
                                ![s].st = IF pushed.out = <<>> THEN "read" ELSE "write"]
  /\ UNCHANGED exec

(* The end of the pipe: what was held back goes out last. *)
ReadEnd(s) ==
  /\ copy[s].st = "read" /\ copy[s].pipe = <<>> /\ ~copy[s].open
  /\ exec.pc \in {"wait", "drain"}
  /\ copy' = [copy EXCEPT ![s].next = Finish(exec.patterns, copy[s].held), ![s].held = <<>>,
                          ![s].st = "last"]
  /\ UNCHANGED exec

BeginWrite(s) ==
  /\ copy[s].st \in {"write", "last"} /\ ~copy[s].writing /\ exec.pc \in {"wait", "drain"}
  /\ copy' = [copy EXCEPT ![s].writing = TRUE]
  /\ UNCHANGED exec

(* The write returns.  `writing` is cleared first: here nothing says that the thread *)
(* is busy until `moved` is set.  A write may also fail, or find nobody reading. *)
EndWrite(s) ==
  /\ copy[s].writing /\ copy[s].st \in {"write", "last"} /\ exec.pc \in {"wait", "drain"}
  /\ \/ copy' = [copy EXCEPT ![s].out = @ \o copy[s].next, ![s].next = <<>>,
                             ![s].writing = FALSE,
                             ![s].st = IF @ = "last" THEN "lastMoved" ELSE "moved"]
     \/ \E failure \in {"failed", "broken"} :
          copy' = [copy EXCEPT ![s].writing = FALSE, ![s].moved = TRUE, ![s].st = failure]
  /\ UNCHANGED exec

SetMoved(s) ==
  /\ copy[s].st \in {"moved", "lastMoved"} /\ exec.pc \in {"wait", "drain"}
  /\ copy' = [copy EXCEPT ![s].moved = TRUE, ![s].st = IF @ = "moved" THEN "read" ELSE "done"]
  /\ UNCHANGED exec

(* drain_after_error: after a failed write the thread keeps the child from blocking. *)
DrainAfterError(s) ==
  /\ copy[s].st = "failed" /\ exec.pc \in {"wait", "drain"}
  /\ \/ copy[s].pipe # <<>> /\ copy' = [copy EXCEPT ![s].pipe = <<>>]
     \/ /\ copy[s].pipe = <<>> /\ ~copy[s].open
        /\ copy' = [copy EXCEPT ![s].st = "error"]
  /\ UNCHANGED exec

--------------------------------------------------------------------------------
(* The main thread waits for the copies. *)

Unfinished == {s \in Written : copy[s].st \notin {"done", "error", "broken"}}

(* The thread can go on without anybody else. *)
Ready(s) ==
  \/ copy[s].st = "read" /\ (copy[s].pipe # <<>> \/ ~copy[s].open)
  \/ copy[s].st \in {"write", "last"} /\ ~copy[s].writing
  \/ copy[s].st = "failed" /\ (copy[s].pipe # <<>> \/ ~copy[s].open)

take_busy(s) == copy[s].moved \/ copy[s].writing

(* take_busy swaps the flag. *)
Rest(s) == [copy[s] EXCEPT !.moved = FALSE]

(* Two seconds without a message: every thread that could go on has done so.  An idle *)
(* thread is given up; `cut` records that it was between its two flags. *)
TimeOutDrain ==
  /\ exec.pc = "drain" /\ Unfinished # {}
  /\ \A s \in Unfinished : Ready(s) => copy[s].moved
  /\ IF \E s \in Unfinished : take_busy(s)
     THEN copy' = [s \in Streams |-> Rest(s)] /\ UNCHANGED exec
     ELSE /\ exec' = [exec EXCEPT !.pc = "finish",
                        !.cut = \E s \in Unfinished : copy[s].st \in {"moved", "lastMoved"}]
          /\ UNCHANGED copy

AllCopied ==
  /\ exec.pc = "drain" /\ Unfinished = {}
  /\ exec' = [exec EXCEPT !.pc = "finish"]
  /\ UNCHANGED copy

(* Lost output must not look like success. *)
ResultOf == IF \E s \in Streams : copy[s].st = "error" THEN "error" ELSE "ok"

FinishExec ==
  /\ exec.pc = "finish"
  /\ \E result \in {ResultOf, "status"} :       \* "status": the command itself failed
       exec' = [exec EXCEPT !.pc = "ended", !.files = {}, !.result = result]
  /\ UNCHANGED copy

CopyStep(s) ==
  ReadChunk(s) \/ ReadEnd(s) \/ BeginWrite(s) \/ SetMoved(s) \/ DrainAfterError(s)

ExecNext ==
  \/ PlanExec \/ SpawnExec \/ ExitChild \/ TimeOutDrain \/ AllCopied \/ FinishExec
  \/ \E s \in Streams : Writes(s) \/ BackgroundEnds(s) \/ CopyStep(s) \/ EndWrite(s)

(* The main thread and the copying threads run, time passes, and what reads the output *)
(* goes on reading; the command and a background process do as they like. *)
ExecFair ==
  /\ WF_execVars(TimeOutDrain \/ AllCopied \/ FinishExec)
  /\ \A s \in Streams : WF_execVars(CopyStep(s) \/ EndWrite(s))

--------------------------------------------------------------------------------
(* Properties. *)

ExecOn == exec.pc # "off"

(* The command gets no variable that neither its parent had nor the plan gives it,    *)
(* although secrets were set in fnox's own environment for the leases.  It never has  *)
(* the value of a secret that env = false keeps from it, not even from its parent.    *)
(* One case is left out: a filter that drops the variable of a lease which had taken  *)
(* the place of a secret without a value.                                             *)
ScopeKept ==
  ExecOn /\ exec.child # "none" =>
    /\ DOMAIN exec.env \subseteq DOMAIN ei.env \cup DOMAIN exec.plan.set \cup DOMAIN exec.plan.files
    /\ \A k \in DOMAIN ei.secrets \ InScope(ei) :
      /\ \A v \in DOMAIN exec.env \ {k} : exec.env[v] # ei.secrets[k].value
      /\ k \in DOMAIN exec.env /\ exec.env[k] = ei.secrets[k].value =>
           ei.roots.kind = "filter" /\ k \in DOMAIN exec.creds /\ k \notin DOMAIN exec.values

(* Where a lease that ran gives a variable, the command has its credential and never  *)
(* the long-lived secret of the same name that the lease was made with.               *)
CredentialOnly ==
  ExecOn /\ exec.child # "none" =>
    \A k \in DOMAIN exec.creds \cap DOMAIN exec.env \cap DOMAIN exec.values :
      exec.env[k] = exec.creds[k]

(* Every selected secret and every requested key is in exactly one of the plan's      *)
(* variables, files and missing names, and what a filter excludes is in none.         *)
Accounted ==
  ExecOn /\ exec.pc \in {"spawn", "wait", "replaced"} =>
    LET p == exec.plan
        given == DOMAIN p.set \cup DOMAIN p.files
    IN  /\ exec.sel.roots \cup exec.sel.requested \subseteq given \cup p.missing
        /\ given \cap p.missing = {} /\ DOMAIN p.set \cap DOMAIN p.files = {}
        /\ given \cap p.remove = {}
        /\ ei.roots.kind = "filter" => \A k \in given : FilterAllows(ei.roots, k)

(* What `fnox env --describe` says of a key is what asking for that key does.  It is   *)
(* about the configuration alone, which does not change after the start.              *)
DescribedRight ==
  exec.pc = "plan" => \A k \in DOMAIN ei.secrets \cup Produced(ei) :
    LET ask(scope) == [ei EXCEPT !.scope = scope, !.roots.keys = {k}, !.roots.kind = "keys"]
    IN  /\ describe(ei, k).exec <=> select(ask("exec")).ok
        /\ describe(ei, k).shell <=> select(ask("shell")).ok

(* The files of secrets are there as long as the command runs, and gone when fnox      *)
(* ends; --replace, after which nobody removes files, makes none.                     *)
FilesBracket ==
  ExecOn => /\ exec.child = "running" => DOMAIN exec.plan.files \subseteq exec.files
            /\ exec.pc = "ended" => exec.files = {}
            /\ exec.pc = "replaced" => exec.files = {} /\ exec.creds = <<>>

(* However the output is cut into chunks, what has been passed on of it is what the   *)
(* redaction of all of it begins with, and no value, trimmed, is in it.               *)
StreamAgrees ==
  ExecOn => \A s \in Written :
    LET whole == redact_all(exec.patterns, copy[s].wrote)
        out == copy[s].out
    IN  /\ out = SubSeq(whole, 1, Len(out))
        /\ copy[s].st \notin {"failed", "broken", "error"} /\ copy[s].pipe = <<>> /\ copy[s].held = <<>> =>
             out \o copy[s].next = whole
        /\ \A p \in exec.patterns : ~Occurs(out, p)

(* Everything the command wrote is passed on before fnox reports success, unless      *)
(* nobody reads it.  Three cases are left out: what was held back as a possible       *)
(* beginning of a value, and a write that failed, while a background process keeps    *)
(* the pipe open; and the instant between the two flags of a write.                   *)
OutputKept ==
  ExecOn /\ exec.pc = "ended" /\ exec.result = "ok" /\ ~exec.cut =>
    \A s \in Written :
      \/ copy[s].out = redact_all(exec.patterns, copy[s].wrote)
      \/ copy[s].st = "broken"
      \/ copy[s].open /\ \/ copy[s].st = "failed"
                         \/ copy[s].pipe = <<>> /\ copy[s].next = <<>> /\ copy[s].held # <<>>

(* Once the command is gone fnox ends too, even when a background process keeps the   *)
(* pipe open for ever.                                                                *)
ExecEnds == (ExecOn /\ exec.pc = "drain") ~> (exec.pc = "ended")

\* The environment of a command has what the selection gives it, and nothing that was only
\* there to make it.
EnvironmentRight == ScopeKept /\ CredentialOnly /\ Accounted /\ DescribedRight

\* The output that is passed on is all of it, with every value redacted.
OutputRight == StreamAgrees /\ OutputKept
================================================================================
