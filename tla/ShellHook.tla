------------------------------- MODULE ShellHook -------------------------------
(***************************************************************************)
(* Shell integration (src/commands/hook_env.rs, src/hook_env.rs,           *)
(* src/shell/): before every prompt `fnox hook-env` compares the session   *)
(* in __FNOX_SESSION with the directory, the config files and the FNOX_    *)
(* variables, and when something differs loads the secrets again and tells *)
(* the shell which variables to set and to unset.                          *)
(*                                                                         *)
(* A config file has a modification time, 0 when it is missing, that is    *)
(* new after every edit; what it configures depends on it.  Which files    *)
(* are found and what they give also depends on the FNOX_ variables, such  *)
(* as FNOX_PROFILE: 0 and 1 are two settings of them.  A variable holds    *)
(* [file, n]: the value's version, or the number of a file.                *)
(***************************************************************************)
EXTENDS Naturals, FiniteSets, TLC

CONSTANTS Dirs,               \* directories the user is in
          Visible,            \* the config files found from each with FNOX_ variables
          Configured,         \* the secrets of a config file at a modification time with these
          HookSecrets,        \* a function to [mode, file]
          MaxEdits,           \* bound: edits of one config file
          MaxEvents,          \* bound: other changes, of the user or at a provider
          MaxLeft,            \* bound: files that could not be removed
          FileIds,            \* names of files
          NoSession           \* __FNOX_SESSION is not set

VARIABLES shell,              \* directory, variables and session of the shell
          hook,               \* the running hook-env
          world               \* config files, FNOX_ variables, values, hook files; history:
                              \* left, the files that could not be removed, and gone, the
                              \* session's files that a failed deactivate did remove

hookVars == <<shell, hook, world>>

ConfigFiles == UNION {Visible[d][v] : d \in Dirs, v \in {0, 1}}

FileSecrets == {k \in DOMAIN HookSecrets : HookSecrets[k].file}

(* The variables of a shell, and the names of files for some of them. *)
HookValues == UNION {[K -> [file : BOOLEAN, n : Nat \cup FileIds]] : K \in SUBSET DOMAIN HookSecrets}
HookNames == UNION {[K -> FileIds] : K \in SUBSET FileSecrets}

(* struct HookEnvSession; history: whether a config changed while it was loaded. *)
HookSession ==
  [configs : SUBSET (ConfigFiles \X (1..MaxEdits)), fnoxVars : {0, 1}, hashes : HookValues,
   temp : HookNames, retry : BOOLEAN, raced : BOOLEAN]

(* Config files give secrets, and there is always a name for one more set of files. *)
ASSUME HookAssumption ==
  /\ Dirs # {} /\ MaxEdits \in Nat \ {0} /\ MaxLeft \in Nat /\ NoSession \notin HookSession
  /\ \A f \in ConfigFiles, m \in 1..MaxEdits, v \in {0, 1} :
       Configured[f][m][v] \subseteq DOMAIN HookSecrets
  /\ \A old, new \in SUBSET FileSecrets : \A used \in [old -> FileIds], left \in SUBSET FileIds :
       Cardinality(left) <= MaxLeft =>
         \E o \in [new -> FileIds \ ({used[k] : k \in old} \cup left)] :
           \A j, k \in new : o[j] = o[k] => j = k

NoHook == [st |-> "prompt", loaded |-> <<>>, temp |-> <<>>, retry |-> FALSE, basis |-> <<>>,
           changed |-> FALSE]

HookInit ==
  /\ shell = [on |-> TRUE, dir |-> CHOOSE d \in Dirs : TRUE, vars |-> <<>>, session |-> NoSession]
  /\ hook = NoHook
  /\ world \in [mtime : [ConfigFiles -> {0, 1}], fnoxVars : {0}, files : {{}}, left : {{}},
                gone : {{}}, now : {[k \in DOMAIN HookSecrets |-> 1]}, events : {0}]

HookIdle ==
  /\ shell = [on |-> FALSE, dir |-> CHOOSE d \in Dirs : TRUE, vars |-> <<>>, session |-> NoSession]
  /\ hook = [NoHook EXCEPT !.st = "off"]
  /\ world = [mtime |-> [f \in ConfigFiles |-> 0], fnoxVars |-> 0, files |-> {}, left |-> {},
              gone |-> {}, now |-> [k \in DOMAIN HookSecrets |-> 1], events |-> 0]

--------------------------------------------------------------------------------

(* The config files that are there, by the names the profile gives them. *)
ConfigsHere == {f \in Visible[shell.dir][world.fnoxVars] : world.mtime[f] > 0}

(* collect_config_files and hash_config_files. *)
collect_config_files == {<<f, world.mtime[f]>> : f \in ConfigsHere}

(* With no session the code compares an empty hash: it loads when there is a config, or *)
(* when the hash of the FNOX_ variables, which is not empty, differs: always. *)
should_exit_early ==
  /\ shell.session # NoSession
  /\ ~shell.session.retry
  /\ shell.session.configs = collect_config_files
  /\ shell.session.fnoxVars = world.fnoxVars

(* The prompt: hook-env ends at once or starts to load. *)
BeginHook ==
  /\ hook.st = "prompt" /\ shell.on
  /\ hook' = [hook EXCEPT !.st = IF should_exit_early THEN "done" ELSE "load", !.changed = FALSE]
  /\ UNCHANGED <<shell, world>>

(* find_config and Config::load_smart: what is configured here, as far as shells get it. *)
InShell ==
  {k \in UNION {Configured[f][world.mtime[f]][world.fnoxVars] : f \in ConfigsHere} :
     HookSecrets[k].mode = "all"}

(* A new file has a name that nothing uses. *)
UsedIds == world.files \cup {shell.vars[k].n : k \in {j \in DOMAIN shell.vars : shell.vars[j].file}}

(* load_secrets_from_config: the values, with a new file for each file secret.  Those in *)
(* absent have no value or no file. *)
LoadSome(absent) ==
  LET keys == InShell \ absent
      inFiles == {k \in keys : HookSecrets[k].file}
      temp == CHOOSE o \in [inFiles -> FileIds \ UsedIds] :
                \A j, k \in inFiles : o[j] = o[k] => j = k
      loaded == [k \in keys |-> IF k \in inFiles THEN [file |-> TRUE, n |-> temp[k]]
                                ELSE [file |-> FALSE, n |-> world.now[k]]]
  IN  /\ hook' = [hook EXCEPT !.st = "record", !.loaded = loaded,
                    !.temp = temp, !.retry = absent # {},
                    !.basis = <<collect_config_files, world.fnoxVars>>]
      /\ world' = [world EXCEPT !.files = @ \cup {temp[k] : k \in inFiles}]
      /\ UNCHANGED shell

LoadSecrets == hook.st = "load" /\ \E absent \in SUBSET InShell : LoadSome(absent)

LoadAll == hook.st = "load" /\ LoadSome({})

(* The config cannot be read, or the batch fails: no secrets, and another try. *)
LoadFails ==
  /\ hook.st = "load" /\ collect_config_files # {}
  /\ hook' = [hook EXCEPT !.st = "record", !.loaded = <<>>, !.temp = <<>>, !.retry = TRUE,
                          !.basis = <<collect_config_files, world.fnoxVars>>]
  /\ UNCHANGED <<shell, world>>

(* The files of the last session that this one does not use. *)
cleanup_old_temp_files(old, new) ==
  {old[k] : k \in {j \in DOMAIN old : j \notin DOMAIN new \/ new[j] # old[j]}}

(* Mutant of Added: only new names are told to the shell. *)
AddedNames(old, new) == DOMAIN new \ DOMAIN old

(* calculate_changes by the hashes of the values. *)
Added(old, new) == {k \in DOMAIN new : k \notin DOMAIN old \/ old[k] # new[k]}

Removed(old, new) == DOMAIN old \ DOMAIN new

(* The rest of hook-env, and the shell evaluates its output.  The session records the *)
(* config files as they are now, not as they were when they were read.  An old file   *)
(* that cannot be removed is left, with a message for the log.                        *)
RecordSession ==
  /\ hook.st = "record"
  /\ LET old == IF shell.session = NoSession THEN [hashes |-> <<>>, temp |-> <<>>]
                ELSE [hashes |-> shell.session.hashes, temp |-> shell.session.temp]
         added == Added(old.hashes, hook.loaded)
         kept == DOMAIN shell.vars \ Removed(old.hashes, hook.loaded)
         unused == cleanup_old_temp_files(old.temp, hook.temp)
     IN  /\ \E stuck \in SUBSET (unused \cap world.files) :
              /\ Cardinality(world.left \cup stuck) <= MaxLeft
              /\ world' = [world EXCEPT !.files = @ \ (unused \ stuck), !.left = @ \cup stuck,
                                        !.gone = {}]
         /\ shell' = [shell EXCEPT
              !.vars = [k \in added \cup kept |-> IF k \in added THEN hook.loaded[k] ELSE @[k]],
              !.session = [configs |-> collect_config_files, fnoxVars |-> world.fnoxVars,
                           hashes |-> hook.loaded, temp |-> hook.temp, retry |-> hook.retry,
                           raced |-> hook.basis[1] # collect_config_files]]
  /\ hook' = [hook EXCEPT !.st = "done"]

OwnFiles == {shell.session.temp[k] : k \in DOMAIN shell.session.temp}

(* deactivate: the files, the variables, then the session. *)
Deactivate ==
  /\ hook.st = "prompt" /\ shell.on /\ shell.session # NoSession
  /\ world' = [world EXCEPT !.files = @ \ OwnFiles, !.gone = {}]
  /\ shell' = [shell EXCEPT !.on = FALSE, !.session = NoSession,
                 !.vars = [k \in DOMAIN @ \ DOMAIN shell.session.hashes |-> @[k]]]
  /\ UNCHANGED hook

(* cleanup_session_temp_files fails: it has removed the files that it could, and the shell *)
(* stays as it is, to be deactivated once more.                                            *)
DeactivateFails ==
  /\ hook.st = "prompt" /\ shell.on /\ shell.session # NoSession
  /\ \E stuck \in SUBSET (OwnFiles \cap world.files) \ {{}} :
       world' = [world EXCEPT !.files = @ \ (OwnFiles \ stuck), !.gone = OwnFiles \ stuck]
  /\ UNCHANGED <<shell, hook>>

(* activate: the shell's prompt calls the hook. *)
Activate ==
  /\ hook.st = "prompt" /\ ~shell.on
  /\ shell' = [shell EXCEPT !.on = TRUE]
  /\ UNCHANGED <<hook, world>>

--------------------------------------------------------------------------------
(* The user works in the shell; config files and values change at any time. *)

Prompt ==
  /\ hook.st = "done"
  /\ hook' = [NoHook EXCEPT !.st = "prompt"]
  /\ UNCHANGED <<shell, world>>

UserActs ==
  /\ hook.st = "prompt" /\ world.events < MaxEvents
  /\ \/ \E d \in Dirs \ {shell.dir} :
          shell' = [shell EXCEPT !.dir = d] /\ world' = [world EXCEPT !.events = @ + 1]
     \/ world' = [world EXCEPT !.fnoxVars = 1 - @, !.events = @ + 1] /\ UNCHANGED shell
  /\ UNCHANGED hook

ConfigEdited ==
  /\ hook.st # "off"
  /\ \E f \in ConfigFiles : \E m \in {0, world.mtime[f] + 1} :
       /\ m <= MaxEdits /\ m # world.mtime[f] /\ world.events < MaxEvents
       /\ world' = [world EXCEPT !.mtime[f] = m, !.events = @ + 1]
  /\ hook' = [hook EXCEPT !.changed = TRUE]
  /\ UNCHANGED shell

ValueChanged ==
  /\ hook.st # "off" /\ world.events < MaxEvents
  /\ \E k \in DOMAIN HookSecrets :
       world' = [world EXCEPT !.now[k] = @ + 1, !.events = @ + 1]
  /\ UNCHANGED <<shell, hook>>

HookNext ==
  \/ BeginHook \/ LoadSecrets \/ LoadFails \/ RecordSession \/ Deactivate
  \/ DeactivateFails \/ Activate
  \/ Prompt \/ UserActs \/ ConfigEdited \/ ValueChanged

(* The user keeps coming back to the prompt, and a provider that is asked again and *)
(* again answers at last. *)
HookFair ==
  /\ WF_hookVars(BeginHook \/ LoadSecrets \/ LoadFails \/ RecordSession \/ Prompt \/ Activate)
  /\ SF_hookVars(LoadAll)

--------------------------------------------------------------------------------
(* Properties. *)

(* At the prompt the shell has exactly the variables that the config files visible    *)
(* from its directory give a shell, unless a load failed, and none of another         *)
(* directory.  A session whose config files changed while they were loaded is left    *)
(* out: the code records their new times with the old contents.                       *)
HookFresh ==
  hook.st = "done" /\ ~hook.changed /\ shell.session # NoSession =>
    (~shell.session.raced =>
       /\ DOMAIN shell.vars \subseteq InShell
       /\ ~shell.session.retry => DOMAIN shell.vars = InShell
       /\ shell.vars = shell.session.hashes)

(* Every file variable of the shell names a file that exists, and every file of the   *)
(* hook belongs to the session, so that leaving the directory or deactivating removes *)
(* it.  Left out are old files that could not be removed, and the files that a        *)
(* deactivate has removed which failed for another file.                              *)
HookFiles ==
  hook.st \in {"prompt", "done", "load"} =>
    LET named == {shell.vars[k].n : k \in {j \in DOMAIN shell.vars : shell.vars[j].file}}
    IN  world.files = (named \ world.gone) \cup world.left

(* After a failed load every prompt tries again, until the variables are there. *)
HookRetries ==
  (shell.session # NoSession /\ shell.session.retry) ~>
    (shell.session = NoSession \/ ~shell.session.retry)
================================================================================
