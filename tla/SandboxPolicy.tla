----------------------------- MODULE SandboxPolicy -----------------------------
(***************************************************************************)
(* The sandbox of `fnox proxy run` (src/sandbox.rs): which paths are       *)
(* hidden, writable or read-only, and the mounts or seatbelt rules that    *)
(* are made of them.  A path is a sequence of names; a world w describes   *)
(* the machine:                                                            *)
(*   cwd, home       the working directory and the home directory          *)
(*   dirs, plain     the directories and the files that exist              *)
(*   links           symbolic links, a function from paths to paths        *)
(*   fnoxDirs, fnoxFiles, keyFiles, environment                            *)
(*                   what from_environment finds                           *)
(*   literalKeys     no provider names its key file by a secret reference  *)
(*   allowRead, denyRead, allowWrite                                       *)
(*                   the sandbox_* settings, as sequences of names         *)
(***************************************************************************)
EXTENDS Naturals, Sequences, FiniteSets

CONSTANTS FileNames,          \* names of files and directories
          CREDENTIAL_PATHS    \* relative to the home directory

Path == Seq(FileNames)

ASSUME SandboxAssumption ==
  {"tmp", "var", "run", "git", "hooks", "config"} \subseteq FileNames /\ CREDENTIAL_PATHS \subseteq Path

Under(p, q) == Len(q) <= Len(p) /\ SubSeq(p, 1, Len(q)) = q

UnderAny(p, qs) == \E q \in qs : Under(p, q)

Settings(w) == w.allowRead \cup w.denyRead \cup w.allowWrite

(* A machine: what exists is in directories that exist, and links are resolved: a link *)
(* leads to no other, and what it leads to has none in it. *)
Machine(w) ==
  /\ {"dirs", "plain", "links", "linux"} \subseteq DOMAIN w
  /\ {w.cwd, w.home} \cup w.dirs \cup w.plain \cup w.fnoxDirs \cup w.fnoxFiles \cup w.keyFiles
       \cup w.environment \cup {e.path : e \in Settings(w)} \subseteq Path
  /\ \A p \in w.dirs \cup w.plain : \A n \in 0..Len(p) - 1 : SubSeq(p, 1, n) \in w.dirs
  /\ w.links \in [DOMAIN w.links -> Path] /\ DOMAIN w.links \subseteq Path
  /\ \A l, m \in DOMAIN w.links : ~Under(w.links[l], m) /\ ~Under(m, w.links[l])

(* A link in the path is followed, also when what it leads to is missing. *)
canonicalize_lossy(w, p) ==
  LET linked == {l \in DOMAIN w.links : Under(p, l)}
  IN  IF linked = {} THEN p
      ELSE LET l == CHOOSE l \in linked : TRUE
           IN  w.links[l] \o SubSeq(p, Len(l) + 1, Len(p))

Exists(w, p) == canonicalize_lossy(w, p) \in w.dirs \cup w.plain

(* A setting: relative to the working directory unless it is [home |-> TRUE]; *)
(* canonical only when it exists. *)
expand(w, e) ==
  LET p == IF e.home THEN w.home \o e.path ELSE IF e.abs THEN e.path ELSE w.cwd \o e.path
  IN  IF Exists(w, p) THEN canonicalize_lossy(w, p) ELSE p

from_environment(w) ==
  w.fnoxDirs \cup w.fnoxFiles \cup w.keyFiles \cup w.environment
    \cup {w.home \o p : p \in CREDENTIAL_PATHS} \cup {expand(w, e) : e \in w.denyRead}

(* Mutant of CoveredBy: a path covers itself. *)
CoveredBySelf(p, all) == \E q \in all : Under(p, q)

(* A hidden path inside another hidden path needs no mount of its own. *)
CoveredBy(p, all) == \E q \in all : q # p /\ Under(p, q)

(* SandboxPolicy::build. *)
build(w) ==
  LET writable == {p \in {w.cwd} \cup {expand(w, e) : e \in w.allowWrite} : Exists(w, p)}
      candidates == {canonicalize_lossy(w, p) : p \in from_environment(w)}
      allowed == {p \in candidates : UnderAny(p, {expand(w, e) : e \in w.allowRead})}
      hidden == {p \in candidates \ allowed : Exists(w, p) \/ UnderAny(p, writable)}
      git == IF canonicalize_lossy(w, w.cwd \o <<"git">>) \in w.dirs
             THEN {w.cwd \o <<"git", "hooks">>, w.cwd \o <<"git", "config">>} ELSE {}
  IN  [writable |-> writable,
       hide |-> {p \in hidden : ~CoveredBy(p, hidden)},
       readOnly |-> {p \in allowed : UnderAny(p, writable)} \cup git]

(* The first missing ancestor: bwrap cannot mount below a missing directory. *)
mask_target(w, p) ==
  LET missing == {n \in 1..Len(p) : ~Exists(w, SubSeq(p, 1, n))}
  IN  IF missing = {} THEN p
      ELSE SubSeq(p, 1, CHOOSE n \in missing : \A m \in missing : n <= m)

hidden_by_tmpfs(pol, p) ==
  UnderAny(p, {<<"tmp">>, <<"run">>}) /\ ~UnderAny(p, pol.writable \cup pol.readOnly)

(* The mount points that bwrap makes and that do not exist yet. *)
pending_mount_points(w, pol) ==
  {mask_target(w, p) : p \in {q \in pol.hide \cup pol.readOnly : ~Exists(w, q)}}

Mount(kind, targets) == {[kind |-> kind, at |-> p] : p \in targets}

(* bwrap_args: the mounts, one set after the other; a later one covers an earlier one. *)
bwrap_args(w, pol) ==
  << Mount("ro", {<<>>}),
     Mount("tmpfs", {<<"tmp">>, <<"run">>}),
     Mount("rw", pol.writable),
     Mount("ro", {p \in pol.readOnly : Exists(w, p)})
       \cup Mount("null", {mask_target(w, p) : p \in {q \in pol.readOnly : ~Exists(w, q)}}),
     LET shown == {p \in pol.hide : ~hidden_by_tmpfs(pol, p)}
     IN  Mount("null", {mask_target(w, p) : p \in {q \in shown : ~Exists(w, q)}})
           \cup Mount("tmpfs", {p \in shown : p \in w.dirs})
           \cup Mount("null", {p \in shown : p \in w.plain}) >>

(* What the child finds at the canonical path p: the last mount that covers it. *)
BwrapView(w, pol, p) ==
  LET args == bwrap_args(w, pol)
      covers(i) == {m \in args[i] : Under(p, m.at)}
      last == CHOOSE i \in DOMAIN args :
                covers(i) # {} /\ \A j \in DOMAIN args : j > i => covers(j) = {}
      deepest == CHOOSE m \in covers(last) : \A n \in covers(last) : Len(n.at) <= Len(m.at)
  IN  deepest.kind

(* /private/tmp and /private/var/folders. *)
MacTemp == {<<"tmp">>, <<"var">>}

(* seatbelt_profile: the rules for macOS, where the last rule that fits decides.  Writing *)
(* to some devices is allowed too; none of them is a path of the model.                   *)
SeatbeltView(w, pol, p) ==
  IF \E h \in pol.hide : IF h \in w.dirs THEN Under(p, h) ELSE p = h THEN "null"
  ELSE IF UnderAny(p, pol.readOnly) THEN "ro"
  ELSE IF UnderAny(p, pol.writable \cup MacTemp) THEN "rw"
  ELSE "ro"

View(w, pol, p) ==
  IF w.linux THEN BwrapView(w, pol, p) ELSE SeatbeltView(w, pol, p)
================================================================================
