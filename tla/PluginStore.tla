----------------------------- MODULE PluginStore -----------------------------
(***************************************************************************)
(* The directory of one Lua plugin (plugins.rs), which several fnox        *)
(* processes install, link, update, remove and use at the same time.  What *)
(* is in place is nothing, a link, or a checkout with the URL of its       *)
(* remote, the source whose code it holds and the source its record names. *)
(* git, renames and writes may fail; a process may be killed at any step.  *)
(***************************************************************************)
EXTENDS Naturals

CONSTANTS
    PluginUser,    \* processes
    Url, Ref,      \* Git remotes, and the refs a source may name
    HasEntry,      \* the sources whose revision has a provider.lua
    PluginPlans,   \* sets of requests that overlap: [PluginUser -> Request]
    PluginKills,   \* bound: how many processes are killed
    Link, Nothing

Source == [url : Url, ref : Ref \union {Nothing}]
Request == [op : {"use", "install", "update", "link", "uninstall"},
            source : Source \union {Nothing}, force : BOOLEAN]
Tree == [url : Url, code : Source, fetched : Source \union {Nothing}, entry : BOOLEAN,
         record : Source \union {Nothing}, torn : BOOLEAN]

ASSUME PluginAssumption ==
    /\ PluginPlans \subseteq [PluginUser -> Request]
    /\ HasEntry \subseteq Source
    /\ PluginKills \in Nat
    /\ Link # Nothing /\ {Link, Nothing} \cap (Source \union Tree) = {}

VARIABLES
    place,   \* what is in the plugin's directory
    temp,    \* temp[p]: what p's temporary directory holds, [fresh, previous]
    user,    \* user[p]: the request of process p and how far it is; `had`: what it replaces worked, or a
             \* use found the plugin in place
    kills

pluginVars == <<place, temp, user, kills>>

NoTemp == [fresh |-> Nothing, previous |-> Nothing]

IsTree == place \notin {Nothing, Link}
Works(d) == IF d = Nothing THEN FALSE ELSE IF d = Link THEN TRUE ELSE d.entry

Starting(r) == [req |-> r, step |-> "begin", had |-> FALSE, before |-> Nothing, ran |-> Nothing]

PluginInit ==
    /\ place = Nothing
    /\ temp = [p \in PluginUser |-> NoTemp]
    /\ user \in {[p \in PluginUser |-> Starting(g[p])] : g \in PluginPlans}
    /\ kills = 0

PluginIdle ==
    /\ place = Nothing /\ kills = 0
    /\ temp = [p \in PluginUser |-> NoTemp]
    /\ user = [p \in PluginUser |-> [Starting([op |-> "use", source |-> Nothing, force |-> FALSE]) EXCEPT !.step = "done"]]

----------------------------------------------------------------------------

\* An end: done, also where the record was not written ("unrecorded"); failed, also where what
\* worked could not be put back ("unrestored"); killed.
Over == {"done", "unrecorded", "failed", "unrestored", "killed"}
PluginAt(p, s) == user[p].step = s
Forward(p, s) == user' = [user EXCEPT ![p].step = s]

\* A process that returns drops its temporary directory and all it holds.
Leave(p, how) ==
    /\ Forward(p, how)
    /\ temp' = [temp EXCEPT ![p] = NoTemp]

\* A use returns to its caller (LuaProvider::load), which then reads the plugin's entry file.
Installed(p) == Leave(p, IF user[p].req.op = "use" THEN "load" ELSE "done")

\* An installed name is refused unless the request forces it.
MayReplace(p) == place = Nothing \/ user[p].req.force

StartInstall(p) ==
    IF MayReplace(p) THEN Forward(p, "clone") /\ UNCHANGED temp ELSE Leave(p, "failed")

\* A plugin installed from another source is refused; a link overrides any declaration.
AsDeclared(p) ==
    \/ user[p].req.source = Nothing
    \/ place = Link
    \/ place.record = user[p].req.source

\* ensure_installed
EnsureInstalled(p) ==
    IF place # Nothing
    THEN IF AsDeclared(p)
         THEN user' = [user EXCEPT ![p].step = "load", ![p].had = TRUE] /\ UNCHANGED temp
         ELSE Leave(p, "failed")
    ELSE IF user[p].req.source = Nothing THEN Leave(p, "failed") ELSE StartInstall(p)

\* uninstall
Uninstall(p) ==
    CASE place = Nothing -> Leave(p, "failed") /\ UNCHANGED place
      [] place = Link -> Leave(p, "done") /\ place' = Nothing
      [] OTHER -> Forward(p, "remove") /\ UNCHANGED <<place, temp>>

\* update remembers the current state so that it can restore it.
StartUpdate(p) ==
    CASE place = Nothing -> Leave(p, "failed")
      [] place = Link -> Leave(p, "done")
      [] OTHER -> /\ user' = [user EXCEPT ![p].step = "set_url", ![p].before = place]
                  /\ UNCHANGED temp

BeginPlugin(p) ==
    /\ PluginAt(p, "begin")
    /\ UNCHANGED kills
    /\ LET op == user[p].req.op IN
        \/ op = "uninstall" /\ Uninstall(p)
        \/ /\ op # "uninstall" /\ UNCHANGED place
           /\ \/ op = "use" /\ EnsureInstalled(p)
              \/ op = "install" /\ StartInstall(p)
              \/ op = "update" /\ StartUpdate(p)
              \/ op = "link" /\ IF MayReplace(p) THEN Forward(p, "aside") /\ UNCHANGED temp ELSE Leave(p, "failed")

----------------------------------------------------------------------------
(* Installing and linking.  The clone is made next to the directory and moved *)
(* into it once it is complete.                                               *)

Cloned(s, record) ==
    [url |-> s.url, code |-> s, fetched |-> Nothing, entry |-> TRUE, record |-> record, torn |-> FALSE]

CloneInPlace(p) ==
    /\ PluginAt(p, "clone")
    /\ LET s == user[p].req.source IN
        \/ Leave(p, "failed") /\ UNCHANGED place
        \/ /\ place' = [Cloned(s, s) EXCEPT !.entry = s \in HasEntry]
           /\ temp' = [temp EXCEPT ![p].fresh = Cloned(s, s)]
           /\ Forward(p, "aside")
    /\ UNCHANGED kills

\* The clone and the checkout of the source's ref fail, or give its revision, which must have
\* an entry file.  Failing to write the record is only warned of.
Clone(p) ==
    /\ PluginAt(p, "clone")
    /\ LET s == user[p].req.source IN
        \/ Leave(p, "failed")
        \/ \E record \in {s, Nothing} :
            /\ s \in HasEntry
            /\ temp' = [temp EXCEPT ![p].fresh = Cloned(s, record)]
            /\ Forward(p, "aside")
    /\ UNCHANGED <<place, kills>>

\* A forced request moves what is in place aside.
MoveAside(p) ==
    /\ PluginAt(p, "aside")
    /\ IF user[p].req.force /\ place # Nothing
       THEN \/ Leave(p, "failed") /\ UNCHANGED place
            \/ /\ temp' = [temp EXCEPT ![p].previous = place]
               /\ place' = Nothing
               /\ user' = [user EXCEPT ![p].step = "put", ![p].had = Works(place)]
       ELSE UNCHANGED <<place, temp>> /\ Forward(p, "put")
    /\ UNCHANGED kills

NothingRestored(p) == place

\* A failed request puts back what it moved aside, if nothing took its place.
Restored(p) ==
    IF temp[p].previous # Nothing /\ place = Nothing THEN temp[p].previous ELSE place

AlreadyThere(p) == ~user[p].req.force /\ Works(place)

\* The rename or the symlink into place fails if something is there, or for a reason of its own.
\* An install that is not forced settles for what another process has put there.  That what was
\* moved aside cannot be put back is only warned of, and the temporary directory goes with it.
PutInPlace(p) ==
    /\ PluginAt(p, "put")
    /\ \/ /\ place = Nothing
          /\ place' = IF user[p].req.op = "link" THEN Link ELSE temp[p].fresh
          /\ Installed(p)
       \/ IF user[p].req.op # "link" /\ AlreadyThere(p)
          THEN Installed(p) /\ UNCHANGED place
          ELSE \/ Leave(p, "failed") /\ place' = Restored(p)
               \/ /\ Restored(p) # place
                  /\ Leave(p, "unrestored") /\ UNCHANGED place
    /\ UNCHANGED kills

----------------------------------------------------------------------------
(* Updating works in the directory itself.  A failure of any step restores    *)
(* the remote's URL and the commit.                                           *)

\* The source an update checks out: the declared one, or the remote's default branch.
Wanted(p) ==
    IF user[p].req.source # Nothing THEN user[p].req.source
    ELSE [url |-> place.url, ref |-> Nothing]

Holds(d, s) == [d EXCEPT !.code = s, !.entry = s \in HasEntry]

SetUrl(p) ==
    /\ PluginAt(p, "set_url") /\ IsTree
    /\ place' = [place EXCEPT !.url = Wanted(p).url]
    /\ Forward(p, "fetch")

Fetch(p) ==
    /\ PluginAt(p, "fetch") /\ IsTree
    /\ place' = [place EXCEPT !.fetched = [url |-> place.url, ref |-> Wanted(p).ref]]
    /\ Forward(p, "checkout")

Checkout(p) ==
    /\ PluginAt(p, "checkout") /\ IsTree /\ place.fetched # Nothing
    /\ place' = Holds(place, place.fetched)
    /\ Forward(p, "record")

\* The new revision must have an entry file; then its source is recorded.  The update succeeds
\* as well when that fails: the record is the old one, or cut short and no source's.
Record(p) ==
    /\ PluginAt(p, "record") /\ IsTree
    /\ place.entry
    /\ \/ place' = [place EXCEPT !.record = Wanted(p)] /\ Forward(p, "done")
       \/ \E left \in {place.record, Nothing} :
            place' = [place EXCEPT !.record = left] /\ Forward(p, "unrecorded")

FailUpdate(p) ==
    /\ user[p].step \in {"set_url", "fetch", "checkout", "record"}
    /\ Forward(p, "undo_url")
    /\ UNCHANGED place

\* Whether the URL could be set back is not looked at.
UndoUrl(p) ==
    /\ PluginAt(p, "undo_url")
    /\ \/ UNCHANGED place
       \/ IsTree /\ place' = [place EXCEPT !.url = user[p].before.url]
    /\ Forward(p, "undo_checkout")

\* That the commit could not be checked out again is only warned of.
UndoCheckout(p) ==
    /\ PluginAt(p, "undo_checkout")
    /\ \/ IsTree /\ place' = Holds(place, user[p].before.code) /\ Forward(p, "failed")
       \/ UNCHANGED place /\ Forward(p, "unrestored")

Update(p) ==
    /\ \/ SetUrl(p) \/ Fetch(p) \/ Checkout(p) \/ Record(p)
       \/ FailUpdate(p) \/ UndoUrl(p) \/ UndoCheckout(p)
    /\ UNCHANGED <<temp, kills>>

----------------------------------------------------------------------------

\* remove_dir_all removes the files one by one, then the directory.
RemoveFiles(p) ==
    /\ PluginAt(p, "remove")
    /\ IF IsTree
       THEN /\ \E keepEntry \in BOOLEAN :
                 place' = [place EXCEPT !.entry = keepEntry /\ @, !.record = IF keepEntry THEN Nothing ELSE @,
                                        !.torn = TRUE]
            /\ Forward(p, "remove_dir")
       ELSE Forward(p, "failed") /\ UNCHANGED place
    /\ UNCHANGED <<temp, kills>>

RemoveDir(p) ==
    /\ PluginAt(p, "remove_dir")
    /\ LET torn == IsTree /\ place.torn IN
        /\ place' = IF torn THEN Nothing ELSE place
        /\ Forward(p, IF torn THEN "done" ELSE "failed")
    /\ UNCHANGED <<temp, kills>>

\* The provider loads the entry file of the directory it was given.
Load(p) ==
    /\ PluginAt(p, "load")
    /\ user' = [user EXCEPT ![p].step = IF Works(place) THEN "done" ELSE "failed",
                            ![p].ran = IF Works(place) THEN IF place = Link THEN Link ELSE place.code ELSE Nothing]
    /\ UNCHANGED <<place, temp, kills>>

\* A killed process leaves its temporary directory behind.
KillUser(p) ==
    /\ kills < PluginKills /\ user[p].step \notin Over \union {"begin"}
    /\ kills' = kills + 1
    /\ Forward(p, "killed")
    /\ UNCHANGED <<place, temp>>

PluginNext ==
    \E p \in PluginUser :
        \/ BeginPlugin(p) \/ Clone(p) \/ MoveAside(p) \/ PutInPlace(p)
        \/ Update(p) \/ RemoveFiles(p) \/ RemoveDir(p) \/ Load(p) \/ KillUser(p)

\* The directory by itself.
PluginSpec == PluginInit /\ [][PluginNext]_pluginVars

----------------------------------------------------------------------------

PluginTypeOK ==
    /\ place \in Tree \union {Link, Nothing}
    /\ \A p \in PluginUser :
        /\ temp[p].fresh \in Tree \union {Nothing}
        /\ temp[p].previous \in Tree \union {Link, Nothing}
        /\ user[p].ran \in Source \union {Link, Nothing}
    /\ kills \in 0 .. PluginKills

\* An update is under way, was killed, or failed and could not put back what worked.
Updating == \E p \in PluginUser :
    user[p].req.op = "update" /\ user[p].step \notin {"begin", "done", "unrecorded", "failed"}

\* An update has succeeded and could not write the record of what it checked out.
Unrecorded == \E p \in PluginUser : user[p].req.op = "update" /\ user[p].step = "unrecorded"

(* "An interrupted install never leaves a half-cloned plugin": whatever      *)
(* installs and links overlap, fail or are killed, a directory that no       *)
(* update or removal is changing, was killed while changing or could not put *)
(* back, has its entry file.                                                 *)
WholeCheckout ==
    IsTree /\ ~Updating /\ ~place.torn => place.entry

(* The source a directory records is the one its code comes from:            *)
(* ensure_installed trusts the record when it decides whether a project may  *)
(* run that code.  The code gives this up where an update is changing the    *)
(* directory, was killed while changing it or could not undo its checkout,   *)
(* and where an update succeeded although its record could not be written,   *)
(* which write_source_record only warns of: new code under the old record.   *)
RecordTrue ==
    IsTree /\ ~Updating /\ ~Unrecorded /\ place.record # Nothing => place.record = place.code

\* p changes a plugin that is in place.
Meddles(p) == user[p].req.op \in {"update", "uninstall"} \/ user[p].req.force

\* Where plugins are only installed and used, a use that finds the plugin in place runs
\* the code its project declares, or the user's link: it does not run another project's
\* plugin with this project's options (ensure_installed).
RunsDeclared ==
    (\A q \in PluginUser : ~Meddles(q)) =>
        \A p \in PluginUser :
            user[p].had /\ user[p].ran \notin {Nothing, Link} /\ user[p].req.source # Nothing
                => user[p].ran = user[p].req.source

(* A forced install or link, or an update, that fails leaves a working       *)
(* plugin where there was one: in place, or set aside by another process     *)
(* that is replacing it too.  The one that cannot undo what it did either,   *)
(* and warns of it, ends "unrestored" and is not among them.                 *)
KeptOnFailure ==
    [][\A p \in PluginUser :
        /\ user[p].step # "failed" /\ user'[p].step = "failed"
        /\ user[p].req.op # "use"
        /\ user[p].had \/ Works(user[p].before)
        => Works(place)' \/ \E q \in PluginUser : Works(temp[q].previous)']_pluginVars

\* What is in the directory of a plugin is whole, is what its record says, and is what the
\* project that runs it has declared.
PluginSound == WholeCheckout /\ RecordTrue /\ RunsDeclared
=============================================================================
