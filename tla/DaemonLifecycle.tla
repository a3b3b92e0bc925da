-------------------------- MODULE DaemonLifecycle --------------------------
(***************************************************************************)
(* The daemon as a process (src/daemon.rs, on Unix): how commands start it *)
(* on demand, how a starting daemon takes over the socket path, and how it *)
(* stops while connections are open or still arrive.                       *)
(*                                                                         *)
(* The socket path is a file that names the listener of one process, which *)
(* may be dead by now.  A connection waits in its listener's backlog until *)
(* it is accepted, and is closed when the process ends.  What a request    *)
(* does is in DaemonCache; here a request is answered, or hangs.           *)
(***************************************************************************)
EXTENDS Naturals

CONSTANTS
    Caller,      \* fnox commands
    Daemon,      \* daemon processes, each started at most once
    Commands,    \* what the commands may be: a subset of Command
    Nobody,      \* no file at the socket path, no connection
    MaxPolls,    \* how often start_background looks for the daemon: 50
    MaxKills     \* bound: daemons killed

\* "read" is every command that reads secrets, "start" and "stop" are
\* `fnox daemon start` and `stop`.
Command == {"read", "start", "stop"}

ASSUME DaemonLifecycleAssumption ==
    /\ Commands \subseteq Command
    /\ Nobody \notin Daemon
    /\ MaxPolls \in Nat /\ MaxKills \in Nat

VARIABLES
    socket,    \* the daemon whose socket file is at the path, or Nobody
    dpc,       \* dpc[d]: where daemon process d is
    stopping,  \* stopping[d]: a Shutdown request was answered
    kills,     \* how many daemons were killed
    cpc,       \* cpc[c]: which call c is at
    op,        \* op[c]: its command
    polls,     \* polls[c]: the rounds of start_background's loop
    conn,      \* conn[c]: the daemon c is connected to, or Nobody
    accepted,  \* the clients whose connection was accepted
    stolen     \* history: a starting daemon removed the socket of a running one

processVars == <<socket, dpc, stopping, kills, stolen>>
callerVars == <<cpc, op, polls, conn, accepted>>
lifecycleVars == <<socket, dpc, stopping, kills, stolen, cpc, op, polls, conn, accepted>>

----------------------------------------------------------------------------
Starting == {"spawned", "probe", "remove", "bind", "bound"}
Ended    == {"exited", "killed"}

\* Mutant: the listener is dropped when serve leaves its loop.
OpenWhileServing(d) == dpc[d] \in {"listening", "serving"}

\* The kernel completes connections to d: its listener lives until serve returns.
ListenerOpen(d) == dpc[d] \in {"listening", "serving", "draining", "unlinked"}

\* A connection to the path succeeds; otherwise it is refused, or there is no file.
Reachable == socket # Nobody /\ ListenerOpen(socket)

Backlog(d) == {c \in Caller : conn[c] = d /\ c \notin accepted}
Tasks(d)   == {c \in Caller : conn[c] = d /\ c \in accepted}

\* The commands of the clients C are over, with success or an error, and what
\* connection they had is closed.
End(C) ==
    /\ cpc' = [c \in Caller |-> IF c \in C THEN "idle" ELSE cpc[c]]
    /\ op' = [c \in Caller |-> IF c \in C THEN Nobody ELSE op[c]]
    /\ polls' = [c \in Caller |-> IF c \in C THEN 0 ELSE polls[c]]
    /\ conn' = [c \in Caller |-> IF c \in C THEN Nobody ELSE conn[c]]
    /\ accepted' = accepted \ C

\* Caller c goes on to another call, on a connection of its own.
Goto(c, call) ==
    /\ cpc' = [cpc EXCEPT ![c] = call]
    /\ conn' = [conn EXCEPT ![c] = Nobody]
    /\ accepted' = accepted \ {c}
    /\ UNCHANGED <<op, polls>>

\* No daemon, or the socket file of one that was killed.
LifecycleInit ==
    /\ socket \in {Nobody} \union Daemon
    /\ dpc = [d \in Daemon |-> IF d = socket THEN "killed" ELSE "none"]
    /\ stopping = [d \in Daemon |-> FALSE]
    /\ kills = 0
    /\ stolen = FALSE
    /\ cpc = [c \in Caller |-> "idle"]
    /\ op = [c \in Caller |-> Nobody]
    /\ polls = [c \in Caller |-> 0]
    /\ conn = [c \in Caller |-> Nobody]
    /\ accepted = {}

----------------------------------------------------------------------------
(* Commands. *)

BeginCommand(c, o) ==
    /\ cpc[c] = "idle"
    /\ cpc' = [cpc EXCEPT ![c] = IF o = "start" THEN "status" ELSE "call"]
    /\ op' = [op EXCEPT ![c] = o]
    /\ UNCHANGED <<processVars, polls, conn, accepted>>

\* connect, for any of the calls a command makes.
Connect(c) ==
    /\ cpc[c] \in {"call", "status", "poll", "recall"} /\ conn[c] = Nobody
    /\ Reachable
    /\ conn' = [conn EXCEPT ![c] = socket]
    /\ UNCHANGED <<processVars, cpc, op, polls, accepted>>

\* is_socket_missing: call_or_start and start_background go on to start a daemon,
\* `stop` has nothing to do, and a call after the start fails.
Missing(c) ==
    /\ cpc[c] \in {"call", "status", "recall"} /\ conn[c] = Nobody
    /\ ~Reachable
    /\ IF cpc[c] = "recall" \/ op[c] = "stop" THEN End({c})
       ELSE Goto(c, IF cpc[c] = "call" THEN "status" ELSE "spawn")
    /\ UNCHANGED processVars

\* start_background starts `fnox daemon serve`, which may fail.
Spawn(c) ==
    /\ cpc[c] = "spawn"
    /\ \/ \E d \in Daemon :
            /\ dpc[d] = "none"
            /\ dpc' = [dpc EXCEPT ![d] = "spawned"]
            /\ Goto(c, "poll")
       \/ End({c}) /\ UNCHANGED dpc
    /\ UNCHANGED <<socket, stopping, kills, stolen>>

\* Mutant: the loop has no bound.
PollForever(c) ==
    /\ cpc[c] = "poll" /\ conn[c] = Nobody
    /\ ~Reachable
    /\ UNCHANGED lifecycleVars

\* A round of start_background's loop without an answer.
Poll(c) ==
    /\ cpc[c] = "poll" /\ conn[c] = Nobody
    /\ ~Reachable
    /\ IF polls[c] + 1 >= MaxPolls THEN End({c})
       ELSE /\ polls' = [polls EXCEPT ![c] = @ + 1]
            /\ UNCHANGED <<cpc, op, conn, accepted>>
    /\ UNCHANGED processVars

----------------------------------------------------------------------------
(* A daemon starts: Listener::bind. *)

\* path.exists()
Look(d) ==
    /\ dpc[d] = "spawned"
    /\ dpc' = [dpc EXCEPT ![d] = IF socket = Nobody THEN "bind" ELSE "probe"]
    /\ UNCHANGED <<socket, stopping, kills, stolen, callerVars>>

\* Another daemon answers: this one gives up.  Otherwise the file is stale.
Probe(d) ==
    /\ dpc[d] = "probe"
    /\ dpc' = [dpc EXCEPT ![d] = IF Reachable THEN "exited" ELSE "remove"]
    /\ UNCHANGED <<socket, stopping, kills, stolen, callerVars>>

\* remove_file, which fails when there is no file any more.
Remove(d) ==
    /\ dpc[d] = "remove"
    /\ dpc' = [dpc EXCEPT ![d] = IF socket = Nobody THEN "exited" ELSE "bind"]
    /\ socket' = Nobody
    /\ stolen' = (stolen \/ Reachable \/ (socket # Nobody /\ dpc[socket] = "bound"))
    /\ UNCHANGED <<stopping, kills, callerVars>>

\* UnixListener::bind binds the path, which fails when it exists, and then
\* listens; in between, connections are refused.
Bind(d) ==
    /\ dpc[d] = "bind"
    /\ dpc' = [dpc EXCEPT ![d] = IF socket = Nobody THEN "bound" ELSE "exited"]
    /\ socket' = IF socket = Nobody THEN d ELSE socket
    /\ UNCHANGED <<stopping, kills, stolen, callerVars>>

ListenOn(d) ==
    /\ dpc[d] = "bound"
    /\ dpc' = [dpc EXCEPT ![d] = "listening"]
    /\ UNCHANGED <<socket, stopping, kills, stolen, callerVars>>

\* set_socket_permissions, on whatever file is at the path.
Secure(d) ==
    /\ dpc[d] = "listening"
    /\ IF socket = Nobody
       THEN /\ dpc' = [dpc EXCEPT ![d] = "exited"]
            /\ End(Backlog(d))
       ELSE /\ dpc' = [dpc EXCEPT ![d] = "serving"]
            /\ UNCHANGED callerVars
    /\ UNCHANGED <<socket, stopping, kills, stolen>>

----------------------------------------------------------------------------
(* A daemon serves, drains and ends. *)

Accept(d, c) ==
    /\ dpc[d] = "serving" /\ c \in Backlog(d)
    /\ accepted' = accepted \union {c}
    /\ UNCHANGED <<processVars, cpc, op, polls, conn>>

\* handle_connection answers; a Shutdown is passed on after the answer.
Respond(d, c) ==
    /\ dpc[d] \in {"serving", "draining"} /\ c \in Tasks(d)
    /\ stopping' = [stopping EXCEPT ![d] = @ \/ (cpc[c] = "call" /\ op[c] = "stop")]
    /\ IF cpc[c] \in {"status", "poll"} /\ op[c] = "read" THEN Goto(c, "recall") ELSE End({c})
    /\ UNCHANGED <<socket, dpc, kills, stolen>>

\* A Shutdown, or no new connection for idle_timeout, whether or not requests are
\* still running.
LeaveLoop(d) ==
    /\ dpc[d] = "serving"
    /\ stopping[d] \/ Backlog(d) = {}
    /\ dpc' = [dpc EXCEPT ![d] = "draining"]
    /\ UNCHANGED <<socket, stopping, kills, stolen, callerVars>>

\* Mutant: requests that outlast the grace period are waited for.
WaitForever(d) ==
    /\ dpc[d] = "draining" /\ Tasks(d) # {}
    /\ UNCHANGED lifecycleVars

\* SHUTDOWN_GRACE_PERIOD is over: abort_all.
Abort(d) ==
    /\ dpc[d] = "draining" /\ Tasks(d) # {}
    /\ End(Tasks(d))
    /\ UNCHANGED processVars

\* Remove whatever file is at the path.
Unlink(d) ==
    /\ dpc[d] = "draining" /\ Tasks(d) = {}
    /\ socket' = Nobody
    /\ dpc' = [dpc EXCEPT ![d] = "unlinked"]
    /\ UNCHANGED <<stopping, kills, stolen, callerVars>>

\* serve returns: the listener goes, and with it connections never accepted.
Exit(d) ==
    /\ dpc[d] = "unlinked"
    /\ dpc' = [dpc EXCEPT ![d] = "exited"]
    /\ End(Backlog(d))
    /\ UNCHANGED <<socket, stopping, kills, stolen>>

\* The process is killed; its socket file stays.
Kill(d) ==
    /\ dpc[d] \notin Ended \union {"none"} /\ kills < MaxKills
    /\ dpc' = [dpc EXCEPT ![d] = "killed"]
    /\ kills' = kills + 1
    /\ End(Backlog(d) \union Tasks(d))
    /\ UNCHANGED <<socket, stopping, stolen>>

----------------------------------------------------------------------------
ClientStep(c) == Connect(c) \/ Missing(c) \/ Spawn(c) \/ Poll(c)

StartStep(d) == Look(d) \/ Probe(d) \/ Remove(d) \/ Bind(d) \/ ListenOn(d) \/ Secure(d)

\* The steps that follow from a Shutdown or a timeout.
EndStep(d) == LeaveLoop(d) \/ Abort(d) \/ Unlink(d) \/ Exit(d)

LifecycleNext ==
    \/ \E c \in Caller : (\E o \in Commands : BeginCommand(c, o)) \/ ClientStep(c)
    \/ \E d \in Daemon :
         \/ StartStep(d) \/ EndStep(d) \/ Kill(d)
         \/ \E c \in Caller : Accept(d, c) \/ Respond(d, c)

LifecycleSpec == LifecycleInit /\ [][LifecycleNext]_lifecycleVars

\* Commands and daemons take their steps and timeouts pass; a request may hang.
LifecycleFairness ==
    /\ \A c \in Caller : WF_lifecycleVars(ClientStep(c))
    /\ \A d \in Daemon : /\ WF_lifecycleVars(StartStep(d)) /\ WF_lifecycleVars(EndStep(d))
                         /\ \A c \in Caller : WF_lifecycleVars(Accept(d, c))

FairLifecycle == LifecycleSpec /\ LifecycleFairness

----------------------------------------------------------------------------
\* The types of the variables: a path names one listener, a queue holds commands.
LifecycleTypeOK ==
    /\ socket \in Daemon \union {Nobody}
    /\ dpc \in [Daemon -> Starting \union Ended
                            \union {"none", "listening", "serving", "draining", "unlinked"}]
    /\ stopping \in [Daemon -> BOOLEAN]
    /\ kills \in 0 .. MaxKills
    /\ stolen \in BOOLEAN
    /\ cpc \in [Caller -> {"idle", "call", "status", "spawn", "poll", "recall"}]
    /\ op \in [Caller -> Commands \union {Nobody}]
    /\ polls \in [Caller -> 0 .. MaxPolls]
    /\ conn \in [Caller -> Daemon \union {Nobody}]
    /\ accepted \subseteq {c \in Caller : conn[c] # Nobody}

(* Safety. *)

\* A daemon that has bound the socket path keeps it until it has drained: neither
\* a start, nor a stop, nor the exit of another daemon takes it away.  The one
\* exception is a start that took a daemon at the path for dead because it had
\* looked before that one was there, or before it listened.
OwnsSocket ==
    ~stolen => \A d \in Daemon :
                  dpc[d] \in {"bound", "listening", "serving", "draining"} => socket = d

(* Liveness. *)

\* No command waits for ever for a daemon that does not look at its request.
NoCommandStuck ==
    \A c \in Caller : []<>(cpc[c] = "idle" \/ c \in accepted)

\* A daemon that was told to stop, or that lost its socket path, ends, even when
\* its requests hang.
UnneededEnds ==
    \A d \in Daemon :
        (stopping[d] \/ (dpc[d] = "serving" /\ socket # d)) ~> dpc[d] \in Ended

\* Commands and daemons that have no more to do end, whatever hangs, dies or is too late
\* (call_or_start, start_background, serve).
AllComeToEnd == NoCommandStuck /\ UnneededEnds
=============================================================================
