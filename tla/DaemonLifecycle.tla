-------------------------- MODULE DaemonLifecycle --------------------------
(* Daemon processes that start, serve and end around one pid file and one    *)
(* socket file (daemon.ts), and clients that look for a daemon and spawn one *)
(* (daemon-client.ts). Each access to a file is a step of its own: other     *)
(* processes run in between. The legacy paths of older versions are left     *)
(* out.                                                                      *)
EXTENDS Naturals, FiniteSets

CONSTANTS
    Daemons,        \* processes
    Clients,
    Attempts,       \* pings of a client after a spawn: 5
    RestartLimit,   \* 3
    NoDaemon,
    MaxKills        \* bound: daemons that are killed or die of a second error

ASSUME LifecycleAssumption ==
    /\ IsFiniteSet(Daemons) /\ NoDaemon \notin Daemons
    /\ Attempts \in Nat /\ RestartLimit \in Nat /\ MaxKills \in Nat

VARIABLES
    pc,         \* where a daemon is
    failed,     \* it stops because of a fatal error (handlingFatal)
    restarts,   \* SSH_TOOL_DAEMON_RESTART_COUNT
    pidFile,    \* the daemon the pid file names
    socketFile, \* the daemon that made the socket file; it may be dead
    kills,      \* daemons that did not end by themselves, so far
    client,     \* where a client is
    tries       \* its attempts so far

daemonVars == <<pc, failed, restarts>>
clientVars == <<client, tries>>
vars == <<daemonVars, pidFile, socketFile, kills, clientVars>>

Starting == {"spawned", "written", "checked", "unlinked"}
\* "cut": a fatal error came up during a stop, which goes no further.
Stopping == {"stopping", "closed", "matched", "done", "cut"}
Alive(d) == pc[d] \in Starting \cup {"serving"} \cup Stopping

TypeOK ==
    /\ pc \in [Daemons -> {"unused", "serving", "gone"} \cup Starting \cup Stopping]
    /\ failed \in [Daemons -> BOOLEAN]
    /\ restarts \in [Daemons -> 0..RestartLimit]
    /\ pidFile \in Daemons \cup {NoDaemon}
    /\ socketFile \in Daemons \cup {NoDaemon}
    /\ kills \in 0..MaxKills
    /\ client \in [Clients -> {"idle", "spawning", "waiting", "served", "error"}]
    /\ tries \in [Clients -> 0..Attempts]

Init ==
    /\ pc = [d \in Daemons |-> "unused"]
    /\ failed = [d \in Daemons |-> FALSE]
    /\ restarts = [d \in Daemons |-> 0]
    /\ pidFile = NoDaemon /\ socketFile = NoDaemon /\ kills = 0
    /\ client = [c \in Clients |-> "idle"]
    /\ tries = [c \in Clients |-> 0]

goto(d, from, to) == pc[d] = from /\ pc' = [pc EXCEPT ![d] = to]

\* The next process to be spawned. Processes are alike before that, so that it
\* does not matter which one it is.
spawnable(d) == pc[d] = "unused" /\ d = CHOOSE e \in Daemons : pc[e] = "unused"

-----------------------------------------------------------------------------
(* start() *)

writePid(d) ==
    /\ goto(d, "spawned", "written")
    /\ pidFile' = d
    /\ UNCHANGED <<failed, restarts, socketFile, kills, clientVars>>

\* Fault: the daemon takes its own pid for that of another one.
AliveDaemonOrSelf(d) == pidFile # NoDaemon /\ Alive(pidFile)

\* The pid file names another process that is alive.
isExistingDaemonAlive(d) == pidFile \notin {NoDaemon, d} /\ Alive(pidFile)

CheckPasses(d) ==
    /\ goto(d, "written", "checked")
    /\ ~isExistingDaemonAlive(d)
    /\ UNCHANGED <<failed, restarts, pidFile, socketFile, kills, clientVars>>

\* "Daemon already running": main() ends the process.
CheckRefuses(d) ==
    /\ goto(d, "written", "gone")
    /\ isExistingDaemonAlive(d)
    /\ UNCHANGED <<failed, restarts, pidFile, socketFile, kills, clientVars>>

\* The socket file is removed, whoever listens at it.
Unlink(d) ==
    /\ goto(d, "checked", "unlinked")
    /\ socketFile' = NoDaemon
    /\ UNCHANGED <<failed, restarts, pidFile, kills, clientVars>>

\* listen() takes the path, or finds it taken, which ends the process.
Listen(d) ==
    /\ IF socketFile = NoDaemon
       THEN goto(d, "unlinked", "serving") /\ socketFile' = d
       ELSE goto(d, "unlinked", "gone") /\ UNCHANGED socketFile
    /\ UNCHANGED <<failed, restarts, pidFile, kills, clientVars>>

-----------------------------------------------------------------------------
(* stop(), after a signal, a "shutdown" request or a fatal error. *)

Stop(d) ==
    /\ goto(d, "serving", "stopping")
    /\ UNCHANGED <<failed, restarts, pidFile, socketFile, kills, clientVars>>

Fatal(d) ==
    /\ goto(d, "serving", "stopping")
    /\ failed' = [failed EXCEPT ![d] = TRUE]
    /\ UNCHANGED <<restarts, pidFile, socketFile, kills, clientVars>>

\* The server is closed; that removes the socket file, whoever listens at it.
CloseServer(d) ==
    /\ goto(d, "stopping", "closed")
    /\ socketFile' = NoDaemon
    /\ UNCHANGED <<failed, restarts, pidFile, kills, clientVars>>

\* removePid reads the file ...
RemovePidRead(d) ==
    /\ goto(d, "closed", IF pidFile = d THEN "matched" ELSE "done")
    /\ UNCHANGED <<failed, restarts, pidFile, socketFile, kills, clientVars>>

\* ... and removes it if it named this process.
RemovePid(d) ==
    /\ goto(d, "matched", "done")
    /\ pidFile' = NoDaemon
    /\ UNCHANGED <<failed, restarts, socketFile, kills, clientVars>>

Exit(d) ==
    /\ ~failed[d]
    /\ goto(d, "done", "gone")
    /\ UNCHANGED <<failed, restarts, pidFile, socketFile, kills, clientVars>>

\* A fatal error during a stop: the stop() of handleFatal returns at once. The
\* files stay in place.
FatalInStop(d) ==
    /\ ~failed[d]
    /\ goto(d, "stopping", "cut")
    /\ failed' = [failed EXCEPT ![d] = TRUE]
    /\ UNCHANGED <<restarts, pidFile, socketFile, kills, clientVars>>

(* The rest of handleFatal: restartReplacement, within the limit, and the end *)
(* of the process. With e = d nothing is spawned.                             *)
replace(d, e) ==
    IF restarts[d] < RestartLimit
    THEN /\ spawnable(e)
         /\ pc' = [pc EXCEPT ![d] = "gone", ![e] = "spawned"]
         /\ restarts' = [restarts EXCEPT ![e] = restarts[d] + 1]
    ELSE /\ e = d
         /\ pc' = [pc EXCEPT ![d] = "gone"]
         /\ UNCHANGED restarts

\* Fault: the handler of the error leaves a stop that is under way to itself.
ExitWithoutReplacement(d, e) ==
    /\ failed[d] /\ pc[d] \in {"done", "cut"}
    /\ IF pc[d] = "done"
       THEN replace(d, e)
       ELSE e = d /\ pc' = [pc EXCEPT ![d] = "gone"] /\ UNCHANGED restarts
    /\ UNCHANGED <<failed, pidFile, socketFile, kills, clientVars>>

ExitFailed(d, e) ==
    /\ failed[d] /\ pc[d] \in {"done", "cut"}
    /\ replace(d, e)
    /\ UNCHANGED <<failed, pidFile, socketFile, kills, clientVars>>

\* A second fatal error, while the first is handled, ends the process at once.
FatalAgain(d) ==
    /\ kills < MaxKills /\ failed[d]
    /\ kills' = kills + 1
    /\ goto(d, "stopping", "gone")
    /\ UNCHANGED <<failed, restarts, pidFile, socketFile, clientVars>>

\* The files of a killed process stay.
Kill(d) ==
    /\ kills < MaxKills /\ Alive(d)
    /\ kills' = kills + 1
    /\ pc' = [pc EXCEPT ![d] = "gone"]
    /\ UNCHANGED <<failed, restarts, pidFile, socketFile, clientVars>>

-----------------------------------------------------------------------------
(* ensureDaemon *)

Answers(d) == socketFile = d /\ pc[d] \in {"serving", "stopping"}
Reachable == \E d \in Daemons : Answers(d)

\* Nobody answers the ping: a daemon is spawned ...
Ping(c) ==
    /\ client[c] = "idle"
    /\ client' = [client EXCEPT ![c] = IF Reachable THEN "served" ELSE "spawning"]
    /\ tries' = [tries EXCEPT ![c] = 0]
    /\ UNCHANGED <<daemonVars, pidFile, socketFile, kills>>

startDaemon(c, d) ==
    /\ client[c] = "spawning"
    /\ spawnable(d) /\ goto(d, "unused", "spawned")
    /\ client' = [client EXCEPT ![c] = "waiting"]
    /\ UNCHANGED <<failed, restarts, pidFile, socketFile, kills, tries>>

\* ... and pinged a number of times.
Retry(c) ==
    /\ client[c] = "waiting"
    /\ IF tries[c] = Attempts
       THEN client' = [client EXCEPT ![c] = "error"] /\ UNCHANGED tries
       ELSE /\ client' = [client EXCEPT ![c] = IF Reachable THEN "served" ELSE @]
            /\ tries' = [tries EXCEPT ![c] = @ + 1]
    /\ UNCHANGED <<daemonVars, pidFile, socketFile, kills>>

Again(c) ==
    /\ client[c] \in {"served", "error"}
    /\ client' = [client EXCEPT ![c] = "idle"]
    /\ UNCHANGED <<daemonVars, pidFile, socketFile, kills, tries>>

-----------------------------------------------------------------------------
StartStep(d) == writePid(d) \/ CheckPasses(d) \/ CheckRefuses(d) \/ Unlink(d) \/ Listen(d)
StopStep(d) == CloseServer(d) \/ RemovePidRead(d) \/ RemovePid(d) \/ Exit(d)
ReplaceStep(d) == \E e \in Daemons : ExitFailed(d, e)

Next ==
    \/ \E d \in Daemons : StartStep(d) \/ StopStep(d) \/ ReplaceStep(d)
    \/ \E d \in Daemons : Stop(d) \/ Fatal(d) \/ FatalInStop(d) \/ FatalAgain(d) \/ Kill(d)
    \/ \E c \in Clients : Ping(c) \/ Retry(c) \/ Again(c)
    \/ \E c \in Clients, d \in Daemons : startDaemon(c, d)

Spec == Init /\ [][Next]_vars

\* A process runs: it comes to the end of start() and of stop(), in which every
\* await has a time limit or only waits for sockets the daemon has destroyed.
Fairness ==
    \A d \in Daemons :
        WF_vars(StartStep(d)) /\ WF_vars(StopStep(d)) /\ WF_vars(ReplaceStep(d))

FairSpec == Spec /\ Fairness

-----------------------------------------------------------------------------
(* Properties *)

\* A daemon that ended by stop() has taken its pid file with it, whoever started
\* or refused to start meanwhile.
StopRemovesOwnPid == \A d \in Daemons : pc[d] = "done" => pidFile # d

\* Daemons that start at the same time do not all refuse because of each other:
\* after a spawn a daemon can be reached, whatever files dead daemons left, unless
\* a daemon is killed meanwhile.
SpawnLeadsToService ==
    \A d \in Daemons, k \in 0..MaxKills :
        pc[d] = "spawned" /\ kills = k ~> Reachable \/ kills > k

\* After a fatal error, also one during a stop, a daemon can be reached again once
\* stop() has returned, up to the limit and without a client that asks for it: the
\* replacement gets past the files of the failed daemon and past daemons that
\* others start or end meanwhile. This is unless a daemon is killed meanwhile, and
\* the instance must have a process left.
FatalIsReplaced ==
    \A d \in Daemons, k \in 0..MaxKills :
        /\ failed[d] /\ pc[d] \in {"done", "cut"} /\ restarts[d] < RestartLimit
        /\ kills = k /\ \E e \in Daemons : pc[e] = "unused"
        ~> Reachable \/ kills > k

\* At most one daemon serves.
SingleDaemon == Cardinality({d \in Daemons : pc[d] = "serving"}) <= 1

\* Nobody removes the pid file of another daemon that is alive.
PidOfOthersStays ==
    [][\A d \in Daemons : pidFile = d /\ pidFile' = NoDaemon => pc[d] = "matched"]_vars
=============================================================================
