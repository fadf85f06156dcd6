------------------------------- MODULE Runner -------------------------------
(* One run of one command on an SSH connection, by each of the three runners *)
(* that the scheduler is given and by the one of the daemon's own probes:    *)
(*   "foreground"  execScheduledStreamSingle (daemon.ts)                     *)
(*   "background"  startBackground (daemon.ts)                               *)
(*   "manager"     ExecTaskManager.start (exec-task-manager.ts)              *)
(*   "probe"       execRemote (remote-shell.ts), which no scheduler knows     *)
(* The run asks ssh2 for a channel, and the answer, the data, the end of the *)
(* command, its timers and a stop from the scheduler come in any order. The  *)
(* remote process is not ended by the end of its channel, only by itself or  *)
(* by a kill, and a kill needs the process id the command prints first.      *)
(* Init, Next and Spec carry the name of the run, for the module of proofs   *)
(* extends this one and PortForwarding.                                      *)
EXTENDS Naturals

CONSTANT Kinds      \* runners of the instance

AllKinds == {"foreground", "background", "manager", "probe"}

ASSUME KindsAssumption == Kinds \subseteq AllKinds

VARIABLES
    kind,       \* the runner
    limited,    \* a time limit was given (ExecTaskManager and probes may have none)
    task,       \* the caller's view: "running", "ended", "cancelled"
    channel,    \* "calling", "opening", "refused", "open", "closed"
    ref,        \* the runner holds the stream: streamRef, stream
    settled,    \* settled, closed
    outcome,    \* what the runner reported first
    timer,      \* the deadline is armed: timer, timeoutId, timeoutTimer
    startTimer, \* execStartTimeout is armed
    pid,        \* the process id was captured
    kill,       \* a kill is on its way
    remote      \* "none", "running", "exited", "killed"

runVars == <<kind, limited, task, channel, ref, settled, outcome, timer, startTimer,
          pid, kill, remote>>

RunTypeOK ==
    /\ kind \in Kinds
    /\ task \in {"running", "ended", "cancelled"}
    /\ channel \in {"calling", "opening", "refused", "open", "closed"}
    /\ outcome \in {"none", "exit", "error", "timeout", "overflow", "stopped"}
    /\ remote \in {"none", "running", "exited", "killed"}
    /\ {limited, ref, settled, timer, startTimer, pid, kill} \subseteq BOOLEAN

\* Fault: the deadline of a foreground run is armed when its channel opens.
InitWithoutDeadline ==
    /\ kind \in Kinds
    /\ limited \in IF kind \in {"manager", "probe"} THEN BOOLEAN ELSE {TRUE}
    /\ task = "running" /\ channel = "calling"
    /\ ref = FALSE /\ settled = FALSE /\ outcome = "none"
    /\ timer = FALSE
    /\ startTimer = (kind = "background")
    /\ pid = FALSE /\ kill = FALSE /\ remote = "none"

\* The timers are set before ssh2 is asked for a channel.
RunInit ==
    /\ kind \in Kinds
    /\ limited \in IF kind \in {"manager", "probe"} THEN BOOLEAN ELSE {TRUE}
    /\ task = "running" /\ channel = "calling"
    /\ ref = FALSE /\ settled = FALSE /\ outcome = "none"
    /\ timer = (kind # "background" /\ limited)
    /\ startTimer = (kind = "background")
    /\ pid = FALSE /\ kill = FALSE /\ remote = "none"

-----------------------------------------------------------------------------
(* settle, finalize, finish and fail: the first end is reported, later ones  *)
(* are not. The scheduler keeps a cancelled task cancelled.                  *)
\* Fault: a later end is reported over the first one.
endTwice(o) ==
    /\ settled' = TRUE
    /\ outcome' = o
    /\ timer' = (timer /\ settled)
    /\ task' = IF task = "running" THEN "ended" ELSE task

end(o) ==
    /\ settled' = TRUE
    /\ outcome' = IF settled THEN outcome ELSE o
    /\ timer' = (timer /\ settled)
    /\ task' = IF task = "running" THEN "ended" ELSE task

ChannelClosed == IF channel = "open" THEN "closed" ELSE channel

\* client.exec returns, and its callback is outstanding ...
ExecCall ==
    /\ channel = "calling"
    /\ channel' = "opening"
    /\ UNCHANGED <<kind, limited, task, ref, settled, outcome, timer, startTimer, pid, kill, remote>>

(* ... or it throws ("Not connected"). startBackground passes the exception  *)
(* on: the scheduler ends the task, and the 30 s timer stays armed.          *)
ExecThrows ==
    /\ kind # "probe" /\ channel = "calling"
    /\ channel' = "refused"
    /\ IF kind = "background"
       THEN task' = "ended" /\ UNCHANGED <<settled, outcome, timer>>
       ELSE end("error")
    /\ UNCHANGED <<kind, limited, ref, startTimer, pid, kill, remote>>

\* The promise of a probe is rejected by the exception; its timer stays armed.
ProbeThrows ==
    /\ kind = "probe" /\ channel = "calling"
    /\ channel' = "refused"
    /\ settled' = TRUE /\ outcome' = "error" /\ task' = "ended"
    /\ UNCHANGED <<kind, limited, ref, timer, startTimer, pid, kill, remote>>

\* The callback comes with an error.
ExecRefused ==
    /\ channel = "opening"
    /\ channel' = "refused"
    /\ startTimer' = FALSE
    /\ end("error")
    /\ UNCHANGED <<kind, limited, ref, pid, kill, remote>>

(* The callback comes with a stream: the command runs. A run that is over    *)
(* closes the stream, except in startBackground, which goes on with it.      *)
\* Fault: a stream that comes too late is not closed.
ExecOpensLate ==
    /\ kind # "probe" /\ channel = "opening"
    /\ channel' = "open"
    /\ ref' = TRUE
    /\ remote' = "running"
    /\ startTimer' = FALSE
    /\ timer' = (timer \/ kind = "background")
    /\ UNCHANGED <<kind, limited, task, settled, outcome, pid, kill>>

ExecOpens ==
    /\ kind # "probe" /\ channel = "opening"
    /\ channel' = IF settled /\ kind # "background" THEN "closed" ELSE "open"
    /\ ref' = (kind # "manager" \/ ~settled)
    /\ remote' = "running"
    /\ startTimer' = FALSE
    /\ timer' = (timer \/ kind = "background")
    /\ UNCHANGED <<kind, limited, task, settled, outcome, pid, kill>>

\* A probe takes the stream, whether it is over or not.
ProbeOpens ==
    /\ kind = "probe" /\ channel = "opening"
    /\ channel' = "open"
    /\ ref' = TRUE
    /\ remote' = "running"
    /\ UNCHANGED <<kind, limited, task, settled, outcome, timer, startTimer, pid, kill>>

\* The first line of the command's output.
PidArrives ==
    /\ channel = "open" /\ ~pid
    /\ kind = "foreground" => ~settled
    /\ pid' = TRUE
    /\ UNCHANGED <<kind, limited, task, channel, ref, settled, outcome, timer, startTimer, kill, remote>>

-----------------------------------------------------------------------------
\* The "close" event of the stream, if it is still open.
closeEvent(o) ==
    IF channel = "open"
    THEN channel' = "closed" /\ end(o)
    ELSE UNCHANGED <<channel, settled, outcome, timer, task>>

RemoteExits ==
    /\ remote = "running"
    /\ remote' = "exited"
    /\ closeEvent("exit")
    /\ UNCHANGED <<kind, limited, ref, startTimer, pid, kill>>

KillArrives ==
    /\ kill
    /\ kill' = FALSE
    /\ IF remote = "running"
       THEN remote' = "killed" /\ closeEvent("exit")
       ELSE UNCHANGED <<remote, channel, settled, outcome, timer, task>>
    /\ UNCHANGED <<kind, limited, ref, startTimer, pid>>

(* "close" without an exit code or "error": the connection dropped, which a  *)
(* kill on its way may not survive.                                          *)
Drop ==
    /\ channel = "open"
    /\ closeEvent("error")
    /\ kill' \in {kill, FALSE}
    /\ UNCHANGED <<kind, limited, ref, startTimer, pid, remote>>

(* The deadline. Foreground and manager kill the process if they know it and *)
(* close the stream if they have it; startBackground only closes.            *)
Deadline ==
    /\ kind # "probe" /\ timer /\ channel # "calling"
    /\ IF kind = "background" /\ settled
       THEN timer' = FALSE /\ UNCHANGED <<settled, outcome, task, channel, kill>>
       ELSE /\ end("timeout")
            /\ channel' = IF ref THEN ChannelClosed ELSE channel
            /\ kill' = (kill \/ (pid /\ kind # "background"))
    /\ UNCHANGED <<kind, limited, ref, startTimer, pid, remote>>

\* The deadline of a probe does all of it inside settle: once, or not at all.
ProbeDeadline ==
    /\ kind = "probe" /\ timer /\ channel # "calling"
    /\ IF settled
       THEN timer' = FALSE /\ UNCHANGED <<settled, outcome, task, channel, kill>>
       ELSE /\ end("timeout")
            /\ channel' = ChannelClosed
            /\ kill' = (kill \/ pid)
    /\ UNCHANGED <<kind, limited, ref, startTimer, pid, remote>>

(* More output than maxBufferBytes, on either stream: the probe is over, its *)
(* process is killed if it is known and its stream is closed, also when the  *)
(* probe was over already.                                                   *)
Overflow ==
    /\ kind = "probe" /\ channel = "open"
    /\ end("overflow")
    /\ kill' = (kill \/ pid)
    /\ channel' = "closed"
    /\ UNCHANGED <<kind, limited, ref, startTimer, pid, remote>>

\* execStartTimeout: the channel did not open within 30 s.
StartTimeout ==
    /\ startTimer /\ channel # "calling"
    /\ startTimer' = FALSE
    /\ IF settled \/ ref THEN UNCHANGED <<settled, outcome, timer, task>> ELSE end("timeout")
    /\ UNCHANGED <<kind, limited, channel, ref, pid, kill, remote>>

-----------------------------------------------------------------------------
(* cancelTask (and dispose, for background runs) stops a running task.       *)
Stoppable == task = "running" /\ channel # "calling"

\* Fault: the process is not killed, only its stream is closed.
StopManagerWithoutKill ==
    /\ kind = "manager" /\ Stoppable
    /\ channel' = IF ref THEN ChannelClosed ELSE channel
    /\ IF ref /\ channel = "open"
       THEN settled' = TRUE /\ outcome' = "stopped" /\ timer' = FALSE
       ELSE UNCHANGED <<settled, outcome, timer>>
    /\ task' = "cancelled"
    /\ UNCHANGED <<kind, limited, ref, startTimer, pid, kill, remote>>

\* stopCurrent; the stream's "close" event is the end of the run.
StopManager ==
    /\ kind = "manager" /\ Stoppable
    /\ kill' = (kill \/ pid)
    /\ channel' = IF ref THEN ChannelClosed ELSE channel
    /\ IF ref /\ channel = "open"
       THEN settled' = TRUE /\ outcome' = "stopped" /\ timer' = FALSE
       ELSE UNCHANGED <<settled, outcome, timer>>
    /\ task' = "cancelled"
    /\ UNCHANGED <<kind, limited, ref, startTimer, pid, remote>>

\* The controller of startBackground; a stop of a closed run does nothing.
StopBackground ==
    /\ kind = "background" /\ Stoppable /\ ~settled
    /\ kill' = (kill \/ pid)
    /\ channel' = IF ref THEN ChannelClosed ELSE channel
    /\ settled' = TRUE /\ outcome' = "stopped" /\ timer' = FALSE
    /\ task' = "cancelled"
    /\ UNCHANGED <<kind, limited, ref, startTimer, pid, remote>>

\* runner.cancel of the daemon: refused without a process id.
CancelForeground ==
    /\ kind = "foreground" /\ Stoppable
    /\ pid
    /\ kill' = TRUE
    /\ task' = "cancelled"
    /\ UNCHANGED <<kind, limited, channel, ref, settled, outcome, timer, startTimer, pid, remote>>

RunNext ==
    \/ ExecCall \/ ExecThrows \/ ExecRefused \/ ExecOpens \/ PidArrives
    \/ RemoteExits \/ KillArrives \/ Drop
    \/ Deadline \/ StartTimeout
    \/ ProbeThrows \/ ProbeOpens \/ ProbeDeadline \/ Overflow
    \/ StopManager \/ StopBackground \/ CancelForeground

RunSpec == RunInit /\ [][RunNext]_runVars

(* client.exec returns or throws, timers fire and a kill gets through. The   *)
(* server owes nothing: no answer, no data, no end.                          *)
RunFairness ==
    /\ WF_runVars(ExecCall \/ ExecThrows \/ ProbeThrows)
    /\ WF_runVars(Deadline \/ ProbeDeadline)
    /\ WF_runVars(StartTimeout)
    /\ WF_runVars(KillArrives)

RunFairSpec == RunSpec /\ RunFairness

-----------------------------------------------------------------------------
(* Properties *)

\* Of all the ends that race (exit, error, deadline, stop, late events) the
\* first one reported stands.
FirstEndStands == [][settled => outcome' = outcome]_runVars

\* A foreground or manager run that is over leaves no channel open, not even
\* one that ssh2 opens after the deadline.
NoChannelLeftOpen ==
    kind \in {"foreground", "manager"} /\ settled => channel # "open"

\* With a time limit every task is reported to the scheduler, although a half
\* open connection never answers: the deadline is armed before client.exec.
RunEnds == limited => (task = "running" ~> task # "running")

\* A cancelled command whose process is known is killed, at the cancel or, when
\* the process was not known then, at the deadline, unless the connection drops.
CancelledCommandDies ==
    (kind # "background" /\ limited /\ pid /\ task = "cancelled")
        ~> (remote # "running" \/ outcome = "error")

\* A probe whose caller has moved on leaves no channel open.
NoProbeLeftOpen == kind = "probe" /\ settled => channel # "open"

\* A stop of a background run stops its stream.
StoppedRunHasNoStream == kind = "background" /\ settled => channel # "open"

\* A command that runs into its time limit is killed on the remote host.
TimeoutKillsCommand == outcome = "timeout" ~> remote # "running"
=============================================================================
