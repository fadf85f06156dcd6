-------------------------- MODULE SchedulerRestart --------------------------
(***************************************************************************)
(* The scheduler with the task files it keeps across daemon restarts       *)
(* (src/src/scheduler/persistence-store.ts).  The daemon uses              *)
(* BatchedPersistenceStore: saveTask only notes the task, and a timer      *)
(* writes all noted tasks, as they are then, 100 ms later.  A crash loses  *)
(* memory and the notes; the next daemon restores what the files say.      *)
(***************************************************************************)
EXTENDS Scheduler

CONSTANTS
    MaxCrashes,       \* bound on the restarts of a behaviour
    MaxWriteFailures  \* bound on the failed task writes of a behaviour

ASSUME BoundsAssumption == MaxCrashes \in Nat /\ MaxWriteFailures \in Nat

VARIABLES
    disk,        \* the status in the task's file; "none": no file
    pending,     \* BatchedPersistenceStore.pending
    flushTimer,  \* its timer is armed
    crashes,     \* restarts so far
    failures     \* failed writes so far

storeVars   == <<disk, pending, flushTimer, crashes, failures>>
restartVars == <<vars, storeVars>>

RestartTypeOK ==
    /\ TypeOK
    /\ disk \in [Tasks -> Statuses \ {"gone"}]
    /\ pending \subseteq Tasks
    /\ flushTimer \in BOOLEAN
    /\ crashes \in 0..MaxCrashes
    /\ failures \in 0..MaxWriteFailures

RestartInit ==
    /\ Init
    /\ disk = [t \in Tasks |-> "none"]
    /\ pending = {}
    /\ flushTimer = FALSE
    /\ crashes = 0
    /\ failures = 0

-----------------------------------------------------------------------------
\* The files after the tasks of a set have been written as they are now.
Written(ts) == [t \in Tasks |-> IF t \in ts THEN status[t] ELSE disk[t]]

\* A step of the scheduler saves every task whose status it changes, in the
\* same turn of the thread; saves that change no status are left out.
saveTask ==
    LET saved == {t \in Tasks : status'[t] # status[t]}
    IN  /\ pending' = pending \cup saved
        /\ flushTimer' = (flushTimer \/ saved # {})
        /\ UNCHANGED <<disk, crashes, failures>>

\* Fault: flush does not put a failed write back.
flushForgetsFailures(lost) ==
    /\ failures + Cardinality(lost) <= MaxWriteFailures
    /\ disk' = Written(pending \ lost)
    /\ pending' = {}
    /\ flushTimer' = FALSE
    /\ failures' = failures + Cardinality(lost)
    /\ crashes' = crashes

\* flush: the writes of the tasks in lost throw; they stay pending, and no
\* timer is armed for them.
flush(lost) ==
    /\ failures + Cardinality(lost) <= MaxWriteFailures
    /\ disk' = Written(pending \ lost)
    /\ pending' = lost
    /\ flushTimer' = FALSE
    /\ failures' = failures + Cardinality(lost)
    /\ crashes' = crashes

\* The timer of the store fires.
FlushTimer ==
    /\ Idle
    /\ flushTimer
    /\ \E lost \in SUBSET pending : flush(lost)
    /\ UNCHANGED vars

\* dispose ends with flushSync, after its loop over the controllers or at
\* once when there are none.
FlushSync ==
    /\ DisposeDone \/ (Idle /\ backgroundTaskControllers = {} /\ UNCHANGED vars)
    /\ \E lost \in SUBSET pending : flush(lost)

\* Fault: every task that has a file is restored as queued.
restoreRequeuesAll(t) ==
    IF disk[t] # "none" THEN "queued" ELSE IF status[t] = "none" THEN "none" ELSE "gone"

\* PersistenceStore.restore: what a new daemon makes of the file of a task.
\* Files of tasks that are over are left on disk and not loaded.
restore(t) ==
    CASE disk[t] = "queued" -> "queued"
      [] disk[t] = "running" -> "stale"
      [] disk[t] = "none" /\ status[t] = "none" -> "none"
      [] OTHER -> "gone"

\* The process dies, at any point, and a new daemon constructs its scheduler:
\* it indexes the queued tasks and saves the stale ones.  It does not call
\* pumpQueue.
Restart ==
    LET restored == [t \in Tasks |-> restore(t)]
        queued   == {t \in Tasks : restored[t] = "queued"}
        stale    == {t \in Tasks : restored[t] = "stale" /\ disk[t] = "running"}
    IN  /\ crashes < MaxCrashes
        /\ crashes' = crashes + 1
        /\ status' = restored
        /\ queuedByHost' = [h \in Hosts |-> {t \in queued : req[t].host = h}]
        /\ ahead' = [t \in Tasks |-> IF t \in queued THEN ahead[t] \cap queued ELSE {}]
        /\ runningByHost' = [h \in Hosts |-> {}]
        /\ locks' = [k \in LockKeys |-> NoTask]
        /\ waiters' = {} /\ armed' = {}
        /\ finishedByTime' = [t \in Tasks |-> 0]
        /\ external' = {}
        /\ pumpHost' = NoHost /\ pumpTodo' = {} /\ pumpDepth' = 0
        /\ aborting' = FALSE /\ abortQueued' = {} /\ abortRunning' = {}
        /\ disposing' = FALSE
        /\ pending' = stale
        /\ flushTimer' = (stale # {})
        /\ UNCHANGED <<req, runs, disk, failures>>

\* Any other step of the scheduler.
SchedulerStep == Next /\ ~DisposeDone /\ saveTask

RestartNext ==
    \/ SchedulerStep
    \/ FlushTimer
    \/ FlushSync
    \/ Restart

RestartSpec == RestartInit /\ [][RestartNext]_restartVars

\* The thread's own steps, the ends of commands, and the store's timer.
FairRestartSpec ==
    /\ RestartSpec
    /\ WF_restartVars(PumpStep /\ saveTask)
    /\ WF_restartVars(AbortStep /\ saveTask)
    /\ WF_restartVars((\E t \in Tasks : DisposeStop(t)) /\ saveTask)
    /\ WF_restartVars(DisposeDone /\ FlushSync)
    /\ \A t \in Tasks : /\ SF_restartVars(TaskCallback(t) /\ saveTask)
                         /\ SF_restartVars(ExternalReport(t) /\ saveTask)
    /\ SF_restartVars(FlushTimer)

-----------------------------------------------------------------------------
(* Properties.                                                             *)

\* While the file of a task says that it is over it never comes to say
\* anything else, by a late flush, a stale mark or a restart: what a client
\* was told to be the end of a task is still the end for the next daemon.
DiskTerminalIsFinal ==
    [][\A t \in Tasks : disk[t] \in Terminal => disk'[t] = disk[t]]_restartVars

\* When nothing is waiting to be written, the files of all tasks the daemon
\* knows are exact: a restart then loses nothing but the running commands.
CleanStoreIsExact ==
    pending = {} => \A t \in Tasks : status[t] \in {"none", "gone"} \/ disk[t] = status[t]

\* A task whose file says that it was running is never queued again, by a
\* restart or by anything the next daemon does: its command may have had
\* effects already.
RunningIsNeverRequeued ==
    [][\A t \in Tasks : disk[t] = "running" => status'[t] # "queued"]_restartVars

\* daemon.ts: at the start of a task "the task has not executed yet at this
\* point, so rebinding cannot duplicate side effects".  A crash between the
\* start and the flush of it restores the task as queued, and it runs again.
NoSecondRun == \A t \in Tasks : runs[t] <= 1

\* BatchedPersistenceStore.flush: a failed write is re-queued "so the next
\* flush retries".  No timer is armed for that flush.
PendingIsWritten == \A t \in Tasks : t \in pending ~> t \notin pending
=============================================================================
