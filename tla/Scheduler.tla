------------------------------ MODULE Scheduler ------------------------------
(***************************************************************************)
(* The task scheduler of the daemon (src/src/scheduler/scheduler-service.ts) *)
(* with the lock table it consults (src/src/scheduler/lock-manager.ts).    *)
(*                                                                         *)
(* The program is one JavaScript thread: an operation runs to its end      *)
(* before the next callback, timer or request is served.  Operations that  *)
(* only assign are one action.  The ones that loop over tasks and call the *)
(* runner from inside the loop (pumpQueue, abortActiveTasks, dispose) are  *)
(* sequences of steps, with the loop's own state in variables, and nothing *)
(* else is enabled until the loop is over.  A runner that throws from      *)
(* startBackground re-enters finishTask and pumpQueue from inside the loop *)
(* of pumpQueue; pumpDepth counts the loops that wait for an inner one.    *)
(***************************************************************************)
EXTENDS Naturals, FiniteSets

CONSTANTS
    Tasks,            \* task ids, each used by at most one request
    Hosts,
    Cwds,             \* working directories
    NoTask, NoHost, NoCwd, NoRequest,
    HostLock,         \* the key of the lock of scope "host" (Cwds: scope "workdir")
    Requests,         \* the requests the environment may make
    MaxQueueSize,     \* maxQueueSize, 50 in the code
    MaxTotalRunning   \* maxTotalRunning, 4 in the code

Costs == {"tiny", "small", "medium", "large", "exclusive"}

\* What schedule() reads of a request once classifyCommand and the virtual
\* cwd have been applied.  ifBusy is "default" when the caller gave none.
RequestType ==
    [host : Hosts, cost : Costs, mutates : BOOLEAN, cwd : Cwds \cup {NoCwd},
     bypass : BOOLEAN, background : BOOLEAN,
     ifBusy : {"default", "run_anyway", "wait", "queue", "fail"}]

ASSUME RequestsAssumption == Requests \subseteq RequestType
ASSUME NullsAssumption ==
    /\ NoTask \notin Tasks
    /\ NoHost \notin Hosts
    /\ NoCwd \notin Cwds
    /\ HostLock \notin Cwds \cup {NoCwd}
    /\ NoRequest \notin RequestType
\* The tasks of one daemon's life.
ASSUME TasksAssumption == IsFiniteSet(Tasks)
ASSUME LimitsAssumption == MaxQueueSize \in Nat /\ MaxTotalRunning \in Nat

VARIABLES
    status,         \* task.status; "none" before the task exists
    req,            \* the request a task was created from
    external,       \* tasks made by registerExternal: executed by the caller
    runningByHost,  \* the index of running tasks
    queuedByHost,   \* the index of queued tasks
    ahead,          \* ahead[t]: the tasks with an earlier queuedAt than t
    locks,          \* LockManager.locks: the owner task of each lock
    waiters,        \* tasks with an entry in waitResolvers
    armed,          \* tasks whose runner may still call back
    finishedByTime, \* how often a task is in the index of finished tasks
    runs,           \* history: how often the runner was asked to run a task
    pumpHost,       \* the host pumpQueue is working on, or NoHost
    pumpTodo,       \* the rest of its snapshot of the queue
    pumpDepth,      \* outer pumpQueue loops waiting for this one
    aborting,       \* abortActiveTasks is in its loop
    abortQueued, abortRunning, \* the rest of its snapshot, in this order
    disposing       \* dispose is in its loop over background controllers

indexVars == <<runningByHost, queuedByHost, ahead>>
pumpVars  == <<pumpHost, pumpTodo, pumpDepth>>
abortVars == <<aborting, abortQueued, abortRunning>>
taskVars  == <<status, req, external, locks, waiters, armed, finishedByTime, runs>>
vars      == <<taskVars, indexVars, pumpVars, abortVars, disposing>>

\* "gone": the daemon restarted and no longer knows the task.
Statuses ==
    {"none", "queued", "running", "completed", "failed", "cancelled", "stale", "gone"}
Terminal == {"completed", "failed", "cancelled", "stale"}
LockKeys == Hosts \X (Cwds \cup {HostLock})

TaskType ==
    /\ status \in [Tasks -> Statuses]
    /\ req \in [Tasks -> Requests \cup {NoRequest}]
    /\ \A t \in Tasks : status[t] # "none" => req[t] \in Requests
    /\ external \subseteq Tasks
    /\ locks \in [LockKeys -> Tasks \cup {NoTask}]
    /\ waiters \subseteq Tasks
    /\ armed \subseteq {t \in Tasks : status[t] # "none"}
    /\ finishedByTime \in [Tasks -> Nat]
    /\ runs \in [Tasks -> Nat]

IndexType ==
    /\ runningByHost \in [Hosts -> SUBSET Tasks]
    /\ queuedByHost \in [Hosts -> SUBSET Tasks]
    /\ ahead \in [Tasks -> SUBSET Tasks]

PumpType ==
    /\ pumpHost \in Hosts \cup {NoHost}
    /\ pumpTodo \subseteq {t \in Tasks : status[t] # "none"}
    /\ pumpDepth \in Nat

LoopType ==
    /\ aborting \in BOOLEAN
    /\ abortQueued \subseteq Tasks
    /\ abortRunning \subseteq Tasks
    /\ disposing \in BOOLEAN

TypeOK == TaskType /\ IndexType /\ PumpType /\ LoopType

Init ==
    /\ status = [t \in Tasks |-> "none"]
    /\ req = [t \in Tasks |-> NoRequest]
    /\ external = {}
    /\ runningByHost = [h \in Hosts |-> {}]
    /\ queuedByHost = [h \in Hosts |-> {}]
    /\ ahead = [t \in Tasks |-> {}]
    /\ locks = [k \in LockKeys |-> NoTask]
    /\ waiters = {}
    /\ armed = {}
    /\ finishedByTime = [t \in Tasks |-> 0]
    /\ runs = [t \in Tasks |-> 0]
    /\ pumpHost = NoHost
    /\ pumpTodo = {}
    /\ pumpDepth = 0
    /\ aborting = FALSE
    /\ abortQueued = {}
    /\ abortRunning = {}
    /\ disposing = FALSE

-----------------------------------------------------------------------------
(* What the operations read.                                               *)

\* The thread is between two operations.
Idle == pumpHost = NoHost /\ ~aborting /\ ~disposing

Active(t) == status[t] \in {"queued", "running"}

\* The tasks getQueuedTasks(h) returns.
getQueuedTasks(h) == {t \in queuedByHost[h] : status[t] = "queued"}

getNonBypassRunningTasks(h) ==
    {t \in runningByHost[h] : status[t] = "running" /\ ~req[t].bypass}

\* The lock startTask takes before it runs a request: the host for an
\* exclusive task, else the working directory of a mutating one.
NeedsLock(r) == r.cost = "exclusive" \/ (r.mutates /\ r.cwd # NoCwd)
LockKey(r) == <<r.host, IF r.cost = "exclusive" THEN HostLock ELSE r.cwd>>

\* LockManager.acquire succeeds: the lock is free or is the task's own.
CanAcquire(t, r) == NeedsLock(r) => locks[LockKey(r)] \in {NoTask, t}

acquire(t, r) ==
    IF NeedsLock(r) THEN [locks EXCEPT ![LockKey(r)] = t] ELSE locks

\* Fault: the locks of a task are kept.
releaseForTaskForgotten(t) == locks

releaseForTask(t) ==
    [k \in LockKeys |-> IF locks[k] = t THEN NoTask ELSE locks[k]]

\* The owners of the locks that conflict with a workdir.
getConflictingLocks(r) ==
    {locks[<<r.host, HostLock>>], locks[<<r.host, r.cwd>>]} \ {NoTask}

LockBlockers(r) ==
    IF r.cost \in {"large", "exclusive"} /\ r.cwd # NoCwd
    THEN getConflictingLocks(r) ELSE {}

CostBlockers(r) ==
    LET nonBypass == getNonBypassRunningTasks(r.host)
    IN  CASE r.cost = "tiny" -> {u \in nonBypass : req[u].cost = "exclusive"}
          [] r.cost \in {"small", "medium"} ->
               IF Cardinality(nonBypass) >= MaxTotalRunning THEN nonBypass ELSE {}
          [] r.cost = "large" ->
               {u \in nonBypass : req[u].cost \in {"large", "exclusive"}}
          [] r.cost = "exclusive" -> nonBypass

findBlockersWithPrecomputed(r) ==
    IF LockBlockers(r) # {} THEN LockBlockers(r) ELSE CostBlockers(r)

findBlockers(r) ==
    IF runningByHost[r.host] = {} THEN {} ELSE findBlockersWithPrecomputed(r)

defaultIfBusy(r) ==
    IF r.cost \in {"tiny", "small"} THEN "run_anyway" ELSE "queue"

\* A request to run despite the blockers is queued behind an exclusive one.
EffectiveIfBusy(r) ==
    LET ifBusy == IF r.ifBusy = "default" THEN defaultIfBusy(r) ELSE r.ifBusy
    IN  IF /\ ifBusy = "run_anyway"
           /\ \E b \in findBlockers(r) : req[b].cost = "exclusive"
        THEN "queue" ELSE ifBusy

-----------------------------------------------------------------------------
(* Pieces of operations: each fixes the new value of the variables in its  *)
(* name and nothing else.                                                  *)

removeFromRunning(t, h) == [runningByHost EXCEPT ![h] = @ \ {t}]
removeFromQueued(t, h)  == [queuedByHost EXCEPT ![h] = @ \ {t}]
leaveQueue(t) == [u \in Tasks |-> IF u = t THEN {} ELSE ahead[u] \ {t}]

\* Fault: the waiters are not told.
resolveWaitersForgotten(t) == waiters' = waiters
resolveWaiters(t) == waiters' = waiters \ {t}

addToFinishedIndex(t) == finishedByTime' = [finishedByTime EXCEPT ![t] = @ + 1]

\* Fault: the end of a task does not pump the queue.
pumpQueueSkipped(h) == UNCHANGED pumpVars

\* The call of pumpQueue(h): its first snapshot of the queue.
pumpQueue(h) ==
    /\ pumpHost' = h
    /\ pumpDepth' = 0
    /\ pumpTodo' = {t \in queuedByHost'[h] : status'[t] = "queued"}

QueueFull(index) == Cardinality(index) >= MaxQueueSize

\* enqueue: index is queuedByHost of the host as the caller left it.  Over
\* the limit the task is cancelled, and the index keeps what it holds.
enqueue(t, r, index) ==
    IF QueueFull(index)
    THEN /\ status' = [status EXCEPT ![t] = "cancelled"]
         /\ queuedByHost' = [queuedByHost EXCEPT ![r.host] = index]
         /\ ahead' = leaveQueue(t)
    ELSE /\ status' = [status EXCEPT ![t] = "queued"]
         /\ queuedByHost' = [queuedByHost EXCEPT ![r.host] = index \cup {t}]
         /\ ahead' = [u \in Tasks |-> IF u = t THEN index \ {t} ELSE ahead[u] \ {t}]

\* startTask when the lock is taken: index the task, then enqueue it.
startTaskLocked(t, r) ==
    /\ ~CanAcquire(t, r)
    /\ enqueue(t, r, queuedByHost[r.host] \cup {t})
    /\ UNCHANGED <<runningByHost, locks, waiters, armed, finishedByTime, runs>>

\* Fault: startTask runs the task although its lock is taken.
startTaskIgnoringLock(t, r) ==
    /\ locks' = acquire(t, r)
    /\ status' = [status EXCEPT ![t] = "running"]
    /\ queuedByHost' = removeFromQueued(t, r.host)
    /\ ahead' = leaveQueue(t)
    /\ runningByHost' = [runningByHost EXCEPT ![r.host] = @ \cup {t}]
    /\ runs' = [runs EXCEPT ![t] = @ + 1]
    /\ armed' = armed \cup {t}
    /\ UNCHANGED <<waiters, finishedByTime>>

\* startTask when the runner takes the task.
startTaskRuns(t, r) ==
    /\ CanAcquire(t, r)
    /\ locks' = acquire(t, r)
    /\ status' = [status EXCEPT ![t] = "running"]
    /\ queuedByHost' = removeFromQueued(t, r.host)
    /\ ahead' = leaveQueue(t)
    /\ runningByHost' = [runningByHost EXCEPT ![r.host] = @ \cup {t}]
    /\ runs' = [runs EXCEPT ![t] = @ + 1]
    /\ armed' = armed \cup {t}
    /\ UNCHANGED <<waiters, finishedByTime>>

\* startTask when startBackground throws: the catch block finishes the task
\* at once, up to finishTask's call of pumpQueue.  The 30 s timer that
\* startBackground had already set may still call back (timer = TRUE).
startTaskThrows(t, r, timer) ==
    /\ CanAcquire(t, r)
    /\ r.background
    /\ status' = [status EXCEPT ![t] = "failed"]
    /\ queuedByHost' = removeFromQueued(t, r.host)
    /\ ahead' = leaveQueue(t)
    /\ runs' = [runs EXCEPT ![t] = @ + 1]
    /\ armed' = IF timer THEN armed \cup {t} ELSE armed
    /\ addToFinishedIndex(t)
    /\ resolveWaiters(t)
    /\ UNCHANGED <<runningByHost, locks>>

-----------------------------------------------------------------------------
(* schedule and registerExternal.                                          *)

\* createTask: a fresh id bound to the request.
createTask(t, r) ==
    /\ Idle
    /\ status[t] = "none"
    /\ req' = [req EXCEPT ![t] = r]

ScheduleStarts(r) ==
    r.bypass \/ findBlockers(r) = {} \/ EffectiveIfBusy(r) = "run_anyway"

ScheduleRun(t, r) ==
    /\ createTask(t, r)
    /\ ScheduleStarts(r)
    /\ startTaskRuns(t, r)
    /\ UNCHANGED <<external, pumpVars, abortVars, disposing>>

ScheduleThrow(t, r, timer) ==
    /\ createTask(t, r)
    /\ ScheduleStarts(r)
    /\ startTaskThrows(t, r, timer)
    /\ pumpQueue(r.host)
    /\ UNCHANGED <<external, abortVars, disposing>>

ScheduleLocked(t, r) ==
    /\ createTask(t, r)
    /\ ScheduleStarts(r)
    /\ startTaskLocked(t, r)
    /\ UNCHANGED <<external, pumpVars, abortVars, disposing>>

ScheduleQueue(t, r) ==
    /\ createTask(t, r)
    /\ ~ScheduleStarts(r)
    /\ EffectiveIfBusy(r) = "queue"
    /\ enqueue(t, r, queuedByHost[r.host])
    /\ UNCHANGED <<external, runningByHost, locks, waiters, armed, finishedByTime,
                   runs, pumpVars, abortVars, disposing>>

\* if_busy=fail and if_busy=wait: the task is recorded as cancelled.
ScheduleReject(t, r) ==
    /\ createTask(t, r)
    /\ ~ScheduleStarts(r)
    /\ EffectiveIfBusy(r) \in {"fail", "wait"}
    /\ status' = [status EXCEPT ![t] = "cancelled"]
    /\ UNCHANGED <<external, locks, waiters, armed, finishedByTime, runs, indexVars,
                   pumpVars, abortVars, disposing>>

\* An external task is running whether or not it gets its lock.
registerExternal(t, r) ==
    /\ createTask(t, r)
    /\ external' = external \cup {t}
    /\ status' = [status EXCEPT ![t] = "running"]
    /\ runningByHost' = [runningByHost EXCEPT ![r.host] = @ \cup {t}]
    /\ locks' = IF CanAcquire(t, r) THEN acquire(t, r) ELSE locks
    /\ UNCHANGED <<waiters, armed, finishedByTime, runs, queuedByHost, ahead,
                   pumpVars, abortVars, disposing>>

-----------------------------------------------------------------------------
(* finishTask, and the callbacks that reach it.                            *)

\* finishTask past its early returns, up to its call of pumpQueue.
finishTask(t, outcome) ==
    /\ status' = [status EXCEPT ![t] = outcome]
    /\ runningByHost' = removeFromRunning(t, req[t].host)
    /\ addToFinishedIndex(t)
    /\ locks' = releaseForTask(t)
    /\ resolveWaiters(t)
    /\ UNCHANGED <<req, external, runs, queuedByHost, ahead>>
    /\ pumpQueue(req[t].host)

\* Fault: finishTask does not stop at a cancelled task.
CallbackIgnoringCancel(t, outcome, again) ==
    /\ Idle
    /\ t \in armed
    /\ status[t] \in {"running", "cancelled"} \/ outcome = "failed"
    /\ armed' = armed \ {t}
    /\ ~again
    /\ finishTask(t, outcome)
    /\ UNCHANGED <<abortVars, disposing>>

\* The runner's promise settles, or its onClose is called.  A background
\* task that failed by timeout calls back again when its stream closes
\* (again = TRUE), and so does one whose start threw: finishTask only stops
\* at cancelled tasks, so these run through it a second time.
Callback(t, outcome, again) ==
    /\ Idle
    /\ t \in armed
    /\ status[t] # "cancelled"
    /\ status[t] # "running" => outcome = "failed"
    /\ again => status[t] = "running" /\ req[t].background /\ outcome = "failed"
    /\ armed' = IF again THEN armed ELSE armed \ {t}
    /\ finishTask(t, outcome)
    /\ UNCHANGED <<abortVars, disposing>>

\* finishTask returns early: the task was cancelled.
CallbackCancelled(t) ==
    /\ Idle
    /\ t \in armed
    /\ status[t] = "cancelled"
    /\ armed' = armed \ {t}
    /\ UNCHANGED <<status, req, external, locks, waiters, finishedByTime, runs,
                   indexVars, pumpVars, abortVars, disposing>>

\* finishExternalTask sets the status before it calls removeFromIndex, which
\* then finds nothing to remove: the index keeps the task.
finishExternalTask(t, outcome) ==
    /\ Idle
    /\ t \in external
    /\ status[t] = "running"
    /\ status' = [status EXCEPT ![t] = outcome]
    /\ addToFinishedIndex(t)
    /\ locks' = releaseForTask(t)
    /\ resolveWaiters(t)
    /\ UNCHANGED <<req, external, armed, runs, indexVars, abortVars, disposing>>
    /\ pumpQueue(req[t].host)

-----------------------------------------------------------------------------
(* The loop of pumpQueue.                                                  *)

\* The first task of the snapshot in queuedAt order.
PumpHead(t) ==
    /\ pumpHost # NoHost
    /\ t \in pumpTodo
    /\ ahead[t] \cap pumpTodo = {}

PumpBlocked(t) ==
    /\ PumpHead(t)
    /\ findBlockersWithPrecomputed(req[t]) # {}
    /\ pumpTodo' = pumpTodo \ {t}
    /\ UNCHANGED <<taskVars, indexVars, pumpHost, pumpDepth, abortVars, disposing>>

\* The lock is taken: the task goes back to the queue, the loop goes on.
PumpLocked(t) ==
    /\ PumpHead(t)
    /\ findBlockersWithPrecomputed(req[t]) = {}
    /\ startTaskLocked(t, req[t])
    /\ pumpTodo' = pumpTodo \ {t}
    /\ UNCHANGED <<req, external, pumpHost, pumpDepth, abortVars, disposing>>

\* Fault: the loop stops after the first task it starts.
PumpStartKeepsSnapshot(t) ==
    /\ PumpHead(t)
    /\ findBlockersWithPrecomputed(req[t]) = {}
    /\ startTaskRuns(t, req[t])
    /\ pumpTodo' = {}
    /\ UNCHANGED <<req, external, pumpHost, pumpDepth, abortVars, disposing>>

\* The task starts: the loop takes a new snapshot.
PumpStart(t) ==
    /\ PumpHead(t)
    /\ findBlockersWithPrecomputed(req[t]) = {}
    /\ startTaskRuns(t, req[t])
    /\ pumpTodo' = {u \in queuedByHost'[pumpHost] : status'[u] = "queued"}
    /\ UNCHANGED <<req, external, pumpHost, pumpDepth, abortVars, disposing>>

\* The runner throws: finishTask runs a pumpQueue of its own inside this one.
PumpThrow(t, timer) ==
    /\ PumpHead(t)
    /\ findBlockersWithPrecomputed(req[t]) = {}
    /\ startTaskThrows(t, req[t], timer)
    /\ pumpTodo' = {u \in queuedByHost'[pumpHost] : status'[u] = "queued"}
    /\ pumpDepth' = pumpDepth + 1
    /\ UNCHANGED <<req, external, pumpHost, abortVars, disposing>>

\* The inner pumpQueue returns; the outer one takes a new snapshot.
PumpReturn ==
    /\ pumpHost # NoHost
    /\ pumpTodo = {}
    /\ pumpDepth > 0
    /\ pumpDepth' = pumpDepth - 1
    /\ pumpTodo' = getQueuedTasks(pumpHost)
    /\ UNCHANGED <<taskVars, indexVars, pumpHost, abortVars, disposing>>

PumpDone ==
    /\ pumpHost # NoHost
    /\ pumpTodo = {}
    /\ pumpDepth = 0
    /\ pumpHost' = NoHost
    /\ UNCHANGED <<taskVars, indexVars, pumpTodo, pumpDepth, abortVars, disposing>>

PumpStep ==
    \/ \E t \in Tasks : PumpBlocked(t) \/ PumpLocked(t) \/ PumpStart(t)
    \/ \E t \in Tasks, timer \in BOOLEAN : PumpThrow(t, timer)
    \/ PumpReturn
    \/ PumpDone

-----------------------------------------------------------------------------
(* waitTask, dequeueTask, cancelTask, abortActiveTasks, dispose.           *)

waitTask(t) ==
    /\ Idle
    /\ Active(t)
    /\ waiters' = waiters \cup {t}
    /\ UNCHANGED <<status, req, external, locks, armed, finishedByTime, runs,
                   indexVars, pumpVars, abortVars, disposing>>

\* The waiter's own timer removes its entry.
WaitTimeout(t) ==
    /\ Idle
    /\ t \in waiters
    /\ waiters' = waiters \ {t}
    /\ UNCHANGED <<status, req, external, locks, armed, finishedByTime, runs,
                   indexVars, pumpVars, abortVars, disposing>>

\* As in finishExternalTask, removeFromIndex comes too late: the task keeps
\* its place in the index, and only getQueuedTasks passes over it.
dequeueTask(t) ==
    /\ Idle
    /\ status[t] = "queued"
    /\ status' = [status EXCEPT ![t] = "cancelled"]
    /\ ahead' = leaveQueue(t)
    /\ resolveWaiters(t)
    /\ UNCHANGED <<req, external, locks, armed, finishedByTime, runs, runningByHost,
                   queuedByHost, pumpVars, abortVars, disposing>>

\* Fault: cancelTask sets the status before it calls removeFromIndex.
cancelTaskIndexAfterStatus(t) ==
    /\ status' = [status EXCEPT ![t] = "cancelled"]
    /\ UNCHANGED <<runningByHost, queuedByHost>>
    /\ ahead' = leaveQueue(t)
    /\ addToFinishedIndex(t)
    /\ locks' = releaseForTask(t)
    /\ resolveWaiters(t)
    /\ pumpQueue(req[t].host)
    /\ UNCHANGED <<req, external, armed, runs>>

\* cancelTask of a queued task, of a background task (its controller stops
\* it), or of another one whose runner agrees; up to the call of pumpQueue.
\* A runner that refuses leaves everything as it was.
cancelTask(t) ==
    /\ status' = [status EXCEPT ![t] = "cancelled"]
    /\ runningByHost' = removeFromRunning(t, req[t].host)
    /\ queuedByHost' = removeFromQueued(t, req[t].host)
    /\ ahead' = leaveQueue(t)
    /\ addToFinishedIndex(t)
    /\ locks' = releaseForTask(t)
    /\ resolveWaiters(t)
    /\ pumpQueue(req[t].host)
    /\ UNCHANGED <<req, external, armed, runs>>

Cancel(t) ==
    /\ Idle
    /\ Active(t)
    /\ cancelTask(t)
    /\ UNCHANGED <<abortVars, disposing>>

\* The runner can refuse: it is not queued and no controller stops it.
CanRefuse(t) == status[t] = "running" /\ (t \in external \/ ~req[t].background)

\* The snapshot of the active tasks, sorted.
abortActiveTasks ==
    /\ Idle
    /\ aborting' = TRUE
    /\ abortQueued' = {t \in Tasks : status[t] = "queued"}
    /\ abortRunning' = {t \in Tasks : status[t] = "running"}
    /\ UNCHANGED <<taskVars, indexVars, pumpVars, disposing>>

\* The next task of the snapshot: queued ones before running ones.
AbortHead(t) ==
    /\ aborting
    /\ pumpHost = NoHost
    /\ t \in abortQueued \/ (abortQueued = {} /\ t \in abortRunning)
    /\ abortQueued' = abortQueued \ {t}
    /\ abortRunning' = abortRunning \ {t}
    /\ UNCHANGED <<aborting, disposing>>

AbortCancel(t) == AbortHead(t) /\ Active(t) /\ cancelTask(t)

\* cancelTask returned false: not active any more, or refused.
AbortSkip(t) ==
    /\ AbortHead(t)
    /\ ~Active(t) \/ CanRefuse(t)
    /\ UNCHANGED <<taskVars, indexVars, pumpVars>>

AbortDone ==
    /\ aborting
    /\ pumpHost = NoHost
    /\ abortQueued = {} /\ abortRunning = {}
    /\ aborting' = FALSE
    /\ UNCHANGED <<taskVars, indexVars, pumpVars, abortQueued, abortRunning, disposing>>

\* The background controllers the scheduler holds.
backgroundTaskControllers ==
    {t \in Tasks \ external : status[t] = "running" /\ req[t].background}

dispose ==
    /\ Idle
    /\ backgroundTaskControllers # {}
    /\ disposing' = TRUE
    /\ UNCHANGED <<taskVars, indexVars, pumpVars, abortVars>>

\* controller.stop() calls onClose before it returns.
DisposeStop(t) ==
    /\ disposing
    /\ pumpHost = NoHost
    /\ t \in backgroundTaskControllers
    /\ armed' = armed \ {t}
    /\ finishTask(t, "failed")
    /\ UNCHANGED <<abortVars, disposing>>

DisposeDone ==
    /\ disposing
    /\ pumpHost = NoHost
    /\ backgroundTaskControllers = {}
    /\ disposing' = FALSE
    /\ UNCHANGED <<taskVars, indexVars, pumpVars, abortVars>>

-----------------------------------------------------------------------------
Schedule ==
    \E t \in Tasks, r \in Requests :
        \/ ScheduleRun(t, r)
        \/ \E timer \in BOOLEAN : ScheduleThrow(t, r, timer)
        \/ ScheduleLocked(t, r)
        \/ ScheduleQueue(t, r)
        \/ ScheduleReject(t, r)
        \/ registerExternal(t, r)

TaskCallback(t) ==
    \/ \E outcome \in {"completed", "failed"}, again \in BOOLEAN :
           Callback(t, outcome, again)
    \/ CallbackCancelled(t)

ExternalReport(t) ==
    \E outcome \in {"completed", "failed", "cancelled"} : finishExternalTask(t, outcome)

Client ==
    \/ \E t \in Tasks : waitTask(t) \/ dequeueTask(t) \/ Cancel(t)
    \/ abortActiveTasks
    \/ dispose

AbortStep == AbortDone \/ \E t \in Tasks : AbortCancel(t) \/ AbortSkip(t)
DisposeStep == DisposeDone \/ \E t \in Tasks : DisposeStop(t)

Next ==
    \/ Schedule
    \/ Client
    \/ \E t \in Tasks : TaskCallback(t) \/ ExternalReport(t) \/ WaitTimeout(t)
    \/ PumpStep
    \/ AbortStep
    \/ DisposeStep

Spec == Init /\ [][Next]_vars

\* The thread runs its loops to their end, and a command that was started
\* ends: every runner has a deadline (timeoutMs, the 30 s and 5 min timers of
\* startBackground).  The end of a command waits in the event queue until it
\* is served, whatever operations are served between: strong fairness.
\* Clients owe nothing.
Fairness ==
    /\ WF_vars(PumpStep)
    /\ WF_vars(AbortStep)
    /\ WF_vars(DisposeStep)
    /\ \A t \in Tasks : SF_vars(TaskCallback(t)) /\ SF_vars(ExternalReport(t))

FairSpec == Spec /\ Fairness

-----------------------------------------------------------------------------
(* Properties.                                                             *)

\* The cancelled tasks that still have a place in the index of queued tasks:
\* the ones enqueue cancelled at the limit, and the dequeued ones.
Dropped(h) == {t \in queuedByHost[h] : status[t] = "cancelled"}

\* The two indices agree with task.status after every step, also in the
\* middle of pumpQueue, of an abort and of dispose: every running or queued
\* task is in the index of its host and in no other.  What else an index
\* holds was left there by the operations that set the status before they
\* call removeFromIndex (dequeueTask, finishExternalTask) and by the full
\* queue: cancelled tasks, and external tasks that are over.
IndexMatchesStatus ==
    \A h \in Hosts :
        /\ {t \in runningByHost[h] : status[t] = "running"}
             = {t \in Tasks : status[t] = "running" /\ req[t].host = h}
        /\ getQueuedTasks(h) = {t \in Tasks : status[t] = "queued" /\ req[t].host = h}
        /\ \A t \in runningByHost[h] :
              status[t] = "running" \/ (t \in external /\ status[t] \in Terminal)
        /\ queuedByHost[h] = getQueuedTasks(h) \cup Dropped(h)

\* A lock is only ever held by a running task that needs it: whatever ends a
\* task (a callback, a throwing runner, cancel, abort, dispose) gives its
\* locks back, so no lock outlives its owner and blocks a host.
LocksHeldByRunningTasks ==
    \A k \in LockKeys : locks[k] # NoTask =>
        /\ status[locks[k]] = "running"
        /\ NeedsLock(req[locks[k]])
        /\ LockKey(req[locks[k]]) = k

\* Two tasks that need the same lock (two exclusive ones on a host, two
\* mutating ones in a working directory) never run at the same time when the
\* scheduler started both, whatever scheduler=bypass or if_busy=run_anyway
\* asked for.
ConflictingTasksExclude ==
    \A t, u \in Tasks \ external :
        (/\ t # u
         /\ status[t] = "running" /\ status[u] = "running"
         /\ NeedsLock(req[t]) /\ NeedsLock(req[u]))
        => LockKey(req[t]) # LockKey(req[u])

\* startTask would start the task now.
Startable(t) == findBlockersWithPrecomputed(req[t]) = {} /\ CanAcquire(t, req[t])

\* No missed wake-up: outside pumpQueue, no queued task could be started.
\* Every operation that frees capacity or a lock pumps the queue of that
\* host, and one pump leaves nothing startable behind.
QueueIsPumpedDry ==
    pumpHost = NoHost => \A t \in Tasks : status[t] = "queued" => ~Startable(t)

\* A host with queued tasks and nothing running would never be pumped again.
NoStrandedQueue ==
    pumpHost = NoHost =>
        \A t \in Tasks : status[t] = "queued" =>
            \E u \in Tasks : status[u] = "running" /\ req[u].host = req[t].host

\* Whatever ends a task answers its waiters (waitTask) in the same step,
\* except that pumpQueue drops a task at the limit of the queue without
\* resolving them: those wait for their timeouts.
NoWaiterLeftBehind ==
    [][\A t \in waiters' :
          Active(t) => \/ Active(t)'
                       \/ t \in pumpTodo /\ t \in Dropped(req[t].host)']_vars

\* A task that is over stays as it is, whatever callback, cancel or abort
\* comes late: a cancelled task is never turned into completed or failed.
TerminalIsFinal ==
    [][\A t \in Tasks : status[t] \in Terminal => status'[t] = status[t]]_vars

\* The runner is asked at most once to run a task, and only the scheduler's
\* running tasks and those that ended have been given to it: no start while
\* queued, and no second start after a retry of the queue.
RunAtMostOnce == \A t \in Tasks : runs[t] <= (IF status[t] = "queued" THEN 0 ELSE 1)

\* abortActiveTasks starts nothing: it cancels the queued tasks first, so the
\* capacity it frees is never given to a task it is about to cancel.
AbortPromotesNothing ==
    [][aborting => \A t \in Tasks : status[t] # "running" => status'[t] # "running"]_vars

\* SKILL.md: an exclusive task "blocks all other tasks".  The code lets small
\* and medium tasks start next to it.
ExclusiveBlocksOthers ==
    [][\A t \in Tasks \ external' :
          (status[t] # "running" /\ status'[t] = "running" /\ ~req'[t].bypass) =>
              \A u \in getNonBypassRunningTasks(req'[t].host) : req[u].cost # "exclusive"]_vars

\* startTask's comment: a task whose lock is taken is re-enqueued "so a later
\* pumpQueue can retry".  With the queue at its limit enqueue cancels it.
LockedTaskIsRequeued ==
    [][\A t \in pumpTodo : (pumpHost # NoHost /\ t \notin pumpTodo')
          => status'[t] # "cancelled"]_vars

\* schedule's answer to a rejected request: "Queue is full. Try again later or
\* remove queued tasks."  The places of dequeued tasks, and of those dropped at
\* the limit, are never given back: a request is rejected with an empty queue.
QueueFullMeansFull ==
    [][\A t \in Tasks : \A r \in Requests : ScheduleQueue(t, r) =>
          (status'[t] = "cancelled" =>
              Cardinality(getQueuedTasks(r.host)) >= MaxQueueSize)]_vars

\* A queued task does not stay queued for ever while commands end.
QueuedTaskLeavesQueue == \A t \in Tasks : status[t] = "queued" ~> status[t] # "queued"

\* Every accepted waiter is answered while commands end, without counting on
\* its timeout, unless the full queue dropped its task.
WaiterIsAnswered ==
    \A t \in Tasks : t \in waiters ~> (t \notin waiters \/ t \in Dropped(req[t].host))

-----------------------------------------------------------------------------
(* What the scheduler promises.                                            *)

\* The lock a task has to hold while it runs.  External tasks run without it
\* when it is taken, so they promise nothing.
ClaimOf(t) ==
    IF status[t] # "none" /\ t \notin external /\ NeedsLock(req[t])
    THEN LockKey(req[t]) ELSE NoTask

Board ==
    INSTANCE TaskBoard
    WITH Claims <- LockKeys, NoClaim <- NoTask,
         phase <- status, claim <- [t \in Tasks |-> ClaimOf(t)]

\* The scheduler implements TaskBoard: seen through task.status and the lock
\* each request needs, every step of schedule, of the loop of pumpQueue, of a
\* callback, an abort or dispose submits, starts or ends at most one task,
\* starts it only when nobody holds its claim, and never starts or ends a task
\* a second time.
ImplementsTaskBoard == Board!BoardSpec
=============================================================================
