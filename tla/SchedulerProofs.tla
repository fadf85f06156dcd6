-------------------------- MODULE SchedulerProofs --------------------------
(***************************************************************************)
(* Proofs about Scheduler, and about SchedulerRestart, for any sets of     *)
(* tasks, hosts, directories and requests, any limits, and any number of   *)
(* restarts and failed writes.                                             *)
(***************************************************************************)
EXTENDS SchedulerRestart, FiniteSetTheorems, TLAPS

\* What the type of a request gives.
LEMMA RequestFields ==
    ASSUME NEW r \in Requests
    PROVE  /\ r.host \in Hosts
           /\ r.cost \in Costs
           /\ r.cwd \in Cwds \cup {NoCwd}
           /\ r.bypass \in BOOLEAN
           /\ r.background \in BOOLEAN
           /\ NeedsLock(r) => LockKey(r) \in LockKeys
           /\ LockKey(r)[1] = r.host
           /\ r # NoRequest
<1>1. r \in RequestType
  BY RequestsAssumption
<1>2. /\ r.host \in Hosts /\ r.cost \in Costs /\ r.cwd \in Cwds \cup {NoCwd}
      /\ r.bypass \in BOOLEAN /\ r.background \in BOOLEAN
  BY <1>1 DEF RequestType
<1>3. r # NoRequest
  BY <1>1, NullsAssumption
<1>4. LockKey(r)[1] = r.host
  BY DEF LockKey
<1>5. NeedsLock(r) => LockKey(r) \in LockKeys
  BY <1>2 DEF NeedsLock, LockKey, LockKeys
<1> QED
  BY <1>2, <1>3, <1>4, <1>5

-----------------------------------------------------------------------------
(* Type correctness.                                                       *)

LEMMA InitType == Init => TypeOK
<1> SUFFICES ASSUME Init PROVE TypeOK
  OBVIOUS
<1>1. TaskType
  BY DEF Init, TaskType, Statuses
<1>2. IndexType /\ PumpType
  BY DEF Init, IndexType, PumpType
<1>3. LoopType
  <2>1. abortQueued \subseteq Tasks /\ abortRunning \subseteq Tasks
    BY DEF Init
  <2>2. aborting \in BOOLEAN /\ disposing \in BOOLEAN
    BY Zenon DEF Init
  <2> QED
    BY <2>1, <2>2 DEF LoopType
<1> QED
  BY <1>1, <1>2, <1>3 DEF TypeOK

\* The values the pieces of operations give to variables.
LEMMA PieceTypes ==
    ASSUME TypeOK, NEW t \in Tasks, NEW h \in Hosts
    PROVE  /\ leaveQueue(t) \in [Tasks -> SUBSET Tasks]
           /\ removeFromQueued(t, h) \in [Hosts -> SUBSET Tasks]
           /\ removeFromRunning(t, h) \in [Hosts -> SUBSET Tasks]
           /\ [runningByHost EXCEPT ![h] = @ \cup {t}] \in [Hosts -> SUBSET Tasks]
           /\ releaseForTask(t) \in [LockKeys -> Tasks \cup {NoTask}]
           /\ \A s \in Statuses : [status EXCEPT ![t] = s] \in [Tasks -> Statuses]
           /\ \A r \in Requests :
                 /\ acquire(t, r) \in [LockKeys -> Tasks \cup {NoTask}]
                 /\ [req EXCEPT ![t] = r] \in [Tasks -> Requests \cup {NoRequest}]
           /\ [runs EXCEPT ![t] = @ + 1] \in [Tasks -> Nat]
           /\ [finishedByTime EXCEPT ![t] = @ + 1] \in [Tasks -> Nat]
<1>1. leaveQueue(t) \in [Tasks -> SUBSET Tasks]
  BY DEF TypeOK, IndexType, leaveQueue
<1>2. /\ removeFromQueued(t, h) \in [Hosts -> SUBSET Tasks]
      /\ removeFromRunning(t, h) \in [Hosts -> SUBSET Tasks]
      /\ [runningByHost EXCEPT ![h] = @ \cup {t}] \in [Hosts -> SUBSET Tasks]
  BY DEF TypeOK, IndexType, removeFromQueued, removeFromRunning
<1>3. releaseForTask(t) \in [LockKeys -> Tasks \cup {NoTask}]
  BY DEF TypeOK, TaskType, releaseForTask
<1>4. \A r \in Requests : acquire(t, r) \in [LockKeys -> Tasks \cup {NoTask}]
  BY DEF TypeOK, TaskType, acquire
<1>5. \A r \in Requests : [req EXCEPT ![t] = r] \in [Tasks -> Requests \cup {NoRequest}]
  BY DEF TypeOK, TaskType
<1>6. \A s \in Statuses : [status EXCEPT ![t] = s] \in [Tasks -> Statuses]
  BY DEF TypeOK, TaskType
<1>7. /\ [runs EXCEPT ![t] = @ + 1] \in [Tasks -> Nat]
      /\ [finishedByTime EXCEPT ![t] = @ + 1] \in [Tasks -> Nat]
  BY DEF TypeOK, TaskType
<1> QED
  BY <1>1, <1>2, <1>3, <1>4, <1>5, <1>6, <1>7

\* enqueue changes the status of one task, and leaves typed indices.
LEMMA EnqueueType ==
    ASSUME TypeOK, NEW t \in Tasks, NEW r \in Requests, NEW index \in SUBSET Tasks,
           enqueue(t, r, index)
    PROVE  /\ \E s \in {"cancelled", "queued"} : status' = [status EXCEPT ![t] = s]
           /\ queuedByHost' \in [Hosts -> SUBSET Tasks]
           /\ ahead' \in [Tasks -> SUBSET Tasks]
<1>1. CASE QueueFull(index)
  <2>1. /\ status' = [status EXCEPT ![t] = "cancelled"]
        /\ queuedByHost' = [queuedByHost EXCEPT ![r.host] = index]
        /\ ahead' = leaveQueue(t)
    BY <1>1 DEF enqueue
  <2> QED
    BY <2>1, RequestFields, PieceTypes DEF TypeOK, IndexType
<1>2. CASE ~QueueFull(index)
  <2>1. /\ status' = [status EXCEPT ![t] = "queued"]
        /\ queuedByHost' = [queuedByHost EXCEPT ![r.host] = index \cup {t}]
        /\ ahead' = [u \in Tasks |-> IF u = t THEN index \ {t} ELSE ahead[u] \ {t}]
    BY <1>2 DEF enqueue
  <2>2. ahead' \in [Tasks -> SUBSET Tasks]
    BY <2>1 DEF TypeOK, IndexType
  <2> QED
    BY <2>1, <2>2 DEF TypeOK, IndexType
<1> QED
  BY <1>1, <1>2

\* The three ends of startTask: which variables a caller has left to type.
Starts(t, r) ==
    \/ startTaskRuns(t, r)
    \/ startTaskLocked(t, r)
    \/ \E timer \in BOOLEAN : startTaskThrows(t, r, timer)

LEMMA StartType ==
    ASSUME TypeOK, NEW t \in Tasks, NEW r \in Requests, Starts(t, r)
    PROVE  /\ \E s \in Statuses \ {"none"} : status' = [status EXCEPT ![t] = s]
           /\ locks' \in [LockKeys -> Tasks \cup {NoTask}]
           /\ waiters' \subseteq Tasks /\ armed' \subseteq armed \cup {t}
           /\ finishedByTime' \in [Tasks -> Nat]
           /\ runs' \in [Tasks -> Nat]
           /\ IndexType'
<1>0. r.host \in Hosts
  BY RequestFields
<1>1. CASE startTaskRuns(t, r)
  <2>1. /\ locks' = acquire(t, r)
        /\ status' = [status EXCEPT ![t] = "running"]
        /\ queuedByHost' = removeFromQueued(t, r.host)
        /\ ahead' = leaveQueue(t)
        /\ runningByHost' = [runningByHost EXCEPT ![r.host] = @ \cup {t}]
        /\ runs' = [runs EXCEPT ![t] = @ + 1]
        /\ armed' = armed \cup {t}
        /\ waiters' = waiters /\ finishedByTime' = finishedByTime
    BY <1>1 DEF startTaskRuns
  <2>2. IndexType'
    BY <1>0, <2>1, PieceTypes DEF IndexType
  <2>3. \E s \in Statuses \ {"none"} : status' = [status EXCEPT ![t] = s]
    BY <2>1 DEF Statuses
  <2>4. /\ waiters' \subseteq Tasks /\ armed' \subseteq armed \cup {t}
        /\ finishedByTime' \in [Tasks -> Nat]
    BY <2>1 DEF TypeOK, TaskType
  <2> QED
    BY <1>0, <2>1, <2>2, <2>3, <2>4, PieceTypes
<1>2. CASE startTaskLocked(t, r)
  <2>1. /\ enqueue(t, r, queuedByHost[r.host] \cup {t})
        /\ UNCHANGED <<runningByHost, locks, waiters, armed, finishedByTime, runs>>
    BY <1>2 DEF startTaskLocked
  <2>2. queuedByHost[r.host] \cup {t} \in SUBSET Tasks
    BY <1>0 DEF TypeOK, IndexType
  <2>3. /\ \E s \in {"cancelled", "queued"} : status' = [status EXCEPT ![t] = s]
        /\ queuedByHost' \in [Hosts -> SUBSET Tasks]
        /\ ahead' \in [Tasks -> SUBSET Tasks]
    BY <2>1, <2>2, EnqueueType
  <2>4. \E s \in Statuses \ {"none"} : status' = [status EXCEPT ![t] = s]
    BY <2>3 DEF Statuses
  <2> QED
    BY <2>1, <2>3, <2>4 DEF TypeOK, TaskType, IndexType
<1>3. ASSUME NEW timer \in BOOLEAN, startTaskThrows(t, r, timer)
      PROVE  /\ \E s \in Statuses \ {"none"} : status' = [status EXCEPT ![t] = s]
             /\ locks' \in [LockKeys -> Tasks \cup {NoTask}]
             /\ waiters' \subseteq Tasks /\ armed' \subseteq armed \cup {t}
             /\ finishedByTime' \in [Tasks -> Nat]
             /\ runs' \in [Tasks -> Nat]
             /\ IndexType'
  <2>1. /\ status' = [status EXCEPT ![t] = "failed"]
        /\ queuedByHost' = removeFromQueued(t, r.host)
        /\ ahead' = leaveQueue(t)
        /\ runs' = [runs EXCEPT ![t] = @ + 1]
        /\ armed' \in {armed, armed \cup {t}}
        /\ finishedByTime' = [finishedByTime EXCEPT ![t] = @ + 1]
        /\ waiters' = waiters \ {t}
        /\ runningByHost' = runningByHost /\ locks' = locks
    BY <1>3 DEF startTaskThrows, addToFinishedIndex, resolveWaiters
  <2>2. IndexType'
    BY <1>0, <2>1, PieceTypes DEF IndexType, TypeOK
  <2>3. \E s \in Statuses \ {"none"} : status' = [status EXCEPT ![t] = s]
    BY <2>1 DEF Statuses
  <2>4. /\ waiters' \subseteq Tasks /\ armed' \subseteq armed \cup {t}
        /\ locks' \in [LockKeys -> Tasks \cup {NoTask}]
    BY <2>1 DEF TypeOK, TaskType
  <2> QED
    BY <1>0, <2>1, <2>2, <2>3, <2>4, PieceTypes
<1> QED
  BY <1>1, <1>2, <1>3 DEF Starts

\* A step that gives one task a status, and it has a request.
LEMMA TaskTypeStep ==
    ASSUME TypeOK, NEW t \in Tasks, NEW s \in Statuses \ {"none"},
           status' = [status EXCEPT ![t] = s],
           \/ req' = req /\ status[t] # "none"
           \/ \E r \in Requests : req' = [req EXCEPT ![t] = r],
           external' \subseteq Tasks,
           locks' \in [LockKeys -> Tasks \cup {NoTask}],
           waiters' \subseteq Tasks,
           armed' \subseteq armed \cup {t},
           finishedByTime' \in [Tasks -> Nat],
           runs' \in [Tasks -> Nat]
    PROVE  /\ TaskType'
           /\ \A u \in Tasks : status[u] # "none" => status'[u] # "none"
<1>1. status' \in [Tasks -> Statuses]
  BY PieceTypes DEF TypeOK, TaskType
<1>2. \A u \in Tasks : status'[u] = IF u = t THEN s ELSE status[u]
  BY DEF TypeOK, TaskType
<1>3. /\ req' \in [Tasks -> Requests \cup {NoRequest}]
      /\ \A u \in Tasks : status'[u] # "none" => req'[u] \in Requests
  BY <1>2 DEF TypeOK, TaskType
<1>4. armed' \subseteq {u \in Tasks : status'[u] # "none"}
  BY <1>2 DEF TypeOK, TaskType
<1> QED
  BY <1>1, <1>2, <1>3, <1>4 DEF TaskType

\* The host of a task that exists.
LEMMA HostOfTask ==
    ASSUME TypeOK, NEW t \in Tasks, status[t] # "none"
    PROVE  req[t] \in Requests /\ req[t].host \in Hosts
  BY RequestFields DEF TypeOK, TaskType

LEMMA PumpQueueType ==
    ASSUME NEW h \in Hosts, IndexType', pumpQueue(h)
    PROVE  PumpType'
  BY DEF pumpQueue, PumpType, IndexType

\* finishTask and finishExternalTask, up to pumpQueue.
LEMMA EndType ==
    ASSUME TypeOK, NEW t \in Tasks, status[t] # "none", NEW outcome \in Statuses \ {"none"},
           status' = [status EXCEPT ![t] = outcome],
           runningByHost' \in {removeFromRunning(t, req[t].host), runningByHost},
           addToFinishedIndex(t), locks' = releaseForTask(t), resolveWaiters(t),
           UNCHANGED <<req, external, runs, queuedByHost, ahead>>,
           pumpQueue(req[t].host), armed' \subseteq armed
    PROVE  TaskType' /\ IndexType' /\ PumpType'
<1>0. req[t].host \in Hosts
  BY HostOfTask
<1>1. /\ finishedByTime' = [finishedByTime EXCEPT ![t] = @ + 1]
      /\ waiters' = waiters \ {t}
  BY DEF addToFinishedIndex, resolveWaiters
<1>2. IndexType'
  BY <1>0, <1>1, PieceTypes DEF IndexType, TypeOK
<1>3. PumpType'
  BY <1>0, <1>1, <1>2, PumpQueueType
<1>4. /\ external' \subseteq Tasks /\ waiters' \subseteq Tasks /\ runs' \in [Tasks -> Nat]
  BY <1>1 DEF TypeOK, TaskType
<1>5. /\ finishedByTime' \in [Tasks -> Nat]
      /\ locks' \in [LockKeys -> Tasks \cup {NoTask}]
  BY <1>0, <1>1, PieceTypes
<1>6. TaskType'
  BY <1>1, <1>4, <1>5, TaskTypeStep
<1> QED
  BY <1>2, <1>3, <1>6

LEMMA CancelType ==
    ASSUME TypeOK, NEW t \in Tasks, Active(t), cancelTask(t)
    PROVE  TaskType' /\ IndexType' /\ PumpType'
<1>0. req[t].host \in Hosts /\ status[t] # "none"
  BY HostOfTask DEF Active
<1>1. /\ status' = [status EXCEPT ![t] = "cancelled"]
      /\ runningByHost' = removeFromRunning(t, req[t].host)
      /\ queuedByHost' = removeFromQueued(t, req[t].host)
      /\ ahead' = leaveQueue(t)
      /\ finishedByTime' = [finishedByTime EXCEPT ![t] = @ + 1]
      /\ locks' = releaseForTask(t)
      /\ waiters' = waiters \ {t}
      /\ pumpQueue(req[t].host)
      /\ req' = req /\ external' = external /\ armed' = armed /\ runs' = runs
  BY DEF cancelTask, addToFinishedIndex, resolveWaiters
<1>2. IndexType'
  BY <1>0, <1>1, PieceTypes DEF IndexType
<1>3. PumpType'
  BY <1>0, <1>1, <1>2, PumpQueueType
<1>4. /\ external' \subseteq Tasks /\ waiters' \subseteq Tasks /\ runs' \in [Tasks -> Nat]
      /\ armed' \subseteq armed \cup {t}
  BY <1>1 DEF TypeOK, TaskType
<1>5. /\ finishedByTime' \in [Tasks -> Nat]
      /\ locks' \in [LockKeys -> Tasks \cup {NoTask}]
  BY <1>0, <1>1, PieceTypes
<1>6. "cancelled" \in Statuses \ {"none"}
  BY DEF Statuses
<1>7. TaskType'
  BY <1>0, <1>1, <1>4, <1>5, <1>6, TaskTypeStep
<1> QED
  BY <1>2, <1>3, <1>7
\* Every step of the scheduler keeps the types.
LEMMA NextType ==
    ASSUME TypeOK, [Next]_vars
    PROVE  TypeOK'
<1> USE DEF TypeOK
<1> DEFINE StillExist == \A u \in Tasks : status[u] # "none" => status'[u] # "none"
<1>1. ASSUME NEW t \in Tasks, NEW r \in Requests,
             ScheduleRun(t, r) \/ ScheduleLocked(t, r)
      PROVE  TypeOK'
  <2>1. /\ Starts(t, r)
        /\ req' = [req EXCEPT ![t] = r]
        /\ UNCHANGED <<external, pumpVars, abortVars, disposing>>
    BY <1>1 DEF ScheduleRun, ScheduleLocked, createTask, Starts
  <2>2. TaskType' /\ IndexType' /\ StillExist
    BY <2>1, StartType, TaskTypeStep DEF TaskType
  <2> QED
    BY <2>1, <2>2 DEF PumpType, LoopType, pumpVars, abortVars
<1>2. ASSUME NEW t \in Tasks, NEW r \in Requests, NEW timer \in BOOLEAN,
             ScheduleThrow(t, r, timer)
      PROVE  TypeOK'
  <2>1. /\ Starts(t, r)
        /\ req' = [req EXCEPT ![t] = r]
        /\ pumpQueue(r.host)
        /\ UNCHANGED <<external, abortVars, disposing>>
    BY <1>2 DEF ScheduleThrow, createTask, Starts
  <2>2. TaskType' /\ IndexType' /\ StillExist
    BY <2>1, StartType, TaskTypeStep DEF TaskType
  <2>3. PumpType'
    BY <2>1, <2>2, RequestFields, PumpQueueType
  <2> QED
    BY <2>1, <2>2, <2>3 DEF LoopType, abortVars
<1>3. ASSUME NEW t \in Tasks, NEW r \in Requests, ScheduleQueue(t, r)
      PROVE  TypeOK'
  <2>1. /\ enqueue(t, r, queuedByHost[r.host])
        /\ req' = [req EXCEPT ![t] = r]
        /\ UNCHANGED <<external, runningByHost, locks, waiters, armed, finishedByTime,
                       runs, pumpVars, abortVars, disposing>>
    BY <1>3 DEF ScheduleQueue, createTask
  <2>2. queuedByHost[r.host] \in SUBSET Tasks
    BY RequestFields DEF IndexType
  <2>3. /\ \E s \in {"cancelled", "queued"} : status' = [status EXCEPT ![t] = s]
        /\ queuedByHost' \in [Hosts -> SUBSET Tasks]
        /\ ahead' \in [Tasks -> SUBSET Tasks]
    BY <2>1, <2>2, EnqueueType
  <2>4. \E s \in Statuses \ {"none"} : status' = [status EXCEPT ![t] = s]
    BY <2>3 DEF Statuses
  <2>5. TaskType' /\ StillExist
    BY <2>1, <2>4, TaskTypeStep DEF TaskType
  <2> QED
    BY <2>1, <2>3, <2>5 DEF IndexType, PumpType, LoopType, pumpVars, abortVars
<1>4. ASSUME NEW t \in Tasks, NEW r \in Requests, ScheduleReject(t, r)
      PROVE  TypeOK'
  <2>1. /\ status' = [status EXCEPT ![t] = "cancelled"]
        /\ req' = [req EXCEPT ![t] = r]
        /\ UNCHANGED <<external, locks, waiters, armed, finishedByTime, runs, indexVars,
                       pumpVars, abortVars, disposing>>
    BY <1>4 DEF ScheduleReject, createTask
  <2>2. "cancelled" \in Statuses \ {"none"}
    BY DEF Statuses
  <2>3. TaskType' /\ StillExist
    BY <2>1, <2>2, TaskTypeStep DEF TaskType
  <2> QED
    BY <2>1, <2>3 DEF IndexType, PumpType, LoopType, indexVars, pumpVars, abortVars
<1>5. ASSUME NEW t \in Tasks, NEW r \in Requests, registerExternal(t, r)
      PROVE  TypeOK'
  <2>1. /\ status' = [status EXCEPT ![t] = "running"]
        /\ req' = [req EXCEPT ![t] = r]
        /\ external' = external \cup {t}
        /\ locks' \in {acquire(t, r), locks}
        /\ runningByHost' = [runningByHost EXCEPT ![r.host] = @ \cup {t}]
        /\ UNCHANGED <<waiters, armed, finishedByTime, runs, queuedByHost, ahead,
                       pumpVars, abortVars, disposing>>
    BY <1>5 DEF registerExternal, createTask
  <2>2. "running" \in Statuses \ {"none"}
    BY DEF Statuses
  <2>3. locks' \in [LockKeys -> Tasks \cup {NoTask}] /\ external' \subseteq Tasks
    BY <2>1, PieceTypes, RequestFields DEF TaskType
  <2>4. TaskType' /\ StillExist
    BY <2>1, <2>2, <2>3, TaskTypeStep DEF TaskType
  <2>5. IndexType'
    BY <2>1, PieceTypes, RequestFields DEF IndexType
  <2> QED
    BY <2>1, <2>4, <2>5 DEF PumpType, LoopType, pumpVars, abortVars
<1>6. ASSUME NEW t \in Tasks, NEW outcome \in {"completed", "failed", "cancelled"},
             armed' \subseteq armed, status[t] # "none", finishTask(t, outcome),
             UNCHANGED <<abortVars, disposing>>
      PROVE  TypeOK'
  <2>1. outcome \in Statuses \ {"none"}
    BY DEF Statuses
  <2>2. TaskType' /\ IndexType' /\ PumpType'
    BY <1>6, <2>1, EndType DEF finishTask
  <2> QED
    BY <1>6, <2>2 DEF LoopType, abortVars
<1>7. ASSUME NEW t \in Tasks, TaskCallback(t)
      PROVE  TypeOK'
  <2>1. CASE CallbackCancelled(t)
    BY <2>1 DEF CallbackCancelled, TaskType, IndexType, PumpType, LoopType,
       indexVars, pumpVars, abortVars
  <2>2. ASSUME NEW outcome \in {"completed", "failed"}, NEW again \in BOOLEAN,
               Callback(t, outcome, again)
        PROVE  TypeOK'
    <3>1. /\ status[t] # "none" /\ armed' \subseteq armed
          /\ finishTask(t, outcome) /\ UNCHANGED <<abortVars, disposing>>
      BY <2>2 DEF Callback, TaskType
    <3> QED
      BY <1>6, <3>1
  <2> QED
    BY <1>7, <2>1, <2>2 DEF TaskCallback
<1>8. ASSUME NEW t \in Tasks, ExternalReport(t)
      PROVE  TypeOK'
  <2>1. PICK outcome \in {"completed", "failed", "cancelled"} : finishExternalTask(t, outcome)
    BY <1>8 DEF ExternalReport
  <2>2. /\ status[t] # "none" /\ armed' \subseteq armed
        /\ outcome \in Statuses \ {"none"}
    BY <2>1 DEF finishExternalTask, Statuses
  <2>3. TaskType' /\ IndexType' /\ PumpType'
    BY <2>1, <2>2, EndType DEF finishExternalTask, indexVars
  <2> QED
    BY <2>1, <2>3 DEF finishExternalTask, LoopType, abortVars
<1>9. ASSUME NEW t \in Tasks, waitTask(t) \/ WaitTimeout(t)
      PROVE  TypeOK'
  BY <1>9 DEF waitTask, WaitTimeout, TaskType, IndexType, PumpType, LoopType,
     indexVars, pumpVars, abortVars
<1>10. ASSUME NEW t \in Tasks, dequeueTask(t)
       PROVE  TypeOK'
  <2>1. /\ status[t] # "none"
        /\ status' = [status EXCEPT ![t] = "cancelled"]
        /\ ahead' = leaveQueue(t)
        /\ waiters' = waiters \ {t}
        /\ UNCHANGED <<req, external, locks, armed, finishedByTime, runs, runningByHost,
                       queuedByHost, pumpVars, abortVars, disposing>>
    BY <1>10 DEF dequeueTask, resolveWaiters
  <2>2. IndexType'
    BY <2>1, HostOfTask, PieceTypes DEF IndexType
  <2>3. "cancelled" \in Statuses \ {"none"} /\ waiters' \subseteq Tasks
    BY <2>1 DEF Statuses, TaskType
  <2>4. TaskType' /\ StillExist
    BY <2>1, <2>3, TaskTypeStep DEF TaskType
  <2> QED
    BY <2>1, <2>2, <2>4 DEF PumpType, LoopType, pumpVars, abortVars
<1>11. ASSUME NEW t \in Tasks, Cancel(t)
       PROVE  TypeOK'
  <2>1. Active(t) /\ cancelTask(t) /\ UNCHANGED <<abortVars, disposing>>
    BY <1>11 DEF Cancel
  <2> QED
    BY <2>1, CancelType DEF LoopType, abortVars
<1>12. ASSUME abortActiveTasks PROVE TypeOK'
  <2>1. abortQueued' \subseteq Tasks /\ abortRunning' \subseteq Tasks
    BY <1>12 DEF abortActiveTasks
  <2>2. aborting' \in BOOLEAN /\ disposing' \in BOOLEAN
    BY <1>12, Zenon DEF abortActiveTasks, LoopType
  <2>3. UNCHANGED <<taskVars, indexVars, pumpVars>>
    BY <1>12 DEF abortActiveTasks
  <2> QED
    BY <2>1, <2>2, <2>3 DEF TaskType, IndexType, PumpType, LoopType, taskVars, indexVars, pumpVars
<1>13. ASSUME dispose \/ DisposeDone PROVE TypeOK'
  <2>1. disposing' \in BOOLEAN
    BY <1>13, Zenon DEF dispose, DisposeDone
  <2>2. UNCHANGED <<taskVars, indexVars, pumpVars, abortVars>>
    BY <1>13 DEF dispose, DisposeDone
  <2> QED
    BY <2>1, <2>2 DEF TaskType, IndexType, PumpType, LoopType, taskVars, indexVars, pumpVars, abortVars
<1>14. ASSUME NEW t \in Tasks, PumpBlocked(t) PROVE TypeOK'
  BY <1>14 DEF PumpBlocked, TaskType, IndexType, PumpType, LoopType, taskVars, indexVars, abortVars
<1>15. ASSUME NEW t \in Tasks, PumpHead(t), Starts(t, req[t]), pumpTodo' \subseteq {u \in Tasks : status'[u] # "none"},
              pumpHost' = pumpHost, pumpDepth' \in Nat,
              UNCHANGED <<req, external, abortVars, disposing>>
       PROVE  TypeOK'
  <2>1. req[t] \in Requests
    BY <1>15, HostOfTask DEF PumpHead, PumpType
  <2>2. TaskType' /\ IndexType' /\ StillExist
    BY <1>15, <2>1, StartType, TaskTypeStep DEF TaskType
  <2> QED
    BY <1>15, <2>2 DEF PumpType, LoopType, abortVars
<1>16. ASSUME NEW t \in Tasks, PumpLocked(t) PROVE TypeOK'
  <2>1. /\ PumpHead(t) /\ Starts(t, req[t])
        /\ pumpTodo' = pumpTodo \ {t} /\ pumpHost' = pumpHost /\ pumpDepth' = pumpDepth
        /\ UNCHANGED <<req, external, abortVars, disposing>>
    BY <1>16 DEF PumpLocked, Starts
  <2>2. req[t] \in Requests
    BY <2>1, HostOfTask DEF PumpHead, PumpType
  <2>3. StillExist
    BY <2>1, <2>2, StartType, TaskTypeStep DEF TaskType
  <2> QED
    BY <1>15, <2>1, <2>3 DEF PumpType
<1>17. ASSUME NEW t \in Tasks, PumpStart(t) \/ \E timer \in BOOLEAN : PumpThrow(t, timer)
       PROVE  TypeOK'
  <2>1. /\ PumpHead(t) /\ Starts(t, req[t])
        /\ pumpTodo' = {u \in queuedByHost'[pumpHost] : status'[u] = "queued"}
        /\ pumpHost' = pumpHost /\ pumpDepth' \in {pumpDepth, pumpDepth + 1}
        /\ UNCHANGED <<req, external, abortVars, disposing>>
    BY <1>17 DEF PumpStart, PumpThrow, Starts
  <2>2. req[t] \in Requests /\ pumpHost \in Hosts
    BY <2>1, HostOfTask DEF PumpHead, PumpType
  <2>3. IndexType'
    BY <2>1, <2>2, StartType
  <2>4. pumpTodo' \subseteq {u \in Tasks : status'[u] # "none"}
    BY <2>1, <2>2, <2>3 DEF IndexType
  <2>5. pumpDepth' \in Nat
    BY <2>1 DEF PumpType
  <2> QED
    BY <1>15, <2>1, <2>4, <2>5
<1>18. ASSUME PumpReturn \/ PumpDone PROVE TypeOK'
  <2>1. UNCHANGED <<taskVars, indexVars, abortVars, disposing>>
    BY <1>18 DEF PumpReturn, PumpDone
  <2>2. TaskType' /\ IndexType' /\ LoopType'
    BY <2>1 DEF TaskType, IndexType, LoopType, taskVars, indexVars, abortVars
  <2>3. CASE PumpReturn
    <3>1. /\ pumpHost \in Hosts /\ pumpHost' = pumpHost /\ pumpDepth' \in Nat
          /\ pumpTodo' = getQueuedTasks(pumpHost) /\ status' = status
      BY <2>3 DEF PumpReturn, PumpType, taskVars
    <3>2. PumpType'
      BY <3>1 DEF PumpType, getQueuedTasks, IndexType
    <3> QED
      BY <2>2, <3>2
  <2>4. CASE PumpDone
    BY <2>2, <2>4 DEF PumpDone, PumpType, taskVars
  <2> QED
    BY <1>18, <2>3, <2>4
<1>19. ASSUME NEW t \in Tasks, AbortCancel(t) PROVE TypeOK'
  <2>1. /\ Active(t) /\ cancelTask(t)
        /\ abortQueued' \subseteq abortQueued /\ abortRunning' \subseteq abortRunning
        /\ UNCHANGED <<aborting, disposing>>
    BY <1>19 DEF AbortCancel, AbortHead
  <2> QED
    BY <2>1, CancelType DEF LoopType
<1>20. ASSUME NEW t \in Tasks, AbortSkip(t) PROVE TypeOK'
  BY <1>20 DEF AbortSkip, AbortHead, TaskType, IndexType, PumpType, LoopType,
     taskVars, indexVars, pumpVars
<1>21. ASSUME AbortDone PROVE TypeOK'
  <2>1. aborting' \in BOOLEAN /\ disposing' \in BOOLEAN
    BY <1>21, Zenon DEF AbortDone, LoopType
  <2> QED
    BY <1>21, <2>1 DEF AbortDone, TaskType, IndexType, PumpType, LoopType,
       taskVars, indexVars, pumpVars
<1>22. ASSUME NEW t \in Tasks, DisposeStop(t) PROVE TypeOK'
  <2>1. /\ status[t] # "none" /\ armed' \subseteq armed
        /\ finishTask(t, "failed") /\ UNCHANGED <<abortVars, disposing>>
    BY <1>22 DEF DisposeStop, backgroundTaskControllers
  <2> QED
    BY <1>6, <2>1
<1>23. ASSUME UNCHANGED vars PROVE TypeOK'
  BY <1>23 DEF vars, TaskType, IndexType, PumpType, LoopType,
     taskVars, indexVars, pumpVars, abortVars
<1> QED
  BY <1>1, <1>2, <1>3, <1>4, <1>5, <1>7, <1>8, <1>9, <1>10, <1>11, <1>12, <1>13, <1>14,
     <1>16, <1>17, <1>18, <1>19, <1>20, <1>21, <1>22, <1>23
  DEF Next, Schedule, Client, PumpStep, AbortStep, DisposeStep

\* The state of the scheduler is well typed in every behaviour of the code.
THEOREM TypeCorrect == Spec => []TypeOK
<1>1. Init => TypeOK
  BY InitType
<1>2. TypeOK /\ [Next]_vars => TypeOK'
  BY NextType
<1> QED
  BY <1>1, <1>2, PTL DEF Spec
-----------------------------------------------------------------------------
(* Indices and locks.                                                      *)

\* IndexMatchesStatus, one task at a time.
IndexInv ==
    \A h \in Hosts, u \in Tasks :
        /\ status[u] = "running" /\ req[u].host = h => u \in runningByHost[h]
        /\ u \in runningByHost[h] =>
              (status[u] = "running" /\ req[u].host = h) \/ (u \in external /\ status[u] \in Terminal)
        /\ status[u] = "queued" /\ req[u].host = h => u \in queuedByHost[h]
        /\ u \in queuedByHost[h] =>
              (status[u] = "queued" /\ req[u].host = h) \/ status[u] = "cancelled"

\* The other direction of LocksHeldByRunningTasks: a running task that the
\* scheduler started owns the lock it needs.
OwnsItsLock ==
    \A u \in Tasks \ external :
        status[u] = "running" /\ NeedsLock(req[u]) => locks[LockKey(req[u])] = u

\* The runner calls back for running tasks, for cancelled ones, and a second
\* time for failed ones, and never for external ones.
ArmedInv ==
    /\ \A u \in armed : status[u] \in {"running", "failed", "cancelled"} /\ u \notin external
    /\ \A u \in external : status[u] \notin {"none", "queued"}

\* The snapshot of pumpQueue holds queued tasks of its host.
TodoInv ==
    pumpHost # NoHost =>
        \A u \in pumpTodo : status[u] = "queued" /\ req[u].host = pumpHost

TableInv == IndexInv /\ LocksHeldByRunningTasks /\ OwnsItsLock /\ ArmedInv

CoreInv == TableInv /\ TodoInv

LEMMA InitCore == Init => CoreInv
<1> SUFFICES ASSUME Init PROVE CoreInv
  OBVIOUS
<1>1. IndexInv /\ ArmedInv
  BY DEF Init, IndexInv, ArmedInv
<1>2. LocksHeldByRunningTasks
  BY DEF Init, LocksHeldByRunningTasks
<1>3. OwnsItsLock /\ TodoInv
  BY DEF Init, OwnsItsLock, TodoInv
<1> QED
  BY <1>1, <1>2, <1>3 DEF CoreInv, TableInv

\* startTask succeeds, for a new task or for the head of a queue.
LEMMA RunsTable ==
    ASSUME TypeOK, TypeOK', TableInv, NEW t \in Tasks, NEW r \in Requests,
           startTaskRuns(t, r), external' = external,
           req' = [req EXCEPT ![t] = r],
           status[t] = "none" \/ (status[t] = "queued" /\ req[t] = r)
    PROVE  TableInv'
<1>0. r.host \in Hosts /\ LockKey(r)[1] = r.host /\ (NeedsLock(r) => LockKey(r) \in LockKeys)
  BY RequestFields
<1>1. /\ \A u \in Tasks : status'[u] = IF u = t THEN "running" ELSE status[u]
      /\ \A u \in Tasks : req'[u] = IF u = t THEN r ELSE req[u]
      /\ armed' = armed \cup {t}
  BY DEF startTaskRuns, TypeOK, TaskType
<1>i. \A h \in Hosts, u \in Tasks :
        /\ u \in runningByHost'[h] <=> u \in runningByHost[h] \/ (u = t /\ h = r.host)
        /\ u \in queuedByHost'[h] <=> u \in queuedByHost[h] /\ ~(u = t /\ h = r.host)
  BY <1>0 DEF startTaskRuns, removeFromQueued, TypeOK, IndexType
<1>2. IndexInv'
  <2> SUFFICES ASSUME NEW g \in Hosts, NEW u \in Tasks
      PROVE  /\ status'[u] = "running" /\ req'[u].host = g => u \in runningByHost'[g]
             /\ u \in runningByHost'[g] =>
                  \/ status'[u] = "running" /\ req'[u].host = g
                  \/ u \in external' /\ status'[u] \in Terminal
             /\ status'[u] = "queued" /\ req'[u].host = g => u \in queuedByHost'[g]
             /\ u \in queuedByHost'[g] =>
                  (status'[u] = "queued" /\ req'[u].host = g) \/ status'[u] = "cancelled"
    BY Zenon DEF IndexInv
  <2>1. CASE u # t
    <3>1. /\ u \in runningByHost'[g] <=> u \in runningByHost[g]
          /\ u \in queuedByHost'[g] <=> u \in queuedByHost[g]
          /\ status'[u] = status[u] /\ req'[u] = req[u]
      BY <1>1, <1>i, <2>1
    <3> QED
      BY <3>1 DEF TableInv, IndexInv
  <2>2. CASE u = t
    <3>1. t \notin runningByHost[g] /\ (g # r.host => t \notin queuedByHost[g])
      BY DEF TableInv, IndexInv, Terminal
    <3> QED
      BY <1>0, <1>1, <1>i, <2>2, <3>1
  <2> QED
    BY <2>1, <2>2
<1>3. /\ CanAcquire(t, r)
      /\ NeedsLock(r) => \A k \in LockKeys : locks'[k] = IF k = LockKey(r) THEN t ELSE locks[k]
      /\ ~NeedsLock(r) => locks' = locks
  BY DEF startTaskRuns, acquire, TypeOK, TaskType
<1>4. \A k \in LockKeys : locks[k] # NoTask =>
          locks[k] \in Tasks /\ locks[k] # t /\ locks'[k] = locks[k]
  BY <1>0, <1>3 DEF CanAcquire, TableInv, LocksHeldByRunningTasks, TypeOK, TaskType
<1>5. LocksHeldByRunningTasks'
  BY <1>0, <1>1, <1>3, <1>4 DEF TableInv, LocksHeldByRunningTasks
<1>6. OwnsItsLock'
  <2> SUFFICES ASSUME NEW u \in Tasks \ external, status'[u] = "running", NeedsLock(req'[u])
               PROVE  locks'[LockKey(req'[u])] = u
    BY DEF OwnsItsLock
  <2>1. CASE u = t
    BY <1>0, <1>1, <1>3, <2>1
  <2>2. CASE u # t
    <3>1. status[u] = "running" /\ req'[u] = req[u] /\ req[u] \in Requests
      BY <1>1, <2>2 DEF TypeOK, TaskType
    <3>2. locks[LockKey(req[u])] = u /\ LockKey(req[u]) \in LockKeys
      BY <3>1, RequestFields DEF TableInv, OwnsItsLock
    <3> QED
      BY <1>4, <3>1, <3>2, NullsAssumption
  <2> QED
    BY <2>1, <2>2
<1>7. ArmedInv'
  BY <1>1 DEF TableInv, ArmedInv, TypeOK, TaskType
<1> QED
  BY <1>2, <1>5, <1>6, <1>7 DEF TableInv

\* A task is given a status that is not "running" and keeps or takes a place
\* in the queue of its host, or none; no lock and no running task changes.
LEMMA IdleTable ==
    ASSUME TypeOK, TypeOK', TableInv, NEW t \in Tasks, NEW h \in Hosts, NEW s \in Statuses,
           s # "running", status[t] # "running",
           \A u \in Tasks : status'[u] = IF u = t THEN s ELSE status[u],
           \A u \in Tasks : u # t => req'[u] = req[u],
           req'[t].host = h,
           status[t] \in {"none", "queued"},
           status[t] = "queued" => req[t].host = h,
           armed' = armed \/ (armed' = armed \cup {t} /\ s = "failed"),
           runningByHost' = runningByHost, locks' = locks, external' = external,
           \A g \in Hosts : g # h => queuedByHost'[g] = queuedByHost[g],
           queuedByHost'[h] \in {queuedByHost[h] \cup {t}, queuedByHost[h] \ {t}, queuedByHost[h]},
           s = "queued" => t \in queuedByHost'[h],
           s \notin {"queued", "cancelled"} => t \notin queuedByHost'[h]
    PROVE  TableInv'
<1>0. t \notin armed
  BY DEF TableInv, ArmedInv
<1>1. \A u \in Tasks, g \in Hosts : u # t =>
          (u \in queuedByHost'[g] <=> u \in queuedByHost[g])
  OBVIOUS
<1>2. \A g \in Hosts : g # h => t \notin queuedByHost'[g]
  BY DEF TableInv, IndexInv
<1>3. IndexInv'
  <2> SUFFICES ASSUME NEW g \in Hosts, NEW u \in Tasks
      PROVE  /\ status'[u] = "running" /\ req'[u].host = g => u \in runningByHost'[g]
             /\ u \in runningByHost'[g] =>
                  \/ status'[u] = "running" /\ req'[u].host = g
                  \/ u \in external' /\ status'[u] \in Terminal
             /\ status'[u] = "queued" /\ req'[u].host = g => u \in queuedByHost'[g]
             /\ u \in queuedByHost'[g] =>
                  (status'[u] = "queued" /\ req'[u].host = g) \/ status'[u] = "cancelled"
    BY DEF IndexInv
  <2>1. CASE u # t
    BY <1>1, <2>1 DEF TableInv, IndexInv
  <2>2. CASE u = t
    <3>1. t \notin runningByHost[g]
      BY DEF TableInv, IndexInv, Terminal
    <3> QED
      BY <1>2, <2>2, <3>1
  <2> QED
    BY <2>1, <2>2
<1>4. LocksHeldByRunningTasks'
  BY DEF TableInv, LocksHeldByRunningTasks, TypeOK, TaskType
<1>5. OwnsItsLock'
  BY DEF TableInv, OwnsItsLock
<1>6. ArmedInv'
  BY <1>0 DEF TableInv, ArmedInv, TypeOK, TaskType
<1> QED
  BY <1>3, <1>4, <1>5, <1>6 DEF TableInv

\* A task ends: it leaves the indices, and its locks are free.
LEMMA EndTable ==
    ASSUME TypeOK, TypeOK', TableInv, NEW t \in Tasks, NEW s \in Terminal,
           status[t] \in {"queued", "running", "failed"},
           \A u \in Tasks : status'[u] = IF u = t THEN s ELSE status[u],
           req' = req, external' = external,
           \A u \in armed' : u \in armed /\ (u = t => s \in {"failed", "cancelled"}),
           runningByHost' = removeFromRunning(t, req[t].host)
             \/ (runningByHost' = runningByHost /\ t \in external),
           queuedByHost' = removeFromQueued(t, req[t].host)
             \/ (queuedByHost' = queuedByHost /\ status[t] # "queued"),
           locks' = releaseForTask(t)
    PROVE  TableInv'
<1>0. req[t].host \in Hosts
  BY HostOfTask
<1>1. \A u \in Tasks, g \in Hosts :
          /\ u # t => (u \in runningByHost'[g] <=> u \in runningByHost[g])
          /\ u # t => (u \in queuedByHost'[g] <=> u \in queuedByHost[g])
  BY <1>0 DEF removeFromRunning, removeFromQueued, TypeOK, IndexType
<1>2. \A g \in Hosts : t \notin queuedByHost'[g]
  BY <1>0 DEF removeFromQueued, TableInv, IndexInv, TypeOK, IndexType
<1>x. \A g \in Hosts : t \in runningByHost'[g] => t \in external
  BY <1>0 DEF removeFromRunning, TableInv, IndexInv, TypeOK, IndexType
<1>3. IndexInv'
  BY <1>1, <1>2, <1>x DEF TableInv, IndexInv, Terminal
<1>4. \A k \in LockKeys : locks'[k] = IF locks[k] = t THEN NoTask ELSE locks[k]
  BY DEF releaseForTask
<1>5. LocksHeldByRunningTasks'
  BY <1>4 DEF TableInv, LocksHeldByRunningTasks, TypeOK, TaskType
<1>6. OwnsItsLock'
  <2> SUFFICES ASSUME NEW u \in Tasks \ external, status'[u] = "running", NeedsLock(req[u])
               PROVE  locks'[LockKey(req[u])] = u
    BY DEF OwnsItsLock
  <2>1. u # t /\ status[u] = "running" /\ req[u] \in Requests
    BY HostOfTask DEF Terminal
  <2> QED
    BY <1>4, <2>1, RequestFields DEF TableInv, OwnsItsLock
<1>7. ArmedInv'
  BY DEF TableInv, ArmedInv, Terminal, TypeOK, TaskType
<1> QED
  BY <1>3, <1>5, <1>6, <1>7 DEF TableInv
LEMMA EnqueueTable ==
    ASSUME TypeOK, TypeOK', TableInv, NEW t \in Tasks, NEW r \in Requests,
           NEW index, index \in {queuedByHost[r.host], queuedByHost[r.host] \cup {t}},
           enqueue(t, r, index), req' = [req EXCEPT ![t] = r],
           status[t] = "none" \/ (status[t] = "queued" /\ req[t] = r),
           UNCHANGED <<runningByHost, locks, armed, external>>
    PROVE  TableInv'
<1>0. r.host \in Hosts
  BY RequestFields
<1>1. /\ \A u \in Tasks : u # t => req'[u] = req[u]
      /\ req'[t] = r
  BY DEF TypeOK, TaskType
<1>2. CASE QueueFull(index)
  <2>1. /\ status' = [status EXCEPT ![t] = "cancelled"]
        /\ queuedByHost' = [queuedByHost EXCEPT ![r.host] = index]
    BY <1>2 DEF enqueue
  <2>2. /\ \A u \in Tasks : status'[u] = IF u = t THEN "cancelled" ELSE status[u]
        /\ \A g \in Hosts : g # r.host => queuedByHost'[g] = queuedByHost[g]
        /\ queuedByHost'[r.host] = index
        /\ "cancelled" \in Statuses
    BY <1>0, <2>1 DEF TypeOK, TaskType, IndexType, Statuses
  <2> QED
    BY <1>0, <1>1, <2>2, IdleTable
<1>3. CASE ~QueueFull(index)
  <2>1. /\ status' = [status EXCEPT ![t] = "queued"]
        /\ queuedByHost' = [queuedByHost EXCEPT ![r.host] = index \cup {t}]
    BY <1>3 DEF enqueue
  <2>2. /\ \A u \in Tasks : status'[u] = IF u = t THEN "queued" ELSE status[u]
        /\ \A g \in Hosts : g # r.host => queuedByHost'[g] = queuedByHost[g]
        /\ queuedByHost'[r.host] = queuedByHost[r.host] \cup {t}
        /\ "queued" \in Statuses
    BY <1>0, <2>1 DEF TypeOK, TaskType, IndexType, Statuses
  <2> QED
    BY <1>0, <1>1, <2>2, IdleTable
<1> QED
  BY <1>2, <1>3

LEMMA ThrowsTable ==
    ASSUME TypeOK, TypeOK', TableInv, NEW t \in Tasks, NEW r \in Requests,
           NEW timer \in BOOLEAN, startTaskThrows(t, r, timer), external' = external,
           req' = [req EXCEPT ![t] = r],
           status[t] = "none" \/ (status[t] = "queued" /\ req[t] = r)
    PROVE  TableInv'
<1>0. r.host \in Hosts
  BY RequestFields
<1>1. /\ \A u \in Tasks : u # t => req'[u] = req[u]
      /\ req'[t] = r
  BY DEF TypeOK, TaskType
<1>2. /\ \A u \in Tasks : status'[u] = IF u = t THEN "failed" ELSE status[u]
      /\ armed' = armed \/ armed' = armed \cup {t}
      /\ runningByHost' = runningByHost /\ locks' = locks
      /\ "failed" \in Statuses
  BY DEF startTaskThrows, TypeOK, TaskType, Statuses
<1>3. /\ \A g \in Hosts : g # r.host => queuedByHost'[g] = queuedByHost[g]
      /\ queuedByHost'[r.host] = queuedByHost[r.host] \ {t}
  BY <1>0 DEF startTaskThrows, removeFromQueued, TypeOK, IndexType
<1> QED
  BY <1>0, <1>1, <1>2, <1>3, IdleTable

LEMMA FinishTable ==
    ASSUME TypeOK, TypeOK', TableInv, NEW t \in Tasks, NEW outcome \in Terminal,
           status[t] \in {"running", "failed"}, finishTask(t, outcome),
           \A u \in armed' : u \in armed /\ (u = t => outcome \in {"failed", "cancelled"})
    PROVE  TableInv'
<1>1. \A u \in Tasks : status'[u] = IF u = t THEN outcome ELSE status[u]
  BY DEF finishTask, TypeOK, TaskType
<1>2. /\ req' = req /\ external' = external
      /\ runningByHost' = removeFromRunning(t, req[t].host)
      /\ queuedByHost' = queuedByHost
      /\ locks' = releaseForTask(t)
  BY DEF finishTask
<1> QED
  BY <1>1, <1>2, EndTable

LEMMA CancelTable ==
    ASSUME TypeOK, TypeOK', TableInv, NEW t \in Tasks, Active(t), cancelTask(t)
    PROVE  TableInv'
<1>1. \A u \in Tasks : status'[u] = IF u = t THEN "cancelled" ELSE status[u]
  BY DEF cancelTask, TypeOK, TaskType
<1>2. /\ req' = req /\ external' = external /\ armed' = armed
      /\ runningByHost' = removeFromRunning(t, req[t].host)
      /\ queuedByHost' = removeFromQueued(t, req[t].host)
      /\ locks' = releaseForTask(t)
  BY DEF cancelTask
<1>3. "cancelled" \in Terminal /\ status[t] \in {"queued", "running", "failed"}
  BY DEF Terminal, Active
<1> QED
  BY <1>1, <1>2, <1>3, EndTable

\* Nothing in the tables changes.
LEMMA SameTable ==
    ASSUME TableInv, armed' \subseteq armed,
           UNCHANGED <<status, req, external, locks, runningByHost, queuedByHost>>
    PROVE  TableInv'
  BY DEF TableInv, IndexInv, LocksHeldByRunningTasks, OwnsItsLock, ArmedInv

\* A new snapshot of the queue of a host.
LEMMA SnapshotTodo ==
    ASSUME TypeOK', TableInv', NEW h \in Hosts, pumpHost' = h,
           pumpTodo' = {u \in queuedByHost'[h] : status'[u] = "queued"}
    PROVE  TodoInv'
  BY DEF TodoInv, TableInv, IndexInv, TypeOK, IndexType

LEMMA PumpQueueTodo ==
    ASSUME TypeOK', TableInv', NEW h \in Hosts, pumpQueue(h)
    PROVE  TodoInv'
  BY SnapshotTodo DEF pumpQueue

LEMMA NextCore ==
    ASSUME TypeOK, TypeOK', CoreInv, [Next]_vars
    PROVE  CoreInv'
<1>0. TableInv /\ TodoInv
  BY DEF CoreInv
<1>n. ASSUME TableInv', pumpHost' = NoHost PROVE CoreInv'
  BY <1>n DEF CoreInv, TodoInv
<1>1. ASSUME NEW t \in Tasks, NEW r \in Requests, ScheduleRun(t, r) PROVE CoreInv'
  <2>1. /\ status[t] = "none" /\ req' = [req EXCEPT ![t] = r] /\ external' = external
        /\ startTaskRuns(t, r) /\ pumpHost' = NoHost
    BY <1>1 DEF ScheduleRun, createTask, Idle, pumpVars
  <2> QED
    BY <1>0, <1>n, <2>1, RunsTable
<1>2. ASSUME NEW t \in Tasks, NEW r \in Requests, NEW timer \in BOOLEAN,
             ScheduleThrow(t, r, timer)
      PROVE  CoreInv'
  <2>1. /\ status[t] = "none" /\ req' = [req EXCEPT ![t] = r] /\ external' = external
        /\ startTaskThrows(t, r, timer) /\ pumpQueue(r.host)
    BY <1>2 DEF ScheduleThrow, createTask
  <2> QED
    BY <1>0, <2>1, ThrowsTable, PumpQueueTodo, RequestFields DEF CoreInv
<1>3. ASSUME NEW t \in Tasks, NEW r \in Requests, ScheduleLocked(t, r) PROVE CoreInv'
  <2>1. /\ status[t] = "none" /\ req' = [req EXCEPT ![t] = r]
        /\ enqueue(t, r, queuedByHost[r.host] \cup {t}) /\ pumpHost' = NoHost
        /\ UNCHANGED <<runningByHost, locks, armed, external>>
    BY <1>3 DEF ScheduleLocked, startTaskLocked, createTask, Idle, pumpVars
  <2> QED
    BY <1>0, <1>n, <2>1, EnqueueTable
<1>4. ASSUME NEW t \in Tasks, NEW r \in Requests, ScheduleQueue(t, r) PROVE CoreInv'
  <2>1. /\ status[t] = "none" /\ req' = [req EXCEPT ![t] = r]
        /\ enqueue(t, r, queuedByHost[r.host]) /\ pumpHost' = NoHost
        /\ UNCHANGED <<runningByHost, locks, armed, external>>
    BY <1>4 DEF ScheduleQueue, createTask, Idle, pumpVars
  <2> QED
    BY <1>0, <1>n, <2>1, EnqueueTable
<1>5. ASSUME NEW t \in Tasks, NEW r \in Requests, ScheduleReject(t, r) PROVE CoreInv'
  <2>1. /\ status[t] = "none" /\ req' = [req EXCEPT ![t] = r]
        /\ status' = [status EXCEPT ![t] = "cancelled"]
        /\ pumpHost' = NoHost
        /\ UNCHANGED <<runningByHost, queuedByHost, locks, armed, external>>
    BY <1>5 DEF ScheduleReject, createTask, Idle, pumpVars, indexVars
  <2>2. /\ \A u \in Tasks : status'[u] = IF u = t THEN "cancelled" ELSE status[u]
        /\ \A u \in Tasks : u # t => req'[u] = req[u]
        /\ req'[t].host = r.host /\ r.host \in Hosts
        /\ "cancelled" \in Statuses
    BY <2>1, RequestFields DEF TypeOK, TaskType, Statuses
  <2>3. TableInv'
    BY <1>0, <2>1, <2>2, IdleTable
  <2> QED
    BY <1>n, <2>1, <2>3
<1>6. ASSUME NEW t \in Tasks, NEW r \in Requests, registerExternal(t, r) PROVE CoreInv'
  <2>0. /\ r.host \in Hosts /\ (NeedsLock(r) => LockKey(r) \in LockKeys)
        /\ status[t] = "none"
    BY <1>6, RequestFields DEF registerExternal, createTask
  <2>1. /\ \A u \in Tasks : status'[u] = IF u = t THEN "running" ELSE status[u]
        /\ \A u \in Tasks : req'[u] = IF u = t THEN r ELSE req[u]
        /\ armed' = armed /\ external' = external \cup {t}
    BY <1>6 DEF registerExternal, createTask, TypeOK, TaskType
  <2>2. \A h \in Hosts, u \in Tasks :
          /\ u \in runningByHost'[h] <=> u \in runningByHost[h] \/ (u = t /\ h = r.host)
          /\ u \in queuedByHost'[h] <=> u \in queuedByHost[h]
    BY <1>6, <2>0 DEF registerExternal, TypeOK, IndexType
  <2>3. IndexInv'
    <3> SUFFICES ASSUME NEW g \in Hosts, NEW u \in Tasks
        PROVE  /\ status'[u] = "running" /\ req'[u].host = g => u \in runningByHost'[g]
               /\ u \in runningByHost'[g] =>
                    \/ status'[u] = "running" /\ req'[u].host = g
                    \/ u \in external' /\ status'[u] \in Terminal
               /\ status'[u] = "queued" /\ req'[u].host = g => u \in queuedByHost'[g]
               /\ u \in queuedByHost'[g] =>
                    (status'[u] = "queued" /\ req'[u].host = g) \/ status'[u] = "cancelled"
      BY Zenon DEF IndexInv
    <3>1. CASE u # t
      BY <1>0, <2>1, <2>2, <3>1 DEF TableInv, IndexInv
    <3>2. CASE u = t
      <4>1. t \notin runningByHost[g] /\ t \notin queuedByHost[g]
        BY <1>0, <2>0 DEF TableInv, IndexInv, Terminal
      <4> QED
        BY <2>0, <2>1, <2>2, <3>2, <4>1
    <3> QED
      BY <3>1, <3>2
  <2>4. \/ locks' = locks
        \/ /\ NeedsLock(r) /\ CanAcquire(t, r)
           /\ \A k \in LockKeys : locks'[k] = IF k = LockKey(r) THEN t ELSE locks[k]
    BY <1>6 DEF registerExternal, acquire, TypeOK, TaskType
  <2>5. \A k \in LockKeys : locks[k] # NoTask =>
            locks[k] \in Tasks /\ locks[k] # t /\ locks'[k] = locks[k]
    BY <1>0, <2>0, <2>4 DEF CanAcquire, TableInv, LocksHeldByRunningTasks, TypeOK, TaskType
  <2>6. LocksHeldByRunningTasks'
    BY <1>0, <2>0, <2>1, <2>4, <2>5 DEF TableInv, LocksHeldByRunningTasks
  <2>7. OwnsItsLock'
    <3> SUFFICES ASSUME NEW u \in Tasks \ external, u # t, status'[u] = "running",
                        NeedsLock(req'[u])
                 PROVE  locks'[LockKey(req'[u])] = u
      BY <2>1 DEF OwnsItsLock
    <3>1. status[u] = "running" /\ req'[u] = req[u] /\ req[u] \in Requests
      BY <2>1 DEF TypeOK, TaskType
    <3>2. locks[LockKey(req[u])] = u /\ LockKey(req[u]) \in LockKeys
      BY <1>0, <3>1, RequestFields DEF TableInv, OwnsItsLock
    <3> QED
      BY <2>5, <3>1, <3>2, NullsAssumption
  <2>8. ArmedInv'
    <3>1. t \notin armed /\ armed \subseteq Tasks /\ external \subseteq Tasks
      BY <1>0, <2>0 DEF TableInv, ArmedInv, TypeOK, TaskType
    <3> QED
      BY <1>0, <2>1, <3>1 DEF TableInv, ArmedInv
  <2>9. TableInv'
    BY <2>3, <2>6, <2>7, <2>8 DEF TableInv
  <2> QED
    BY <1>n, <1>6, <2>9 DEF registerExternal, createTask, Idle, pumpVars
<1>7. ASSUME NEW t \in Tasks, NEW outcome \in Terminal, status[t] \in {"running", "failed"},
             finishTask(t, outcome),
             \A u \in armed' : u \in armed /\ (u = t => outcome \in {"failed", "cancelled"})
      PROVE  CoreInv'
  <2>1. TableInv' /\ pumpQueue(req[t].host) /\ req[t].host \in Hosts
    BY <1>0, <1>7, FinishTable, HostOfTask DEF finishTask
  <2> QED
    BY <2>1, PumpQueueTodo DEF CoreInv
<1>8. ASSUME NEW t \in Tasks, TaskCallback(t) PROVE CoreInv'
  <2>1. CASE CallbackCancelled(t)
    <3>1. /\ armed' \subseteq armed /\ pumpHost' = NoHost
          /\ UNCHANGED <<status, req, external, locks, runningByHost, queuedByHost>>
      BY <2>1 DEF CallbackCancelled, Idle, indexVars, pumpVars
    <3> QED
      BY <1>0, <1>n, <3>1, SameTable
  <2>2. ASSUME NEW outcome \in {"completed", "failed"}, NEW again \in BOOLEAN,
               Callback(t, outcome, again)
        PROVE  CoreInv'
    <3>1. /\ status[t] \in {"running", "failed"} /\ outcome \in Terminal
          /\ finishTask(t, outcome)
      BY <1>0, <2>2 DEF Callback, TableInv, ArmedInv, Terminal
    <3>2. \A u \in armed' : u \in armed /\ (u = t => outcome = "failed")
      BY <2>2 DEF Callback
    <3> QED
      BY <1>7, <3>1, <3>2
  <2> QED
    BY <1>8, <2>1, <2>2 DEF TaskCallback
<1>9. ASSUME NEW t \in Tasks, ExternalReport(t) PROVE CoreInv'
  <2>1. PICK outcome \in {"completed", "failed", "cancelled"} : finishExternalTask(t, outcome)
    BY <1>9 DEF ExternalReport
  <2>2. /\ status[t] = "running" /\ outcome \in Terminal /\ t \in external
        /\ \A u \in Tasks : status'[u] = IF u = t THEN outcome ELSE status[u]
        /\ locks' = releaseForTask(t) /\ pumpQueue(req[t].host)
        /\ UNCHANGED <<req, external, armed, runningByHost, queuedByHost>>
    BY <2>1 DEF finishExternalTask, Terminal, indexVars, TypeOK, TaskType
  <2>3. \A u \in armed' : u \in armed /\ u # t
    BY <1>0, <2>2 DEF TableInv, ArmedInv
  <2>4. TableInv' /\ req[t].host \in Hosts
    BY <1>0, <2>2, <2>3, EndTable, HostOfTask
  <2> QED
    BY <2>2, <2>4, PumpQueueTodo DEF CoreInv
<1>10. ASSUME NEW t \in Tasks, waitTask(t) \/ WaitTimeout(t) PROVE CoreInv'
  <2>1. /\ armed' \subseteq armed /\ pumpHost' = NoHost
        /\ UNCHANGED <<status, req, external, locks, runningByHost, queuedByHost>>
    BY <1>10 DEF waitTask, WaitTimeout, Idle, indexVars, pumpVars
  <2> QED
    BY <1>0, <1>n, <2>1, SameTable
<1>11. ASSUME NEW t \in Tasks, dequeueTask(t) PROVE CoreInv'
  <2>1. /\ status[t] = "queued" /\ req' = req
        /\ \A u \in Tasks : status'[u] = IF u = t THEN "cancelled" ELSE status[u]
        /\ pumpHost' = NoHost
        /\ UNCHANGED <<runningByHost, queuedByHost, locks, armed, external>>
    BY <1>11 DEF dequeueTask, Idle, pumpVars, TypeOK, TaskType
  <2>2. req[t].host \in Hosts /\ "cancelled" \in Statuses
    BY <2>1, HostOfTask DEF Statuses
  <2>3. TableInv'
    BY <1>0, <2>1, <2>2, IdleTable
  <2> QED
    BY <1>n, <2>1, <2>3
<1>12. ASSUME NEW t \in Tasks, Active(t), cancelTask(t) PROVE CoreInv'
  <2>1. TableInv' /\ pumpQueue(req[t].host) /\ req[t].host \in Hosts
    BY <1>0, <1>12, CancelTable, HostOfTask DEF cancelTask, Active
  <2> QED
    BY <2>1, PumpQueueTodo DEF CoreInv
<1>13. ASSUME UNCHANGED <<status, req, external, locks, armed, runningByHost, queuedByHost>>,
              \/ pumpHost' = NoHost
              \/ pumpHost' = pumpHost /\ pumpTodo' \subseteq pumpTodo
       PROVE  CoreInv'
  <2>1. TableInv'
    BY <1>0, <1>13, SameTable
  <2> QED
    BY <1>0, <1>13, <2>1 DEF CoreInv, TodoInv
<1>14. ASSUME abortActiveTasks \/ AbortDone \/ dispose \/ DisposeDone \/ PumpDone
              \/ (\E t \in Tasks : AbortSkip(t) \/ PumpBlocked(t)) \/ UNCHANGED vars
       PROVE  CoreInv'
  BY <1>13, <1>14 DEF abortActiveTasks, AbortDone, dispose, DisposeDone, PumpDone, AbortSkip,
     PumpBlocked, vars, taskVars, indexVars, pumpVars
<1>15. ASSUME NEW t \in Tasks, PumpHead(t)
       PROVE  /\ status[t] = "queued" /\ req[t].host = pumpHost /\ pumpHost \in Hosts
              /\ req[t] \in Requests /\ req = [req EXCEPT ![t] = req[t]]
  BY <1>0, <1>15, HostOfTask DEF PumpHead, TodoInv, TypeOK, TaskType, PumpType
<1>16. ASSUME NEW t \in Tasks, PumpLocked(t) PROVE CoreInv'
  <2>1. /\ PumpHead(t) /\ req' = req /\ pumpHost' = pumpHost /\ pumpTodo' = pumpTodo \ {t}
        /\ enqueue(t, req[t], queuedByHost[req[t].host] \cup {t})
        /\ UNCHANGED <<runningByHost, locks, armed, external>>
    BY <1>16 DEF PumpLocked, startTaskLocked
  <2>2. TableInv'
    BY <1>0, <1>15, <2>1, EnqueueTable
  <2>3. queuedByHost[req[t].host] \cup {t} \in SUBSET Tasks
    BY <1>15, <2>1 DEF TypeOK, IndexType
  <2>4. \A u \in Tasks : u # t => status'[u] = status[u]
    BY <1>15, <2>1, <2>3, EnqueueType DEF TypeOK, TaskType
  <2> QED
    BY <1>0, <2>1, <2>2, <2>4 DEF CoreInv, TodoInv, TypeOK, PumpType
<1>17. ASSUME NEW t \in Tasks, PumpStart(t) \/ \E timer \in BOOLEAN : PumpThrow(t, timer)
       PROVE  CoreInv'
  <2>1. /\ PumpHead(t) /\ req' = req /\ pumpHost' = pumpHost /\ external' = external
        /\ pumpTodo' = {u \in queuedByHost'[pumpHost] : status'[u] = "queued"}
        /\ \/ startTaskRuns(t, req[t])
           \/ \E timer \in BOOLEAN : startTaskThrows(t, req[t], timer)
    BY <1>17 DEF PumpStart, PumpThrow
  <2>2. TableInv'
    BY <1>0, <1>15, <2>1, RunsTable, ThrowsTable
  <2> QED
    BY <1>15, <2>1, <2>2, SnapshotTodo DEF CoreInv
<1>18. ASSUME PumpReturn PROVE CoreInv'
  <2>1. /\ pumpHost \in Hosts /\ pumpHost' = pumpHost
        /\ pumpTodo' = {u \in queuedByHost'[pumpHost] : status'[u] = "queued"}
        /\ UNCHANGED <<status, req, external, locks, armed, runningByHost, queuedByHost>>
    BY <1>18 DEF PumpReturn, getQueuedTasks, taskVars, indexVars, TypeOK, PumpType
  <2>2. TableInv'
    BY <1>0, <2>1, SameTable
  <2> QED
    BY <2>1, <2>2, SnapshotTodo DEF CoreInv
<1>19. ASSUME NEW t \in Tasks, Cancel(t) \/ AbortCancel(t) PROVE CoreInv'
  BY <1>12, <1>19 DEF Cancel, AbortCancel
<1>20. ASSUME NEW t \in Tasks, DisposeStop(t) PROVE CoreInv'
  <2>1. /\ status[t] \in {"running", "failed"} /\ "failed" \in Terminal
        /\ finishTask(t, "failed") /\ armed' \subseteq armed
    BY <1>20 DEF DisposeStop, backgroundTaskControllers, Terminal
  <2> QED
    BY <1>7, <2>1
<1> QED
  BY <1>1, <1>2, <1>3, <1>4, <1>5, <1>6, <1>8, <1>9, <1>10, <1>11, <1>14, <1>16, <1>17,
     <1>18, <1>19, <1>20
  DEF Next, Schedule, Client, PumpStep, AbortStep, DisposeStep

LEMMA CoreCorrect == Spec => [](TypeOK /\ CoreInv)
<1>1. Init => TypeOK /\ CoreInv
  BY InitType, InitCore
<1>2. TypeOK /\ CoreInv /\ [Next]_vars => (TypeOK /\ CoreInv)'
  BY NextType, NextCore
<1> QED
  BY <1>1, <1>2, PTL DEF Spec

-----------------------------------------------------------------------------
(* What the inductive invariant gives.                                     *)

\* IndexInv for all the tasks of a host at once.
LEMMA CoreIndex ==
    ASSUME TypeOK, CoreInv
    PROVE  IndexMatchesStatus
<1> SUFFICES ASSUME NEW h \in Hosts
    PROVE  /\ {t \in runningByHost[h] : status[t] = "running"}
                = {t \in Tasks : status[t] = "running" /\ req[t].host = h}
           /\ getQueuedTasks(h) = {t \in Tasks : status[t] = "queued" /\ req[t].host = h}
           /\ \A t \in runningByHost[h] :
                 status[t] = "running" \/ (t \in external /\ status[t] \in Terminal)
           /\ queuedByHost[h] = getQueuedTasks(h) \cup Dropped(h)
  BY Zenon DEF IndexMatchesStatus
<1>1. /\ runningByHost[h] \subseteq Tasks /\ queuedByHost[h] \subseteq Tasks
      /\ IndexInv
  BY DEF TypeOK, IndexType, CoreInv, TableInv
<1>2. \A u \in Tasks :
        /\ status[u] = "running" /\ req[u].host = h => u \in runningByHost[h]
        /\ u \in runningByHost[h] =>
              \/ status[u] = "running" /\ req[u].host = h
              \/ u \in external /\ status[u] \in Terminal
        /\ status[u] = "queued" /\ req[u].host = h => u \in queuedByHost[h]
        /\ u \in queuedByHost[h] =>
              (status[u] = "queued" /\ req[u].host = h) \/ status[u] = "cancelled"
  BY <1>1 DEF IndexInv
<1> QED
  BY <1>1, <1>2 DEF getQueuedTasks, Dropped, Terminal

\* Two running tasks of the scheduler do not need the same lock: each owns the
\* one it needs.
LEMMA CoreExclusion == CoreInv => ConflictingTasksExclude
  BY DEF CoreInv, TableInv, OwnsItsLock, ConflictingTasksExclude

\* The indices runningByHost and queuedByHost agree with task.status at every
\* step of every operation (addToIndex and removeFromIndex are always called
\* around the assignment of the status).
THEOREM IndexCorrect == Spec => []IndexMatchesStatus
  BY CoreIndex, CoreCorrect, PTL

\* No lock outlives its owner: whatever ends a task gives its locks back.
THEOREM LocksCorrect == Spec => []LocksHeldByRunningTasks
<1>1. CoreInv => LocksHeldByRunningTasks
  BY DEF CoreInv, TableInv
<1> QED
  BY <1>1, CoreCorrect, PTL

\* Mutual exclusion: two running tasks of the scheduler never need the same
\* lock, since each owns the one it needs.
THEOREM Exclusion == Spec => []ConflictingTasksExclude
  BY CoreExclusion, CoreCorrect, PTL

\* How the status of a task moves: the scheduler starts, queues or turns down
\* the fresh and the queued tasks, a queued or running one ends, and one that
\* failed may fail again.
Moves(a, b) ==
    \/ a \in {"none", "queued"} /\ b \in {"queued", "running", "failed", "cancelled"}
    \/ a = "running" /\ b \in Terminal
    \/ a = "failed" /\ b = "failed"

\* Every step of the scheduler leaves a task alone, moves it, or takes it from
\* the queue and gives it to the runner.
LEMMA LifeStep ==
    ASSUME TypeOK, CoreInv, [Next]_vars
    PROVE  \A u \in Tasks :
              \/ status'[u] = status[u] /\ runs'[u] = runs[u]
              \/ Moves(status[u], status'[u]) /\ runs'[u] = runs[u]
              \/ /\ status[u] \in {"none", "queued"} /\ status'[u] \in {"running", "failed"}
                 /\ runs'[u] = runs[u] + 1
<1> DEFINE Life == \A u \in Tasks :
              \/ status'[u] = status[u] /\ runs'[u] = runs[u]
              \/ Moves(status[u], status'[u]) /\ runs'[u] = runs[u]
              \/ /\ status[u] \in {"none", "queued"} /\ status'[u] \in {"running", "failed"}
                 /\ runs'[u] = runs[u] + 1
<1>0. TableInv /\ TodoInv
  BY DEF CoreInv
<1>1. ASSUME NEW t \in Tasks, NEW s \in Statuses, status' = [status EXCEPT ![t] = s],
             Moves(status[t], s), runs' = runs
      PROVE  Life
  BY <1>1 DEF TypeOK, TaskType
<1>2. ASSUME NEW t \in Tasks, NEW r, status[t] \in {"none", "queued"},
             \/ startTaskRuns(t, r) \/ (\E timer \in BOOLEAN : startTaskThrows(t, r, timer))
      PROVE  Life
  <2>1. /\ \A u \in Tasks : u # t => status'[u] = status[u] /\ runs'[u] = runs[u]
        /\ status'[t] \in {"running", "failed"} /\ runs'[t] = runs[t] + 1
    BY <1>2 DEF startTaskRuns, startTaskThrows, TypeOK, TaskType
  <2> QED
    BY <1>2, <2>1
<1>3. ASSUME NEW t \in Tasks, NEW r, NEW index, status[t] \in {"none", "queued"},
             enqueue(t, r, index), runs' = runs
      PROVE  Life
  BY <1>1, <1>3 DEF enqueue, Moves, Statuses
<1>4. CASE Schedule
  <2>1. PICK t \in Tasks, r \in Requests :
          \/ ScheduleRun(t, r) \/ ScheduleLocked(t, r) \/ ScheduleQueue(t, r)
          \/ (\E timer \in BOOLEAN : ScheduleThrow(t, r, timer))
          \/ ScheduleReject(t, r) \/ registerExternal(t, r)
    BY <1>4 DEF Schedule
  <2>2. status[t] = "none"
    BY <2>1 DEF ScheduleRun, ScheduleLocked, ScheduleQueue, ScheduleThrow, ScheduleReject,
       registerExternal, createTask
  <2>3. CASE ScheduleReject(t, r) \/ registerExternal(t, r)
    BY <1>1, <2>2, <2>3 DEF ScheduleReject, registerExternal, Statuses, Moves
  <2>4. CASE ScheduleLocked(t, r) \/ ScheduleQueue(t, r)
    BY <1>3, <2>2, <2>4 DEF ScheduleLocked, startTaskLocked, ScheduleQueue
  <2>5. CASE ScheduleRun(t, r) \/ (\E timer \in BOOLEAN : ScheduleThrow(t, r, timer))
    BY <1>2, <2>2, <2>5 DEF ScheduleRun, ScheduleThrow
  <2> QED
    BY <2>1, <2>3, <2>4, <2>5
<1>5. ASSUME NEW t \in Tasks, TaskCallback(t) PROVE Life
  <2>1. CASE CallbackCancelled(t)
    BY <2>1 DEF CallbackCancelled
  <2>2. ASSUME NEW outcome \in {"completed", "failed"}, NEW again \in BOOLEAN,
               Callback(t, outcome, again)
        PROVE  Life
    <3>1. status[t] \in {"running", "failed"} /\ (status[t] = "failed" => outcome = "failed")
      BY <1>0, <2>2 DEF Callback, TableInv, ArmedInv
    <3> QED
      BY <1>1, <2>2, <3>1 DEF Callback, finishTask, Terminal, Statuses, Moves
  <2> QED
    BY <1>5, <2>1, <2>2 DEF TaskCallback
<1>6. ASSUME NEW t \in Tasks, ExternalReport(t) \/ dequeueTask(t) \/ DisposeStop(t)
      PROVE  Life
  BY <1>1, <1>6 DEF ExternalReport, finishExternalTask, finishTask, dequeueTask, DisposeStop,
     backgroundTaskControllers, Terminal, Statuses, Moves
<1>7. ASSUME NEW t \in Tasks, Cancel(t) \/ AbortCancel(t) PROVE Life
  BY <1>1, <1>7 DEF Cancel, AbortCancel, Active, cancelTask, Terminal, Statuses, Moves
<1>8. ASSUME NEW t \in Tasks,
             PumpLocked(t) \/ PumpStart(t) \/ (\E timer \in BOOLEAN : PumpThrow(t, timer))
      PROVE  Life
  <2>1. PumpHead(t) /\ t \in pumpTodo /\ pumpHost # NoHost
    BY <1>8 DEF PumpLocked, PumpStart, PumpThrow, PumpHead
  <2>2. status[t] = "queued"
    BY <1>0, <2>1 DEF TodoInv
  <2>3. CASE PumpLocked(t)
    BY <1>3, <2>2, <2>3 DEF PumpLocked, startTaskLocked
  <2> QED
    BY <1>2, <1>8, <2>2, <2>3 DEF PumpStart, PumpThrow
<1>9. ASSUME \/ abortActiveTasks \/ AbortDone \/ dispose \/ DisposeDone \/ PumpDone \/ PumpReturn
             \/ \E t \in Tasks : AbortSkip(t) \/ PumpBlocked(t) \/ waitTask(t) \/ WaitTimeout(t)
             \/ UNCHANGED vars
      PROVE  Life
  BY <1>9 DEF abortActiveTasks, AbortDone, dispose, DisposeDone, PumpDone, PumpReturn, AbortSkip,
     PumpBlocked, waitTask, WaitTimeout, vars, taskVars
<1> QED
  BY <1>4, <1>5, <1>6, <1>7, <1>8, <1>9 DEF Next, Client, PumpStep, AbortStep, DisposeStep

\* A task is given to the runner when it leaves the queue, and not before.
RunsInv ==
    \A u \in Tasks : /\ runs[u] <= 1
                     /\ status[u] \in {"none", "queued"} => runs[u] = 0

\* startTask hands a task to the runner at most once in its life.
THEOREM RunsOnce == Spec => []RunAtMostOnce
<1>1. Init => RunsInv
  BY DEF Init, RunsInv
<1>2. TypeOK /\ CoreInv /\ RunsInv /\ [Next]_vars => RunsInv'
  <2> SUFFICES ASSUME TypeOK, CoreInv, RunsInv, [Next]_vars, NEW u \in Tasks
      PROVE  runs'[u] <= 1 /\ (status'[u] \in {"none", "queued"} => runs'[u] = 0)
    BY DEF RunsInv
  <2>1. \/ status'[u] = status[u] /\ runs'[u] = runs[u]
        \/ Moves(status[u], status'[u]) /\ runs'[u] = runs[u]
        \/ /\ status[u] \in {"none", "queued"} /\ status'[u] \in {"running", "failed"}
           /\ runs'[u] = runs[u] + 1
    BY LifeStep
  <2> QED
    BY <2>1 DEF RunsInv, Moves, Terminal
<1>3. TypeOK /\ RunsInv => RunAtMostOnce
  BY DEF TypeOK, TaskType, RunsInv, RunAtMostOnce
<1> QED
  BY <1>1, <1>2, <1>3, CoreCorrect, PTL DEF Spec

\* A task that is over does not move: it can only fail again.
LEMMA FinalStep ==
    ASSUME TypeOK, CoreInv, [Next]_vars
    PROVE  \A u \in Tasks : status[u] \in Terminal \cup {"gone"} => status'[u] = status[u]
  BY LifeStep DEF Moves, Terminal

\* A task that is over stays as it is, whatever comes late: the callback of a
\* cancelled command, a second callback, a cancel, an abort.
THEOREM TerminalCorrect == Spec => TerminalIsFinal
<1>1. TypeOK /\ CoreInv /\ [Next]_vars =>
        [\A t \in Tasks : status[t] \in Terminal => status'[t] = status[t]]_vars
  BY FinalStep
<1> QED
  BY <1>1, CoreCorrect, PTL DEF Spec, TerminalIsFinal

-----------------------------------------------------------------------------
(* The queue is pumped dry.                                                *)

\* The loop of pumpQueue has still to look at a task: it is in the snapshot, or
\* a loop further out will take a new one.
InLoop(u) == pumpHost = req[u].host /\ (pumpDepth > 0 \/ u \in pumpTodo)

\* QueueIsPumpedDry in the middle of a pump: what could start is still to come.
PumpedInv == \A u \in Tasks : status[u] = "queued" => ~Startable(u) \/ InLoop(u)

\* Nothing is freed on a host: its locks stay taken and its tasks stay running.
HostStaysBusy(h) ==
    /\ \A k \in LockKeys : k[1] = h /\ locks[k] # NoTask => locks'[k] # NoTask
    /\ \A u \in Tasks : u \in runningByHost[h] /\ status[u] = "running" =>
          u \in runningByHost'[h] /\ status'[u] = "running" /\ req'[u] = req[u]

\* What blocks a request goes on blocking it while nothing is freed on its host.
LEMMA StaysBlocked ==
    ASSUME TypeOK, TypeOK', NEW r \in Requests, HostStaysBusy(r.host),
           findBlockersWithPrecomputed(r) # {}
    PROVE  findBlockersWithPrecomputed(r)' # {}
<1> DEFINE running == getNonBypassRunningTasks(r.host)
<1>0. r.host \in Hosts /\ r.cwd \in Cwds \cup {NoCwd} /\ r.cost \in Costs
  BY RequestFields
<1>1. running \subseteq Tasks /\ running \subseteq running'
  BY <1>0 DEF getNonBypassRunningTasks, HostStaysBusy, TypeOK, IndexType
<1>2. \A u \in running : u \in Tasks /\ req'[u] = req[u]
  BY <1>1 DEF getNonBypassRunningTasks, HostStaysBusy
<1>3. running' \subseteq Tasks
  BY <1>0 DEF getNonBypassRunningTasks, TypeOK, IndexType
<1>4. /\ Cardinality(running) \in Nat /\ Cardinality(running') \in Nat
      /\ Cardinality(running) <= Cardinality(running')
  BY <1>1, <1>3, TasksAssumption, FS_Subset, FS_CardinalityType
<1>5. LockBlockers(r) # {} => LockBlockers(r)' # {}
  <2>1. ASSUME r.cwd \in Cwds, getConflictingLocks(r) # {} PROVE getConflictingLocks(r)' # {}
    <3>1. <<r.host, HostLock>> \in LockKeys /\ <<r.host, r.cwd>> \in LockKeys
      BY <1>0, <2>1 DEF LockKeys
    <3> QED
      BY <2>1, <3>1 DEF getConflictingLocks, HostStaysBusy
  <2> QED
    BY <1>0, <2>1 DEF LockBlockers
<1>6. CostBlockers(r) # {} => CostBlockers(r)' # {}
  <2> HIDE DEF running
  <2>1. CASE r.cost \in {"small", "medium"}
    <3>1. /\ CostBlockers(r) = IF Cardinality(running) >= MaxTotalRunning THEN running ELSE {}
          /\ CostBlockers(r)' = IF Cardinality(running') >= MaxTotalRunning THEN running' ELSE {}
      BY <2>1 DEF CostBlockers, running
    <3> QED
      BY <1>1, <1>4, <3>1, LimitsAssumption
  <2>2. CASE r.cost \in {"tiny", "large", "exclusive"}
    <3>1. \A u \in CostBlockers(r) : u \in CostBlockers(r)'
      BY <1>1, <1>2, <2>2 DEF CostBlockers, running
    <3> QED
      BY <3>1
  <2> QED
    BY <1>0, <2>1, <2>2 DEF Costs
<1> QED
  BY <1>5, <1>6 DEF findBlockersWithPrecomputed

\* So does a queued task that cannot start.
LEMMA StaysUnstartable ==
    ASSUME TypeOK, TypeOK', TableInv', NEW u \in Tasks,
           status[u] = "queued", status'[u] = "queued", req'[u] = req[u],
           HostStaysBusy(req[u].host), ~Startable(u)
    PROVE  ~Startable(u)'
<1>1. PICK r \in Requests : r = req[u]
  BY HostOfTask
<1>2. CASE findBlockersWithPrecomputed(r) # {}
  BY <1>1, <1>2, StaysBlocked DEF Startable
<1>3. CASE ~CanAcquire(u, r)
  <2>1. NeedsLock(r) /\ LockKey(r) \in LockKeys /\ LockKey(r)[1] = r.host
    BY <1>3, RequestFields DEF CanAcquire
  <2>2. locks'[LockKey(r)] # NoTask
    BY <1>1, <1>3, <2>1 DEF CanAcquire, HostStaysBusy
  <2>3. locks'[LockKey(r)] # u
    BY <2>1, <2>2 DEF TableInv, LocksHeldByRunningTasks
  <2> QED
    BY <1>1, <2>1, <2>2, <2>3 DEF Startable, CanAcquire
<1> QED
  BY <1>1, <1>2, <1>3 DEF Startable

\* A step outside of the loop that frees nothing, but for the tasks it queues.
LEMMA BusyStep ==
    ASSUME TypeOK, TypeOK', TableInv, TableInv', PumpedInv,
           \A u \in Tasks : status'[u] = "queued" =>
              \/ ~Startable(u)'
              \/ InLoop(u)'
              \/ /\ status[u] = "queued" /\ req'[u] = req[u] /\ HostStaysBusy(req[u].host)
                 /\ InLoop(u) => InLoop(u)'
    PROVE  PumpedInv'
  BY StaysUnstartable DEF PumpedInv

\* A new snapshot holds every queued task of its host.
LEMMA SnapshotIsWhole ==
    ASSUME TypeOK', TableInv', NEW h \in Hosts, pumpHost' = h,
           pumpTodo' = {u \in queuedByHost'[h] : status'[u] = "queued"},
           NEW u \in Tasks, status'[u] = "queued", req'[u].host = h
    PROVE  InLoop(u)'
  BY DEF InLoop, TableInv, IndexInv

\* An operation that frees something on a host pumps the queue of that host.
LEMMA PumpQueueStep ==
    ASSUME TypeOK, TypeOK', TableInv, TableInv', PumpedInv,
           NEW h \in Hosts, pumpHost = NoHost, pumpQueue(h),
           \A u \in Tasks : status'[u] = "queued" /\ req'[u].host # h =>
              status[u] = "queued" /\ req'[u] = req[u],
           \A g \in Hosts \ {h} : HostStaysBusy(g)
    PROVE  PumpedInv'
<1>1. pumpHost' = h /\ pumpTodo' = {u \in queuedByHost'[h] : status'[u] = "queued"}
  BY DEF pumpQueue
<1>2. ASSUME NEW u \in Tasks, status'[u] = "queued", req'[u].host = h PROVE InLoop(u)'
  BY <1>1, <1>2, SnapshotIsWhole
<1>3. ASSUME NEW u \in Tasks, status'[u] = "queued", req'[u].host # h
      PROVE  /\ status[u] = "queued" /\ req'[u] = req[u] /\ HostStaysBusy(req[u].host)
             /\ ~InLoop(u)
  BY <1>3, HostOfTask, NullsAssumption DEF InLoop
<1> QED
  BY <1>2, <1>3, BusyStep

\* The end of a task frees nothing on other hosts.
LEMMA EndElsewhere ==
    ASSUME TypeOK, TableInv, NEW t \in Tasks, status[t] # "none",
           \A u \in Tasks : u # t => status'[u] = status[u],
           req' = req, locks' = releaseForTask(t),
           runningByHost' = removeFromRunning(t, req[t].host) \/ runningByHost' = runningByHost,
           NEW g \in Hosts \ {req[t].host}
    PROVE  HostStaysBusy(g)
<1>1. req[t].host \in Hosts
  BY HostOfTask
<1>2. runningByHost'[g] = runningByHost[g]
  BY <1>1 DEF removeFromRunning, TypeOK, IndexType
<1>3. \A k \in LockKeys : k[1] = g /\ locks[k] # NoTask => locks'[k] # NoTask
  <2>1. \A k \in LockKeys : locks[k] = t => k[1] = req[t].host
    BY NullsAssumption, RequestFields, HostOfTask DEF TableInv, LocksHeldByRunningTasks
  <2> QED
    BY <2>1 DEF releaseForTask
<1>4. ASSUME NEW u \in Tasks, u \in runningByHost[g], status[u] = "running"
      PROVE  u # t
  <2>1. g \in Hosts /\ g # req[t].host
    OBVIOUS
  <2>2. req[u].host = g
    BY <1>4, <2>1 DEF TableInv, IndexInv, Terminal
  <2> QED
    BY <2>1, <2>2
<1> QED
  BY <1>2, <1>3, <1>4 DEF HostStaysBusy

\* enqueue gives the task a place, or cancels it; the others keep theirs.
LEMMA EnqueueKeeps ==
    ASSUME TypeOK, NEW t \in Tasks, NEW r \in Requests, NEW index,
           enqueue(t, r, index)
    PROVE  \A u \in Tasks : u # t => status'[u] = status[u]
  BY DEF enqueue, TypeOK, TaskType

\* Every step of the scheduler keeps the queue pumped, up to the loop that is
\* under way.
LEMMA NextPumped ==
    ASSUME TypeOK, TypeOK', CoreInv, CoreInv', PumpedInv, [Next]_vars
    PROVE  PumpedInv'
<1>0. TableInv /\ TableInv' /\ TodoInv /\ TodoInv'
  BY DEF CoreInv
<1>1. ASSUME NEW t \in Tasks, status[t] = "none",
             pumpHost = NoHost, locks' = locks,
             \A u \in Tasks : u # t => status'[u] = status[u] /\ req'[u] = req[u],
             \A h \in Hosts : runningByHost[h] \subseteq runningByHost'[h],
             status'[t] = "queued" => ~Startable(t)'
      PROVE  PumpedInv'
  <2>1. \A u \in Tasks : status[u] = "queued" => req[u].host \in Hosts /\ ~InLoop(u)
    BY <1>1, HostOfTask, NullsAssumption DEF InLoop
  <2>2. \A h \in Hosts : HostStaysBusy(h)
    BY <1>1 DEF HostStaysBusy
  <2> QED
    BY <1>0, <1>1, <2>1, <2>2, BusyStep
<1>2. ASSUME NEW t \in Tasks, NEW r \in Requests, ScheduleRun(t, r) \/ registerExternal(t, r)
      PROVE  PumpedInv'
  <2>1. /\ pumpHost = NoHost /\ status[t] = "none"
        /\ \A u \in Tasks : u # t => status'[u] = status[u] /\ req'[u] = req[u]
        /\ \A h \in Hosts : runningByHost[h] \subseteq runningByHost'[h]
        /\ status'[t] = "running"
    BY <1>2 DEF ScheduleRun, registerExternal, createTask, Idle, startTaskRuns, TypeOK, TaskType,
       IndexType
  <2>2. \A k \in LockKeys : locks[k] # NoTask => locks'[k] # NoTask
    BY <1>2, NullsAssumption DEF ScheduleRun, registerExternal, startTaskRuns, acquire, TypeOK, TaskType
  <2>3. \A u \in Tasks : status[u] = "queued" => req[u].host \in Hosts /\ ~InLoop(u)
    BY <2>1, HostOfTask, NullsAssumption DEF InLoop
  <2>4. \A h \in Hosts : HostStaysBusy(h)
    BY <2>1, <2>2 DEF HostStaysBusy
  <2> QED
    BY <1>0, <2>1, <2>3, <2>4, BusyStep
<1>3. ASSUME NEW t \in Tasks, NEW r \in Requests, ScheduleLocked(t, r) PROVE PumpedInv'
  <2>1. /\ pumpHost = NoHost /\ status[t] = "none" /\ req' = [req EXCEPT ![t] = r]
        /\ enqueue(t, r, queuedByHost[r.host] \cup {t}) /\ ~CanAcquire(t, r)
        /\ locks' = locks /\ runningByHost' = runningByHost
    BY <1>3 DEF ScheduleLocked, createTask, Idle, startTaskLocked
  <2>2. \A u \in Tasks : u # t => status'[u] = status[u] /\ req'[u] = req[u]
    BY <2>1, EnqueueKeeps DEF TypeOK, TaskType
  <2>3. ~Startable(t)'
    BY <2>1 DEF Startable, CanAcquire, TypeOK, TaskType
  <2> QED
    BY <1>1, <2>1, <2>2, <2>3
<1>4. ASSUME NEW t \in Tasks, NEW r \in Requests, ScheduleQueue(t, r) PROVE PumpedInv'
  <2>1. /\ pumpHost = NoHost /\ status[t] = "none" /\ req' = [req EXCEPT ![t] = r]
        /\ enqueue(t, r, queuedByHost[r.host])
        /\ locks' = locks /\ runningByHost' = runningByHost
        /\ findBlockersWithPrecomputed(r) # {}
    BY <1>4 DEF ScheduleQueue, createTask, Idle, ScheduleStarts, findBlockers
  <2>2. \A u \in Tasks : u # t => status'[u] = status[u] /\ req'[u] = req[u]
    BY <2>1, EnqueueKeeps DEF TypeOK, TaskType
  <2>3. HostStaysBusy(r.host)
    BY <1>0, <2>1, <2>2, RequestFields DEF HostStaysBusy
  <2>4. findBlockersWithPrecomputed(r)' # {}
    BY <2>1, <2>3, StaysBlocked
  <2>5. ~Startable(t)'
    BY <2>1, <2>4 DEF Startable, TypeOK, TaskType
  <2> QED
    BY <1>1, <2>1, <2>2, <2>5
<1>5. ASSUME NEW t \in Tasks, NEW r \in Requests, ScheduleReject(t, r) PROVE PumpedInv'
  <2>1. /\ pumpHost = NoHost /\ status[t] = "none" /\ locks' = locks
        /\ runningByHost' = runningByHost /\ status'[t] = "cancelled"
        /\ \A u \in Tasks : u # t => status'[u] = status[u] /\ req'[u] = req[u]
    BY <1>5 DEF ScheduleReject, createTask, Idle, indexVars, TypeOK, TaskType
  <2> QED
    BY <1>1, <2>1
<1>6. ASSUME NEW t \in Tasks, NEW r \in Requests, NEW timer \in BOOLEAN, ScheduleThrow(t, r, timer)
      PROVE  PumpedInv'
  <2>1. /\ pumpHost = NoHost /\ status[t] = "none" /\ locks' = locks
        /\ runningByHost' = runningByHost /\ status'[t] = "failed" /\ pumpQueue(r.host)
        /\ \A u \in Tasks : u # t => status'[u] = status[u] /\ req'[u] = req[u]
        /\ r.host \in Hosts
    BY <1>6, RequestFields DEF ScheduleThrow, createTask, Idle, startTaskThrows, TypeOK, TaskType
  <2>2. \A h \in Hosts : HostStaysBusy(h)
    BY <2>1 DEF HostStaysBusy
  <2> QED
    BY <1>0, <2>1, <2>2, PumpQueueStep
<1>7. ASSUME NEW t \in Tasks, status[t] # "none", pumpHost = NoHost,
             \A u \in Tasks : u # t => status'[u] = status[u],
             status'[t] # "queued",
             req' = req, locks' = releaseForTask(t),
             runningByHost' = removeFromRunning(t, req[t].host) \/ runningByHost' = runningByHost,
             pumpQueue(req[t].host)
      PROVE  PumpedInv'
  <2>1. \A g \in Hosts \ {req[t].host} : HostStaysBusy(g)
    BY <1>0, <1>7, EndElsewhere
  <2>2. req[t].host \in Hosts
    BY <1>7, HostOfTask
  <2> QED
    BY <1>0, <1>7, <2>1, <2>2, PumpQueueStep
<1>8. ASSUME NEW t \in Tasks, NEW outcome \in Terminal, status[t] # "none", pumpHost = NoHost,
             finishTask(t, outcome)
      PROVE  PumpedInv'
  <2>1. \A u \in Tasks : status'[u] = IF u = t THEN outcome ELSE status[u]
    BY <1>8 DEF finishTask, TypeOK, TaskType
  <2> QED
    BY <1>7, <1>8, <2>1 DEF finishTask, Terminal
<1>9. ASSUME NEW t \in Tasks, pumpHost = NoHost, Active(t), cancelTask(t) PROVE PumpedInv'
  <2>1. \A u \in Tasks : status'[u] = IF u = t THEN "cancelled" ELSE status[u]
    BY <1>9 DEF cancelTask, TypeOK, TaskType
  <2> QED
    BY <1>7, <1>9, <2>1 DEF cancelTask, Active
<1>10. ASSUME NEW t \in Tasks, Cancel(t) \/ AbortCancel(t) PROVE PumpedInv'
  BY <1>9, <1>10 DEF Cancel, AbortCancel, AbortHead, Idle
<1>11. ASSUME NEW t \in Tasks, DisposeStop(t) PROVE PumpedInv'
  BY <1>8, <1>11 DEF DisposeStop, backgroundTaskControllers, Terminal
<1>12. ASSUME NEW t \in Tasks, ExternalReport(t) PROVE PumpedInv'
  <2>1. PICK outcome \in {"completed", "failed", "cancelled"} : finishExternalTask(t, outcome)
    BY <1>12 DEF ExternalReport
  <2>2. \A u \in Tasks : status'[u] = IF u = t THEN outcome ELSE status[u]
    BY <2>1 DEF finishExternalTask, TypeOK, TaskType
  <2> QED
    BY <1>7, <2>1, <2>2 DEF finishExternalTask, Idle, indexVars
<1>13. ASSUME UNCHANGED <<status, req, locks, runningByHost>>, pumpHost = NoHost
       PROVE  PumpedInv'
  <2>1. \A u \in Tasks : status[u] = "queued" => req[u].host \in Hosts /\ ~InLoop(u)
    BY <1>13, HostOfTask, NullsAssumption DEF InLoop
  <2>2. \A h \in Hosts : HostStaysBusy(h)
    BY <1>13 DEF HostStaysBusy
  <2> QED
    BY <1>0, <1>13, <2>1, <2>2, BusyStep
<1>14. ASSUME NEW t \in Tasks, TaskCallback(t) PROVE PumpedInv'
  <2>1. CASE CallbackCancelled(t)
    BY <1>13, <2>1 DEF CallbackCancelled, Idle, indexVars
  <2>2. ASSUME NEW outcome \in {"completed", "failed"}, NEW again \in BOOLEAN,
               Callback(t, outcome, again)
        PROVE  PumpedInv'
    <3>1. status[t] # "none" /\ outcome \in Terminal /\ pumpHost = NoHost
      BY <1>0, <2>2 DEF Callback, TableInv, ArmedInv, Terminal, Idle
    <3> QED
      BY <1>8, <2>2, <3>1 DEF Callback
  <2> QED
    BY <1>14, <2>1, <2>2 DEF TaskCallback
<1>15. ASSUME NEW t \in Tasks, dequeueTask(t) PROVE PumpedInv'
  <2>1. /\ UNCHANGED <<req, locks, runningByHost>> /\ pumpHost = NoHost
        /\ \A u \in Tasks : status'[u] = IF u = t THEN "cancelled" ELSE status[u]
        /\ status[t] = "queued"
    BY <1>15 DEF dequeueTask, Idle, TypeOK, TaskType
  <2>2. \A u \in Tasks : status[u] = "queued" => req[u].host \in Hosts /\ ~InLoop(u)
    BY <2>1, HostOfTask, NullsAssumption DEF InLoop
  <2>3. \A h \in Hosts : HostStaysBusy(h)
    BY <2>1 DEF HostStaysBusy
  <2> QED
    BY <1>0, <2>1, <2>2, <2>3, BusyStep
<1>16. ASSUME \/ abortActiveTasks \/ AbortDone \/ dispose \/ DisposeDone
              \/ \E t \in Tasks : AbortSkip(t) \/ waitTask(t) \/ WaitTimeout(t)
       PROVE  PumpedInv'
  BY <1>13, <1>16 DEF abortActiveTasks, AbortDone, dispose, DisposeDone, AbortSkip, AbortHead,
     waitTask, WaitTimeout, Idle, taskVars, indexVars, pumpVars
<1>17. ASSUME NEW t \in Tasks, PumpHead(t)
       PROVE  /\ status[t] = "queued" /\ req[t].host = pumpHost /\ pumpHost \in Hosts
              /\ req[t] \in Requests
  BY <1>0, <1>17, HostOfTask DEF PumpHead, TodoInv
<1>18. ASSUME NEW t \in Tasks, PumpHead(t), req' = req, pumpHost' = pumpHost,
              pumpDepth' = pumpDepth, pumpTodo' = pumpTodo \ {t},
              locks' = locks, runningByHost' = runningByHost,
              \A u \in Tasks : u # t => status'[u] = status[u],
              ~Startable(t)'
       PROVE  PumpedInv'
  <2>1. \A u \in Tasks : u # t /\ InLoop(u) => InLoop(u)'
    BY <1>18 DEF InLoop
  <2>2. \A u \in Tasks : status[u] = "queued" => HostStaysBusy(req[u].host)
    BY <1>0, <1>17, <1>18, HostOfTask DEF HostStaysBusy, TableInv, IndexInv
  <2> QED
    BY <1>0, <1>18, <2>1, <2>2, BusyStep
<1>19. ASSUME NEW t \in Tasks, PumpBlocked(t) PROVE PumpedInv'
  <2>1. /\ PumpHead(t) /\ UNCHANGED <<req, status, locks, runningByHost, pumpHost, pumpDepth>>
        /\ pumpTodo' = pumpTodo \ {t} /\ findBlockersWithPrecomputed(req[t]) # {}
    BY <1>19 DEF PumpBlocked, taskVars, indexVars
  <2>2. req[t] \in Requests /\ HostStaysBusy(req[t].host)
    BY <1>17, <2>1 DEF HostStaysBusy
  <2>3. PICK r \in Requests : r = req[t] /\ HostStaysBusy(r.host)
    BY <2>2
  <2>4. findBlockersWithPrecomputed(r)' # {}
    BY <2>1, <2>3, StaysBlocked
  <2>5. ~Startable(t)'
    BY <2>1, <2>3, <2>4 DEF Startable
  <2> QED
    BY <1>18, <2>1, <2>5
<1>20. ASSUME NEW t \in Tasks, PumpLocked(t) PROVE PumpedInv'
  <2>1. /\ PumpHead(t) /\ UNCHANGED <<req, locks, runningByHost, pumpHost, pumpDepth>>
        /\ pumpTodo' = pumpTodo \ {t} /\ ~CanAcquire(t, req[t])
        /\ enqueue(t, req[t], queuedByHost[req[t].host] \cup {t})
    BY <1>20 DEF PumpLocked, startTaskLocked
  <2>2. \A u \in Tasks : u # t => status'[u] = status[u]
    BY <1>17, <2>1, EnqueueKeeps
  <2>3. ~Startable(t)'
    BY <2>1 DEF Startable, CanAcquire
  <2> QED
    BY <1>18, <2>1, <2>2, <2>3
<1>21. ASSUME NEW t \in Tasks, pumpHost \in Hosts, pumpHost' = pumpHost, req' = req,
              pumpTodo' = {u \in queuedByHost'[pumpHost] : status'[u] = "queued"},
              \A u \in Tasks : status'[u] = "queued" => status[u] = "queued",
              \A u \in Tasks : status[u] = "running" => status'[u] = "running",
              \A k \in LockKeys : locks[k] # NoTask => locks'[k] # NoTask,
              \A h \in Hosts : runningByHost[h] \subseteq runningByHost'[h]
       PROVE  PumpedInv'
  <2>1. ASSUME NEW u \in Tasks, status'[u] = "queued", req'[u].host = pumpHost PROVE InLoop(u)'
    BY <1>0, <1>21, <2>1, SnapshotIsWhole
  <2>2. ASSUME NEW u \in Tasks, status'[u] = "queued", req'[u].host # pumpHost
        PROVE  status[u] = "queued" /\ HostStaysBusy(req[u].host) /\ ~InLoop(u)
    BY <1>21, <2>2, HostOfTask DEF InLoop, HostStaysBusy
  <2> QED
    BY <1>0, <1>21, <2>1, <2>2, BusyStep
<1>22. ASSUME NEW t \in Tasks, PumpStart(t) \/ \E timer \in BOOLEAN : PumpThrow(t, timer)
       PROVE  PumpedInv'
  <2>1. /\ PumpHead(t) /\ req' = req /\ pumpHost' = pumpHost
        /\ pumpTodo' = {u \in queuedByHost'[pumpHost] : status'[u] = "queued"}
        /\ \/ startTaskRuns(t, req[t])
           \/ \E timer \in BOOLEAN : startTaskThrows(t, req[t], timer)
    BY <1>22 DEF PumpStart, PumpThrow
  <2>2. /\ \A u \in Tasks : status'[u] \in IF u = t THEN {"running", "failed"} ELSE {status[u]}
        /\ \A k \in LockKeys : locks[k] # NoTask => locks'[k] # NoTask
        /\ \A h \in Hosts : runningByHost[h] \subseteq runningByHost'[h]
    BY <2>1, NullsAssumption DEF startTaskRuns, startTaskThrows, acquire, TypeOK, TaskType, IndexType
  <2> QED
    BY <1>17, <1>21, <2>1, <2>2
<1>23. ASSUME PumpReturn PROVE PumpedInv'
  <2>1. /\ pumpHost \in Hosts /\ pumpHost' = pumpHost
        /\ pumpTodo' = {u \in queuedByHost'[pumpHost] : status'[u] = "queued"}
        /\ UNCHANGED <<status, req, locks, runningByHost>>
    BY <1>23 DEF PumpReturn, getQueuedTasks, taskVars, indexVars, TypeOK, PumpType
  <2>2. ASSUME NEW u \in Tasks, status'[u] = "queued", req'[u].host = pumpHost PROVE InLoop(u)'
    BY <1>0, <2>1, <2>2, SnapshotIsWhole
  <2>3. ASSUME NEW u \in Tasks, status'[u] = "queued", req'[u].host # pumpHost
        PROVE  status[u] = "queued" /\ HostStaysBusy(req[u].host) /\ ~InLoop(u)
    BY <2>1, <2>3, HostOfTask DEF InLoop, HostStaysBusy
  <2> QED
    BY <1>0, <2>1, <2>2, <2>3, BusyStep
<1>24. ASSUME PumpDone PROVE PumpedInv'
  <2>1. /\ pumpTodo = {} /\ pumpDepth = 0
        /\ UNCHANGED <<status, req, locks, runningByHost>>
    BY <1>24 DEF PumpDone, taskVars, indexVars
  <2>2. \A u \in Tasks : ~InLoop(u)
    BY <2>1 DEF InLoop
  <2>3. \A h \in Hosts : HostStaysBusy(h)
    BY <2>1 DEF HostStaysBusy
  <2>4. \A u \in Tasks : status[u] = "queued" => req[u].host \in Hosts
    BY HostOfTask
  <2> QED
    BY <1>0, <2>1, <2>2, <2>3, <2>4, BusyStep
<1>25. ASSUME UNCHANGED vars PROVE PumpedInv'
  <2>1. UNCHANGED <<status, req, locks, runningByHost, pumpHost, pumpTodo, pumpDepth>>
    BY <1>25 DEF vars, taskVars, indexVars, pumpVars
  <2>2. \A u \in Tasks : status[u] = "queued" => HostStaysBusy(req[u].host) /\ InLoop(u)' = InLoop(u)
    BY <2>1 DEF HostStaysBusy, InLoop
  <2> QED
    BY <1>0, <2>1, <2>2, BusyStep
<1> QED
  BY <1>2, <1>3, <1>4, <1>5, <1>6, <1>10, <1>11, <1>12, <1>14, <1>15, <1>16, <1>19, <1>20,
     <1>22, <1>23, <1>24, <1>25
  DEF Next, Schedule, Client, PumpStep, AbortStep, DisposeStep

\* No missed wake-up: whenever pumpQueue is over, no queued task could start.
\* Every step that frees a running slot or a lock pumps the queue of that host,
\* and what is freed on one host is of no use on another.
THEOREM PumpedDry == Spec => []QueueIsPumpedDry
<1>1. Init => PumpedInv
  BY DEF Init, PumpedInv
<1>2. TypeOK /\ CoreInv /\ PumpedInv /\ (TypeOK /\ CoreInv)' /\ [Next]_vars => PumpedInv'
  BY NextPumped
<1>3. TypeOK /\ PumpedInv => QueueIsPumpedDry
  BY HostOfTask, NullsAssumption DEF PumpedInv, InLoop, QueueIsPumpedDry
<1> QED
  BY <1>1, <1>2, <1>3, CoreCorrect, PTL DEF Spec

-----------------------------------------------------------------------------
(* Refinement: the scheduler implements TaskBoard.  A step of the scheduler *)
(* moves one task at most, and the inductive invariant says from where: only *)
(* queued tasks are in the snapshot of pumpQueue, only running, failed and   *)
(* cancelled ones call back, and running tasks own the locks they need.      *)

\* The claims as TaskBoard sees them.
ClaimTable == [t \in Tasks |-> ClaimOf(t)]

\* Among the scheduler's running tasks every claim has one holder.
ClaimsHeldOnce ==
    /\ \A t \in Tasks : ClaimOf(t) \in LockKeys \cup {NoTask}
    /\ \A t, u \in Tasks :
          (t # u /\ status[t] = "running" /\ status[u] = "running" /\ ClaimOf(t) # NoTask)
          => ClaimOf(u) # ClaimOf(t)

\* A claim that is held is a lock that is owned, and a lock has one owner.
LEMMA OneHolder == TypeOK /\ CoreInv => ClaimsHeldOnce
<1> SUFFICES ASSUME TypeOK, CoreInv PROVE ClaimsHeldOnce
  OBVIOUS
<1>1. ASSUME NEW t \in Tasks PROVE ClaimOf(t) \in LockKeys \cup {NoTask}
  <2>1. CASE status[t] # "none"
    <3>1. req[t] \in Requests
      BY <2>1 DEF TypeOK, TaskType
    <3>2. NeedsLock(req[t]) => LockKey(req[t]) \in LockKeys
      BY <3>1, RequestFields DEF NeedsLock, LockKey, LockKeys
    <3> QED
      BY <3>2 DEF ClaimOf
  <2>2. CASE status[t] = "none"
    BY <2>2 DEF ClaimOf
  <2> QED
    BY <2>1, <2>2
<1>2. ASSUME NEW t \in Tasks, NEW u \in Tasks, t # u, status[t] = "running",
             status[u] = "running", ClaimOf(t) # NoTask
      PROVE  ClaimOf(u) # ClaimOf(t)
  <2>1. OwnsItsLock
    BY DEF CoreInv, TableInv
  <2>2. t \notin external /\ NeedsLock(req[t]) /\ ClaimOf(t) = LockKey(req[t])
    BY <1>2 DEF ClaimOf
  <2>3. locks[LockKey(req[t])] = t
    BY <1>2, <2>1, <2>2 DEF OwnsItsLock
  <2>4. CASE u \in external \/ ~NeedsLock(req[u])
    BY <1>2, <2>4 DEF ClaimOf
  <2>5. CASE u \notin external /\ NeedsLock(req[u])
    <3>1. ClaimOf(u) = LockKey(req[u]) /\ locks[LockKey(req[u])] = u
      BY <1>2, <2>1, <2>5 DEF OwnsItsLock, ClaimOf
    <3> QED
      BY <1>2, <2>2, <2>3, <3>1
  <2> QED
    BY <2>4, <2>5
<1> QED
  BY <1>1, <1>2 DEF ClaimsHeldOnce

\* A known task moves: a queued one starts, is put back or ends, a running one
\* ends, and one that failed fails again.
LEMMA MoveRefines ==
    ASSUME TypeOK, CoreInv, ClaimsHeldOnce',
           NEW t \in Tasks, NEW p \in Statuses \ {"none"},
           status' = [status EXCEPT ![t] = p], req' = req, external' = external,
           \/ status[t] = "queued" /\ p \in {"queued", "running", "cancelled", "failed"}
           \/ status[t] = "running" /\ p \in {"completed", "failed", "cancelled"}
           \/ status[t] = "failed" /\ p = "failed"
    PROVE  [Board!BoardNext]_(Board!boardVars)
<1>1. status \in [Tasks -> Statuses]
  BY DEF TypeOK, TaskType
<1>2. \A u \in Tasks : u # t => status'[u] = status[u]
  BY <1>1
<1>3. status'[t] = p
  BY <1>1
<1>4. \A u \in Tasks : ClaimOf(u)' = ClaimOf(u)
  <2> SUFFICES ASSUME NEW u \in Tasks PROVE ClaimOf(u)' = ClaimOf(u)
    OBVIOUS
  <2>1. (status'[u] = "none") <=> (status[u] = "none")
    BY <1>2, <1>3
  <2> QED
    BY <2>1 DEF ClaimOf, NeedsLock, LockKey
<1>5. ClaimTable' = ClaimTable
  BY <1>4 DEF ClaimTable
<1>6. CASE p = status[t]
  <2>1. status' = status
    BY <1>1, <1>6
  <2> QED
    BY <1>5, <2>1 DEF Board!boardVars, ClaimTable
<1>7. CASE status[t] = "queued" /\ p = "running"
  <2>1. ASSUME ClaimTable[t] # NoTask, NEW u \in Tasks \ {t}, status[u] = "running"
        PROVE  ClaimTable[u] # ClaimTable[t]
    <3>1. /\ ClaimOf(t)' # NoTask
          /\ status'[t] = "running" /\ status'[u] = "running"
      BY <1>2, <1>3, <1>4, <1>7, <2>1 DEF ClaimTable
    <3>2. ClaimOf(u)' # ClaimOf(t)'
      BY <3>1 DEF ClaimsHeldOnce
    <3> QED
      BY <3>2, <1>4 DEF ClaimTable
  <2>2. Board!Free(t, ClaimTable[t])
    BY <2>1 DEF Board!Free, ClaimTable
  <2>3. Board!StartWaiting(t)
    BY <1>5, <1>7, <2>2 DEF Board!StartWaiting, ClaimTable
  <2> QED
    BY <2>3 DEF Board!BoardNext
<1>8. CASE status[t] = "queued" /\ p \in {"cancelled", "failed"}
  <2>1. Board!EndWaiting(t)
    BY <1>5, <1>8 DEF Board!EndWaiting, ClaimTable
  <2> QED
    BY <2>1 DEF Board!BoardNext
<1>9. CASE status[t] = "running"
  <2>1. Board!EndRunning(t)
    BY <1>5, <1>9 DEF Board!EndRunning, Board!Ended, ClaimTable
  <2> QED
    BY <2>1 DEF Board!BoardNext
<1> QED
  BY <1>6, <1>7, <1>8, <1>9

\* A new task: schedule and registerExternal.
LEMMA SubmitRefines ==
    ASSUME TypeOK, CoreInv, ClaimsHeldOnce',
           NEW t \in Tasks, NEW r \in Requests,
           NEW p \in {"queued", "running", "cancelled", "failed"},
           status[t] = "none", status' = [status EXCEPT ![t] = p],
           req' = [req EXCEPT ![t] = r], external' \in {external, external \cup {t}}
    PROVE  [Board!BoardNext]_(Board!boardVars)
<1>1. status \in [Tasks -> Statuses] /\ req \in [Tasks -> Requests \cup {NoRequest}]
  BY DEF TypeOK, TaskType
<1>2. \A u \in Tasks \ {t} :
        /\ status'[u] = status[u] /\ req'[u] = req[u]
        /\ u \in external' <=> u \in external
  BY <1>1
<1>3. \A u \in Tasks \ {t} : ClaimOf(u)' = ClaimOf(u)
  BY <1>2 DEF ClaimOf, NeedsLock, LockKey
<1>4. ClaimTable' = [ClaimTable EXCEPT ![t] = ClaimOf(t)']
  BY <1>3 DEF ClaimTable
<1>5. ClaimOf(t)' \in LockKeys \cup {NoTask}
  BY DEF ClaimsHeldOnce
<1>6. CASE p = "running"
  <2>1. ASSUME ClaimOf(t)' # NoTask, NEW u \in Tasks \ {t}, status[u] = "running"
        PROVE  ClaimTable[u] # ClaimOf(t)'
    <3>1. status'[t] = "running" /\ status'[u] = "running"
      BY <1>1, <1>2, <1>6, <2>1
    <3>2. ClaimOf(u)' # ClaimOf(t)'
      BY <3>1, <2>1 DEF ClaimsHeldOnce
    <3> QED
      BY <3>2, <1>3 DEF ClaimTable
  <2>2. Board!Free(t, ClaimOf(t)')
    BY <2>1 DEF Board!Free, ClaimTable
  <2>3. Board!SubmitRunning(t, ClaimOf(t)')
    BY <1>4, <1>6, <2>2 DEF Board!SubmitRunning, ClaimTable
  <2> QED
    BY <1>5, <2>3 DEF Board!BoardNext
<1>7. CASE p # "running"
  <2>1. Board!Submit(t, ClaimOf(t)')
    BY <1>4, <1>7 DEF Board!Submit, ClaimTable
  <2> QED
    BY <1>5, <2>1 DEF Board!BoardNext
<1> QED
  BY <1>6, <1>7

-----------------------------------------------------------------------------
(* One lemma for each group of actions.                                    *)

\* schedule and registerExternal submit one task, as queued, running or ended.
LEMMA ScheduleRefines ==
    ASSUME TypeOK, CoreInv, ClaimsHeldOnce', Schedule
    PROVE  [Board!BoardNext]_(Board!boardVars)
<1>1. PICK t \in Tasks, r \in Requests :
        \/ ScheduleRun(t, r) \/ ScheduleLocked(t, r) \/ ScheduleQueue(t, r)
        \/ (\E timer \in BOOLEAN : ScheduleThrow(t, r, timer))
        \/ ScheduleReject(t, r) \/ registerExternal(t, r)
  BY DEF Schedule
<1>2. status[t] = "none" /\ req' = [req EXCEPT ![t] = r]
  BY <1>1 DEF ScheduleRun, ScheduleLocked, ScheduleQueue, ScheduleThrow, ScheduleReject,
     registerExternal, createTask
<1>3. external' \in {external, external \cup {t}}
  BY <1>1 DEF ScheduleRun, ScheduleLocked, ScheduleQueue, ScheduleThrow, ScheduleReject,
     registerExternal
<1>4. \E p \in {"queued", "running", "cancelled", "failed"} : status' = [status EXCEPT ![t] = p]
  BY <1>1 DEF ScheduleRun, ScheduleLocked, ScheduleQueue, ScheduleThrow, ScheduleReject,
     registerExternal, startTaskRuns, startTaskLocked, startTaskThrows, enqueue
<1> QED
  BY <1>2, <1>3, <1>4, SubmitRefines

\* pumpQueue starts the head of its snapshot, puts it back or fails it.
LEMMA PumpRefines ==
    ASSUME TypeOK, CoreInv, ClaimsHeldOnce', NEW t \in Tasks,
           PumpLocked(t) \/ PumpStart(t) \/ (\E timer \in BOOLEAN : PumpThrow(t, timer))
    PROVE  [Board!BoardNext]_(Board!boardVars)
<1>1. status[t] = "queued"
  BY DEF PumpLocked, PumpStart, PumpThrow, PumpHead, CoreInv, TodoInv
<1>2. req' = req /\ external' = external
  BY DEF PumpLocked, PumpStart, PumpThrow
<1>3. \E p \in {"queued", "running", "cancelled", "failed"} : status' = [status EXCEPT ![t] = p]
  BY DEF PumpLocked, PumpStart, PumpThrow, startTaskRuns, startTaskLocked, startTaskThrows, enqueue
<1> QED
  BY <1>1, <1>2, <1>3, MoveRefines DEF Statuses

\* Callbacks, reports, dequeue, cancel, abort and dispose end one task.
LEMMA EndRefines ==
    ASSUME TypeOK, CoreInv, ClaimsHeldOnce', NEW t \in Tasks,
           \/ \E outcome \in {"completed", "failed"}, again \in BOOLEAN :
                  Callback(t, outcome, again)
           \/ ExternalReport(t) \/ dequeueTask(t) \/ DisposeStop(t)
           \/ Cancel(t) \/ AbortCancel(t)
    PROVE  [Board!BoardNext]_(Board!boardVars)
<1>1. req' = req /\ external' = external
  BY DEF Callback, ExternalReport, finishExternalTask, finishTask, dequeueTask, DisposeStop,
     Cancel, AbortCancel, cancelTask
<1>2. ASSUME NEW outcome \in {"completed", "failed"}, NEW again \in BOOLEAN,
             Callback(t, outcome, again)
      PROVE  [Board!BoardNext]_(Board!boardVars)
  <2>1. status[t] \in {"running", "failed"} /\ (status[t] = "failed" => outcome = "failed")
    BY <1>2 DEF Callback, CoreInv, TableInv, ArmedInv
  <2>2. status' = [status EXCEPT ![t] = outcome]
    BY <1>2 DEF Callback, finishTask
  <2> QED
    BY <1>1, <2>1, <2>2, MoveRefines DEF Statuses
<1>3. CASE ExternalReport(t) \/ DisposeStop(t)
  <2>1. status[t] = "running"
    BY <1>3 DEF ExternalReport, finishExternalTask, DisposeStop, backgroundTaskControllers
  <2>2. \E p \in {"completed", "failed", "cancelled"} : status' = [status EXCEPT ![t] = p]
    BY <1>3 DEF ExternalReport, finishExternalTask, DisposeStop, finishTask
  <2> QED
    BY <1>1, <2>1, <2>2, MoveRefines DEF Statuses
<1>4. CASE dequeueTask(t) \/ Cancel(t) \/ AbortCancel(t)
  <2>1. status[t] \in {"queued", "running"} /\ status' = [status EXCEPT ![t] = "cancelled"]
    BY <1>4 DEF dequeueTask, Cancel, AbortCancel, cancelTask, Active
  <2> QED
    BY <1>1, <2>1, MoveRefines DEF Statuses
<1> QED
  BY <1>2, <1>3, <1>4

\* The steps that move no task.
LEMMA QuietRefines ==
    ASSUME \/ abortActiveTasks \/ AbortDone \/ dispose \/ DisposeDone \/ PumpDone \/ PumpReturn
           \/ \E t \in Tasks : \/ AbortSkip(t) \/ PumpBlocked(t) \/ waitTask(t)
                               \/ WaitTimeout(t) \/ CallbackCancelled(t)
           \/ UNCHANGED vars
    PROVE  [Board!BoardNext]_(Board!boardVars)
<1>1. status' = status /\ req' = req /\ external' = external
  BY DEF abortActiveTasks, AbortDone, dispose, DisposeDone, PumpDone, PumpReturn, AbortSkip,
     PumpBlocked, waitTask, WaitTimeout, CallbackCancelled, vars, taskVars
<1>2. ClaimTable' = ClaimTable
  BY <1>1 DEF ClaimTable, ClaimOf, NeedsLock, LockKey
<1> QED
  BY <1>1, <1>2 DEF Board!boardVars, ClaimTable

\* Every step of the scheduler is a step of the board, or moves no task.
LEMMA StepRefines ==
    TypeOK /\ CoreInv /\ ClaimsHeldOnce' /\ [Next]_vars => [Board!BoardNext]_(Board!boardVars)
<1> SUFFICES ASSUME TypeOK, CoreInv, ClaimsHeldOnce', [Next]_vars
             PROVE  [Board!BoardNext]_(Board!boardVars)
  OBVIOUS
<1>1. CASE Schedule
  BY <1>1, ScheduleRefines
<1>2. CASE Client
  BY <1>2, EndRefines, QuietRefines DEF Client
<1>3. ASSUME NEW t \in Tasks, TaskCallback(t) \/ ExternalReport(t) \/ WaitTimeout(t)
      PROVE  [Board!BoardNext]_(Board!boardVars)
  BY <1>3, EndRefines, QuietRefines DEF TaskCallback
<1>4. CASE PumpStep
  BY <1>4, PumpRefines, QuietRefines DEF PumpStep
<1>5. CASE AbortStep \/ DisposeStep
  BY <1>5, EndRefines, QuietRefines DEF AbortStep, DisposeStep
<1>6. CASE UNCHANGED vars
  BY <1>6, QuietRefines
<1> QED
  BY <1>1, <1>2, <1>3, <1>4, <1>5, <1>6 DEF Next

\* The scheduler keeps what TaskBoard promises, whatever the numbers of tasks,
\* hosts and directories, the requests and the limits: every task is submitted,
\* started and ended at most once, one step moves one task, and a task starts
\* only while nobody else runs with its claim.
THEOREM Refinement == Spec => ImplementsTaskBoard
<1>1. Init => Board!BoardInit
  BY DEF Init, Board!BoardInit, ClaimOf
<1>2. Spec => []ClaimsHeldOnce
  BY OneHolder, CoreCorrect, PTL
<1>3. Spec => [][Board!BoardNext]_(Board!boardVars)
  BY <1>2, StepRefines, CoreCorrect, PTL DEF Spec
<1> QED
  BY <1>1, <1>3, PTL DEF Spec, ImplementsTaskBoard, Board!BoardSpec

-----------------------------------------------------------------------------
(* SchedulerRestart: the batch of the store against its files, what a file *)
(* says against what the daemon knows, and what of the invariant outlives  *)
(* a crash.                                                                *)

(* The batch.                                                              *)

\* The file of a task that is not in the batch says what the daemon says.
FileIsExact(t) == status[t] \in {"none", "gone"} \/ disk[t] = status[t]

\* pending may hold any task and the files any status: the invariant rests on
\* which tasks each step adds to the batch and takes out of it, and on no more.
BatchInv == \A t \in Tasks \ pending : FileIsExact(t)

LEMMA InitBatchInv == RestartInit => BatchInv
BY DEF RestartInit, Init, BatchInv, FileIsExact

\* The scheduler's own steps put each task whose status they change in the batch.
LEMMA SaveKeepsBatchInv == BatchInv /\ saveTask => BatchInv'
BY DEF BatchInv, FileIsExact, saveTask

\* A flush takes out exactly the tasks it has written.
LEMMA FlushKeepsBatchInv ==
    ASSUME BatchInv, NEW lost, flush(lost), UNCHANGED status
    PROVE BatchInv'
<1> SUFFICES ASSUME NEW t \in Tasks \ pending' PROVE FileIsExact(t)'
  BY DEF BatchInv
<1>1. disk'[t] = IF t \in pending \ lost THEN status[t] ELSE disk[t]
  BY DEF flush, Written
<1>2. t \notin lost  BY DEF flush
<1>3. CASE t \in pending  BY <1>1, <1>2, <1>3 DEF FileIsExact
<1>4. CASE t \notin pending  BY <1>1, <1>4 DEF FileIsExact, BatchInv
<1> QED  BY <1>3, <1>4

\* A new daemon knows of a task what its file says, or saves it as stale.
LEMMA RestartMakesBatchInv == Restart => BatchInv'
<1> SUFFICES ASSUME Restart, NEW t \in Tasks \ pending' PROVE FileIsExact(t)'
  BY DEF BatchInv
<1>1. status'[t] = restore(t) /\ disk'[t] = disk[t]  BY DEF Restart
<1>2. ~(restore(t) = "stale" /\ disk[t] = "running")  BY DEF Restart
<1>3. CASE disk[t] = "queued"  BY <1>1, <1>3 DEF restore, FileIsExact
<1>4. CASE disk[t] = "running"  BY <1>2, <1>4 DEF restore
<1>5. CASE disk[t] \notin {"queued", "running"}
  BY <1>1, <1>5 DEF restore, FileIsExact
<1> QED  BY <1>3, <1>4, <1>5

LEMMA NextBatchInv == BatchInv /\ [RestartNext]_restartVars => BatchInv'
<1> SUFFICES ASSUME BatchInv, [RestartNext]_restartVars PROVE BatchInv'  OBVIOUS
<1>1. CASE SchedulerStep
  BY <1>1, SaveKeepsBatchInv DEF SchedulerStep
<1>2. CASE FlushTimer
  BY <1>2, FlushKeepsBatchInv DEF FlushTimer, vars, taskVars
<1>3. CASE FlushSync
  BY <1>3, FlushKeepsBatchInv DEF FlushSync, DisposeDone, vars, taskVars
<1>4. CASE Restart
  BY <1>4, RestartMakesBatchInv
<1>5. CASE UNCHANGED restartVars
  BY <1>5 DEF restartVars, storeVars, vars, taskVars, BatchInv, FileIsExact
<1> QED  BY <1>1, <1>2, <1>3, <1>4, <1>5 DEF RestartNext

\* Once nothing waits to be written, a restart loses nothing but the running
\* commands, whatever crashes and failed writes came before.
THEOREM CleanStoreCorrect == RestartSpec => []CleanStoreIsExact
<1>1. BatchInv => CleanStoreIsExact  BY DEF BatchInv, FileIsExact, CleanStoreIsExact
<1> QED  BY InitBatchInv, NextBatchInv, <1>1, PTL DEF RestartSpec

-----------------------------------------------------------------------------
(* The files against the tasks of the daemon.                              *)

\* A file belongs to a task that exists; the store is only told of tasks the
\* daemon knows; what is over on disk is over, or forgotten, in the daemon; and
\* a command that was seen running has left the queue.
FileInv ==
    /\ disk \in [Tasks -> Statuses \ {"gone"}]
    /\ pending \subseteq Tasks
    /\ \A t \in Tasks :
          /\ disk[t] # "none" => status[t] # "none"
          /\ t \in pending => status[t] \notin {"none", "gone"}
          /\ disk[t] \in Terminal => status[t] \in {disk[t], "gone"}
          /\ disk[t] = "running" => status[t] \notin {"none", "queued"}

RestartInv == TypeOK /\ CoreInv /\ FileInv

LEMMA InitRestartInv == RestartInit => RestartInv
<1> SUFFICES ASSUME RestartInit PROVE RestartInv
  OBVIOUS
<1>1. TypeOK /\ CoreInv
  BY InitType, InitCore DEF RestartInit
<1>2. FileInv
  BY DEF RestartInit, Init, FileInv, Statuses, Terminal
<1> QED
  BY <1>1, <1>2 DEF RestartInv

\* A step of the scheduler notes the task it moves, and writes nothing.
LEMMA SaveKeepsFileInv ==
    ASSUME RestartInv, [Next]_vars, saveTask
    PROVE  FileInv'
<1>1. TypeOK /\ CoreInv /\ FileInv /\ TypeOK'
  BY NextType DEF RestartInv
<1>2. \A u \in Tasks : status'[u] = status[u] \/ Moves(status[u], status'[u])
                        \/ (status[u] \in {"none", "queued"} /\ status'[u] \in {"running", "failed"})
  BY <1>1, LifeStep
<1>3. /\ disk' = disk
      /\ \A u \in Tasks : u \in pending' => u \in pending \/ status'[u] # status[u]
      /\ pending' \subseteq Tasks
  BY <1>1 DEF saveTask, FileInv
<1> QED
  BY <1>1, <1>2, <1>3 DEF FileInv, Moves, Terminal

\* A flush writes what the daemon says of the tasks it was told of.
LEMMA FlushKeepsFileInv ==
    ASSUME RestartInv, NEW lost \in SUBSET pending, flush(lost), status' = status
    PROVE  FileInv'
<1>1. /\ status \in [Tasks -> Statuses] /\ FileInv
  BY DEF RestartInv, TypeOK, TaskType
<1>2. /\ disk' = [t \in Tasks |-> IF t \in pending \ lost THEN status[t] ELSE disk[t]]
      /\ pending' = lost
  BY DEF flush, Written
<1>3. \A t \in Tasks : (disk'[t] = status[t] /\ t \in pending) \/ disk'[t] = disk[t]
  BY <1>2
<1>4. disk' \in [Tasks -> Statuses \ {"gone"}]
  BY <1>1, <1>2 DEF FileInv
<1> QED
  BY <1>1, <1>2, <1>3, <1>4 DEF FileInv, Terminal

\* A new daemon starts from the files: nothing runs, no lock is held, and the
\* index of queued tasks is the restored ones.
LEMMA RestartMakesInv ==
    ASSUME RestartInv, Restart
    PROVE  RestartInv'
<1>0. TypeOK /\ FileInv
  BY DEF RestartInv
<1>1. /\ \A t \in Tasks : status'[t] = restore(t)
      /\ status' \in [Tasks -> Statuses]
      /\ \A t \in Tasks : restore(t) \in {"none", "queued", "stale", "gone"}
  <2>1. \A t \in Tasks : restore(t) \in {"none", "queued", "stale", "gone"}
    BY DEF restore
  <2> QED
    BY <2>1 DEF Restart, Statuses
<1>2. /\ UNCHANGED <<req, runs, disk>>
      /\ runningByHost' = [h \in Hosts |-> {}]
      /\ locks' = [k \in LockKeys |-> NoTask]
      /\ waiters' = {} /\ armed' = {} /\ external' = {}
      /\ finishedByTime' = [t \in Tasks |-> 0]
      /\ pumpHost' = NoHost /\ pumpTodo' = {} /\ pumpDepth' = 0
  BY DEF Restart
<1>3. /\ \A h \in Hosts, u \in Tasks :
            u \in queuedByHost'[h] <=> status'[u] = "queued" /\ req[u].host = h
      /\ queuedByHost' \in [Hosts -> SUBSET Tasks]
  BY <1>1 DEF Restart
<1>4. ahead' \in [Tasks -> SUBSET Tasks]
  BY DEF Restart
<1>5. LoopType'
  <2>1. abortQueued' = {} /\ abortRunning' = {}
    BY DEF Restart
  <2>2. aborting' \in BOOLEAN /\ disposing' \in BOOLEAN
    BY Zenon DEF Restart
  <2> QED
    BY <2>1, <2>2 DEF LoopType
<1>6. \A t \in Tasks : status'[t] # "none" => status[t] # "none"
  BY <1>0, <1>1 DEF restore, FileInv
<1>7. TaskType'
  BY <1>0, <1>1, <1>2, <1>6 DEF TypeOK, TaskType
<1>8. TypeOK'
  BY <1>2, <1>3, <1>4, <1>5, <1>7 DEF TypeOK, IndexType, PumpType
<1>9. CoreInv'
  <2>1. IndexInv'
    BY <1>1, <1>2, <1>3 DEF IndexInv
  <2>2. LocksHeldByRunningTasks' /\ OwnsItsLock'
    BY <1>1, <1>2 DEF LocksHeldByRunningTasks, OwnsItsLock
  <2> QED
    BY <1>2, <2>1, <2>2 DEF CoreInv, TableInv, ArmedInv, TodoInv
<1>10. FileInv'
  <2>1. pending' \subseteq Tasks /\ \A t \in pending' : restore(t) = "stale"
    BY DEF Restart
  <2>2. \A t \in Tasks :
          /\ disk[t] # "none" => restore(t) # "none"
          /\ disk[t] \in Terminal => restore(t) = "gone"
          /\ disk[t] = "running" => restore(t) = "stale"
    BY DEF restore, Terminal
  <2> QED
    BY <1>0, <1>1, <1>2, <2>1, <2>2 DEF FileInv
<1> QED
  BY <1>8, <1>9, <1>10 DEF RestartInv

LEMMA NextRestartInv == RestartInv /\ [RestartNext]_restartVars => RestartInv'
<1> SUFFICES ASSUME RestartInv, [RestartNext]_restartVars PROVE RestartInv'
  OBVIOUS
<1>1. ASSUME [Next]_vars, FileInv' PROVE RestartInv'
  BY <1>1, NextType, NextCore DEF RestartInv
<1>2. CASE SchedulerStep
  BY <1>1, <1>2, SaveKeepsFileInv DEF SchedulerStep
<1>3. CASE FlushTimer
  <2>1. UNCHANGED vars /\ \E lost \in SUBSET pending : flush(lost)
    BY <1>3 DEF FlushTimer
  <2> QED
    BY <1>1, <2>1, FlushKeepsFileInv DEF vars, taskVars
<1>4. CASE FlushSync
  <2>1. /\ DisposeDone \/ UNCHANGED vars
        /\ \E lost \in SUBSET pending : flush(lost)
    BY <1>4 DEF FlushSync
  <2>2. [Next]_vars /\ status' = status
    BY <2>1 DEF Next, DisposeStep, DisposeDone, vars, taskVars
  <2> QED
    BY <1>1, <2>1, <2>2, FlushKeepsFileInv
<1>5. CASE Restart
  BY <1>5, RestartMakesInv
<1>6. CASE UNCHANGED restartVars
  <2>1. UNCHANGED vars /\ UNCHANGED <<disk, pending, status>>
    BY <1>6 DEF restartVars, storeVars, vars, taskVars
  <2> QED
    BY <1>1, <2>1 DEF RestartInv, FileInv
<1> QED
  BY <1>2, <1>3, <1>4, <1>5, <1>6 DEF RestartNext

LEMMA RestartCorrect == RestartSpec => []RestartInv
  BY InitRestartInv, NextRestartInv, PTL DEF RestartSpec

\* The end of a task that a file has told stays as it is: no late callback, flush,
\* stale mark or restart says anything else.
THEOREM DiskFinal == RestartSpec => DiskTerminalIsFinal
<1>1. RestartInv /\ [RestartNext]_restartVars =>
        [\A t \in Tasks : disk[t] \in Terminal => disk'[t] = disk[t]]_restartVars
  <2> SUFFICES ASSUME RestartInv, RestartNext, NEW t \in Tasks, disk[t] \in Terminal
               PROVE  disk'[t] = disk[t]
    OBVIOUS
  <2>1. FileInv
    BY DEF RestartInv
  <2>2. ASSUME NEW lost, flush(lost) PROVE disk'[t] = disk[t]
    BY <2>1, <2>2 DEF flush, Written, FileInv
  <2> QED
    BY <2>2 DEF RestartNext, SchedulerStep, saveTask, FlushTimer, FlushSync, Restart
<1> QED
  BY <1>1, RestartCorrect, PTL DEF RestartSpec, DiskTerminalIsFinal

\* A command that may have had effects is not run from the queue once more: a
\* task whose file says running is stale for the next daemon.
THEOREM NotRequeued == RestartSpec => RunningIsNeverRequeued
<1>1. RestartInv /\ RestartInv' /\ [RestartNext]_restartVars =>
        [\A t \in Tasks : disk[t] = "running" => status'[t] # "queued"]_restartVars
  <2> SUFFICES ASSUME RestartInv, RestartNext, NEW t \in Tasks, disk[t] = "running"
               PROVE  status'[t] # "queued"
    OBVIOUS
  <2>1. TypeOK /\ CoreInv /\ status[t] \notin {"none", "queued"}
    BY DEF RestartInv, FileInv
  <2>2. CASE SchedulerStep
    BY <2>1, <2>2, LifeStep DEF SchedulerStep, Moves, Terminal
  <2>3. CASE FlushTimer \/ FlushSync
    BY <2>1, <2>3 DEF FlushTimer, FlushSync, DisposeDone, vars, taskVars
  <2>4. CASE Restart
    BY <2>4 DEF Restart, restore
  <2> QED
    BY <2>2, <2>3, <2>4 DEF RestartNext
<1> QED
  BY <1>1, RestartCorrect, PTL DEF RestartSpec, RunningIsNeverRequeued

\* Indices, locks and mutual exclusion survive a crash at any point, also in the
\* middle of the loop of pumpQueue: the next daemon holds no lock of a command
\* it does not run, and indexes the tasks it restores.
THEOREM RestartKeepsOrder ==
    RestartSpec => [](IndexMatchesStatus /\ LocksHeldByRunningTasks /\ ConflictingTasksExclude)
<1>1. RestartInv => IndexMatchesStatus /\ LocksHeldByRunningTasks /\ ConflictingTasksExclude
  BY CoreIndex, CoreExclusion DEF RestartInv, CoreInv, TableInv
<1> QED
  BY <1>1, RestartCorrect, PTL
=============================================================================
