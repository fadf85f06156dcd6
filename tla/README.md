# TLA+ models of ai-ssh-tool

ai-ssh-tool is a daemon that keeps SSH sessions to remote hosts and runs commands, file
transfers and port forwards on them for several AI agents at once. Agents reach it over a
local socket through an MCP server or a command line. The daemon is one Node.js process:
one thread, so a handler runs without interruption from one `await` to the next, and what
makes it hard is what can happen in between: callbacks of SSH streams, timers, requests of
other agents, and a crash.

This directory holds TLA+ modules that model parts of the daemon, TLC configurations
that check them on small instances, and TLAPS proofs. `PROJECT.json` lists the components,
the runs, the source lines each definition models, the hazards and the theorems.

## 1. The system

| component | state it keeps | operations | interacts with | correct when |
|---|---|---|---|---|
| scheduler service (`scheduler/scheduler-service.ts`) | table of tasks, per-host indices of running and queued tasks, queue positions, waiters, finished list, runner controllers | schedule, wait, cancel, dequeue, abort, dispose, callbacks of runners, the `pumpQueue` loop | lock manager, persistence store, runners in `daemon.ts`, exec task manager | conflicting commands never overlap, each command runs at most once, an end is final, nothing startable stays queued, waiters are told |
| lock manager (`scheduler/lock-manager.ts`) | one entry per host and directory, with a deadline | acquire, releaseForTask, getConflictingLocks, renew, expire | scheduler | a lock is held by a running task and by no other |
| persistence store (`scheduler/persistence-store.ts`) | a file per task, a batch of pending saves, a timer | saveTask, flush, flushSync, deleteTask, restore | scheduler constructor and every scheduler operation | a restart neither forgets an end nor repeats a command |
| runners (`daemon.ts` startBackground, execScheduledStreamSingle) | stream, timers, `closed` | start, data, close, exec-start timeout, overall timeout, stop | scheduler callbacks, sessions, output store | one end is reported, and the stream is closed |
| daemon requests (`daemon.ts`) | lanes of a socket, pending connects, idle clock | dispatch, lanes, withPendingConnect, sweepIdle, handlers | everything | control requests pass data requests; idle exit only when idle |
| daemon lifecycle (`daemon.ts`, `daemon-client.ts`) | pid file, socket file, server | start, stop, handleFatal, ensureDaemon, restart | all clients | one daemon at a time; its files are its own |
| session manager, connection (`session-manager.ts`, `connection.ts`) | sessions, hash to session, pending connects, chain of hops | connect, reuse, disconnect, disconnectAll, lost hop | SSH servers, runners, forwards | quota holds, no connection is leaked, the status tells the truth |
| gateway (`gateway.ts`) | none of its own | connectByChain, with a probe of the shell before the session is registered; the rest passes calls on | session manager, remote shell | a session is registered as it is after the probe |
| exec task manager (`exec-task-manager.ts`) | the stream and the timers of one run; a map of tasks nothing fills any more | start, stopCurrent | scheduler | one end is reported, and a known process is killed |
| output store (`scheduler/output-store.ts`) | per task a tail, a byte count, a queue with its timer, and two files | create, append, flush, full and tail reads, remove, cleanup | runners, handlers | what was written is read back once and in order, and a reader is told when something is missing |
| event log (`scheduler/event-log.ts`) | a buffer with its timer, the current file, a count | log, flush, rotate, getRecent | scheduler | events are kept once and in order |
| virtual cwd store, migrator | small JSON files | set, delayed save, load; migrate | scheduler, startup | the last directory is saved; migration happens once |
| coordinator (`coordinator/*`) | a table of leases on the remote host; in the daemon a scope and a heartbeat timer per task | beginTask, heartbeat, finishTask, listActive, dispose | several daemons, hooks of the scheduler | overlapping tasks are told of each other; a lease lasts as long as its task and no longer |
| file transfer (`file-transfer.ts`) | a staging file beside the target, a channel, a deadline; for a folder a local and a remote archive | upload, download, uploadFolder, downloadFolder, four strategies for a target that exists | connection, remote shell | a path never shows part of a file, what was there is not lost, channels and temporary files are given back |
| remote shell (`remote-shell.ts`) | the channel and the deadline of one probe | execRemote | all that asks the host something | every probe ends |
| IPC (`ipc-protocol.ts`, `daemon-client.ts`, `daemon.ts`) | chunks not yet parsed; requests that wait; counters per lane and socket | connect, send, disconnect, push, tryAcquireRequest, release | every client | requests arrive once and in order, every send ends, capacity is given back |
| port forwarding (`port-forwarding.ts`) | listeners and sockets | add, remove, accept, close | connection | nothing is left open |
| known hosts, profiles, ssh config, registry, dialects, remote tools, MCP server, CLI | files or nothing | parsing, formatting, one-shot requests | | text in, text out |

Hard behaviour: (1) the loop of `pumpQueue` and the nested calls it makes when a runner
throws; (2) callbacks that come after a cancel, or twice; (3) limits (queue size, running
tasks) reached while tasks are put back; (4) locks across the three ways past the blocker
check; (5) crashes inside the 100 ms of batched saves; (6) dispose and abort, which end
tasks one by one while every end may start another; (7) connects, disconnects and lost
hops that overlap; (8) two daemons starting at once; (9) answers and channels that come
after a deadline has settled what waited for them (transfers, probes, leases); (10) stores
that exist as a tail, a queue and a file, with timers, failing writes and restarts between
them; (11) frames cut anywhere, and sockets that close while their requests are handled.

## 2. Plan

Done, in this order:

1. `Scheduler` with `SchedulerProofs`; `SchedulerRestart`, which composes it with the
   batched task files.
2. `Sessions` with its two users `DaemonSessions` and `McpSessions`; `Runner`;
   `PortForwarding`; `DaemonLifecycle`.
3. `TaskBoard`, the abstract specification of the scheduler, with the proof that the
   scheduler implements it, in `SchedulerProofs`.
4. `FileTransfer`; `Coordinator`; `SchedulerStores`, which composes `OutputStore`,
   `EventLog` and the virtual cwd file; `Ipc` on top of `IpcParser`; the runner of probes.
5. Proofs of the safety properties of the batched files, of the port forwards, of the
   coordinator's leases and of the daemon's sessions: `SchedulerProofs`,
   `ConnectionProofs`, `CoordinatorProofs`, `DaemonSessionsProofs`.
6. Proofs that the queue is pumped dry and of what outlives a restart (`SchedulerProofs`),
   of transfers (`FileTransferProofs`), of the output store (`SchedulerStoresProofs`) and of
   the cache of the MCP server (`McpSessionsProofs`).
7. Proofs of the journal (`SchedulerStoresProofs`), of the requests and counters of the
   socket layer (`IpcProofs`), and of what overlapping leases are told for every workspace
   (`CoordinatorProofs`). With them every safety invariant and action property that a run
   checks is a theorem.

What could follow: the safety of the pid and socket files of `DaemonLifecycle`; the
deadlines of locks.

No module contains a recursive operator. The loops of the code are recursive functions:
`pass` in `scan` of the parser, `acquired` in `Receive` of the MCP cache, `walked` in
`NormalizeWorkspace` of the coordinator.

## 3. Module `Scheduler`

State (source names where they exist):

| variable | code |
|---|---|
| `status`, `req`, `external` | `tasks`: status, the request of the task, whether it came by `registerExternal` |
| `runningByHost`, `queuedByHost` | the two indices of `SchedulerService` |
| `ahead` | order of `queuedAt` in a host's queue: the queued tasks ahead of one |
| `locks` | `LockManager.locks`, the owner of each (host, directory) |
| `waiters` | tasks with an entry in `waitResolvers` |
| `finishedByTime` | how often a task was put in the finished list |
| `runs`, `armed` | runs handed to a runner; runners that may still call back |
| `pumpHost`, `pumpTodo`, `pumpDepth` ... | where the loop of `pumpQueue` is: its host, the rest of its snapshot, the nesting |
| `aborting`, `abortQueued`, `abortRunning`, `disposing` | where the loops of `abortActiveTasks` and `dispose` are |

Each operation of the code is an action: `schedule` is the five actions `ScheduleRun`,
`ScheduleThrow`, `ScheduleLocked`, `ScheduleQueue`, `ScheduleReject`, one per path to a
return. A loop (`pumpQueue`, `abortActiveTasks`, `dispose`) is one action per iteration;
while a loop is under way the variables above say so and no other action is enabled
(`Idle`), because the code does not await inside. A runner that throws ends the task and
pumps again inside the outer loop: `PumpThrow` goes one level down and `PumpReturn` comes
back, after which the outer loop goes on with its old snapshot.

`removeFromIndex` looks at the status of the task at the time of the call. `dequeueTask`
and `finishExternalTask` set the status before they call it, so the entry stays in the
index; the model keeps these ghosts, and `IndexMatchesStatus` states exactly which ones
there can be.

Abstractions. A request is a record of the fields the scheduler decides on (host, cost,
mutates, directory, bypass, background, ifBusy). `needs_confirmation` answers change no
state. Who the agent is does not change the outcome of a lock request (a lock of another
task is refused whoever owns it). `queuePosition` is output only; the output of tasks and the eviction of
old ones are in `SchedulerStores` (section 11). Lock deadlines are left out: a running task
renews its lock far more often than the 30 minutes it is given. A refused cancel leaves
the task as it is. The kill sent to the remote host by a cancel is not waited for by the
code and is not modelled. `waitTask`'s resolvers of one task are one entry. `registerExternal`
has no caller in the repository besides the tests; it is part of the interface and is
modelled. `getQueuedTasks` sorts by `queuedAt`, taken as distinct.

### Runs

| run | instance | shows |
|---|---|---|
| `core` | 3 tasks, 2 hosts, 9 kinds of request, queue of 2, 1 running per host | indices, locks and exclusion are right, nothing startable stays queued, the scheduler implements `TaskBoard` |
| `live` | 2 tasks, `FairSpec` | queued tasks leave the queue, waiters are answered |

Bounds. Three tasks are what the scheduler's hazards need: one running, one queued whose
lock or cost conflicts, one more that fills the queue or is started by the nested pump.
`MaxQueueSize = 2` and `MaxTotalRunning = 1` put both limits within reach of three tasks.
Each request kind is the representative of a branch in `schedule`, `findBlockers` or
`startTask`. Task ids are interchangeable, so `core` uses symmetry; `live` does not.

Fairness (`Fairness`): the loops go on (weak fairness: they are synchronous code), and a
started runner ends in the end (strong fairness on its callback: each runner has a
deadline, `setTimeout`, and its callback is enabled only between two synchronous blocks).
Nothing is assumed of clients: no client need cancel, wait or schedule. The number of tasks is finite, so tasks that are
overtaken for ever by new requests are outside these runs.

Stated in the module and not part of a run: `RunAtMostOnce` and `TerminalIsFinal`, which
are proved and follow from the refinement, `NoWaiterLeftBehind`, which held when it was
checked and is what `WaiterIsAnswered` rests on, and the properties of section 13.

### `TaskBoard`

`TaskBoard` is what the scheduler promises to the agents that share its hosts, without
hosts, queues, indices, lock tables or loops. A task has a phase and a claim, fixed when it
is submitted: a directory to change, or nothing. It is submitted once, starts only while no
other running task holds its claim, and ends once. `Board` in `Scheduler` maps `phase` to
`status` (tasks of `registerExternal`, and tasks without a lock, have no claim) and
`ImplementsTaskBoard` is `Board!BoardSpec`: every step of `schedule`, of the loops, of a
callback, cancel or abort moves at most one task, and from a phase from which it may.

## 4. Module `SchedulerRestart`

Extends `Scheduler` with `disk` (the status in each task file), `pending` (the batch of
`BatchedPersistenceStore`) and its timer. Every scheduler step notes the tasks it changed
(`saveTask`); `FlushTimer` writes them, possibly failing for some, which go back into the
batch without a new timer; `FlushSync` is the write at the end of dispose; `Restart` is a
crash at any point followed by the constructor's `restore`: queued tasks come back queued,
running ones become stale, nothing is pumped. Run `restart` (2 tasks, one crash, one failed
write) shows what survives: a file with no save pending says what the memory says, and an
end that reached the disk is not changed again. Both are proved (section 14), and with them
`RunningIsNeverRequeued` (a task whose file says running is not put in the queue again) and
that a daemon started again keeps the indices, locks and exclusion of section 3. Section 13
shows what does not survive.

## 5. Modules `Sessions`, `DaemonSessions`, `McpSessions`

`Sessions` holds the state of `SSHSessionManager` and of the `SSHConnection` of each
session, and their operations as operators; the two programs that own a manager extend it
with their own next-state relations.

| variable | code |
|---|---|
| `chain`, `step` | the config of a session; how far `createSession` is |
| `hop`, `hops`, `connected`, `emitted` | fields of `SSHConnection`: the hop it waits for, the hops it knows, `connected`, `disconnectedEmitted` |
| `up` | the transports that are really open (not visible to the code) |
| `status`, `sessions`, `sessionsByProfile`, `pendingConnects` | fields of `SSHSessionManager` |

A connect goes from hop to hop; each hop is an await (`HopReady`, `LastHopReady`,
`HopFails`), and a hop may be lost at any time (`HopLost`). What runs in one chain of
resolved promises without waiting for I/O or a timer is one step: so `HopFails` contains
the `catch` of `createSession`, and the loop over sessions in state "error" in the `catch`
of `handleConnect` never finds one. Both programs connect with `openShell: false` and
allow reuse of sessions, so the other branches are left out.

`DaemonSessions`: `ConnectTo`, `ConnectWithoutSession`, `ConnectReturns` are
`handleConnect` and `handleConnectJson` with `withPendingConnect` (`promise` is the
daemon's own `pendingConnects`, per config, beside the manager's, per chain). The handlers
that can meet a dead session have an action each, since each drops another part of the
bookkeeping: `handleExec`, `handleTransfer`, `handleSetCwd`, `handleBgExec`,
`handlePortForward` (and `PortForwardFails`), `handleDisconnect`; `sweepIdle` is the idle
sweeper; `Stop` and `StopDisconnects` are the two halves of `stop()` around `allSettled`.

`McpSessions`: the client cache of the MCP server. `EvictStale` and `Evicted` are the two
halves of an eviction around the await of `stopAll`, the sweeper is `SweepStart` and one
`SweepOne` per session, `OperationFails` is the first attempt of `withReconnect`.

| run | instance | shows |
|---|---|---|
| `daemon_sessions` | 3 sessions, quota 2, 1 chain with a jump host, 2 configs, `FairSpec` | what is open without an owner, after a shutdown, or twice for a chain, is a session that was forgotten; connects are answered, shutdown ends |
| `mcp_sessions` | 2 sessions, 2 profiles of one host, `FairSpec` | a cached client whose session is gone is seen to be dead; dead sessions are swept |

Clients may name any session the manager lists, also one that still connects. `disconnect`
then forgets it while the connect goes on, and what becomes of it depends on the hop it
waits for. A later hop comes through the tunnel of the one before, which is closed: it fails.
The first hop comes up, and nobody can reach the session any more. `forgotten` is a history
of the sessions this happened to, no variable of the code. The safety properties of the
daemon are stated around it: they name these sessions as the only ones that leak, stay open
after a shutdown, or stand beside the next connection of their chain, and section 13 has the
counterexamples to what the comments promise without that exception.

Bounds. Two sessions can be open and a third one can be asked for at the quota; two
configs share a chain; a chain of two hops has the states in which one hop is up and the
other is not. `MCDaemonSessionsChains.cfg` adds a second chain without jump host and a third
config, so that the quota is shared, and leaves out liveness: session ids are
interchangeable there. The three safety properties held on it, and so did `StatusIsTrue` and
`QuotaHolds`, which does not count forgotten sessions.

Fairness. Every await of a connect has a timer; the sweepers are intervals; `allSettled`
returns when its promises have. Nothing is assumed of clients and of the network.

## 6. Module `Runner`

One run of one command, by each of the three runners the scheduler is given and by the one
of the daemon's own probes (`execRemote`): `kind` tells which. `channel`, `ref`, `settled`,
`timer`, `startTimer` and `pid` are the locals of `execScheduledStreamSingle`,
`startBackground`, `ExecTaskManager.start` and `execRemote`; `remote` and `kill` are the
process on the remote host and a kill on its way to it. `task` is what the scheduler has
been told. That `client.exec` throws when the connection is gone and that the end of a
channel does not end the process are properties of ssh2 and of the remote host, taken from
how the code uses them.

Run: `runner` (safety and liveness over all interleavings of one run of each kind; the
state space, 196 distinct states, is complete: there is no bound). `NoChannelLeftOpen` is
about foreground and manager runs; what it would say of the other two does not hold
(section 13). Fairness: `client.exec` returns or throws, timers fire, a kill gets through
unless the connection drops. The remote side owes no answer.

Proved in `ConnectionProofs`, without assumptions beyond the one on `Kinds`:
`ChannelCorrect` (a foreground or manager run that is over leaves no channel open) and
`FirstEndCorrect` (the first end reported stands). The inductive invariant is `ChannelInv`:
beside `NoChannelLeftOpen` it says that an open channel is held by the runner (so that a
deadline can close it) and that the start timer, which closes nothing, is armed only in
background runs. `FirstEndStands` needs it too: a stop of a manager run reports an end only
through an open channel. The names `RunInit`, `RunNext`, `RunSpec` and the like carry their
prefix because `ConnectionProofs` extends this module and `PortForwarding`: both are about
what one connection carries.

## 7. Module `PortForwarding`

`PortForwardManager` of one SSH client: `forwards`, `stoppingIds`, `remoteRoutes`,
`tcpConnectionBound`, `clientClosed`, and per forward its `status` and `connections`;
`bound` is the ports really open; `phase` and `through` describe tunnelled connections.
`Start` and `ListenDone`, `ForwardInDone` or `StartFails` are the two halves of
`localForward` and `remoteForward`; `Stop` and `Closed` those of `stop` of a local
forward; `stopAll` is a loop with one action per iteration (`visited`, `waiting`); the
order of its keys is left open, which allows more than the code. `ClientCloses` is
`handleClientDisconnect`. `forwardOut` on a dead client throws inside an event handler and
a socket "error" without handler is thrown as well: both end the process (`fatal`).

A bind in `AnyPort` has port 0: this host or the server picks a free port, so a second forward
is not refused. `remoteForward` still registers the route under port 0, where the dispatcher,
which looks up the port that was connected to, never finds it, and where two such forwards
overwrite and remove each other's route. `RoutesMatchForwards` says that they do no harm to
forwards of a given port; that they are not served themselves is in section 13. What the
server makes of an `unforwardIn` of port 0 is outside of the model.

Run: `forwards` (a local and two remote forwards that share a bind, a remote one of any
port, one connection, safety and liveness). `MCPortForwardingRoutes.cfg` has two remote
forwards of any port, which share a route, and no liveness; `RoutesMatchForwards` held on it
too. Two forwards of one bind are needed for a route to be reused; one
connection is enough to hold up a `stopAll` with the other forwards behind it. Fairness:
local servers open and close, ssh2 answers or fails what is outstanding, loops go on;
connections may stay open for ever.
`StoppedIsQuiet` (a local forward that is stopped has no port open and no connection) is
proved (section 14), as is `RoutesMatchForwards`.

## 8. Module `DaemonLifecycle`

Several daemon processes around one pid file and one socket file, and clients in
`ensureDaemon`. Each system call on a file is a step, since other processes run in
between: `writePid`, the check, `Unlink`, `Listen`; `CloseServer`, `RemovePidRead`,
`RemovePid`. libuv removes the path of a socket it closes, whoever listens there by then.
A process that is killed, or ends by `process.exit` during a stop, leaves its files.
A fatal error makes `handleFatal` call `stop()` (`Fatal`), which returns at once when a stop
is under way (`FatalInStop`, after which the daemon is "cut"); then comes
`restartReplacement`, whose limit of 3 is `RestartLimit`, and the end of the process
(`ExitFailed`). A second error before that ends the process (`FatalAgain`). Processes are
alike until they are spawned, so that always the same unused one is next (`spawnable`). Left out: the paths of older versions, Windows pipes, a process id used
again by another program.

Run `daemon_lifecycle` (3 processes of which one may be killed, and a client that asks
again while its daemon starts, which spawns the next one). A spawn leads to a daemon that
serves. A daemon that failed, while it served or during a stop, leads to one that serves
without a client asking for it, whatever files it left and whatever daemons a client spawned
meanwhile: `FatalIsReplaced` asks that a process is left for the replacement when the failed
daemon has stopped, and that what answers is a daemon that serves, so a replacement that
starts is not enough. Three processes are a daemon that fails, its replacement, and one that
a client spawns meanwhile or that is killed; with `RestartLimit` 1 a replacement that fails
is at the limit. `StopRemovesOwnPid` held as well. `MaxKills` bounds the ends nobody answers
for, kills and second errors; both liveness properties hold for every number of kills so far,
as long as none comes in between. Fairness: processes come to the end of `start()`, `stop()`
and `handleFatal`; no client need do anything.

## 9. Module `FileTransfer`

One transfer of a file is the chain of callbacks of `uploadFile` or `downloadFile`: `Check`
(with `Moved` for a backup and `Named` for a free name) decides on the target by `strategy`, an SFTP channel is opened, a
staging file beside the target is written by a stream or by one call, renamed, and the
channel ended. `req` is the one request under way: the server answers it, refuses it,
drops it or the channel is lost, and a deadline (`Timeout`) settles the transfer at any
point without taking back what is under way. `settled` and `outcome` are the code's; `file`
is what is at each path on each side, with who wrote it and whether it is whole.

A folder (`Folder`) is packed, its archive transferred as a file, unpacked and removed on
both sides, each of these a remote command or a local process that may fail; where there is
no tar it goes member by member over one channel (`tree`). `replaces` is whether the rename
of this SFTP server replaces a file that exists (it is chosen once, the code copes with
both). Contents are who wrote them: line endings, encodings and symbolic links are left out.

Run `file_transfer`: two transfers that meet on their paths, in one direction (uploads with
each strategy in pairs, downloads in pairs), a folder up and one down at once, and folders
of two members with `backup` and `rename`; `MCFileTransfer` lists them. Two transfers are
needed for a path to be taken between its check and its use, and for a backup of a file
another transfer is writing. Shown: no path ever shows part of a file (`WholeFilesOnly`),
the old content is somewhere unless overwriting was asked for (`OldContentSurvives`),
channels and local temporary files are given back, and every transfer settles. Fairness:
the deadline, and the remote commands and local tars around a transfer, all of which have a
time limit of their own. The SFTP server owes no answer. All the safety properties are
proved (section 14).

A folder has at least one file in it (`MembersAssumption`), and names of its files differ
from each other and from those of the other paths: a file of the folder that is called like
the folder's own backup is not looked at. The guards of a `CASE` (`MemberSent`,
`FolderMoved`) exclude each other, since TLA+ leaves open which of two true ones counts.

## 10. Module `Coordinator`

`scope` is `CoordinatorTaskScope` and its heartbeat timer in a daemon, `lease` the row of a
task in the coordinator's table on the host, `wire` the requests and answers between them.
`Start` is the hook of a task that starts, `BeginAnswered` the answer, `Heartbeat` the timer,
`Finish` the hook of its end; `Stop`, `Stopped` and `Crash` end the daemon. `Serve` is the
coordinator's handler of a request, with the removal of expired rows it starts with; `Lose`
drops a request or an answer. Times are relative: `Tick` moves every deadline one unit
closer and is held up while a timer or an answer is due. `NormalizeWorkspace` and
`WorkspacesOverlap` are the comparison of directories, on sequences of path components.

Run `coordinator`: two tasks of one daemon in overlapping directories, one of them named in
a roundabout way. Beat 2 and Delay 1 keep the order of 30 s and 3 s. One task runs in the
foreground with ttl 7, which is more than two intervals and two deadlines, so that one
heartbeat can be lost; the other runs in the background with ttl 2, one interval, the least
the clamp of `beginCoordinatorTask` gives. `MaxLost` bounds how far lost requests are
counted; `lost` and `cut` (the finishes that were under way when a daemon closed its
connections) are histories.

`Stop` is `stop()` up to its second `allSettled`. `scheduler.dispose` comes first: it stops
the runners of background tasks, whose ends reach `finishCoordinatorTask`. That takes their
scopes out of the map and sends their finishes, and nobody waits for these. The scopes that
are left, of tasks in the foreground and of cancelled ones, are disposed of and waited for
(`Disposals`), and then `Disconnected` cuts off what is still under way.

Fairness: time goes on and what is on the wire arrives or is lost. Shown: of two active
leases on a directory one was told of the other; a held lease lapses under a running task
only if its ttl is no longer than what an interval, the requests lost since the last renewal
and the deadlines leave open; the only active leases of ended scopes a stop leaves, without
a request lost, are those whose finish it cut off; and every lease ends with its task, its
daemon, or after its ttl. What the design document promises beyond that, that heartbeats
keep every lease and that a stop releases all of them, does not hold (section 13).

## 11. Modules `OutputStore`, `EventLog`, `SchedulerStores`

`OutputStore` and `EventLog` hold the two stores as values and what each operation makes of
them; `SchedulerStores` has the actions: what the scheduler does with them, their timers,
reads (which flush), cleanup and eviction, the virtual cwd file, `Dispose` in the code's
order (and `DisposeFails`, where the first failing flush keeps the rest from running),
`Crash` and `Restart` with the cleanup of the constructor. The bytes of a stream and the
events are numbered, so that what is lost, doubled or out of order shows. `hurt` and
`forgotten` record the streams that lost bytes for a reason the code accepts (a failed
write, a crash, a file that was cleaned up) and the tasks whose entry is gone.

Run `stores`: one task that writes 3 bytes to one stream and 1 to the other, a file of 2
bytes and a tail of 1, so that cap and tail are both exceeded; 2 events per file, 2 days, 4
files a day; 1 change of directory, 1 restart. Tasks share nothing in these stores but the
order of `dispose`. A day has `MaxSeq` numbers for files, where the code counts on:
`NumberLeft`, that today has a number not yet used, is a bound of the model that guards the
steps which may open a file. Fairness: the timers fire. Shown: `OutputIsWhole`,
`FullReadIsHonest`, `JournalInOrder`, `QueuedOutputIsWritten`; `TailIsTheEnd` held as well.

## 12. Modules `IpcParser` and `Ipc`

`IpcParser` is `IPCMessageParser`: the list of chunks, the offset into the first one, the
count of bytes and the mark up to which newlines were searched; `push` is one call, with
its loop: `pass[n]` is what `n` more passes make of the chunks, and a pass either takes off
a line that is complete or changes nothing, so one pass per buffered byte is enough.
`lineOut` takes a line off the front. `NewlineAssumption` says that a newline is no byte of
a text: messages are JSON, which escapes it. `Ipc` puts two of them at the ends of every
socket: `client` and `send` are `DaemonClient` and its pending requests, `link` the sockets
with the bytes on their way, `lane` and `inflight` the daemon's counters. Bytes arrive in
chunks of any size up to `MaxChunk`; `Handle` is the end of `handleRequest` with its
`finally`; a frame longer than the limit makes `push` throw, and the daemon drops the
socket.

Run `ipc`: two clients, three requests of which one is light and one may be longer than the
limit, frames of one and of several bytes, chunks of up to 3, one request per lane and per
socket, a client that connects twice. `DaemonSeesClose` comes at any time after the close
of the other side, with requests still handled. Fairness: a connect comes up or fails,
timers fire, handlers end, a close is seen. The stream may stand still. Shown: the counters
say what is being handled whatever became of the sockets, requests arrive once and in
order, every send ends.

## 13. Disagreements found

With each of these TLC finds a counterexample to what a document, a comment or a test of
the repository says. The properties are defined beside the others in the module that the
MC module extends. None of them is a run of `PROJECT.json`. A configuration of its own is
kept where the instance differs from that of the run; where it says "for" a property, the
configuration of the run is used with that property in the place of its own.

| configuration | code | what it contradicts |
|---|---|---|
| `MCSchedulerExclusive.cfg` | `findBlockers` lets small and medium tasks start beside a running exclusive one | `SKILL.md:285` |
| `MCSchedulerRequeue.cfg` | `startTask` indexes a task again before `enqueue` counts the queue: at the limit the task is dropped | comment at `scheduler-service.ts:780` |
| `MCSchedulerFull.cfg` | `dequeueTask` never gives back the place in the queue | message at `scheduler-service.ts:484` |
| `MCSchedulerRestartRun.cfg` | a crash within 100 ms of a start runs the command again after the restart | comment at `daemon.ts:858` |
| `MCSchedulerRestart.cfg` for `NoStrandedQueue` | `restore` does not pump | `docs/AI_COLLABORATIVE_SCHEDULER_DESIGN.md:1267` |
| `MCSchedulerRestartAbort.cfg` | after a restart an abort starts tasks it is about to cancel | `scheduler-service.test.ts:451` |
| `MCSchedulerStore.cfg` | a failed write is put back without a timer | comment at `persistence-store.ts:273` |
| `MCDaemonSessions.cfg` for `NothingOpenPastShutdown` | `disconnect` of a session that still connects forgets it, and the hop under way comes up without an owner | comment at `daemon.ts:489` |
| `MCDaemonSessions.cfg` for `IdleTransportIsClosed` | `sweepIdle` passes over sessions that lost their target and keep the jump host | `cli/ssh-exec.ts:192` |
| `MCDaemonSessions.cfg` for `ManagersHaveSessions` | `handleDisconnect` does not call `cleanupSession` | comment at `daemon.ts:1459` |
| `MCMcpSessions.cfg` for `NoOrphanTransport` | the sweeper disconnects sessions that are connecting | comment at `mcp-server.ts:1794` |
| `MCMcpSessionsRetry.cfg` | for the initial configuration `evictClientCache` looks under another key: the retry gets the failed session | comment at `mcp-server.ts:458` |
| `MCRunner.cfg` for `StoppedRunHasNoStream` | `startBackground` keeps a stream that opens after it was stopped | comment at `daemon.ts:496` |
| `MCRunner.cfg` for `TimeoutKillsCommand` | `startBackground` reports SIGKILL at its limit and kills nothing | `README.md:52` |
| `MCPortForwarding.cfg` for `CountIsExact` | a socket that closes before its channel opens stays counted | comment at `port-forwarding.ts:219` |
| `MCPortForwarding.cfg` for `LostClientHasNoActive` | a forward that was starting when the client was lost becomes active | comment at `port-forwarding.ts:61` |
| `MCPortForwardingRoutes.cfg` for `ListedIsRouted` | a remote forward with port 0 is registered under port 0, which no connection has: two of them share a route, and none is served | `mcp-server.ts:1388` |
| `MCDaemonLifecycle.cfg` for `SingleDaemon` | the pid file is overwritten before the check, which skips its own pid: two daemons serve | comment at `daemon.ts:410` |
| `MCDaemonLifecycle.cfg` for `PidOfOthersStays` | `removePid` reads and unlinks in two steps | comment at `daemon.ts:1516` |
| `MCRunner.cfg` for `NoProbeLeftOpen` | the channel of a probe opens after its deadline, and nobody closes it or kills the command | comment at `remote-shell.ts:145` |
| `MCCoordinator.cfg` for `CancelledLeaseEnds` | `cancelTask` ends a running task without the hook that finishes its scope: the lease is renewed until the daemon stops | `docs/superpowers/specs/2026-08-08-remote-coordinator-design.md:210` |
| `MCCoordinator.cfg` for `HeartbeatsKeepLease` | a ttl clamped to 30 s is over when the first heartbeat, of 30 s, arrives | the same document, line 209 |
| `MCCoordinator.cfg` for `StopReleasesLeases` | the finishes of background tasks that `dispose` ends are waited for by nobody, and `disconnectAll` cuts them off | the same document, line 376 |
| `MCCoordinatorRoot.cfg` | the root directory overlaps nothing below it: a task without a directory is told of nobody | the same document, line 208 |
| `MCSchedulerStores.cfg` for `ShutdownStrandsNothing` | `dispose` flushes one store after the other, and the first that throws keeps the rest from flushing | comment at `scheduler-service.ts:175` |
| `MCSchedulerStores.cfg` for `RecentIsVisible` | the flush of `getRecent` rotates a full file, and the reader starts at the new, empty one | `event-log-debounce.test.ts:59` |
| `MCSchedulerStores.cfg` for `BytesAreTrue` | an entry rebuilt from its file, or made anew after a cleanup, counts from there | comment at `output-store.ts:31` |
| `MCIpc.cfg` for `LightIsNeverRefused` | the limit of a socket counts the requests of all lanes | comment at `daemon.ts:70` |

The `disconnect` that forgets a connecting session has one cause and two ways in, the
daemon's requests and the MCP server's sweeper.

Two more properties of `FileTransfer` do not hold, and no document promises them (both with
`MCFileTransfer.cfg`): `RenamedFilesStay`, since `rename` finds a free name long before it
writes to it and two transfers can find the same; and `NothingLeftBehind`, since an answer on
its way at the deadline can put the archive of a download in place after it was cleaned up.

## 14. Proofs

| module | theorems | holds for |
|---|---|---|
| `SchedulerProofs` | `TypeCorrect`, `IndexCorrect`, `LocksCorrect`, `Exclusion`, `RunsOnce`, `TerminalCorrect`, `PumpedDry`, `Refinement`: the scheduler implements `TaskBoard` | any tasks, hosts, directories, requests and limits |
| `SchedulerProofs`, of `SchedulerRestart` | `CleanStoreCorrect`, `DiskFinal`, `NotRequeued`, `RestartKeepsOrder` | the same, and any number of crashes and failed writes |
| `ConnectionProofs`, of `Runner` | `ChannelCorrect`, `FirstEndCorrect` (section 6) | any of the four kinds |
| `ConnectionProofs`, of `PortForwarding` | `DispatcherServesForwards`, `StoppedForwardsAreQuiet` | any forwards, binds, connections and loops |
| `CoordinatorProofs` | `TypeCorrect`, `LeasesAreKept`, `LeasesAreGivenBack`, `ConflictsTold` | any tasks, daemons and workspaces, any ttl the clamp allows |
| `DaemonSessionsProofs` | `TypeCorrect`, `NoOrphans`, `CleanShutdown`, `ConnectionsShared` | any sessions, chains, lengths of chains, configs and quota |
| `McpSessionsProofs` | `CacheTellsTheDead` | any sessions, chains, lengths of chains, profiles and quota |
| `FileTransferProofs` | `WholeFiles`, `ChannelsAreReleased`, `NothingStaysLocally`, `OldContent` | any finite set of transfers, any workloads, folders of any length |
| `SchedulerStoresProofs` | `OutputKept`, `FullReads`, `JournalKept` | any tasks, cap, tail, amounts of output, events per file, days, crashes and restarts |
| `IpcProofs` | `Ordered`, `Exact` | any clients, requests, lengths of messages, limits, sizes of chunks and numbers of connects |

Assumptions are the named ones of the modules, all as weak as the code allows: the "none"
values are outside of the sets they complete, limits and bounds are natural numbers, tables
such as `Bind`, `Owner`, `Length` and `ChainOf` are functions of the right type. The times
of the coordinator are `TimesAssumption` (a request settles before the next heartbeat, 3 s
and 30 s) and `TtlAssumption` (a ttl is at least one interval, which the clamp to 30 s at
`daemon.ts:880` gives). `MembersAssumption` is explained in section 9. No theorem has a
hypothesis of its own.

The induction theorems of the library take an operator as a parameter, which the provers
cannot instantiate. Where a proof is by induction over a counter (passes of the parser,
segments of a path, files of the journal), a set of numbers stands for the operator: `CountingUp`
says that a set that holds 0 and the successor of each of its members holds every number. It
is shown once per module, from the least number outside of the set, which the
well-foundedness of `<` gives.

### Scheduler

Argument. The inductive invariant is `TypeOK /\ CoreInv`, `CoreInv == TableInv /\ TodoInv`.
`ConflictingTasksExclude` is not inductive: it follows from `OwnsItsLock` (a running task
of the scheduler that needs a lock owns it), which needs `LocksHeldByRunningTasks` (a lock
belongs to a running task, so that taking one over never robs a running one) and
`IndexInv` (index and status agree up to the ghosts, so that a loop acts on tasks in the
state it thinks). `RunAtMostOnce` needs `RunsInv` (a queued task has never run) and
`ArmedInv` (only a task that ran has a runner that may call back); `TodoInv` says what the
rest of a loop's snapshot can hold, which is where a stale snapshot would do harm. There is
one lemma per action, and under each one step per part of the invariant that the action
can disturb.

`Refinement` uses the same invariant. `BoardNext` lets a task start only while its claim is
free, so each start needs `OneHolder`: among running tasks every claim has one holder, now
and after the step. It follows from `OwnsItsLock`, since a claim is a lock the task owns
and a lock has one owner. `MoveRefines` then covers every step that moves one known task,
`SubmitRefines` the steps of `schedule`, and `StepRefines` goes through the actions: a task
comes to a start only from the queue, to an end only from the queue or from running, because
`TodoInv` and `ArmedInv` say so of snapshots and of late callbacks.

`PumpedDry` (no missed wake-up) is about `pumpQueue` as a whole, and no step keeps it: a
pump is under way for many. `PumpedInv` is what its steps keep: a queued task that could
start has still to be looked at, being in the rest of the snapshot or waiting for a loop
further out that takes a new one (`InLoop`). What has been looked at stays unstartable by
`StaysUnstartable`: a step that frees nothing on a host (`HostStaysBusy`) leaves every
blocker of its tasks, since locks are per host and the number of running tasks only grows;
and a step that frees something opens a pump of that host. The nested pump of a runner that
throws is why the loops outside count: only they may look at what it left.

### Batched files

`CleanStoreIsExact` says what the files hold when no save is pending; while some are, it
says nothing, so it is not inductive. `BatchInv` is: the file of each task outside the
batch is exact at any time. A scheduler step changes only tasks it puts into the batch; a
flush takes out of the batch what it wrote; a restart reads the files and puts into the
batch what it makes of them.

The other three need both sides. `FileInv` compares a file with what the daemon knows: an
end on disk is the same end in memory, or the task is forgotten there, and a task that is
running on disk is neither new nor queued in memory, because memory only moves forward
(`LifeStep`, from the proofs of section 3) and the files follow it. A restart is the one
step where memory goes back: it is given back what the files say. `RestartKeepsOrder` is
the invariant of `SchedulerProofs` over again, of the state `restore` builds: queued tasks
in their index, nothing running, no lock.

### Port forwards

`RouteInv` adds to `RoutesMatchForwards` that a route belongs to a forward of its own bind,
and that while there is a client the port of each registered remote forward is open, so that
the server refuses a second one of the bind, unless that asks for any port. A forward of any
port has its own bind's route to lose and no other. `LifeInv` adds to `StoppedIsQuiet` the
life of a forward: it is started, then registered, its port is open only while it is
registered and not being stopped.

### Leases

`LeaseIsKept` compares a lease with time. `KeptInv` bounds its age: at most one `Delay` for
the last request that came through, a `Beat` for each request lost since, what has passed
of the present interval, and one more `Beat` while a heartbeat is on the wire. A lease
whose ttl is longer than that sum can grow (`Outlives`) is therefore active; of the others,
which the clamp allows, nothing is claimed. `WireInv` says which requests can be on
the wire in which state of a scope, so that none comes late enough to renew or to finish
the wrong thing. `FarewellInv` follows a lease that was given back: as long as it is active
and no request of it was lost, its finish is on the wire or was cut off with the connections,
and a stop cuts off none that it disposed of itself. `OverlapsAreTold` (of two overlapping active leases one holder was told of the
other) is kept because `Serve` reads the table and writes the row in one step. That overlap
is the same seen from both sides needs normal forms: `NormalizeWorkspace` gives a sequence
of segments for every path, by induction over the segments it has walked.

### Sessions of the daemon

`SessionInv` follows one session through its connect. While it connects, it is the pending
connect of its chain in the manager, also when it was disconnected meanwhile, and some
request of the daemon waits for it; and it is the entry of its chain, or `forgotten`, or
`Doomed`: disconnected while it waited for a later hop, which cannot come up without the
tunnel. Once it is connected it is the entry of its chain or forgotten; hops that are up are
among those `disconnect` knows. `NoOrphanTransport` follows because whatever ends a connect
of a session that is not forgotten leaves it known or without a transport,
`OneConnectionPerChain` because a chain has one entry and one pending connect, and
`NoConnectionPastShutdown` because `stop()` waits for every request, and so for every connect,
forgotten or not. `DaemonInv` says that only sessions whose connect has returned are
registered in the daemon: the handlers that drop one never meet a connect under way, and
`disconnect`, which may, is why the invariant has its three cases.

### Cache of the MCP server

`CachedIsKnownOrDead` rests on `disconnect` marking a connection as dead only if it has not
told of its end before (`ConnectedIsUntold`: a connected one has not), on sessions being
cached only after their connect (`CachedIsReturned`: a connect that comes late cannot make a
cached session connected), and on the look into the manager in `ConnectReturns`. Nothing is
needed of the sweeper: it may take sessions that connect, as section 13 shows.

### File transfers

The names of two transfers may meet, so what a transfer needs of the files must not be
spoilt by another. `StageInv`, `FileInv` and `NamesInv` are about one transfer and what is
its own (its step, channel, request, staging file, archive): a step of another one leaves
them alone. `WholeFilesOnly` follows because a rename is sent only when the staging file is
whole (`FileInv`), `ChannelsAreReleased` because every end of a transfer closes or awaits
its channel, and `NothingStaysLocally` needs `ArchiveInv`, that a local archive is there only
while it is packed, listed and sent.

`OldContent` is the one that is about all transfers. `ClearInv`: who overwrites nothing is
never about to write where the old content is. That leaves backups, which move it. They
move it to a name with `.bak`, from which only a second backup could push it out; so, if
only one transfer makes backups (`Quiet`), `KeptInv` says that the old content is in its
place, or in the backup with no move of that transfer ahead (`Follows`: a move that is ahead
was ahead before). `FreeInv`, the place of the backup of a folder is free until then, keeps
the move itself from going into a folder that is already there, where `mv` puts it inside.

### Output of tasks

`OutputKept` and `FullReads` are about `Held`, what a stream has on disk and in its queue. Of
a stream that nothing hurt, the first `Cap` bytes of it are those the command wrote first
(`Whole`). Of one that was hurt little is left: bytes are missing anywhere, but those that are
there are in order and leave room for the missing ones (`InStep`), so that one with as many
bytes as were written has them all (`InStepIsAll`). This is what makes a full read honest:
it compares two numbers, the bytes counted by the entry and the length of the file, and the
entry counts every byte for as long as it lives (`EntryInv`). `Told` is the third part: what
a running task wrote was streamed, so its result brings nothing a second time. The lemmas
are in the order of the argument: sequences of bytes, what each operation of `OutputStore`
makes of an output (`AppendedIs`, `FlushedIs`, ...), that it fits what was written
(`AppendedFits`, `FlushedFits`, ...), and one lemma per action.

### Journal

`JournalInOrder` joins all files of the journal and the buffer, and compares them with what
was logged and not lost by a crash. `JInv` says why appending to the present file keeps the
whole in order: no file after it holds anything (`NoneAfter`), those of its day before it
are full (`FullBefore`), so that the search for a file after a restart finds the present one
or one behind it, and the count that a rotation looks at is the number of events of the
present file (`CountIsTrue`). While the daemon is down the buffer is empty. Files are joined
in the order of their numbers, by an induction over the numbers of a day and over the days,
and a file that grows is cut out of the middle of the join: nothing is behind it.

### Requests of a socket

The parser first. `pushParses` says what one call of `push` gives when it does not throw,
whatever the sizes of chunks. A buffer at rest (`AtRest`) has been searched to its end and
holds no newline. If its bytes, the chunk, and what comes later are the frames of a row of
lines, cut anywhere, then the lines that come out are the first of that row, in order, the
buffer is at rest again, and what it holds with what comes later is the rest of the row.
The mark that saves searching bytes twice is what makes this worth a proof: the search never
looks in front of it, so that a newline there would be a frame that is lost.

`LinkOK` puts this at the daemon's end of a socket: what was sent on it is what was seen,
followed by a rest, and as long as the daemon serves the socket the bytes in its parser and
on the way are the frames of that rest. `IInv` adds the other parts of the state: a request
is sent once, on one socket of its client (`SentOK`); those that wait for a connect wait
once, and the socket that comes up was never used (`JoiningOK`, `ConnectsOK`); what the
daemon worked on it saw on that socket (`WorkOK`); the counters are the numbers of what is
being handled (`CountsOK`). `Ordered` is `LinkOK`. `Exact` takes all of them: the requests of
a chunk are new to the daemon (`HeardAreNew`: they were sent once, and those seen before are
in front of them), so each is counted once, and the `finally` of each takes off what its
arrival put on, whether its socket is still there or not.

### Only model-checked

- Liveness under fairness, in all components, and with it all of `DaemonLifecycle`: out of the
  reach of the proof system, together with `ENABLED`.

## 15. Not modelled

The command classifier, registry, profiles, ssh config, dialects, remote files and tools, the
command line and the tools of the MCP server turn text into text or one request into one
answer and keep no state between requests; known hosts reads, compares and appends inside
one synchronous call; the migrator runs once, alone, before anything else starts; logging
and paths are pure I/O; the installation of the coordinator is one pass of remote commands.

Of modelled components: agents, their lists and the locks clients take for themselves;
lock deadlines (section 3); the interactive shell; the map of tasks of the exec task
manager, which belongs to an older design and is filled by nothing; the sizes of answers
(an answer that grows past the limit of a frame when it is escaped is a question of text);
observations, registration and the audit log of the coordinator; the age at which outputs,
events and tasks go (anything that may be old may go); line endings, encodings and symbolic
links in transfers, and servers that cannot rename; pid and pipe paths of older versions
and Windows pipes. `PROJECT.json` says it per component.
