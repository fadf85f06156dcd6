---------------------------- MODULE Coordinator ----------------------------
(* Leases of the remote coordinator (src/coordinator) and the daemons that  *)
(* hold them (daemon.ts). A task that is started asks the coordinator of its *)
(* host for a lease on its workspace, renews it by heartbeats, and gives it  *)
(* back when it ends. Requests travel over an SSH channel of their own: they *)
(* are answered, lost, or answered after the asker gave up. Times are        *)
(* relative: Tick moves every deadline one unit closer.                      *)
EXTENDS Naturals, FiniteSets, SequencesExt

CONSTANTS
    Tasks,      \* tasks that are neither inspections nor searches
    Daemons,    \* the daemons of the people who work on the host
    Owner,      \* the daemon of each task
    Workspace,  \* the directory each task gives, a sequence of path components
    Background, \* tasks that run in the background
    Ttl,        \* ttlMs of the lease of each task
    Beat,       \* heartbeatMs
    Delay,      \* timeoutMs of a request
    MaxLost     \* bound: how far lost requests in a row are counted

ASSUME OwnerAssumption == Owner \in [Tasks -> Daemons]
ASSUME WorkspaceAssumption == Workspace \in [Tasks -> Seq(STRING)]
ASSUME BackgroundAssumption == Background \subseteq Tasks
\* 3 s and 30 s in the code.
ASSUME TimesAssumption ==
    /\ Beat \in Nat /\ Delay \in Nat /\ MaxLost \in Nat
    /\ 0 < Delay /\ Delay < Beat
\* The task's own timeout or 120 s, and at least 30 s.
ASSUME TtlAssumption == Ttl \in [Tasks -> Nat] /\ \A t \in Tasks : Beat <= Ttl[t]

VARIABLES
    daemon,     \* whether each daemon runs
    task,       \* what became of each task
    scope,      \* CoordinatorTaskScope of each task
    wire,       \* requests under way to the coordinator and answers to a begin
    lease,      \* the row of each task in the table of leases
    lost,       \* history: requests of a task lost since its lease was renewed
    cut         \* history: tasks whose finish was under way when the connections ended

vars == <<daemon, task, scope, wire, lease, lost, cut>>

Scope == [state : {"none", "beginning", "held", "late", "unavailable"},
          mapped : BOOLEAN,                         \* coordinatorScopes has it
          end : {"none", "finished", "disposed"},   \* finished, and by whom
          timer : BOOLEAN,                          \* heartbeatTimer is set
          due : 0..Beat]                            \* when it fires next
Message == [task : Tasks, action : {"begin", "granted", "heartbeat", "finish"},
            age : 0..Delay]
Lease == [row : {"absent", "open", "over"},         \* over has an outcome, or expired
          left : Nat,                               \* expires_at - now
          told : SUBSET Tasks]                      \* conflicts returned by beginTask

TypeOK ==
    /\ daemon \in [Daemons -> {"up", "stopping", "stopped", "crashed"}]
    /\ task \in [Tasks -> {"new", "running", "ended", "cancelled"}]
    /\ scope \in [Tasks -> Scope]
    /\ wire \subseteq Message
    /\ lease \in [Tasks -> Lease]
    /\ lost \in [Tasks -> Nat]
    /\ cut \subseteq Tasks

Init ==
    /\ daemon = [d \in Daemons |-> "up"]
    /\ task = [t \in Tasks |-> "new"]
    /\ scope = [t \in Tasks |->
                  [state |-> "none", mapped |-> FALSE, end |-> "none",
                   timer |-> FALSE, due |-> 0]]
    /\ wire = {}
    /\ lease = [t \in Tasks |-> [row |-> "absent", left |-> 0, told |-> {}]]
    /\ lost = [t \in Tasks |-> 0]
    /\ cut = {}

-----------------------------------------------------------------------------
(* Workspaces *)

\* No normal path has a component "..": the path that leaves the root.
Escaped == <<"..">>

WalkTo(path, part) ==
    IF part = "." \/ path = Escaped THEN path
    ELSE IF part # ".." THEN Append(path, part)
    ELSE IF path = <<>> THEN Escaped ELSE Front(path)

NormalizeWorkspace(w) ==
    LET walked[n \in 0..Len(w)] == IF n = 0 THEN <<>> ELSE WalkTo(walked[n - 1], w[n])
    IN  walked[Len(w)]

\* The text of a starts with the text of b and a slash. The root's own text ends
\* with its slash: no path starts with it and another one.
LiesBelow(a, b) == b # <<>> /\ IsStrictPrefix(b, a)

\* Fault: a directory is not compared with those below it.
WorkspacesOverlapDown(a, b) ==
    LET x == NormalizeWorkspace(a)
        y == NormalizeWorkspace(b)
    IN  x = y \/ LiesBelow(y, x)

WorkspacesOverlap(a, b) ==
    LET x == NormalizeWorkspace(a)
        y == NormalizeWorkspace(b)
    IN  x = y \/ LiesBelow(x, y) \/ LiesBelow(y, x)

-----------------------------------------------------------------------------
(* The daemon *)

Running(t) == daemon[Owner[t]] \in {"up", "stopping"}
Send(t, action) == wire \cup {[task |-> t, action |-> action, age |-> 0]}
Under(t) == {m \in wire : m.task = t}

\* A task is started over a live connection: beginCoordinatorTask.
Start(t) ==
    /\ Running(t) /\ task[t] = "new"
    /\ task' = [task EXCEPT ![t] = "running"]
    /\ scope' = [scope EXCEPT ![t].state = "beginning", ![t].mapped = TRUE]
    /\ wire' = Send(t, "begin")
    /\ UNCHANGED <<daemon, lease, lost, cut>>

\* No connection to ask over: the task runs without a scope.
StartAlone(t) ==
    /\ Running(t) /\ task[t] = "new"
    /\ task' = [task EXCEPT ![t] = "running"]
    /\ UNCHANGED <<daemon, scope, wire, lease, lost, cut>>

\* The answer to a begin comes in time.
BeginAnswered(t) ==
    /\ Running(t) /\ scope[t].state = "beginning"
    /\ \E m \in Under(t) :
        /\ m.action = "granted"
        /\ IF scope[t].end = "none"
           THEN /\ scope' = [scope EXCEPT ![t].state = "held",
                                         ![t].timer = TRUE, ![t].due = Beat]
                /\ wire' = wire \ {m}
           ELSE /\ scope' = [scope EXCEPT ![t].state = "late"]
                /\ wire' = (wire \ {m}) \cup
                     {[task |-> t, action |-> "finish", age |-> 0]}
    /\ UNCHANGED <<daemon, task, lease, lost, cut>>

\* It does not: refused, unreadable, channel closed or timed out.
BeginFails(t) ==
    /\ Running(t) /\ scope[t].state = "beginning"
    /\ scope' = [scope EXCEPT ![t].state = "unavailable"]
    /\ UNCHANGED <<daemon, task, wire, lease, lost, cut>>

\* The interval of heartbeatTimer is over.
Heartbeat(t) ==
    /\ Running(t) /\ scope[t].timer /\ scope[t].due = 0
    /\ scope' = [scope EXCEPT ![t].due = Beat]
    /\ wire' = IF scope[t].end = "none" THEN Send(t, "heartbeat") ELSE wire
    /\ UNCHANGED <<daemon, task, lease, lost, cut>>

\* finish of the scopes of a set of tasks; only held leases are given back.
Finished(T, end) ==
    [t \in Tasks |-> IF t \in T /\ scope[t].end = "none"
                     THEN [scope[t] EXCEPT !.end = end, !.timer = FALSE, !.due = 0] ELSE scope[t]]
GivenBack(T) ==
    {[task |-> t, action |-> "finish", age |-> 0] :
        t \in {u \in T : scope[u].end = "none" /\ scope[u].state = "held"}}

\* What becomes of the scopes when tasks end and others are disposed of.
Released(ended, disposed) ==
    [t \in Tasks |-> IF t \in ended THEN [Finished(ended, "finished")[t] EXCEPT !.mapped = FALSE]
                     ELSE Finished(disposed, "disposed")[t]]

\* Fault: the hook of the coordinator is not called.
FinishUnhooked(t) ==
    /\ Running(t) /\ task[t] = "running"
    /\ task' = [task EXCEPT ![t] = "ended"]
    /\ UNCHANGED <<daemon, scope, wire, lease, lost, cut>>

\* The scheduler's finishTask calls onTaskFinished: finishCoordinatorTask.
Finish(t) ==
    LET scopes == {u \in {t} : scope[u].mapped} IN
    /\ Running(t) /\ task[t] = "running"
    /\ task' = [task EXCEPT ![t] = "ended"]
    /\ scope' = Released(scopes, {})
    /\ wire' = wire \cup GivenBack(scopes)
    /\ UNCHANGED <<daemon, lease, lost, cut>>

\* The scheduler's cancelTask calls no hook: the scope lives on.
Cancel(t) ==
    /\ Running(t) /\ task[t] = "running"
    /\ task' = [task EXCEPT ![t] = "cancelled"]
    /\ UNCHANGED <<daemon, scope, wire, lease, lost, cut>>

\* stop. scheduler.dispose stops the runners of background tasks: these tasks end, and
\* their scopes finish without anybody waiting. The scopes that are left, of tasks in
\* the foreground and of cancelled ones, are disposed of, and their requests are waited
\* for. Queued tasks that get the places of those that end are started just before.
Stop(d) ==
    LET own == {t \in Tasks : Owner[t] = d}
        stopped == {t \in own \cap Background : task[t] = "running"}
        scopes == {t \in own : scope[t].mapped}
    IN  /\ daemon[d] = "up"
        /\ daemon' = [daemon EXCEPT ![d] = "stopping"]
        /\ task' = [t \in Tasks |-> IF t \in stopped THEN "ended" ELSE task[t]]
        /\ scope' = Released(scopes \cap stopped, scopes \ stopped)
        /\ wire' = wire \cup GivenBack(scopes)
        /\ UNCHANGED <<lease, lost, cut>>

\* disconnectAll ends the channels of requests that are still under way. The
\* timers of the scopes end with the process.
Disconnected(d) ==
    /\ wire' = {m \in wire : Owner[m.task] # d}
    /\ scope' = [t \in Tasks |->
                   IF Owner[t] = d
                   THEN [scope[t] EXCEPT !.timer = FALSE, !.due = 0, !.mapped = FALSE]
                   ELSE scope[t]]
    /\ cut' = cut \cup {m.task : m \in {n \in wire : Owner[n.task] = d /\ n.action = "finish"}}

Disposals(d) ==
    {m \in wire : /\ Owner[m.task] = d /\ m.action = "finish"
                  /\ scope[m.task].end = "disposed" /\ scope[m.task].state = "held"}

\* Fault: the scopes that are disposed of are not waited for.
StoppedAtOnce(d) ==
    /\ daemon[d] = "stopping"
    /\ daemon' = [daemon EXCEPT ![d] = "stopped"]
    /\ Disconnected(d)
    /\ UNCHANGED <<task, lease, lost>>

Stopped(d) ==
    /\ daemon[d] = "stopping" /\ Disposals(d) = {}
    /\ daemon' = [daemon EXCEPT ![d] = "stopped"]
    /\ Disconnected(d)
    /\ UNCHANGED <<task, lease, lost>>

\* The process dies, or dispose throws and stop gives up.
Crash(d) ==
    /\ daemon[d] \in {"up", "stopping"}
    /\ daemon' = [daemon EXCEPT ![d] = "crashed"]
    /\ Disconnected(d)
    /\ UNCHANGED <<task, lease, lost>>

-----------------------------------------------------------------------------
(* The coordinator *)

Active(t) == lease[t].row = "open" /\ lease[t].left > 0

\* cleanupExpired
Cleaned ==
    [t \in Tasks |-> IF lease[t].row = "open" /\ lease[t].left = 0
                     THEN [lease[t] EXCEPT !.row = "over"] ELSE lease[t]]

Conflicts(t) ==
    {u \in Tasks : Active(u) /\ WorkspacesOverlap(Workspace[t], Workspace[u])}

\* beginTask; a workspace that leaves the root is refused, and nothing is written.
BeginTask(m) ==
    LET t == m.task IN
    /\ m.action = "begin"
    /\ IF NormalizeWorkspace(Workspace[t]) = Escaped
       THEN /\ wire' = wire \ {m}
            /\ UNCHANGED lease
       ELSE /\ wire' = (wire \ {m}) \cup {[m EXCEPT !.action = "granted"]}
            /\ lease' = [Cleaned EXCEPT ![t] =
                 [row |-> "open", left |-> Ttl[t], told |-> Conflicts(t)]]
    /\ UNCHANGED <<daemon, task, scope, lost, cut>>

\* Fault: the lease is renewed for the time of one interval.
RenewLeaseBriefly(m) ==
    LET t == m.task IN
    /\ m.action = "heartbeat" /\ Active(t)
    /\ wire' = wire \ {m}
    /\ lease' = [lease EXCEPT ![t].left = Beat]
    /\ lost' = [lost EXCEPT ![t] = 0]
    /\ UNCHANGED <<daemon, task, scope, cut>>

\* heartbeat
RenewLease(m) ==
    LET t == m.task IN
    /\ m.action = "heartbeat"
    /\ wire' = wire \ {m}
    /\ IF Active(t)
       THEN /\ lease' = [lease EXCEPT ![t].left = Ttl[t]]
            /\ lost' = [lost EXCEPT ![t] = IF scope[t].end = "none" THEN 0 ELSE @]
       ELSE UNCHANGED <<lease, lost>>
    /\ UNCHANGED <<daemon, task, scope, cut>>

\* finishTask
FinishTask(m) ==
    LET t == m.task IN
    /\ m.action = "finish"
    /\ wire' = wire \ {m}
    /\ lease' = IF Active(t)
                THEN [lease EXCEPT ![t].row = "over", ![t].left = 0]
                ELSE lease
    /\ UNCHANGED <<daemon, task, scope, lost, cut>>

\* listActive
ListActive ==
    /\ lease # Cleaned
    /\ lease' = Cleaned
    /\ UNCHANGED <<daemon, task, scope, wire, lost, cut>>

\* The coordinator is down, the channel does not open or the helper fails.
Lose(m) ==
    /\ wire' = wire \ {m}
    /\ lost' = [lost EXCEPT ![m.task] =
         IF m.action \in {"heartbeat", "finish"} /\ @ <= MaxLost THEN @ + 1 ELSE @]
    /\ UNCHANGED <<daemon, task, scope, lease, cut>>

\* Time passes: timers fire when they are due, and no exchange outlives Delay.
Tick ==
    /\ \A m \in wire : m.age < Delay
    /\ \A t \in Tasks : Running(t) =>
        /\ scope[t].timer => scope[t].due > 0
        /\ scope[t].state = "beginning" => Under(t) # {}
    /\ wire' = {[m EXCEPT !.age = @ + 1] : m \in wire}
    /\ scope' = [t \in Tasks |-> [scope[t] EXCEPT !.due = IF @ > 0 THEN @ - 1 ELSE 0]]
    /\ lease' = [t \in Tasks |-> [lease[t] EXCEPT !.left = IF @ > 0 THEN @ - 1 ELSE 0]]
    /\ UNCHANGED <<daemon, task, lost, cut>>

-----------------------------------------------------------------------------
(* The system *)

Serve(m) == BeginTask(m) \/ RenewLease(m) \/ FinishTask(m)

Next ==
    \/ \E t \in Tasks :
        \/ Start(t) \/ StartAlone(t) \/ BeginAnswered(t) \/ BeginFails(t)
        \/ Heartbeat(t) \/ Finish(t) \/ Cancel(t)
    \/ \E d \in Daemons : Stop(d) \/ Stopped(d) \/ Crash(d)
    \/ \E m \in wire : Serve(m) \/ Lose(m)
    \/ ListActive
    \/ Tick

Spec == Init /\ [][Next]_vars

\* Time goes on, as far as the timers and the requests under way let it. Between
\* two ticks there are only finitely many of the other steps.
Progress ==
    \/ Tick
    \/ \E m \in wire : Serve(m) \/ Lose(m)
    \/ \E t \in Tasks : BeginAnswered(t) \/ BeginFails(t) \/ Heartbeat(t)

FairSpec == Spec /\ WF_vars(Progress)

-----------------------------------------------------------------------------
(* What the leases are for *)

\* Some directory lies in the workspaces of both.
SharedDirectory(t, u) ==
    LET path == [v \in Tasks |-> NormalizeWorkspace(Workspace[v])]
    IN  \E v \in Tasks : IsPrefix(path[t], path[v]) /\ IsPrefix(path[u], path[v])

\* One of the two was told of the other when it began.
Told(t, u) == t \in lease[u].told \/ u \in lease[t].told

\* Of two active leases with a directory in both workspaces the later holder was
\* told of the earlier one when it began (beginTask): nobody works where somebody
\* else works without a warning, whatever expired or was renewed in between. Two
\* workspaces of which one is the root are left to RootConflictsAreTold.
ConflictsAreTold ==
    \A t, u \in Tasks :
        /\ t # u /\ Active(t) /\ Active(u) /\ SharedDirectory(t, u)
        /\ <<>> \notin {NormalizeWorkspace(Workspace[t]), NormalizeWorkspace(Workspace[u])}
        => Told(t, u)

\* docs/superpowers/specs/2026-08-08-remote-coordinator-design.md:208: the server
\* looks for tasks in overlapping workspaces. A task without a directory works in
\* "/" (beginCoordinatorTask), which overlaps no directory below it.
RootConflictsAreTold ==
    \A t, u \in Tasks :
        t # u /\ Active(t) /\ Active(u) /\ SharedDirectory(t, u) => Told(t, u)

\* A lease lapses under its holder only when its own ttl is no longer than what may lie
\* between two renewals: one interval of the heartbeats and one for each request that
\* was lost since the last one, and the deadlines of the requests that renew it.
LeaseIsKept ==
    \A t \in Tasks :
        /\ Running(t) /\ scope[t].state = "held" /\ scope[t].end = "none"
        /\ lost[t] <= MaxLost
        => Active(t) \/ Ttl[t] <= (lost[t] + 1) * Beat + 2 * Delay

\* docs/superpowers/specs/2026-08-08-remote-coordinator-design.md:209: a long task keeps
\* its lease by heartbeats. A ttl of 30 s (daemon.ts:880) is over when the first one comes.
HeartbeatsKeepLease ==
    \A t \in Tasks :
        Running(t) /\ scope[t].state = "held" /\ scope[t].end = "none" /\ lost[t] = 0
        => Active(t)

\* The only leases of ended scopes that a stop leaves active without a request being lost
\* are those whose finish, sent by the hook when the task ended and waited for by nobody,
\* was under way when the connections were closed. What stop disposes of itself is over.
ReleasedBeforeDisconnect ==
    \A t \in Tasks :
        /\ daemon[Owner[t]] = "stopped" /\ scope[t].state = "held"
        /\ scope[t].end # "none" /\ lost[t] = 0 /\ Active(t)
        => t \in cut /\ scope[t].end = "finished"

\* docs/superpowers/specs/2026-08-08-remote-coordinator-design.md:376: the disposal of the
\* daemon releases the leases. That of a background task is cut off (daemon.ts:498-501).
StopReleasesLeases ==
    \A t \in Tasks :
        daemon[Owner[t]] = "stopped" /\ scope[t].state = "held" /\ lost[t] = 0 => ~Active(t)

\* The lease of a task that ended, or whose daemon stopped or crashed, ends and
\* stays ended, even if the answer to its begin came after the task was over.
LeaseEnds ==
    \A t \in Tasks :
        \/ task[t] = "ended"
        \/ daemon[Owner[t]] \in {"stopped", "crashed"}
        ~> []~Active(t)

\* docs/superpowers/specs/2026-08-08-remote-coordinator-design.md:210 asks the
\* same for a cancelled task.
CancelledLeaseEnds ==
    \A t \in Tasks : task[t] = "cancelled" ~> []~Active(t)
=============================================================================
