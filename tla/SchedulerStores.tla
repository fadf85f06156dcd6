-------------------------- MODULE SchedulerStores --------------------------
(* The stores a scheduler writes through timers, and the scheduler's use of  *)
(* them: task output, the journal, and the working directory of an agent     *)
(* (virtual-cwd-store.ts). They share what ends them: dispose flushes one    *)
(* after the other, a crash loses what the timers had not written.           *)
EXTENDS OutputStore, EventLog, SequencesExt

CONSTANTS
    MaxMade,    \* bound: bytes a command writes to each stream
    MaxSets,    \* bound: changes of the working directory
    MaxRestarts \* bound

ASSUME StoresAssumption == MaxMade \in [Streams -> Nat] /\ MaxSets \in Nat /\ MaxRestarts \in Nat

VARIABLES
    life,       \* of the daemon
    status,     \* of each task
    streamed,   \* streamedOutputTasks
    cwd,        \* VirtualCwdStore: map, dirty, flushTimer and its file
    made,       \* for the properties: bytes handed to the store
    hurt,       \* for the properties: streams that lost bytes
    forgotten,  \* for the properties: tasks the store lost the entry of
    events      \* for the properties: events logged, without those a crash lost

vars == <<out, journal, day, life, status, streamed, cwd, made, hurt, forgotten, events>>

NotStreamed == [s \in Streams |-> FALSE]
Cwd == [map : 0..MaxSets, dirty : BOOLEAN, armed : BOOLEAN, saved : 0..MaxSets]

TypeOK ==
    /\ OutputTypeOK /\ EventLogTypeOK
    /\ life \in [up : BOOLEAN, restarts : 0..MaxRestarts]
    /\ status \in [Tasks -> {"new", "running", "over", "cancelled"}]
    /\ streamed \in [Tasks -> [Streams -> BOOLEAN]]
    /\ cwd \in Cwd
    /\ \A t \in Tasks, s \in Streams : made[t][s] \in 0..MaxMade[s]
    /\ hurt \subseteq Tasks \X Streams /\ forgotten \subseteq Tasks
    /\ events \in Seq(Nat)

Init ==
    /\ OutputInit /\ EventLogInit
    /\ life = [up |-> TRUE, restarts |-> 0]
    /\ status = [t \in Tasks |-> "new"]
    /\ streamed = [t \in Tasks |-> NotStreamed]
    /\ cwd = [map |-> 0, dirty |-> FALSE, armed |-> FALSE, saved |-> 0]
    /\ made = [t \in Tasks |-> [s \in Streams |-> 0]]
    /\ hurt = {} /\ forgotten = {}
    /\ events = <<>>

\* An event of the running daemon; they are numbered.
LogEvent ==
    LET e == Len(events) + 1
    IN  /\ journal' = Logged(journal, e)
        /\ events' = Append(events, e)

Text(from, upto) == [n \in 1..(upto - from) |-> from + n]
Only(s, text) == [None EXCEPT ![s] = text]

-----------------------------------------------------------------------------
(* The scheduler *)

\* runTask and its kin: the task is created, logged and started.
StartTask(t) ==
    /\ life.up /\ status[t] = "new"
    /\ status' = [status EXCEPT ![t] = "running"]
    /\ out' = [out EXCEPT ![t] = Create(@)]
    /\ LogEvent
    /\ UNCHANGED <<day, life, streamed, cwd, made, hurt, forgotten>>

\* onOutput: a chunk of n bytes. Chunks may follow a cancellation.
StreamOutput(t, s, n) ==
    /\ life.up /\ status[t] \in {"running", "cancelled"}
    /\ made[t][s] + n <= MaxMade[s]
    /\ made' = [made EXCEPT ![t][s] = @ + n]
    /\ streamed' = [streamed EXCEPT ![t][s] = TRUE]
    /\ out' = [out EXCEPT ![t] = Appended(@, Only(s, Text(made[t][s], made[t][s] + n)))]
    /\ UNCHANGED <<journal, day, life, status, cwd, hurt, forgotten, events>>

Protected(st) == {t \in Tasks : st[t] = "running"}

\* Tasks that may have ended long enough ago to be evicted.
Old == {t \in Tasks : status[t] \in {"over", "cancelled"}}

(* What is left of the outputs all: after a cleanup of the files in gone, and *)
(* without the tasks in old. Those that ended are not streamed any more.      *)
Leave(all, cleaned, gone, old, ended) ==
    /\ out' = [t \in Tasks |-> IF t \in old THEN Removed(cleaned[t]) ELSE cleaned[t]]
    /\ streamed' = [t \in Tasks |-> IF t \in old \cup ended THEN NotStreamed ELSE streamed[t]]
    /\ hurt' = hurt \cup {p \in Tasks \X Streams : p[1] \in old \/ p[2] \in gone[p[1]]}
    /\ forgotten' = forgotten \cup {t \in Tasks : all[t].known /\ ~out'[t].known}

\* cleanupOutputs when the tasks have the statuses st.
Cleanup(all, st, old, ended) ==
    \E gone \in MayGo(all, Protected(st)) : Leave(all, Cleaned(all, gone), gone, old, ended)

\* The end of a task: cleanupOutputs and evictOldTasks, which throttles may skip.
AndCleanup(all, st, ended) ==
    \E old \in SUBSET Old :
        Leave(all, all, NoFiles, old, ended) \/ Cleanup(all, st, old, ended)

\* finishTask of a run that was resolved: its result holds the whole output again.
\* It is appended for streams of which nothing was streamed.
ResultTextAgain(t) == [s \in Streams |-> Text(0, made[t][s])]

ResultText(t) ==
    [s \in Streams |-> IF streamed[t][s] THEN <<>> ELSE Text(0, made[t][s])]

FinishTask(t) ==
    LET ended == [status EXCEPT ![t] = "over"] IN
    /\ life.up /\ status[t] = "running"
    /\ status' = ended
    /\ LogEvent
    /\ AndCleanup([out EXCEPT ![t] = Loaded(Appended(@, ResultText(t)))], ended, {t})
    /\ UNCHANGED <<day, life, cwd, made>>

\* finishTask of a run that failed: the reason goes to stderr, unless stderr was
\* streamed.
FailTask(t) ==
    LET ended == [status EXCEPT ![t] = "over"]
        reason == IF streamed[t]["stderr"] THEN 0 ELSE 1
        n == made[t]["stderr"]
    IN  /\ life.up /\ status[t] = "running" /\ n + reason <= MaxMade["stderr"]
        /\ status' = ended
        /\ made' = [made EXCEPT ![t]["stderr"] = n + reason]
        /\ LogEvent
        /\ AndCleanup(
             [out EXCEPT ![t] = Loaded(Appended(@, Only("stderr", Text(n, n + reason))))],
             ended, {t})
        /\ UNCHANGED <<day, life, cwd>>

\* cancelTask touches no output.
CancelTask(t) ==
    /\ life.up /\ status[t] = "running"
    /\ status' = [status EXCEPT ![t] = "cancelled"]
    /\ LogEvent
    /\ UNCHANGED <<out, day, life, streamed, cwd, made, hurt, forgotten>>

\* A client reads the output.
ReadOutput(t, mode) ==
    /\ life.up /\ status[t] # "new"
    /\ GetOutput(t, mode)
    /\ UNCHANGED <<journal, day, life, status, streamed, cwd, made, hurt, forgotten, events>>

\* A client reads the journal.
ReadEvents ==
    /\ life.up /\ GetRecent
    /\ UNCHANGED <<out, day, life, status, streamed, cwd, made, hurt, forgotten, events>>

\* setCwd
SetCwd ==
    /\ life.up /\ cwd.map < MaxSets
    /\ cwd' = [cwd EXCEPT !.map = @ + 1, !.dirty = TRUE, !.armed = TRUE]
    /\ LogEvent
    /\ UNCHANGED <<out, day, life, status, streamed, made, hurt, forgotten>>

-----------------------------------------------------------------------------
(* Timers *)

OutputTimer(t) ==
    \E failed \in SUBSET {s \in Streams : out[t].queue[s] # <<>>} :
        /\ life.up
        /\ FlushOutput(t, failed)
        /\ hurt' = hurt \cup {<<t, s>> : s \in failed}
        /\ UNCHANGED <<journal, day, life, status, streamed, cwd, made, forgotten, events>>

EventTimer ==
    /\ life.up /\ (FlushEvents \/ FlushEventsFails)
    /\ UNCHANGED <<out, day, life, status, streamed, cwd, made, hurt, forgotten, events>>

SavedCwd == [cwd EXCEPT !.dirty = FALSE, !.armed = FALSE,
                        !.saved = IF cwd.dirty THEN cwd.map ELSE @]

CwdTimer ==
    /\ life.up /\ cwd.armed
    /\ cwd' = SavedCwd
    /\ UNCHANGED <<out, journal, day, life, status, streamed, made, hurt, forgotten, events>>

\* evictOldTasks, by its timer.
EvictTimer ==
    /\ life.up
    /\ \E old \in SUBSET Old : old # {} /\ Leave(out, out, NoFiles, old, {})
    /\ UNCHANGED <<journal, day, life, status, cwd, made, events>>

Midnight ==
    /\ NextDay
    /\ UNCHANGED <<out, journal, life, status, streamed, cwd, made, hurt, forgotten, events>>

-----------------------------------------------------------------------------
(* The end of the daemon *)

\* The process ends: what is only in memory is lost.
Ends(disk, events_, cwd_) ==
    /\ life' = [life EXCEPT !.up = FALSE]
    /\ out' = [t \in Tasks |-> Reopened(disk[t])]
    /\ hurt' = hurt \cup {p \in Tasks \X Streams : disk[p[1]].queue[p[2]] # <<>>}
    /\ forgotten' = forgotten \cup {t \in Tasks : out[t].known}
    /\ journal' = [events_ EXCEPT !.buffer = <<>>, !.armed = FALSE]
    /\ events' = SubSeq(events, 1, Len(events) - Len(events_.buffer))
    /\ cwd' = [cwd_ EXCEPT !.armed = FALSE]
    /\ UNCHANGED <<day, status, streamed, made>>

Crash == life.up /\ Ends(out, journal, cwd)

\* dispose: the working directories, the journal, the output.
Dispose ==
    /\ life.up /\ NumberLeft
    /\ Ends([t \in Tasks |-> Flushed(out[t], {})], Drained(journal), SavedCwd)

\* The directory cannot be written: its exception leaves dispose.
DisposeFails ==
    /\ life.up /\ cwd.dirty
    /\ Ends(out, journal, cwd)

\* The stores are constructed from what is on disk, and the outputs are cleaned
\* up. Running tasks are stale, and nothing is streamed any more.
Restart ==
    /\ ~life.up /\ life.restarts < MaxRestarts /\ NumberLeft
    /\ life' = [up |-> TRUE, restarts |-> life.restarts + 1]
    /\ journal' = Opened(journal)
    /\ cwd' = [map |-> cwd.saved, dirty |-> FALSE, armed |-> FALSE, saved |-> cwd.saved]
    /\ status' = [t \in Tasks |->
         IF status[t] \in {"running", "cancelled"} THEN "over" ELSE status[t]]
    /\ Cleanup(out, status', {}, Tasks)
    /\ UNCHANGED <<day, made, events>>

-----------------------------------------------------------------------------
Next ==
    \/ \E t \in Tasks :
        \/ StartTask(t) \/ FinishTask(t) \/ FailTask(t) \/ CancelTask(t) \/ OutputTimer(t)
        \/ \E s \in Streams, n \in 1..2 : StreamOutput(t, s, n)
        \/ \E mode \in {"tail", "full"} : ReadOutput(t, mode)
    \/ ReadEvents \/ SetCwd \/ EventTimer \/ CwdTimer \/ EvictTimer \/ Midnight
    \/ Crash \/ Dispose \/ DisposeFails \/ Restart

Spec == Init /\ [][Next]_vars

\* Timers that are set fire.
FairSpec ==
    /\ Spec
    /\ WF_vars(EventTimer) /\ WF_vars(CwdTimer)
    /\ \A t \in Tasks : WF_vars(OutputTimer(t))

-----------------------------------------------------------------------------
(* What the stores are for *)

\* A stream that lost nothing to a failed write, a crash, or a cleanup or eviction
\* after its task ended is on disk and in the queue once, in order and up to the cap, after
\* any sequence of chunks, flushes, reads, results, cleanups and restarts.
OutputIsWhole ==
    \A t \in Tasks, s \in Streams :
        <<t, s>> \notin hurt =>
            FullText(out[t], s) = Text(0, Least(made[t][s], Cap))

\* For as long as the entry of a task lives, a full read (getOutput) that is not
\* marked as truncated returns all that the command wrote: whatever failed to
\* reach the files, was cut off at the cap or deleted from under the entry.
FullReadIsHonest ==
    \A t \in Tasks, s \in Streams :
        \/ t \in forgotten
        \/ FullTruncated(out[t], s)
        \/ FullText(out[t], s) = Text(0, made[t][s])

\* The tail that is returned without a look at the files is the end of the output,
\* also when the entry was loaded from disk.
TailIsTheEnd ==
    \A t \in Tasks, s \in Streams :
        out[t].known /\ <<t, s>> \notin hurt /\ made[t][s] <= Cap =>
            out[t].tail[s] = LastOf(Text(0, made[t][s]), TailLimit)

\* The files of a day, and all files, read in the order of their names.
OfDay(files, d) == FlattenSeq([k \in 1..(MaxSeq + 1) |-> files[<<d, k - 1>>]])
OnDisk(files) == FlattenSeq([d \in 1..MaxDay |-> OfDay(files, d)])

\* The files of the journal, in the order of their names, and the buffer hold what
\* was logged, once and in order: through rotation, a new day, failed writes and
\* restarts. Only a crash loses the events of the buffer.
JournalInOrder == OnDisk(journal.files) \o journal.buffer = events

\* Output that waits in a queue is written, or given up on, in the end.
QueuedOutputIsWritten ==
    \A t \in Tasks : out[t].queue # None ~> out[t].queue = None

\* scheduler-service.ts on dispose: "so a shutdown never strands task output that
\* was appended but not yet written".
ShutdownStrandsNothing == [][DisposeFails => hurt' = hurt]_vars

\* event-log-debounce.test.ts: "getRecent() auto-flushes so log + read stays
\* consistent".
RecentIsVisible ==
    journal.buffer # <<>> => Last(journal.buffer) \in ToSet(Recent(journal))

\* output-store.ts on stdoutBytes: "True logical byte count of stdout".
BytesAreTrue ==
    \A t \in Tasks, s \in Streams :
        out[t].known /\ <<t, s>> \notin hurt => out[t].bytes[s] = made[t][s]
=============================================================================
