---------------------------- MODULE OutputStore ----------------------------
(* The output of tasks (scheduler/output-store.ts): the end of each stream   *)
(* in memory, and a file for each stream that appends reach through a queue  *)
(* and a timer. The bytes of a stream are numbered as the command writes     *)
(* them, so that what is lost, doubled or out of order shows.                *)
EXTENDS Naturals, Sequences

CONSTANTS
    Tasks,      \* tasks of the instance
    Cap,        \* maxOutputFileSize
    TailLimit   \* OUTPUT_TAIL_LIMIT

ASSUME OutputAssumption == Cap \in Nat \ {0} /\ TailLimit \in Nat \ {0}

VARIABLE out    \* what the store has of each task

Streams == {"stdout", "stderr"}
Bytes == Seq(Nat)
Output == [known : BOOLEAN,             \* inMemory has an entry, with
           tail : [Streams -> Bytes],   \*   stdoutTail, stderrTail
           bytes : [Streams -> Nat],    \*   stdoutBytes, stderrBytes
           armed : BOOLEAN,             \* pending has an entry, with its flushTimer
           queue : [Streams -> Bytes],  \*   stdoutQueue, stderrQueue
           file : [Streams -> Bytes]]   \* on disk; without bytes there is no file

OutputTypeOK == out \in [Tasks -> Output]

None == [s \in Streams |-> <<>>]
Zero == [s \in Streams |-> 0]
NoOutput == [known |-> FALSE, tail |-> None, bytes |-> Zero,
             armed |-> FALSE, queue |-> None, file |-> None]

Least(m, n) == IF m < n THEN m ELSE n
FirstOf(b, n) == SubSeq(b, 1, Least(n, Len(b)))
LastOf(b, n) == SubSeq(b, Len(b) - Least(n, Len(b)) + 1, Len(b))

-----------------------------------------------------------------------------
(* What the operations make of the output of a task *)

Create(o) == [o EXCEPT !.known = TRUE, !.tail = None, !.bytes = Zero]

\* Fault: only text on stdout arms the timer.
AppendTextUnarmed(o, text) ==
    [o EXCEPT !.known = TRUE,
              !.tail = [s \in Streams |-> LastOf(o.tail[s] \o text[s], TailLimit)],
              !.bytes = [s \in Streams |-> o.bytes[s] + Len(text[s])],
              !.armed = @ \/ text["stdout"] # <<>>,
              !.queue = [s \in Streams |-> o.queue[s] \o text[s]]]

\* appendStdout and appendStderr; an unknown task gets an entry (ensureEntry).
AppendText(o, text) ==
    [o EXCEPT !.known = TRUE,
              !.tail = [s \in Streams |-> LastOf(o.tail[s] \o text[s], TailLimit)],
              !.bytes = [s \in Streams |-> o.bytes[s] + Len(text[s])],
              !.armed = TRUE,
              !.queue = [s \in Streams |-> o.queue[s] \o text[s]]]

Appended(o, text) == IF text = None THEN o ELSE AppendText(o, text)

\* flushQueue: what does not fit is dropped, and what a failed write held as well.
Flushed(o, failed) ==
    [o EXCEPT !.armed = FALSE, !.queue = None,
              !.file = [s \in Streams |->
                 IF s \in failed THEN o.file[s] ELSE FirstOf(o.file[s] \o o.queue[s], Cap)]]

\* loadEntryFromDisk
Loaded(o) ==
    IF o.known \/ o.file = None THEN o
    ELSE [o EXCEPT !.known = TRUE,
                   !.tail = [s \in Streams |-> LastOf(o.file[s], TailLimit)],
                   !.bytes = [s \in Streams |-> Len(o.file[s])]]

\* getOutput: full flushes before it reads the file.
FullText(o, s) == Flushed(o, {}).file[s]
\* Fault: what was dropped before the limit was reached is not looked for.
FullTruncatedAtCap(o, s) == Loaded(o).bytes[s] > Cap
FullTruncated(o, s) ==
    LET bytes == Loaded(o).bytes[s] IN bytes > Len(FullText(o, s)) \/ bytes > Cap

\* The files of the streams in gone are deleted.
Unlinked(o, gone) ==
    LET rest == [s \in Streams |-> IF s \in gone THEN <<>> ELSE o.file[s]]
    IN  IF gone # {} /\ rest = None
        THEN [Create(o) EXCEPT !.known = FALSE, !.file = rest]
        ELSE [o EXCEPT !.file = rest]

\* remove: flushed, forgotten, and both files deleted.
Removed(o) == [Create(Flushed(o, {})) EXCEPT !.known = FALSE, !.file = None]

NoFiles == [t \in Tasks |-> {}]

\* cleanup: everything is flushed first. Which files are too old or too many is
\* left open; those of protected tasks never are.
Cleaned(all, gone) == [t \in Tasks |-> Unlinked(Flushed(all[t], {}), gone[t])]
MayGo(all, protected) ==
    {gone \in [Tasks -> SUBSET Streams] : \A t \in protected : gone[t] = {}}

\* The process ends: memory is gone, files stay.
Reopened(o) == [NoOutput EXCEPT !.file = o.file]

-----------------------------------------------------------------------------
OutputInit == out = [t \in Tasks |-> NoOutput]

\* The flush timer of a task; a write may fail.
FlushOutput(t, failed) ==
    /\ out[t].armed
    /\ out' = [out EXCEPT ![t] = Flushed(@, failed)]

GetOutput(t, mode) ==
    out' = [out EXCEPT ![t] = IF mode = "full" THEN Flushed(Loaded(@), {}) ELSE Loaded(@)]
=============================================================================
