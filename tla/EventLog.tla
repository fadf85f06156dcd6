------------------------------ MODULE EventLog ------------------------------
(* The scheduler's journal (scheduler/event-log.ts): events are buffered and *)
(* a timer appends them to the current file of the day. A file that is full  *)
(* is followed by the next number, or by the first file of a new day.        *)
EXTENDS Naturals, Sequences

CONSTANTS
    MaxEventsPerFile,   \* MAX_EVENTS_PER_FILE
    MaxDay,             \* bound: days the log is kept for
    MaxSeq              \* bound: files of a day

ASSUME EventLogAssumption ==
    MaxEventsPerFile \in Nat \ {0} /\ MaxDay \in Nat \ {0} /\ MaxSeq \in Nat

VARIABLES
    journal,    \* the log and its files
    day         \* the date

FileNames == (1..MaxDay) \X (0..MaxSeq)
Journal == [files : [FileNames -> Seq(Nat)],    \* without events there is no file
            currentFile : FileNames,
            eventCount : Nat,
            buffer : Seq(Nat),
            armed : BOOLEAN]                    \* flushTimer

EventLogTypeOK == journal \in Journal /\ day \in 1..MaxDay

\* initCurrentFile: the first file of today that is not full.
FirstWithRoom(files) ==
    CHOOSE n \in 0..MaxSeq :
        /\ Len(files[<<day, n>>]) < MaxEventsPerFile
        /\ \A m \in 0..(n - 1) : Len(files[<<day, m>>]) >= MaxEventsPerFile

\* Fault: a restart opens the first file of the day, full or not.
OpenedBase(j) ==
    LET name == <<day, 0>>
    IN  [j EXCEPT !.currentFile = name, !.eventCount = Len(j.files[name]),
                  !.buffer = <<>>, !.armed = FALSE]

Opened(j) ==
    LET name == <<day, FirstWithRoom(j.files)>>
    IN  [j EXCEPT !.currentFile = name, !.eventCount = Len(j.files[name]),
                  !.buffer = <<>>, !.armed = FALSE]

\* rotateFile: the first file of a new day, or the first number not in use.
FirstUnused(files) ==
    CHOOSE n \in 1..MaxSeq :
        /\ files[<<day, n>>] = <<>>
        /\ \A m \in 1..(n - 1) : files[<<day, m>>] # <<>>
Rotated(j) ==
    [j EXCEPT !.currentFile = IF day # j.currentFile[1] THEN <<day, 0>>
                              ELSE <<day, FirstUnused(j.files)>>,
              !.eventCount = 0]

Logged(j, e) == [j EXCEPT !.buffer = Append(@, e), !.armed = TRUE]

\* flush writes the whole buffer, then looks whether the file is full.
Drained(j) ==
    LET k == [j EXCEPT !.files[j.currentFile] = @ \o j.buffer,
                       !.eventCount = @ + Len(j.buffer),
                       !.buffer = <<>>, !.armed = FALSE]
    IN  IF j.buffer = <<>> THEN [j EXCEPT !.armed = FALSE]
        ELSE IF k.eventCount >= MaxEventsPerFile THEN Rotated(k) ELSE k

\* The write failed: the events stay, the timer is not set again.
Kept(j) == [j EXCEPT !.armed = FALSE]

\* getRecent reads the current file, newest first, after a flush.
Recent(j) == Drained(j).files[Drained(j).currentFile]

-----------------------------------------------------------------------------
EventLogInit ==
    /\ day = 1
    /\ journal = [files |-> [f \in FileNames |-> <<>>], currentFile |-> <<1, 0>>,
                  eventCount |-> 0, buffer |-> <<>>, armed |-> FALSE]

\* Bound: today has a number that is not in use, next to the current file's.
NumberLeft ==
    \E n \in 1..MaxSeq : journal.files[<<day, n>>] = <<>> /\ <<day, n>> # journal.currentFile

FlushEvents == NumberLeft /\ journal.armed /\ journal' = Drained(journal)
FlushEventsFails == journal.armed /\ journal.buffer # <<>> /\ journal' = Kept(journal)
GetRecent ==
    NumberLeft /\ journal.buffer # <<>> /\ journal' \in {Drained(journal), Kept(journal)}
NextDay == day < MaxDay /\ day' = day + 1
=============================================================================
