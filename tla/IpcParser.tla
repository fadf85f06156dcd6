------------------------------ MODULE IpcParser ------------------------------
(***************************************************************************)
(* The incremental parser of the IPC stream (IPCMessageParser in           *)
(* ipc-protocol.ts): frames are lines, they arrive cut into chunks, and    *)
(* every byte is searched for a newline once.  A buffer is a sequence of   *)
(* chunks whose first `offset' bytes are consumed.                         *)
(***************************************************************************)
EXTENDS Integers, Sequences, SequencesExt

CONSTANTS
    Newline,
    MaxRemainder     \* maxRemainderBytes

ASSUME MaxRemainderAssumption == MaxRemainder \in Nat \ {0}

\* A parser after its constructor or reset.
EmptyParser == [chunks |-> <<>>, offset |-> 0, total |-> 0, scanned |-> 0]

Joined(chunks) == FlattenSeq(chunks)

\* The bytes that are not consumed.
Buffered(p) == SubSeq(Joined(p.chunks), p.offset + 1, Len(Joined(p.chunks)))

\* The logical offset of the first newline at or after `from', or -1.
findNewline(p, from) ==
    LET bytes == Buffered(p)
        found == {i \in from..(Len(bytes) - 1) : bytes[i + 1] = Newline}
    IN  IF found = {} THEN -1 ELSE CHOOSE i \in found : \A j \in found : i <= j

sliceRange(p, end) == SubSeq(Buffered(p), 1, end)

\* Whole chunks are dropped, and the offset moves into the one that stays.
Upto(p, k) == Len(Joined(SubSeq(p.chunks, 1, k)))
WholeChunks(p, count) ==
    CHOOSE k \in 0..Len(p.chunks) :
        /\ Upto(p, k) <= p.offset + count
        /\ \A j \in (k + 1)..Len(p.chunks) : Upto(p, j) > p.offset + count

consumeFront(p, count) ==
    LET k == WholeChunks(p, count) IN
    [p EXCEPT !.chunks = SubSeq(@, k + 1, Len(@)), !.offset = @ + count - Upto(p, k)]

\* Fault: a line leaves bytes behind it that were never searched.
scanOnce(p, from, lines) ==
    LET end == findNewline(p, from) IN
    IF from >= p.total THEN [parser |-> p, lines |-> lines, thrown |-> FALSE]
    ELSE IF end < 0 THEN [parser |-> [p EXCEPT !.scanned = p.total], lines |-> lines, thrown |-> FALSE]
    ELSE [parser |-> [consumeFront(p, end + 1) EXCEPT !.total = @ - (end + 1), !.scanned = 0],
          lines |-> Append(lines, sliceRange(p, end)), thrown |-> FALSE]

\* A line in front of the newline that was found leaves the parser.
lineOut(s, end) ==
    [parser |-> [consumeFront(s.parser, end + 1) EXCEPT !.total = @ - (end + 1), !.scanned = 0],
     from |-> 0,
     lines |-> Append(s.lines, sliceRange(s.parser, end))]

\* The loop of push: one line per newline, from the first byte not yet searched. There are
\* no more of them than bytes.
scan(p, from, lines) ==
    LET pass[n \in 0..p.total] ==
            IF n = 0 THEN [parser |-> p, from |-> from, lines |-> lines]
            ELSE LET s == pass[n - 1]
                     end == findNewline(s.parser, s.from)
                 IN  IF end < 0 THEN s ELSE lineOut(s, end)
        last == pass[p.total]
    IN  [parser |-> [last.parser EXCEPT !.scanned = last.parser.total], lines |-> last.lines,
         thrown |-> FALSE]

\* More bytes than the limit: push throws, with everything dropped and no line emitted.
push(p, chunk) ==
    LET grown == [p EXCEPT !.total = @ + Len(chunk), !.chunks = Append(@, chunk)] IN
    IF grown.total > MaxRemainder
    THEN [parser |-> EmptyParser, lines |-> <<>>, thrown |-> TRUE]
    ELSE scan(grown, p.scanned, <<>>)
=============================================================================
