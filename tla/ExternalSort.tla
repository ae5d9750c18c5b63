----------------------------- MODULE ExternalSort -----------------------------
(***************************************************************************)
(* externalsort.Sort (src/externalsort/): each input file in turn is read  *)
(* (its line ending detected if none is known yet), its lines sorted and   *)
(* written back over it; then all files are opened again and merged        *)
(* through a heap of the readers' current lines into the output writer.    *)
(*                                                                         *)
(* A file is its sequence of bytes; a line is a sequence of bytes and two  *)
(* lines compare as strings.Compare compares them.  The files exist and    *)
(* I/O does not fail.  The heap holds one item per reader that has a line  *)
(* left; Pop takes an item with the least line (container/heap's choice   *)
(* among equal lines is one of them).                                      *)
(***************************************************************************)
EXTENDS Integers, Sequences, FiniteSets, TLC

SX == INSTANCE SequencesExt

CONSTANTS
    N,          \* the input files, in the order Sort is given them
    Contents    \* the byte sequences an input file may hold

LF == 10
CR == 13

Files == 1..N

VARIABLES
    file,        \* file[f]: the bytes of input file f
    lineEnding,  \* Sort's lineEnding: "none" (empty), "unix" or "windows"
    next,        \* the file the loop of Sort processes next
    readIn,      \* the lines processSingleFile read, file after file
    rpos,        \* rpos[f]: the next byte merge's reader of f reads
    heap,        \* the heap: a set of [r |-> reader, top |-> line]
    out,         \* the lines written to w, in order
    sortPc       \* "sort", "merge" or "done"

vars == <<file, lineEnding, next, readIn, rpos, heap, out, sortPc>>

TypeOK ==
    /\ lineEnding \in {"none", "unix", "windows"} /\ next \in 1..N + 1
    /\ rpos \in [Files -> Nat] /\ sortPc \in {"sort", "merge", "done"}

Init ==
    /\ file \in [Files -> Contents]
    /\ lineEnding = "none" /\ next = 1 /\ readIn = <<>>
    /\ rpos = [f \in Files |-> 1] /\ heap = {} /\ out = <<>>
    /\ sortPc = "sort"

-----------------------------------------------------------------------------
\* strings.Compare(a, b).
RECURSIVE Compare(_, _)
Compare(a, b) ==
    CASE a = <<>> /\ b = <<>> -> 0
      [] a = <<>> -> -1
      [] b = <<>> -> 1
      [] Head(a) # Head(b) -> IF Head(a) < Head(b) THEN -1 ELSE 1
      [] OTHER -> Compare(Tail(a), Tail(b))

\* ReadLine from byte p: bytes up to "\n" (less the "\r" of a "\r\n" when
\* the reader's ending is Windows), or what is left with io.EOF.
RECURSIVE ReadLineFrom(_, _, _, _, _)
ReadLineFrom(bytes, p, windows, sb, prev) ==
    IF p > Len(bytes) THEN [line |-> sb, eof |-> TRUE, pos |-> p]
    ELSE LET c == bytes[p] IN
         IF windows /\ prev = CR /\ c = LF
         THEN [line |-> SubSeq(sb, 1, Len(sb) - 1), eof |-> FALSE, pos |-> p + 1]
         ELSE IF c = LF THEN [line |-> sb, eof |-> FALSE, pos |-> p + 1]
         ELSE ReadLineFrom(bytes, p + 1, windows, Append(sb, c), c)

\* NewReader and NewWriter start with the Unix ending; changeLineEnding(le)
\* replaces it only with a non-empty one.
NewLineEnding(le) == IF le = "none" THEN "unix" ELSE le

\* A reader after changeLineEnding(le).
ReadLine(bytes, p, le) == ReadLineFrom(bytes, p, NewLineEnding(le) = "windows", <<>>, 0)

\* A line the loops keep: one ended by "\n", or a last one with content.
Kept(r) == ~r.eof \/ Len(r.line) > 0

\* readLines: ReadLine until an error.
RECURSIVE readLines(_, _, _)
readLines(bytes, p, le) ==
    LET r == ReadLine(bytes, p, le)
    IN (IF Kept(r) THEN <<r.line>> ELSE <<>>) \o
       (IF r.eof THEN <<>> ELSE readLines(bytes, r.pos, le))

\* detectLineEnding: fillMap counts the lines ending "\r\n" and "\n", and
\* determineMostFrequentLineEnding takes the one with the strictly larger
\* count in the map's iteration order, which Go randomises: a tie of two
\* non-zero counts goes either way, and no line ending gives "".
detectLineEnding(bytes) ==
    LET ends == {i \in 1..Len(bytes) : bytes[i] = LF}
        crlf == Cardinality({i \in ends : i > 1 /\ bytes[i - 1] = CR})
        lf == Cardinality(ends) - crlf
    IN CASE crlf > lf -> {"windows"}
         [] lf > crlf -> {"unix"}
         [] lf = 0 -> {"none"}
         [] OTHER -> {"windows", "unix"}

\* WriterImpl.Write: the line, then the writer's ending.
WriteBytes(line, le) == line \o (IF NewLineEnding(le) = "windows" THEN <<CR, LF>> ELSE <<LF>>)

\* writeFileLines: the file is opened O_WRONLY without O_TRUNC, so bytes
\* past the end of what is written stay.
RECURSIVE Written(_, _)
Written(lines, le) == IF lines = <<>> THEN <<>>
                      ELSE WriteBytes(Head(lines), le) \o Written(Tail(lines), le)
Overwrite(old, new) == new \o SubSeq(old, Len(new) + 1, Len(old))

\* Mutant: Heap.Less with the comparison the wrong way round.
LessSwapped(a, b) == Compare(a, b) = 1

\* Heap.Less: strings.Compare(h[i].top, h[j].top) == -1.
Less(a, b) == Compare(a, b) = -1

\* heap.Pop on the Heap: an item whose line no other item's is Less than.
IsHeapMin(item) == \A other \in heap : ~Less(other.top, item.top)

\* initHeap: readers whose first ReadLine gives io.EOF and no line are
\* skipped; the others are pushed with that line.
initHeap(first) ==
    {[r |-> f, top |-> first[f].line] : f \in {g \in Files : Kept(first[g])}}

-----------------------------------------------------------------------------
\* Sort's loop: processSingleFile(in[next]): detectAndSetLineEnding,
\* readLines, sort when there are two lines or more, writeFileLines.
processSingleFile ==
    /\ sortPc = "sort" /\ next <= N
    /\ \E le \in IF lineEnding = "none" THEN detectLineEnding(file[next])
                                        ELSE {lineEnding} :
          LET lines == readLines(file[next], 1, le)
              sorted == IF Len(lines) > 1 THEN SortSeq(lines, LAMBDA x, y : Compare(x, y) = -1) ELSE lines
          IN /\ lineEnding' = le
             /\ file' = [file EXCEPT ![next] = Overwrite(@, Written(sorted, le))]
             /\ readIn' = readIn \o lines
    /\ next' = next + 1
    /\ UNCHANGED <<rpos, heap, out, sortPc>>

\* mergeFiles and initHeap: a reader per file with Sort's ending, and the
\* first line of each that has one pushed on the heap.
mergeFiles ==
    /\ sortPc = "sort" /\ next = N + 1
    /\ LET first == [f \in Files |-> ReadLine(file[f], 1, lineEnding)]
       IN /\ heap' = initHeap(first)
          /\ rpos' = [f \in Files |-> first[f].pos]
    /\ sortPc' = "merge"
    /\ UNCHANGED <<file, lineEnding, next, readIn, out>>

\* mergeLines, one iteration: Pop the least line, Write it, and
\* pushToHeap the reader's next line if it has one.
mergeLine ==
    /\ sortPc = "merge" /\ heap # {}
    /\ \E item \in heap :
          /\ IsHeapMin(item)
          /\ LET r == ReadLine(file[item.r], rpos[item.r], lineEnding)
             IN /\ heap' = (heap \ {item}) \cup
                           (IF Kept(r) THEN {[r |-> item.r, top |-> r.line]} ELSE {})
                /\ rpos' = [rpos EXCEPT ![item.r] = r.pos]
          /\ out' = Append(out, item.top)
    /\ UNCHANGED <<file, lineEnding, next, readIn, sortPc>>

\* The heap is empty: Merge and Sort return.
mergeEnd ==
    /\ sortPc = "merge" /\ heap = {}
    /\ sortPc' = "done"
    /\ UNCHANGED <<file, lineEnding, next, readIn, rpos, heap, out>>

Terminated == sortPc = "done" /\ UNCHANGED vars

Next == processSingleFile \/ mergeFiles \/ mergeLine \/ mergeEnd \/ Terminated

Spec == Init /\ [][Next]_vars

-----------------------------------------------------------------------------
\* A line less the "\r" it may end with.
StripCR(l) == IF l # <<>> /\ l[Len(l)] = CR THEN SubSeq(l, 1, Len(l) - 1) ELSE l

\* Sort writes every line of the inputs exactly once, in sorted order: once
\* it returns, the output is sorted and holds the lines processSingleFile
\* read, although each file was rewritten in place and read again by merge,
\* possibly with a line ending detected from a later file.  Lines are
\* compared up to a final "\r": a file with no "\n" is rewritten with "\n"
\* before the ending is known, and when a later file makes it "\r\n", merge
\* reads that line's final "\r" as part of its ending.
SortOutputsEveryLine ==
    sortPc = "done" =>
        /\ \A i \in 1..Len(out) - 1 : Compare(out[i], out[i + 1]) <= 0
        /\ SX!ToBag([i \in DOMAIN out |-> StripCR(out[i])])
              = SX!ToBag([i \in DOMAIN readIn |-> StripCR(readIn[i])])
====
