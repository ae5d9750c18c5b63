----------------------------- MODULE MergeChans -----------------------------
(***************************************************************************)
(* genericsum.MergeChans (src/genericsum/genericsum.go): one goroutine     *)
(* polls the inputs chs[1..N] in slice order, each with a select that has  *)
(* a default case, forwards what it receives to the unbuffered result and  *)
(* closes result when its count of open inputs reaches 0.                  *)
(*                                                                         *)
(* Each input has a sender goroutine of the caller that sends up to        *)
(* MaxSends values on its unbuffered channel and then closes it.  The      *)
(* caller ranges over result, so `result <- value` completes as soon as    *)
(* the merger gets to it: the receive from ch and the send to result are   *)
(* one step.                                                               *)
(***************************************************************************)
EXTENDS Integers, Sequences

CONSTANTS
    N,         \* len(chs)
    MaxSends   \* values a sender sends at most before it closes its channel

Ins == 1..N

VARIABLES
    ready,         \* ready[i]: sender i is blocked in `chs[i] <- v`
    closed,        \* closed[i]: sender i has closed chs[i]
    sent,          \* sent[i]: values of input i the caller got from result
    pc,            \* the merger: "loop", "scan" (in processChannels), "done"
    idx,           \* the input processChannels' range is at
    openedChans,   \* openedChans, as the loop and processChannels hold it
    resultClosed   \* result has been closed

vars == <<ready, closed, sent, pc, idx, openedChans, resultClosed>>

TypeOK ==
    /\ ready \in [Ins -> BOOLEAN] /\ closed \in [Ins -> BOOLEAN]
    /\ sent \in [Ins -> 0..MaxSends]
    /\ pc \in {"loop", "scan", "done"} /\ idx \in Ins
    /\ openedChans \in Int
    /\ resultClosed \in BOOLEAN

\* MergeChans(chs...): result is made and the goroutine starts with
\* openedChans = len(chs).
Init ==
    /\ ready = [i \in Ins |-> FALSE] /\ closed = [i \in Ins |-> FALSE]
    /\ sent = [i \in Ins |-> 0]
    /\ pc = "loop" /\ idx = 1 /\ openedChans = N
    /\ resultClosed = FALSE

-----------------------------------------------------------------------------
(* The caller's senders.                                                   *)

Send(i) ==
    /\ ~closed[i] /\ ~ready[i] /\ sent[i] < MaxSends
    /\ ready' = [ready EXCEPT ![i] = TRUE]
    /\ UNCHANGED <<closed, sent, pc, idx, openedChans, resultClosed>>

Close(i) ==
    /\ ~closed[i] /\ ~ready[i]
    /\ closed' = [closed EXCEPT ![i] = TRUE]
    /\ UNCHANGED <<ready, sent, pc, idx, openedChans, resultClosed>>

-----------------------------------------------------------------------------
(* The merger goroutine.                                                   *)

\* `for openedChans > 0 { openedChans = processChannels(...) }`, then
\* close(result).
Loop ==
    /\ pc = "loop"
    /\ IF openedChans > 0
         THEN pc' = "scan" /\ idx' = 1 /\ UNCHANGED resultClosed
         ELSE pc' = "done" /\ resultClosed' = TRUE /\ UNCHANGED idx
    /\ UNCHANGED <<ready, closed, sent, openedChans>>

\* processChannels moves to the next input, or returns after the last.
Advance == IF idx = N THEN pc' = "loop" /\ UNCHANGED idx
                      ELSE idx' = idx + 1 /\ UNCHANGED pc

\* handleChannel(chs[idx], result), and processChannels' decrement when it
\* returns false: a value is received and sent on result (true); a closed
\* channel yields isOpened = false (false); otherwise default (true).
HandleChannel ==
    /\ pc = "scan"
    /\ \/ /\ ready[idx]
          /\ ready' = [ready EXCEPT ![idx] = FALSE]
          /\ sent' = [sent EXCEPT ![idx] = @ + 1]
          /\ UNCHANGED openedChans
       \/ /\ closed[idx]
          /\ openedChans' = openedChans - 1
          /\ UNCHANGED <<ready, sent>>
       \/ /\ ~ready[idx] /\ ~closed[idx]
          /\ UNCHANGED <<ready, sent, openedChans>>
    /\ Advance
    /\ UNCHANGED <<closed, resultClosed>>

\* The merger has returned; the senders still blocked stay blocked.
Terminated == pc = "done" /\ UNCHANGED vars

Next ==
    \/ \E i \in Ins : Send(i) \/ Close(i)
    \/ Loop \/ HandleChannel
    \/ Terminated

Spec == Init /\ [][Next]_vars

-----------------------------------------------------------------------------
\* MergeChans merges its inputs: it closes result only once every input is
\* closed, so the caller ranging over result gets every value sent on any
\* input.
ResultClosedAfterInputs == resultClosed => \A i \in Ins : closed[i]
====
