----------------------------- MODULE WaitGroup -----------------------------
(***************************************************************************)
(* waitgroup.WaitGroup (src/waitgroup/waitgroup.go).  The count lives in a  *)
(* capacity-1 channel `counter`; Add and Done receive it, compute, and send *)
(* the new value back from a deferred addDelta.  `runner` is a plain field: *)
(* Add makes a new generation channel when it finds the count at 0, Done    *)
(* closes it when the count drops to 0, and Wait reads it without any      *)
(* synchronisation (twice).  Generations are numbered 1, 2, ...; 0 is nil.  *)
(*                                                                         *)
(* Workers each run Rounds rounds of: Add(d) for some d in Deltas, then     *)
(* give the d units back one at a time by Done() (SpecNegAdd also lets     *)
(* them be given back by Add(-1)).  With Overrelease a worker may also call Done() with nothing *)
(* outstanding.  Waiters call Wait() up to WaitCalls times.                 *)
(***************************************************************************)
EXTENDS Integers, Sequences, FiniteSets

CONSTANTS
    Workers, Waiters,   \* goroutines calling Add/Done, and calling Wait
    Deltas,             \* positive arguments of Add
    Rounds,             \* Add rounds per worker
    WaitCalls,          \* Wait calls per waiter
    Overrelease         \* a worker may call Done() with nothing outstanding

ASSUME Deltas \subseteq Nat \ {0} /\ Rounds \in Nat /\ WaitCalls \in Nat
ASSUME Overrelease \in BOOLEAN

MaxCount == Cardinality(Workers) * (CHOOSE m \in Deltas : \A d \in Deltas : d <= m)

VARIABLES
    counter,   \* buffer of wg.counter: <<>> or <<count>>
    runner,    \* wg.runner: 0 (nil) or a generation number
    gens,      \* number of generation channels made so far
    closed,    \* the generations that have been closed
    cnt,       \* cnt[p]: Add's local `count`, or Done's local `delta`
    arg,       \* arg[p]: the delta of p's Add call
    pending,   \* pending[p]: units worker p still has to give back
    rounds,    \* rounds[p]: Add rounds worker p has started
    calls,     \* calls[w]: Wait calls waiter w has made
    wgen,      \* wgen[w]: the generation waiter w read at line 53
    zeroSeen,  \* zeroSeen[w]: the count was 0 at some point of w's Wait call
    aborted,   \* a "negative WaitGroup counter" panic ended the program
    pc

vars == <<counter, runner, gens, closed, cnt, arg, pending, rounds, calls,
          wgen, zeroSeen, aborted, pc>>

Procs == Workers \cup Waiters

TypeOK ==
    /\ counter \in {<<>>} \cup {<<n>> : n \in 0..MaxCount}
    /\ runner \in 0..gens
    /\ closed \subseteq 1..gens
    /\ cnt \in [Workers -> -1..MaxCount]
    /\ arg \in [Workers -> {-1} \cup Deltas]
    /\ pending \in [Workers -> 0..MaxCount]
    /\ rounds \in [Workers -> 0..Rounds]
    /\ calls \in [Waiters -> 0..WaitCalls]
    /\ wgen \in [Waiters -> 0..gens]
    /\ zeroSeen \in [Waiters -> BOOLEAN]
    /\ aborted \in BOOLEAN
    /\ pc \in [Procs -> {"idle", "add_send", "done_send",
                         "w_check", "w_read", "w_recv"}]

Init ==
    /\ counter = <<0>>
    /\ runner = 0
    /\ gens = 0
    /\ closed = {}
    /\ cnt = [p \in Workers |-> 0]
    /\ arg = [p \in Workers |-> 1]
    /\ pending = [p \in Workers |-> 0]
    /\ rounds = [p \in Workers |-> 0]
    /\ calls = [w \in Waiters |-> 0]
    /\ wgen = [w \in Waiters |-> 0]
    /\ zeroSeen = [w \in Waiters |-> FALSE]
    /\ aborted = FALSE
    /\ pc = [p \in Procs |-> "idle"]

\* The goroutine holding the count between its receive and its send.
Holder == CHOOSE p \in Workers : pc[p] \in {"add_send", "done_send"}

\* The count as the program stands: in the channel, or the holder's local
\* (Add's `count` before its send, Done's new `delta` once computed; a
\* negative delta stands for the 0 that addDelta puts back).
Count == IF counter # <<>> THEN Head(counter)
         ELSE IF cnt[Holder] < 0 THEN 0 ELSE cnt[Holder]

-----------------------------------------------------------------------------
\* zeroSeen is a history variable: each step records, for each call of Wait
\* in progress, whether the count has been 0 since the call.
RecordZero ==
    zeroSeen' = [w \in Waiters |->
                   IF pc[w] = "idle" THEN Count' = 0 ELSE zeroSeen[w] \/ Count' = 0]

\* Mutants: Add that never makes a new generation, or makes one every time.
newRunnerNever(count) == UNCHANGED <<runner, gens>>
newRunnerAlways(count) == runner' = gens + 1 /\ gens' = gens + 1

\* Add(d), up to its deferred addDelta: count := <-wg.counter, and a new
\* generation channel when the count was 0.
newRunner(count) ==
    IF count = 0 THEN runner' = gens + 1 /\ gens' = gens + 1
                 ELSE UNCHANGED <<runner, gens>>

Add(p, d) ==
    /\ ~aborted
    /\ pc[p] = "idle"
    /\ counter # <<>>
    /\ cnt' = [cnt EXCEPT ![p] = Head(counter)]
    /\ arg' = [arg EXCEPT ![p] = d]
    /\ counter' = <<>>
    /\ newRunner(Head(counter))
    /\ pc' = [pc EXCEPT ![p] = "add_send"]
    /\ UNCHANGED <<closed, pending, calls, wgen, aborted>>
    /\ RecordZero

\* A worker starts a round with Add(d).
AddRound(p) ==
    /\ pending[p] = 0 /\ rounds[p] < Rounds
    /\ rounds' = [rounds EXCEPT ![p] = @ + 1]
    /\ \E d \in Deltas : Add(p, d)

\* A worker gives a unit back by Add(-1).
AddNeg(p) ==
    /\ pending[p] > 0
    /\ Add(p, -1)
    /\ UNCHANGED rounds

\* addDelta(count + delta) for Add, or addDelta(delta) for Done, when the
\* value is not negative: wg.counter <- value.
addDelta(p) ==
    LET v == IF pc[p] = "add_send" THEN cnt[p] + arg[p] ELSE cnt[p] IN
    /\ pc[p] \in {"add_send", "done_send"}
    /\ v >= 0
    /\ counter' = <<v>>
    /\ pending' = [pending EXCEPT ![p] =
                     IF pc[p] = "add_send" /\ arg[p] > 0 THEN arg[p]
                     ELSE IF @ > 0 THEN @ - 1 ELSE 0]
    /\ pc' = [pc EXCEPT ![p] = "idle"]
    /\ UNCHANGED <<runner, gens, closed, cnt, arg, rounds, calls, wgen, aborted>>
    /\ RecordZero

\* addDelta with a negative value: wg.counter <- 0; wg.runner = nil;
\* panic("negative WaitGroup counter"), which ends the program.
addDeltaPanic(p) ==
    LET v == IF pc[p] = "add_send" THEN cnt[p] + arg[p] ELSE cnt[p] IN
    /\ pc[p] \in {"add_send", "done_send"}
    /\ v < 0
    /\ counter' = <<0>>
    /\ runner' = 0
    /\ aborted' = TRUE
    /\ pc' = [pc EXCEPT ![p] = "idle"]
    /\ UNCHANGED <<gens, closed, cnt, arg, pending, rounds, calls, wgen>>
    /\ RecordZero

\* Mutant: Done that never closes the generation.
DoneNoClose(p) ==
    /\ ~aborted
    /\ pc[p] = "idle"
    /\ pending[p] > 0 \/ Overrelease
    /\ counter # <<>>
    /\ cnt' = [cnt EXCEPT ![p] = Head(counter) - 1]
    /\ counter' = <<>>
    /\ closed' = closed
    /\ pc' = [pc EXCEPT ![p] = "done_send"]
    /\ UNCHANGED <<runner, gens, arg, pending, rounds, calls, wgen, aborted>>
    /\ RecordZero

\* Mutant: Done that puts the count back without subtracting one.
DoneNoDecrement(p) ==
    /\ ~aborted
    /\ pc[p] = "idle"
    /\ pending[p] > 0 \/ Overrelease
    /\ counter # <<>>
    /\ cnt' = [cnt EXCEPT ![p] = Head(counter)]
    /\ counter' = <<>>
    /\ closed' = IF Head(counter) = 0 THEN closed \cup {runner} ELSE closed
    /\ pc' = [pc EXCEPT ![p] = "done_send"]
    /\ UNCHANGED <<runner, gens, arg, pending, rounds, calls, wgen, aborted>>
    /\ RecordZero

\* Done(): delta := <-wg.counter - 1; close(wg.runner) when delta == 0.
Done(p) ==
    /\ ~aborted
    /\ pc[p] = "idle"
    /\ pending[p] > 0 \/ Overrelease
    /\ counter # <<>>
    /\ cnt' = [cnt EXCEPT ![p] = Head(counter) - 1]
    /\ counter' = <<>>
    /\ closed' = IF Head(counter) - 1 = 0 THEN closed \cup {runner} ELSE closed
    /\ pc' = [pc EXCEPT ![p] = "done_send"]
    /\ UNCHANGED <<runner, gens, arg, pending, rounds, calls, wgen, aborted>>
    /\ RecordZero

\* Wait() called.
CallWait(w) ==
    /\ ~aborted
    /\ pc[w] = "idle" /\ calls[w] < WaitCalls
    /\ calls' = [calls EXCEPT ![w] = @ + 1]
    /\ pc' = [pc EXCEPT ![w] = "w_check"]
    /\ UNCHANGED <<counter, runner, gens, closed, cnt, arg, pending, rounds, wgen, aborted>>
    /\ RecordZero

\* Line 50: if wg.runner == nil { return } (an unsynchronised read).
WaitCheck(w) ==
    /\ pc[w] = "w_check"
    /\ pc' = [pc EXCEPT ![w] = IF runner = 0 THEN "idle" ELSE "w_read"]
    /\ UNCHANGED <<counter, runner, gens, closed, cnt, arg, pending, rounds, calls, wgen, aborted>>
    /\ RecordZero

\* Line 53 reads wg.runner again, then blocks on the channel it read.
WaitRead(w) ==
    /\ pc[w] = "w_read"
    /\ wgen' = [wgen EXCEPT ![w] = runner]
    /\ pc' = [pc EXCEPT ![w] = "w_recv"]
    /\ UNCHANGED <<counter, runner, gens, closed, cnt, arg, pending, rounds, calls, aborted>>
    /\ RecordZero

\* <-runner returns once that generation is closed (never, for nil).
WaitRecv(w) ==
    /\ pc[w] = "w_recv"
    /\ wgen[w] \in closed
    /\ pc' = [pc EXCEPT ![w] = "idle"]
    /\ UNCHANGED <<counter, runner, gens, closed, cnt, arg, pending, rounds, calls, wgen, aborted>>
    /\ RecordZero

\* Every goroutine has run its script, or the program panicked.
Terminated ==
    /\ \/ aborted
       \/ /\ \A p \in Workers : pc[p] = "idle" /\ pending[p] = 0 /\ rounds[p] = Rounds
          /\ \A w \in Waiters : pc[w] = "idle" /\ calls[w] = WaitCalls
    /\ UNCHANGED vars

Step ==
    \/ \E p \in Workers :
          AddRound(p) \/ Done(p) \/ addDelta(p) \/ addDeltaPanic(p)
    \/ \E w \in Waiters : CallWait(w) \/ WaitCheck(w) \/ WaitRead(w) \/ WaitRecv(w)

Next == Step \/ Terminated

(***************************************************************************)
(* Fairness.  A worker that has units outstanding gives them back (the     *)
(* usage contract of a WaitGroup), and every goroutine inside a call keeps *)
(* running; a receive on wg.counter enabled infinitely often is taken.     *)
(* Starting a round or calling Wait is up to the goroutine.                *)
(***************************************************************************)
Release(p) == pending[p] > 0 /\ Done(p)

Fairness ==
    /\ \A p \in Workers :
          /\ SF_vars((Release(p)))
          /\ WF_vars((addDelta(p))) /\ WF_vars((addDeltaPanic(p)))
    /\ \A w \in Waiters :
          WF_vars((WaitCheck(w))) /\ WF_vars((WaitRead(w))) /\ WF_vars((WaitRecv(w)))

Spec == Init /\ [][Next]_vars /\ Fairness

\* Workers that give units back with Add(-1) as well as Done(), which the
\* contract allows (Done is Add(-1)).
NextNegAdd == Next \/ \E p \in Workers : AddNeg(p)

SpecNegAdd == Init /\ [][NextNegAdd]_vars

-----------------------------------------------------------------------------
InWait(w) == pc[w] \in {"w_check", "w_read", "w_recv"}

\* Wait does not return early: a call of Wait returns only if the count was
\* 0 at some moment since the call (for `Add(3)`, three Done, Wait: not
\* before the third Done).  Depends on Add making the new generation
\* before it sends the count back, and on Done closing exactly at 0.
WaitNotEarly ==
    [][\A w \in Waiters : InWait(w) /\ pc'[w] = "idle" => zeroSeen[w]]_vars

\* Whenever no Add or Done is in progress, a generation is still open only
\* if it is the current runner and the count is positive: no waiter can be
\* left blocked on a generation that nobody will close.
GenerationOpenOnlyWhileBusy ==
    counter # <<>> =>
        \A g \in (1..gens) \ closed : g = runner /\ Head(counter) > 0

\* Every call of Wait returns (unless the program panicked), once the
\* workers have given back what they added.
WaitReturns == \A w \in Waiters : InWait(w) ~> (pc[w] = "idle" \/ aborted)
=============================================================================
