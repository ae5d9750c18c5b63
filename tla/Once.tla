-------------------------------- MODULE Once --------------------------------
(***************************************************************************)
(* once.Once (src/once/once.go).  `runner` is a capacity-1 channel: the    *)
(* first Do to send into it runs f and closes `done` when f returns (a     *)
(* deferred close, so also when f panics); every other Do blocks in the    *)
(* same select on <-done.  f itself is modelled by its start and its end.  *)
(***************************************************************************)
EXTENDS Naturals, FiniteSets

CONSTANTS
    Procs,      \* goroutines calling Do on one Once
    Calls,      \* Do calls per goroutine
    FPanics     \* f may panic

ASSUME Calls \in Nat /\ FPanics \in BOOLEAN

VARIABLES
    runner,     \* values in the buffer of o.runner, 0 or 1
    done,       \* o.done has been closed
    fRuns,      \* how many times f has been started
    fState,     \* "idle", "running", "returned" or "panicked"
    calls,      \* calls[p]: Do calls p has made
    pc

vars == <<runner, done, fRuns, fState, calls, pc>>

TypeOK ==
    /\ runner \in 0..1
    /\ done \in BOOLEAN
    /\ fRuns \in 0..Cardinality(Procs) * Calls
    /\ fState \in {"idle", "running", "returned", "panicked"}
    /\ calls \in [Procs -> 0..Calls]
    /\ pc \in [Procs -> {"idle", "select", "f", "panicking"}]

Init ==
    /\ runner = 0
    /\ done = FALSE
    /\ fRuns = 0
    /\ fState = "idle"
    /\ calls = [p \in Procs |-> 0]
    /\ pc = [p \in Procs |-> "idle"]

CallDo(p) ==
    /\ pc[p] = "idle" /\ calls[p] < Calls
    /\ calls' = [calls EXCEPT ![p] = @ + 1]
    /\ pc' = [pc EXCEPT ![p] = "select"]
    /\ UNCHANGED <<runner, done, fRuns, fState>>

\* Mutant: close(o.done) before f instead of deferred after it.
AdmitClosingFirst(p) ==
    /\ pc[p] = "select"
    /\ runner = 0
    /\ runner' = 1
    /\ fRuns' = fRuns + 1
    /\ fState' = "running"
    /\ pc' = [pc EXCEPT ![p] = "f"]
    /\ done' = TRUE
    /\ UNCHANGED calls

\* Mutant: o.runner made with a capacity above 1, so its send never blocks.
AdmitAnyCapacity(p) ==
    /\ pc[p] = "select"
    /\ runner' = runner + 1
    /\ fRuns' = fRuns + 1
    /\ fState' = "running"
    /\ pc' = [pc EXCEPT ![p] = "f"]
    /\ UNCHANGED <<done, calls>>

\* case o.runner <- struct{}{}: this Do runs f.
Admit(p) ==
    /\ pc[p] = "select"
    /\ runner = 0
    /\ runner' = 1
    /\ fRuns' = fRuns + 1
    /\ fState' = "running"
    /\ pc' = [pc EXCEPT ![p] = "f"]
    /\ UNCHANGED <<done, calls>>

\* case <-o.done: f has finished; Do returns.
DoneClosed(p) ==
    /\ pc[p] = "select"
    /\ done
    /\ pc' = [pc EXCEPT ![p] = "idle"]
    /\ UNCHANGED <<runner, done, fRuns, fState, calls>>

\* f returns; the deferred close(o.done) runs; Do returns.
FReturns(p) ==
    /\ pc[p] = "f"
    /\ fState' = "returned"
    /\ done' = TRUE
    /\ pc' = [pc EXCEPT ![p] = "idle"]
    /\ UNCHANGED <<runner, fRuns, calls>>

\* Mutant: close(o.done) as a plain statement after f, skipped by a panic.
FPanicNoClose(p) ==
    /\ FPanics
    /\ pc[p] = "f"
    /\ fState' = "panicked"
    /\ pc' = [pc EXCEPT ![p] = "panicking"]
    /\ UNCHANGED <<runner, done, fRuns, calls>>

\* f panics; the deferred close(o.done) still runs; the panic leaves Do.
FPanic(p) ==
    /\ FPanics
    /\ pc[p] = "f"
    /\ fState' = "panicked"
    /\ done' = TRUE
    /\ pc' = [pc EXCEPT ![p] = "panicking"]
    /\ UNCHANGED <<runner, fRuns, calls>>

\* The panicking caller recovers and goes on.
Recover(p) ==
    /\ pc[p] = "panicking"
    /\ pc' = [pc EXCEPT ![p] = "idle"]
    /\ UNCHANGED <<runner, done, fRuns, fState, calls>>

\* Every goroutine has made all its calls.
Terminated ==
    /\ \A p \in Procs : pc[p] = "idle" /\ calls[p] = Calls
    /\ UNCHANGED vars

Next ==
    \/ \E p \in Procs :
          CallDo(p) \/ Admit(p) \/ DoneClosed(p) \/ FReturns(p) \/ FPanic(p) \/ Recover(p)
    \/ Terminated

\* A goroutine in Do keeps running, and f terminates (a non-terminating or
\* re-entrant f is outside the contract).
Fairness ==
    \A p \in Procs :
        WF_vars(Admit(p) \/ DoneClosed(p)) /\ WF_vars(FReturns(p) \/ FPanic(p)) /\ WF_vars(Recover(p))

Spec == Init /\ [][Next]_vars /\ Fairness

-----------------------------------------------------------------------------
\* f is started at most once, however many goroutines call Do how often,
\* and no Do returns normally before f has finished: a caller that did not
\* run f leaves the select only through the closed done channel.
ExactlyOnceBeforeReturn ==
    [][\A p \in Procs :
          pc[p] = "select" /\ pc'[p] = "idle" => fState \in {"returned", "panicked"}]_vars
    /\ [](fRuns <= 1)

\* Every call of Do returns (or panics with f).
DoReturns == \A p \in Procs : pc[p] = "select" ~> pc[p] \in {"idle", "panicking"}
=============================================================================
