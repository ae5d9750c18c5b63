------------------------------ MODULE TParallel ------------------------------
(***************************************************************************)
(* tparallel (src/tparallel/tparallel.go): Run starts each top-level test  *)
(* in turn with root.Run; t.Run starts a subtest's runner goroutine and    *)
(* waits on the child's unbuffered `end`; Parallel appends the test to its *)
(* parent's children, sends on its own `end` (so the parent's Run returns) *)
(* and waits for the parent's `stop` to be closed, which the parent's      *)
(* runner does when its body has returned; the runner then receives once   *)
(* from each child's `end` and finishes: a parallel test sends on its      *)
(* parent's `end`, and every test sends on its own.                        *)
(*                                                                         *)
(* Tests are named; a test's body is a script of calls: "par" is           *)
(* t.Parallel(), a test name c is t.Run(c's function).  The body chosen for *)
(* each test comes from Scripts; the root's body is runAll over Top.  Each *)
(* goroutine is named by its test; Root is the goroutine of Run.  A send   *)
(* on an unbuffered channel and the receive that takes it are one step.    *)
(***************************************************************************)
EXTENDS Naturals, Sequences

SX == INSTANCE SequencesExt

CONSTANTS
    Tests,     \* the tests, top-level and sub
    Root,      \* the root T that Run makes
    Parent,    \* Parent[t]: the T whose Run starts t (Root for top tests)
    Top,       \* topTests
    Scripts    \* Scripts[t]: the bodies test t may have

G == Tests \cup {Root}

VARIABLES
    body,       \* body[g]: g's script (runAll over Top for Root)
    pos,        \* pos[g]: the call of the body g is at
    pc,         \* pc[g]: where goroutine g is
    parallel,   \* t.parallel
    children,   \* t.children
    stop,       \* stop[g]: g.stop is closed
    jix,        \* jix[g]: the child runner's join loop waits for
    crashed     \* a goroutine panicked: the process is gone

vars == <<body, pos, pc, parallel, children, stop, jix, crashed>>

PCs == {"new", "body", "runWait", "addSend", "addWait", "join",
        "finishParent", "finishSelf", "exit", "tryWait", "done"}

TypeOK ==
    /\ pc \in [G -> PCs] /\ pos \in [G -> Nat]
    /\ parallel \in [G -> BOOLEAN] /\ stop \in [G -> BOOLEAN]
    /\ children \in [G -> Seq(Tests)] /\ crashed \in BOOLEAN

\* Run(topTests): root := New(nil), then runAll.
Init ==
    /\ body \in {b \in [G -> UNION {Scripts[t] : t \in Tests} \cup {Top}] :
                    b[Root] = Top /\ \A t \in Tests : b[t] \in Scripts[t]}
    /\ pos = [g \in G |-> 1]
    /\ pc = [g \in G |-> IF g = Root THEN "body" ELSE "new"]
    /\ parallel = [g \in G |-> FALSE]
    /\ children = [g \in G |-> <<>>]
    /\ stop = [g \in G |-> FALSE]
    /\ jix = [g \in G |-> 1]
    /\ crashed = FALSE

Op(g) == body[g][pos[g]]
Set(f, g, v) == [f EXCEPT ![g] = v]
Alive == ~crashed

-----------------------------------------------------------------------------
(* A test's body, and runAll for Root.                                     *)

\* Mutant: t.Run starts the child's runner and returns without waiting.
RunNoWait(g) ==
    /\ Alive /\ pc[g] = "body" /\ pos[g] <= Len(body[g]) /\ Op(g) \in Tests
    /\ pc' = [pc EXCEPT ![Op(g)] = "body"] /\ pos' = Set(pos, g, pos[g] + 1)
    /\ UNCHANGED <<body, parallel, children, stop, jix, crashed>>

\* t.Run(subtest): child := New(t); go child.runner(subtest); <-child.end.
Run(g) ==
    /\ Alive /\ pc[g] = "body" /\ pos[g] <= Len(body[g]) /\ Op(g) \in Tests
    /\ pc' = [pc EXCEPT ![g] = "runWait", ![Op(g)] = "body"]
    /\ UNCHANGED <<body, pos, parallel, children, stop, jix, crashed>>

\* t.Parallel(): a second call panics; else add(): parallel, append to
\* the parent's children, then `t.end <- ""`.
Parallel(t) ==
    /\ Alive /\ pc[t] = "body" /\ pos[t] <= Len(body[t]) /\ Op(t) = "par"
    /\ IF parallel[t]
         THEN crashed' = TRUE /\ UNCHANGED <<pc, parallel, children>>
         ELSE /\ parallel' = Set(parallel, t, TRUE)
              /\ children' = Set(children, Parent[t], Append(children[Parent[t]], t))
              /\ pc' = Set(pc, t, "addSend")
              /\ UNCHANGED crashed
    /\ UNCHANGED <<body, pos, stop, jix>>

\* Mutant: add() goes on without waiting for the parent's stop.
AddResumeNoBarrier(t) ==
    /\ Alive /\ pc[t] = "addWait"
    /\ pc' = Set(pc, t, "body") /\ pos' = Set(pos, t, pos[t] + 1)
    /\ UNCHANGED <<body, parallel, children, stop, jix, crashed>>

\* add(): `<-t.parent.stop` returns once the parent closed it.
AddResume(t) ==
    /\ Alive /\ pc[t] = "addWait" /\ stop[Parent[t]]
    /\ pc' = Set(pc, t, "body") /\ pos' = Set(pos, t, pos[t] + 1)
    /\ UNCHANGED <<body, parallel, children, stop, jix, crashed>>

\* finish(): a parallel test first sends on its parent's end.
Finish(t) == IF parallel[t] THEN "finishParent" ELSE "finishSelf"

\* runner, after subtest(t) returns: with children, close(t.stop) and join
\* them; else finish().
RunnerBodyEnd(t) ==
    /\ Alive /\ pc[t] = "body" /\ pos[t] > Len(body[t])
    /\ IF children[t] # <<>>
         THEN pc' = Set(pc, t, "join") /\ stop' = Set(stop, t, TRUE)
         ELSE pc' = Set(pc, t, Finish(t)) /\ UNCHANGED stop
    /\ UNCHANGED <<body, pos, parallel, children, jix, crashed>>

\* The join loop has received from every child's end: finish().
JoinDone(t) ==
    /\ Alive /\ pc[t] = "join" /\ jix[t] > Len(children[t])
    /\ pc' = Set(pc, t, Finish(t))
    /\ UNCHANGED <<body, pos, parallel, children, stop, jix, crashed>>

\* Run, after runAll: close(root.stop), then tryFinish: with children, one
\* receive from root.end.
RunAllEnd ==
    /\ Alive /\ pc[Root] = "body" /\ pos[Root] > Len(body[Root])
    /\ stop' = Set(stop, Root, TRUE)
    /\ pc' = Set(pc, Root, IF children[Root] # <<>> THEN "tryWait" ELSE "done")
    /\ UNCHANGED <<body, pos, parallel, children, jix, crashed>>

-----------------------------------------------------------------------------
(* The unbuffered `end` channels.                                          *)

\* The T whose end g is receiving from, if g is in a receive.
RecvFrom(g) ==
    CASE pc[g] = "runWait" -> Op(g)
      [] pc[g] = "join" /\ jix[g] <= Len(children[g]) -> children[g][jix[g]]
      [] pc[g] = "tryWait" -> Root
      [] OTHER -> "none"

\* The T whose end s is sending on, if s is in a send.
SendTo(s) ==
    CASE pc[s] \in {"addSend", "finishSelf"} -> s
      [] pc[s] = "finishParent" -> Parent[s]
      [] OTHER -> "none"

\* Where a receiver goes once it has received.
AfterRecv(g) ==
    CASE pc[g] = "runWait" -> "body"
      [] pc[g] = "join" -> "join"
      [] pc[g] = "tryWait" -> "done"

\* Where a sender goes once its value is taken.
AfterSend(s) ==
    CASE pc[s] = "addSend" -> "addWait"
      [] pc[s] = "finishParent" -> "finishSelf"
      [] pc[s] = "finishSelf" -> "exit"

\* Receiver g takes the value sender s offers on the same end channel.
Exchange(g, s) ==
    /\ Alive /\ g # s
    /\ RecvFrom(g) # "none" /\ RecvFrom(g) = SendTo(s)
    /\ pc' = [pc EXCEPT ![g] = AfterRecv(g), ![s] = AfterSend(s)]
    /\ pos' = IF pc[g] = "runWait" THEN Set(pos, g, pos[g] + 1) ELSE pos
    /\ jix' = IF pc[g] = "join" THEN Set(jix, g, jix[g] + 1) ELSE jix
    /\ UNCHANGED <<body, parallel, children, stop, crashed>>

\* Run has returned (the process ends), or a panic ended it.
Terminated == (pc[Root] = "done" \/ crashed) /\ UNCHANGED vars

Next ==
    \/ \E g \in G : Run(g)
    \/ \E t \in Tests : Parallel(t) \/ AddResume(t) \/ RunnerBodyEnd(t) \/ JoinDone(t)
    \/ RunAllEnd
    \/ \E g, s \in G : Exchange(g, s)
    \/ Terminated

Spec == Init /\ [][Next]_vars

-----------------------------------------------------------------------------
\* g's body has returned (its runner is past subtest(t), Run past runAll).
BodyOver(g) == pc[g] \in {"join", "finishParent", "finishSelf", "exit", "tryWait", "done"}

\* The barrier of Parallel: a parallel test runs the rest of its body only
\* once its parent's body has returned (add waits on parent.stop, which the
\* parent's runner closes after subtest(t)).
ParallelAfterParentBody ==
    \A t \in Tests : parallel[t] /\ pc[t] \in {"body", "runWait"} => BodyOver(Parent[t])

\* A test that has not called Parallel runs while its parent is blocked in
\* the t.Run that started it, so the sequential subtests of a test run one
\* at a time and never beside their parent's body.
SequentialHoldsParent ==
    \A t \in Tests :
        ~parallel[t] /\ pc[t] \in {"body", "runWait"} =>
            pc[Parent[t]] = "runWait" /\ Op(Parent[t]) = t

\* Run returns only after the body of every test it started has returned,
\* parallel subtests included, as t.Run of package testing does.
RunReturnsAfterTests ==
    pc[Root] = "done" => \A t \in Tests : pc[t] # "new" => BodyOver(t)
====
