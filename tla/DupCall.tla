------------------------------- MODULE DupCall -------------------------------
(***************************************************************************)
(* dupcall.Call (src/dupcall/dupcall.go).  Do = runOnce; waitForCompletion.*)
(* runOnce, under o.mu, makes o.ch and starts the detached goroutine       *)
(* `start` when o.ch is nil.  start runs cb(ctx) with the context of the   *)
(* caller that made the round and stores the result in o.resources/o.err  *)
(* without o.mu, then closeChannel closes o.ch and sets it to nil under    *)
(* o.mu.  waitForCompletion reads o.ch under o.mu, selects on it and on    *)
(* its own ctx.Done(), and reads the result under o.mu.                   *)
(*                                                                         *)
(* Every section under o.mu is short and never blocks, so each is one      *)
(* step.  Rounds are numbered 1, 2, ...; o.ch is the number of the round's *)
(* channel, 0 for nil.  A context is the pair <<caller, call number>>; it  *)
(* may be canceled while or after the call runs (the usual defer cancel()).*)
(***************************************************************************)
EXTENDS Naturals, FiniteSets

CONSTANTS
    Callers,     \* goroutines calling Do on one Call
    Calls,       \* Do calls per caller
    CanCancel    \* callers' contexts may be canceled

ASSUME Calls \in Nat /\ CanCancel \in BOOLEAN

MaxRounds == Cardinality(Callers) * Calls
Rounds == 1..MaxRounds
Ctxs == Callers \X (1..Calls)

\* A result: the round whose cb produced it, its error, and the context cb
\* ran with.  NoResult is the zero value of o.resources/o.err.
Errs == {"none", "canceled"}
Results == [round : 0..MaxRounds, err : Errs, ctx : Ctxs \cup {<<>>}]
NoResult == [round |-> 0, err |-> "none", ctx |-> <<>>]

VARIABLES
    ch,        \* o.ch: 0 (nil) or the open round's number
    gen,       \* rounds made so far
    closed,    \* closed round channels
    res,       \* o.resources, o.err
    rctx,      \* rctx[r]: the context round r's cb runs with
    spc,       \* spc[r]: where round r's detached goroutine is
    calls,     \* Do calls made by each caller
    canceled,  \* canceled contexts
    nch,       \* nch[p]: the o.ch that waitForCompletion read
    got,       \* got[p]: what p's last Do returned
    pc

vars == <<ch, gen, closed, res, rctx, spc, calls, canceled, nch, got, pc>>

\* What Do returns when ctx.Done() wins the select: nil, ctx.Err().
CtxErr(p) == [round |-> 0, err |-> "canceled", ctx |-> <<p, calls[p]>>]

TypeOK ==
    /\ ch \in 0..MaxRounds /\ gen \in 0..MaxRounds /\ closed \subseteq Rounds
    /\ res \in Results
    /\ rctx \in [Rounds -> Ctxs \cup {<<>>}]
    /\ spc \in [Rounds -> {"none", "cb", "close", "done"}]
    /\ calls \in [Callers -> 0..Calls]
    /\ canceled \subseteq Ctxs
    /\ nch \in [Callers -> 0..MaxRounds]
    /\ got \in [Callers -> Results]
    /\ pc \in [Callers -> {"idle", "run", "read", "wait", "get"}]

Init ==
    /\ ch = 0 /\ gen = 0 /\ closed = {}
    /\ res = NoResult
    /\ rctx = [r \in Rounds |-> <<>>]
    /\ spc = [r \in Rounds |-> "none"]
    /\ calls = [p \in Callers |-> 0]
    /\ canceled = {}
    /\ nch = [p \in Callers |-> 0]
    /\ got = [p \in Callers |-> NoResult]
    /\ pc = [p \in Callers |-> "idle"]

Ctx(p) == <<p, calls[p]>>

CallDo(p) ==
    /\ pc[p] = "idle" /\ calls[p] < Calls
    /\ calls' = [calls EXCEPT ![p] = @ + 1]
    /\ pc' = [pc EXCEPT ![p] = "run"]
    /\ UNCHANGED <<ch, gen, closed, res, rctx, spc, canceled, nch, got>>

\* Mutant: runOnce that starts a round without looking at o.ch.
runOnceNoCheck(p) ==
    /\ pc[p] = "run"
    /\ ch' = gen + 1 /\ gen' = gen + 1
    /\ rctx' = [rctx EXCEPT ![gen + 1] = Ctx(p)]
    /\ spc' = [spc EXCEPT ![gen + 1] = "cb"]
    /\ pc' = [pc EXCEPT ![p] = "read"]
    /\ UNCHANGED <<closed, res, calls, canceled, nch, got>>

\* runOnce: if o.ch == nil { o.ch = make(chan struct{}); go o.start(ctx, cb) }
runOnce(p) ==
    /\ pc[p] = "run"
    /\ IF ch = 0
         THEN /\ ch' = gen + 1 /\ gen' = gen + 1
              /\ rctx' = [rctx EXCEPT ![gen + 1] = Ctx(p)]
              /\ spc' = [spc EXCEPT ![gen + 1] = "cb"]
         ELSE UNCHANGED <<ch, gen, rctx, spc>>
    /\ pc' = [pc EXCEPT ![p] = "read"]
    /\ UNCHANGED <<closed, res, calls, canceled, nch, got>>

\* waitForCompletion: nch := o.ch, under o.mu.
ReadCh(p) ==
    /\ pc[p] = "read"
    /\ nch' = [nch EXCEPT ![p] = ch]
    /\ pc' = [pc EXCEPT ![p] = "wait"]
    /\ UNCHANGED <<ch, gen, closed, res, rctx, spc, calls, canceled, got>>

\* select, case <-nch: the round's channel is closed (never, for nil).
WaitClosed(p) ==
    /\ pc[p] = "wait"
    /\ nch[p] \in closed
    /\ pc' = [pc EXCEPT ![p] = "get"]
    /\ UNCHANGED <<ch, gen, closed, res, rctx, spc, calls, canceled, nch, got>>

\* select, case <-ctx.Done(): return nil, ctx.Err().
WaitCanceled(p) ==
    /\ pc[p] = "wait"
    /\ Ctx(p) \in canceled
    /\ got' = [got EXCEPT ![p] = CtxErr(p)]
    /\ pc' = [pc EXCEPT ![p] = "idle"]
    /\ UNCHANGED <<ch, gen, closed, res, rctx, spc, calls, canceled, nch>>

\* return o.resources, o.err, under o.mu.
GetResult(p) ==
    /\ pc[p] = "get"
    /\ got' = [got EXCEPT ![p] = res]
    /\ pc' = [pc EXCEPT ![p] = "idle"]
    /\ UNCHANGED <<ch, gen, closed, res, rctx, spc, calls, canceled, nch>>

\* The caller's context is canceled (its deadline passes, or its deferred
\* cancel runs after Do returned).
Cancel(p) ==
    /\ CanCancel
    /\ calls[p] > 0 /\ Ctx(p) \notin canceled
    /\ canceled' = canceled \cup {Ctx(p)}
    /\ UNCHANGED <<ch, gen, closed, res, rctx, spc, calls, nch, got, pc>>

\* start: o.resources, o.err = cb(ctx), written without o.mu.  A cb whose
\* context is canceled may return its error or finish anyway.
CbReturns(r) ==
    /\ spc[r] = "cb"
    /\ \E e \in IF rctx[r] \in canceled THEN Errs ELSE {"none"} :
          res' = [round |-> r, err |-> e, ctx |-> rctx[r]]
    /\ spc' = [spc EXCEPT ![r] = "close"]
    /\ UNCHANGED <<ch, gen, closed, rctx, calls, canceled, nch, got, pc>>

\* Mutant: closeChannel that sets o.ch to nil without closing it.
closeChannelNoClose(r) ==
    /\ spc[r] = "close"
    /\ IF ch # 0 THEN ch' = 0 ELSE UNCHANGED ch
    /\ spc' = [spc EXCEPT ![r] = "done"]
    /\ UNCHANGED <<gen, closed, res, rctx, calls, canceled, nch, got, pc>>

\* closeChannel, under o.mu: if o.ch != nil { close(o.ch); o.ch = nil }
closeChannel(r) ==
    /\ spc[r] = "close"
    /\ IF ch # 0 THEN closed' = closed \cup {ch} /\ ch' = 0
                 ELSE UNCHANGED <<ch, closed>>
    /\ spc' = [spc EXCEPT ![r] = "done"]
    /\ UNCHANGED <<gen, res, rctx, calls, canceled, nch, got, pc>>

\* Every caller has made all its calls and every round has finished.
Terminated ==
    /\ \A p \in Callers : pc[p] = "idle" /\ calls[p] = Calls
    /\ \A r \in Rounds : spc[r] \in {"none", "done"}
    /\ UNCHANGED vars

CallerStep(p) ==
    runOnce(p) \/ ReadCh(p) \/ WaitClosed(p) \/ WaitCanceled(p) \/ GetResult(p)

Next ==
    \/ \E p \in Callers : CallDo(p) \/ Cancel(p) \/ CallerStep(p)
    \/ \E r \in Rounds : CbReturns(r) \/ closeChannel(r)
    \/ Terminated

(***************************************************************************)
(* Fairness: the callers and the detached goroutines keep running once     *)
(* inside the code; none of their steps waits on a lock for long (o.mu     *)
(* guards only short sections).  Calling Do and canceling a context are    *)
(* up to the caller.                                                       *)
(***************************************************************************)
Fairness ==
    /\ \A p \in Callers : WF_vars(CallerStep(p))
    /\ \A r \in Rounds : WF_vars(CbReturns(r)) /\ WF_vars(closeChannel(r))

Spec == Init /\ [][Next]_vars /\ Fairness

-----------------------------------------------------------------------------
InDo(p) == pc[p] # "idle"

\* Deduplication (spec.md 4.6): at most one cb runs at a time, and it is
\* the cb of the round o.ch names: runOnce starts a round only when o.ch is
\* nil, and o.ch is reset only after the round's cb returned.
AtMostOneInFlight ==
    \A r \in Rounds : spc[r] = "cb" => ch = r

\* A caller that read a channel from o.ch returns from Do, whether or not
\* its context is ever canceled: the round closes that channel.
JoinedReturns ==
    \A p \in Callers : (pc[p] = "wait" /\ nch[p] # 0) ~> pc[p] = "idle"

\* Every Do returns; with contexts that are never canceled, it returns
\* the result of a round.
DoReturns == \A p \in Callers : InDo(p) ~> ~InDo(p)

====
