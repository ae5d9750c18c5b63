------------------------------ MODULE RateLimit ------------------------------
(***************************************************************************)
(* ratelimit.Limiter (src/ratelimit/ratelimit.go) over a discrete clock.   *)
(* Each of the maxCount slots is a time.Timer: NewTimer(d) is pending until *)
(* the clock reaches its deadline, then the runtime puts a value in its    *)
(* channel C (at that tick or later).  The slice of timers travels through *)
(* the capacity-1 channel l.timeouts, so whoever received it holds it      *)
(* alone: isUpdated, with its deferred send back, is one step.  Acquire    *)
(* probes the slots round-robin in a loop whose select also watches l.stop *)
(* and ctx.Done(); Stop closes l.stop.                                      *)
(***************************************************************************)
EXTENDS Naturals, FiniteSets, Functions

CONSTANTS
    Callers,    \* goroutines calling Acquire
    Calls,      \* Acquire calls per caller
    MaxCount,   \* maxCount of NewLimiter
    Interval,   \* interval of NewLimiter, in ticks
    Horizon,    \* the clock stops here
    CanCancel   \* callers' contexts may be canceled

ASSUME /\ MaxCount \in Nat \ {0} /\ Interval \in Nat \ {0}
       /\ Calls \in Nat /\ Horizon \in Nat /\ CanCancel \in BOOLEAN

Slots == 0..(MaxCount - 1)
Times == 0..Horizon

VARIABLES
    now,        \* the clock
    deadline,   \* deadline[i]: when slot i's current timer fires
    fired,      \* fired[i]: slot i's timer channel holds its value
    stopped,    \* l.stop is closed
    canceled,   \* canceled[p]: the context of p's current call is done
    idx,        \* idx[p]: the slot update's loop probes next
    calls,
    granted,    \* history: granted[t] = Acquire calls that succeeded at t
    pc

vars == <<now, deadline, fired, stopped, canceled, idx, calls, granted, pc>>

TypeOK ==
    /\ now \in Times
    /\ deadline \in [Slots -> 0..(Horizon + Interval)]
    /\ fired \in [Slots -> BOOLEAN]
    /\ stopped \in BOOLEAN
    /\ canceled \in [Callers -> BOOLEAN]
    /\ idx \in [Callers -> Slots]
    /\ calls \in [Callers -> 0..Calls]
    /\ granted \in [Times -> 0..(Cardinality(Callers) * Calls)]
    /\ pc \in [Callers -> {"idle", "acquire", "try", "loop"}]

\* NewLimiter: getTimers makes maxCount timers with NewTimer(0).
Init ==
    /\ now = 0
    /\ deadline = [i \in Slots |-> 0]
    /\ fired = [i \in Slots |-> FALSE]
    /\ stopped = FALSE
    /\ canceled = [p \in Callers |-> FALSE]
    /\ idx = [p \in Callers |-> 0]
    /\ calls = [p \in Callers |-> 0]
    /\ granted = [t \in Times |-> 0]
    /\ pc = [p \in Callers |-> "idle"]

Tick ==
    /\ now < Horizon
    /\ now' = now + 1
    /\ UNCHANGED <<deadline, fired, stopped, canceled, idx, calls, granted, pc>>

\* The runtime sends on a timer's channel once its deadline has passed.
TimerFires(i) ==
    /\ ~fired[i] /\ deadline[i] <= now
    /\ fired' = [fired EXCEPT ![i] = TRUE]
    /\ UNCHANGED <<now, deadline, stopped, canceled, idx, calls, granted, pc>>

Return(p) == pc' = [pc EXCEPT ![p] = "idle"]

CallAcquire(p) ==
    /\ pc[p] = "idle" /\ calls[p] < Calls
    /\ calls' = [calls EXCEPT ![p] = @ + 1]
    /\ canceled' = [canceled EXCEPT ![p] = FALSE]
    /\ pc' = [pc EXCEPT ![p] = "acquire"]
    /\ UNCHANGED <<now, deadline, fired, stopped, idx, granted>>

\* Acquire: select { case <-l.stop: return ErrStopped; default: tryToUpdate }
Acquire(p) ==
    /\ pc[p] = "acquire"
    /\ IF stopped THEN Return(p) ELSE pc' = [pc EXCEPT ![p] = "try"]
    /\ UNCHANGED <<now, deadline, fired, stopped, canceled, idx, calls, granted>>

\* tryToUpdate: select { case <-ctx.Done(): return ctx.Err(); default: update }
tryToUpdate(p) ==
    /\ pc[p] = "try"
    /\ IF canceled[p] THEN Return(p)
                      ELSE pc' = [pc EXCEPT ![p] = "loop"]
    /\ idx' = [idx EXCEPT ![p] = 0]
    /\ UNCHANGED <<now, deadline, fired, stopped, canceled, calls, granted>>

\* Mutant: update's select without the l.stop case.
UpdateStoppedDropped(p) == FALSE

\* update's select, case <-l.stop: return ErrStopped.
UpdateStopped(p) ==
    /\ pc[p] = "loop" /\ stopped
    /\ Return(p)
    /\ UNCHANGED <<now, deadline, fired, stopped, canceled, idx, calls, granted>>

\* update's select, case <-ctx.Done(): return ctx.Err().
UpdateCanceled(p) ==
    /\ pc[p] = "loop" /\ canceled[p]
    /\ Return(p)
    /\ UNCHANGED <<now, deadline, fired, stopped, canceled, idx, calls, granted>>

\* Mutant: the round-robin index advanced without % l.maxCount.
isUpdatedNoWrap(p) ==
    LET i == idx[p] IN
    /\ pc[p] = "loop"
    /\ IF fired[i]
         THEN /\ fired' = [fired EXCEPT ![i] = FALSE]
              /\ deadline' = [deadline EXCEPT ![i] = now + Interval]
              /\ granted' = [granted EXCEPT ![now] = @ + 1]
              /\ Return(p)
              /\ UNCHANGED idx
         ELSE /\ idx' = [idx EXCEPT ![p] = i + 1]
              /\ UNCHANGED <<deadline, fired, granted, pc>>
    /\ UNCHANGED <<now, stopped, canceled, calls>>

\* Mutant: isUpdated that looks at the timer without draining or resetting it.
isUpdatedPeek(p) ==
    LET i == idx[p] IN
    /\ pc[p] = "loop"
    /\ IF fired[i]
         THEN /\ granted' = [granted EXCEPT ![now] = @ + 1]
              /\ Return(p)
              /\ UNCHANGED <<deadline, fired, idx>>
         ELSE /\ idx' = [idx EXCEPT ![p] = (i + 1) % MaxCount]
              /\ UNCHANGED <<deadline, fired, granted, pc>>
    /\ UNCHANGED <<now, stopped, canceled, calls>>

\* update's select, case timeouts := <-l.timeouts: isUpdated(timeouts, i),
\* then the deferred l.timeouts <- timeouts.  case <-timeouts[i].C claims
\* the slot: timeouts[i] = time.NewTimer(l.interval), and Acquire returns
\* nil; default: on to slot (i + 1) % maxCount.
isUpdated(p) ==
    LET i == idx[p] IN
    /\ pc[p] = "loop"
    /\ IF fired[i]
         THEN /\ fired' = [fired EXCEPT ![i] = FALSE]
              /\ deadline' = [deadline EXCEPT ![i] = now + Interval]
              /\ granted' = [granted EXCEPT ![now] = @ + 1]
              /\ Return(p)
              /\ UNCHANGED idx
         ELSE /\ idx' = [idx EXCEPT ![p] = (i + 1) % MaxCount]
              /\ UNCHANGED <<deadline, fired, granted, pc>>
    /\ UNCHANGED <<now, stopped, canceled, calls>>

\* Stop: close(l.stop), called once.
Stop ==
    /\ ~stopped
    /\ stopped' = TRUE
    /\ UNCHANGED <<now, deadline, fired, canceled, idx, calls, granted, pc>>

\* The caller's context is canceled while Acquire runs.
Cancel(p) ==
    /\ CanCancel /\ pc[p] # "idle" /\ ~canceled[p]
    /\ canceled' = [canceled EXCEPT ![p] = TRUE]
    /\ UNCHANGED <<now, deadline, fired, stopped, idx, calls, granted, pc>>

\* Every caller has made all its calls.
Terminated ==
    /\ \A p \in Callers : pc[p] = "idle" /\ calls[p] = Calls
    /\ UNCHANGED vars

Next ==
    \/ Tick \/ Stop \/ \E i \in Slots : TimerFires(i)
    \/ \E p \in Callers :
          \/ CallAcquire(p) \/ Cancel(p) \/ Acquire(p) \/ tryToUpdate(p)
          \/ UpdateStopped(p) \/ UpdateCanceled(p) \/ isUpdated(p)
    \/ Terminated

(***************************************************************************)
(* Fairness.  A caller inside Acquire keeps running, and select chooses    *)
(* uniformly among its ready cases, so a case that stays ready is taken    *)
(* with probability 1: each case is weakly fair on its own.  The clock,   *)
(* Stop and cancellation are not assumed to happen.                        *)
(***************************************************************************)
Fairness ==
    /\ \A i \in Slots : WF_vars(TimerFires(i))
    /\ \A p \in Callers :
          /\ WF_vars(Acquire(p)) /\ WF_vars(tryToUpdate(p))
          /\ WF_vars(UpdateStopped(p)) /\ WF_vars(UpdateCanceled(p))
          /\ WF_vars(isUpdated(p))

Spec == Init /\ [][Next]_vars /\ Fairness

-----------------------------------------------------------------------------
\* Grants in the window of Interval ticks that starts at t.
GrantsIn(t) ==
    FoldFunctionOnSet(LAMBDA x, y : x + y, 0, granted,
                      {u \in Times : t <= u /\ u < t + Interval})

\* Rate bound (spec.md section 8): no more than maxCount Acquire calls
\* succeed in any window of length interval.  A slot is claimed only after
\* its timer fired, and claiming it starts a new timer of length interval.
RateBound == \A t \in Times : GrantsIn(t) <= MaxCount

\* An Acquire in progress returns once Stop has been called or its context
\* is done, however busy the slots are: update's loop selects on both at
\* every iteration.
StopOrCancelReleases ==
    \A p \in Callers :
        (pc[p] # "idle" /\ (stopped \/ canceled[p])) ~> pc[p] = "idle"

====
