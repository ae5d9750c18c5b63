------------------------------- MODULE MCSync -------------------------------
(***************************************************************************)
(* Three primitives that share no state: rwmutex.RWMutex, keylock.KeyLock *)
(* and cond.Cond with its consumer/producer client.  Each behaviour picks  *)
(* one of them in its first state and drives only that one, so one run    *)
(* checks all three and the state space is the sum of the three.          *)
(***************************************************************************)
EXTENDS Naturals, Sequences, Functions

SX == INSTANCE SequencesExt

CONSTANTS p1, p2, p3, c1, c2, q1, nil

VARIABLES
    comp,
    reader, writer, cnt, pc,
    made, ch, keys, idx, cancel, keyPc,
    holder, items, chin, tok, produced, consumed, condPc

rwVars == <<reader, writer, cnt, pc>>
keyVars == <<made, ch, keys, idx, cancel, keyPc>>
condVars == <<holder, items, chin, tok, produced, consumed, condPc>>
vars == <<comp, rwVars, keyVars, condVars>>

\* Three goroutines calling RLock/RUnlock and Lock/Unlock at will.
R == INSTANCE RWMutex WITH Procs <- {p1, p2, p3}

\* Three goroutines locking two keys (named by their sort.Strings rank),
\* each call naming one key or both in either order; no cancellation, and
\* holders unlock.
K == INSTANCE KeyLock
        WITH Procs <- {p1, p2}, Keys <- {1, 2},
             Requests <- {s \in SX!BoundedSeq({1, 2}, 2) : s # <<>> /\ IsInjective(s)},
             CanCancel <- FALSE, NoProc <- nil, pc <- keyPc

\* Two consumers of one item each, one producer of two items, notifying
\* while holding L; the admission queue holds two waiters.
C == INSTANCE Cond
        WITH Consumers <- {c1, c2}, Producers <- {q1}, Consume <- 1,
             Produce <- 2, ChinCap <- 2, NotifyHoldsL <- TRUE, NoProc <- nil,
             pc <- condPc

Comps == {"rwmutex", "keylock", "cond"}

Init == comp \in Comps /\ R!Init /\ K!Init /\ C!Init

\* A step of KeyLock or of Cond, in a behaviour that runs it.
InKeyLock(A) == comp = "keylock" /\ A /\ UNCHANGED <<comp, rwVars, condVars>>
InCond(A) == comp = "cond" /\ A /\ UNCHANGED <<comp, rwVars, keyVars>>

Next ==
    \/ comp = "rwmutex" /\ R!Next /\ UNCHANGED <<comp, keyVars, condVars>>
    \/ InKeyLock(K!Next)
    \/ InCond(C!Next)

\* RWMutex's fair steps are disabled in its initial state, so its fairness
\* constrains only the behaviours that drive it.  The fairness of KeyLock
\* and Cond is stated of their steps in the behaviours that run them.
CondFairness ==
    /\ \A c \in {c1, c2} :
          /\ WF_vars(InCond(C!ConsumerStart(c))) /\ SF_vars(InCond(C!ConsumerLock(c)))
          /\ SF_vars(InCond(C!WaitRelock(c)))
          /\ WF_vars(InCond(C!ConsumerTake(c) \/ C!WaitPark(c) \/ C!WaitBlock(c)
                            \/ C!WaitRecv(c)))
    /\ WF_vars(InCond(C!ProducerStart(q1))) /\ SF_vars(InCond(C!ProducerLock(q1)))
    /\ WF_vars(InCond(C!ProducerUnlock(q1) \/ C!Signal(q1) \/ C!Broadcast(q1)
                      \/ C!BroadcastSignal(q1) \/ C!BroadcastEnd(q1)))

\* KeyLock!Spec's fairness: K!InCallFairness, and holders that unlock.
KeyLockFairness == K!InCallFairness /\ \A p \in {p1, p2} : WF_keyVars(K!Unlock(p))

Spec == Init /\ [][Next]_vars /\ R!Fairness /\ KeyLockFairness /\ CondFairness

TypeOK == comp \in Comps /\ R!TypeOK /\ K!TypeOK

\* See RWMutex: the count in rw.reader is the number of readers.
ReaderCountMatches == R!ReaderCountMatches

\* See RWMutex: RWMutex implements the abstract reader/writer lock.
ImplementsRWLock == R!ImplementsRWLock

\* See RWMutex: every RLock call returns.
ReaderProgress == R!ReaderProgress

\* See KeyLock: KeyLock implements the abstract table of key owners.
ImplementsKeyLockSpec == K!ImplementsKeyLockSpec

\* See KeyLock: every LockKeys call returns.
LockKeysReturns == K!LockKeysReturns

\* See Cond: no waiter is left off c.chin without its notification.
NoStrandedWaiter == C!NoStrandedWaiter

\* See Cond: every consumer gets its items (an eventuality, so it is stated
\* of the behaviours that run Cond).
AllConsumed == comp = "cond" => C!AllConsumed

====
