-------------------------------- MODULE Cond --------------------------------
(***************************************************************************)
(* cond.Cond (src/cond/cond.go), with the client that the condition-       *)
(* variable contract is written for.  Wait makes a fresh channel of        *)
(* capacity 1, puts it on the admission queue c.chin (capacity 1000),      *)
(* unlocks L, receives from its channel and, deferred, locks L again.     *)
(* sendSignal takes one channel off c.chin without blocking and sends to  *)
(* it without blocking; Broadcast repeats sendSignal until the queue is   *)
(* empty.  A waiter's channel is named by the waiter: it is made fresh by *)
(* each Wait and is on the queue at most once.                             *)
(*                                                                         *)
(* The client: a consumer locks L, waits while items = 0, takes an item   *)
(* and unlocks; a producer locks L, adds an item and calls Signal or      *)
(* Broadcast, before unlocking (NotifyHoldsL) or after it.                *)
(***************************************************************************)
EXTENDS Naturals, Sequences, SequencesExt

CONSTANTS
    Consumers, Producers,  \* client goroutines
    Consume, Produce,      \* items each consumer takes / each producer adds
    ChinCap,               \* capacity of c.chin (1000 in New)
    NotifyHoldsL,          \* producers call Signal/Broadcast while holding L
    NoProc

Procs == Consumers \cup Producers

ASSUME /\ Consumers \cap Producers = {} /\ NoProc \notin Procs
       /\ Consume \in Nat /\ Produce \in Nat /\ ChinCap \in Nat \ {0}
       /\ NotifyHoldsL \in BOOLEAN

VARIABLES
    holder,    \* the goroutine holding L, or NoProc
    items,     \* the client's predicate state, guarded by L
    chin,      \* c.chin: the queued waiters' channels, oldest first
    tok,       \* tok[w]: the value buffered in w's current channel (0..1)
    produced, consumed,
    pc

vars == <<holder, items, chin, tok, produced, consumed, pc>>

PCs == {"idle", "c_lock", "c_check", "w_chan", "w_recv", "w_lock",
        "p_lock", "p_notify", "bc", "p_unlock", "done"}

TypeOK ==
    /\ holder \in Procs \cup {NoProc}
    /\ items \in Nat
    /\ chin \in Seq(Consumers) /\ Len(chin) <= ChinCap
    /\ tok \in [Consumers -> 0..1]
    /\ pc \in [Procs -> PCs]

Init ==
    /\ holder = NoProc
    /\ items = 0
    /\ chin = <<>>
    /\ tok = [c \in Consumers |-> 0]
    /\ produced = [p \in Producers |-> 0]
    /\ consumed = [c \in Consumers |-> 0]
    /\ pc = [q \in Procs |-> "idle"]

Lock(q, next) ==
    /\ holder = NoProc
    /\ holder' = q
    /\ pc' = [pc EXCEPT ![q] = next]

Unlock(q, next) ==
    /\ holder' = NoProc
    /\ pc' = [pc EXCEPT ![q] = next]

-----------------------------------------------------------------------------
(* Consumer: L.Lock(); for items == 0 { c.Wait() }; items--; L.Unlock()    *)

ConsumerStart(c) ==
    /\ pc[c] = "idle" /\ consumed[c] < Consume
    /\ pc' = [pc EXCEPT ![c] = "c_lock"]
    /\ UNCHANGED <<holder, items, chin, tok, produced, consumed>>

ConsumerLock(c) ==
    /\ pc[c] = "c_lock"
    /\ Lock(c, "c_check")
    /\ UNCHANGED <<items, chin, tok, produced, consumed>>

\* The predicate holds: take an item and unlock.
ConsumerTake(c) ==
    /\ pc[c] = "c_check" /\ items > 0
    /\ items' = items - 1
    /\ consumed' = [consumed EXCEPT ![c] = @ + 1]
    /\ Unlock(c, IF consumed[c] + 1 = Consume THEN "done" ELSE "idle")
    /\ UNCHANGED <<chin, tok, produced>>

\* Mutant: Wait that never calls c.L.Unlock().
WaitParkNoUnlock(c) ==
    /\ pc[c] = "c_check" /\ items = 0
    /\ Len(chin) < ChinCap
    /\ chin' = Append(chin, c)
    /\ tok' = [tok EXCEPT ![c] = 0]
    /\ pc' = [pc EXCEPT ![c] = "w_chan"]
    /\ UNCHANGED <<holder, items, produced, consumed>>

\* Wait: ch := make(chan string, 1); c.chin <- ch (blocks while it is
\* full); c.L.Unlock().  The unlock is merged into the step: releasing L
\* commutes with every step another goroutine can take meanwhile.
WaitPark(c) ==
    /\ pc[c] = "c_check" /\ items = 0
    /\ Len(chin) < ChinCap
    /\ chin' = Append(chin, c)
    /\ tok' = [tok EXCEPT ![c] = 0]
    /\ Unlock(c, "w_chan")
    /\ UNCHANGED <<items, produced, consumed>>

\* Wait: having returned from c.L.Unlock(), the goroutine reaches <-ch.
WaitBlock(c) ==
    /\ pc[c] = "w_chan"
    /\ pc' = [pc EXCEPT ![c] = "w_recv"]
    /\ UNCHANGED <<holder, items, chin, tok, produced, consumed>>

\* Wait: <-ch.
WaitRecv(c) ==
    /\ pc[c] = "w_recv"
    /\ tok[c] = 1
    /\ tok' = [tok EXCEPT ![c] = 0]
    /\ pc' = [pc EXCEPT ![c] = "w_lock"]
    /\ UNCHANGED <<holder, items, chin, produced, consumed>>

\* Wait's deferred c.L.Lock(); back to the client's loop test.
WaitRelock(c) ==
    /\ pc[c] = "w_lock"
    /\ Lock(c, "c_check")
    /\ UNCHANGED <<items, chin, tok, produced, consumed>>

-----------------------------------------------------------------------------
(* Producer: L.Lock(); items++; then c.Signal() or c.Broadcast() and        *)
(* L.Unlock(), in the order NotifyHoldsL says.                             *)

\* Mutant: the waiter's channel made unbuffered; the non-blocking send
\* then succeeds only if the waiter is already blocked in <-ch.
hasNotifiedUnbuffered(w) ==
    tok' = [tok EXCEPT ![w] = IF pc[w] = "w_recv" THEN 1 ELSE @]

\* hasNotified: select { case ch <- "...": default: } on a channel of
\* capacity 1 that nobody else sends to.
hasNotified(w) == tok' = [tok EXCEPT ![w] = 1]

\* What a producer does after notifying, and after its last item.
AfterNotify(p) == IF NotifyHoldsL THEN "p_unlock"
                  ELSE IF produced[p] = Produce THEN "done" ELSE "idle"
AfterUnlock(p) == IF ~NotifyHoldsL THEN "p_notify"
                  ELSE IF produced[p] = Produce THEN "done" ELSE "idle"

ProducerStart(p) ==
    /\ pc[p] = "idle" /\ produced[p] < Produce
    /\ pc' = [pc EXCEPT ![p] = "p_lock"]
    /\ UNCHANGED <<holder, items, chin, tok, produced, consumed>>

ProducerLock(p) ==
    /\ pc[p] = "p_lock"
    /\ Lock(p, IF NotifyHoldsL THEN "p_notify" ELSE "p_unlock")
    /\ items' = items + 1
    /\ produced' = [produced EXCEPT ![p] = @ + 1]
    /\ UNCHANGED <<chin, tok, consumed>>

ProducerUnlock(p) ==
    /\ pc[p] = "p_unlock"
    /\ Unlock(p, AfterUnlock(p))
    /\ UNCHANGED <<items, chin, tok, produced, consumed>>

\* Signal: one sendSignal: case ch := <-c.chin: hasNotified(ch); default.
Signal(p) ==
    /\ pc[p] = "p_notify"
    /\ IF chin # <<>>
         THEN chin' = Tail(chin) /\ hasNotified(Head(chin))
         ELSE UNCHANGED <<chin, tok>>
    /\ pc' = [pc EXCEPT ![p] = AfterNotify(p)]
    /\ UNCHANGED <<holder, items, produced, consumed>>

\* Broadcast called: its loop of sendSignal calls starts.
Broadcast(p) ==
    /\ pc[p] = "p_notify"
    /\ pc' = [pc EXCEPT ![p] = "bc"]
    /\ UNCHANGED <<holder, items, chin, tok, produced, consumed>>

\* Broadcast: a sendSignal that found a channel; flag is true, loop again.
BroadcastSignal(p) ==
    /\ pc[p] = "bc"
    /\ chin # <<>>
    /\ chin' = Tail(chin)
    /\ hasNotified(Head(chin))
    /\ UNCHANGED <<holder, items, produced, consumed, pc>>

\* Broadcast: sendSignal found c.chin empty; flag is false, Broadcast returns.
BroadcastEnd(p) ==
    /\ pc[p] = "bc"
    /\ chin = <<>>
    /\ pc' = [pc EXCEPT ![p] = AfterNotify(p)]
    /\ UNCHANGED <<holder, items, chin, tok, produced, consumed>>

\* Every client goroutine has finished.
Terminated ==
    /\ \A q \in Procs : pc[q] = "done"
    /\ UNCHANGED vars

ConsumerStep(c) ==
    \/ ConsumerLock(c) \/ ConsumerTake(c) \/ WaitPark(c)
    \/ WaitBlock(c) \/ WaitRecv(c) \/ WaitRelock(c)

ProducerStep(p) ==
    \/ ProducerLock(p) \/ ProducerUnlock(p) \/ Signal(p) \/ Broadcast(p)
    \/ BroadcastSignal(p) \/ BroadcastEnd(p)

Next ==
    \/ \E c \in Consumers : ConsumerStart(c) \/ ConsumerStep(c)
    \/ \E p \in Producers : ProducerStart(p) \/ ProducerStep(p)
    \/ Terminated

(***************************************************************************)
(* Fairness.  The client goroutines run their code to the end: every step *)
(* is weakly fair, except taking L, which is strongly fair (L is free     *)
(* only now and then while others compete for it; sync.Mutex hands it to  *)
(* a waiter that has been starving).                                       *)
(***************************************************************************)
Fairness ==
    /\ \A c \in Consumers :
          /\ WF_vars(ConsumerStart(c)) /\ SF_vars(ConsumerLock(c))
          /\ SF_vars(WaitRelock(c))
          /\ WF_vars(ConsumerTake(c) \/ WaitPark(c) \/ WaitBlock(c) \/ WaitRecv(c))
    /\ \A p \in Producers :
          /\ WF_vars(ProducerStart(p)) /\ SF_vars(ProducerLock(p))
          /\ WF_vars(ProducerUnlock(p) \/ Signal(p) \/ Broadcast(p)
                     \/ BroadcastSignal(p) \/ BroadcastEnd(p))

Spec == Init /\ [][Next]_vars /\ Fairness

-----------------------------------------------------------------------------
\* No lost wakeup: a waiter that has unlocked L and has not been notified is
\* still on c.chin, where a later Signal or Broadcast will find it (Wait
\* queues its channel before it unlocks, and the notification is buffered).
NoStrandedWaiter ==
    \A c \in Consumers :
        pc[c] \in {"w_chan", "w_recv"} /\ tok[c] = 0 => c \in ToSet(chin)

\* Every consumer eventually takes all its items: no Wait stays parked
\* while items remain, nobody waits on a lock forever.
AllConsumed == <>(\A c \in Consumers : consumed[c] = Consume)

====
