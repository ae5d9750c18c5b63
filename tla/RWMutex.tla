------------------------------ MODULE RWMutex ------------------------------
(***************************************************************************)
(* rwmutex.RWMutex (src/rwmutex/rwmutex.go): a reader/writer lock built    *)
(* from two capacity-1 channels.  `reader` carries the reader count, so    *)
(* RLock/RUnlock serialise on it by receive-then-send; `writer` carries the *)
(* single token that a writer, or the group of readers, holds.  Every      *)
(* channel operation is one atomic step; the lines between two channel     *)
(* operations touch only goroutine-local state.                            *)
(***************************************************************************)
EXTENDS Naturals, Sequences, FiniteSets

CONSTANT Procs          \* goroutines that use one RWMutex

VARIABLES
    reader,   \* buffer of rw.reader: <<>> or <<count>>
    writer,   \* number of tokens ("239") in the buffer of rw.writer, 0 or 1
    cnt,      \* cnt[p]: the local `counter` of RLock/RUnlock
    pc        \* pc[p]: where goroutine p is

vars == <<reader, writer, cnt, pc>>

PCs == {"idle", "rl_reader", "rl_writer", "rl_send", "reading",
        "ru_writer", "ru_send", "l_writer", "writing"}

TypeOK ==
    /\ reader \in {<<>>} \cup {<<n>> : n \in 0..Cardinality(Procs)}
    /\ writer \in 0..1
    /\ cnt \in [Procs -> 0..Cardinality(Procs)]
    /\ pc \in [Procs -> PCs]

\* New(): both channels pre-loaded.
Init ==
    /\ reader = <<0>>
    /\ writer = 1
    /\ cnt = [p \in Procs |-> 0]
    /\ pc = [p \in Procs |-> "idle"]

\* The goroutine's own code decides to call RLock or Lock; nothing obliges it.
CallRLock(p) ==
    /\ pc[p] = "idle"
    /\ pc' = [pc EXCEPT ![p] = "rl_reader"]
    /\ UNCHANGED <<reader, writer, cnt>>

CallLock(p) ==
    /\ pc[p] = "idle"
    /\ pc' = [pc EXCEPT ![p] = "l_writer"]
    /\ UNCHANGED <<reader, writer, cnt>>

\* Mutant: RLock that never takes the writer token.
RLockRecvReaderNoWriter(p) ==
    /\ pc[p] = "rl_reader"
    /\ reader # <<>>
    /\ cnt' = [cnt EXCEPT ![p] = Head(reader)]
    /\ reader' = <<>>
    /\ pc' = [pc EXCEPT ![p] = "rl_send"]
    /\ UNCHANGED writer

\* RLock: counter := <-rw.reader; if counter == 0 go on to take the writer token.
RLockRecvReader(p) ==
    /\ pc[p] = "rl_reader"
    /\ reader # <<>>
    /\ cnt' = [cnt EXCEPT ![p] = Head(reader)]
    /\ reader' = <<>>
    /\ pc' = [pc EXCEPT ![p] = IF Head(reader) = 0 THEN "rl_writer" ELSE "rl_send"]
    /\ UNCHANGED writer

\* RLock: <-rw.writer, for the first reader only.
RLockRecvWriter(p) ==
    /\ pc[p] = "rl_writer"
    /\ writer = 1
    /\ writer' = 0
    /\ pc' = [pc EXCEPT ![p] = "rl_send"]
    /\ UNCHANGED <<reader, cnt>>

\* RLock: rw.reader <- counter + 1; RLock returns.
RLockSend(p) ==
    /\ pc[p] = "rl_send"
    /\ reader = <<>>
    /\ reader' = <<cnt[p] + 1>>
    /\ pc' = [pc EXCEPT ![p] = "reading"]
    /\ UNCHANGED <<writer, cnt>>

\* Mutant: RUnlock that tests counter == 0 instead of counter == 1.
RUnlockRecvReaderAtZero(p) ==
    /\ pc[p] = "reading"
    /\ reader # <<>>
    /\ cnt' = [cnt EXCEPT ![p] = Head(reader)]
    /\ reader' = <<>>
    /\ pc' = [pc EXCEPT ![p] = IF Head(reader) = 0 THEN "ru_writer" ELSE "ru_send"]
    /\ UNCHANGED writer

\* RUnlock: counter := <-rw.reader; the last reader returns the writer token.
RUnlockRecvReader(p) ==
    /\ pc[p] = "reading"
    /\ reader # <<>>
    /\ cnt' = [cnt EXCEPT ![p] = Head(reader)]
    /\ reader' = <<>>
    /\ pc' = [pc EXCEPT ![p] = IF Head(reader) = 1 THEN "ru_writer" ELSE "ru_send"]
    /\ UNCHANGED writer

\* RUnlock: rw.writer <- "239" (blocks while the buffer is full).
RUnlockSendWriter(p) ==
    /\ pc[p] = "ru_writer"
    /\ writer = 0
    /\ writer' = 1
    /\ pc' = [pc EXCEPT ![p] = "ru_send"]
    /\ UNCHANGED <<reader, cnt>>

\* Mutant: RUnlock that puts the count back without decrementing it.
RUnlockSendNoDecrement(p) ==
    /\ pc[p] = "ru_send"
    /\ reader = <<>>
    /\ reader' = <<cnt[p]>>
    /\ pc' = [pc EXCEPT ![p] = "idle"]
    /\ UNCHANGED <<writer, cnt>>

\* RUnlock: rw.reader <- counter - 1; RUnlock returns.
RUnlockSend(p) ==
    /\ pc[p] = "ru_send"
    /\ reader = <<>>
    /\ reader' = <<cnt[p] - 1>>
    /\ pc' = [pc EXCEPT ![p] = "idle"]
    /\ UNCHANGED <<writer, cnt>>

\* Lock: <-rw.writer.
Lock(p) ==
    /\ pc[p] = "l_writer"
    /\ writer = 1
    /\ writer' = 0
    /\ pc' = [pc EXCEPT ![p] = "writing"]
    /\ UNCHANGED <<reader, cnt>>

\* Unlock: rw.writer <- "239".
Unlock(p) ==
    /\ pc[p] = "writing"
    /\ writer = 0
    /\ writer' = 1
    /\ pc' = [pc EXCEPT ![p] = "idle"]
    /\ UNCHANGED <<reader, cnt>>

\* The steps a goroutine takes once it is inside a call.
Step(p) ==
    \/ RLockRecvReader(p) \/ RLockRecvWriter(p) \/ RLockSend(p)
    \/ RUnlockRecvReader(p) \/ RUnlockSendWriter(p) \/ RUnlockSend(p)
    \/ Lock(p) \/ Unlock(p)

Next == \E p \in Procs : CallRLock(p) \/ CallLock(p) \/ Step(p)

(***************************************************************************)
(* Fairness.  A goroutine blocked on a channel receive is queued on the     *)
(* channel and handed the next value sent (runtime recvq), so a receive     *)
(* that is enabled infinitely often is eventually taken: strong fairness   *)
(* of each goroutine's steps.  Calling RLock/Lock at all is up to the user. *)
(***************************************************************************)
Fairness == \A p \in Procs : SF_vars(Step(p))

Spec == Init /\ [][Next]_vars /\ Fairness

-----------------------------------------------------------------------------
Reading == {p \in Procs : pc[p] = "reading"}
Writing == {p \in Procs : pc[p] = "writing"}

\* When no RLock/RUnlock is between its receive and its send, the count in
\* rw.reader is exactly the number of goroutines that returned from RLock and
\* have not yet called RUnlock: the read-modify-write through the channel
\* never loses or double-counts a reader.
ReaderCountMatches ==
    reader # <<>> => Head(reader) = Cardinality(Reading)

\* RWMutex implements the abstract reader/writer lock: a goroutine is a
\* reader of RWLock from the return of RLock to the call of RUnlock, and the
\* writer from the return of Lock to the call of Unlock.
Abstract == INSTANCE RWLock WITH readers <- Reading, writers <- Writing

ImplementsRWLock == Abstract!Spec

\* A goroutine that calls RLock eventually returns from it, even while
\* writers and other readers keep using the lock.  (Writers have no such
\* guarantee: overlapping readers can keep the token forever.)
ReaderProgress == \A p \in Procs : pc[p] = "rl_reader" ~> pc[p] = "reading"
=============================================================================
