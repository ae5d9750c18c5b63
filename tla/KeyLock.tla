------------------------------ MODULE KeyLock ------------------------------
(***************************************************************************)
(* keylock.KeyLock (src/keylock/keylock.go).  Each key has a lazily made   *)
(* capacity-1 channel holding one token; LockKeys sorts its keys and takes *)
(* their tokens one by one, each wait racing the caller's cancel channel.  *)
(* The map is touched only under l.mutex and nothing blocks inside those   *)
(* sections (the sends of releaseChannel are non-blocking), so each of     *)
(* getOrCreateChannel and releaseKeys is one atomic step.                  *)
(***************************************************************************)
EXTENDS Naturals, Sequences, SequencesExt

CONSTANTS
    Procs,            \* goroutines calling LockKeys on one KeyLock
    Keys,             \* key names, ordered as sort.Strings orders them
    Requests,         \* the key lists a caller may pass (distinct keys)
    CanCancel,        \* callers pass a cancel channel that may be closed
    NoProc            \* no goroutine

ASSUME NoProc \notin Procs /\ Requests \subseteq Seq(Keys) /\ CanCancel \in BOOLEAN

VARIABLES
    made,      \* DOMAIN l.m: keys whose channel exists
    ch,        \* ch[k]: tokens in the buffer of l.m[k], 0 or 1
    keys,      \* keys[p]: the sorted copy `key` of p's current or last call
    idx,       \* idx[p]: position of the key p is trying in the range loop
    cancel,    \* cancel[p]: p's cancel channel is closed
    pc

vars == <<made, ch, keys, idx, cancel, pc>>

TypeOK ==
    /\ made \subseteq Keys
    /\ ch \in [Keys -> 0..1]
    /\ keys \in [Procs -> Seq(Keys)]
    /\ idx \in [Procs -> Nat]
    /\ \A p \in Procs : pc[p] \in {"get", "wait"} => idx[p] \in 1..Len(keys[p])
    /\ cancel \in [Procs -> BOOLEAN]
    /\ pc \in [Procs -> {"idle", "get", "wait", "holding"}]

Init ==
    /\ made = {}
    /\ ch = [k \in Keys |-> 0]
    /\ keys = [p \in Procs |-> <<>>]
    /\ idx = [p \in Procs |-> 1]
    /\ cancel = [p \in Procs |-> FALSE]
    /\ pc = [p \in Procs |-> "idle"]

\* Mutant: prepare that copies without sorting.
prepareUnsorted(in) == in

\* prepare: copy the keys and sort.Strings the copy.
prepare(in) == SetToSortSeq(ToSet(in), <)

\* releaseKeys: under l.mutex, a non-blocking send of a token to l.m[k] for
\* every k; a full buffer, or a nil channel for a key never made, drops it.
releaseKeys(ks) ==
    ch' = [k \in Keys |-> IF k \in ToSet(ks) /\ k \in made THEN 1 ELSE ch[k]]

CurrentKey(p) == keys[p][idx[p]]

\* LockKeys entered: key := prepare(keys); the loop starts at the first key.
CallLockKeys(p, in) ==
    /\ pc[p] = "idle"
    /\ keys' = [keys EXCEPT ![p] = prepare(in)]
    /\ idx' = [idx EXCEPT ![p] = 1]
    /\ cancel' = [cancel EXCEPT ![p] = FALSE]
    /\ pc' = [pc EXCEPT ![p] = "get"]
    /\ UNCHANGED <<made, ch>>

\* Mutant: getOrCreateChannel that skips the exists check.
getOrCreateChannelAlwaysNew(p) ==
    LET k == CurrentKey(p) IN
    /\ pc[p] = "get"
    /\ made' = made \cup {k}
    /\ ch' = [ch EXCEPT ![k] = 1]
    /\ pc' = [pc EXCEPT ![p] = "wait"]
    /\ UNCHANGED <<keys, idx, cancel>>

\* tryLockKey: under l.mutex, getOrCreateChannel(key) (a new channel is
\* made holding its token).
getOrCreateChannel(p) ==
    LET k == CurrentKey(p) IN
    /\ pc[p] = "get"
    /\ made' = made \cup {k}
    /\ ch' = IF k \in made THEN ch ELSE [ch EXCEPT ![k] = 1]
    /\ pc' = [pc EXCEPT ![p] = "wait"]
    /\ UNCHANGED <<keys, idx, cancel>>

\* waitForChannel, case <-ch: the token is taken; on to the next key, or
\* LockKeys returns (false, unlock) after the last one.
AcquireKey(p) ==
    LET k == CurrentKey(p) IN
    /\ pc[p] = "wait"
    /\ ch[k] = 1
    /\ ch' = [ch EXCEPT ![k] = 0]
    /\ IF idx[p] = Len(keys[p])
         THEN pc' = [pc EXCEPT ![p] = "holding"] /\ UNCHANGED idx
         ELSE pc' = [pc EXCEPT ![p] = "get"] /\ idx' = [idx EXCEPT ![p] = @ + 1]
    /\ UNCHANGED <<made, keys, cancel>>

\* Mutant: waitForChannel without the cancel case.
CanceledDropped(p) == FALSE

\* waitForChannel, case <-cancel: LockKeys calls unlock(), releasing every
\* key of the call, and returns (true, unlock).
Canceled(p) ==
    /\ pc[p] = "wait"
    /\ cancel[p]
    /\ releaseKeys(keys[p])
    /\ pc' = [pc EXCEPT ![p] = "idle"]
    /\ UNCHANGED <<made, keys, idx, cancel>>

\* The caller closes its cancel channel (its deadline passes).
CloseCancel(p) ==
    /\ CanCancel
    /\ pc[p] \in {"get", "wait"}
    /\ ~cancel[p]
    /\ cancel' = [cancel EXCEPT ![p] = TRUE]
    /\ UNCHANGED <<made, ch, keys, idx, pc>>

\* The caller of a successful LockKeys calls the returned unlock.
Unlock(p) ==
    /\ pc[p] = "holding"
    /\ releaseKeys(keys[p])
    /\ pc' = [pc EXCEPT ![p] = "idle"]
    /\ UNCHANGED <<made, keys, idx, cancel>>

Next ==
    \E p \in Procs :
        \/ \E in \in Requests : CallLockKeys(p, in)
        \/ getOrCreateChannel(p) \/ AcquireKey(p) \/ Canceled(p)
        \/ CloseCancel(p) \/ Unlock(p)

(***************************************************************************)
(* Fairness.  Goroutines inside LockKeys keep running; a receive enabled    *)
(* infinitely often is eventually taken (the runtime queues blocked        *)
(* receivers and hands them the token).  Whether a holder ever calls       *)
(* unlock is up to the caller: Spec assumes it does, SpecHoldForever not.  *)
(***************************************************************************)
InCallFairness ==
    \A p \in Procs :
        /\ WF_vars(getOrCreateChannel(p))
        /\ SF_vars(AcquireKey(p))
        /\ WF_vars(Canceled(p))

Spec == Init /\ [][Next]_vars /\ InCallFairness /\ \A p \in Procs : WF_vars(Unlock(p))

SpecHoldForever == Init /\ [][Next]_vars /\ InCallFairness

-----------------------------------------------------------------------------
InCall(p) == pc[p] \in {"get", "wait"}

\* Keys whose token p has taken and not given back in this call.
Held(p) ==
    CASE pc[p] = "holding"          -> ToSet(keys[p])
      [] pc[p] \in {"get", "wait"} -> ToSet(SubSeq(keys[p], 1, idx[p] - 1))
      [] OTHER                     -> {}

\* No key is held by two goroutines at once, counting the keys a call
\* in progress has already taken.
MutualExclusion == \A p, q \in Procs : p # q => Held(p) \cap Held(q) = {}

\* KeyLock implements KeyLockSpec: a goroutine owns the keys of its call
\* from the return of LockKeys until it calls unlock.
Abstract == INSTANCE KeyLockSpec WITH
    owner <- [k \in Keys |->
                IF \E p \in Procs : pc[p] = "holding" /\ k \in ToSet(keys[p])
                  THEN CHOOSE p \in Procs : pc[p] = "holding" /\ k \in ToSet(keys[p])
                  ELSE NoProc]

ImplementsKeyLockSpec == Abstract!Spec

\* Every call to LockKeys returns: acquiring keys in sorted order leaves no
\* cycle of goroutines each waiting for a key the next one holds.
LockKeysReturns == \A p \in Procs : InCall(p) ~> ~InCall(p)

\* A call whose cancel channel is closed returns, even if the holders of
\* its keys never release them.
CancelTerminates == \A p \in Procs : (InCall(p) /\ cancel[p]) ~> ~InCall(p)
=============================================================================
