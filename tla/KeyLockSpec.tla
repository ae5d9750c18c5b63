---------------------------- MODULE KeyLockSpec ----------------------------
(***************************************************************************)
(* What keylock.KeyLock promises: LockKeys(keys) takes all of `keys` at    *)
(* once, and only when no other caller holds any of them; the returned     *)
(* unlock gives them all back.  One owner per key.                          *)
(***************************************************************************)
CONSTANTS Procs, Keys, NoProc

VARIABLE owner   \* owner[k]: the caller holding key k, or NoProc

Init == owner = [k \in Keys |-> NoProc]

LockAll(p, S) ==
    /\ S # {}
    /\ \A k \in Keys : owner[k] # p
    /\ \A k \in S : owner[k] = NoProc
    /\ owner' = [k \in Keys |-> IF k \in S THEN p ELSE owner[k]]

UnlockAll(p) ==
    /\ \E k \in Keys : owner[k] = p
    /\ owner' = [k \in Keys |-> IF owner[k] = p THEN NoProc ELSE owner[k]]

Next == \E p \in Procs : UnlockAll(p) \/ \E S \in SUBSET Keys : LockAll(p, S)

Spec == Init /\ [][Next]_owner
=============================================================================
