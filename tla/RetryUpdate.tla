----------------------------- MODULE RetryUpdate -----------------------------
(***************************************************************************)
(* retryupdate.UpdateValue (src/retryupdate/update.go): read a key's value *)
(* and version with Get, compute the new value with updateFn, and write it *)
(* with a Set that names the version read (a compare-and-set), retrying    *)
(* until it is done.  One goroutine makes Calls calls, one after another,  *)
(* on one key.                                                             *)
(*                                                                         *)
(* The server is the kvapi contract the code is written against: Get      *)
(* returns the value and version or ErrKeyNotFound; Set with OldVersion    *)
(* the zero UUID creates an absent key, Set on an absent key with another  *)
(* OldVersion is ErrKeyNotFound, and Set with an OldVersion that is not    *)
(* the key's version is a ConflictError carrying the key's version as      *)
(* ExpectedVersion.  Another client writes the key (an increment by the    *)
(* same compare-and-set) or deletes it.  Faults: a call may fail with a    *)
(* transient error or an AuthError, and a Set's response may be lost after *)
(* the server applied it.                                                  *)
(*                                                                         *)
(* updateFn is an increment: nil gives 1, v gives v + 1; it may also fail. *)
(* Versions are numbers, 0 the zero UUID; uuid.NewV4 is the next unused    *)
(* number.                                                                 *)
(***************************************************************************)
EXTENDS Integers

CONSTANTS
    Calls,        \* UpdateValue calls of the goroutine
    MaxFaults,    \* transient errors, AuthErrors and lost responses
    MaxWrites,    \* writes and deletes of the other client
    MaxFnErrors   \* calls of updateFn that return an error

Nil == -1       \* a nil *string

VARIABLES
    store,        \* the key on the server: [present, val, ver]
    nextVer,      \* the last version handed out
    oldVal,       \* the package-level oldVal
    oldVersion,   \* the package-level oldVersion
    newVal,       \* tryToSetValue's newVal
    newVersion,   \* UpdateValue's newVersion
    ruPc,         \* "idle", "get" (tryToGetValue) or "set" (tryToSetValue)
    done,         \* UpdateValue calls that returned
    ret,          \* what the last call returned: "none", "nil" or "err"
    faults, writes, fnErrors,
    applied,      \* Sets of the current call the server applied
    otherWrote,   \* the other client wrote or deleted during the call
    count         \* writes since the key was created: its value, if none is lost

vars == <<store, nextVer, oldVal, oldVersion, newVal, newVersion, ruPc, done,
          ret, faults, writes, fnErrors, applied, otherWrote, count>>

TypeOK ==
    /\ store \in [present : BOOLEAN, val : Nat, ver : Nat]
    /\ ruPc \in {"idle", "get", "set"} /\ ret \in {"none", "nil", "err"}
    /\ done \in 0..Calls /\ faults \in 0..MaxFaults /\ writes \in 0..MaxWrites

Init ==
    /\ store = [present |-> FALSE, val |-> 0, ver |-> 0]
    /\ nextVer = 0
    /\ oldVal = Nil /\ oldVersion = 0 /\ newVal = 0 /\ newVersion = 0
    /\ ruPc = "idle" /\ done = 0 /\ ret = "none"
    /\ faults = 0 /\ writes = 0 /\ fnErrors = 0
    /\ applied = 0 /\ otherWrote = FALSE /\ count = 0

-----------------------------------------------------------------------------
\* updateFn(v).
updateFn(v) == IF v = Nil THEN 1 ELSE v + 1

\* A fault is injected into the call.
Fault == faults < MaxFaults /\ faults' = faults + 1

\* The call returns err or nil.
Return(r) ==
    /\ ruPc' = "idle" /\ done' = done + 1 /\ ret' = r

\* resetFields, and the Get loop of tryToGetValue.
resetFields ==
    /\ oldVal' = Nil /\ oldVersion' = 0
    /\ ruPc' = "get"

\* UpdateValue(c, key, updateFn): resetFields, then tryToUpDateValue.
UpdateValue ==
    /\ ruPc = "idle" /\ done < Calls
    /\ resetFields
    /\ ret' = "none" /\ applied' = 0 /\ otherWrote' = FALSE
    /\ UNCHANGED <<store, nextVer, newVal, newVersion, done, faults, writes, fnErrors, count>>

\* tryToUpDateValue after the Get loop: newVal := updateFnc(oldVal); an
\* error is returned; else UpdateValue takes a new version and goes on to
\* tryToSetValue.
tryToUpDateValue(v) ==
    \/ /\ fnErrors < MaxFnErrors /\ fnErrors' = fnErrors + 1
       /\ Return("err")
       /\ UNCHANGED <<newVal, newVersion, nextVer>>
    \/ /\ newVal' = updateFn(v)
       /\ nextVer' = nextVer + 1 /\ newVersion' = nextVer + 1
       /\ ruPc' = "set"
       /\ UNCHANGED <<fnErrors, done, ret>>

\* One Get of tryToGetValue: ErrKeyNotFound or a value breaks the loop; an
\* AuthError is returned; any other error goes round the loop again.
tryToGetValue ==
    /\ ruPc = "get"
    /\ \/ /\ Fault /\ UNCHANGED <<ruPc, done, ret, oldVal, oldVersion, newVal, newVersion,
                                  nextVer, fnErrors>>
       \/ /\ Fault /\ Return("err")
          /\ UNCHANGED <<oldVal, oldVersion, newVal, newVersion, nextVer, fnErrors>>
       \/ /\ ~store.present
          /\ tryToUpDateValue(Nil)
          /\ UNCHANGED <<oldVal, oldVersion, faults>>
       \/ /\ store.present
          /\ oldVal' = store.val /\ oldVersion' = store.ver
          /\ tryToUpDateValue(store.val)
          /\ UNCHANGED faults
    /\ UNCHANGED <<store, writes, applied, otherWrote, count>>

\* The server's answer to Set(oldVersion, newVersion), and the key after it.
SetResult ==
    IF ~store.present /\ oldVersion # 0 THEN [err |-> "notfound"]
    ELSE IF store.present /\ store.ver # oldVersion
         THEN [err |-> "conflict", expected |-> store.ver]
         ELSE [err |-> "none"]

\* Mutant: every ConflictError starts UpdateValue over.
handleSetResultAlwaysRestart(r) ==
    \/ /\ r.err = "none" /\ Return("nil")
       /\ UNCHANGED <<oldVal, oldVersion, newVal, nextVer, newVersion, fnErrors>>
    \/ /\ r.err = "notfound"
       /\ \/ /\ fnErrors < MaxFnErrors /\ fnErrors' = fnErrors + 1 /\ Return("err")
             /\ oldVersion' = 0 /\ UNCHANGED newVal
          \/ /\ newVal' = updateFn(Nil) /\ oldVersion' = 0
             /\ UNCHANGED <<fnErrors, ruPc, done, ret>>
       /\ UNCHANGED <<oldVal, nextVer, newVersion>>
    \/ /\ r.err = "conflict"
       /\ resetFields /\ UNCHANGED <<newVal, nextVer, newVersion, done, ret, fnErrors>>

\* tryToSetValue's answer to a Set that returned r: nil is returned; on
\* ErrKeyNotFound newVal := updateFnc(nil) and oldVersion := zero, and
\* updateFnc's error, if any, is returned; a ConflictError naming
\* newVersion means an earlier Set of this call was applied, and nil is
\* returned; any other conflict starts UpdateValue over.
handleSetResult(r) ==
    \/ /\ r.err = "none" /\ Return("nil")
       /\ UNCHANGED <<oldVal, oldVersion, newVal, nextVer, newVersion, fnErrors>>
    \/ /\ r.err = "notfound"
       /\ \/ /\ fnErrors < MaxFnErrors /\ fnErrors' = fnErrors + 1 /\ Return("err")
             /\ oldVersion' = 0 /\ UNCHANGED newVal
          \/ /\ newVal' = updateFn(Nil) /\ oldVersion' = 0
             /\ UNCHANGED <<fnErrors, ruPc, done, ret>>
       /\ UNCHANGED <<oldVal, nextVer, newVersion>>
    \/ /\ r.err = "conflict" /\ r.expected = newVersion /\ Return("nil")
       /\ UNCHANGED <<oldVal, oldVersion, newVal, nextVer, newVersion, fnErrors>>
    \/ /\ r.err = "conflict" /\ r.expected # newVersion
       /\ resetFields /\ UNCHANGED <<newVal, nextVer, newVersion, done, ret, fnErrors>>

\* One Set of tryToSetValue.  Before the server: a transient error goes
\* round the loop, an AuthError is returned.  At the server: the Set is
\* answered, and applied when it succeeds; then its response may be lost,
\* which the loop sees as a transient error.
tryToSetValue ==
    /\ ruPc = "set"
    /\ LET r == SetResult
           store2 == IF r.err = "none"
                     THEN [present |-> TRUE, val |-> newVal, ver |-> newVersion]
                     ELSE store
       IN \/ /\ Fault /\ UNCHANGED <<store, ruPc, done, ret, applied, count>>
             /\ UNCHANGED <<oldVal, oldVersion, newVal, nextVer, newVersion, fnErrors>>
          \/ /\ Fault /\ Return("err")
             /\ UNCHANGED <<store, applied, count, oldVal, oldVersion, newVal, nextVer,
                            newVersion, fnErrors>>
          \/ /\ store' = store2
             /\ applied' = applied + (IF r.err = "none" THEN 1 ELSE 0)
             /\ count' = IF r.err # "none" THEN count
                         ELSE IF store.present THEN count + 1 ELSE 1
             /\ \/ /\ Fault /\ UNCHANGED <<ruPc, done, ret, oldVal, oldVersion, newVal,
                                           nextVer, newVersion, fnErrors>>
                \/ /\ handleSetResult(r) /\ UNCHANGED faults
    /\ UNCHANGED <<writes, otherWrote>>

\* The other client increments the key by compare-and-set, creating it
\* with 1 when it is absent.
OtherWrite ==
    /\ writes < MaxWrites /\ writes' = writes + 1
    /\ nextVer' = nextVer + 1
    /\ store' = [present |-> TRUE, ver |-> nextVer + 1,
                 val |-> IF store.present THEN store.val + 1 ELSE 1]
    /\ count' = IF store.present THEN count + 1 ELSE 1
    /\ otherWrote' = (otherWrote \/ ruPc # "idle")
    /\ UNCHANGED <<oldVal, oldVersion, newVal, newVersion, ruPc, done, ret, faults,
                   fnErrors, applied>>

\* The other client deletes the key.
OtherDelete ==
    /\ store.present /\ writes < MaxWrites /\ writes' = writes + 1
    /\ store' = [present |-> FALSE, val |-> 0, ver |-> 0]
    /\ count' = 0
    /\ otherWrote' = (otherWrote \/ ruPc # "idle")
    /\ UNCHANGED <<nextVer, oldVal, oldVersion, newVal, newVersion, ruPc, done, ret,
                   faults, fnErrors, applied>>

Terminated == ruPc = "idle" /\ done = Calls /\ UNCHANGED vars

Next == UpdateValue \/ tryToGetValue \/ tryToSetValue \/ OtherWrite \/ OtherDelete
        \/ Terminated

Spec == Init /\ [][Next]_vars

-----------------------------------------------------------------------------
\* UpdateValue is a read-modify-write: every value the key holds is the
\* increment of the one it replaced (no Set writes over a version it did
\* not read), and a call that returns nil had at least one of its Sets
\* applied, and exactly one when no other client wrote during the call,
\* although Sets whose responses were lost are sent again (tryToSetValue's
\* ExpectedVersion == newVersion case).
UpdateIsReadModifyWrite ==
    /\ store.present => store.val = count
    /\ ret = "nil" => applied >= 1 /\ (~otherWrote => applied = 1)
====
