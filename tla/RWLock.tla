------------------------------- MODULE RWLock -------------------------------
(***************************************************************************)
(* Abstract reader/writer lock: what rwmutex.RWMutex promises.  Any number  *)
(* of readers may hold the lock together; a writer holds it alone.  Each    *)
(* acquisition and release is one atomic step.                             *)
(***************************************************************************)
EXTENDS FiniteSets

CONSTANT Procs

VARIABLES readers, writers

vars == <<readers, writers>>

Init == readers = {} /\ writers = {}

AcquireRead(p) ==
    /\ p \notin readers \cup writers
    /\ writers = {}
    /\ readers' = readers \cup {p}
    /\ UNCHANGED writers

ReleaseRead(p) ==
    /\ p \in readers
    /\ readers' = readers \ {p}
    /\ UNCHANGED writers

AcquireWrite(p) ==
    /\ p \notin readers \cup writers
    /\ readers = {} /\ writers = {}
    /\ writers' = {p}
    /\ UNCHANGED readers

ReleaseWrite(p) ==
    /\ p \in writers
    /\ writers' = {}
    /\ UNCHANGED readers

Next == \E p \in Procs :
          AcquireRead(p) \/ ReleaseRead(p) \/ AcquireWrite(p) \/ ReleaseWrite(p)

Spec == Init /\ [][Next]_vars

\* A writer excludes every other holder.
Exclusion == writers # {} => readers = {} /\ Cardinality(writers) = 1
=============================================================================
