----------------------------- MODULE MCKeyLock -----------------------------
EXTENDS KeyLock, Functions

CONSTANTS p1, p2, p3

MCProcs == {p1, p2, p3}

\* Two keys, named by their rank in sort.Strings order ("a" < "b").
MCKeys == {1, 2}

\* Every list of distinct keys: one key, or both in either order, so that
\* two callers can name shared keys in opposite orders.
MCRequests == {s \in BoundedSeq(MCKeys, 2) : s # <<>> /\ IsInjective(s)}
=============================================================================
