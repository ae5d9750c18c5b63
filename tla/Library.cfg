\* The LRU cache, the consistent-hash ring, Once, the ledger and tparallel,
\* one per behaviour.
CONSTANTS
    k1 = k1
    k2 = k2
    k3 = k3
    v1 = v1
    v2 = v2
    n1 = n1
    n2 = n2
    n3 = n3
    nil = nil
    p1 = p1
    p2 = p2
    p3 = p3
    g1 = g1
    g2 = g2
    g3 = g3
    ta = ta
    tb1 = tb1
    tb2 = tb2
    tc = tc
    troot = troot
SPECIFICATION Spec
INVARIANT TypeOK
INVARIANT ImplementsLRU
INVARIANT RingMatchesNodes
PROPERTY RangeVisitsLeastRecentFirst
PROPERTY GetNodeReturnsOwner
PROPERTY ExactlyOnceBeforeReturn
PROPERTY DoReturns
INVARIANT NoLockCycle
INVARIANT MoneyConserved
PROPERTY EveryCallReturns
INVARIANT ParallelAfterParentBody
INVARIANT SequentialHoldsParent
INVARIANT ProcessMatchesReference
INVARIANT SortOutputsEveryLine
INVARIANT LoadIsOccupancy
INVARIANT SprintfMatchesGrammar
INVARIANT UpdateIsReadModifyWrite
INVARIANT ReadsWithinCall
