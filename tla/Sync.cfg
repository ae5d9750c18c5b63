\* RWMutex with three goroutines, KeyLock with two goroutines and two keys,
\* and Cond with two consumers and one producer, one per behaviour.
CONSTANTS
    p1 = p1
    p2 = p2
    p3 = p3
    c1 = c1
    c2 = c2
    q1 = q1
    nil = nil
SPECIFICATION Spec
INVARIANT TypeOK
INVARIANT ReaderCountMatches
INVARIANT NoStrandedWaiter
PROPERTY ImplementsRWLock
PROPERTY ReaderProgress
PROPERTY ImplementsKeyLockSpec
PROPERTY LockKeysReturns
PROPERTY AllConsumed
