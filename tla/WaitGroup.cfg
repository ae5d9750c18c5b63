\* Two workers, each Add(1) or Add(2) twice and giving every unit back with
\* Done(); one goroutine calling Wait twice; a worker may over-release.
CONSTANTS
    a1 = a1
    a2 = a2
    w1 = w1
    Workers <- MCWorkers
    Waiters <- MCWaiters
    Deltas = {1, 2}
    Rounds = 2
    WaitCalls = 2
    Overrelease = TRUE
SPECIFICATION Spec
INVARIANT TypeOK
INVARIANT GenerationOpenOnlyWhileBusy
PROPERTY WaitNotEarly
PROPERTY WaitReturns
