\* Workers that give units back with Add(-1), which the contract allows
\* (Done is Add(-1)); no misuse.
CONSTANTS
    a1 = a1
    a2 = a2
    w1 = w1
    Workers <- MCWorkers
    Waiters <- MCWaiters
    Deltas = {1, 2}
    Rounds = 2
    WaitCalls = 2
    Overrelease = FALSE
SPECIFICATION SpecNegAdd
INVARIANT GenerationOpenOnlyWhileBusy
