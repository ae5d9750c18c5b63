\* Two callers, two Acquire calls each, two slots, interval 2, clock up to 4.
CONSTANTS
    a = a
    b = b
    Callers <- MCCallers
    Calls = 2
    MaxCount = 2
    Interval = 2
    Horizon = 4
    CanCancel = TRUE
SPECIFICATION Spec
INVARIANT TypeOK
INVARIANT RateBound
PROPERTY StopOrCancelReleases
