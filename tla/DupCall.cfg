\* Two callers, two Do calls each, contexts that may be canceled.
CONSTANTS
    a = a
    b = b
    Callers <- MCCallers
    Calls = 2
    CanCancel = TRUE
SPECIFICATION Spec
INVARIANT AtMostOneInFlight
PROPERTY JoinedReturns
