\* Contexts never canceled: a Do that reads o.ch after its round closed waits forever.
CONSTANTS
    a = a
    b = b
    Callers <- MCCallers
    Calls = 2
    CanCancel = FALSE
SPECIFICATION Spec
PROPERTY DoReturns
CHECK_DEADLOCK FALSE
