\* Callers that may cancel, and holders that may keep their keys forever.
CONSTANTS
    p1 = p1
    p2 = p2
    p3 = p3
    NoProc = NoProc
    Procs <- MCProcs
    Keys <- MCKeys
    Requests <- MCRequests
    CanCancel = TRUE
SPECIFICATION SpecHoldForever
PROPERTY CancelTerminates
