\* Callers that may cancel while another goroutine holds a key of their call.
CONSTANTS
    p1 = p1
    p2 = p2
    p3 = p3
    NoProc = NoProc
    Procs <- MCProcs
    Keys <- MCKeys
    Requests <- MCRequests
    CanCancel = TRUE
SPECIFICATION Spec
INVARIANT MutualExclusion
