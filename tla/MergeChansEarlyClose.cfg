\* Two inputs of at most one value each.
CONSTANTS
    N = 2
    MaxSends = 1
SPECIFICATION Spec
INVARIANT ResultClosedAfterInputs
