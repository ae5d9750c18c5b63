\* Top tests a and c; a runs the parallel subtests b1 and b2.
CONSTANTS
    a = a
    b1 = b1
    b2 = b2
    c = c
    root = root
    Tests <- MCTests
    Root = root
    Parent <- MCParent
    Top <- MCTop
    Scripts <- MCScripts
SPECIFICATION Spec
INVARIANT RunReturnsAfterTests
