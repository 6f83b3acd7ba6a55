SPECIFICATION Spec
CONSTANTS
    NFiles = 3
    Loops = {l1, l2, l3}
    Size <- MCSize
    Expected = 7
    None = None
INVARIANTS OneOwner SendsDoNotWait WrittenOnce
PROPERTIES TestEnds
CHECK_DEADLOCK FALSE
