SPECIFICATION Spec
CONSTANTS
    Oids = {o1, o2}
    Threads = {t1, t2}
    Space = 4
    Align = 2
    BlkSize = 4
    Junk = {0}
    Sizes = {1, 3}
    Writes <- MCWrites
    Layouts <- MCLayouts
    MaxCalls = 4
    Eager = FALSE
    Careless = FALSE
    Faults = {}
    None = None
    Stub = Stub
INVARIANT HashIsOfContent
CHECK_DEADLOCK FALSE
SYMMETRY Symmetric
