SPECIFICATION FaultySpec
CONSTANTS
    Oids = {o1, o2}
    Threads = {t1, t2}
    Space = 4
    Align = 2
    BlkSize = 2
    Junk = {0}
    Sizes = {1, 3}
    Writes <- MCWrites
    Layouts <- MCLayouts
    MaxCalls = 4
    Eager = FALSE
    Careless = TRUE
    Faults = {}
    None = None
    Stub = Stub
PROPERTY DeletedIsGone
CHECK_DEADLOCK FALSE
