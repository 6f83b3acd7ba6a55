SPECIFICATION Spec
CONSTANTS
    a = a
    b = b
    Names = {a, b}
    Web = {w1, w2}
    Loop = Loop
    Processes <- MCProcesses
    MaxPid = 2
    ChanCap = 1
    MaxCalls = 4
    None = None
    NoChan = NoChan
INVARIANTS StartedOnce
CHECK_DEADLOCK FALSE
