CONSTANTS
    BlkSize = 4
    AlignSize = 2
    VolumeIds = {1, 2}
    BlkCounts = {1}
    Callers = {c1, c2}
    Sizes = {3}
    Admins = {a1}
    AdminCmds = {FALSE}
    Faults = {"command"}
SPECIFICATION QueueSpec
INVARIANTS DisabledLeavesQueue
PROPERTIES EveryCallReturns
