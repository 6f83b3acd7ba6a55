CONSTANTS
    BlkSize = 4
    AlignSize = 2
    VolumeIds = {1}
    BlkCounts = {2}
    Callers = {c1, c2, c3}
    Sizes = {3}
    Admins = {}
    AdminCmds = {}
    Faults = {"handler", "rebuild", "crash"}
SYMMETRY CallerSymmetry
SPECIFICATION Spec
INVARIANTS TypeOK NoSharedSpace SpaceIsHandedOut ChipsWellFormed LockedChipIsMine
           ObjectBytesAreContiguous
PROPERTIES ImplementsSpaceAlloc NothingLeaks CurPositionNeverFalls
