CONSTANTS
    BlkSize = 2
    AlignSize = 2
    VolumeIds = {1, 2}
    BlkCounts = {1, 2}
    Callers = {c1, c2}
    Sizes = {1}
    Admins = {a1}
    AdminCmds = {}
    Faults = {}
SYMMETRY CallerSymmetry
SPECIFICATION RotateSpec
INVARIANTS NoSpaceInAllVolumes
