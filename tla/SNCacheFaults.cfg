CONSTANTS
    Nodes = {n1, n2}
    NoNode = NoNode
    Blocks = {b1, b2}
    NoBlock = NoBlock
    Cells = {c1}
    Values = {v1}
    NoValue = NoValue
    Blank = v0
    QueueCap = 1
    Faults = {"read", "write", "mongo"}
SYMMETRY CacheSymmetry
SPECIFICATION Spec
INVARIANTS DirtyHasPartner
