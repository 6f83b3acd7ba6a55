CONSTANTS
    Nodes = {n1, n2}
    NoNode = NoNode
    Blocks = {b1, b2}
    NoBlock = NoBlock
    Cells = {c1, c2}
    Values = {v1}
    NoValue = NoValue
    Blank = v0
    QueueCap = 0
    Faults = {"crash"}
SYMMETRY CacheSymmetry
SPECIFICATION Spec
INVARIANTS SealedReadIsCurrent DeviceIsSealed StopWritesAllButLatest
PROPERTIES ImplementsBlockStore
