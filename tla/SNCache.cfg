CONSTANTS
    Nodes = {n1, n2, n3}
    NoNode = NoNode
    Blocks = {b1, b2, b3}
    NoBlock = NoBlock
    Cells = {c1}
    Values = {v1}
    NoValue = NoValue
    Blank = v0
    QueueCap = 0
    Faults = {}
SYMMETRY CacheSymmetry
SPECIFICATION Spec
INVARIANTS AccessAssertions
PROPERTIES ImplementsBlockStore
