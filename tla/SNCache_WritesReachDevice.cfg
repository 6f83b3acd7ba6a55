CONSTANTS
    Nodes = {n1, n2, n3}
    NoNode = NoNode
    Blocks = {b1}
    NoBlock = NoBlock
    Cells = {c1}
    Values = {v1}
    NoValue = NoValue
    Blank = v0
    QueueCap = 1
    Faults = {}
SPECIFICATION FairSpec
PROPERTIES WritesReachDevice
