CONSTANTS
    Proc = {p1, p2, p3}
    Block = {b1, b2}
    LOGBLOCKS = 6
    MAXOPBLOCKS = 3
    OpBlocks = 2
    MaxOps = 3
SPECIFICATION FairSpec
INVARIANTS
    Durable
    
PROPERTIES
    AtomicSpec
    BeginReturns
