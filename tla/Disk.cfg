CONSTANTS
    Proc = {p1, p2}
    Buf = {b1, b2}
    Block = {n1, n2, n3}
    None = None
    QueueSizes = {5, 6}
SPECIFICATION Spec
SYMMETRY Symmetry
INVARIANTS
    LatestData
    ResourcesCounted
    CompletionPending
    SleepersWoken
