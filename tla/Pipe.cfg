CONSTANTS
    Reader = {r1}
    Writer = {w1, w2}
    None = None
    PIPESIZE = 2
    W = 2
    MaxN = 3
    MaxBytes = 3
SPECIFICATION FairSpec
\* The pipe stops once both ends are closed.
CHECK_DEADLOCK FALSE
INVARIANTS
    InOrder
    SleepersWait
PROPERTIES
    CloseWakes
