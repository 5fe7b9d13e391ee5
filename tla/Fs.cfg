SPECIFICATION Spec
CONSTANTS
    Proc = {p1, p2}
    Init1 = p1
    NINODES = 4
    NBLOCK = 9
    NINODE = 4
    NFILE = 3
    NOFILE = 2
    NDIRECT = 1
    BSIZE = 2
    NDEV = 1
    MaxWrite = 2
    Image <- MCImage
    MaxCalls = 3
    MaxCrashes = 1
INVARIANT Consistent
INVARIANT OrphansHeld
INVARIANT TableSound
INVARIANT NoDeadlock
CHECK_DEADLOCK FALSE
