CONSTANTS
    NPROC = 2
    NPAGE = 20
    PGSIZE = 2
    NPTE = 3
    USERSTACK = 1
    MaxArg = 2
    Image <- MCImage
    Initcode <- MCInitcode
    Grow = {3, 44}
    Shrink = {3, 60}
    MaxCalls = 5
    Touch = {0, 6, 50}
SPECIFICATION Spec
CHECK_DEADLOCK FALSE
INVARIANTS
    PagesOwned
    UserReach
PROPERTIES
    ImageKept
