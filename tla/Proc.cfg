CONSTANTS
    CPU = {c1, c2}
    NPROC = 3
    MaxPid = 3
    KillPids = {2}
SPECIFICATION Spec
SYMMETRY Symmetry
INVARIANTS
    TypeOK
    StackExclusive
    SchedPreconditions
    NoLostWakeup
    ParentAlive
    LockDiscipline
