CONSTANTS
    CPU = {c1, c2}
    NPROC = 2
    MaxPid = 3
    KillPids = {0, 2}
SPECIFICATION FairSpec
PROPERTIES
    OrphansReaped
    BornAlive
