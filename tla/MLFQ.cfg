CONSTANTS
    CPU = {c1, c2}
    NPROC = 2
    NLEVEL = 3
SPECIFICATION FairSpec
INVARIANTS
    MinHeld
PROPERTIES
    PickSound
    SearchEnds
