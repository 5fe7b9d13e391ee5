CONSTANTS
    CPU = {c1, c2}
    NPROC = 3
    Policies = {"RR", "FIFO", "SJF", "STCF"}
    W = 2
    MaxPid = 3
    Hints = {1}
    StcfHints = {1}
    Bursts = {3}
SPECIFICATION Spec
SYMMETRY Symmetry
INVARIANTS
    TypeOK
PROPERTIES
    SelectionSound
    
