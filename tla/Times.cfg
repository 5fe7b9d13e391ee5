CONSTANTS
    Policies = {"RR", "FIFO", "SJF", "STCF", "MLFQ"}
    W = 5
    MaxTime = 7
    Hints = {0, 1}
    quantum0 = 1
    quantum1 = 2
    quantum2 = 3
    starv_cut = 2
SPECIFICATION Spec
INVARIANTS
    
    
    SliceUsedUp
PROPERTIES
    ChangesEarned
