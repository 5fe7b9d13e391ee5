CONSTANTS
    Cpu = {c0, c1}
    Proc = {p1, p2}
    Cpu0 = c0
    None = None
SPECIFICATION Spec
INVARIANT InterruptsNest
