CONSTANTS
    r1 = r1
    r2 = r2
    w1 = w1
    w2 = w2
    k1 = k1
    Readers <- MCReaders
    Writers <- MCWriters
    Printers = {k1}
    Intr = Intr
    Free = Free
    Keyboard = Keyboard
    Loads <- MCLoads
    Sizes = {2}
    BatchSize = 2
    Fifo = 3
    RxFifo = 1
    MaxRead = 2
    MaxWrite = 3
SPECIFICATION Spec
INVARIANT LinesKept
INVARIANT OutputKept
CHECK_DEADLOCK FALSE
PROPERTY WritersReturn
