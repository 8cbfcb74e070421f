SPECIFICATION Spec
CONSTANTS
    CPU = {c1, c2}
    NPROC = 4
    MaxPid = 4
    MaxSz = 2
    Disciplined = TRUE
INVARIANT GrowReturns
