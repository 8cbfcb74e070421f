SPECIFICATION Spec
CONSTANTS
    CPU = {c1, c2}
    NPROC = 4
    MaxPid = 4
    MaxSz = 2
    Disciplined = FALSE
PROPERTY ZombieStays
