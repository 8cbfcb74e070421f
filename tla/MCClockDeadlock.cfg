SPECIFICATION Spec
CONSTANTS
    CPU = {c0, c1}
    BootCPU = c0
    Proc = {p1, p2}
    Free = Free
    TickMod = 4
    SleepArg = {1}
    Priority = {}
INVARIANT NoLockCycle
