SPECIFICATION MCSpec
CONSTANTS
    Cpu = {k1, k2}
    Proc = {p1, p2}
    Lock = {ptable, lock}
    ptable = ptable
    lock = lock
    Rank <- MCRank
    NoCpu = NoCpu
    NoLock = NoLock
    CPU = {c0, c1}
    BootCPU = c0
    Free = Free
    TickMod = 4
    SleepArg = {0, 3}
    Priority = {2}
    Buf = {x1, x2, x3}
    Block = {b1, b2, b3, b4}
    Val = {0, 1}
    MaxPinned = 1
    NoBlock = NoBlock
    NoProc = NoProc
    NoBuf = NoBuf
    ConsReader = {r1, r2}
    Letter = {"a"}
    INPUT_BUF = 2
    ConsUintMod = 4
    ConsMaxN = 2
VIEW View
INVARIANTS MutualExclusion LockInv NoLockPanic TicksChargedOnce BufferInv ReadsLatest QueueInv ConsoleInv
PROPERTY SleepsExactly
PROPERTY IsLineDiscipline
