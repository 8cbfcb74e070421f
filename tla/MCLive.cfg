SPECIFICATION MCSpec
CONSTANTS
    Reader = {p1}
    Writer = {p2}
    Byte = {0, 1}
    PIPESIZE = 2
    UintMod = 4
    MaxN = 3
    NoProc = NoProc
    Caller = {p1, p2, p3}
    Block = {b1, b2}
    Val = {0}
    LOGSIZE = 2
    MAXOPBLOCKS = 1
    LogBlocks = 3
    OpBlocks = 1
    WriteThrough = TRUE
    NoBlock = NoBlock
    CPU = {p1, p2}
    NPROC = 3
    MaxPid = 3
    KillPids = {}
    Priority = {1, 2}
INVARIANTS PipeInv ExclusiveHolder NoLostWakeup
PROPERTY FirstInFirstOut
PROPERTY CloseReleases
PROPERTY SleeperRuns
PROPERTY SleeperWoken
PROPERTY NoStarvation
