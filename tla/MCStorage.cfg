SPECIFICATION MCSpec
CONSTANTS
    Proc = {p1, p2}
    Block = {b1, b2, b3}
    Val = {0, 1}
    LOGSIZE = 8
    MAXOPBLOCKS = 4
    LogBlocks = 8
    OpBlocks = 2
    WriteThrough = FALSE
    NoBlock = NoBlock
    SmallProc = {q1, q2, q3}
    SmallLOGSIZE = 4
    SmallMAXOPBLOCKS = 2
    SmallOpBlocks = 1
    NoProc = NoProc
    Name = {"a", "d"}
    Programs <- MCPrograms
    NINODES = 4
    NBLOCKS = 4
    NINODE = 5
    NOFILE = 1
    MaxFile = 1
    Requests <- MCCalls
    MaxCalls = 3
    MaxCrashes = 1
    SIZE = 8
    ImgInodes = 8
    BMAPSTART = 3
    NDIRECT = 1
    NINDIRECT = 2
    DPB = 4
    ImgName = {"", ".", "..", "a", "b"}
    Images <- MCImages
    MaxFaults = 2
SYMMETRY Symmetry
INVARIANTS TypeOK Reservation LogNeverPanics IdleIsDurable IcacheInv BlocksOwnedOnce NoInodePanic CommittedTree CirclesNeedIput VerdictRight
PROPERTY AtomicAcrossCrashes
