SPECIFICATION MCSpec
CONSTANTS
    CPU = {c1, c2}
    NPROC = 4
    MaxPid = 4
    KillPids = {3}
    Priority = {}
    ThreadPid = 4
    ThreadSz = 2
    Disciplined = TRUE
    VmSlots = 3
    NFRAMES = 11
    NSHAREPAGE = 2
    KERN = 13
    VmSz = 3
    Reach = FALSE
    HEAP = 8
    MORE = 3
    HDR = 2
    Bytes = {0, 2, 3, 6}
    UintMod = 64
    Null = Null
SYMMETRY Symmetry
INVARIANTS TypeOK OneCpuPerProcess ParentAlive WaitersMustWait AddressSpaceAlive SlotInv ReapersMustWait FramesConserved SpaceInv HeapInv
