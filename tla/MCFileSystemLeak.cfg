SPECIFICATION Spec
CONSTANTS
    Proc = {p, q}
    NoProc = NoProc
    Name = {"a", "d"}
    Programs <- MCPrograms
    NINODES = 4
    NBLOCKS = 4
    NINODE = 5
    NOFILE = 1
    MaxFile = 1
    Requests <- MCCalls
    MaxCalls = 2
    MaxCrashes = 0
SYMMETRY Symmetry
INVARIANT UnlinkedIsFreed
CHECK_DEADLOCK FALSE
