SPECIFICATION Spec
CONSTANTS
    Proc = {p1, p2}
    Block = {b1, b2}
    Val = {0, 1}
    LOGSIZE = 6
    MAXOPBLOCKS = 3
    LogBlocks = 7
    OpBlocks = 2
    WriteThrough = TRUE
    NoBlock = NoBlock
SYMMETRY Symmetry
PROPERTY NoUncommittedUpdateOnDisk
