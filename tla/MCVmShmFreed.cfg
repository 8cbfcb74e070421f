SPECIFICATION Spec
CONSTANTS
    NPROC = 3
    NFRAMES = 11
    NSHAREPAGE = 2
    KERN = 13
    MaxSz = 3
    Reach = TRUE
INVARIANT FramesConserved
CHECK_DEADLOCK FALSE
