SPECIFICATION Spec
CONSTANTS
    NPROC = 3
    NFRAMES = 11
    NSHAREPAGE = 2
    KERN = 13
    MaxSz = 3
    Reach = FALSE
INVARIANT FlagsAreMappings
CHECK_DEADLOCK FALSE
