SPECIFICATION Spec
CONSTANTS
    CPU = {c1}
    NPROC = 3
    MaxPid = 3
    KillPids = {}
    Priority = {1, 2}
PROPERTY HighFirst
