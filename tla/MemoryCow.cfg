CONSTANTS
    Spaces = {s1, s2}
    Threads = {t1, t2}
    Frames = {f1, f2, f3}
    PageSize = 2
    NPages = 3
    MaxVmas = 3
    Images <- MCImages
    Requests <- MCRequests
    MmapBase = 4
    Targets = {5}
    MaxOps = 3
    Allowed <- ProtectShared
SPECIFICATION Spec
PROPERTY WritesArePrivate
SYMMETRY MCSymmetry
CHECK_DEADLOCK FALSE
