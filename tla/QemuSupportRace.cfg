CONSTANTS
    Procs = {p1, p2}
    VMs = {v1}
    Images = {m1}
    Inodes = {i1, i2}
    None = None
    Concurrent = TRUE
    Kills = FALSE
    StampFaults = FALSE
    TempFaults = FALSE
    PartialCleans = FALSE
SPECIFICATION Spec
SYMMETRY Symmetry
PROPERTIES KeptBinaryIsRight
