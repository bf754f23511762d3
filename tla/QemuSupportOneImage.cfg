CONSTANTS
    Procs = {p1}
    VMs = {v1, v2}
    Images = {m1}
    Inodes = {i1, i2, i3}
    None = None
    Concurrent = FALSE
    Kills = TRUE
    StampFaults = TRUE
    TempFaults = TRUE
    PartialCleans = FALSE
SPECIFICATION Spec
SYMMETRY Symmetry
INVARIANTS BinaryReady MountedIntact
