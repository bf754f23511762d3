CONSTANTS
    Procs = {p1}
    VMs = {v1, v2}
    Images = {m1, m2}
    Inodes = {i1, i2, i3}
    None = None
    Concurrent = FALSE
    Kills = FALSE
    StampFaults = FALSE
    TempFaults = TRUE
    PartialCleans = TRUE
SPECIFICATION Spec
SYMMETRY Symmetry
INVARIANTS SupportInv BinaryReady MountsReady MountedIntact
