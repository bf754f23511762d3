CONSTANTS
    fedora = fedora
    ubuntu = ubuntu
    alpine = alpine
    busybox = busybox
    VMs = {v1, v2}
    Images = {fedora, alpine, busybox}
    Locals = {u1}
    Key <- MCKey
    Ships <- MCShips
    None = None
    Hazards <- CleanOnly
SPECIFICATION Spec
SYMMETRY Symmetry
INVARIANTS DiskInv NoWrongDisk
PROPERTIES SourceUntouched DiskKept
