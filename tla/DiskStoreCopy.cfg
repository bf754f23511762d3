CONSTANTS
    fedora = fedora
    ubuntu = ubuntu
    alpine = alpine
    busybox = busybox
    VMs = {v1}
    Images = {ubuntu}
    Locals = {u1}
    Key <- MCKey
    Ships <- MCShips
    None = None
    Hazards <- CopyOnly
SPECIFICATION Spec
INVARIANTS NoWrongDisk
