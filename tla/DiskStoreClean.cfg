CONSTANTS
    fedora = fedora
    ubuntu = ubuntu
    alpine = alpine
    busybox = busybox
    VMs = {v1}
    Images = {fedora}
    Locals = {u1}
    Key <- MCKey
    Ships <- MCShips
    None = None
    Hazards <- CleanOnly
SPECIFICATION Spec
INVARIANTS DiskThere
