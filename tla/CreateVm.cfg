CONSTANTS
    Text <- MCText
    Word32 = 512
    Word64 = 64
    Multiplier <- MCMultiplier
    ValidNames = {"web", "db"}
    LocalFiles <- MCLocalFiles
    Images <- MCImages
    Inputs <- MCInputs
SPECIFICATION Spec
INVARIANTS
    CreateInv
    FollowsInput
    Convertible
    FlagsTakePrecedence
    PortsKept
    VolumesMounted
    GuestDisks
    SizeAsAsked
    LoginAsAsked
CHECK_DEADLOCK FALSE
