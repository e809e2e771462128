SPECIFICATION Spec
CONSTANTS
    VolumeOrder <- MCVolumeOrder
    BootVolume = "esp"
    DriverVolumes = {"root"}
    PathVolumes = {"esp", "root"}
    Files <- MCFiles
    HostPath <- MCHostPath
    Contents = {"stub", "other", "raw", "win", "ird", "ird2", "sealedstub", "sealedird", "tampered"}
    NoVolume = "none"
    Missing = "missing"
    Unreadable = "unreadable"
    Entries <- MCEntries
    Disks <- MCDisks
    Sealed <- MCSealed
    Passwords = {"p", "q"}
    PasswordBytes <- MCPasswordBytes
    UnsafeNames = {"..", ".", "a:b"}
    DefaultKeyPath <- MCDefaultKeyPath
    PeImages = {"stub", "other", "win"}
    BzImages = {"raw", "stub"}
    Trusted = {"stub", "win"}
    SetupOf <- MCSetupOf
    BootMgrPaths <- MCBootMgrPaths
    Policies <- MCPolicies
    BootOptions <- MCBootOptions
    None = None
    Limit = 5
    MaxChanges = 1
    MaxBoots = 3
INVARIANTS OnlyVerifiedRuns CompleteHandover RightVolumes CleanReturn RawPlaced
PROPERTIES NoHandoffLoop
CHECK_DEADLOCK FALSE
