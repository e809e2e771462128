SPECIFICATION DiscoverySpec
CONSTANTS
    Nothing = Nothing
    Beginnings <- MCBeginnings
    Number <- MCNumber
    Cmdline <- MCCmdline
    Colors = {}
    Roles = {}
    Hashes = {"hash"}
    Hotspots = {}
    Sizes = {}
    KeyNames = {}
    WindowsPaths = {"/win"}
    LoaderPaths = {"/shim"}
    Inputs <- MCInputs
    VolumeOrder <- MCOrder
    BootVolume = "esp"
    Beside <- MCBeside
    Within <- MCWithin
    MaxLines = 12
    MaxSnaps = 2
    MaxNames = 3
    AutoMax = 2
    MaxRecovery = 2
    MaxThemes = 2
    Budgets <- MCBudgets
INVARIANTS EarlyAgrees OnlySelfExcluded SnapshotsFit
