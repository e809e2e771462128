SPECIFICATION FairSpec
CONSTANTS
    LastSlot = 2
    OtherPaths = {"windows"}
    Loaders <- MCLoaders
    Cooldown = 2
    ConfigPolicies <- MCConfigPolicies
    ShellPolicies <- MCShellPolicies
    FirstEntries <- MCFirstEntries
    FirstOrders <- MCFirstOrders
    OtherOrders <- MCOtherOrders
    MaxMeddling = 1
    MaxFaults = 1
    None = None
    Broken = Broken
    Missing = Missing
    Malformed = Malformed
    NoSlot = NoSlot
INVARIANTS IInv
PROPERTIES OthersKeepTheirPlace CooldownHonoured EntryComesBack FallbackComesBack
