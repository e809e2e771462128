SPECIFICATION Spec
CONSTANTS
    Configs <- MCConfigs
    EntryOf <- MCEntryOf
    Locked = {"luks"}
    Paths = {"/file"}
    Volumes = {"disk", "stick"}
    UuidOf <- MCUuidOf
    Snapshots <- MCSnapshots
    MoreWords = {"more"}
    None = None
    Unset = Unset
    MaxWords = 2
    MaxBoots = 2
INVARIANTS OneShotEdits OnlyItsSecret FirstMenu
CHECK_DEADLOCK FALSE
