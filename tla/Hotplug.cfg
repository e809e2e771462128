SPECIFICATION FairSpec
CONSTANTS
    Handles = {"esp", "a", "b"}
    Nowhere = "none"
    Drivable = {"esp", "a", "b"}
    BootVolume = "esp"
    Paths = {"uki", "vmlinuz", "vmlinuz-lts", "grub", "bootx64", "linux"}
    Content <- MCContent
    StartLists <- MCStartLists
    TriedMax = 1
    Changes = {"plug", "unplug", "eject", "insert"}
    MaxChanges = 3
INVARIANTS IInv ReportTells FallbackAlone
PROPERTIES MenuSpec SearchEnds FoundOffered
