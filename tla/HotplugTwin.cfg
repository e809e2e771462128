SPECIFICATION FairSpec
CONSTANTS
    Handles = {"esp", "a", "b"}
    Nowhere = "none"
    Drivable = {"esp", "a", "b"}
    BootVolume = "esp"
    Paths = {"uki", "vmlinuz", "vmlinuz-lts", "grub", "bootx64", "linux"}
    Content <- MCContent
    StartLists <- MCConfigured
    TriedMax = 1
    Changes = {"plug"}
    MaxChanges = 2
PROPERTIES Offered
