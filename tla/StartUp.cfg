SPECIFICATION Spec
CONSTANTS
    Volumes <- MCVolumes
    Confs <- MCConfs
    ReadOnly = {}
    Others <- MCOthers
    Configs <- MCConfigs
    None = None
    MaxRecs = 4
    MaxStarts = 3
    MaxBoots = 2
    MaxFaults = 1
INVARIANTS OneHang OneShotOnce TriesPaid KeptOnDisk
CHECK_DEADLOCK FALSE
