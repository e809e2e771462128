SPECIFICATION Spec
CONSTANTS
    Volumes <- MCVolumes
    Confs <- MCConfs
    ReadOnly = {}
    Others <- MCOthers
    Configs <- MCConfigs
    None = None
    MaxRecs = 4
    MaxStarts = 1
    MaxBoots = 3
    MaxFaults = 0
INVARIANT KeptOnDisk
CHECK_DEADLOCK FALSE
