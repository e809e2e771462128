CONSTANTS
    LastBlock = 8
    ArrLen = 2
    FirstUsable = 5
    LastUsable = 5
    T = T
    S = S
    t1 = t1
    s1 = s1
    x2 = x2
    m1 = m1
    m2 = m2
    Tables = {T, S}
    SoundTables = {T, S}
    Contents = {t1, s1, x2}
    Image <- MCImage
    Junk = Junk
    Protective = Protective
    Media = {m1, m2}
    Disks <- MCDisks
    BadBlocks <- MCBlocks
    MaxFaults = 2
    Clean = Clean
    NoPlan = NoPlan
    NoImage = NoImage
    NoTable = NoTable
    NoMedium = NoMedium
SPECIFICATION FairSpec
INVARIANTS IInv
PROPERTIES AlwaysRecoverable StaysRepairable ImplementsRedundantTable RepairsConverge
CHECK_DEADLOCK FALSE
