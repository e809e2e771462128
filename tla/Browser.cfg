SPECIFICATION BrowserSpec
CONSTANTS
    Setups <- MCSetups
    Names <- MCNames
    Rank <- MCRank
    Prefix <- MCPrefix
    EfiNames = {"shim"}
    Size <- MCSize
    MaxReads = 5
    MaxEntries = 4
    NameMax = 9
    PathMax = 8
    MaxPulls = 1
    None = None
INVARIANTS ListingRight PickIsShown
CHECK_DEADLOCK FALSE
