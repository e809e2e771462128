SPECIFICATION Spec
CONSTANTS
    Second = 12
    Rate = 6
    RatesAsked = {1, 5}
    FpsMin = 4
    FpsMax = 5
    Pictures <- MCPictures
    JpegLength <- MCJpegLength
    MaxFrames = 3
    MaxBytes = 36
    MaxIndex = 10
    BufSize = 12
    Rooms = {20, 99}
    OldFile <- MCOldFile
    Active = 4
    MaxNow = 8
    None = None
INVARIANTS Playable SoundInPlace
CHECK_DEADLOCK FALSE
