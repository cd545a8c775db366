SPECIFICATION Spec
CONSTANTS
    GroupBits = 2
    Width = 5
    MaxLen = 17
    Lengths = {0, 1, 6, 17, 18}
    Fill = 2
    MaxFrames = 3
INVARIANTS TypeOK FramesIntact CleanEofIsWhole OnlyOversizeRefused
CHECK_DEADLOCK FALSE
