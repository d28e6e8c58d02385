SPECIFICATION GifSpec
CONSTANTS
    MaxImages = 3
    Delays = {0, 3, 6, 8, 9, 15, 30}
    Short = {9}
    MinDelay = 6
INVARIANT FramesExact
