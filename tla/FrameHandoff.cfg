CONSTANTS
    Decoders = {d1, d2}
    MaxFrames = 3
SPECIFICATION FairSpec
INVARIANTS GivenBackOnce PixelsLive RestIsLive
PROPERTIES ShowsInOrder EveryFrameShown
CHECK_DEADLOCK FALSE
