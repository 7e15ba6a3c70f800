CONSTANTS
    File <- Interleaved
    MaxPkt = 2
    Delay = 0
    Targets = {1}
    MaxSeeks = 1
SPECIFICATION Spec
INVARIANTS EarlyFramesDropped
CHECK_DEADLOCK FALSE
