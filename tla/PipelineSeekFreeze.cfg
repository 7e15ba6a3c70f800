CONSTANTS
    File <- Interleaved
    MaxPkt = 2
    Delay = 0
    Targets = {0, 1}
    MaxSeeks = 1
SPECIFICATION FairSpec
PROPERTIES ClockArrives
CHECK_DEADLOCK FALSE
