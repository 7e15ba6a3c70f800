CONSTANTS
    File <- Interleaved
    MaxPkt = 2
    Delay = 1
    Targets = {0, 1}
    MaxSeeks = 2
SPECIFICATION Spec
INVARIANTS TypeOK NothingLost OldPacketsGone SeekHonoured EverythingPlayed NoStandstill
PROPERTIES PlaysTheFile
CHECK_DEADLOCK FALSE
