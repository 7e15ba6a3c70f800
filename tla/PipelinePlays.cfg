CONSTANTS
    File <- Longer
    MaxPkt = 2
    Delay = 1
    Targets = {}
    MaxSeeks = 0
SPECIFICATION FairSpec
INVARIANTS QueuesBounded
PROPERTIES EndsByItself
CHECK_DEADLOCK FALSE
