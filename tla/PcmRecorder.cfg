CONSTANTS
    Flushes = {f1, f2, f3}
    MaxPackets = 4
    BufferSize = 1
SPECIFICATION Spec
INVARIANTS NothingTwice NothingMissing
CHECK_DEADLOCK FALSE
