CONSTANTS
    Players = {w1, w2}
    Feeders = {p1}
    MaxSessions = 2
    Chunks = 2
    None = None
SPECIFICATION FairSpec
INVARIANTS DataLive BufferLive WholeFilePlayed DeviceIsOwn
PROPERTIES StopTakes SessionsEnd
CHECK_DEADLOCK FALSE
