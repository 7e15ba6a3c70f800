CONSTANTS
    Sessions = {s1, s2}
    MaxBytes = 4
    Packets = {1, 2}
    Word = 4
    Header = 2
    Riff = 1
    None = None
SPECIFICATION FairSpec
INVARIANTS RecordingWhole
PROPERTIES EndsWhenAsked StopEnds
CHECK_DEADLOCK FALSE
