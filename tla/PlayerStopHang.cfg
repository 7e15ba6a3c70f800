CONSTANTS
    Main = Main
    Readers = {r1}
SPECIFICATION FairSpec
CONSTRAINT OnlySecondStop
PROPERTIES StopNotifies
CHECK_DEADLOCK FALSE
