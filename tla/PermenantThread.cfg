CONSTANTS
    Callers = {c1, c2}
    Tasks = {t1, t2}
SPECIFICATION FairSpec
INVARIANTS NothingStranded
PROPERTIES TasksPerformed StopReturns ThreadEnds
CHECK_DEADLOCK FALSE
