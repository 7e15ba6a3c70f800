CONSTANTS
    Producers = {p1, p2, p3, p4}
    Consumers = {c1, c2, c3, c4}
    Nobody = Nobody
    Initial = 4
    Batch = 3
    MaxSpurious = 1
SPECIFICATION FairSpec
INVARIANTS TypeOK SomeoneAwake ListBounded
PROPERTIES ListAlternates
