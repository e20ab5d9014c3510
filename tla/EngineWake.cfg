\* Three producers, a queue of three events, rounds of two.
SPECIFICATION FairSpec
CONSTANTS
    p1 = p1
    p2 = p2
    p3 = p3
    Producers <- ThreeProducers
    Cap = 3
    Poll = 2
INVARIANTS
    TypeOK
PROPERTIES
    KeepsAwake
    EventsAreRead
    SleepsAtLast
