\* Three writers, three laps of a ring of eight cells.
SPECIFICATION FairSpec
CONSTANTS
    w1 = w1
    w2 = w2
    w3 = w3
    Writers <- ThreeWriters
    N = 8
    Start = 1
    Lens = {1, 3}
    MaxPos = 20
INVARIANTS
    TypeOK
    WholeMessages
    EmptyIsEmpty
    EmptyTakesHalf
PROPERTIES
    IsFifo
    CommitEnds
    CommittedIsRead
CHECK_DEADLOCK FALSE
