\* Two callers, both links, three removals, rounds of one event, one refusal.
SPECIFICATION FairSpec
CONSTANTS
    u1 = u1
    u2 = u2
    Users <- TwoUsers
    Engine = engine
    G98 = g98
    Fgw = fgw
    Slots = 3
    Rounds = 1
    Faults = 1
INVARIANTS
    TypeOK
    RefIsPoll
    LinkFollowsWord
    BatchIsCurrent
    CallsGoOn
    RemovalsMatch
PROPERTIES
    LinkIsTold
    ClosingEnds
    ChargeEnds
