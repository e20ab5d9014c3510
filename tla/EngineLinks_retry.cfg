\* A start() that fails after the link is up.
SPECIFICATION Spec
CONSTANTS
    u1 = u1
    u2 = u2
    Users <- TwoUsers
    Engine = engine
    G98 = g98
    Fgw = fgw
    Slots = 3
    Rounds = 1
    Faults = 0
INVARIANTS
    RetryFindsLinkFree
