\* Two user threads, three events in the queue, report sync on.
SPECIFICATION FairSpec
CONSTANTS
    u1 = u1
    u2 = u2
    Users <- TwoUsers
    QueueCap = 3
    MaxOut = 2
    Sync = TRUE
INVARIANTS
    TypeOK
    SessionIsLive
    ClaimIsBacked
PROPERTY
    LoginEnds
