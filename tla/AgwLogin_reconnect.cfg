\* What the comments of deal_link_connect say of a reconnection.
SPECIFICATION Spec
CONSTANTS
    u1 = u1
    u2 = u2
    Users <- TwoUsers
    QueueCap = 2
    MaxOut = 2
    Sync = FALSE
INVARIANT
    ReconnectLogsIn
