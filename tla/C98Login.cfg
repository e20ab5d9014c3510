\* Two accounts, a queue of two, one request without answer per account.
SPECIFICATION FairSpec
CONSTANTS
    a1 = a1
    a2 = a2
    Accounts <- TwoAccounts
    QueueCap = 2
    MaxOut = 1
INVARIANTS
    TypeOK
    OwedIsCarried
    MarkIsBacked
    OnlyAccepted
PROPERTIES
    KeepsPromise
    LoginEnds
