CONSTANTS
    a1 = a1
    a2 = a2
    Accounts <- TwoAccounts
    QueueCap = 3
    OneCust = FALSE
    CloseNotifies = TRUE
SPECIFICATION Spec
SYMMETRY Symmetry
INVARIANT
    NoLoginLost
