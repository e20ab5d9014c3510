CONSTANTS
    a1 = a1
    a2 = a2
    Accounts <- TwoAccounts
    QueueCap = 3
    OneCust = TRUE
    CloseNotifies = FALSE
SPECIFICATION Spec
SYMMETRY Symmetry
INVARIANTS
    OneAccountBound
