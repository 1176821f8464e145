SPECIFICATION Spec
CONSTANTS
    Sessions = {x1, x2}
    Operations = {"usage", "adjust"}
    CreditRequests = {q1}
    NoSession = NoSession
    InitialBalance = 3
    Events = 2
    Costs = {1}
    Estimates = {2}
    Amount = 2
    CanCrash = FALSE
SYMMETRY Symmetry
INVARIANTS
    LedgerExplainsBalance
