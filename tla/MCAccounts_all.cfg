SPECIFICATION MCSpec
CONSTANTS
    Sessions = {x1, x2, x3, x4}
    Operations = {"usage", "adjust", "review"}
    CreditRequests = {q1}
    NoSession = NoSession
    InitialBalance = 1
    Events = 2
    Costs = {0, 1}
    Estimates = {1, 2}
    Amount = 2
    CanCrash = TRUE
    Callers = {a1, a2}
    Reviews = {w1}
    SpendCap = 3
    Seconds = 2
    Raise = 1
    Flat <- MCFlat
    Rising <- MCRising
    Tenants = {"s", "t"}
    Emails = {"a", "b"}
    Roles = {"user", "admin"}
    Bootstrap = {"a"}
    Logins = {l1, l2}
    Changes = {d1}
    TokenTTL = 1
    SlowLogin = 1
    LoginTime = 2
    MaxTrail = 1
    Keys = {"k"}
    Uses = {u1, u2}
    Revokers = {v1, v2}
    Interval = 1
    SlowUse = 1
    KeyTime = 6
    Scopes = {"tenant", "u"}
    Versions = {"1", "2"}
    Ranges = {"*", "1"}
    Admins = {m1, m2}
    Ids = {1, 2, 3, 4}
SYMMETRY Symmetry
CHECK_DEADLOCK FALSE
INVARIANTS
    TypeCorrect
    DebtBounded
    ApprovedTakesEffect
    DraftsMissOpenOnly
    SeesWhatWasSet
PROPERTIES
    RolesAreTold
    KeysAreHonest
