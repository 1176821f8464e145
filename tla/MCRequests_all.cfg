SPECIFICATION MCSpec
CONSTANTS
    Requests = {r1, r2}
    Patience = 2
    Faults = {"run", "first", "commit", "mark", "restart"}
    Askers = {"c1", "c2", "c3", "h1", "l1"}
    Creating = {"c1", "c2", "c3"}
    Heavy = {"h1", "c3"}
    Connections = 2
    HeavySlots = 1
    Quota = 1
    Limited = {a1, a2}
    Limit = 2
    Window = 3
    Delay = 1
    MaxTime = 6
    MaxCalls = 5
    Sockets = {s1, s2, s3}
    Viewers = {"u", "v"}
    TTL = 3
    Publications = {q1, q2}
    Boxes = {"b"}
    Components <- MCComponents
    Templates <- MCTemplates
    Entitled = {1}
    Triggers = {t1, t2}
    Buildable <- MCBuildable
    Callers <- MCCallers
    MaxBuilds = 2
    Charts = {"chart"}
    Cached = {"jq"}
SYMMETRY Symmetry
CHECK_DEADLOCK FALSE
INVARIANTS
    TypeCorrect
    RunsHonest
    OverAdmissionBounded
    LimitIsKept
    PublishedStays
    PinnedRunsWhatRuns
    RestartsWhole
PROPERTIES
    ViewersTakeTurns
