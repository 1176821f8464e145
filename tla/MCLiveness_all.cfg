SPECIFICATION MCSpec
CONSTANTS
    Sandbox = s1
    Requests = {r1, r2}
    Quick = {"c1"}
    Long = {"h1", "h2"}
    Sockets = {s1, s2}
CHECK_DEADLOCK FALSE
PROPERTIES
    LeftoversGo
    JobsEnd
    Answered
    LockPasses
