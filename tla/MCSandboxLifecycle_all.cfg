SPECIFICATION MCSpec
CONSTANTS
    Sandboxes = {s1, s2}
    Sessions = {x1}
    Broken = {s2}
    IdleTTL = 2
    MaxTTL = 3
    MaxTime = 3
    Faults = {"exit", "destroy", "commit", "crash"}
    ReapedSandboxes = {s1}
    Visitors = {x1, x2}
INVARIANTS
    GoneOnceTerminated
PROPERTIES
    RecentSpared
    ReapedInTheEnd
