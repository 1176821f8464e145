SPECIFICATION MCSpec
CONSTANTS
    Requests = {r1, r2}
    Containers = {c1, c2, c3, c4}
    NoContainer = NoContainer
    PoolTarget = 1
    Places = {}
    Faults = {"acquire", "recycle", "exec", "commit"}
    PoolOutlives = TRUE
    SlowRuns = FALSE
SYMMETRY Symmetry
INVARIANTS
    HandledUsable
    FreshSandboxUp
    PoolBounded
