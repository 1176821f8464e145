SPECIFICATION Spec
CONSTANTS
    Requests = {r1, r2}
    Containers = {c1, c2, c3}
    NoContainer = NoContainer
    PoolTarget = 1
    Places = {}
    Faults = {}
    PoolOutlives = TRUE
    SlowRuns = FALSE
SYMMETRY Symmetry
INVARIANTS
    LiveSandboxUp
