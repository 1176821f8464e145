SPECIFICATION Spec
CONSTANTS
    Requests = {r1, r2}
    Containers = {c1, c2}
    NoContainer = NoContainer
    PoolTarget = 1
    Places = {"workspace", "elsewhere"}
    Faults = {"acquire", "recycle", "wipe", "exec", "destroy", "commit", "crash", "tick"}
    PoolOutlives = TRUE
    SlowRuns = TRUE
SYMMETRY Symmetry
INVARIANTS
    TypeOK
    ClaimExclusive
    NotOfferedInUse
PROPERTIES
    OwnershipRefined
