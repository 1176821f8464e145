SPECIFICATION FairSpec
CONSTANTS
    Requests = {r1}
    Containers = {c1, c2, c3}
    NoContainer = NoContainer
    PoolTarget = 1
    Places = {}
    Faults = {"acquire", "recycle", "exec", "destroy", "commit", "crash"}
    PoolOutlives = TRUE
    SlowRuns = TRUE
PROPERTIES
    LostAreCollected
