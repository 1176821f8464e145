SPECIFICATION MCSpec
CONSTANTS
    Sessions = {x1, x2}
    Persistent = TRUE
    Faults = {"api", "pod", "timeout", "crash"}
    Sandboxes = {s1, s2}
    Runs = {r1, r2}
SYMMETRY Symmetry
INVARIANTS
    TypeCorrect
    Confined
    ArchivedFromClaim
    NothingStranded
    ResultHonest
PROPERTIES
    LiveIsSpared
