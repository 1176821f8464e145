SPECIFICATION MCSpec
CONSTANTS
    Users = {u1, u2}
    Rows = {1}
    Sessions = {x1, x2}
    Files = {f1}
    OneFile = {f1}
    Backend = "docker"
    OnePerUser = FALSE
    IdleRetention = 1
    ArchiveGrace = 1
    MaxLifetime = 3
    MaxTime = 3
    Restoring = FALSE
    Overlaps = {}
    Faults = {}
INVARIANTS
    NothingLostOnDocker
