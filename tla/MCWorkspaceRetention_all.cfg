SPECIFICATION MCSpec
CONSTANTS
    Users = {u1}
    Rows = {1}
    Sessions = {x1, x2}
    Files = {f1, f2}
    OneFile = {f1}
    Backend = "docker"
    OnePerUser = FALSE
    IdleRetention = 1
    ArchiveGrace = 1
    MaxLifetime = 3
    MaxTime = 4
    Restoring = TRUE
    Overlaps = {}
    Faults = {"acquire"}
INVARIANTS
    TypeCorrect
    NothingLostOnDocker
PROPERTIES
    DeletedOnlyPastGrace
    ArchivedInTheEnd
