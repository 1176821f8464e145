------------------------ MODULE MCWorkspaceRetention ------------------------
(* Three instances of WorkspaceRetention in one state space, told apart by *)
(* `instance', which MCInit chooses: the constants of the configuration    *)
(* give "docker", those below "purge" (Kubernetes) and "archiving", which  *)
(* is about liveness.  No step leads from one to another.                  *)
EXTENDS WorkspaceRetention

CONSTANT OneFile

VARIABLE instance

Purging == INSTANCE WorkspaceRetention WITH
    Files <- OneFile, Backend <- "kubernetes", Restoring <- FALSE,
    Overlaps <- {"create"}, Faults <- {"acquire", "sweep", "delete"}

Archiving == INSTANCE WorkspaceRetention WITH
    Files <- OneFile, Restoring <- FALSE, MaxLifetime <- 4, MaxTime <- 3,
    Overlaps <- {"create", "destroy"}, Faults <- {}

In(name) == instance = name /\ UNCHANGED instance

MCInit == instance \in {"docker", "purge", "archiving"} /\ Init

MCNext ==
    \/ In("docker") /\ Next
    \/ In("purge") /\ Purging!Next
    \/ In("archiving") /\ Archiving!Next

mcVars == <<vars, instance>>

MCSpec ==
    /\ MCInit /\ [][MCNext]_mcVars
    /\ \A x \in Sessions : WF_mcVars(In("archiving") /\ Archiving!Finish(x))
    /\ WF_mcVars(In("archiving") /\ Archiving!Sweep)
    /\ WF_mcVars(In("archiving") /\ Archiving!TimePasses)

-----------------------------------------------------------------------------
(* WorkspaceRetention's properties, each in its instance.                  *)

(* Every variable has its type, whatever fails.                            *)
TypeCorrect == instance = "purge" => Purging!TypeOK

(* Docker, with restores: see NothingLost in WorkspaceRetention.           *)
NothingLostOnDocker == instance = "docker" => NothingLost

(* Kubernetes, with every fault: see DeletesOnlyPastGrace.                 *)
DeletedOnlyPastGrace == [][instance = "purge" => Purging!DeletesOnlyPastGrace]_mcVars

(* Under fairness: see IdleIsArchived.                                     *)
ArchivedInTheEnd == instance = "archiving" => Archiving!IdleIsArchived
=============================================================================
