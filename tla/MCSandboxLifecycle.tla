------------------------- MODULE MCSandboxLifecycle -------------------------
(* Two instances of SandboxLifecycle in one state space, told apart by     *)
(* `instance', which Init chooses: the constants of the configuration give *)
(* "faults", those below "reaping".  No step leads from one to the other.  *)
EXTENDS SandboxLifecycle, TLC

CONSTANTS ReapedSandboxes, Visitors

VARIABLE instance

Reaping == INSTANCE SandboxLifecycle WITH
    Sandboxes <- ReapedSandboxes, Sessions <- Visitors, Broken <- {},
    IdleTTL <- 1, MaxTTL <- 3, MaxTime <- 5, Faults <- {"exit", "probe"}

MCInit ==
    \/ instance = "faults" /\ Init
    \/ instance = "reaping" /\ Reaping!Init

MCNext ==
    \/ instance = "faults" /\ Next /\ UNCHANGED instance
    \/ instance = "reaping" /\ Reaping!Next /\ UNCHANGED instance

mcVars == <<vars, instance>>

MCSpec ==
    /\ MCInit /\ [][MCNext]_mcVars
    /\ \A x \in Visitors : WF_mcVars(instance = "reaping" /\ Reaping!Finish(x) /\ UNCHANGED instance)
    /\ WF_mcVars(instance = "reaping" /\ Reaping!Reap /\ UNCHANGED instance)
    /\ WF_mcVars(instance = "reaping" /\ Reaping!TimePasses /\ UNCHANGED instance)

(* SandboxLifecycle's properties, each in its instance.                    *)
GoneOnceTerminated == instance = "faults" => TypeOK /\ TerminatedIsGone
RecentSpared == [][instance = "faults" => SparesRecent]_mcVars
ReapedInTheEnd == instance = "reaping" => Reaping!ExpiredIsReaped
=============================================================================
