---------------------------- MODULE MCPoolMembers ----------------------------
(* Two instances of WarmPool in one state space, told apart by `instance', *)
(* which MCInit chooses: the constants of the configuration give "failing",*)
(* those below "handled", where what fails is what the code handles.       *)
EXTENDS MCWarmPool

VARIABLE instance

Handled == INSTANCE WarmPool WITH
    Places <- {"workspace"}, Faults <- {"acquire", "recycle", "tick"}, PoolOutlives <- FALSE, SlowRuns <- FALSE

In(name) == instance = name /\ UNCHANGED instance

MCInit == instance \in {"failing", "handled"} /\ Init

MCNext ==
    \/ In("failing") /\ Next
    \/ In("handled") /\ Handled!Next

mcVars == <<vars, instance>>

MCSpec == MCInit /\ [][MCNext]_mcVars

(* What a request can claim exists, and its workspace is empty: see        *)
(* MembersUsable in WarmPool.                                              *)
HandledUsable == instance = "handled" => Handled!MembersUsable
==============================================================================
