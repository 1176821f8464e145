----------------------------- MODULE MCWarmPool -----------------------------
(* Instances of WarmPool for TLC: requests and containers are symmetric.   *)
EXTENDS WarmPool, TLC

Symmetry == Permutations(Requests) \cup Permutations(Containers)

=============================================================================
