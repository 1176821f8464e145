------------------------ MODULE ContainerOwnership ------------------------
(***************************************************************************)
(* What the control plane promises about a container (Docker) or namespace *)
(* (Kubernetes), without saying how: at any time it belongs to one user,   *)
(* to the warm pool, or to nobody who remembers it ("lost"), or it does    *)
(* not exist.  Users never hand containers to each other: everything that  *)
(* changes hands goes through the pool or is destroyed, and what was lost  *)
(* can only be destroyed.                                                  *)
(***************************************************************************)
CONSTANTS
    Containers,
    Users       \* whoever a container can be handed to

VARIABLE owner  \* owner[c]: a user, "pool", "lost", or "nobody" when c does not exist

Owners == Users \cup {"pool", "lost", "nobody"}

OwnerTypeOK == owner \in [Containers -> Owners]

OwnerInit == owner = [c \in Containers |-> "nobody"]

(* acquire() for a user, or for the pool.                                  *)
Provision(c, o) ==
    /\ owner[c] = "nobody"
    /\ owner' = [owner EXCEPT ![c] = o]

(* A user takes an idle container.                                         *)
Take(c, u) ==
    /\ owner[c] = "pool"
    /\ owner' = [owner EXCEPT ![c] = u]

(* A user gives its container back, or never really took it.               *)
GiveBack(c) ==
    /\ owner[c] \in Users
    /\ owner' = [owner EXCEPT ![c] = "pool"]

(* Containers whose owner went away without giving them back.              *)
Lose(S) ==
    /\ \A c \in S : owner[c] \in Users \cup {"pool"}
    /\ owner' = [c \in Containers |-> IF c \in S THEN "lost" ELSE owner[c]]

Destroy(c) ==
    owner' = [owner EXCEPT ![c] = "nobody"]

OwnerNext ==
    \/ \E c \in Containers :
          \/ Provision(c, "pool") \/ GiveBack(c) \/ Destroy(c)
          \/ \E u \in Users : Provision(c, u) \/ Take(c, u)
    \/ \E S \in SUBSET Containers : Lose(S)

OwnerSpec == OwnerInit /\ [][OwnerNext]_owner

=============================================================================
