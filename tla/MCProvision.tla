----------------------------- MODULE MCProvision -----------------------------
(* The two provisioners and the batch runs in their sandboxes, one after   *)
(* the other in one state space: `part' says which is being explored, and  *)
(* the others stay in their initial state.  The parts share no state, so   *)
(* their interleavings would show nothing.                                 *)
EXTENDS KubernetesNamespace, TLC

CONSTANTS Sandboxes, Runs

VARIABLES part, dockerPc, at, exists, refs, aged, gcPc, suspects, unseen, found, victim,
          execPc, dump, wrote, alive, children, ended, produced, buffered, truncated, timedOut, exit, variables

Docker == INSTANCE DockerSandbox WITH
    pc <- dockerPc, Sidecars <- 2, SlowAcquire <- FALSE, Faults <- {"start", "health", "crash", "list"}

(* One sandbox, and a daemon whose calls fail.                             *)
Daemon == INSTANCE DockerSandbox WITH
    pc <- dockerPc, Sandboxes <- {"s"}, Sidecars <- 2, SlowAcquire <- FALSE,
    Faults <- {"start", "health", "daemon", "delete", "crash", "list"}

Exec == INSTANCE BatchExec WITH
    pc <- execPc, Backend <- "kubernetes", Kept <- FALSE, MaxOutput <- 2, MaxMessage <- 2, MaxProduced <- 4,
    Faults <- {"timeout", "killed", "start", "status", "dump"}

(* Runs that overlap in a sandbox of their own.                            *)
Shared == INSTANCE BatchExec WITH
    pc <- execPc, Backend <- "docker", Kept <- TRUE, MaxOutput <- 1, MaxMessage <- 1, MaxProduced <- 2,
    Faults <- {"timeout", "status", "fork"}

onlyDocker == <<exists, dockerPc, at, refs, aged, gcPc, suspects, unseen, found, victim>>
onlyExec == <<dump, wrote, alive, children, execPc, ended, produced, buffered, truncated, timedOut, exit, variables>>
mcVars == <<part, vars, onlyDocker, onlyExec>>

MCInit ==
    /\ part \in {"kubernetes", "docker", "daemon", "exec", "shared"}
    /\ Init
    /\ IF part = "daemon" THEN Daemon!Init ELSE Docker!Init
    /\ IF part = "shared" THEN Shared!Init ELSE Exec!Init

Now(p, others) == part = p /\ UNCHANGED <<part, others>>

MCNext ==
    \/ Now("kubernetes", <<onlyDocker, onlyExec>>) /\ Next
    \/ Now("docker", <<vars, onlyExec>>) /\ Docker!Next
    \/ Now("daemon", <<vars, onlyExec>>) /\ Daemon!Next
    \/ Now("exec", <<vars, onlyDocker>>) /\ Exec!Next
    \/ Now("shared", <<vars, onlyDocker>>) /\ Shared!Next

MCSpec == MCInit /\ [][MCNext]_mcVars

Symmetry == Permutations(Sessions) \cup Permutations(Sandboxes) \cup Permutations(Runs)

-----------------------------------------------------------------------------
(* The properties of the modules; KubernetesNamespace's are its own.       *)

TypeCorrect ==
    CASE part = "kubernetes" -> TypeOK [] part = "docker" -> Docker!TypeOK [] part = "daemon" -> Daemon!TypeOK
      [] part = "exec" -> Exec!TypeOK [] part = "shared" -> Shared!TypeOK

(* DockerSandbox: no sidecar outlives main, and a failed acquire leaves    *)
(* nothing.                                                                *)
NothingStranded == part = "docker" => Docker!SidecarsHaveMain /\ Docker!FailedLeavesNothing

(* DockerSandbox: the GC spares the live, whatever the daemon fails to do. *)
LiveIsSpared == [][part = "daemon" => Daemon!SparesLive]_mcVars

(* BatchExec: output, exit code and variables are what the process did;    *)
(* among runs that share a sandbox, the output.                            *)
ResultHonest ==
    /\ part = "exec" => Exec!OutputHonest /\ Exec!ExitHonest /\ Exec!WrittenVariablesOwn
    /\ part = "shared" => Shared!OutputHonest
==============================================================================
