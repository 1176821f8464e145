------------------------------ MODULE AsyncRuns ------------------------------
(***************************************************************************)
(* POST /v1/execute?async=true: the request commits a pending `runs' row   *)
(* and leaves; a background task of the same process drives execute() and  *)
(* writes the outcome on the row; the SDK polls the row until it is done   *)
(* or its patience ends.                                                   *)
(*                                                                         *)
(* execute() writes the result, the usage records and the sandbox's row in *)
(* one transaction at its end; a failure is written by a session of its    *)
(* own.                                                                    *)
(***************************************************************************)
EXTENDS Naturals

CONSTANTS
    Requests,
    Patience,  \* polls before wait_for_run gives up
    Faults

ASSUME PatienceAssumption == Patience \in Nat \ {0}
ASSUME AsyncFaults == Faults \subseteq {"first", "run", "commit", "lost", "mark", "restart"}

Done == {"completed", "failed"}

VARIABLES
    status,   \* of each request's row; "none" before it is committed
    result,   \* the row has the run's output and exit code
    charged,  \* the run's usage records are committed
    task,     \* where the background task is
    program,  \* how often the user's program was run
    client,   \* where the SDK's caller is
    polls,
    seen      \* the last status wait_for_run has read

rowVars == <<status, result, charged>>
clientVars == <<client, polls, seen>>
vars == <<rowVars, task, program, clientVars>>

-----------------------------------------------------------------------------

TypeOK ==
    /\ status \in [Requests -> {"none", "pending", "running"} \cup Done]
    /\ result \in [Requests -> BOOLEAN] /\ charged \in [Requests -> BOOLEAN]
    /\ task \in [Requests -> {"none", "queued", "running", "ran", "failing", "over"}]
    /\ program \in [Requests -> 0 .. 1]
    /\ client \in [Requests -> {"idle", "refused", "waiting", "answered", "gave up"}]
    /\ polls \in [Requests -> 0 .. Patience]
    /\ seen \in [Requests -> {"none", "pending", "running"} \cup Done]

Init ==
    /\ status = [r \in Requests |-> "none"]
    /\ result = [r \in Requests |-> FALSE] /\ charged = [r \in Requests |-> FALSE]
    /\ task = [r \in Requests |-> "none"] /\ program = [r \in Requests |-> 0]
    /\ client = [r \in Requests |-> "idle"] /\ polls = [r \in Requests |-> 0]
    /\ seen = [r \in Requests |-> "none"]

To(f, r, x) == [f EXCEPT ![r] = x]

-----------------------------------------------------------------------------
(* start_async_run, in the request: an unknown language or template is     *)
(* refused here, and so is everything if there is no session factory.      *)

Refuse(r) ==
    /\ client[r] = "idle"
    /\ client' = To(client, r, "refused")
    /\ UNCHANGED <<rowVars, task, program, polls, seen>>

Accept(r) ==
    /\ client[r] = "idle"
    /\ status' = To(status, r, "pending")
    /\ task' = To(task, r, "queued")
    /\ client' = To(client, r, "waiting")
    /\ UNCHANGED <<result, charged, program, polls, seen>>

-----------------------------------------------------------------------------
(* run_async.                                                              *)

Begin(r) ==
    /\ task[r] = "queued"
    /\ status' = To(status, r, "running")
    /\ task' = To(task, r, "running")
    /\ UNCHANGED <<result, charged, program, clientVars>>

(* Loading the row and marking it running come before the try.             *)
BeginFails(r) ==
    /\ "first" \in Faults
    /\ task[r] = "queued"
    /\ task' = To(task, r, "over")
    /\ UNCHANGED <<rowVars, program, clientVars>>

(* execute, up to its commit: its quota or billing check may refuse, the   *)
(* sandbox may not come up, the run may raise.                             *)
Run(r) ==
    /\ task[r] = "running"
    /\ program' = To(program, r, 1)
    /\ task' = To(task, r, "ran")
    /\ UNCHANGED <<rowVars, clientVars>>

RunFails(r) ==
    /\ "run" \in Faults
    /\ task[r] = "running"
    /\ \/ UNCHANGED program
       \/ program' = To(program, r, 1)
    /\ task' = To(task, r, "failing")
    /\ UNCHANGED <<rowVars, clientVars>>

(* Mutant: the result is committed before the usage is recorded.           *)
CommitUncharged(r) ==
    /\ task[r] = "ran"
    /\ status' = To(status, r, "completed")
    /\ result' = To(result, r, TRUE)
    /\ task' = To(task, r, "over")
    /\ UNCHANGED <<charged, program, clientVars>>

Commit(r) ==
    /\ task[r] = "ran"
    /\ status' = To(status, r, "completed")
    /\ result' = To(result, r, TRUE)
    /\ charged' = To(charged, r, TRUE)
    /\ task' = To(task, r, "over")
    /\ UNCHANGED <<program, clientVars>>

CommitFails(r) ==
    /\ "commit" \in Faults
    /\ task[r] = "ran"
    /\ task' = To(task, r, "failing")
    /\ UNCHANGED <<rowVars, program, clientVars>>

(* The database commits, but the connection breaks before it says so.      *)
CommitLost(r) ==
    /\ "lost" \in Faults
    /\ task[r] = "ran"
    /\ status' = To(status, r, "completed")
    /\ result' = To(result, r, TRUE)
    /\ charged' = To(charged, r, TRUE)
    /\ task' = To(task, r, "failing")
    /\ UNCHANGED <<program, clientVars>>

(* The rollback, and the failure's own session.                            *)
MarkFailed(r) ==
    /\ task[r] = "failing"
    /\ status' = To(status, r, "failed")
    /\ task' = To(task, r, "over")
    /\ UNCHANGED <<result, charged, program, clientVars>>

MarkFailedFails(r) ==
    /\ "mark" \in Faults
    /\ task[r] = "failing"
    /\ task' = To(task, r, "over")
    /\ UNCHANGED <<rowVars, program, clientVars>>

(* A restart ends all background tasks; none is resumed.  The HTTP clients *)
(* of the SDK poll on.                                                     *)
Restart ==
    /\ "restart" \in Faults
    /\ task' = [r \in Requests |-> IF task[r] = "none" THEN "none" ELSE "over"]
    /\ UNCHANGED <<rowVars, program, clientVars>>

-----------------------------------------------------------------------------
(* wait_for_run.                                                           *)

Poll(r) ==
    /\ client[r] = "waiting" /\ polls[r] < Patience
    /\ polls' = To(polls, r, polls[r] + 1)
    /\ seen' = To(seen, r, status[r])
    /\ client' = To(client, r, IF status[r] \in Done THEN "answered"
                               ELSE IF polls'[r] = Patience THEN "gave up" ELSE "waiting")
    /\ UNCHANGED <<rowVars, task, program>>

-----------------------------------------------------------------------------

Work(r) ==
    \/ Begin(r) \/ BeginFails(r) \/ Run(r) \/ RunFails(r)
    \/ Commit(r) \/ CommitFails(r) \/ CommitLost(r) \/ MarkFailed(r) \/ MarkFailedFails(r)

Next ==
    \/ \E r \in Requests : Refuse(r) \/ Accept(r) \/ Work(r) \/ Poll(r)
    \/ Restart

Spec == Init /\ [][Next]_vars

(* The event loop runs what is scheduled; calls return.                    *)
FairSpec == Spec /\ \A r \in Requests : WF_vars(Work(r)) /\ WF_vars(Poll(r))

-----------------------------------------------------------------------------
(* Properties.                                                             *)

(* A run is charged for exactly when its caller can have its result: the   *)
(* result, the usage and the audit entry are one transaction, and neither  *)
(* a failing commit nor a failure recorded afterwards separates them.      *)
ChargedForResult ==
    \A r \in Requests : (charged[r] <=> status[r] = "completed") /\ (charged[r] => result[r])

(* What wait_for_run has returned stays true: the row it was returned for  *)
(* has that status for ever.                                               *)
AnswerStands == \A r \in Requests : client[r] = "answered" => seen[r] \in Done /\ status[r] = seen[r]

(* Both: what a caller is told and charged is what the row says.           *)
RunsHonest == ChargedForResult /\ AnswerStands

(* "A failure has to be recorded on the row - otherwise a poller waits     *)
(* forever on a pending run that will never move."                         *)
RecordedInTheEnd == \A r \in Requests : status[r] # "none" ~> status[r] \in Done

=============================================================================
