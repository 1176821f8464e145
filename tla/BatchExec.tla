------------------------------ MODULE BatchExec ------------------------------
(***************************************************************************)
(* exec_batch of both provisioners, on one sandbox that serves run after   *)
(* run: a pooled container between execute requests, or (Kept) a sandbox   *)
(* of its own in which run_in_sandbox may run several at a time.           *)
(*                                                                         *)
(* The provisioner feeds the process, buffers its output up to a limit,    *)
(* asks for its exit status when its output ends or gives up after a wall  *)
(* clock limit, and then reads the file into which the language's runner   *)
(* may have written the program's variables when it ended.  The file lies  *)
(* in /tmp, which no run clears and recycle() does not wipe.               *)
(***************************************************************************)
EXTENDS Naturals

CONSTANTS
    Runs,
    Backend,     \* "docker" or "kubernetes"
    Kept,        \* the sandbox outlives its runs whatever becomes of them
    MaxOutput,   \* max_output_bytes
    MaxMessage,  \* bytes that arrive at once
    MaxProduced, \* bytes a process writes (bound of the model)
    Faults       \* some of "timeout", "killed", "start", "status", "dump", "fork"

Killed == 137
TimeoutCode == 124
Codes == {0, 1, Killed, TimeoutCode}
Unknown == 255   \* the exit code of a process that has not ended

Nobody == "nobody"
Earlier == "earlier"   \* a run that has been answered

VARIABLES
    dump,       \* whose variables the dump file holds; Nobody's: absent or unparsable
    wrote,      \* runs whose process has written the file (kept for the properties)
    alive,      \* runs whose process exists in the container
    children,   \* runs that left another process there
    ended,      \* the exit code of each run's process
    pc,         \* where each exec_batch is
    produced,   \* bytes the process has written
    buffered,   \* bytes the provisioner has kept
    truncated,
    timedOut,
    exit,       \* the result's exit_code
    variables   \* the result's variables: whose they are

container == <<dump, wrote, alive, children, ended>>
outputVars == <<produced, buffered, truncated>>
resultVars == <<timedOut, exit, variables>>
vars == <<container, pc, outputVars, resultVars>>

-----------------------------------------------------------------------------

TypeOK ==
    /\ dump \in Runs \cup {Nobody, Earlier} /\ wrote \subseteq Runs
    /\ alive \subseteq Runs /\ children \subseteq Runs \cup {Earlier}
    /\ ended \in [Runs -> Codes \cup {Unknown}]
    /\ pc \in [Runs -> {"idle", "exec", "dump", "done", "failed"}]
    /\ produced \in [Runs -> 0 .. MaxProduced] /\ buffered \in [Runs -> 0 .. MaxProduced]
    /\ truncated \in [Runs -> BOOLEAN] /\ timedOut \in [Runs -> BOOLEAN]
    /\ exit \in [Runs -> Codes \cup {Unknown}]
    /\ variables \in [Runs -> Runs \cup {Nobody, Earlier}]

Init ==
    /\ dump = Nobody /\ wrote = {} /\ alive = {} /\ children = {}
    /\ ended = [r \in Runs |-> Unknown]
    /\ pc = [r \in Runs |-> "idle"]
    /\ produced = [r \in Runs |-> 0] /\ buffered = [r \in Runs |-> 0]
    /\ truncated = [r \in Runs |-> FALSE] /\ timedOut = [r \in Runs |-> FALSE]
    /\ exit = [r \in Runs |-> Unknown] /\ variables = [r \in Runs |-> Nobody]

Go(r, where) == pc' = [pc EXCEPT ![r] = where]

(* put_files and the start of the exec.  A pooled container has one run.   *)
(* What an earlier run of this slot left there becomes Earlier's.          *)
Start(r) ==
    /\ pc[r] = "idle" /\ r \notin alive
    /\ Kept \/ \A q \in Runs : pc[q] = "idle"
    /\ alive' = alive \cup {r}
    /\ ended' = [ended EXCEPT ![r] = Unknown]
    /\ dump' = IF dump = r THEN Earlier ELSE dump
    /\ children' = IF r \in children THEN (children \ {r}) \cup {Earlier} ELSE children
    /\ wrote' = wrote \ {r}
    /\ Go(r, "exec")
    /\ UNCHANGED <<outputVars, resultVars>>

(* A file cannot be written, or the exec cannot be started.                *)
StartFails(r) ==
    /\ "start" \in Faults
    /\ pc[r] = "idle" /\ r \notin alive
    /\ Kept \/ \A q \in Runs : pc[q] = "idle"
    /\ Go(r, "failed")
    /\ UNCHANGED <<container, outputVars, resultVars>>

(* A message of n bytes is kept whole as long as the buffer is below the   *)
(* limit.                                                                  *)
Output(r, n) ==
    /\ pc[r] = "exec" /\ r \in alive
    /\ produced[r] + n <= MaxProduced
    /\ produced' = [produced EXCEPT ![r] = @ + n]
    /\ IF buffered[r] < MaxOutput
       THEN buffered' = [buffered EXCEPT ![r] = @ + n] /\ UNCHANGED truncated
       ELSE truncated' = [truncated EXCEPT ![r] = TRUE] /\ UNCHANGED buffered
    /\ UNCHANGED <<container, pc, resultVars>>

(* The process is gone.  It has written the file, or broken off (Nobody's),*)
(* or not touched it, and an earlier run's is still there.                 *)
Exits(r) ==
    /\ alive' = alive \ {r}
    /\ \E owner \in {r, Nobody, dump} :
          /\ dump' = owner
          /\ wrote' = IF owner = r THEN wrote \cup {r} ELSE wrote

(* The program returns, raises or exits.  The runner then writes the dump, *)
(* unless the program ended with os._exit or the file cannot be opened     *)
(* (`except OSError'); a value that cannot be encoded breaks it off.       *)
End(r) ==
    /\ r \in alive
    /\ Exits(r)
    /\ \E code \in {0, 1} : ended' = [ended EXCEPT ![r] = code]
    /\ \/ UNCHANGED children
       \/ "fork" \in Faults /\ children' = children \cup {r}
    /\ UNCHANGED <<pc, outputVars, resultVars>>

(* A process the program started and left behind writes the file.          *)
ChildWrites(r) ==
    /\ r \in children
    /\ dump' = r
    /\ UNCHANGED <<wrote, alive, children, ended, pc, outputVars, resultVars>>

(* The process is killed, for its memory for instance, at any moment.      *)
Kill(r) ==
    /\ "killed" \in Faults
    /\ r \in alive
    /\ Exits(r)
    /\ ended' = [ended EXCEPT ![r] = Killed]
    /\ UNCHANGED <<children, pc, outputVars, resultVars>>

(* The output has ended, and the exit code is asked for.                   *)
Finish(r) ==
    /\ pc[r] = "exec" /\ r \notin alive
    /\ exit' = [exit EXCEPT ![r] = ended[r]]
    /\ Go(r, "dump")
    /\ UNCHANGED <<container, outputVars, timedOut, variables>>

(* Docker suppresses an error of inspect, Kubernetes raises when the exec  *)
(* session ends without a status frame.                                    *)
NoStatus(r) ==
    /\ "status" \in Faults
    /\ pc[r] = "exec" /\ r \notin alive
    /\ IF Backend = "docker"
       THEN exit' = [exit EXCEPT ![r] = 0] /\ Go(r, "dump")
       ELSE Go(r, "failed") /\ UNCHANGED exit
    /\ UNCHANGED <<container, outputVars, timedOut, variables>>

(* The stream is closed; the process goes on.                              *)
TimeOut(r) ==
    /\ "timeout" \in Faults
    /\ pc[r] = "exec"
    /\ timedOut' = [timedOut EXCEPT ![r] = TRUE]
    /\ exit' = [exit EXCEPT ![r] = TimeoutCode]
    /\ Go(r, "dump")
    /\ UNCHANGED <<container, outputVars, variables>>

(* _read_variable_dump: whatever the file holds; null if it cannot be read.*)
ReadDump(r) ==
    /\ pc[r] = "dump"
    /\ \/ variables' = [variables EXCEPT ![r] = dump]
       \/ "dump" \in Faults /\ variables' = [variables EXCEPT ![r] = Nobody]
    /\ Go(r, "done")
    /\ UNCHANGED <<container, outputVars, timedOut, exit>>

(* Mutant: a sandbox that hit its time limit goes back to the pool.        *)
CleanIfWhole(r) == pc[r] = "done" /\ ~truncated[r]

(* _is_clean_run.                                                          *)
Clean(r) == pc[r] = "done" /\ ~timedOut[r] /\ ~truncated[r]

(* The run has been answered.  A kept sandbox stays as it is, a pooled one *)
(* is recycled, which wipes /workspace only, or another takes its place.   *)
Release(r) ==
    /\ pc[r] \in {"done", "failed"}
    /\ Go(r, "idle")
    /\ produced' = [produced EXCEPT ![r] = 0] /\ buffered' = [buffered EXCEPT ![r] = 0]
    /\ truncated' = [truncated EXCEPT ![r] = FALSE] /\ timedOut' = [timedOut EXCEPT ![r] = FALSE]
    /\ exit' = [exit EXCEPT ![r] = Unknown] /\ variables' = [variables EXCEPT ![r] = Nobody]
    /\ IF Kept \/ Clean(r)
       THEN UNCHANGED container
       ELSE dump' = Nobody /\ alive' = {} /\ children' = {} /\ UNCHANGED <<wrote, ended>>

-----------------------------------------------------------------------------

Next ==
    \/ \E r \in Runs \cup {Earlier} : ChildWrites(r)
    \/ \E r \in Runs :
        \/ Start(r) \/ StartFails(r) \/ (\E n \in 1 .. MaxMessage : Output(r, n))
        \/ End(r) \/ Kill(r) \/ Finish(r) \/ NoStatus(r) \/ TimeOut(r) \/ ReadDump(r) \/ Release(r)

Spec == Init /\ [][Next]_vars

-----------------------------------------------------------------------------
(* Properties.                                                             *)

(* A result that is not marked truncated has all the output up to its end  *)
(* (or the time limit), and none exceeds the limit by a whole message.     *)
OutputHonest ==
    \A r \in Runs :
        /\ ~truncated[r] => buffered[r] = produced[r]
        /\ buffered[r] < MaxOutput + MaxMessage

(* The reported exit code is the process's, or that of a timeout.          *)
ExitHonest ==
    \A r \in Runs :
        pc[r] \in {"dump", "done"} => IF timedOut[r] THEN exit[r] = TimeoutCode ELSE exit[r] = ended[r]

(* A run that has written its variables and is not shared gets its own: no *)
(* process of an earlier run is left in a container that is used again,    *)
(* which could have written the file between the run's end and its read.   *)
WrittenVariablesOwn ==
    \A r \in Runs :
        pc[r] = "done" /\ ~timedOut[r] /\ r \in wrote => variables[r] \in {r, Nobody}

(* So does every run whose program ended by itself: "a missing dump just   *)
(* yields variables=null".  But the file of an earlier run is there.       *)
EndedVariablesOwn ==
    \A r \in Runs :
        pc[r] = "done" /\ ~timedOut[r] /\ ended[r] # Killed => variables[r] \in {r, Nobody}

(* variables are null for a run whose process has not written the file:    *)
(* "absent/unparsable -> null".                                            *)
VariablesOwn == \A r \in Runs : pc[r] = "done" => variables[r] \in {r, Nobody}

=============================================================================
