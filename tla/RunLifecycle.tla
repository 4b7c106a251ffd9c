----------------------------- MODULE RunLifecycle -----------------------------
(***************************************************************************)
(* What the run table promises to its readers (the progress stream, the    *)
(* report page, the sample list): a run is created pending, moves along    *)
(* the transition table one status at a time, may fail while it is active, *)
(* and never leaves completed or failed.  The worker pipeline is checked   *)
(* to implement this machine.                                              *)
(***************************************************************************)
EXTENDS RunStatus

CONSTANT Runs
VARIABLE status

Init == status = [r \in Runs |-> "none"]

Create(r) ==
    /\ status[r] = "none"
    /\ status' = [status EXCEPT ![r] = "pending"]

\* set_run_status with enforce=True, on the status the row really has.
Advance(r) ==
    \E target \in RunStatuses \ {"failed"} :
        /\ CanTransition(status[r], target)
        /\ status' = [status EXCEPT ![r] = target]

Fail(r) ==
    /\ CanTransition(status[r], "failed")
    /\ status' = [status EXCEPT ![r] = "failed"]

Next == \E r \in Runs : Create(r) \/ Advance(r) \/ Fail(r)

Spec == Init /\ [][Next]_status
===============================================================================
