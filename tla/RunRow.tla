-------------------------------- MODULE RunRow --------------------------------
(***************************************************************************)
(* What the tables runs and reports promise, together, to somebody who     *)
(* polls one run: the API, and through it the page in the browser.  The    *)
(* status may go back (a failed run is picked up again, a session writes   *)
(* what it had read), a report may be withdrawn while it is computed anew, *)
(* but completed is never announced before the report is there.            *)
(***************************************************************************)
EXTENDS RunStatus

VARIABLES
    status,     \* runs.status; "none" while there is no row
    reported    \* the run has a row in reports

row == <<status, reported>>

RowInit == status = "none" /\ ~reported

Insert == status = "none" /\ status' = "pending" /\ UNCHANGED reported

\* Any status a worker may write over the one the row has.
Move ==
    /\ status # "none"
    /\ status' \in RunStatuses \ {"pending", "completed"}
    /\ UNCHANGED reported

\* The report is committed before or with the status that announces it.
Complete == status # "none" /\ status' = "completed" /\ reported' = TRUE

\* The report of the analyze job, or of a precompute whose session had loaded
\* the row as completed.
Store == status # "none" /\ reported' = TRUE /\ UNCHANGED status

\* A precompute deletes the report it is going to replace.
Withdraw == reported /\ reported' = FALSE /\ UNCHANGED status

RowNext == Insert \/ Move \/ Complete \/ Store \/ Withdraw

RowSpec == RowInit /\ [][RowNext]_row
===============================================================================
