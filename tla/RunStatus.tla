------------------------------ MODULE RunStatus ------------------------------
(***************************************************************************)
(* The statuses of a run and the transition table of worker/state.py,      *)
(* shared by every module in which a run has a status.                     *)
(***************************************************************************)

\* "none" is the absence of a row in the table runs.
ActiveStatuses ==
    {"pending", "personas_ready", "paraphrases_ready", "probing", "stats_running"}
TerminalStatuses == {"completed", "failed"}
RunStatuses == ActiveStatuses \cup TerminalStatuses

ALLOWED_TRANSITIONS ==
    [pending           |-> {"personas_ready", "failed"},
     personas_ready    |-> {"paraphrases_ready", "failed"},
     paraphrases_ready |-> {"probing", "failed"},
     probing           |-> {"stats_running", "failed"},
     stats_running     |-> {"completed", "failed"},
     completed         |-> {},
     failed            |-> {}]

\* assert_can_transition does not raise.
CanTransition(current, target) ==
    /\ current \in RunStatuses
    /\ target \in ALLOWED_TRANSITIONS[current]
==============================================================================
