---------------------------- MODULE MCCalibration ----------------------------
(* Instances of Calibration for TLC. *)
EXTENDS Calibration, TLC

CONSTANTS a, b

Clean(id, ordinal) == [id |-> id, ordinal |-> ordinal]

OneSurvey == <<<<Clean("Q1", TRUE), Clean("Q4", FALSE), Clean("Q5", TRUE)>>>>

Items == [subtle |-> 2, moderate |-> 3, obvious |-> 4]

\* What a row may be found to have: nothing, the ordinal questions or a planted quota,
\* or false alarms only.
Blank == [shift |-> {}, spread |-> {}, tied |-> FALSE, narrow |-> FALSE]
Sharp == [shift |-> {1}, spread |-> {1, 3, 4}, tied |-> TRUE, narrow |-> TRUE]
Wild  == [shift |-> {2, 3}, spread |-> {1, 2}, tied |-> FALSE, narrow |-> FALSE]

\* Rows that all find the same, and rows of mixed luck: only the rows of leading
\* wording or of one severity find what is there, or every row finds something else.
SomeFindings ==
    {[k \in 1 .. RowCount |-> Sharp],
     [k \in 1 .. RowCount |-> Blank],
     [k \in 1 .. RowCount |-> IF k \in 2 .. 4 THEN Sharp ELSE Blank],
     [k \in 1 .. RowCount |-> IF k % 3 = 1 THEN Sharp ELSE Wild],
     [k \in 1 .. RowCount |-> CASE k % 3 = 0 -> Sharp [] k % 3 = 1 -> Blank [] OTHER -> Wild]}

StartSymmetry == Permutations(Starts)
==============================================================================
