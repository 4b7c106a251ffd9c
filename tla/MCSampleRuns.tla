----------------------------- MODULE MCSampleRuns -----------------------------
(* Instances of SampleRuns for TLC. *)
EXTENDS SampleRuns, TLC

CONSTANTS s1, s2, c1, c2, b1, b2

TwoSamples == <<s1, s2>>

FirstClicked == [c \in Clicks |-> s1]

\* The container is replaced when it has gone.
OneContainer == \A b \in Boots : AtWork({b}) => ~AtWork(Boots \ {b})

RequestSymmetry == Permutations(Clicks) \cup Permutations(Boots)
===============================================================================
