-------------------------------- MODULE MCCaches --------------------------------
(* Instances of Caches for TLC. *)
EXTENDS Caches, TLC

CONSTANTS r1, r2, c1, c2, q1, q2, t1, t2

\* A run of two questions, and a run of one that it has in common with the first.
MCSurvey == r1 :> {q1, q2} @@ r2 :> {q1}
MCProbed == r1 :> q2 @@ r2 :> q1
MCText == q1 :> t1 @@ q2 :> t2

\* Bound: a job of the second run that fails is not tried again.
SecondTriesOnce == attempt[r2] = 1
=================================================================================
