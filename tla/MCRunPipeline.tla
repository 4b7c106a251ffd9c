---------------------------- MODULE MCRunPipeline ----------------------------
(* Instances of RunPipeline for TLC. *)
EXTENDS RunPipeline, TLC

CONSTANTS r1, r2, q1, q2, q3, w1, w2, a1, t1, t2

OneRun == {r1}
TwoRuns == {r1, r2}

\* r1 probes every question; r2 has nothing to probe.
MCSurvey == [r \in Runs |-> IF r = r1 THEN Questions ELSE {}]

\* q1 and q2 differ in text and id; q3 says what q1 says and has the id of q2.
MCText == [q \in Questions |-> IF q = q2 THEN t2 ELSE t1]
MCFirst == [r \in Runs |-> [q \in Questions |-> IF q = q3 THEN q2 ELSE q]]

\* The runs share an audience.
MCAudience == [r \in Runs |-> a1]

WorkerSymmetry == Permutations(Workers)
==============================================================================
