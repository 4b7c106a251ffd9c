------------------------------ MODULE Calibration ------------------------------
(***************************************************************************)
(* calibration/: every clean survey of the corpus and every planted defect *)
(* is inserted as a run with synthesized responses, analyzed, deleted      *)
(* again and tallied; the result is stored in calibration_runs.  Container *)
(* starts do this when calibration_runs is empty, the command line always; *)
(* all of them here with the same configuration.                           *)
(*                                                                         *)
(* A survey is a sequence of questions [id, ordinal].  Of the synthesized  *)
(* responses only what the statistics make of them is kept: which findings *)
(* a report of the row has (found).  Every row has a seed of its own, so   *)
(* its findings are its own too, planted there or not; but the seeds are   *)
(* fixed, and every calibration of the configuration finds the same.       *)
(***************************************************************************)
EXTENDS Naturals, Sequences, FiniteSets

CONSTANTS
    Starts,     \* the calibrations
    Corpus,     \* the clean surveys, in order
    BlockSize,  \* items of a fatigue block, by severity
    Findings    \* bound: what the statistics may find, row by row, see Finding

Severities == {"subtle", "moderate", "obvious"}

ASSUME CorpusAssumption ==
    /\ Corpus \in Seq(Seq([id : STRING, ordinal : BOOLEAN]))
    /\ BlockSize \in [Severities -> Nat]

VARIABLES
    kind,       \* boot: bootstrap_if_empty; cli: calibrate; dry: calibrate --dry-run
    found,      \* the findings in the reports, by row
    pc, at,     \* progress of a calibration; the row it is at
    tally,      \* its CalibrationResults
    scratch,    \* transient rows in runs and probe_responses
    stored,     \* calibration_runs: who stored
    together    \* <<c, d>>: d had stored nothing yet when c looked

vars == <<kind, found, pc, at, tally, scratch, stored, together>>

-----------------------------------------------------------------------------
(* injection/ *)

ALL_DEFECT_CLASSES ==
    <<"leading_wording", "double_barreled", "loaded_language",
      "redundant_pair", "fatigue_block", "infeasible_screener">>
DefectClasses == {"leading_wording", "double_barreled", "loaded_language",
                  "redundant_pair", "fatigue_block", "infeasible_screener"}
ALL_SEVERITIES == <<"subtle", "moderate", "obvious">>

\* The rows of a calibration: 19 for each clean survey, the first one as it is.
PerSurvey == 1 + Len(ALL_DEFECT_CLASSES) * Len(ALL_SEVERITIES)
RowCount == Len(Corpus) * PerSurvey

\* What is planted, row by row.
Rows ==
    [k \in 1 .. RowCount |->
        LET j == (k - 1) % PerSurvey
        IN  [clean    |-> Corpus[((k - 1) \div PerSurvey) + 1],
             expected |-> IF j = 0 THEN "none" ELSE ALL_DEFECT_CLASSES[((j - 1) \div 3) + 1],
             severity |-> IF j = 0 THEN "none" ELSE ALL_SEVERITIES[((j - 1) % 3) + 1]]]

Eligible(s) == {i \in DOMAIN s : s[i].ordinal}

\* Which of the ordinal questions the seed draws makes no difference here.
Target(s) == CHOOSE i \in Eligible(s) : TRUE

\* A survey as injected: its questions, and whether it has a narrow quota.
Variant(questions, narrow) == [questions |-> questions, narrow |-> narrow]

Doubled(s) ==
    LET t == Target(s)
    IN  SubSeq(s, 1, t) \o <<s[t]>> \o SubSeq(s, t + 1, Len(s))

Fatigued(s, severity) ==
    LET item == [id |-> "FAT", ordinal |-> TRUE]
    IN  s \o [i \in 1 .. BlockSize[severity] |-> item]

\* inject: leading_wording, loaded_language and double_barreled change the text of a
\* question, redundant_pair puts a copy behind it; they return a survey without an
\* ordinal question as it is.
Injected(row) ==
    LET s == row.clean
    IN  CASE row.expected = "fatigue_block" -> Variant(Fatigued(s, row.severity), FALSE)
          [] row.expected = "infeasible_screener" -> Variant(s, TRUE)
          [] row.expected = "redundant_pair" /\ Eligible(s) # {} -> Variant(Doubled(s), FALSE)
          [] OTHER -> Variant(s, FALSE)

-----------------------------------------------------------------------------
(* runner.py: _detected_classes, on the report of a row *)

\* The questions with a shift between their wordings and those that separate nobody,
\* whether a pair of questions is tied, and whether a quota is too narrow (each at
\* medium severity or higher).
Finding == [shift : SUBSET Nat, spread : SUBSET Nat, tied : BOOLEAN, narrow : BOOLEAN]

ASSUME FindingsAssumption == Findings \subseteq [1 .. RowCount -> Finding]

\* irt.py, correlation.py: with less than two ordinal questions there is nothing to fit.
Comparable(s) == IF Cardinality(Eligible(s)) >= 2 THEN Eligible(s) ELSE {}

\* How often a class is in the list: once for each question with such a flag.  Two
\* of the classes never are.  The surveys of the corpus have no conditions and no
\* quotas, so there are no screener flags, and no quota flags but for the planted one.
Detected(v, f) ==
    [cls \in DefectClasses |->
        CASE cls = "leading_wording" -> Cardinality(f.shift \cap DOMAIN v.questions)
          [] cls = "double_barreled" -> Cardinality(f.spread \cap Comparable(v.questions))
          [] cls = "redundant_pair"  -> IF f.tied /\ Comparable(v.questions) # {} THEN 1 ELSE 0
          [] cls = "infeasible_screener" -> IF f.narrow /\ v.narrow THEN 1 ELSE 0
          [] OTHER -> 0]

\* What a calibration observes in row k.
Observed(k) == Detected(Injected(Rows[k]), found[k])

-----------------------------------------------------------------------------
(* metrics.py *)

Cells == DefectClasses \X Severities
Tally == [tp : Nat, fp : Nat, fn : Nat]
NoResults == [cell \in Cells |-> [tp |-> 0, fp |-> 0, fn |-> 0]]

\* Mutant: a miss is charged to the hard cell.
RecordMissAsSubtle(results, expected, severity, observed) ==
    LET hit == expected # "none" /\ observed[expected] > 0
    IN  [cell \in Cells |->
            [tp |-> results[cell].tp + (IF hit /\ cell = <<expected, severity>> THEN 1 ELSE 0),
             fn |-> results[cell].fn +
                        (IF ~hit /\ cell = <<expected, "subtle">> THEN 1 ELSE 0),
             fp |-> results[cell].fp]]

\* record: a clean survey's flags go to the cell subtle; every occurrence of a
\* class that was not planted counts.
Record(results, expected, severity, observed) ==
    LET Planted(cell) == expected # "none" /\ cell = <<expected, severity>>
        hit == expected # "none" /\ observed[expected] > 0
        charged == IF expected = "none" THEN "subtle" ELSE severity
    IN  [cell \in Cells |->
            LET t == results[cell]
            IN  IF Planted(cell)
                THEN IF hit THEN [t EXCEPT !.tp = @ + 1] ELSE [t EXCEPT !.fn = @ + 1]
                ELSE IF cell[2] = charged /\ cell[1] # expected
                     THEN [t EXCEPT !.fp = @ + observed[cell[1]]] ELSE t]

-----------------------------------------------------------------------------
(* runner.py: run_calibration; bootstrap.py: _calibrate_if_missing *)

Init ==
    /\ kind \in [Starts -> {"boot", "cli", "dry"}]
    /\ found \in Findings
    /\ pc = [c \in Starts |-> IF kind[c] = "boot" THEN "check" ELSE "insert"]
    /\ at = [c \in Starts |-> 1]
    /\ tally = [c \in Starts |-> NoResults]
    /\ scratch = {} /\ stored = {} /\ together = {}

Goto(c, to) == pc' = [pc EXCEPT ![c] = to]

\* Mutant: only the number of this session's own rows is looked at.
CheckNothing(c) ==
    /\ pc[c] = "check"
    /\ Goto(c, "insert")
    /\ together' = together \cup {<<c, d>> : d \in Starts \ stored}
    /\ UNCHANGED <<kind, found, at, tally, scratch, stored>>

\* _calibration_present, in a session of its own.
Check(c) ==
    /\ pc[c] = "check"
    /\ Goto(c, IF stored = {} THEN "insert" ELSE "skipped")
    /\ together' = together \cup {<<c, d>> : d \in Starts \ stored}
    /\ UNCHANGED <<kind, found, at, tally, scratch, stored>>

\* Mutant: one row more than there are.
InsertPastEnd(c) ==
    /\ pc[c] = "insert" /\ at[c] <= RowCount + 1
    /\ Goto(c, "analyze")
    /\ scratch' = scratch \cup {<<c, at[c]>>}
    /\ UNCHANGED <<kind, found, at, tally, stored, together>>

\* _persist_synthetic, up to its first commit.
Insert(c) ==
    /\ pc[c] = "insert" /\ at[c] <= RowCount
    /\ Goto(c, "analyze")
    /\ scratch' = scratch \cup {<<c, at[c]>>}
    /\ UNCHANGED <<kind, found, at, tally, stored, together>>

\* Mutant: the responses are deleted, the run is not.
AnalyzeOnly(c) ==
    /\ pc[c] = "analyze"
    /\ tally' = [tally EXCEPT ![c] = Record(@, Rows[at[c]].expected, Rows[at[c]].severity,
                                            Observed(at[c]))]
    /\ at' = [at EXCEPT ![c] = @ + 1]
    /\ Goto(c, "insert")
    /\ UNCHANGED <<kind, found, scratch, stored, together>>

\* The analyzers read the rows of a run nobody else knows; then the rows are
\* deleted, which is the second commit, and the result is recorded.
Analyze(c) ==
    /\ pc[c] = "analyze"
    /\ scratch' = scratch \ {<<c, at[c]>>}
    /\ tally' = [tally EXCEPT ![c] = Record(@, Rows[at[c]].expected, Rows[at[c]].severity,
                                            Observed(at[c]))]
    /\ at' = [at EXCEPT ![c] = @ + 1]
    /\ Goto(c, "insert")
    /\ UNCHANGED <<kind, found, stored, together>>

Finished(c) == at[c] > RowCount

\* The CalibrationRun is added and committed, unless this is a dry run.
Persist(c) ==
    /\ pc[c] = "insert" /\ Finished(c)
    /\ Goto(c, "done")
    /\ stored' = IF kind[c] = "dry" THEN stored ELSE stored \cup {c}
    /\ UNCHANGED <<kind, found, at, tally, scratch, together>>

\* The container goes away, or something raises: nothing is cleaned up.
Cut(c) ==
    /\ pc[c] \in {"check", "insert", "analyze"}
    /\ Goto(c, "cut")
    /\ UNCHANGED <<kind, found, at, tally, scratch, stored, together>>

Next ==
    \E c \in Starts : Check(c) \/ Insert(c) \/ Analyze(c) \/ Persist(c) \/ Cut(c)

Spec == Init /\ [][Next]_vars

-----------------------------------------------------------------------------
(* Properties *)

TypeOK ==
    /\ kind \in [Starts -> {"boot", "cli", "dry"}]
    /\ pc \in [Starts -> {"check", "insert", "analyze", "done", "skipped", "cut"}]
    /\ at \in [Starts -> 1 .. RowCount + 1]
    /\ tally \in [Starts -> [Cells -> Tally]]
    /\ scratch \subseteq Starts \X (1 .. RowCount)
    /\ stored \subseteq Starts
    /\ together \subseteq Starts \X Starts

\* The rows that plant what this cell is about.
Plants == [cell \in Cells |->
              {k \in 1 .. RowCount : <<Rows[k].expected, Rows[k].severity>> = cell}]

\* Every planted defect is counted once, as a hit or as a miss of its own cell,
\* whatever else is flagged with it.
TallyBalanced ==
    \A c \in Starts : \A cell \in Cells :
        tally[c][cell].tp + tally[c][cell].fn = Cardinality({k \in Plants[cell] : k < at[c]})

\* A run without a user that stays in the tables, in an active status, is what a
\* calibration left behind that was cut between its two commits: at most one each.
LeftoverWasCut ==
    \A t \in scratch : pc[t[1]] \in {"analyze", "cut"} /\ at[t[1]] = t[2]

\* A container start stores a result beside another one only if it had looked before
\* that one was stored.
AgainOverlapped ==
    \A c, d \in stored : kind[c] = "boot" /\ c # d => <<c, d>> \in together
===============================================================================
