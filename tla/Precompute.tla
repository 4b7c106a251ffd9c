------------------------------ MODULE Precompute ------------------------------
(***************************************************************************)
(* seeds/precompute_reports.py: precompute_for_run on one run, by several  *)
(* containers at once: it deletes what there is, inserts the synthesized   *)
(* responses, analyzes them with one SELECT per question and two for the   *)
(* whole survey, and stores the report.  Each SELECT sees what is          *)
(* committed at its time.  The responses are those of a fixed seed, so     *)
(* every precompute inserts the same rows: the table holds them or not.    *)
(* Its writes to paraphrase_cache are in Caches.                           *)
(*                                                                         *)
(* A survey is [questions, rules, cells, panel, links, persons, converged],*)
(* see ScreenerGraph and Analyzers; the measured numbers go with it.       *)
(***************************************************************************)
EXTENDS Analyzers

CONSTANTS Surveys, Starts

\* There is a precompute, and the questions of a survey are a sequence.
ASSUME PrecomputeAssumption ==
    /\ Starts # {}
    /\ \A sv \in Surveys :
          Len(sv.questions) \in Nat /\ DOMAIN sv.questions = 1 .. Len(sv.questions)

\* A paraphrase at no distance is answered as the original wording is: the means are
\* equal, or there is no variance to compare them by.
ASSUME MeasuresAssumption ==
    \A sv \in Surveys : \A i \in DOMAIN sv.questions :
        LET vs == sv.questions[i].variants
        IN  /\ sv.questions[i].matched \in Nat
            /\ vs \in Seq([w : Nat, d : Int])
            /\ \A k \in DOMAIN vs : vs[k].w = 0 => vs[k].d \in {0, NoEffect}

\* A question has no or one condition.
ASSUME ConditionsAssumption ==
    \A sv \in Surveys : \A i \in DOMAIN sv.questions :
        /\ sv.questions[i].options \in Nat
        /\ \A c, d \in sv.questions[i].cond : c = d

\* A panel is finite, and nobody in it weighs less than nothing.
ASSUME PanelAssumption ==
    \A sv \in Surveys : IsFiniteSet(sv.panel) /\ \A p \in sv.panel : p.weight \in Nat

VARIABLES
    survey,     \* the survey of the run
    responses,  \* the run has its rows in probe_responses
    report,     \* reports: who wrote it, and which of its SELECTs found the responses
    status,     \* runs.status, of which "completed" matters
    pc, read,   \* progress of a precompute; what its SELECTs have found so far
    crossed     \* precomputes that had another one delete the rows they were reading

vars == <<survey, responses, report, status, pc, read, crossed>>

NoReport == [by |-> {}, read |-> <<>>]

Init ==
    /\ survey \in Surveys
    /\ responses = FALSE /\ report = NoReport /\ status = "pending"
    /\ pc = [p \in Starts |-> "delete"]
    /\ read = [p \in Starts |-> <<>>]
    /\ crossed = {}

\* One SELECT per question, then that of the 2PL fit and that of the correlations.
Selects == Len(survey.questions) + 2

Goto(p, to) == pc' = [pc EXCEPT ![p] = to]

\* Mutant: only the report is deleted.
DeleteReport(p) ==
    /\ pc[p] = "delete" /\ Goto(p, "insert")
    /\ report' = NoReport
    /\ crossed' = crossed \cup {q \in Starts \ {p} : pc[q] = "read"}
    /\ UNCHANGED <<survey, responses, status, read>>

\* Committed before the new rows are there.
Delete(p) ==
    /\ pc[p] = "delete" /\ Goto(p, "insert")
    /\ responses' = FALSE /\ report' = NoReport
    /\ crossed' = crossed \cup {q \in Starts \ {p} : pc[q] = "read"}
    /\ UNCHANGED <<survey, status, read>>

\* No two rows have the same key: persona, question id and paraphrase.
Insertable == ~responses /\ DistinctIds(survey.questions)

\* Mutant: the batch of rows is empty.
InsertNothing(p) ==
    /\ pc[p] = "insert" /\ Insertable /\ Goto(p, "read")
    /\ UNCHANGED <<survey, responses, report, status, read, crossed>>

Insert(p) ==
    /\ pc[p] = "insert" /\ Insertable /\ Goto(p, "read")
    /\ responses' = TRUE
    /\ UNCHANGED <<survey, report, status, read, crossed>>

\* A plain INSERT raises on the rows of another precompute, and on its own rows when
\* two questions have one id.
Conflict(p) ==
    /\ pc[p] = "insert" /\ ~Insertable /\ Goto(p, "conflict")
    /\ UNCHANGED <<survey, responses, report, status, read, crossed>>

Select(p) ==
    /\ pc[p] = "read" /\ Len(read[p]) < Selects
    /\ read' = [read EXCEPT ![p] = Append(@, responses)]
    /\ UNCHANGED <<survey, responses, report, status, pc, crossed>>

\* compose, then the upsert of the report and the status in one commit.
Store(p) ==
    /\ pc[p] = "read" /\ Len(read[p]) = Selects /\ Goto(p, "done")
    /\ report' = [by |-> {p}, read |-> read[p]]
    /\ status' = "completed"
    /\ UNCHANGED <<survey, responses, read, crossed>>

\* The container goes away, or a statement raises.
Cut(p) ==
    /\ pc[p] \in {"insert", "read"} /\ Goto(p, "cut")
    /\ UNCHANGED <<survey, responses, report, status, read, crossed>>

Next == \E p \in Starts :
    Delete(p) \/ Insert(p) \/ Conflict(p) \/ Select(p) \/ Store(p) \/ Cut(p)

Spec == Init /\ [][Next]_vars

-----------------------------------------------------------------------------
(* The report *)

Questions == survey.questions
HasReport == report # NoReport
Whole == \A i \in DOMAIN report.read : report.read[i]

\* What the stored report says.
PerQuestion ==
    [i \in DOMAIN Questions |->
        QuestionSeverity(survey, i, report.read[i], report.read[Selects - 1])]
Redundancy == RedundantPairs(Questions, survey.links, report.read[Selects])
Screener == ScreenerFlags(Questions, survey.rules)
Quotas == [k \in DOMAIN survey.cells |-> CellSeverity(survey.panel, survey.cells[k])]

-----------------------------------------------------------------------------
(* Properties *)

TypeOK ==
    /\ responses \in BOOLEAN
    /\ report.by \subseteq Starts /\ report.read \in Seq(BOOLEAN)
    /\ status \in {"pending", "completed"}
    /\ pc \in [Starts -> {"delete", "insert", "read", "done", "conflict", "cut"}]
    /\ read \in [Starts -> Seq(BOOLEAN)]
    /\ crossed \subseteq Starts
    /\ HasReport =>
          /\ PerQuestion \in [DOMAIN Questions -> Severities]
          /\ Exposure(PerQuestion).flagged <= Len(Questions)
          /\ \A l \in Redundancy : l[3] \in Severities
          /\ \A k \in DOMAIN Quotas : Quotas[k] \in Severities

\* A completed run's report that took the responses for missing was composed while
\* another precompute deleted them: such a report shows no flag for the question,
\* as if it had been found good.
MissingWasCrossed ==
    HasReport /\ ~Whole => report.by \subseteq crossed

\* When nobody works on the run any more and no precompute was cut off, the run
\* has its responses and a report, however the precomputes overlapped and although
\* some of them ended in a conflict; of a survey without equal ids.
SettledIsWhole ==
    DistinctIds(Questions) /\ (\A p \in Starts : pc[p] \in {"done", "conflict"}) =>
        responses /\ HasReport /\ status = "completed"

\* The cycle check never says more than the order check: a loop and a self-loop
\* always hold a question whose dependency does not come before it.
LoopsAreForward ==
    HasReport =>
        LET late == {Questions[i].id : i \in Screener.unreachable_question}
        IN  Screener.self_loop \subseteq late /\ \A l \in Screener.loop : l \cap late # {}

\* The questions from which question i hangs, itself included.
Chain(i) ==
    LET up[k \in 0 .. Len(Questions)] ==
            IF k = 0 THEN {i}
            ELSE up[k - 1] \cup {j \in DOMAIN Questions : \E h \in up[k - 1] :
                                    \E c \in Questions[h].cond : c.q = Questions[j].id}
    IN  up[Len(Questions)]

FlaggedQuestions == Screener.unreachable_question \cup Screener.dead_branch

\* The questions of a survey of equality conditions that no respondent is ever
\* asked are exactly those that hang from a flagged one, as long as ids are distinct
\* and dependencies have one integer for an answer: a scale or a single choice.
ScreenerExact ==
    HasReport /\ DistinctIds(Questions) /\ ConditionsBy(Questions, {"=="}) =>
        LET flagged == FlaggedQuestions
        IN  Asked(Questions) = {i \in DOMAIN Questions : Chain(i) \cap flagged = {}}

\* A condition that may have no solution without being flagged: an order, a
\* membership, or an inequality on a question with a single answer.
Unchecked(c) ==
    \/ c.op \in {">", ">=", "<", "<=", "in", "not_in"}
    \/ /\ c.op = "!="
       /\ \E j \in DOMAIN Questions :
             Questions[j].id = c.q /\ AnswersTo(Questions[j]) = {0}

\* With the other operators it is neither sound nor complete, and in one way only:
\* a flagged question that is asked has an inequality or an order on a value off
\* the scale, and silence over a question nobody is asked means that it hangs from
\* such a condition.
ScreenerLimits ==
    HasReport /\ DistinctIds(Questions) /\ ConditionsBy(Questions, Comparisons \cup {"in", "not_in"}) =>
        LET asked == Asked(Questions)
            flagged == FlaggedQuestions
        IN  \A i \in DOMAIN Questions :
                /\ i \in asked \cap flagged =>
                      \A c \in Questions[i].cond : c.op \in Comparisons \ {"=="}
                /\ i \notin asked /\ Chain(i) \cap flagged = {} =>
                      \E j \in Chain(i) : \E c \in Questions[j].cond : Unchecked(c)

\* Only the paraphrase with the largest distance lends its effect size, so a
\* question can be rated below one of its paraphrases; by one rank at the most.
LosesOneRank ==
    HasReport /\ Whole =>
        \A i \in DOMAIN Questions :
            LET q == Questions[i]
            IN  Scaled(q) /\ q.matched >= MIN_MATCHED =>
                    \A k \in DOMAIN q.variants :
                        Rank(PerQuestion[i]) + 1 >= Rank(AloneSeverity(q.variants[k]))

\* A cell that asks for more is never rated easier to fill.
TighterCellNoEasier ==
    HasReport =>
        \A j, k \in DOMAIN survey.cells :
            LET few == survey.cells[j]
                more == survey.cells[k]
            IN  (\A key \in DOMAIN few : key \in DOMAIN more /\ more[key] = few[key])
                    => Rank(Quotas[j]) <= Rank(Quotas[k])
===============================================================================
