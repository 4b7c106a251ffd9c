------------------------------- MODULE Analyzers -------------------------------
(***************************************************************************)
(* stats/analyzers/{paraphrase_shift,irt,correlation,quota_montecarlo}.py  *)
(* and stats/report_composer.py: from what was measured to severities.     *)
(*                                                                         *)
(* Measured numbers are given, in hundredths: floating-point statistics    *)
(* are not computed here.  A question of a survey carries                  *)
(*   matched       personas that answered under every wording              *)
(*   variants      its paraphrases with answers, in order: [w, d] is the   *)
(*                 distance to the original wording and Cohen's d          *)
(*   a             its discrimination in the 2PL fit                       *)
(***************************************************************************)
EXTENDS ScreenerGraph, FiniteSetsExt

NoEffect == 9999            \* Cohen's d is None: no variance in either sample

SEVERITY_RANK == [none |-> 0, low |-> 1, medium |-> 2, high |-> 3]
Severities == DOMAIN SEVERITY_RANK
Rank(sev) == SEVERITY_RANK[sev]

Abs(n) == IF n < 0 THEN -n ELSE n

-----------------------------------------------------------------------------
(* Paraphrase shift *)

SKIP_TYPES == {"open_end", "video_open_end", "stimulus_block"}
MIN_MATCHED == 5

\* _classify_severity, with the two pairs of thresholds.
ClassifySeverity(score, d, isJs) ==
    LET high == IF isJs THEN 20 ELSE 50
        med == IF isJs THEN 10 ELSE 25
        effect == IF d = NoEffect THEN 0 ELSE Abs(d)
    IN  IF score >= high /\ effect >= 60 THEN "high"
        ELSE IF score >= med \/ effect >= 30 THEN "medium"
        ELSE IF score > 0 THEN "low" ELSE "none"

\* Mutant: every paraphrase replaces the one before.
LastVariant(variants) ==
    IF variants = <<>> THEN [score |-> 0, d |-> NoEffect]
    ELSE LET v == variants[Len(variants)] IN [score |-> v.w, d |-> v.d]

\* _ordinal_shift: the largest distance, and the effect size of the first
\* paraphrase that has it.
WorstVariant(variants) ==
    LET w == Max({0} \cup {variants[k].w : k \in DOMAIN variants})
        first == Min({k \in DOMAIN variants : variants[k].w = w})
    IN  [score |-> w, d |-> IF w = 0 THEN NoEffect ELSE variants[first].d]

\* analyze_question.  full: the SELECT finds the responses of the run; otherwise
\* the matrix is empty and nobody is matched.
ShiftSeverity(q, full) ==
    LET worst == WorstVariant(q.variants)
    IN  IF q.type \in SKIP_TYPES \/ ~full \/ q.matched < MIN_MATCHED THEN "none"
        ELSE IF Scaled(q) THEN ClassifySeverity(worst.score, worst.d, FALSE)
        ELSE IF q.type = "single_choice" /\ q.options > 0
             THEN ClassifySeverity(worst.score, NoEffect, TRUE)
        ELSE "none"

-----------------------------------------------------------------------------
(* Discrimination and redundancy, on the answers to the original wordings *)

MIN_PERSONS == 30
MIN_ITEMS == 2
MIN_PAIRWISE_PERSONAS == 20

\* The questions _load_baseline_response_matrix keeps.
Items(s) == {i \in DOMAIN s : Scaled(s[i])}

\* irt.analyze: the questions that get a flag, if there are enough answers.
HasFlag(s, persons, full) ==
    IF full /\ persons >= MIN_PERSONS /\ Cardinality(Items(s)) >= MIN_ITEMS
    THEN Items(s) ELSE {}

\* When the fit has not converged, a is the variance of the answers.
IrtSeverity(a, converged) ==
    IF a < (IF converged THEN 50 ELSE 5) THEN "high"
    ELSE IF converged /\ a < 100 THEN "medium" ELSE "none"

\* correlation.analyze: links are [i, j, n, r], the answered pairs and their r.
RedundantPairs(s, links, full) ==
    {<<l.i, l.j, IF Abs(l.r) >= 85 THEN "high" ELSE "medium">> :
        l \in {k \in links : /\ full /\ k.i \in Items(s) /\ k.j \in Items(s) /\ k.i < k.j
                             /\ k.n >= MIN_PAIRWISE_PERSONAS /\ Abs(k.r) >= 70}}

-----------------------------------------------------------------------------
(* Quota feasibility: a panel is a set of people [weight, and one value per *)
(* key]; a cell asks for values by key.                                     *)

Supported ==
    [age_bucket     |-> {"18-24", "25-34", "35-44", "45-54", "55-64", "65+"},
     gender         |-> {"male", "female"},
     income_bracket |-> {"low", "lower_middle", "middle", "upper_middle", "high"},
     state          |-> {"CA", "NY"}]

\* A key or a value the code does not know is skipped with a warning.
Constrains(cell, key) == key \in DOMAIN Supported /\ cell[key] \in Supported[key]

\* Mutant: each key filters the whole audience instead of what is left of it.
FilterCellAfresh(panel, cell) ==
    LET known == {key \in DOMAIN cell : Constrains(cell, key)}
    IN  IF known = {} THEN panel
        ELSE LET last == CHOOSE key \in known : TRUE
             IN  {p \in panel : p[last] = cell[last]}

FilterCell(panel, cell) ==
    {p \in panel : \A key \in DOMAIN cell : Constrains(cell, key) => p[key] = cell[key]}

\* PWGTP is how many people a row stands for: the sum of the weights counts them.
Weight(panel) == Cardinality(UNION {{p} \X (1 .. p.weight) : p \in panel})

\* Mutant: the verdict is returned.
CellVerdict(panel, cell) ==
    IF 100 * Weight(FilterCell(panel, cell)) < Weight(panel) THEN "infeasible" ELSE "feasible"

\* Fewer than 1 %, fewer than 5 % of the audience; nobody at all in an empty one.
CellSeverity(panel, cell) ==
    LET all == Weight(panel)
        fit == Weight(FilterCell(panel, cell))
    IN  IF all = 0 \/ 100 * fit < all THEN "high"
        ELSE IF 100 * fit < 5 * all THEN "medium" ELSE "none"

-----------------------------------------------------------------------------
(* report_composer.compose *)

\* _max_severity
Worse(x, y) == IF Rank(x) >= Rank(y) THEN x ELSE y

\* The severity of question i: sv is the survey, shift and irt say which SELECTs
\* found the responses.
QuestionSeverity(sv, i, shift, irt) ==
    LET q == sv.questions[i]
        bySpread == IF i \in HasFlag(sv.questions, sv.persons, irt)
                    THEN IrtSeverity(q.a, sv.converged) ELSE "none"
    IN  Worse(ShiftSeverity(q, shift), bySpread)

\* estimated_panel_exposure
Exposure(severities) ==
    LET Count(sev) == Cardinality({i \in DOMAIN severities : severities[i] = sev})
    IN  [high |-> Count("high"), medium |-> Count("medium"),
         flagged |-> Count("high") + Count("medium")]

\* What a paraphrase alone would make of its question.
AloneSeverity(v) == ClassifySeverity(v.w, v.d, FALSE)
===============================================================================
