----------------------------- MODULE MCPrecompute -----------------------------
(* Surveys for Precompute. *)
EXTENDS Precompute, TLC

CONSTANTS p1, p2

One(v) == [kind |-> "int", v |-> v]
Many(vs) == [kind |-> "list", v |-> vs]
If(q, op, value) == {[q |-> q, op |-> op, value |-> value]}

Question(id, type, options, cond, variants) ==
    [id |-> id, type |-> type, options |-> options, cond |-> cond,
     variants |-> variants, matched |-> 5, a |-> 80]

Asks(questions) ==
    [questions |-> questions, rules |-> <<>>, links |-> {}, persons |-> 30,
     converged |-> TRUE, panel |-> {}, cells |-> <<>>]

\* Dependencies: three questions, each on none or on any of them, by an answer on the
\* scale or off it, and the last one on a question that does not exist; the last
\* one may repeat the id of the first.
Hangs == UNION {{{}, If("A", "==", One(9))}, {If(q, "==", One(3)) : q \in {"A", "B", "C"}}}
GraphSurveys ==
    {Asks([i \in 1 .. 3 |-> Question(<<"A", "B", f[4]>>[i], "likert_5", 0, f[i], <<>>)]) :
        f \in UNION {Hangs \X Hangs \X (Hangs \cup {If("X", "==", One(3))}) \X {"C"},
                     {{}} \X Hangs \X Hangs \X {"A"}}}

\* Conditions: every operator, values at both ends of the scale and off them.
Ranges == {"==", "!=", ">", ">=", "<", "<="}
ConditionSurveys ==
    {Asks(<<Question("A", t.type, t.options, {}, <<>>),
            Question("B", "nps", 0, If("A", op, value), <<>>)>>) :
        t \in {[type |-> "likert_5", options |-> 0]}
              \cup [type : {"single_choice"}, options : 0 .. 2],
        <<op, value>> \in (Ranges \X {One(v) : v \in {0, 1, 2, 5, 6}})
                          \cup ({"in", "not_in"} \X {Many({}), Many({1}), Many(0 .. 5)})}

\* Shifts: two paraphrases around every threshold, on each kind of question.
Variants == UNION {{[w |-> 0, d |-> 0], [w |-> 55, d |-> NoEffect]},
                   [w : {15, 30}, d : {-60, 10}], [w : {50, 55}, d : {-60, 40}]}
ShiftSurveys ==
    {Asks(<<Question("A", type, 3, {}, <<v, u>>)>>) :
        type \in {"nps", "single_choice"}, v \in Variants, u \in Variants}

\* Quotas: cells that refine each other over a panel of three.
Person(g, s, n) == [weight |-> n, gender |-> g, state |-> s, age_bucket |-> "18-24"]
QuotaSurveys ==
    {[Asks(<<Question("A", "open_end", 0, {}, <<>>)>>) EXCEPT
        !.panel = panel,
        !.cells = <<[gender |-> "male"], [gender |-> "male", state |-> s],
                    [gender |-> "male", state |-> s, age_bucket |-> "18-24"],
                    [state |-> s, pet |-> "dog"], [state |-> s]>>,
        !.rules = <<[q |-> "A", action |-> "terminate", values |-> {1}],
                    [q |-> "A", action |-> "qualify", values |-> {1, 2}]>>] :
        s \in {"CA", "NY", "ZZ"},
        panel \in {{}} \cup {{Person("male", "NY", n), Person("female", "CA", 60),
                              Person("male", "CA", 40)} : n \in {1, 3, 100}}}

\* The measures of a whole survey: a fit that converged or not, linked questions.
MeasuredSurveys ==
    {[Asks([i \in 1 .. 2 |-> [Question(<<"A", "B">>[i], "top_box", 0, {}, <<v>>) EXCEPT !.a = a]])
      EXCEPT !.converged = converged, !.persons = n, !.links = {[i |-> 1, j |-> 2, n |-> n, r |-> r]}] :
        v \in {[w |-> 30, d |-> 10]}, a \in {3, 49, 100}, converged \in BOOLEAN, n \in {19, 30}, r \in {-85, 70}}

AllSurveys ==
    UNION {GraphSurveys, ConditionSurveys, ShiftSurveys, QuotaSurveys, MeasuredSurveys}

StartSymmetry == Permutations(Starts)
===============================================================================
