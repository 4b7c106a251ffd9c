----------------------------- MODULE ScreenerGraph -----------------------------
(***************************************************************************)
(* stats/analyzers/screener_graph.py: the checks of a survey's conditional *)
(* logic, and what they are about: which questions a respondent who walks  *)
(* through the survey in order may be asked.                               *)
(*                                                                         *)
(* A survey is a sequence of questions [id, type, options, cond, ...]:     *)
(* options is the number of options, cond holds no or one condition        *)
(* [q, op, value], a value is [kind, v] with kind "int", "list" or "other".*)
(***************************************************************************)
EXTENDS Integers, Sequences, FiniteSets

QuestionIds(s) == {s[i].id : i \in DOMAIN s}

\* The conditional_on of the questions, as <<dependency, question>>.
Edges(s) == UNION {{<<c.q, s[i].id>> : c \in s[i].cond} : i \in DOMAIN s}

Nodes(s) == QuestionIds(s) \cup {e[1] : e \in Edges(s)}

\* {q.id: i for i, q in enumerate(survey.questions)}: the last one wins.
Pos(s, id) ==
    CHOOSE i \in DOMAIN s :
        s[i].id = id /\ \A j \in DOMAIN s : s[j].id = id => j <= i

SelfLoops(s) == {n \in Nodes(s) : <<n, n>> \in Edges(s)}

\* c runs once around a cycle of the dependencies.
IsCycle(s, c) ==
    LET n == Len(c)
    IN  \A k \in 1 .. n : <<c[k], c[IF k = n THEN 1 ELSE k + 1]>> \in Edges(s)

\* simple_cycles, without the self-loops; a loop is the set of its questions.
Loops(s) ==
    LET Around(n) == {c \in [1 .. n -> Nodes(s)] :
                         /\ \A j, k \in 1 .. n : c[j] = c[k] => j = k
                         /\ IsCycle(s, c)}
    IN  UNION {{{c[k] : k \in 1 .. n} : c \in Around(n)} :
                  n \in 2 .. Cardinality(Nodes(s))}

UnknownDependencies(s) ==
    {i \in DOMAIN s : \E c \in s[i].cond : c.q \notin QuestionIds(s)}

\* Mutant: a dependency on the question itself is left to the other check.
ForwardPastSelf(s) ==
    {i \in DOMAIN s : \E c \in s[i].cond :
        c.q \in QuestionIds(s) /\ Pos(s, c.q) > Pos(s, s[i].id)}

ForwardReferences(s) ==
    {i \in DOMAIN s : \E c \in s[i].cond :
        c.q \in QuestionIds(s) /\ Pos(s, c.q) >= Pos(s, s[i].id)}

Scale ==
    [likert_5 |-> 1 .. 5, top_box |-> 1 .. 5, likert_7 |-> 1 .. 7, nps |-> 0 .. 10]

Scaled(q) == q.type \in DOMAIN Scale

\* The single values the question can be answered with.
AnswersTo(q) == IF Scaled(q) THEN Scale[q.type] ELSE 0 .. q.options - 1

\* Mutant: the upper end of an option list is taken as an option.
CompatibleOffByOne(q, value) ==
    CASE Scaled(q) -> value.kind = "int" /\ value.v \in AnswersTo(q)
      [] q.type = "single_choice" -> value.kind = "int" /\ value.v \in 0 .. q.options
      [] q.type = "multi_choice" ->
            value.kind = "list" /\ q.options > 0 /\ value.v \subseteq AnswersTo(q)
      [] OTHER -> TRUE

\* _value_compatible_with_question
Compatible(q, value) ==
    CASE Scaled(q) \/ q.type = "single_choice" ->
            value.kind = "int" /\ value.v \in AnswersTo(q)
      [] q.type = "multi_choice" ->
            value.kind = "list" /\ q.options > 0 /\ value.v \subseteq AnswersTo(q)
      [] OTHER -> TRUE

Comparisons == {"==", "!=", ">", ">=", "<", "<="}

\* Mutant: the operator is not looked at.
ImpossibleByAny(s) ==
    {i \in DOMAIN s : \E c \in s[i].cond :
        c.q \in QuestionIds(s) /\ ~Compatible(s[Pos(s, c.q)], c.value)}

ImpossibleConditionals(s) ==
    {i \in DOMAIN s : \E c \in s[i].cond :
        /\ c.q \in QuestionIds(s)
        /\ c.op \in Comparisons
        /\ ~Compatible(s[Pos(s, c.q)], c.value)}

\* Rules are records [q, action, values]; values is empty for a rule without a list.
ContradictingRules(rules) ==
    {pair \in (DOMAIN rules) \X (DOMAIN rules) :
        LET t == rules[pair[1]]
            u == rules[pair[2]]
        IN  /\ t.q = u.q
            /\ t.action = "terminate" /\ u.action = "qualify"
            /\ t.values \cap u.values # {}}

\* analyze: what is flagged, by type.  Questions are indexes, except for the nodes
\* of the graph, which are ids.
ScreenerFlags(s, rules) ==
    [self_loop            |-> SelfLoops(s),
     loop                 |-> Loops(s),
     unreachable_question |-> ForwardReferences(s),
     dead_branch          |-> UnknownDependencies(s) \cup ImpossibleConditionals(s),
     contradicting_rule   |-> ContradictingRules(rules)]

-----------------------------------------------------------------------------
(* What the flags are about *)

Holds(a, op, value) ==
    CASE op = "==" -> value.kind = "int" /\ a = value.v
      [] op = "!=" -> value.kind = "int" => a # value.v
      [] op = ">"  -> value.kind = "int" /\ a > value.v
      [] op = ">=" -> value.kind = "int" /\ a >= value.v
      [] op = "<"  -> value.kind = "int" /\ a < value.v
      [] op = "<=" -> value.kind = "int" /\ a <= value.v
      [] op = "in" -> value.kind = "list" /\ a \in value.v
      [] op = "not_in" -> value.kind = "list" => a \notin value.v

\* Questions that some respondent is asked: its condition is on an earlier question
\* that some respondent is asked and may answer that way.
Asked(s) ==
    LET asked[i \in DOMAIN s] ==
            \A c \in s[i].cond : \E j \in 1 .. i - 1 :
                /\ s[j].id = c.q /\ asked[j]
                /\ \E a \in AnswersTo(s[j]) : Holds(a, c.op, c.value)
    IN  {i \in DOMAIN s : asked[i]}

DistinctIds(s) == \A i, j \in DOMAIN s : s[i].id = s[j].id => i = j

\* Every condition is on a question with single values, by one of the operators.
ConditionsBy(s, ops) ==
    \A i \in DOMAIN s : \A c \in s[i].cond :
        /\ c.op \in ops
        /\ \A j \in DOMAIN s :
              s[j].id = c.q => Scaled(s[j]) \/ s[j].type = "single_choice"
===============================================================================
