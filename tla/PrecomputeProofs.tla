--------------------------- MODULE PrecomputeProofs ---------------------------
(***************************************************************************)
(* Theorems about Precompute and the checks of ScreenerGraph, for any      *)
(* number of precomputes and any surveys.                                  *)
(***************************************************************************)
EXTENDS Precompute, FiniteSetTheorems, WellFoundedInduction, TLAPS

-----------------------------------------------------------------------------
(* A precompute and the others *)

\* The part of TypeOK the other invariants need.
Progress ==
    /\ responses \in BOOLEAN
    /\ pc \in [Starts -> {"delete", "insert", "read", "done", "conflict", "cut"}]
    /\ read \in [Starts -> Seq(BOOLEAN)]
    /\ report.by \subseteq Starts

\* A precompute that was not crossed has found the responses so far, and they are
\* still there; before its insert it has read nothing.
FoundSoFar == \A p \in Starts :
    /\ pc[p] = "read" =>
          p \in crossed \/ (responses /\ \A i \in DOMAIN read[p] : read[p][i])
    /\ pc[p] \in {"delete", "insert"} => read[p] = <<>>

ReadInv == Progress /\ FoundSoFar /\ MissingWasCrossed

LEMMA ReadInit == Init => ReadInv
<1> SUFFICES ASSUME Init PROVE ReadInv
  OBVIOUS
<1>1. <<>> \in Seq(BOOLEAN)
  OBVIOUS
<1>2. Progress
  BY <1>1 DEF Init, Progress, NoReport
<1>3. FoundSoFar
  BY DEF Init, FoundSoFar
<1>4. MissingWasCrossed
  BY DEF Init, MissingWasCrossed, HasReport
<1> QED
  BY <1>2, <1>3, <1>4 DEF ReadInv

LEMMA ReadStep == ReadInv /\ [Next]_vars => ReadInv'
<1> SUFFICES ASSUME ReadInv, [Next]_vars PROVE ReadInv'
  OBVIOUS
<1> USE DEF ReadInv
<1>1. ASSUME NEW p \in Starts, Delete(p)
      PROVE  ReadInv'
  <2>1. /\ pc[p] = "delete" /\ pc' = [pc EXCEPT ![p] = "insert"]
        /\ responses' = FALSE /\ report' = NoReport
        /\ crossed' = crossed \cup {q \in Starts \ {p} : pc[q] = "read"}
        /\ UNCHANGED read
    BY <1>1 DEF Delete, Goto
  <2>2. Progress'
    BY <2>1 DEF Progress, NoReport
  <2>3. FoundSoFar'
    BY <2>1 DEF FoundSoFar, Progress
  <2>4. MissingWasCrossed'
    BY <2>1 DEF MissingWasCrossed, HasReport, NoReport
  <2> QED
    BY <2>2, <2>3, <2>4
<1>2. ASSUME NEW p \in Starts, Insert(p)
      PROVE  ReadInv'
  <2>1. /\ pc[p] = "insert" /\ ~responses /\ pc' = [pc EXCEPT ![p] = "read"]
        /\ responses' = TRUE /\ UNCHANGED <<report, read, crossed>>
    BY <1>2 DEF Insert, Insertable, Goto
  <2>2. Progress'
    BY <2>1 DEF Progress
  <2>3. FoundSoFar'
    BY <2>1 DEF FoundSoFar, Progress
  <2>4. MissingWasCrossed'
    BY <2>1 DEF MissingWasCrossed, HasReport, Whole
  <2> QED
    BY <2>2, <2>3, <2>4
<1>3. ASSUME NEW p \in Starts, Conflict(p) \/ Cut(p)
      PROVE  ReadInv'
  <2>1. /\ pc'[p] \in {"conflict", "cut"} /\ \A q \in Starts \ {p} : pc'[q] = pc[q]
        /\ UNCHANGED <<responses, report, read, crossed>>
    BY <1>3 DEF Conflict, Cut, Goto, Progress
  <2>2. Progress'
    BY <1>3, <2>1 DEF Conflict, Cut, Goto, Progress
  <2>3. FoundSoFar'
    BY <2>1 DEF FoundSoFar, Progress
  <2>4. MissingWasCrossed'
    BY <2>1 DEF MissingWasCrossed, HasReport, Whole
  <2> QED
    BY <2>2, <2>3, <2>4
<1>4. ASSUME NEW p \in Starts, Select(p)
      PROVE  ReadInv'
  <2>1. /\ pc[p] = "read" /\ read' = [read EXCEPT ![p] = Append(read[p], responses)]
        /\ UNCHANGED <<responses, report, pc, crossed>>
    BY <1>4 DEF Select
  <2>2. Progress'
    BY <2>1 DEF Progress
  <2>3. p \in crossed \/ \A i \in DOMAIN read'[p] : read'[p][i]
    <3>1. read[p] \in Seq(BOOLEAN) /\ read'[p] = Append(read[p], responses)
      BY <2>1 DEF Progress
    <3>2. p \in crossed \/ (responses /\ \A i \in DOMAIN read[p] : read[p][i])
      BY <2>1 DEF FoundSoFar
    <3> QED
      BY <3>1, <3>2
  <2>4. FoundSoFar'
    BY <2>1, <2>3 DEF FoundSoFar, Progress
  <2>5. MissingWasCrossed'
    BY <2>1 DEF MissingWasCrossed, HasReport, Whole
  <2> QED
    BY <2>2, <2>4, <2>5
<1>5. ASSUME NEW p \in Starts, Store(p)
      PROVE  ReadInv'
  <2>1. /\ pc[p] = "read" /\ pc' = [pc EXCEPT ![p] = "done"]
        /\ report' = [by |-> {p}, read |-> read[p]]
        /\ UNCHANGED <<responses, read, crossed>>
    BY <1>5 DEF Store, Goto
  <2>2. Progress'
    BY <2>1 DEF Progress
  <2>3. FoundSoFar'
    BY <2>1 DEF FoundSoFar, Progress
  <2>4. p \in crossed \/ Whole'
    BY <2>1 DEF FoundSoFar, Whole
  <2>5. MissingWasCrossed'
    BY <2>1, <2>4 DEF MissingWasCrossed
  <2> QED
    BY <2>2, <2>3, <2>5
<1>6. CASE UNCHANGED vars
  BY <1>6 DEF vars, Progress, FoundSoFar, MissingWasCrossed, HasReport, Whole
<1> QED
  BY <1>1, <1>2, <1>3, <1>4, <1>5, <1>6 DEF Next

\* A report that took responses for missing is that of a precompute which another
\* one crossed.
THEOREM BadReportWasCrossed == Spec => []MissingWasCrossed
<1>1. Spec => []ReadInv
  BY ReadInit, ReadStep, PTL DEF Spec
<1>2. ReadInv => MissingWasCrossed
  BY DEF ReadInv
<1> QED
  BY <1>1, <1>2, PTL

-----------------------------------------------------------------------------
(* What remains when all are done *)

\* What is missing is some precompute's to bring, or was when it was cut off; with
\* equal ids there are never any responses.
OwedBySome ==
    /\ ~responses /\ DistinctIds(Questions) => \E p \in Starts : pc[p] \in {"delete", "insert", "cut"}
    /\ responses /\ ~HasReport => \E p \in Starts : pc[p] \in {"read", "cut"}
    /\ HasReport => status = "completed"

LEMMA OwedStep == Progress /\ OwedBySome /\ [Next]_vars => OwedBySome'
<1> SUFFICES ASSUME Progress, OwedBySome, [Next]_vars PROVE OwedBySome'
  OBVIOUS
<1>1. ASSUME NEW p \in Starts, Delete(p)
      PROVE  OwedBySome'
  <2>1. pc'[p] = "insert" /\ ~responses' /\ ~HasReport'
    BY <1>1 DEF Delete, Goto, Progress, HasReport
  <2> QED
    BY <2>1 DEF OwedBySome
<1>2. ASSUME NEW p \in Starts, Insert(p)
      PROVE  OwedBySome'
  <2>1. pc'[p] = "read" /\ responses' /\ HasReport' = HasReport /\ status' = status
    BY <1>2 DEF Insert, Goto, Progress, HasReport
  <2> QED
    BY <2>1 DEF OwedBySome
<1>3. ASSUME NEW p \in Starts, Conflict(p)
      PROVE  OwedBySome'
  <2>1. /\ pc[p] = "insert" /\ \A q \in Starts \ {p} : pc'[q] = pc[q]
        /\ UNCHANGED <<survey, responses>> /\ HasReport' = HasReport /\ status' = status
    BY <1>3 DEF Conflict, Goto, Progress, HasReport
  <2>2. Questions' = Questions /\ (responses \/ ~DistinctIds(Questions))
    BY <1>3, <2>1 DEF Conflict, Insertable, Questions
  <2> QED
    BY <2>1, <2>2 DEF OwedBySome
<1>4. ASSUME NEW p \in Starts, Select(p)
      PROVE  OwedBySome'
  <2>1. /\ Questions' = Questions /\ HasReport' = HasReport
        /\ UNCHANGED <<responses, status, pc>>
    BY <1>4 DEF Select, HasReport, Questions
  <2> QED
    BY <2>1 DEF OwedBySome
<1>5. ASSUME NEW p \in Starts, Store(p)
      PROVE  OwedBySome'
  <2>1. /\ pc[p] = "read" /\ \A q \in Starts \ {p} : pc'[q] = pc[q]
        /\ responses' = responses /\ Questions' = Questions /\ status' = "completed"
    BY <1>5 DEF Store, Goto, Progress, Questions
  <2>2. HasReport'
    <3>1. report'.by # {}
      BY <1>5 DEF Store
    <3> QED
      BY <3>1 DEF HasReport, NoReport
  <2> QED
    BY <2>1, <2>2 DEF OwedBySome
<1>6. ASSUME NEW p \in Starts, Cut(p)
      PROVE  OwedBySome'
  <2>1. pc'[p] = "cut" /\ HasReport' = HasReport /\ status' = status
    BY <1>6 DEF Cut, Goto, Progress, HasReport
  <2> QED
    BY <2>1 DEF OwedBySome
<1>7. CASE UNCHANGED vars
  <2>1. /\ Questions' = Questions /\ HasReport' = HasReport
        /\ UNCHANGED <<responses, status, pc>>
    BY <1>7 DEF vars, HasReport, Questions
  <2> QED
    BY <2>1 DEF OwedBySome
<1> QED
  BY <1>1, <1>2, <1>3, <1>4, <1>5, <1>6, <1>7 DEF Next

\* Precomputes that all came to their end leave the run whole, in whatever order
\* they crossed each other, provided its questions have ids of their own.
THEOREM OverlapsSettle == Spec => []SettledIsWhole
<1>1. Init => OwedBySome
  BY PrecomputeAssumption DEF Init, OwedBySome, HasReport
<1>2. Spec => [](ReadInv /\ OwedBySome)
  <2>1. ReadInv => Progress
    BY DEF ReadInv
  <2> QED
    BY <1>1, <2>1, ReadInit, ReadStep, OwedStep, PTL DEF Spec
<1>3. OwedBySome => SettledIsWhole
  BY DEF OwedBySome, SettledIsWhole
<1> QED
  BY <1>2, <1>3, PTL

-----------------------------------------------------------------------------
(* The checks of the conditional logic *)

LEMMA Smallest ==
    ASSUME NEW T \in SUBSET Nat, T # {}
    PROVE  \E x \in T : \A y \in T : x <= y
<1>1. PICK x \in T : \A y \in T : ~(<<y, x>> \in OpToRel(<, Nat))
  BY WFMin, NatLessThanWellFounded
<1>2. \A y \in T : ~(y < x)
  BY <1>1 DEF OpToRel
<1> QED
  BY <1>2

\* A question's id has a last position.
LEMMA PosTyped ==
    ASSUME NEW s, Len(s) \in Nat, DOMAIN s = 1 .. Len(s), NEW id \in QuestionIds(s)
    PROVE  Pos(s, id) \in 1 .. Len(s)
<1> DEFINE n == Len(s)
           T == {m \in Nat : n - m \in 1 .. n /\ s[n - m].id = id}
<1>1. T # {}
  <2>1. PICK i \in 1 .. n : s[i].id = id
    BY DEF QuestionIds
  <2>2. n - i \in Nat /\ n - (n - i) = i
    BY <2>1
  <2>3. n - i \in T
    BY <2>1, <2>2
  <2> QED
    BY <2>3
<1>2. PICK m \in T : \A k \in T : m <= k
  BY <1>1, Smallest
<1>3. ASSUME NEW j \in 1 .. n, s[j].id = id
      PROVE  j <= n - m
  <2>1. n - j \in Nat /\ n - (n - j) = j
    BY <1>3
  <2>2. n - j \in T
    BY <1>3, <2>1
  <2>3. m <= n - j /\ m \in Nat
    BY <1>2, <2>2
  <2> HIDE DEF T
  <2> QED
    BY <2>1, <2>3
<1>4. n - m \in DOMAIN s /\ s[n - m].id = id
  BY <1>2
<1>5. \E i \in DOMAIN s : s[i].id = id /\ \A j \in DOMAIN s : s[j].id = id => j <= i
  BY <1>3, <1>4
<1> QED
  BY <1>5 DEF Pos

\* The question at the end of an edge that goes back or stays is flagged.
LEMMA EdgeBack ==
    ASSUME NEW s, NEW e \in Edges(s), e[1] \in QuestionIds(s),
           Pos(s, e[1]) >= Pos(s, e[2])
    PROVE  \E i \in ForwardReferences(s) : s[i].id = e[2]
<1>1. PICK i \in DOMAIN s : \E c \in s[i].cond : e = <<c.q, s[i].id>>
  BY DEF Edges
<1>2. i \in ForwardReferences(s)
  BY <1>1 DEF ForwardReferences
<1> QED
  BY <1>1, <1>2

\* A dependency is on a question, if it is the end of another edge.
LEMMA EdgeEnds ==
    ASSUME NEW s, NEW e \in Edges(s)
    PROVE  e = <<e[1], e[2]>> /\ e[2] \in QuestionIds(s)
  BY DEF Edges, QuestionIds

LEMMA LoopHasForward ==
    ASSUME NEW s, Len(s) \in Nat, DOMAIN s = 1 .. Len(s), NEW n \in Nat \ {0},
           NEW c \in [1 .. n -> Nodes(s)], IsCycle(s, c)
    PROVE  \E k \in 1 .. n : \E i \in ForwardReferences(s) : s[i].id = c[k]
<1> DEFINE Next1(k) == IF k = n THEN 1 ELSE k + 1
<1>1. Len(c) = n
  OBVIOUS
<1>2. \A k \in 1 .. n : Next1(k) \in 1 .. n /\ <<c[k], c[Next1(k)]>> \in Edges(s)
  BY <1>1 DEF IsCycle
<1>3. \A k \in 1 .. n : \E j \in 1 .. n : k = Next1(j)
  <2> SUFFICES ASSUME NEW k \in 1 .. n
               PROVE  \E j \in 1 .. n : k = Next1(j)
    OBVIOUS
  <2>1. CASE k = 1
    <3>1. n \in 1 .. n /\ k = Next1(n)
      BY <2>1
    <3> QED
      BY <3>1
  <2>2. CASE k # 1
    <3>1. k - 1 \in 1 .. n /\ k = Next1(k - 1)
      BY <2>2
    <3> QED
      BY <3>1
  <2> QED
    BY <2>1, <2>2
<1>4. \A k \in 1 .. n : c[k] \in QuestionIds(s)
  <2> SUFFICES ASSUME NEW k \in 1 .. n
               PROVE  c[k] \in QuestionIds(s)
    OBVIOUS
  <2>1. PICK j \in 1 .. n : k = Next1(j)
    BY <1>3
  <2>2. <<c[j], c[k]>> \in Edges(s)
    BY <1>2, <2>1
  <2> QED
    BY <2>2, EdgeEnds
<1> HIDE DEF Next1
\* The first question of the loop hangs from one that does not come before it.
<1> DEFINE T == {Pos(s, c[k]) : k \in 1 .. n}
<1>5. T \in SUBSET Nat /\ T # {}
  <2>1. \A k \in 1 .. n : Pos(s, c[k]) \in Nat
    BY <1>4, PosTyped
  <2>2. 1 \in 1 .. n
    OBVIOUS
  <2> QED
    BY <2>1, <2>2
<1>6. PICK k \in 1 .. n : \A h \in 1 .. n : Pos(s, c[k]) <= Pos(s, c[h])
  <2>1. PICK x \in T : \A y \in T : x <= y
    <3> HIDE DEF T
    <3> QED
      BY <1>5, Smallest
  <2>2. PICK k \in 1 .. n : x = Pos(s, c[k])
    BY <2>1
  <2>3. \A h \in 1 .. n : Pos(s, c[h]) \in T
    OBVIOUS
  <2> HIDE DEF T
  <2> QED
    BY <2>1, <2>2, <2>3
<1>7. PICK j \in 1 .. n : k = Next1(j)
  BY <1>3
<1>8. <<c[j], c[k]>> \in Edges(s)
  BY <1>2, <1>7
<1>9. Pos(s, c[j]) >= Pos(s, c[k])
  BY <1>4, <1>6, PosTyped
<1> QED
  <2> DEFINE e == <<c[j], c[k]>>
  <2>1. e[1] \in QuestionIds(s) /\ Pos(s, e[1]) >= Pos(s, e[2])
    BY <1>4, <1>9
  <2>2. \E i \in ForwardReferences(s) : s[i].id = e[2]
    BY <1>8, <2>1, EdgeBack
  <2> QED
    BY <2>2

\* For every survey: a loop that is reported holds a question that is reported as
\* unreachable, and a self-loop is one.
THEOREM CyclesHoldForward == Spec => []LoopsAreForward
<1> DEFINE Proper == /\ Len(survey.questions) \in Nat
                     /\ DOMAIN survey.questions = 1 .. Len(survey.questions)
<1>1. Init => Proper
  BY PrecomputeAssumption DEF Init
<1>2. Proper /\ [Next]_vars => Proper'
  BY DEF Next, vars, Delete, Insert, Conflict, Select, Store, Cut
<1>3. Proper => LoopsAreForward
  <2> DEFINE s == survey.questions
             late == {s[i].id : i \in ForwardReferences(s)}
  <2> SUFFICES ASSUME Proper
               PROVE  SelfLoops(s) \subseteq late /\ \A l \in Loops(s) : l \cap late # {}
    BY DEF LoopsAreForward, Screener, ScreenerFlags, Questions
  <2> HIDE DEF s
  <2>0. Len(s) \in Nat /\ DOMAIN s = 1 .. Len(s)
    BY DEF s
  <2>1. ASSUME NEW id \in SelfLoops(s)
        PROVE  id \in late
    <3> DEFINE e == <<id, id>>
    <3>1. e \in Edges(s)
      BY <2>1 DEF SelfLoops
    <3>2. id \in QuestionIds(s)
      BY <3>1, EdgeEnds
    <3>3. Pos(s, id) >= Pos(s, id)
      BY <2>0, <3>2, PosTyped
    <3>4. \E i \in ForwardReferences(s) : s[i].id = e[2]
      BY <3>1, <3>2, <3>3, EdgeBack
    <3> QED
      BY <3>4
  <2>2. ASSUME NEW l \in Loops(s)
        PROVE  l \cap late # {}
    <3>1. PICK n \in 2 .. Cardinality(Nodes(s)) : \E c \in [1 .. n -> Nodes(s)] :
             l = {c[k] : k \in 1 .. n} /\ IsCycle(s, c)
      BY <2>2 DEF Loops
    <3>2. n \in Nat \ {0}
      OBVIOUS
    <3>3. PICK c \in [1 .. n -> Nodes(s)] : l = {c[k] : k \in 1 .. n} /\ IsCycle(s, c)
      BY <3>1
    <3>4. PICK k \in 1 .. n, i \in ForwardReferences(s) : s[i].id = c[k]
      BY <2>0, <3>2, <3>3, LoopHasForward
    <3> QED
      BY <3>3, <3>4
  <2> QED
    BY <2>1, <2>2
<1> QED
  BY <1>1, <1>2, <1>3, PTL DEF Spec

-----------------------------------------------------------------------------
(* What the report says *)

LEMMA ClassifyTyped ==
    ASSUME NEW score, NEW d, NEW isJs
    PROVE  ClassifySeverity(score, d, isJs) \in {"none", "low", "medium", "high"}
  BY DEF ClassifySeverity

LEMMA SeverityNames == Severities = {"none", "low", "medium", "high"}
  BY DEF Severities, SEVERITY_RANK

LEMMA QuestionRated ==
    ASSUME NEW sv, NEW i, NEW shift, NEW irt
    PROVE  QuestionSeverity(sv, i, shift, irt) \in Severities
<1>1. \A q : ShiftSeverity(q, shift) \in Severities
  BY ClassifyTyped, SeverityNames DEF ShiftSeverity
<1>2. \A a, converged : IrtSeverity(a, converged) \in Severities
  BY SeverityNames DEF IrtSeverity
<1>3. \A x, y \in Severities : Worse(x, y) \in Severities
  BY DEF Worse
<1> QED
  BY <1>1, <1>2, <1>3, SeverityNames DEF QuestionSeverity

\* No more questions are flagged than there are.
LEMMA FlaggedBounded ==
    ASSUME NEW n \in Nat, NEW severities, DOMAIN severities = 1 .. n
    PROVE  Exposure(severities).flagged <= n
<1> DEFINE Of(sev) == {i \in DOMAIN severities : severities[i] = sev}
<1>1. IsFiniteSet(1 .. n) /\ Cardinality(1 .. n) = n
  BY FS_Interval
<1>2. Of("high") \subseteq 1 .. n /\ Of("medium") \subseteq 1 .. n
  OBVIOUS
<1>3. IsFiniteSet(Of("high")) /\ IsFiniteSet(Of("medium"))
  BY <1>1, <1>2, FS_Subset
<1>4. Of("high") \cap Of("medium") = {}
  OBVIOUS
<1>5. IsFiniteSet(Of("high") \cup Of("medium"))
  BY <1>3, FS_Union
<1>6. Cardinality(Of("high") \cup Of("medium"))
         = Cardinality(Of("high")) + Cardinality(Of("medium"))
                - Cardinality(Of("high") \cap Of("medium"))
  BY <1>3, FS_Union
<1>7. Cardinality(Of("high") \cap Of("medium")) = 0
  BY <1>4, FS_EmptySet
<1>8. Cardinality(Of("high") \cup Of("medium")) <= n
  <2>1. Of("high") \cup Of("medium") \subseteq 1 .. n
    BY <1>2
  <2> QED
    BY <1>1, <2>1, FS_Subset
<1>9. Cardinality(Of("high")) \in Nat /\ Cardinality(Of("medium")) \in Nat
  BY <1>3, FS_CardinalityType
<1>10. Exposure(severities).flagged = Cardinality(Of("high")) + Cardinality(Of("medium"))
  BY DEF Exposure
<1> HIDE DEF Of
<1> QED
  BY <1>6, <1>7, <1>8, <1>9, <1>10

\* What TypeOK says of the report needs the type of what was read and the survey.
Reported ==
    /\ report.read \in Seq(BOOLEAN)
    /\ status \in {"pending", "completed"}
    /\ crossed \subseteq Starts
    /\ survey \in Surveys

LEMMA ReportedInit == Init => Reported
  BY DEF Init, Reported, NoReport

LEMMA ReportedStep == Progress /\ Reported /\ [Next]_vars => Reported'
<1> SUFFICES ASSUME Progress, Reported, [Next]_vars PROVE Reported'
  OBVIOUS
<1>1. survey' = survey
  BY DEF Next, vars, Delete, Insert, Conflict, Select, Store, Cut
<1>2. report'.read \in Seq(BOOLEAN)
  <2>1. ASSUME NEW p \in Starts, Delete(p)
        PROVE  report'.read = <<>>
    BY <2>1 DEF Delete, NoReport
  <2>2. ASSUME NEW p \in Starts, Store(p)
        PROVE  report'.read \in Seq(BOOLEAN)
    BY <2>2 DEF Store, Progress
  <2>3. (\E p \in Starts : Delete(p) \/ Store(p)) \/ report' = report
    BY DEF Next, vars, Insert, Conflict, Select, Cut
  <2>4. CASE report' = report
    BY <2>4 DEF Reported
  <2>5. ASSUME NEW p \in Starts, Delete(p)
        PROVE  report'.read \in Seq(BOOLEAN)
    <3>1. <<>> \in Seq(BOOLEAN)
      OBVIOUS
    <3> QED
      BY <2>1, <2>5, <3>1
  <2> QED
    BY <2>2, <2>3, <2>4, <2>5
<1>3. status' \in {"pending", "completed"} /\ crossed' \subseteq Starts
  BY DEF Reported, Next, vars, Delete, Insert, Conflict, Select, Store, Cut
<1> QED
  BY <1>1, <1>2, <1>3 DEF Reported

LEMMA ReportTyped == Progress /\ Reported => TypeOK
<1> SUFFICES ASSUME Progress, Reported PROVE TypeOK
  OBVIOUS
<1>1. Len(Questions) \in Nat /\ DOMAIN Questions = 1 .. Len(Questions)
  BY PrecomputeAssumption DEF Reported, Questions
<1>2. PerQuestion \in [DOMAIN Questions -> Severities]
  BY QuestionRated DEF PerQuestion
<1>3. Exposure(PerQuestion).flagged <= Len(Questions)
  <2>1. DOMAIN PerQuestion = 1 .. Len(Questions)
    BY <1>1 DEF PerQuestion
  <2> QED
    BY <1>1, <2>1, FlaggedBounded
<1>4. \A l \in Redundancy : l[3] \in Severities
  BY SeverityNames DEF Redundancy, RedundantPairs
<1>5. \A k \in DOMAIN Quotas : Quotas[k] \in Severities
  BY SeverityNames DEF Quotas, CellSeverity
<1> QED
  BY <1>2, <1>3, <1>4, <1>5 DEF TypeOK, Progress, Reported

\* A stored report is complete: every question has one of the four severities, and
\* the exposure never counts more questions than the survey has.
THEOREM ReportTyping == Spec => []TypeOK
<1>1. ReadInv => Progress
  BY DEF ReadInv
<1>2. Spec => [](ReadInv /\ Reported)
  BY <1>1, ReadInit, ReadStep, ReportedInit, ReportedStep, PTL DEF Spec
<1>3. ReadInv /\ Reported => TypeOK
  BY <1>1, ReportTyped
<1> QED
  BY <1>2, <1>3, PTL

-----------------------------------------------------------------------------
(* Which paraphrase lends its effect size *)

LEMMA ElementOf ==
    ASSUME NEW S, NEW s \in Seq(S), NEW k \in DOMAIN s
    PROVE  s[k] \in S
  OBVIOUS

\* The distances of finitely many paraphrases have a bound.
LEMMA Bounded ==
    ASSUME NEW n \in Nat, NEW f, \A k \in 1 .. n : f[k] \in Nat
    PROVE  \E b \in Nat : \A k \in 1 .. n : f[k] <= b
<1> DEFINE Bound(m) == \E b \in Nat : \A k \in 1 .. m : f[k] <= b
           Unbounded == {m \in Nat : m <= n /\ ~Bound(m)}
<1> SUFFICES ASSUME ~Bound(n) PROVE FALSE
  OBVIOUS
<1>1. PICK m \in Unbounded : \A h \in Unbounded : m <= h
  <2>1. n \in Unbounded
    OBVIOUS
  <2> HIDE DEF Bound
  <2> QED
    BY <2>1, Smallest
<1>2. Bound(0)
  <2>1. \A k \in 1 .. 0 : f[k] <= 0
    OBVIOUS
  <2> QED
    BY <2>1
<1>3. m \in Nat \ {0} /\ m <= n /\ ~Bound(m)
  BY <1>1, <1>2
<1>4. Bound(m - 1)
  <2> HIDE DEF Bound
  <2> QED
    BY <1>1, <1>3
<1>5. PICK b \in Nat : \A k \in 1 .. m - 1 : f[k] <= b
  BY <1>4
<1>6. f[m] \in Nat /\ \A k \in 1 .. m : k = m \/ k \in 1 .. m - 1
  BY <1>3
<1>7. PICK c \in Nat : b <= c /\ f[m] <= c
  <2>1. CASE b <= f[m]
    BY <1>6, <2>1
  <2>2. CASE f[m] <= b
    BY <2>2
  <2> QED
    BY <1>6, <2>1, <2>2
<1>8. \A k \in 1 .. m : f[k] <= c
  <2> SUFFICES ASSUME NEW k \in 1 .. m PROVE f[k] <= c
    OBVIOUS
  <2>1. CASE k = m
    BY <1>7, <2>1
  <2>2. CASE k \in 1 .. m - 1
    <3>1. f[k] <= b
      BY <1>5, <2>2
    <3>2. k \in 1 .. n
      BY <1>3
    <3>3. f[k] \in Nat
      BY <3>2
    <3> HIDE DEF Unbounded
    <3> QED
      BY <1>7, <3>1, <3>3
  <2> QED
    BY <1>6, <2>1, <2>2
<1> QED
  BY <1>3, <1>8

\* The score of a question is the largest distance of its paraphrases.
LEMMA WorstIsLargest ==
    ASSUME NEW vs \in Seq([w : Nat, d : Int])
    PROVE  /\ WorstVariant(vs).score \in Nat
           /\ \A k \in DOMAIN vs : vs[k].w <= WorstVariant(vs).score
<1> DEFINE n == Len(vs)
           f == [k \in 1 .. n |-> vs[k].w]
           Above == {b \in Nat : \A k \in 1 .. n : f[k] <= b}
           Ws == {0} \cup {vs[k].w : k \in DOMAIN vs}
<1>1. n \in Nat /\ DOMAIN vs = 1 .. n /\ \A k \in 1 .. n : f[k] = vs[k].w /\ f[k] \in Nat
  <2>1. n \in Nat /\ DOMAIN vs = 1 .. n
    OBVIOUS
  <2>2. \A k \in 1 .. n : vs[k] \in [w : Nat, d : Int]
    BY <2>1, ElementOf
  <2> QED
    BY <2>1, <2>2
<1>2. Ws = {0} \cup {f[k] : k \in 1 .. n}
  BY <1>1
<1> HIDE DEF f, n, Ws
<1>3. Above # {}
  BY <1>1, Bounded
<1>4. PICK b \in Above : \A c \in Above : b <= c
  BY <1>3, Smallest
<1>5. b \in Ws
  <2> SUFFICES ASSUME b # 0, \A k \in 1 .. n : f[k] # b
               PROVE  FALSE
    BY <1>2
  <2>1. b - 1 \in Nat /\ \A k \in 1 .. n : f[k] <= b - 1
    BY <1>1
  <2> QED
    BY <1>4, <2>1
<1>6. \A x \in Ws : b >= x
  BY <1>1, <1>2
<1>7. Max(Ws) \in Ws /\ \A x \in Ws : Max(Ws) >= x
  BY <1>5, <1>6 DEF Max
<1>8. WorstVariant(vs).score = Max(Ws)
  BY Zenon DEF WorstVariant, Ws
<1>9. Ws \subseteq Nat /\ \A k \in DOMAIN vs : vs[k].w \in Ws
  BY <1>1 DEF Ws
<1> QED
  BY <1>7, <1>8, <1>9

LEMMA OneRankApart ==
    ASSUME NEW v \in [w : Nat, d : Int], v.w = 0 => v.d \in {0, NoEffect},
           NEW score \in Nat, v.w <= score, NEW d
    PROVE  Rank(ClassifySeverity(score, d, FALSE)) + 1 >= Rank(AloneSeverity(v))
<1>1. Rank("none") = 0 /\ Rank("low") = 1 /\ Rank("medium") = 2 /\ Rank("high") = 3
  BY DEF Rank, SEVERITY_RANK
<1>2. AloneSeverity(v) = "high" => v.w >= 50
  BY DEF AloneSeverity, ClassifySeverity
<1>3. v.w > 0 \/ AloneSeverity(v) = "none"
  <2> SUFFICES ASSUME v.w = 0 PROVE AloneSeverity(v) = "none"
    OBVIOUS
  <2>1. (IF v.d = NoEffect THEN 0 ELSE Abs(v.d)) = 0
    BY DEF Abs
  <2> QED
    BY <2>1 DEF AloneSeverity, ClassifySeverity
<1> DEFINE lent == ClassifySeverity(score, d, FALSE)
<1>4. score >= 50 => lent \in {"high", "medium"}
  BY DEF ClassifySeverity
<1>5. score > 0 => lent \in {"high", "medium", "low"}
  BY DEF ClassifySeverity
<1>6. AloneSeverity(v) \in {"none", "low", "medium", "high"}
  BY ClassifyTyped DEF AloneSeverity
<1>7. lent \in {"none", "low", "medium", "high"}
  BY ClassifyTyped
<1> HIDE DEF lent
<1>8. v.w \in Nat
  OBVIOUS
<1>9. ASSUME AloneSeverity(v) = "high"
      PROVE  Rank(lent) + 1 >= Rank(AloneSeverity(v))
  <2>1. score >= 50
    BY <1>2, <1>8, <1>9
  <2>2. Rank(lent) \in {2, 3}
    BY <1>1, <1>4, <2>1
  <2> QED
    BY <1>1, <1>9, <2>2
<1>10. ASSUME AloneSeverity(v) \in {"medium", "low"}
      PROVE  Rank(lent) + 1 >= Rank(AloneSeverity(v))
  <2>1. score > 0
    BY <1>3, <1>8, <1>10
  <2>2. Rank(lent) \in {1, 2, 3}
    BY <1>1, <1>5, <2>1
  <2>3. Rank(AloneSeverity(v)) \in {1, 2}
    BY <1>1, <1>10
  <2> QED
    BY <2>2, <2>3
<1>11. ASSUME AloneSeverity(v) = "none"
      PROVE  Rank(lent) + 1 >= Rank(AloneSeverity(v))
  <2>1. Rank(lent) \in {0, 1, 2, 3}
    BY <1>1, <1>7
  <2> QED
    BY <1>1, <1>11, <2>1
<1>12. Rank(lent) + 1 >= Rank(AloneSeverity(v))
  BY <1>6, <1>9, <1>10, <1>11
<1> QED
  BY <1>12 DEF lent

\* A stored report has a result for every SELECT, in order.
AllRead == HasReport => Len(report.read) = Selects

LEMMA AllReadStep == AllRead /\ [Next]_vars => AllRead'
<1> SUFFICES ASSUME AllRead, [Next]_vars PROVE AllRead'
  OBVIOUS
<1>1. Selects' = Selects
  BY DEF Selects, Next, vars, Delete, Insert, Conflict, Select, Store, Cut
<1>2. ASSUME NEW p \in Starts, Delete(p)
      PROVE  ~HasReport'
  BY <1>2 DEF Delete, HasReport
<1>3. ASSUME NEW p \in Starts, Store(p)
      PROVE  Len(report'.read) = Selects
  BY <1>3 DEF Store
<1>4. (\E p \in Starts : Delete(p) \/ Store(p)) \/ report' = report
  BY DEF Next, vars, Insert, Conflict, Select, Cut
<1> QED
  BY <1>1, <1>2, <1>3, <1>4 DEF AllRead, HasReport

\* Whatever was measured: a question whose responses were found is rated at most one
\* rank below the worst of its paraphrases.
THEOREM ShiftLosesOneRank == Spec => []LosesOneRank
<1>1. ReadInv => Progress
  BY DEF ReadInv
<1>2. Init => AllRead
  BY DEF Init, AllRead, HasReport
<1>3. Spec => [](Reported /\ AllRead)
  BY <1>1, <1>2, ReadInit, ReadStep, ReportedInit, ReportedStep, AllReadStep, PTL DEF Spec
<1>4. Reported /\ AllRead => LosesOneRank
  <2> SUFFICES ASSUME Reported, AllRead, HasReport, Whole, NEW i \in DOMAIN Questions,
                      Scaled(Questions[i]), Questions[i].matched >= MIN_MATCHED,
                      NEW k \in DOMAIN Questions[i].variants
               PROVE  Rank(PerQuestion[i]) + 1 >= Rank(AloneSeverity(Questions[i].variants[k]))
    BY DEF LosesOneRank
  <2> DEFINE q == Questions[i]
             vs == q.variants
             worst == WorstVariant(vs)
             shift == ClassifySeverity(worst.score, worst.d, FALSE)
  <2>1. /\ vs \in Seq([w : Nat, d : Int])
        /\ \A j \in DOMAIN vs : vs[j].w = 0 => vs[j].d \in {0, NoEffect}
        /\ q.matched \in Nat
    BY MeasuresAssumption DEF Reported, Questions
  <2>2. report.read[i]
    <3>1. Len(Questions) \in Nat /\ DOMAIN Questions = 1 .. Len(Questions)
      BY PrecomputeAssumption DEF Reported, Questions
    <3>2. i \in 1 .. Len(report.read)
      BY <3>1 DEF AllRead, Selects, Questions
    <3> QED
      BY <3>2 DEF Reported, Whole
  <2>3. ShiftSeverity(q, report.read[i]) = shift
    <3>1. q.type \notin SKIP_TYPES /\ ~(q.matched < MIN_MATCHED)
      BY <2>1 DEF SKIP_TYPES, Scaled, Scale, MIN_MATCHED
    <3> QED
      BY <2>2, <3>1 DEF ShiftSeverity
  <2>4. Rank(PerQuestion[i]) >= Rank(shift)
    <3>1. \E irt \in Severities : PerQuestion[i] = Worse(shift, irt)
      BY <2>3, SeverityNames DEF PerQuestion, QuestionSeverity, Questions, IrtSeverity
    <3>2. \A x, y \in Severities : Rank(Worse(x, y)) >= Rank(x)
      BY SeverityNames DEF Worse, Rank, SEVERITY_RANK
    <3> QED
      BY <3>1, <3>2, ClassifyTyped, SeverityNames
  <2>5. worst.score \in Nat /\ vs[k].w <= worst.score
    BY <2>1, WorstIsLargest
  <2>6. Rank(shift) + 1 >= Rank(AloneSeverity(vs[k]))
    <3>1. vs[k] \in [w : Nat, d : Int] /\ (vs[k].w = 0 => vs[k].d \in {0, NoEffect})
      <4>1. k \in DOMAIN vs
        OBVIOUS
      <4>2. vs[k] \in [w : Nat, d : Int]
        BY <2>1, <4>1, ElementOf
      <4> QED
        BY <2>1, <4>1, <4>2
    <3> HIDE DEF vs, worst
    <3> QED
      BY <2>5, <3>1, OneRankApart
  <2>7. Rank(PerQuestion[i]) \in Int /\ Rank(shift) \in Int /\ Rank(AloneSeverity(vs[k])) \in Int
    <3>1. \A sev \in Severities : Rank(sev) \in Int
      BY SeverityNames DEF Rank, SEVERITY_RANK
    <3>2. PerQuestion[i] \in Severities
      BY QuestionRated DEF PerQuestion, Questions
    <3>3. shift \in Severities /\ AloneSeverity(vs[k]) \in Severities
      BY ClassifyTyped, SeverityNames DEF AloneSeverity
    <3> QED
      BY <3>1, <3>2, <3>3
  <2> DEFINE alone == AloneSeverity(vs[k])
  <2>8. Rank(PerQuestion[i]) + 1 >= Rank(alone)
    <3> HIDE DEF alone, shift
    <3> QED
      BY <2>4, <2>6, <2>7 DEF alone
  <2> QED
    BY <2>8
<1> QED
  BY <1>3, <1>4, PTL

-----------------------------------------------------------------------------
(* How hard a cell is to fill *)

People(panel) == UNION {{p} \X (1 .. p.weight) : p \in panel}

LEMMA PeopleFinite ==
    ASSUME NEW panel, IsFiniteSet(panel), \A p \in panel : p.weight \in Nat
    PROVE  IsFiniteSet(People(panel))
<1> DEFINE f == [p \in panel |-> {p} \X (1 .. p.weight)]
           T == {{p} \X (1 .. p.weight) : p \in panel}
<1>1. f \in Surjection(panel, T)
  BY DEF Surjection
<1>2. IsFiniteSet(T)
  <2> HIDE DEF f, T
  <2> QED
    BY <1>1, FS_Surjection
<1>3. ASSUME NEW p \in panel
      PROVE  IsFiniteSet({p} \X (1 .. p.weight))
  <2> DEFINE n == p.weight
  <2>0. 1 \in Int /\ n \in Int
    BY <1>3
  <2> HIDE DEF n
  <2>1. IsFiniteSet(1 .. n)
    BY <2>0, FS_Interval
  <2>2. IsFiniteSet({p})
    BY FS_Singleton
  <2>3. IsFiniteSet({p} \X (1 .. n))
    BY <2>1, <2>2, FS_Product
  <2> QED
    BY <2>3 DEF n
<1>4. \A S \in T : IsFiniteSet(S)
  BY <1>3
<1>5. IsFiniteSet(UNION T)
  <2> HIDE DEF T
  <2> QED
    BY <1>2, <1>4, FS_UNION
<1> QED
  BY <1>5 DEF People

\* A part of a panel weighs no more than the whole.
LEMMA PartIsLighter ==
    ASSUME NEW panel, IsFiniteSet(panel), \A p \in panel : p.weight \in Nat,
           NEW part \in SUBSET panel
    PROVE  Weight(part) \in Nat /\ Weight(panel) \in Nat /\ Weight(part) <= Weight(panel)
<1>1. IsFiniteSet(People(panel)) /\ People(part) \subseteq People(panel)
  BY PeopleFinite DEF People
<1>2. /\ IsFiniteSet(People(part))
      /\ Cardinality(People(part)) <= Cardinality(People(panel))
  BY <1>1, FS_Subset
<1>3. Weight(part) = Cardinality(People(part)) /\ Weight(panel) = Cardinality(People(panel))
  BY DEF Weight, People
<1> QED
  BY <1>1, <1>2, <1>3, FS_CardinalityType

LEMMA FewerIsHarder ==
    ASSUME NEW panel, IsFiniteSet(panel), \A p \in panel : p.weight \in Nat,
           NEW few, NEW more,
           \A key \in DOMAIN few : key \in DOMAIN more /\ more[key] = few[key]
    PROVE  Rank(CellSeverity(panel, few)) <= Rank(CellSeverity(panel, more))
<1> DEFINE all == Weight(panel)
           wide == FilterCell(panel, few)
           narrow == FilterCell(panel, more)
           n == Weight(wide)
           k == Weight(narrow)
<1>1. narrow \subseteq wide /\ wide \subseteq panel
  BY DEF FilterCell, Constrains
<1>2. IsFiniteSet(wide) /\ \A p \in wide : p.weight \in Nat
  BY <1>1, FS_Subset
<1>3. all \in Nat /\ n \in Nat /\ k \in Nat /\ k <= n
  <2> HIDE DEF narrow, wide
  <2> QED
    BY <1>1, <1>2, PartIsLighter
<1>4. /\ CellSeverity(panel, few) = IF all = 0 \/ 100 * n < all THEN "high"
                                   ELSE IF 100 * n < 5 * all THEN "medium" ELSE "none"
      /\ CellSeverity(panel, more) = IF all = 0 \/ 100 * k < all THEN "high"
                                    ELSE IF 100 * k < 5 * all THEN "medium" ELSE "none"
  BY DEF CellSeverity
<1>5. Rank("none") = 0 /\ Rank("medium") = 2 /\ Rank("high") = 3
  BY DEF Rank, SEVERITY_RANK
<1> DEFINE x == CellSeverity(panel, few)
           y == CellSeverity(panel, more)
<1> HIDE DEF all, n, k, narrow, wide, x, y
<1>6. \/ y = "high" /\ x \in {"none", "medium", "high"}
      \/ y = "medium" /\ x \in {"none", "medium"}
      \/ y = "none" /\ x = "none"
  BY <1>3, <1>4 DEF x, y
<1>7. Rank(x) <= Rank(y)
  BY <1>5, <1>6
<1> QED
  BY <1>7 DEF x, y

\* For every panel and every two cells of a survey: the one that asks for more is
\* never reported as the easier one.
THEOREM TighterIsHarder == Spec => []TighterCellNoEasier
<1>1. ReadInv => Progress
  BY DEF ReadInv
<1>2. Spec => []Reported
  BY <1>1, ReadInit, ReadStep, ReportedInit, ReportedStep, PTL DEF Spec
<1>3. Reported => TighterCellNoEasier
  <2> SUFFICES ASSUME Reported, NEW j \in DOMAIN survey.cells, NEW k \in DOMAIN survey.cells,
                      \A key \in DOMAIN survey.cells[j] :
                          /\ key \in DOMAIN survey.cells[k]
                          /\ survey.cells[k][key] = survey.cells[j][key]
               PROVE  Rank(Quotas[j]) <= Rank(Quotas[k])
    BY DEF TighterCellNoEasier
  <2>1. IsFiniteSet(survey.panel) /\ \A p \in survey.panel : p.weight \in Nat
    BY PanelAssumption DEF Reported
  <2>2. /\ Quotas[j] = CellSeverity(survey.panel, survey.cells[j])
        /\ Quotas[k] = CellSeverity(survey.panel, survey.cells[k])
    BY DEF Quotas
  <2> QED
    BY <2>1, <2>2, FewerIsHarder
<1> QED
  BY <1>2, <1>3, PTL

-----------------------------------------------------------------------------
(* Who is asked what *)

LEMMA PosIs ==
    ASSUME NEW s, DistinctIds(s), NEW j \in DOMAIN s, Len(s) \in Nat, DOMAIN s = 1 .. Len(s)
    PROVE  Pos(s, s[j].id) = j
<1>1. s[j].id \in QuestionIds(s)
  BY DEF QuestionIds
<1>2. \E i \in DOMAIN s :
         s[i].id = s[j].id /\ \A h \in DOMAIN s : s[h].id = s[j].id => h <= i
  BY DEF DistinctIds
<1>3. Pos(s, s[j].id) \in DOMAIN s /\ s[Pos(s, s[j].id)].id = s[j].id
  BY <1>2 DEF Pos
<1> QED
  BY <1>3 DEF DistinctIds

\* Some respondent is asked i if those before it in A are the ones that are asked.
AskedAfter(s, A, i) ==
    \A c \in s[i].cond : \E j \in 1 .. i - 1 :
        /\ s[j].id = c.q /\ j \in A
        /\ \E a \in AnswersTo(s[j]) : Holds(a, c.op, c.value)

\* Only the questions before i matter.
LEMMA AskedAfterLocal ==
    ASSUME NEW s, NEW i \in Nat, NEW A, NEW B, \A j \in 1 .. i - 1 : j \in A <=> j \in B
    PROVE  AskedAfter(s, A, i) <=> AskedAfter(s, B, i)
  BY DEF AskedAfter

LEMMA AskedExists ==
    ASSUME NEW s, NEW n \in Nat
    PROVE  \E A \in SUBSET (1 .. n) : \A i \in 1 .. n : i \in A <=> AskedAfter(s, A, i)
<1> DEFINE Fits(m) == \E A \in SUBSET (1 .. m) : \A i \in 1 .. m : i \in A <=> AskedAfter(s, A, i)
           Misfits == {m \in Nat : ~Fits(m)}
<1> SUFFICES ASSUME ~Fits(n) PROVE FALSE
  OBVIOUS
<1>1. PICK m \in Misfits : \A h \in Misfits : m <= h
  <2>1. n \in Misfits
    OBVIOUS
  <2> HIDE DEF Fits
  <2> QED
    BY <2>1, Smallest
<1>2. Fits(0)
  <2>1. {} \in SUBSET (1 .. 0) /\ \A i \in 1 .. 0 : i \in {} <=> AskedAfter(s, {}, i)
    OBVIOUS
  <2> QED
    BY <2>1
<1>3. m \in Nat \ {0} /\ ~Fits(m)
  BY <1>1, <1>2
<1>4. Fits(m - 1)
  <2> HIDE DEF Fits
  <2> QED
    BY <1>1, <1>3
<1>5. PICK A \in SUBSET (1 .. m - 1) : \A i \in 1 .. m - 1 : i \in A <=> AskedAfter(s, A, i)
  BY <1>4
<1> DEFINE B == IF AskedAfter(s, A, m) THEN A \cup {m} ELSE A
<1> HIDE DEF Fits, Misfits
<1>6. B \in SUBSET (1 .. m) /\ (m \in B <=> AskedAfter(s, A, m))
  BY <1>3
<1>7. \A j \in 1 .. m - 1 : j \in A <=> j \in B
  BY <1>3
<1> HIDE DEF B
<1>8. ASSUME NEW i \in 1 .. m
      PROVE  i \in B <=> AskedAfter(s, B, i)
  <2>1. i \in Nat /\ \A j \in 1 .. i - 1 : j \in A <=> j \in B
    BY <1>3, <1>7
  <2>2. AskedAfter(s, A, i) <=> AskedAfter(s, B, i)
    BY <2>1, AskedAfterLocal
  <2>3. CASE i = m
    BY <1>6, <2>2, <2>3
  <2>4. CASE i \in 1 .. m - 1
    BY <1>5, <1>7, <2>2, <2>4
  <2> QED
    BY <1>3, <2>3, <2>4
<1> QED
  BY <1>3, <1>6, <1>8 DEF Fits

LEMMA AskedIs ==
    ASSUME NEW s, Len(s) \in Nat, DOMAIN s = 1 .. Len(s)
    PROVE  /\ Asked(s) \subseteq DOMAIN s
           /\ \A i \in DOMAIN s : i \in Asked(s) <=> AskedAfter(s, Asked(s), i)
<1> DEFINE Answerable(f, i) ==
              \A c \in s[i].cond : \E j \in 1 .. i - 1 :
                  /\ s[j].id = c.q /\ f[j]
                  /\ \E a \in AnswersTo(s[j]) : Holds(a, c.op, c.value)
           asked == CHOOSE f : f = [i \in DOMAIN s |-> Answerable(f, i)]
<1>1. Asked(s) = {i \in DOMAIN s : asked[i]}
  BY DEF Asked
<1>2. PICK A \in SUBSET DOMAIN s : \A i \in DOMAIN s : i \in A <=> AskedAfter(s, A, i)
  BY AskedExists
<1> DEFINE g == [i \in DOMAIN s |-> i \in A]
<1>3. \A i \in DOMAIN s : Answerable(g, i) <=> AskedAfter(s, A, i)
  <2> SUFFICES ASSUME NEW i \in DOMAIN s
               PROVE  Answerable(g, i) <=> AskedAfter(s, A, i)
    OBVIOUS
  <2>1. \A j \in 1 .. i - 1 : g[j] <=> j \in A
    <3>1. \A j \in 1 .. i - 1 : j \in DOMAIN s
      OBVIOUS
    <3>2. \A j \in DOMAIN s : g[j] = (j \in A)
      BY Zenon
    <3> QED
      BY <3>1, <3>2
  <2> HIDE DEF g
  <2> QED
    BY <2>1 DEF AskedAfter
<1>4. g = [i \in DOMAIN s |-> Answerable(g, i)]
  <2>1. \A i \in DOMAIN s : i \in A <=> Answerable(g, i)
    BY <1>2, <1>3
  <2>2. \A i \in DOMAIN s : (i \in A) = Answerable(g, i)
    <3> SUFFICES ASSUME NEW i \in DOMAIN s
                 PROVE  (i \in A) = Answerable(g, i)
      OBVIOUS
    <3>1. Answerable(g, i) \in BOOLEAN
      BY Zenon
    <3>2. i \in A <=> Answerable(g, i)
      BY <2>1
    <3> DEFINE p == i \in A
               q == Answerable(g, i)
    <3>3. p \in BOOLEAN /\ q \in BOOLEAN /\ (p <=> q)
      <4>1. p \in BOOLEAN
        OBVIOUS
      <4> HIDE DEF Answerable
      <4> QED
        BY <3>1, <3>2, <4>1
    <3>4. p = q
      <4> HIDE DEF p, q
      <4> QED
        BY <3>3
    <3> QED
      BY <3>4
  <2> HIDE DEF Answerable
  <2> QED
    BY <2>2, Zenon
<1>5. asked = [i \in DOMAIN s |-> Answerable(asked, i)]
  <2> HIDE DEF g, Answerable
  <2> QED
    BY <1>4, Zenon
<1> HIDE DEF asked
<1>6. \A i \in DOMAIN s : Answerable(asked, i) <=> AskedAfter(s, Asked(s), i)
  <2> SUFFICES ASSUME NEW i \in DOMAIN s
               PROVE  Answerable(asked, i) <=> AskedAfter(s, Asked(s), i)
    OBVIOUS
  <2>1. \A j \in 1 .. i - 1 : asked[j] <=> j \in Asked(s)
    BY <1>1
  <2> QED
    BY <2>1 DEF AskedAfter
<1>7. \A i \in DOMAIN s : asked[i] <=> Answerable(asked, i)
  <2> HIDE DEF Answerable
  <2> QED
    BY <1>5, Zenon
<1> QED
  BY <1>1, <1>6, <1>7

\* What a repeated step leads to: there is a function of the number of steps.
Walks(f, F, x, n) == f[0] = x /\ \A k \in 1 .. n : f[k] = F[f[k - 1]]

LEMMA Steps ==
    ASSUME NEW n \in Nat, NEW T, NEW F \in [T -> T], NEW x \in T
    PROVE  \E f \in [0 .. n -> T] : Walks(f, F, x, n)
<1> DEFINE Fits(m) == \E f \in [0 .. m -> T] : f[0] = x /\ \A k \in 1 .. m : f[k] = F[f[k - 1]]
           Misfits == {m \in Nat : ~Fits(m)}
<1> SUFFICES ASSUME ~Fits(n) PROVE FALSE
  BY DEF Walks
<1>1. PICK m \in Misfits : \A h \in Misfits : m <= h
  <2>1. n \in Misfits
    OBVIOUS
  <2> HIDE DEF Fits
  <2> QED
    BY <2>1, Smallest
<1>2. Fits(0)
  <2> DEFINE f == [k \in 0 .. 0 |-> x]
  <2>1. f \in [0 .. 0 -> T] /\ f[0] = x
    OBVIOUS
  <2>2. \A k \in 1 .. 0 : f[k] = F[f[k - 1]]
    OBVIOUS
  <2> HIDE DEF f
  <2> QED
    BY <2>1, <2>2
<1>3. m \in Nat \ {0} /\ ~Fits(m)
  BY <1>1, <1>2
<1>4. Fits(m - 1)
  <2> HIDE DEF Fits
  <2> QED
    BY <1>1, <1>3
<1>5. PICK f \in [0 .. m - 1 -> T] : f[0] = x /\ \A k \in 1 .. m - 1 : f[k] = F[f[k - 1]]
  BY <1>4
<1> HIDE DEF Misfits, Fits
<1> DEFINE g == [k \in 0 .. m |-> IF k = m THEN F[f[m - 1]] ELSE f[k]]
<1>6. /\ \A k \in 0 .. m - 1 : g[k] = f[k]
      /\ g[m] = F[f[m - 1]]
      /\ g \in [0 .. m -> T]
  <2>1. f[m - 1] \in T
    BY <1>3
  <2>2. \A k \in 0 .. m : k = m \/ k \in 0 .. m - 1
    BY <1>3
  <2> QED
    BY <1>3, <2>1, <2>2
<1> HIDE DEF g
<1>7. g[0] = x
  BY <1>3, <1>5, <1>6
<1>8. \A k \in 1 .. m : g[k] = F[g[k - 1]]
  <2> SUFFICES ASSUME NEW k \in 1 .. m PROVE g[k] = F[g[k - 1]]
    OBVIOUS
  <2>1. k - 1 \in 0 .. m - 1
    BY <1>3
  <2>2. CASE k = m
    BY <1>6, <2>1, <2>2
  <2>3. CASE k # m
    <3>1. k \in 1 .. m - 1 /\ k \in 0 .. m - 1
      BY <1>3, <2>3
    <3> QED
      BY <1>5, <1>6, <2>1, <3>1
  <2> QED
    BY <2>2, <2>3
<1>9. Fits(m)
  BY <1>6, <1>7, <1>8 DEF Fits
<1> QED
  BY <1>3, <1>9

\* The questions on which those in js hang directly.
Under(js) == {j \in DOMAIN Questions : \E h \in js : \E c \in Questions[h].cond : c.q = Questions[j].id}

\* How a chain is made, step by step.
LEMMA ChainIs ==
    ASSUME Len(Questions) \in Nat, NEW i \in DOMAIN Questions
    PROVE  \E up \in [0 .. Len(Questions) -> SUBSET DOMAIN Questions] :
              /\ up[0] = {i}
              /\ \A k \in 1 .. Len(Questions) : up[k] = up[k - 1] \cup Under(up[k - 1])
              /\ Chain(i) = up[Len(Questions)]
<1> DEFINE n == Len(Questions)
           T == SUBSET DOMAIN Questions
           F == [js \in T |-> js \cup Under(js)]
           Walk(f) == [k \in 0 .. n |-> IF k = 0 THEN {i} ELSE f[k - 1] \cup Under(f[k - 1])]
           up == CHOOSE f : f = Walk(f)
<1>1. Chain(i) = up[n]
  BY DEF Chain, Under
<1>2. \E f : f = Walk(f)
  <2>1. F \in [T -> T] /\ {i} \in T
    BY DEF Under
  <2>2. n \in Nat
    OBVIOUS
  <2>3. PICK f \in [0 .. n -> T] : f[0] = {i} /\ \A k \in 1 .. n : f[k] = F[f[k - 1]]
    <3> DEFINE start == {i}
    <3>1. start \in T
      BY <2>1
    <3> HIDE DEF T, F, n, start
    <3>2. \E f \in [0 .. n -> T] : Walks(f, F, start, n)
      BY <2>1, <2>2, <3>1, Steps
    <3> QED
      BY <3>2 DEF start, Walks
  <2>4. \A k \in 1 .. n : f[k] = f[k - 1] \cup Under(f[k - 1])
    <3> SUFFICES ASSUME NEW k \in 1 .. n PROVE f[k] = f[k - 1] \cup Under(f[k - 1])
      OBVIOUS
    <3>1. k - 1 \in 0 .. n
      BY <2>2
    <3>2. f[k - 1] \in T
      BY <3>1
    <3> HIDE DEF T
    <3> QED
      BY <2>3, <3>2
  <2>5. \A k \in 0 .. n : f[k] = IF k = 0 THEN {i} ELSE f[k - 1] \cup Under(f[k - 1])
    <3>1. \A k \in 0 .. n : k = 0 \/ k \in 1 .. n
      BY <2>2
    <3> QED
      BY <2>3, <2>4, <3>1
  <2> QED
    BY <2>5
<1>3. up = Walk(up)
  <2> HIDE DEF Walk
  <2> QED
    BY <1>2, Zenon
<1> HIDE DEF up
<1>4. n \in Nat
  OBVIOUS
<1>5. /\ DOMAIN up = 0 .. n /\ up[0] = {i}
      /\ \A k \in 1 .. n : up[k] = up[k - 1] \cup Under(up[k - 1])
  <2>1. \A k \in 0 .. n : up[k] = IF k = 0 THEN {i} ELSE up[k - 1] \cup Under(up[k - 1])
    BY <1>3
  <2>2. 0 \in 0 .. n /\ \A k \in 1 .. n : k \in 0 .. n /\ k # 0
    BY <1>4
  <2>3. DOMAIN up = 0 .. n
    BY <1>3
  <2> QED
    BY <2>1, <2>2, <2>3
<1>6. \A k \in 0 .. n : up[k] \in T
  <2> DEFINE Outside == {k \in Nat : k <= n /\ up[k] \notin T}
  <2> SUFFICES ASSUME Outside # {} PROVE FALSE
    BY <1>4
  <2>1. PICK k \in Outside : \A h \in Outside : k <= h
    BY Smallest
  <2>2. k # 0
    BY <1>5, <2>1
  <2>3. up[k - 1] \in T
    BY <1>4, <2>1, <2>2
  <2>4. k \in 1 .. n
    BY <1>4, <2>1, <2>2
  <2> QED
    BY <1>5, <2>1, <2>3, <2>4 DEF Under
<1>7. up \in [0 .. n -> T]
  <2>1. up = [k \in 0 .. n |-> up[k]]
    BY <1>3
  <2> HIDE DEF T
  <2> QED
    BY <1>6, <2>1
<1> QED
  BY <1>1, <1>5, <1>7

LEMMA SingleValued ==
    ASSUME NEW q, Scaled(q) \/ q.type = "single_choice"
    PROVE  q.type # "multi_choice"
  BY DEF Scaled, Scale

\* Every question that is asked hangs on earlier ones that are asked, and the checks
\* find nothing in it, or a comparison other than equality.
LEMMA AskedIsAllowed ==
    ASSUME NEW s, Len(s) \in Nat, DOMAIN s = 1 .. Len(s), DistinctIds(s),
           NEW ops, ConditionsBy(s, ops), NEW i \in Asked(s)
    PROVE  /\ i \notin ForwardReferences(s) /\ i \notin UnknownDependencies(s)
           /\ i \in ImpossibleConditionals(s) =>
                 \E c \in s[i].cond : c.op \in Comparisons \ {"=="}
           /\ \A j \in DOMAIN s : (\E c \in s[i].cond : c.q = s[j].id) => j \in Asked(s)
<1>1. i \in DOMAIN s /\ AskedAfter(s, Asked(s), i)
  BY AskedIs
<1>2. ASSUME NEW c \in s[i].cond
      PROVE  \E j \in DOMAIN s : /\ s[j].id = c.q /\ j < i /\ j \in Asked(s)
                                 /\ \E a \in AnswersTo(s[j]) : Holds(a, c.op, c.value)
  <2>1. PICK j \in 1 .. i - 1 : /\ s[j].id = c.q /\ j \in Asked(s)
                                /\ \E a \in AnswersTo(s[j]) : Holds(a, c.op, c.value)
    BY <1>1, <1>2 DEF AskedAfter
  <2>2. j \in DOMAIN s /\ j < i
    BY <1>1
  <2> QED
    BY <2>1, <2>2
<1>3. Pos(s, s[i].id) = i
  BY <1>1, PosIs
<1>4. i \notin ForwardReferences(s)
  <2> SUFFICES ASSUME NEW c \in s[i].cond
               PROVE  ~(Pos(s, c.q) >= Pos(s, s[i].id))
    BY DEF ForwardReferences
  <2>1. PICK j \in DOMAIN s : s[j].id = c.q /\ j < i
    BY <1>2
  <2>2. Pos(s, c.q) = j
    BY <2>1, PosIs
  <2> QED
    BY <1>1, <1>3, <2>1, <2>2
<1>5. i \notin UnknownDependencies(s)
  BY <1>2 DEF UnknownDependencies, QuestionIds
<1>6. ASSUME i \in ImpossibleConditionals(s)
      PROVE  \E c \in s[i].cond : c.op \in Comparisons \ {"=="}
  <2>1. PICK c \in s[i].cond : c.op \in Comparisons /\ ~Compatible(s[Pos(s, c.q)], c.value)
    BY <1>6 DEF ImpossibleConditionals
  <2>2. PICK j \in DOMAIN s : /\ s[j].id = c.q
                              /\ \E a \in AnswersTo(s[j]) : Holds(a, c.op, c.value)
    BY <1>2
  <2>3. Pos(s, c.q) = j
    BY <2>2, PosIs
  <2>4. Scaled(s[j]) \/ s[j].type = "single_choice"
    BY <1>1, <2>2 DEF ConditionsBy
  <2>5. c.op # "=="
    <3> SUFFICES ASSUME c.op = "==" PROVE FALSE
      OBVIOUS
    <3>1. c.value.kind = "int" /\ c.value.v \in AnswersTo(s[j])
      BY <2>2 DEF Holds
    <3>2. Compatible(s[j], c.value)
      BY <2>4, <3>1, SingleValued DEF Compatible
    <3> QED
      BY <2>1, <2>3, <3>2
  <2> QED
    BY <2>1, <2>5
<1>7. ASSUME NEW j \in DOMAIN s, NEW c \in s[i].cond, c.q = s[j].id
      PROVE  j \in Asked(s)
  <2>1. PICK h \in DOMAIN s : s[h].id = c.q /\ h \in Asked(s)
    BY <1>2
  <2> QED
    BY <1>7, <2>1 DEF DistinctIds
<1> QED
  BY <1>4, <1>5, <1>6, <1>7

\* What a compatible equality or inequality asks for can be answered, unless there is
\* one answer only and it is ruled out.
LEMMA CompatibleHolds ==
    ASSUME NEW q, Scaled(q) \/ q.type = "single_choice", q.options \in Nat,
           NEW value, Compatible(q, value), NEW op \in {"==", "!="},
           op = "!=" => AnswersTo(q) # {0}
    PROVE  \E a \in AnswersTo(q) : Holds(a, op, value)
<1>1. value.kind = "int" /\ value.v \in AnswersTo(q)
  BY SingleValued DEF Compatible
<1>2. CASE op = "=="
  BY <1>1, <1>2 DEF Holds
<1>3. CASE op = "!="
  <2>1. \E a \in AnswersTo(q) : a # value.v
    <3>1. CASE Scaled(q)
      <4>1. AnswersTo(q) \in {1 .. 5, 1 .. 7, 0 .. 10}
        BY <3>1 DEF AnswersTo, Scaled, Scale
      <4>2. 1 \in AnswersTo(q) /\ 2 \in AnswersTo(q)
        BY <4>1
      <4> QED
        BY <4>2
    <3>2. CASE ~Scaled(q)
      <4>1. AnswersTo(q) = 0 .. q.options - 1
        BY <3>2 DEF AnswersTo
      <4>2. q.options > 0 /\ q.options # 1
        BY <1>1, <1>3, <4>1
      <4>3. 0 \in AnswersTo(q) /\ 1 \in AnswersTo(q)
        BY <4>1, <4>2
      <4> QED
        BY <4>3
    <3> QED
      BY <3>1, <3>2
  <2> QED
    BY <1>1, <1>3, <2>1 DEF Holds
<1> QED
  BY <1>2, <1>3

\* In a survey with proper conditions, the chain of a question that is asked is asked.
LEMMA ChainIsAsked ==
    ASSUME Len(Questions) \in Nat, DOMAIN Questions = 1 .. Len(Questions),
           DistinctIds(Questions), NEW ops, ConditionsBy(Questions, ops),
           NEW i \in Asked(Questions)
    PROVE  Chain(i) \subseteq Asked(Questions)
<1> DEFINE n == Len(Questions)
           asked == Asked(Questions)
<1>1. i \in DOMAIN Questions
  BY AskedIs
<1>2. PICK up \in [0 .. n -> SUBSET DOMAIN Questions] :
         /\ up[0] = {i}
         /\ \A k \in 1 .. n : up[k] = up[k - 1] \cup Under(up[k - 1])
         /\ Chain(i) = up[n]
  BY <1>1, ChainIs
<1>3. ASSUME NEW js \in SUBSET asked
      PROVE  Under(js) \subseteq asked
  BY AskedIsAllowed DEF Under
<1> DEFINE Outside == {k \in Nat : k <= n /\ ~(up[k] \subseteq asked)}
<1> HIDE DEF asked
<1> SUFFICES ASSUME Outside # {} PROVE FALSE
  BY <1>2 DEF asked
<1>4. PICK k \in Outside : \A h \in Outside : k <= h
  BY Smallest
<1>5. k # 0
  BY <1>2, <1>4 DEF asked
<1>6. up[k - 1] \subseteq asked
  BY <1>4, <1>5
<1>7. k \in 1 .. n
  BY <1>4, <1>5
<1> QED
  BY <1>2, <1>3, <1>4, <1>6, <1>7

\* A question is asked if nothing in its chain is flagged or beyond the checks: each
\* step of the chain goes back in the survey, so the chain has an end.
LEMMA UnflaggedIsAsked ==
    ASSUME Len(Questions) \in Nat, DOMAIN Questions = 1 .. Len(Questions),
           \A j \in DOMAIN Questions : Questions[j].options \in Nat,
           DistinctIds(Questions), NEW ops, ConditionsBy(Questions, ops),
           NEW i \in DOMAIN Questions, Chain(i) \cap FlaggedQuestions = {},
           \A h \in Chain(i) : \A c \in Questions[h].cond :
               c.op \in {"==", "!="} /\ ~Unchecked(c)
    PROVE  i \in Asked(Questions)
<1> DEFINE n == Len(Questions)
           s == Questions
           asked == Asked(s)
<1>1. PICK up \in [0 .. n -> SUBSET DOMAIN s] :
         /\ up[0] = {i}
         /\ \A k \in 1 .. n : up[k] = up[k - 1] \cup Under(up[k - 1])
         /\ Chain(i) = up[n]
  BY ChainIs
<1>2. \A k \in 0 .. n : up[k] \subseteq Chain(i)
  <2> DEFINE Outside == {m \in Nat : m <= n /\ ~(up[n - m] \subseteq up[n])}
  <2> SUFFICES ASSUME NEW k \in 0 .. n, ~(up[k] \subseteq up[n]) PROVE FALSE
    BY <1>1
  <2>1. n - k \in Outside
    <3>1. n - k \in Nat /\ n - k <= n /\ n - (n - k) = k
      OBVIOUS
    <3> QED
      BY <3>1
  <2>2. PICK m \in Outside : \A h \in Outside : m <= h
    BY <2>1, Smallest
  <2>3. m # 0
    BY <2>2
  <2>4. up[n - (m - 1)] \subseteq up[n]
    <3> DEFINE m1 == m - 1
    <3>1. m1 \in Nat /\ m1 <= n /\ ~(m <= m1)
      BY <2>2, <2>3
    <3>2. m1 \notin Outside
      BY <2>2, <3>1
    <3> HIDE DEF m1
    <3>3. up[n - m1] \subseteq up[n]
      BY <3>1, <3>2
    <3> QED
      BY <3>3 DEF m1
  <2>5. n - (m - 1) \in 1 .. n /\ (n - (m - 1)) - 1 = n - m
    BY <2>2, <2>3
  <2>6. up[n - m] \subseteq up[n - (m - 1)]
    <3> DEFINE k1 == n - (m - 1)
    <3>1. k1 \in 1 .. n /\ k1 - 1 = n - m
      BY <2>5
    <3> HIDE DEF k1
    <3>2. up[k1] = up[n - m] \cup Under(up[n - m])
      BY <1>1, <3>1
    <3> QED
      BY <3>2 DEF k1
  <2> QED
    BY <2>2, <2>4, <2>6
<1> DEFINE Silent == {h \in Nat : h \in DOMAIN s /\ h \notin asked
                                  /\ \E k \in 0 .. n : k + h <= n /\ h \in up[k]}
<1> SUFFICES ASSUME i \notin asked PROVE FALSE
  OBVIOUS
<1>3. i \in Silent
  <2>1. i \in Nat /\ 0 \in 0 .. n /\ 0 + i <= n /\ i \in up[0]
    BY <1>1
  <2> QED
    BY <2>1
<1>4. PICK h \in Silent : \A j \in Silent : h <= j
  BY <1>3, Smallest
<1>5. PICK k \in 0 .. n : k + h <= n /\ h \in up[k]
  BY <1>4
<1>6. h \in DOMAIN s /\ h \notin asked /\ h \in Chain(i) /\ h \notin FlaggedQuestions
  BY <1>2, <1>4, <1>5
<1>7. /\ h \notin ForwardReferences(s) /\ h \notin UnknownDependencies(s)
      /\ h \notin ImpossibleConditionals(s)
  BY <1>6 DEF FlaggedQuestions, Screener, ScreenerFlags
<1>8. PICK c \in s[h].cond : ~\E j \in 1 .. h - 1 :
         /\ s[j].id = c.q /\ j \in asked
         /\ \E a \in AnswersTo(s[j]) : Holds(a, c.op, c.value)
  BY <1>6, AskedIs DEF AskedAfter
<1>9. PICK j \in DOMAIN s : s[j].id = c.q
  BY <1>7, <1>6 DEF UnknownDependencies, QuestionIds
<1>10. c.q \in QuestionIds(s) /\ Pos(s, c.q) = j /\ Pos(s, s[h].id) = h
  BY <1>6, <1>9, PosIs DEF QuestionIds
<1>11. j < h
  <2>1. ~(Pos(s, c.q) >= Pos(s, s[h].id))
    BY <1>6, <1>7, <1>10 DEF ForwardReferences
  <2> HIDE DEF Silent
  <2> QED
    BY <1>6, <1>10, <2>1
<1>12. j \in asked
  <2>1. k + 1 \in 1 .. n /\ (k + 1) - 1 = k /\ (k + 1) + j <= n /\ k + 1 \in 0 .. n
    BY <1>5, <1>6, <1>11
  <2>2. j \in up[k + 1]
    <3> DEFINE k1 == k + 1
    <3>1. k1 \in 1 .. n /\ k1 - 1 = k
      BY <2>1
    <3> HIDE DEF k1
    <3>2. up[k1] = up[k] \cup Under(up[k])
      BY <1>1, <3>1
    <3>3. j \in Under(up[k])
      BY <1>5, <1>9 DEF Under
    <3> QED
      BY <3>2, <3>3 DEF k1
  <2>3. ~(h <= j)
    BY <1>6, <1>11
  <2>4. j \notin Silent
    BY <1>4, <2>3
  <2> QED
    BY <1>9, <2>1, <2>2, <2>4
<1>13. \E a \in AnswersTo(s[j]) : Holds(a, c.op, c.value)
  <2>1. c.op \in {"==", "!="} /\ ~Unchecked(c)
    BY <1>6
  <2>2. Compatible(s[j], c.value)
    BY <1>6, <1>7, <1>10, <2>1 DEF ImpossibleConditionals, Comparisons
  <2>3. Scaled(s[j]) \/ s[j].type = "single_choice"
    BY <1>6, <1>9 DEF ConditionsBy
  <2>4. c.op = "!=" => AnswersTo(s[j]) # {0}
    BY <1>9, <2>1 DEF Unchecked
  <2> QED
    BY <1>9, <2>1, <2>2, <2>3, <2>4, CompatibleHolds
<1> QED
  <2>1. j \in 1 .. h - 1
    BY <1>6, <1>11
  <2> QED
    BY <1>8, <1>9, <1>12, <1>13, <2>1

\* For every survey of equality conditions: what is flagged is exactly what keeps
\* questions from being asked.
THEOREM EqualitiesAreExact == Spec => []ScreenerExact
<1>1. ReadInv => Progress
  BY DEF ReadInv
<1>2. Spec => []Reported
  BY <1>1, ReadInit, ReadStep, ReportedInit, ReportedStep, PTL DEF Spec
<1>3. Reported => ScreenerExact
  <2> SUFFICES ASSUME Reported, DistinctIds(Questions), ConditionsBy(Questions, {"=="})
               PROVE  Asked(Questions)
                         = {i \in DOMAIN Questions : Chain(i) \cap FlaggedQuestions = {}}
    BY DEF ScreenerExact
  <2>1. Len(Questions) \in Nat /\ DOMAIN Questions = 1 .. Len(Questions)
    BY PrecomputeAssumption DEF Reported, Questions
  <2>2. \A j \in DOMAIN Questions : Questions[j].options \in Nat
    BY ConditionsAssumption DEF Reported, Questions
  <2>3. ASSUME NEW i \in Asked(Questions)
        PROVE  i \in DOMAIN Questions /\ Chain(i) \cap FlaggedQuestions = {}
    <3>1. i \in DOMAIN Questions
      BY <2>1, AskedIs
    <3>2. Chain(i) \subseteq Asked(Questions)
      BY <2>1, ChainIsAsked
    <3>3. ASSUME NEW h \in Asked(Questions)
          PROVE  h \notin FlaggedQuestions
      <4>1. h \in DOMAIN Questions
        BY <2>1, AskedIs
      <4>2. \A c \in Questions[h].cond : c.op = "=="
        BY <4>1 DEF ConditionsBy
      <4>3. /\ h \notin ForwardReferences(Questions) /\ h \notin UnknownDependencies(Questions)
            /\ h \notin ImpossibleConditionals(Questions)
        BY <2>1, <4>2, AskedIsAllowed
      <4> QED
        BY <4>3 DEF FlaggedQuestions, Screener, ScreenerFlags
    <3> QED
      BY <3>1, <3>2, <3>3
  <2>4. ASSUME NEW i \in DOMAIN Questions, Chain(i) \cap FlaggedQuestions = {}
        PROVE  i \in Asked(Questions)
    <3>1. Chain(i) \subseteq DOMAIN Questions
      BY <2>1, ChainIs
    <3>2. ASSUME NEW h \in Chain(i), NEW c \in Questions[h].cond
          PROVE  c.op \in {"==", "!="} /\ ~Unchecked(c)
      <4>1. c.op = "=="
        BY <3>1, <3>2 DEF ConditionsBy
      <4> QED
        BY <4>1 DEF Unchecked
    <3> QED
      BY <2>1, <2>2, <2>4, <3>2, UnflaggedIsAsked
  <2> QED
    BY <2>3, <2>4
<1> QED
  BY <1>2, <1>3, PTL

\* For every survey: what is flagged and asked all the same has a comparison other than
\* equality, and what is not asked without a flag hangs from a condition that the
\* checks do not decide.
THEOREM ChecksHaveTheseLimits == Spec => []ScreenerLimits
<1>1. ReadInv => Progress
  BY DEF ReadInv
<1>2. Spec => []Reported
  BY <1>1, ReadInit, ReadStep, ReportedInit, ReportedStep, PTL DEF Spec
<1>3. Reported => ScreenerLimits
  <2> DEFINE ops == Comparisons \cup {"in", "not_in"}
  <2> SUFFICES ASSUME Reported, DistinctIds(Questions), ConditionsBy(Questions, ops),
                      NEW i \in DOMAIN Questions
               PROVE  /\ i \in Asked(Questions) \cap FlaggedQuestions =>
                            \A c \in Questions[i].cond : c.op \in Comparisons \ {"=="}
                      /\ i \notin Asked(Questions) /\ Chain(i) \cap FlaggedQuestions = {} =>
                            \E j \in Chain(i) : \E c \in Questions[j].cond : Unchecked(c)
    BY DEF ScreenerLimits
  <2>1. Len(Questions) \in Nat /\ DOMAIN Questions = 1 .. Len(Questions)
    BY PrecomputeAssumption DEF Reported, Questions
  <2>2. \A j \in DOMAIN Questions : /\ Questions[j].options \in Nat
                                    /\ \A c, d \in Questions[j].cond : c = d
    BY ConditionsAssumption DEF Reported, Questions
  <2>3. ASSUME i \in Asked(Questions), i \in FlaggedQuestions, NEW c \in Questions[i].cond
        PROVE  c.op \in Comparisons \ {"=="}
    <3>1. i \in ImpossibleConditionals(Questions)
      <4>1. i \notin ForwardReferences(Questions) /\ i \notin UnknownDependencies(Questions)
        BY <2>1, <2>3, AskedIsAllowed
      <4> QED
        BY <2>3, <4>1 DEF FlaggedQuestions, Screener, ScreenerFlags
    <3>2. PICK d \in Questions[i].cond : d.op \in Comparisons \ {"=="}
      BY <2>1, <2>3, <3>1, AskedIsAllowed
    <3> QED
      BY <2>2, <2>3, <3>2
  <2>4. ASSUME Chain(i) \cap FlaggedQuestions = {},
               \A j \in Chain(i) : \A c \in Questions[j].cond : ~Unchecked(c)
        PROVE  i \in Asked(Questions)
    <3>1. Chain(i) \subseteq DOMAIN Questions
      BY <2>1, ChainIs
    <3>2. ASSUME NEW h \in Chain(i), NEW c \in Questions[h].cond
          PROVE  c.op \in {"==", "!="} /\ ~Unchecked(c)
      <4>1. c.op \in ops
        BY <3>1, <3>2 DEF ConditionsBy
      <4>2. ~Unchecked(c)
        BY <2>4, <3>2
      <4> QED
        BY <4>1, <4>2 DEF Unchecked, Comparisons
    <3> HIDE DEF ops
    <3> QED
      BY <2>1, <2>2, <2>4, <3>2, UnflaggedIsAsked
  <2> QED
    BY <2>3, <2>4
<1> QED
  BY <1>2, <1>3, PTL

===============================================================================
