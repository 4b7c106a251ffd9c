--------------------------- MODULE CalibrationProofs ---------------------------
(***************************************************************************)
(* Theorems about Calibration, for any number of calibrations, any corpus, *)
(* any size of the fatigue blocks, and statistics that find anything.      *)
(***************************************************************************)
EXTENDS Calibration, FiniteSetTheorems, TLAPS

-----------------------------------------------------------------------------
(* The rows of a calibration *)

LEMMA RowsCounted == PerSurvey = 19 /\ RowCount \in Nat
<1>1. Len(ALL_DEFECT_CLASSES) = 6 /\ Len(ALL_SEVERITIES) = 3
  BY DEF ALL_DEFECT_CLASSES, ALL_SEVERITIES
<1>2. PerSurvey = 19
  BY <1>1 DEF PerSurvey
<1>3. Len(Corpus) \in Nat
  BY CorpusAssumption
<1> QED
  BY <1>2, <1>3 DEF RowCount

Item == [id |-> "FAT", ordinal |-> TRUE]
Question == [id : STRING, ordinal : BOOLEAN] \cup {Item}
Survey == Seq(Question)

\* A row plants a defect of one class and severity in a survey of the corpus, or none.
LEMMA RowTyped ==
    ASSUME NEW k \in 1 .. RowCount
    PROVE  /\ Rows[k].clean \in Survey
           /\ Rows[k].expected \in DefectClasses \cup {"none"}
           /\ Rows[k].severity \in Severities \cup {"none"}
           /\ Rows[k].expected # "none" => Rows[k].severity \in Severities
<1> DEFINE j == (k - 1) % PerSurvey
           n == (k - 1) \div PerSurvey
<1>1. /\ Rows[k].clean = Corpus[n + 1]
      /\ Rows[k].expected = IF j = 0 THEN "none" ELSE ALL_DEFECT_CLASSES[((j - 1) \div 3) + 1]
      /\ Rows[k].severity = IF j = 0 THEN "none" ELSE ALL_SEVERITIES[((j - 1) % 3) + 1]
  BY DEF Rows
<1>2. k \in Nat /\ 1 <= k /\ k <= Len(Corpus) * 19 /\ Len(Corpus) \in Nat
  BY RowsCounted, CorpusAssumption DEF RowCount
<1>3. j \in 0 .. 18 /\ n \in 0 .. Len(Corpus) - 1
  BY <1>2, RowsCounted
<1>4. Corpus[n + 1] \in Survey
  <2>1. Corpus[n + 1] \in Seq([id : STRING, ordinal : BOOLEAN])
    BY <1>3, <1>2, CorpusAssumption
  <2> DEFINE t == Corpus[n + 1]
             Q == [id : STRING, ordinal : BOOLEAN]
  <2>2. t \in Seq(Q) => t \in Seq(Q \cup {Item})
    <3> HIDE DEF t, Q
    <3> QED
      OBVIOUS
  <2> QED
    BY <2>1, <2>2 DEF Survey, Question
<1>5. CASE j = 0
  BY <1>1, <1>4, <1>5
<1>6. CASE j # 0
  <2>1. ((j - 1) \div 3) + 1 \in 1 .. 6 /\ ((j - 1) % 3) + 1 \in 1 .. 3
    <3> HIDE DEF j, n
    <3> DEFINE i == j - 1
    <3>1. i \in 0 .. 17
      BY <1>3, <1>6
    <3> HIDE DEF i
    <3>2. i \div 3 \in 0 .. 5 /\ i % 3 \in 0 .. 2
      BY <3>1
    <3> QED
      BY <3>1, <3>2 DEF i
  <2>2. \A i \in 1 .. 6 : ALL_DEFECT_CLASSES[i] \in DefectClasses
    BY DEF ALL_DEFECT_CLASSES, DefectClasses
  <2>3. \A i \in 1 .. 3 : ALL_SEVERITIES[i] \in Severities
    BY DEF ALL_SEVERITIES, Severities
  <2> QED
    BY <1>1, <1>4, <1>6, <2>1, <2>2, <2>3
<1> QED
  BY <1>5, <1>6

\* What is injected into a survey is a survey.
LEMMA InjectedTyped ==
    ASSUME NEW k \in 1 .. RowCount
    PROVE  Injected(Rows[k]).questions \in Survey
<1> DEFINE row == Rows[k]
           s == row.clean
<1>1. s \in Survey
  BY RowTyped
<1>2. CASE row.expected = "fatigue_block"
  <2> DEFINE b == BlockSize[row.severity]
  <2>1. b \in Nat
    BY <1>2, RowTyped, CorpusAssumption
  <2>2. [i \in 1 .. b |-> Item] \in Survey
    <3> HIDE DEF b
    <3> QED
      BY <2>1 DEF Survey, Question
  <2>3. Injected(row).questions = s \o [i \in 1 .. b |-> Item]
    BY <1>2 DEF Injected, Fatigued, Variant, Item
  <2> HIDE DEF b, s
  <2> QED
    BY <1>1, <2>2, <2>3 DEF Survey
<1>3. CASE row.expected = "redundant_pair" /\ Eligible(s) # {}
  <2>1. Target(s) \in 1 .. Len(s)
    BY <1>1, <1>3 DEF Target, Eligible, Survey
  <2>2. Injected(row).questions =
           SubSeq(s, 1, Target(s)) \o <<s[Target(s)]>> \o SubSeq(s, Target(s) + 1, Len(s))
    BY <1>3 DEF Injected, Doubled, Variant
  <2> HIDE DEF s
  <2>3. /\ SubSeq(s, 1, Target(s)) \in Survey /\ SubSeq(s, Target(s) + 1, Len(s)) \in Survey
        /\ <<s[Target(s)]>> \in Survey
    <3> DEFINE t == Target(s)
    <3>1. s \in Seq(Question) /\ t \in 1 .. Len(s)
      BY <1>1, <2>1 DEF Survey
    <3> HIDE DEF t
    <3>2. /\ SubSeq(s, 1, t) \in Seq(Question) /\ SubSeq(s, t + 1, Len(s)) \in Seq(Question)
          /\ <<s[t]>> \in Seq(Question)
      BY <3>1
    <3> QED
      BY <3>2 DEF t, Survey
  <2> QED
    BY <2>2, <2>3 DEF Survey
<1>4. CASE /\ row.expected # "fatigue_block"
           /\ ~(row.expected = "redundant_pair" /\ Eligible(s) # {})
  <2>1. Injected(row).questions = s
    BY <1>4 DEF Injected, Variant
  <2> QED
    BY <1>1, <2>1
<1> QED
  BY <1>2, <1>3, <1>4

\* A class is observed a number of times.
LEMMA ObservedTyped ==
    ASSUME NEW k \in 1 .. RowCount
    PROVE  Observed(k) \in [DefectClasses -> Nat]
<1> DEFINE v == Injected(Rows[k])
           D == DOMAIN v.questions
           shifts == found[k].shift \cap D
           spreads == found[k].spread \cap Comparable(v.questions)
<1>1. D = 1 .. Len(v.questions) /\ Len(v.questions) \in Nat
  BY InjectedTyped DEF Survey
<1>2. IsFiniteSet(D)
  BY <1>1, FS_Interval
<1>3. shifts \subseteq D /\ spreads \subseteq D
  BY DEF Comparable, Eligible
<1>4. Cardinality(shifts) \in Nat /\ Cardinality(spreads) \in Nat
  BY <1>2, <1>3, FS_Subset, FS_CardinalityType
<1>5. Observed(k) = Detected(v, found[k])
  BY DEF Observed
<1> HIDE DEF v
<1> QED
  BY <1>4, <1>5 DEF Detected, DefectClasses

-----------------------------------------------------------------------------
(* The tally *)

\* The two counters of a planted defect: a row adds one to their sum if it plants
\* what the cell is about, and nothing otherwise.
LEMMA RecordTyped ==
    ASSUME NEW results \in [Cells -> Tally], NEW k \in 1 .. RowCount
    PROVE  LET after == Record(results, Rows[k].expected, Rows[k].severity, Observed(k))
           IN  /\ after \in [Cells -> Tally]
               /\ \A cell \in Cells :
                     after[cell].tp + after[cell].fn =
                        results[cell].tp + results[cell].fn
                            + (IF <<Rows[k].expected, Rows[k].severity>> = cell THEN 1 ELSE 0)
<1> DEFINE e == Rows[k].expected
           v == Rows[k].severity
           o == Observed(k)
           after == Record(results, e, v, o)
<1>1. o \in [DefectClasses -> Nat]
  BY ObservedTyped
<1>2. e \in DefectClasses \cup {"none"}
  BY RowTyped
<1>3. "none" \notin DefectClasses
  BY DEF DefectClasses
<1> HIDE DEF o, e, v
<1>4. ASSUME NEW cell \in Cells
      PROVE  /\ after[cell] \in Tally
             /\ after[cell].tp + after[cell].fn =
                   results[cell].tp + results[cell].fn + (IF <<e, v>> = cell THEN 1 ELSE 0)
  <2> DEFINE t == results[cell]
  <2>1. t \in Tally
    OBVIOUS
  <2>2. cell[1] \in DefectClasses /\ cell = <<cell[1], cell[2]>> /\ o[cell[1]] \in Nat
    BY <1>1 DEF Cells
  <2>3. e # "none" /\ cell = <<e, v>> <=> <<e, v>> = cell
    BY <1>3, <2>2
  <2>4. \/ <<e, v>> = cell /\ after[cell] \in {[t EXCEPT !.tp = @ + 1], [t EXCEPT !.fn = @ + 1]}
        \/ <<e, v>> # cell /\ after[cell] \in {[t EXCEPT !.fp = @ + o[cell[1]]], t}
    BY <2>3 DEF Record
  <2> DEFINE u == after[cell]
             n == o[cell[1]]
  <2>5. n \in Nat /\ t.tp \in Nat /\ t.fp \in Nat /\ t.fn \in Nat
    BY <2>1, <2>2 DEF Tally
  <2>6. \/ <<e, v>> = cell /\ u = [t EXCEPT !.tp = t.tp + 1]
        \/ <<e, v>> = cell /\ u = [t EXCEPT !.fn = t.fn + 1]
        \/ <<e, v>> # cell /\ u = [t EXCEPT !.fp = t.fp + n]
        \/ <<e, v>> # cell /\ u = t
    BY <2>4
  <2> HIDE DEF t, u, n
  <2>7. CASE <<e, v>> = cell /\ u = [t EXCEPT !.tp = t.tp + 1]
    BY <2>1, <2>5, <2>7 DEF Tally, u, t
  <2>8. CASE <<e, v>> = cell /\ u = [t EXCEPT !.fn = t.fn + 1]
    BY <2>1, <2>5, <2>8 DEF Tally, u, t
  <2>9. CASE <<e, v>> # cell /\ u = [t EXCEPT !.fp = t.fp + n]
    BY <2>1, <2>5, <2>9 DEF Tally, u, t
  <2>10. CASE <<e, v>> # cell /\ u = t
    BY <2>1, <2>5, <2>10 DEF Tally, u, t
  <2> QED
    BY <2>6, <2>7, <2>8, <2>9, <2>10
<1>5. after \in [Cells -> Tally]
  <2>1. DOMAIN after = Cells /\ after = [cell \in Cells |-> after[cell]]
    BY DEF Record
  <2> HIDE DEF after
  <2> QED
    BY <1>4, <2>1
<1> QED
  BY <1>4, <1>5 DEF e, v, o

\* What a cell has counted so far.
Counted(cell, n) == {k \in Plants[cell] : k < n}

LEMMA CountedNext ==
    ASSUME NEW cell \in Cells, NEW n \in 1 .. RowCount
    PROVE  /\ Cardinality(Counted(cell, n)) \in Nat
           /\ Cardinality(Counted(cell, n + 1)) = Cardinality(Counted(cell, n))
                 + (IF <<Rows[n].expected, Rows[n].severity>> = cell THEN 1 ELSE 0)
<1>1. RowCount \in Nat
  BY RowsCounted
<1>2. Plants[cell] = {k \in 1 .. RowCount : <<Rows[k].expected, Rows[k].severity>> = cell}
  BY DEF Plants
<1>3. IsFiniteSet(Counted(cell, n))
  <2>1. Counted(cell, n) \subseteq 1 .. RowCount
    BY <1>2 DEF Counted
  <2>2. IsFiniteSet(1 .. RowCount)
    BY <1>1, FS_Interval
  <2> QED
    BY <2>1, <2>2, FS_Subset
<1>4. CASE <<Rows[n].expected, Rows[n].severity>> = cell
  <2>1. Counted(cell, n + 1) = Counted(cell, n) \cup {n}
    BY <1>1, <1>2, <1>4 DEF Counted
  <2>2. n \notin Counted(cell, n)
    BY <1>1 DEF Counted
  <2> QED
    BY <1>3, <1>4, <2>1, <2>2, FS_AddElement, FS_CardinalityType
<1>5. CASE <<Rows[n].expected, Rows[n].severity>> # cell
  <2>1. Counted(cell, n + 1) = Counted(cell, n)
    BY <1>1, <1>2, <1>5 DEF Counted
  <2> QED
    BY <1>3, <1>5, <2>1, FS_CardinalityType
<1> QED
  BY <1>4, <1>5

-----------------------------------------------------------------------------
(* A calibration *)

\* A row is analyzed only where there is one, and it is the row that is in the tables.
AtRow == \A c \in Starts : pc[c] = "analyze" => at[c] \in 1 .. RowCount

TallyInv == TypeOK /\ AtRow /\ TallyBalanced

LEMMA TallyInit == Init => TallyInv
<1> SUFFICES ASSUME Init PROVE TallyInv
  OBVIOUS
<1>1. RowCount \in Nat
  BY RowsCounted
<1>2. TypeOK
  <2>1. NoResults \in [Cells -> Tally]
    BY DEF NoResults, Tally
  <2> QED
    BY <1>1, <2>1 DEF Init, TypeOK
<1>3. AtRow
  BY DEF Init, AtRow
<1>4. TallyBalanced
  <2> SUFFICES ASSUME NEW c \in Starts, NEW cell \in Cells
               PROVE  tally[c][cell].tp + tally[c][cell].fn
                         = Cardinality({k \in Plants[cell] : k < at[c]})
    BY DEF TallyBalanced
  <2>1. {k \in Plants[cell] : k < at[c]} = {}
    BY <1>1 DEF Init, Plants
  <2>2. tally[c][cell].tp = 0 /\ tally[c][cell].fn = 0
    BY DEF Init, NoResults
  <2> QED
    BY <2>1, <2>2, FS_EmptySet
<1> QED
  BY <1>2, <1>3, <1>4 DEF TallyInv

LEMMA AnalyzeTallied ==
    ASSUME TallyInv, NEW c \in Starts, Analyze(c)
    PROVE  TallyInv'
<1> DEFINE k == at[c]
           after == Record(tally[c], Rows[k].expected, Rows[k].severity, Observed(k))
<1>1. k \in 1 .. RowCount /\ RowCount \in Nat
  BY RowsCounted DEF TallyInv, AtRow, Analyze
<1>2. /\ tally' = [tally EXCEPT ![c] = after]
      /\ at' = [at EXCEPT ![c] = k + 1]
      /\ pc' = [pc EXCEPT ![c] = "insert"]
      /\ scratch' \subseteq scratch
      /\ UNCHANGED <<kind, found, stored, together>>
  BY DEF Analyze, Goto
<1>3. /\ after \in [Cells -> Tally]
      /\ \A cell \in Cells :
            after[cell].tp + after[cell].fn = tally[c][cell].tp + tally[c][cell].fn
                + (IF <<Rows[k].expected, Rows[k].severity>> = cell THEN 1 ELSE 0)
  BY <1>1, RecordTyped DEF TallyInv, TypeOK
<1> HIDE DEF after
<1>4. TypeOK'
  BY <1>1, <1>2, <1>3 DEF TallyInv, TypeOK
<1>5. AtRow'
  BY <1>2 DEF TallyInv, TypeOK, AtRow
<1>6. TallyBalanced'
  <2> SUFFICES ASSUME NEW d \in Starts, NEW cell \in Cells
               PROVE  tally'[d][cell].tp + tally'[d][cell].fn
                         = Cardinality(Counted(cell, at'[d]))
    BY DEF TallyBalanced, Counted, Plants, Cells
  <2>1. tally[d][cell].tp + tally[d][cell].fn = Cardinality(Counted(cell, at[d]))
    BY DEF TallyInv, TallyBalanced, Counted
  <2>2. CASE d = c
    <3>1. tally'[d] = after /\ at'[d] = k + 1
      BY <1>2, <2>2 DEF TallyInv, TypeOK
    <3> QED
      BY <1>1, <1>3, <2>1, <2>2, <3>1, CountedNext
  <2>3. CASE d # c
    BY <1>2, <2>1, <2>3 DEF TallyInv, TypeOK
  <2> QED
    BY <2>2, <2>3
<1> QED
  BY <1>4, <1>5, <1>6 DEF TallyInv

LEMMA TallyStep == TallyInv /\ [Next]_vars => TallyInv'
<1> SUFFICES ASSUME TallyInv, [Next]_vars PROVE TallyInv'
  OBVIOUS
<1>0. RowCount \in Nat
  BY RowsCounted
<1>1. ASSUME NEW c \in Starts, Check(c) \/ Persist(c) \/ Cut(c)
      PROVE  TallyInv'
  <2>1. UNCHANGED <<kind, found, at, tally, scratch>>
    BY <1>1 DEF Check, Persist, Cut
  <2>2. /\ pc' \in [Starts -> {"check", "insert", "analyze", "done", "skipped", "cut"}]
        /\ pc'[c] # "analyze" /\ \A d \in Starts \ {c} : pc'[d] = pc[d]
    BY <1>1 DEF Check, Persist, Cut, Goto, TallyInv, TypeOK
  <2>3. stored' \subseteq Starts /\ together' \subseteq Starts \X Starts
    BY <1>1 DEF Check, Persist, Cut, TallyInv, TypeOK
  <2>4. TypeOK'
    BY <2>1, <2>2, <2>3 DEF TallyInv, TypeOK
  <2>5. AtRow'
    BY <2>1, <2>2 DEF TallyInv, AtRow
  <2>6. TallyBalanced'
    BY <2>1 DEF TallyInv, TallyBalanced, Plants
  <2> QED
    BY <2>4, <2>5, <2>6 DEF TallyInv
<1>2. ASSUME NEW c \in Starts, Insert(c)
      PROVE  TallyInv'
  <2>1. at[c] \in 1 .. RowCount
    BY <1>0, <1>2 DEF Insert, TallyInv, TypeOK
  <2>2. UNCHANGED <<kind, found, at, tally, stored, together>>
    BY <1>2 DEF Insert
  <2>3. scratch' = scratch \cup {<<c, at[c]>>} /\ pc' = [pc EXCEPT ![c] = "analyze"]
    BY <1>2 DEF Insert, Goto
  <2>4. TypeOK'
    BY <2>1, <2>2, <2>3 DEF TallyInv, TypeOK
  <2>5. AtRow'
    BY <2>1, <2>2, <2>3 DEF TallyInv, TypeOK, AtRow
  <2>6. TallyBalanced'
    BY <2>2 DEF TallyInv, TallyBalanced, Plants
  <2> QED
    BY <2>4, <2>5, <2>6 DEF TallyInv
<1>3. CASE UNCHANGED vars
  BY <1>3 DEF vars, TallyInv, TypeOK, AtRow, TallyBalanced, Plants
<1> QED
  BY <1>1, <1>2, <1>3, AnalyzeTallied DEF Next

LEMMA TallyHolds == Spec => []TallyInv
  BY TallyInit, TallyStep, PTL DEF Spec

\* A calibration keeps its types; in particular the tally counts in numbers, and no
\* row beyond the corpus is inserted.
THEOREM CalibrationTyping == Spec => []TypeOK
<1>1. TallyInv => TypeOK
  BY DEF TallyInv
<1> QED
  BY <1>1, TallyHolds, PTL

\* At every time of every calibration, hits and misses of a cell are as many as the
\* defects planted so far that belong to it.
THEOREM DefectsAreCountedOnce == Spec => []TallyBalanced
<1>1. TallyInv => TallyBalanced
  BY DEF TallyInv
<1> QED
  BY <1>1, TallyHolds, PTL

\* What is left in the tables is the row a calibration was at when it was cut off.
THEOREM LeftoversAreCut == Spec => []LeftoverWasCut
<1>1. Init => LeftoverWasCut
  BY DEF Init, LeftoverWasCut
<1>2. TallyInv /\ LeftoverWasCut /\ [Next]_vars => LeftoverWasCut'
  <2> SUFFICES ASSUME TallyInv, LeftoverWasCut, [Next]_vars, NEW t \in scratch'
               PROVE  pc'[t[1]] \in {"analyze", "cut"} /\ at'[t[1]] = t[2]
    BY DEF LeftoverWasCut
  <2>0. t \in scratch => /\ t[1] \in Starts /\ t = <<t[1], t[2]>>
                         /\ pc[t[1]] \in {"analyze", "cut"} /\ at[t[1]] = t[2]
    BY DEF LeftoverWasCut, TallyInv, TypeOK
  <2>1. ASSUME NEW c \in Starts, Check(c) \/ Persist(c) \/ Cut(c)
        PROVE  pc'[t[1]] \in {"analyze", "cut"} /\ at'[t[1]] = t[2]
    BY <2>0, <2>1 DEF Check, Persist, Cut, Goto, TallyInv, TypeOK
  <2>2. ASSUME NEW c \in Starts, Insert(c)
        PROVE  pc'[t[1]] \in {"analyze", "cut"} /\ at'[t[1]] = t[2]
    BY <2>0, <2>2 DEF Insert, Goto, TallyInv, TypeOK
  <2>3. ASSUME NEW c \in Starts, Analyze(c)
        PROVE  pc'[t[1]] \in {"analyze", "cut"} /\ at'[t[1]] = t[2]
    <3>1. /\ t \in scratch /\ t # <<c, at[c]>>
          /\ pc' = [pc EXCEPT ![c] = "insert"] /\ at' = [at EXCEPT ![c] = at[c] + 1]
      BY <2>3 DEF Analyze, Goto
    <3>2. t[1] # c
      BY <2>0, <3>1
    <3> QED
      BY <2>0, <3>1, <3>2 DEF TallyInv, TypeOK
  <2>4. CASE UNCHANGED vars
    BY <2>0, <2>4 DEF vars
  <2> QED
    BY <2>1, <2>2, <2>3, <2>4 DEF Next
<1> QED
  BY <1>1, <1>2, TallyHolds, PTL DEF Spec

-----------------------------------------------------------------------------
(* Container starts *)

\* A container start that found nothing stored is together with everybody from
\* then on; only who is done has stored.
LookedFirst ==
    /\ \A c \in Starts : kind[c] = "boot" /\ pc[c] \in {"insert", "analyze", "done"} =>
          \A d \in Starts : <<c, d>> \in together
    /\ \A c \in stored : pc[c] = "done"

\* Two container starts that both store a result had overlapped.
THEOREM SecondResultOverlapped == Spec => []AgainOverlapped
<1>1. Init => LookedFirst
  BY DEF Init, LookedFirst
<1>2. TallyInv /\ LookedFirst /\ [Next]_vars => LookedFirst'
  <2> SUFFICES ASSUME TallyInv, LookedFirst, [Next]_vars PROVE LookedFirst'
    OBVIOUS
  <2>1. ASSUME NEW c \in Starts, Check(c)
        PROVE  LookedFirst'
    <3>1. pc[c] = "check" /\ pc' = [pc EXCEPT ![c] = IF stored = {} THEN "insert" ELSE "skipped"]
      BY <2>1 DEF Check, Goto
    <3>2. together' = together \cup {<<c, d>> : d \in Starts \ stored}
      BY <2>1 DEF Check
    <3>3. UNCHANGED <<kind, stored>>
      BY <2>1 DEF Check
    <3> QED
      BY <3>1, <3>2, <3>3 DEF LookedFirst, TallyInv, TypeOK
  <2>2. ASSUME NEW c \in Starts, Insert(c) \/ Analyze(c) \/ Persist(c) \/ Cut(c)
        PROVE  LookedFirst'
    BY <2>2 DEF Insert, Analyze, Persist, Cut, Goto, LookedFirst, TallyInv, TypeOK
  <2>3. CASE UNCHANGED vars
    BY <2>3 DEF vars, LookedFirst
  <2> QED
    BY <2>1, <2>2, <2>3 DEF Next
<1>3. TallyInv /\ LookedFirst => AgainOverlapped
  BY DEF LookedFirst, AgainOverlapped, TallyInv, TypeOK
<1> QED
  BY <1>1, <1>2, <1>3, TallyHolds, PTL DEF Spec

===============================================================================
