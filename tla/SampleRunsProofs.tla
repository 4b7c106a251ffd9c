--------------------------- MODULE SampleRunsProofs ---------------------------
(***************************************************************************)
(* Theorems about SampleRuns, for any samples, clicks and container starts *)
(* and any jobs of the workers: types, the order of rows and transactions, *)
(* which rows are twins, and that every row implements RunRow.             *)
(***************************************************************************)
EXTENDS SampleRuns, WellFoundedInduction, TLAPS

-----------------------------------------------------------------------------
(* The order of the rows *)

LEMMA Smallest ==
    ASSUME NEW T \in SUBSET Nat, T # {}
    PROVE  \E x \in T : \A y \in T : x <= y
<1>1. PICK x \in T : \A y \in T : ~(<<y, x>> \in OpToRel(<, Nat))
  BY WFMin, NatLessThanWellFounded
<1>2. \A y \in T : ~(y < x)
  BY <1>1 DEF OpToRel
<1> QED
  BY <1>2

Transactions ==
    ({"row"} \X Nat) \cup {ClickTx(c) : c \in Clicks} \cup {BootTx(b) : b \in Boots}

\* What follows the position of x moves up by one.
LEMMA WithoutAt ==
    ASSUME NEW S, NEW list \in Seq(S), NEW x
    PROVE  /\ Without(list, x) \in Seq(S)
           /\ \/ x \notin ToSet(list) /\ Without(list, x) = list
              \/ \E k \in 1 .. Len(list) :
                    /\ list[k] = x /\ Len(Without(list, x)) = Len(list) - 1
                    /\ \A i \in 1 .. Len(list) - 1 :
                          Without(list, x)[i] = IF i < k THEN list[i] ELSE list[i + 1]
<1>1. CASE x \in ToSet(list)
  <2> DEFINE k == CHOOSE i \in DOMAIN list : list[i] = x
  <2>1. k \in 1 .. Len(list) /\ list[k] = x
    BY <1>1 DEF ToSet
  <2>2. Without(list, x) = RemoveAt(list, k)
    BY <1>1 DEF Without
  <2> HIDE DEF k
  <2>3. /\ SubSeq(list, 1, k - 1) \in Seq(S) /\ Len(SubSeq(list, 1, k - 1)) = k - 1
        /\ \A i \in 1 .. k - 1 : SubSeq(list, 1, k - 1)[i] = list[i]
    BY <2>1
  <2>4. /\ SubSeq(list, k + 1, Len(list)) \in Seq(S)
        /\ Len(SubSeq(list, k + 1, Len(list))) = Len(list) - k
        /\ \A i \in 1 .. Len(list) - k : SubSeq(list, k + 1, Len(list))[i] = list[k + i]
    BY <2>1
  <2> DEFINE before == SubSeq(list, 1, k - 1)
             after == SubSeq(list, k + 1, Len(list))
  <2>5. Without(list, x) = before \o after
    BY <2>2 DEF RemoveAt
  <2> HIDE DEF before, after
  <2>6. /\ before \in Seq(S) /\ Len(before) = k - 1 /\ \A i \in 1 .. k - 1 : before[i] = list[i]
        /\ after \in Seq(S) /\ Len(after) = Len(list) - k
        /\ \A i \in 1 .. Len(list) - k : after[i] = list[k + i]
    BY <2>3, <2>4 DEF before, after
  <2>7. Without(list, x) \in Seq(S) /\ Len(Without(list, x)) = Len(list) - 1
    <3> before \in Seq(S) /\ after \in Seq(S)
      BY <2>6
    <3>1. before \o after \in Seq(S) /\ Len(before \o after) = Len(before) + Len(after)
      OBVIOUS
    <3>2. Len(list) \in Nat /\ k \in Nat
      BY <2>1
    <3>3. Len(before \o after) = Len(list) - 1
      BY <2>6, <3>1, <3>2
    <3> QED
      BY <2>5, <3>1, <3>3
  <2>8. ASSUME NEW i \in 1 .. Len(list) - 1
        PROVE  Without(list, x)[i] = IF i < k THEN list[i] ELSE list[i + 1]
    <3>1. CASE i < k
      BY <2>1, <2>5, <2>6, <3>1
    <3>2. CASE ~(i < k)
      <4>1. Without(list, x)[i] = after[i - (k - 1)]
        BY <2>1, <2>5, <2>6, <3>2
      <4>2. after[i - (k - 1)] = list[k + (i - (k - 1))] /\ k + (i - (k - 1)) = i + 1
        BY <2>1, <2>6, <3>2
      <4> QED
        BY <3>2, <4>1, <4>2
    <3> QED
      BY <3>1, <3>2
  <2> QED
    BY <2>1, <2>7, <2>8
<1>2. CASE x \notin ToSet(list)
  BY <1>2 DEF Without
<1> QED
  BY <1>1, <1>2

\* Nothing else gets lost, and what was there once is there once.
LEMMA WithoutKeeps ==
    ASSUME NEW S, NEW list \in Seq(S), IsInjective(list), NEW x
    PROVE  IsInjective(Without(list, x)) /\ ToSet(Without(list, x)) = ToSet(list) \ {x}
<1>1. CASE x \notin ToSet(list)
  BY <1>1 DEF Without
<1>2. CASE x \in ToSet(list)
  <2> DEFINE rest == Without(list, x)
  <2>1. PICK k \in 1 .. Len(list) :
            /\ list[k] = x /\ Len(rest) = Len(list) - 1
            /\ \A i \in 1 .. Len(list) - 1 : rest[i] = IF i < k THEN list[i] ELSE list[i + 1]
    BY <1>2, WithoutAt
  <2>2. rest \in Seq(S)
    BY WithoutAt
  <2> HIDE DEF rest
  <2>3. DOMAIN rest = 1 .. Len(list) - 1 /\ DOMAIN list = 1 .. Len(list) /\ Len(list) \in Nat
    BY <2>1, <2>2
  <2>4. \A i, j \in 1 .. Len(list) : list[i] = list[j] => i = j
    BY <2>3 DEF IsInjective
  <2>5. IsInjective(rest)
    <3> SUFFICES ASSUME NEW i \in 1 .. Len(list) - 1, NEW j \in 1 .. Len(list) - 1, rest[i] = rest[j]
                 PROVE  i = j
      BY <2>3 DEF IsInjective
    <3> DEFINE from(n) == IF n < k THEN n ELSE n + 1
    <3>1. list[from(i)] = list[from(j)]
      BY <2>1
    <3>2. from(i) = from(j)
      BY <2>3, <2>4, <3>1
    <3> QED
      BY <3>2
  <2>6. ASSUME NEW y \in ToSet(list), y # x PROVE y \in ToSet(rest)
    <3>1. PICK i \in 1 .. Len(list) : list[i] = y
      BY <2>3 DEF ToSet
    <3>2. CASE i < k
      BY <2>1, <2>3, <3>1, <3>2 DEF ToSet
    <3>3. CASE i > k
      <4>1. i - 1 \in 1 .. Len(list) - 1 /\ rest[i - 1] = list[i]
        BY <2>1, <2>3, <3>3
      <4> QED
        BY <2>3, <3>1, <4>1 DEF ToSet
    <3> QED
      BY <2>1, <2>3, <2>6, <3>1, <3>2, <3>3
  <2>7. ASSUME NEW y \in ToSet(rest) PROVE y \in ToSet(list) /\ y # x
    <3>1. PICK i \in 1 .. Len(list) - 1 : rest[i] = y
      BY <2>3 DEF ToSet
    <3>2. PICK j \in 1 .. Len(list) : j # k /\ list[j] = y
      <4>1. CASE i < k
        BY <2>1, <2>3, <3>1, <4>1
      <4>2. CASE ~(i < k)
        BY <2>1, <2>3, <3>1, <4>2
      <4> QED
        BY <4>1, <4>2
    <3> QED
      BY <2>1, <2>3, <2>4, <3>2 DEF ToSet
  <2> QED
    BY <2>5, <2>6, <2>7 DEF rest
<1> QED
  BY <1>1, <1>2

LEMMA EndingTyped ==
    ASSUME begun \in Seq(Transactions), NEW x, Ending(x)
    PROVE  begun' \in Seq(Transactions)
  BY WithoutAt DEF Ending

\* The row a precompute picks is a row of its sample.
LEMMA OldestTyped ==
    ASSUME begun \in Seq(Transactions), NEW s, Oldest(s) # 0
    PROVE  Oldest(s) \in Of(s)
<1> DEFINE at == {i \in DOMAIN begun : \E r \in Of(s) : begun[i] = <<"row", r>>}
<1>1. at # {} /\ Oldest(s) = begun[Min(at)][2]
  BY DEF Oldest
<1>2. at \in SUBSET Nat
  OBVIOUS
<1>3. Min(at) \in at
  <2> HIDE DEF at
  <2>1. \E x \in at : \A y \in at : x <= y
    BY <1>1, <1>2, Smallest
  <2> QED
    BY <2>1 DEF Min
<1>4. PICK r \in Of(s) : begun[Min(at)] = <<"row", r>>
  BY <1>3
<1> QED
  BY <1>1, <1>4

-----------------------------------------------------------------------------
(* Types *)

Row == [survey : Samples, status : RunStatuses, blind : BOOLEAN]
Job == [at : {"none", "queued", "busy"}, seen : RunStatuses \cup {"none"}]
BootType == [pc : {"new", "seed", "insert", "count", "gate", "pick", "clear", "fill",
                   "finish", "done", "off"},
             i : 1 .. Len(SampleOrder), row : Nat, seen : RunStatuses \cup {"none"},
             knew : Nat, whole : BOOLEAN]

TablesTyped == rows \in Seq(Row) /\ begun \in Seq(Transactions)

JobsTyped == driver \in Seq(Job) /\ Len(driver) = Len(rows)

\* The rows that requests have found are in RowsFound.
ClicksTyped ==
    /\ DOMAIN click = Clicks
    /\ \A c \in Clicks :
          /\ click[c] = [pc |-> click[c].pc, row |-> click[c].row, knew |-> click[c].knew]
          /\ click[c].knew \in 0 .. Len(rows)
          /\ click[c].pc = "enqueue" => click[c].row \in Ids

BootsTyped ==
    /\ boot \in [Boots -> BootType]
    /\ \A b \in Boots :
          /\ boot[b].knew <= Len(rows)
          /\ boot[b].pc \in {"clear", "fill", "finish"} => boot[b].row \in Ids

Typed == TablesTyped /\ JobsTyped /\ ClicksTyped /\ BootsTyped

LEMMA OrderTyped ==
    /\ Len(SampleOrder) \in Nat \ {0}
    /\ \A i \in 1 .. Len(SampleOrder) : SampleOrder[i] \in Samples
    /\ \A c \in Clicks : Clicked[c] \in Samples
  BY SamplesAssumption DEF Samples, ToSet

LEMMA BootRecordTyped ==
    ASSUME NEW pc \in {"seed", "count", "pick", "done", "off", "new"}, NEW whole \in BOOLEAN
    PROVE  /\ BootRecord(pc, whole) \in BootType
           /\ BootRecord(pc, whole).pc \in {"seed", "count", "pick", "done", "off", "new"}
           /\ BootRecord(pc, whole).knew = 0
  BY OrderTyped DEF BootRecord, BootType

\* A bootstrap that goes on to another sample or step works on no row.
LEMMA NextSampleTyped ==
    ASSUME Typed, NEW b \in Boots, NEW p \in {"seed", "pick"}, NEW after \in {"count", "done"},
           NextSample(b, p, after)
    PROVE  /\ boot' \in [Boots -> BootType]
           /\ boot'[b].knew = 0
           /\ boot'[b].pc \in {"seed", "count", "pick", "done", "off", "new"}
           /\ \A d \in Boots \ {b} : boot'[d] = boot[d]
<1> DEFINE last == boot[b].i = Len(SampleOrder)
           fresh == BootRecord(IF last THEN after ELSE p, boot[b].whole)
           next == [fresh EXCEPT !.i = IF last THEN 1 ELSE boot[b].i + 1]
<1>1. boot[b] \in BootType
  BY DEF Typed, BootsTyped
<1>2. boot[b].whole \in BOOLEAN /\ boot[b].i \in 1 .. Len(SampleOrder)
  BY <1>1 DEF BootType
<1>3. /\ fresh \in BootType /\ fresh.knew = 0
      /\ fresh.pc \in {"seed", "count", "pick", "done", "off", "new"}
  BY <1>2, BootRecordTyped
<1>4. (IF last THEN 1 ELSE boot[b].i + 1) \in 1 .. Len(SampleOrder)
  BY <1>2, OrderTyped
<1>5. boot' = [boot EXCEPT ![b] = next]
  BY DEF NextSample
<1> HIDE DEF fresh
<1>6. /\ next \in BootType /\ next.knew = 0
      /\ next.pc \in {"seed", "count", "pick", "done", "off", "new"}
  BY <1>3, <1>4 DEF BootType
<1> HIDE DEF next
<1> QED
  BY <1>5, <1>6 DEF Typed, BootsTyped

\* A new row is pending and without a job; the others stay as they are.
LEMMA InsertTyped ==
    ASSUME TablesTyped, JobsTyped, NEW x, NEW s \in Samples, NEW knew, InsertRow(x, s, knew)
    PROVE  /\ TablesTyped' /\ JobsTyped'
           /\ Len(rows') = Len(rows) + 1
           /\ \A r \in Ids : rows'[r] = rows[r]
           /\ rows'[Len(rows) + 1].status = "pending"
           /\ rows'[Len(rows) + 1].survey = s
           /\ rows'[Len(rows) + 1].blind = (\E a \in Of(s) : a > knew)
<1> DEFINE r == Len(rows) + 1
           overlaps == \E a \in Of(s) : a > knew
           new == [survey |-> s, status |-> "pending", blind |-> overlaps]
<1>1. new \in Row
  BY DEF Row, RunStatuses, ActiveStatuses
<1>2. rows' = Append(rows, new) /\ driver' = Append(driver, NoJob)
  BY DEF InsertRow
<1>3. begun' = [i \in DOMAIN begun |-> IF begun[i] = x THEN <<"row", r>> ELSE begun[i]]
  BY DEF InsertRow
<1>4. begun' \in Seq(Transactions)
  <2>1. r \in Nat /\ DOMAIN begun = 1 .. Len(begun) /\ Len(begun) \in Nat
    BY DEF TablesTyped
  <2>2. <<"row", r>> \in Transactions
    BY <2>1 DEF Transactions
  <2>3. \A i \in 1 .. Len(begun) : begun[i] \in Transactions
    BY DEF TablesTyped
  <2> HIDE DEF r
  <2> QED
    BY <1>3, <2>1, <2>2, <2>3
<1>5. NoJob \in Job
  BY DEF NoJob, Job
<1>6. new.status = "pending" /\ new.survey = s /\ new.blind = overlaps
  OBVIOUS
<1> HIDE DEF new
<1>7. rows \in Seq(Row) /\ driver \in Seq(Job) /\ Len(driver) = Len(rows)
  BY DEF TablesTyped, JobsTyped
<1>8. /\ rows' \in Seq(Row) /\ Len(rows') = r
      /\ \A q \in 1 .. Len(rows) : rows'[q] = rows[q]
      /\ rows'[r] = new
  BY <1>1, <1>2, <1>7
<1>9. driver' \in Seq(Job) /\ Len(driver') = r
  BY <1>2, <1>5, <1>7
<1>10. rows'[Len(rows) + 1].blind = overlaps
  BY <1>6, <1>8
<1> HIDE DEF overlaps
<1>11. /\ TablesTyped' /\ JobsTyped' /\ Len(rows') = Len(rows) + 1
       /\ \A q \in Ids : rows'[q] = rows[q]
       /\ rows'[Len(rows) + 1].status = "pending"
       /\ rows'[Len(rows) + 1].survey = s
  BY <1>4, <1>6, <1>7, <1>8, <1>9 DEF TablesTyped, JobsTyped, Ids
<1> QED
  BY <1>10, <1>11 DEF overlaps

LEMMA TypedInit == Init => Typed
<1> SUFFICES ASSUME Init PROVE Typed
  OBVIOUS
<1>1. TablesTyped /\ JobsTyped
  BY DEF Init, TablesTyped, JobsTyped
<1>2. ClicksTyped
  BY <1>1 DEF Init, ClicksTyped, NewRequest, TablesTyped
<1>3. BootsTyped
  <2>1. BootRecord("new", TRUE) \in BootType /\ BootRecord("new", TRUE).pc = "new"
        /\ BootRecord("new", TRUE).knew = 0
    <3>1. BootRecord("new", TRUE).pc = "new"
      BY DEF BootRecord
    <3>2. "new" \in {"seed", "count", "pick", "done", "off", "new"} /\ TRUE \in BOOLEAN
      OBVIOUS
    <3> QED
      BY <3>1, <3>2, BootRecordTyped
  <2>2. boot \in [Boots -> BootType] /\ Len(rows) = 0
        /\ \A b \in Boots : boot[b].knew = 0 /\ boot[b].pc = "new"
    <3> DEFINE fresh == BootRecord("new", TRUE)
    <3>1. boot = [b \in Boots |-> fresh] /\ rows = <<>>
      BY DEF Init
    <3> HIDE DEF fresh
    <3>2. fresh \in BootType /\ fresh.pc = "new" /\ fresh.knew = 0
      BY <2>1 DEF fresh
    <3> QED
      BY <3>1, <3>2
  <2> QED
    BY <2>2 DEF BootsTyped
<1> QED
  BY <1>1, <1>2, <1>3 DEF Typed

\* run_sample
LEMMA ClickTyped ==
    ASSUME Typed, NEW c \in Clicks, RunSample(c)
    PROVE  Typed'
<1>1. click[c] = [pc |-> click[c].pc, row |-> click[c].row, knew |-> click[c].knew]
  BY DEF Typed, ClicksTyped
<1>2. Len(rows) \in Nat /\ Ids = 1 .. Len(rows)
  BY DEF Typed, TablesTyped, Ids
<1>3. CASE FindCompleted(c)
  <2> DEFINE row == LatestCompleted(Clicked[c])
             pc == IF row = 0 THEN "flight" ELSE "report"
  <2>1. /\ click' = [click EXCEPT ![c] = [pc |-> pc, row |-> row, knew |-> Len(rows)]]
        /\ pc \in {"flight", "report"}
    BY <1>3 DEF FindCompleted
  <2> HIDE DEF row, pc
  <2>2. begun' = Append(begun, ClickTx(c)) /\ UNCHANGED <<rows, driver, boot>>
    BY <1>3 DEF FindCompleted
  <2>3. TablesTyped'
    <3>1. ClickTx(c) \in Transactions
      BY DEF Transactions
    <3> QED
      BY <2>2, <3>1 DEF Typed, TablesTyped
  <2>4. ClicksTyped'
    BY <1>2, <2>1, <2>2 DEF Typed, ClicksTyped, Ids
  <2> QED
    BY <2>2, <2>3, <2>4 DEF Typed, JobsTyped, BootsTyped, Ids
<1>4. CASE FindReport(c) \/ FindInFlight(c)
  <2>1. UNCHANGED <<rows, driver, boot>>
    BY <1>4 DEF FindReport, FindInFlight
  <2>2. begun' \in Seq(Transactions)
    BY <1>4, EndingTyped DEF FindReport, FindInFlight, Answered, Typed, TablesTyped
  <2>3. \/ click' = [click EXCEPT ![c] = Over]
        \/ click' = [click EXCEPT ![c].pc = "flight", ![c].row = 0]
        \/ click' = [click EXCEPT ![c].pc = "insert"]
    BY <1>4 DEF FindReport, FindInFlight, Answered
  <2>4. ClicksTyped'
    <3>1. Over = [pc |-> "over", row |-> 0, knew |-> 0]
      BY DEF Over, NewRequest
    <3>2. CASE click' = [click EXCEPT ![c] = Over]
      BY <1>2, <2>1, <3>1, <3>2 DEF Typed, ClicksTyped, Ids
    <3>3. CASE click' = [click EXCEPT ![c].pc = "flight", ![c].row = 0]
      BY <1>1, <1>2, <2>1, <3>3 DEF Typed, ClicksTyped, Ids
    <3>4. CASE click' = [click EXCEPT ![c].pc = "insert"]
      BY <1>1, <1>2, <2>1, <3>4 DEF Typed, ClicksTyped, Ids
    <3> QED
      BY <2>3, <3>2, <3>3, <3>4
  <2> QED
    BY <2>1, <2>2, <2>4 DEF Typed, TablesTyped, JobsTyped, BootsTyped, Ids
<1>5. CASE InsertClicked(c)
  <2>1. InsertRow(ClickTx(c), Clicked[c], click[c].knew) /\ Clicked[c] \in Samples
    BY <1>5, OrderTyped DEF InsertClicked
  <2>2. TablesTyped' /\ JobsTyped' /\ Len(rows') = Len(rows) + 1
    BY <2>1, InsertTyped DEF Typed
  <2>3. Ids' = 1 .. Len(rows) + 1
    BY <2>2 DEF TablesTyped, Ids
  <2>4. click' = [click EXCEPT ![c] = [pc |-> "enqueue", row |-> Len(rows) + 1, knew |-> 0]]
        /\ boot' = boot
    BY <1>5 DEF InsertClicked
  <2>5. ClicksTyped'
    BY <1>2, <2>2, <2>3, <2>4 DEF Typed, ClicksTyped
  <2>6. BootsTyped'
    BY <1>2, <2>2, <2>3, <2>4 DEF Typed, BootsTyped, BootType
  <2> QED
    BY <2>2, <2>5, <2>6 DEF Typed
<1>6. CASE EnqueueClicked(c)
  <2>1. PICK at \in {"queued", "none"} : driver' = [driver EXCEPT ![click[c].row].at = at]
    BY <1>6 DEF EnqueueClicked
  <2>2. /\ click' = [click EXCEPT ![c] = Over]
        /\ UNCHANGED <<rows, begun, boot>>
    BY <1>6 DEF EnqueueClicked
  <2>3. JobsTyped'
    <3> DEFINE k == click[c].row
               job == [driver[k] EXCEPT !.at = at]
    <3>1. k \in 1 .. Len(driver) /\ driver[k] \in Job
      BY <1>2, <1>6 DEF Typed, JobsTyped, ClicksTyped, EnqueueClicked, ClickAt
    <3>2. job \in Job /\ driver' = [driver EXCEPT ![k] = job]
      BY <2>1, <3>1 DEF Job
    <3> HIDE DEF k, job
    <3> QED
      BY <2>2, <3>1, <3>2 DEF Typed, JobsTyped
  <2>4. ClicksTyped'
    <3>1. Over = [pc |-> "over", row |-> 0, knew |-> 0]
      BY DEF Over, NewRequest
    <3> QED
      BY <1>2, <2>2, <3>1 DEF Typed, ClicksTyped, Ids
  <2> QED
    BY <2>2, <2>3, <2>4 DEF Typed, TablesTyped, BootsTyped, Ids
<1> QED
  BY <1>3, <1>4, <1>5, <1>6 DEF RunSample

\* The workers
LEMMA WorkTyped ==
    ASSUME Typed, NEW r \in Ids, Work(r)
    PROVE  Typed'
<1>1. /\ r \in 1 .. Len(rows) /\ r \in 1 .. Len(driver)
      /\ rows[r] \in Row /\ driver[r] \in Job /\ NoJob \in Job
  <2>1. rows \in Seq(Row) /\ driver \in Seq(Job) /\ Len(driver) = Len(rows)
    BY DEF Typed, TablesTyped, JobsTyped
  <2>2. r \in 1 .. Len(rows)
    BY <2>1 DEF Ids
  <2>3. NoJob \in Job
    BY DEF NoJob, Job
  <2> QED
    BY <2>1, <2>2, <2>3
<1>2. UNCHANGED <<begun, click, boot>>
  BY DEF Work, WorkerLoads, WorkerAdvances, WorkerFails, WorkerDrops
<1>3. rows' \in Seq(Row) /\ Len(rows') = Len(rows)
  <2>1. CASE WorkerLoads(r) \/ WorkerDrops(r)
    BY <2>1 DEF WorkerLoads, WorkerDrops, Typed, TablesTyped
  <2>2. ASSUME NEW t \in RunStatuses, WithStatus(r, t)
        PROVE  rows' \in Seq(Row) /\ Len(rows') = Len(rows)
    <3> DEFINE new == [rows[r] EXCEPT !.status = t]
    <3>1. new \in Row /\ rows' = [rows EXCEPT ![r] = new]
      BY <1>1, <2>2 DEF WithStatus, Row
    <3> HIDE DEF new
    <3> QED
      BY <1>1, <3>1 DEF Typed, TablesTyped
  <2>3. {"personas_ready", "paraphrases_ready", "failed"} \subseteq RunStatuses
    BY DEF RunStatuses, ActiveStatuses, TerminalStatuses
  <2>4. CASE WorkerAdvances(r) \/ WorkerFails(r)
    BY <2>2, <2>3, <2>4 DEF WorkerAdvances, WorkerFails
  <2> QED
    BY <2>1, <2>4 DEF Work
<1>4. driver' \in Seq(Job) /\ Len(driver') = Len(driver)
  <2>1. ASSUME NEW job \in Job, driver' = [driver EXCEPT ![r] = job]
        PROVE  driver' \in Seq(Job) /\ Len(driver') = Len(driver)
    BY <1>1, <2>1 DEF Typed, JobsTyped
  <2>2. CASE WorkerLoads(r)
    <3>1. [at |-> "busy", seen |-> rows[r].status] \in Job
      BY <1>1 DEF Row, Job
    <3> QED
      BY <2>1, <2>2, <3>1 DEF WorkerLoads
  <2>3. CASE WorkerAdvances(r) \/ WorkerFails(r)
    <3>1. PICK at \in {"queued", "none"} : driver' = [driver EXCEPT ![r] = [NoJob EXCEPT !.at = at]]
      BY <2>3 DEF WorkerAdvances, WorkerFails
    <3>2. [NoJob EXCEPT !.at = at] \in Job
      BY DEF NoJob, Job
    <3> QED
      BY <2>1, <3>1, <3>2
  <2>4. CASE WorkerDrops(r)
    BY <1>1, <2>1, <2>4 DEF WorkerDrops
  <2> QED
    BY <2>2, <2>3, <2>4 DEF Work
<1> QED
  BY <1>2, <1>3, <1>4 DEF Typed, TablesTyped, JobsTyped, ClicksTyped, BootsTyped, Ids

\* A bootstrap that writes no row: what remains to be shown is its own progress.
LEMMA BootMoves ==
    ASSUME Typed, NEW b \in Boots, UNCHANGED <<rows, driver, click>>,
           begun' \in Seq(Transactions), boot' \in [Boots -> BootType],
           \A d \in Boots \ {b} : boot'[d] = boot[d],
           boot'[b].knew <= Len(rows),
           boot'[b].pc \in {"clear", "fill", "finish"} => boot'[b].row \in Ids
    PROVE  Typed'
<1>1. BootsTyped'
  BY DEF Typed, BootsTyped, Ids
<1> QED
  BY <1>1 DEF Typed, TablesTyped, JobsTyped, ClicksTyped, Ids

\* bootstrap_if_empty
LEMMA BootTyped ==
    ASSUME Typed, NEW b \in Boots, Bootstrap(b)
    PROVE  Typed'
<1>1. /\ boot[b] \in BootType /\ boot \in [Boots -> BootType]
      /\ boot[b].knew <= Len(rows) /\ Len(rows) \in Nat /\ Ids = 1 .. Len(rows)
      /\ begun \in Seq(Transactions)
      /\ boot[b].pc \in {"clear", "fill", "finish"} => boot[b].row \in Ids
  BY DEF Typed, BootsTyped, TablesTyped, Ids
<1>2. Survey(b) \in Samples
  BY <1>1, OrderTyped DEF Survey, BootType
\* The bootstrap is replaced by a record.
<1>3. ASSUME NEW new \in BootType, new.knew <= Len(rows),
             new.pc \in {"clear", "fill", "finish"} => new.row \in Ids,
             boot' = [boot EXCEPT ![b] = new],
             begun' \in Seq(Transactions), UNCHANGED <<rows, driver, click>>
      PROVE  Typed'
  BY <1>1, <1>3, BootMoves
<1>4. ASSUME NEW p \in {"seed", "pick"}, NEW after \in {"count", "done"}, NextSample(b, p, after),
             begun' \in Seq(Transactions), UNCHANGED <<rows, driver, click>>
      PROVE  Typed'
  BY <1>1, <1>4, NextSampleTyped, BootMoves
<1>5. CASE StartBoot(b)
  <2> DEFINE pc == IF Ids = {} THEN "seed" ELSE "count"
             new == BootRecord(pc, TRUE)
  <2>1. pc \in {"seed", "count", "pick", "done", "off", "new"}
    OBVIOUS
  <2> HIDE DEF pc
  <2>2. new \in BootType /\ new.knew = 0 /\ new.pc \notin {"clear", "fill", "finish"}
    BY <2>1, BootRecordTyped
  <2>3. boot' = [boot EXCEPT ![b] = new] /\ UNCHANGED <<rows, begun, driver, click>>
    BY <1>5 DEF StartBoot, pc
  <2> HIDE DEF new
  <2>4. new.knew <= Len(rows)
    BY <1>1, <2>2
  <2> QED
    BY <1>1, <1>3, <2>2, <2>3, <2>4
<1>6. CASE FindSeeded(b)
  <2> DEFINE open == BootTx(b) \in ToSet(begun)
             knew == IF open THEN boot[b].knew ELSE Len(rows)
             old == Of(Survey(b)) # {}
             last == boot[b].i = Len(SampleOrder)
             new == [boot[b] EXCEPT !.pc = IF old THEN "seed" ELSE "insert",
                                    !.i = IF old THEN boot[b].i + 1 ELSE boot[b].i,
                                    !.knew = knew]
  <2>1. UNCHANGED <<rows, driver, click>>
    BY <1>6 DEF FindSeeded
  <2>2. begun' \in Seq(Transactions)
    <3>1. BootTx(b) \in Transactions
      BY DEF Transactions
    <3>2. Ending(BootTx(b)) \/ begun' = begun \/ begun' = Append(begun, BootTx(b))
      BY <1>6 DEF FindSeeded
    <3> QED
      BY <1>1, <3>1, <3>2, EndingTyped
  <2>3. CASE old /\ last
    BY <1>4, <1>6, <2>1, <2>2, <2>3 DEF FindSeeded
  <2>4. CASE ~(old /\ last)
    <3>1. boot' = [boot EXCEPT ![b] = new]
      BY <1>6, <2>4 DEF FindSeeded
    <3>2. knew \in Nat /\ knew <= Len(rows)
      BY <1>1 DEF BootType
    <3>3. (IF old THEN boot[b].i + 1 ELSE boot[b].i) \in 1 .. Len(SampleOrder)
      BY <1>1, <2>4, OrderTyped DEF BootType
    <3> HIDE DEF old, knew
    <3>4. new \in BootType /\ new.knew = knew /\ new.pc \in {"seed", "insert"}
      BY <1>1, <3>2, <3>3 DEF BootType
    <3> HIDE DEF new
    <3> QED
      BY <1>3, <2>1, <2>2, <3>1, <3>2, <3>4
  <2> QED
    BY <2>3, <2>4
<1>7. CASE InsertSeeded(b)
  <2>1. InsertRow(BootTx(b), Survey(b), boot[b].knew) /\ NextSample(b, "seed", "count")
        /\ click' = click
    BY <1>7 DEF InsertSeeded
  <2>2. TablesTyped' /\ JobsTyped' /\ Len(rows') = Len(rows) + 1
    BY <1>2, <2>1, InsertTyped DEF Typed
  <2>3. Ids' = 1 .. Len(rows) + 1
    BY <2>2 DEF TablesTyped, Ids
  <2>4. ClicksTyped'
    BY <1>1, <2>1, <2>2, <2>3 DEF Typed, ClicksTyped
  <2>5. BootsTyped'
    <3>1. /\ boot' \in [Boots -> BootType] /\ boot'[b].knew = 0
          /\ boot'[b].pc \in {"seed", "count", "pick", "done", "off", "new"}
          /\ \A d \in Boots \ {b} : boot'[d] = boot[d]
      BY <2>1, NextSampleTyped
    <3>2. \A d \in Boots : boot[d].knew \in Nat
      BY <1>1 DEF BootType
    <3> QED
      BY <1>1, <2>2, <2>3, <3>1, <3>2 DEF Typed, BootsTyped
  <2> QED
    BY <2>2, <2>4, <2>5 DEF Typed
<1>8. CASE CountRows(b)
  <2> DEFINE new == [boot[b] EXCEPT !.pc = "gate", !.knew = Len(rows)]
  <2>1. boot' = [boot EXCEPT ![b] = new] /\ UNCHANGED <<rows, begun, driver, click>>
    BY <1>8 DEF CountRows
  <2>2. new \in BootType /\ new.knew = Len(rows) /\ new.pc = "gate"
    BY <1>1 DEF BootType
  <2> HIDE DEF new
  <2>3. new.knew <= Len(rows)
    BY <1>1, <2>2
  <2> QED
    BY <1>1, <1>3, <2>1, <2>2, <2>3
<1>9. CASE CountCompleted(b)
  <2>1. PICK pc \in {"done", "pick"} : boot' = [boot EXCEPT ![b] = BootRecord(pc, boot[b].whole)]
    BY <1>9 DEF CountCompleted
  <2>2. UNCHANGED <<rows, begun, driver, click>>
    BY <1>9 DEF CountCompleted
  <2> DEFINE new == BootRecord(pc, boot[b].whole)
  <2>3. new \in BootType /\ new.knew = 0 /\ new.pc \notin {"clear", "fill", "finish"}
    <3>1. boot[b].whole \in BOOLEAN /\ pc \in {"seed", "count", "pick", "done", "off", "new"}
      BY <1>1 DEF BootType
    <3> QED
      BY <3>1, BootRecordTyped
  <2>4. boot' = [boot EXCEPT ![b] = new]
    BY <2>1
  <2> HIDE DEF new
  <2>5. new.knew <= Len(rows)
    BY <1>1, <2>3
  <2> QED
    BY <1>1, <1>3, <2>2, <2>3, <2>4, <2>5
<1>10. CASE Pick(b)
  <2> DEFINE r == Oldest(Survey(b))
             new == [boot[b] EXCEPT !.pc = "clear", !.row = r, !.seen = rows[r].status]
  <2>1. UNCHANGED <<rows, begun, driver, click>>
    BY <1>10 DEF Pick
  <2>2. CASE r = 0
    BY <1>1, <1>4, <1>10, <2>1, <2>2 DEF Pick
  <2>3. CASE r # 0
    <3>1. boot' = [boot EXCEPT ![b] = new]
      BY <1>10, <2>3 DEF Pick
    <3>2. r \in Ids
      BY <1>1, <2>3, OldestTyped DEF Of
    <3> HIDE DEF r
    <3>3. r \in Nat /\ rows[r].status \in RunStatuses
      <4>1. rows \in Seq(Row) /\ r \in 1 .. Len(rows)
        BY <1>1, <3>2 DEF Typed, TablesTyped
      <4>2. rows[r] \in Row
        BY <4>1
      <4> QED
        BY <4>1, <4>2 DEF Row
    <3>4. new \in BootType /\ new.knew = boot[b].knew /\ new.row = r
      BY <1>1, <3>3 DEF BootType
    <3> HIDE DEF new
    <3> QED
      BY <1>1, <1>3, <2>1, <3>1, <3>2, <3>4
  <2> QED
    BY <2>2, <2>3
<1>11. CASE Clear(b) \/ Fill(b)
  <2>1. PICK pc \in {"fill", "finish"} : boot' = [boot EXCEPT ![b].pc = pc]
    BY <1>11 DEF Clear, Fill, BootGoto
  <2>2. UNCHANGED <<rows, begun, driver, click>> /\ boot[b].pc \in {"clear", "fill"}
    BY <1>11 DEF Clear, Fill, BootAt
  <2> DEFINE new == [boot[b] EXCEPT !.pc = pc]
  <2>3. boot' = [boot EXCEPT ![b] = new]
    BY <2>1
  <2>4. new \in BootType /\ new.knew = boot[b].knew /\ new.row = boot[b].row
    BY <1>1 DEF BootType
  <2> HIDE DEF new
  <2> QED
    BY <1>1, <1>3, <2>2, <2>3, <2>4
<1>12. CASE FinishReport(b)
  <2>1. /\ NextSample(b, "pick", "done")
        /\ \/ rows' = rows
           \/ rows' = [rows EXCEPT ![boot[b].row].status = "completed"]
        /\ UNCHANGED <<begun, driver, click>>
        /\ boot[b].row \in Ids
    BY <1>1, <1>12 DEF FinishReport, WithStatus, BootAt
  <2>2. rows' \in Seq(Row) /\ Len(rows') = Len(rows)
    <3> DEFINE k == boot[b].row
               new == [rows[k] EXCEPT !.status = "completed"]
    <3>1. k \in 1 .. Len(rows) /\ rows[k] \in Row /\ rows \in Seq(Row)
      BY <1>1, <2>1 DEF Typed, TablesTyped
    <3>2. "completed" \in RunStatuses
      BY DEF RunStatuses, TerminalStatuses
    <3>3. new \in Row /\ (rows' = rows \/ rows' = [rows EXCEPT ![k] = new])
      BY <2>1, <3>1, <3>2 DEF Row
    <3> HIDE DEF k, new
    <3> QED
      BY <3>1, <3>3
  <2>3. Ids' = Ids
    BY <1>1, <2>2 DEF Ids
  <2>4. /\ boot' \in [Boots -> BootType] /\ boot'[b].knew = 0
        /\ boot'[b].pc \in {"seed", "count", "pick", "done", "off", "new"}
        /\ \A d \in Boots \ {b} : boot'[d] = boot[d]
    BY <2>1, NextSampleTyped
  <2>5. BootsTyped'
    BY <1>1, <2>2, <2>3, <2>4 DEF Typed, BootsTyped
  <2> QED
    BY <2>1, <2>2, <2>3, <2>5 DEF Typed, TablesTyped, JobsTyped, ClicksTyped
<1>13. CASE BootFails(b)
  <2>1. PICK pc \in {"off", "count"} : boot' = [boot EXCEPT ![b] = BootRecord(pc, FALSE)]
    BY <1>13 DEF BootFails
  <2>2. UNCHANGED <<rows, driver, click>> /\ begun' \in Seq(Transactions)
    BY <1>1, <1>13, EndingTyped DEF BootFails
  <2> DEFINE new == BootRecord(pc, FALSE)
  <2>3. new \in BootType /\ new.knew = 0 /\ new.pc \notin {"clear", "fill", "finish"}
    BY BootRecordTyped
  <2>4. boot' = [boot EXCEPT ![b] = new]
    BY <2>1
  <2> HIDE DEF new
  <2>5. new.knew <= Len(rows)
    BY <1>1, <2>3
  <2> QED
    BY <1>1, <1>3, <2>2, <2>3, <2>4, <2>5
<1> QED
  BY <1>5, <1>6, <1>7, <1>8, <1>9, <1>10, <1>11, <1>12, <1>13 DEF Bootstrap

LEMMA TypedStep == Typed /\ [Next]_vars => Typed'
<1> SUFFICES ASSUME Typed, [Next]_vars PROVE Typed'
  OBVIOUS
<1>1. CASE UNCHANGED vars
  BY <1>1 DEF vars, Typed, TablesTyped, JobsTyped, ClicksTyped, BootsTyped, Ids
<1> QED
  BY <1>1, ClickTyped, WorkTyped, BootTyped DEF Next
-----------------------------------------------------------------------------
(* What a step does to the rows and their reports *)

RowAdded ==
    /\ Len(rows') = Len(rows) + 1
    /\ \A r \in Ids : rows'[r] = rows[r]
    /\ rows'[Len(rows) + 1].status = "pending"

LEMMA RowIds ==
    ASSUME Typed
    PROVE  /\ Ids = 1 .. Len(rows) /\ Len(rows) \in Nat
           /\ \A r \in Ids : rows[r] \in Row
  BY DEF Typed, TablesTyped, Ids

LEMMA ClickRows ==
    ASSUME Typed, NEW c \in Clicks, RunSample(c)
    PROVE  /\ UNCHANGED <<reports, torn, boot>>
           /\ rows' = rows \/ RowAdded
<1>1. UNCHANGED <<reports, torn, boot>>
  BY DEF RunSample, FindCompleted, FindReport, FindInFlight, InsertClicked, EnqueueClicked
<1>2. CASE InsertClicked(c)
  <2>1. InsertRow(ClickTx(c), Clicked[c], click[c].knew) /\ Clicked[c] \in Samples
    BY <1>2, OrderTyped DEF InsertClicked
  <2>2. RowAdded
    BY <2>1, InsertTyped DEF Typed, RowAdded
  <2> QED
    BY <1>1, <2>2
<1>3. CASE ~InsertClicked(c)
  BY <1>1, <1>3 DEF RunSample, FindCompleted, FindReport, FindInFlight, EnqueueClicked
<1> QED
  BY <1>2, <1>3

\* One row gets the status t.
StatusSet(r, t) ==
    /\ Len(rows') = Len(rows)
    /\ \A q \in Ids : rows'[q].status = IF q = r THEN t ELSE rows[q].status

LEMMA StatusWritten ==
    ASSUME Typed, NEW r \in Ids, NEW t, WithStatus(r, t)
    PROVE  StatusSet(r, t) /\ Ids' = Ids
<1>1. rows \in Seq(Row) /\ rows' = [rows EXCEPT ![r].status = t] /\ DOMAIN rows' = DOMAIN rows
  BY DEF Typed, TablesTyped, WithStatus
<1>2. Len(rows') = Len(rows)
  BY <1>1
<1>3. \A q \in Ids : rows[q] \in Row
  BY <1>1 DEF Ids
<1>4. \A q \in Ids : rows'[q].status = IF q = r THEN t ELSE rows[q].status
  <2> SUFFICES ASSUME NEW q \in Ids PROVE rows'[q].status = IF q = r THEN t ELSE rows[q].status
    OBVIOUS
  <2>1. rows'[q] = IF q = r THEN [rows[r] EXCEPT !.status = t] ELSE rows[q]
    BY <1>1 DEF Ids
  <2> QED
    BY <1>3, <2>1 DEF Row
<1> QED
  BY <1>1, <1>2, <1>4 DEF StatusSet, Ids

LEMMA WorkRows ==
    ASSUME Typed, NEW r \in Ids, Work(r)
    PROVE  /\ UNCHANGED <<reports, torn, boot>>
           /\ \/ rows' = rows
              \/ \E t \in RunStatuses \ {"pending", "completed"} : StatusSet(r, t) /\ Ids' = Ids
<1>1. UNCHANGED <<reports, torn, boot>>
  BY DEF Work, WorkerLoads, WorkerAdvances, WorkerFails, WorkerDrops
<1>2. \/ rows' = rows
      \/ \E t \in {"personas_ready", "paraphrases_ready", "failed"} : WithStatus(r, t)
  BY DEF Work, WorkerLoads, WorkerAdvances, WorkerFails, WorkerDrops
<1>3. {"personas_ready", "paraphrases_ready", "failed"} \subseteq RunStatuses \ {"pending", "completed"}
  BY DEF RunStatuses, ActiveStatuses, TerminalStatuses
<1> QED
  BY <1>1, <1>2, <1>3, StatusWritten
\* The steps of a bootstrap before and between the precomputes.
Quiet(b) ==
    \/ StartBoot(b) \/ FindSeeded(b) \/ InsertSeeded(b) \/ CountRows(b)
    \/ CountCompleted(b) \/ Pick(b)

LEMMA BootKeepsOthers ==
    ASSUME Typed, NEW b \in Boots, Bootstrap(b), NEW d \in Boots, d # b
    PROVE  boot'[d] = boot[d]
<1>1. \E new : boot' = [boot EXCEPT ![b] = new]
  <2>1. CASE StartBoot(b) \/ CountCompleted(b) \/ BootFails(b)
    BY <2>1 DEF StartBoot, CountCompleted, BootFails
  <2>2. CASE FindSeeded(b) \/ Pick(b)
    BY <2>2 DEF FindSeeded, Pick, NextSample
  <2>3. CASE InsertSeeded(b) \/ FinishReport(b)
    BY <2>3 DEF InsertSeeded, FinishReport, NextSample
  <2>4. CASE CountRows(b) \/ Clear(b) \/ Fill(b)
    BY <2>4 DEF CountRows, Clear, Fill, BootGoto
  <2> QED
    BY <2>1, <2>2, <2>3, <2>4 DEF Bootstrap
<1> QED
  BY <1>1 DEF Typed, BootsTyped

LEMMA QuietRows ==
    ASSUME Typed, NEW b \in Boots, Quiet(b)
    PROVE  /\ UNCHANGED <<reports, torn>>
           /\ rows' = rows \/ RowAdded
           /\ boot[b].pc \in {"new", "seed", "insert", "count", "gate", "pick"}
<1>1. UNCHANGED <<reports, torn>>
  BY DEF Quiet, StartBoot, FindSeeded, InsertSeeded, CountRows, CountCompleted, Pick
<1>2. boot[b].pc \in {"new", "seed", "insert", "count", "gate", "pick"}
  BY DEF Quiet, StartBoot, FindSeeded, InsertSeeded, CountRows, CountCompleted, Pick, BootAt
<1>3. CASE InsertSeeded(b)
  <2>1. boot[b].i \in 1 .. Len(SampleOrder)
    BY DEF Typed, BootsTyped, BootType
  <2>2. InsertRow(BootTx(b), Survey(b), boot[b].knew) /\ Survey(b) \in Samples
    BY <1>3, <2>1, OrderTyped DEF InsertSeeded, Survey
  <2>3. RowAdded
    BY <2>2, InsertTyped DEF Typed, RowAdded
  <2> QED
    BY <1>1, <1>2, <2>3
<1>4. CASE ~InsertSeeded(b)
  BY <1>1, <1>2, <1>4 DEF Quiet, StartBoot, FindSeeded, CountRows, CountCompleted, Pick
<1> QED
  BY <1>3, <1>4

LEMMA FinishRows ==
    ASSUME Typed, NEW b \in Boots, FinishReport(b)
    PROVE  /\ boot[b].row \in Ids /\ reports' = reports \cup {boot[b].row}
           /\ \/ rows' = rows
              \/ StatusSet(boot[b].row, "completed") /\ Ids' = Ids
<1>1. boot[b].row \in Ids
  BY DEF FinishReport, BootAt, Typed, BootsTyped
<1>2. reports' = reports \cup {boot[b].row}
  BY DEF FinishReport, Reported
<1>3. rows' = rows \/ WithStatus(boot[b].row, "completed")
  BY DEF FinishReport
<1> QED
  BY <1>1, <1>2, <1>3, StatusWritten

-----------------------------------------------------------------------------
(* Completed without a report *)

\* The bootstrap b computes the report of r again.
Holds(b, r) == boot[b].row = r /\ boot[b].pc \in {"fill", "finish"}

LEMMA UnreportedStep == Typed /\ UnreportedIsTorn /\ [Next]_vars => UnreportedIsTorn'
<1> SUFFICES ASSUME Typed, UnreportedIsTorn, [Next]_vars,
                    NEW r \in Ids', rows'[r].status = "completed", r \notin reports'
             PROVE  r \in torn' \/ \E b \in Boots : Holds(b, r)'
  BY DEF UnreportedIsTorn, Holds
<1>1. ASSUME NEW q \in Ids, rows[q].status = "completed", q \notin reports
      PROVE  q \in torn \/ \E b \in Boots : Holds(b, q)
  BY <1>1 DEF UnreportedIsTorn, Holds
\* A new row is pending.
<1>2. ASSUME rows' = rows \/ RowAdded
      PROVE  r \in Ids /\ rows[r].status = "completed"
  <2>1. CASE rows' = rows
    BY <2>1 DEF Ids
  <2>2. CASE RowAdded
    <3>1. Typed'
      BY TypedStep
    <3>2. r \in 1 .. Len(rows) + 1 /\ Len(rows) \in Nat
      BY <2>2, <3>1, RowIds DEF RowAdded, Typed, TablesTyped, Ids
    <3>3. r # Len(rows) + 1
      BY <2>2 DEF RowAdded
    <3> QED
      BY <2>2, <3>2, <3>3, RowIds DEF RowAdded
  <2> QED
    BY <1>2, <2>1, <2>2
<1>3. CASE UNCHANGED vars
  BY <1>1, <1>3 DEF vars, Ids, Holds
<1>4. ASSUME NEW c \in Clicks, RunSample(c)
      PROVE  r \in torn' \/ \E b \in Boots : Holds(b, r)'
  <2>1. /\ UNCHANGED <<reports, torn, boot>>
        /\ rows' = rows \/ RowAdded
    BY <1>4, ClickRows
  <2> QED
    BY <1>1, <1>2, <2>1 DEF Holds
<1>5. ASSUME NEW q \in Ids, Work(q)
      PROVE  r \in torn' \/ \E b \in Boots : Holds(b, r)'
  <2>1. /\ UNCHANGED <<reports, torn, boot>>
        /\ \/ rows' = rows
           \/ \E t \in RunStatuses \ {"pending", "completed"} : StatusSet(q, t) /\ Ids' = Ids
    BY <1>5, WorkRows
  <2>2. r \in Ids /\ rows[r].status = "completed"
    BY <1>2, <2>1 DEF StatusSet
  <2> QED
    BY <1>1, <2>1, <2>2 DEF Holds
<1>6. ASSUME NEW b \in Boots, Bootstrap(b)
      PROVE  r \in torn' \/ \E d \in Boots : Holds(d, r)'
  <2>1. \A d \in Boots \ {b} : boot'[d] = boot[d]
    BY <1>6, BootKeepsOthers
  <2>2. /\ boot \in [Boots -> BootType] /\ boot[b] \in BootType
    BY DEF Typed, BootsTyped
  \* Who held the row holds it still, if it was not b.
  <2>3. ASSUME NEW d \in Boots, Holds(d, r), d # b
        PROVE  Holds(d, r)'
    BY <2>1, <2>3 DEF Holds
  <2>4. CASE Quiet(b)
    BY <1>1, <1>2, <2>3, <2>4, QuietRows DEF Holds
  <2>5. CASE Clear(b)
    <3>1. /\ reports' = reports \ {boot[b].row} /\ torn' = torn \ {boot[b].row}
          /\ rows' = rows /\ boot[b].pc = "clear"
          /\ boot' = [boot EXCEPT ![b].pc = "fill"]
      BY <2>5 DEF Clear, BootGoto, BootAt
    <3>2. boot'[b].pc = "fill" /\ boot'[b].row = boot[b].row
      BY <2>2, <3>1 DEF BootType
    <3>3. CASE r = boot[b].row
      BY <3>2, <3>3 DEF Holds
    <3>4. CASE r # boot[b].row
      BY <1>1, <1>2, <2>3, <3>1, <3>4 DEF Holds
    <3> QED
      BY <3>3, <3>4
  <2>6. CASE Fill(b)
    <3>1. /\ UNCHANGED <<reports, torn, rows>>
          /\ boot' = [boot EXCEPT ![b].pc = "finish"]
      BY <2>6 DEF Fill, BootGoto
    <3>2. boot'[b].pc = "finish" /\ boot'[b].row = boot[b].row
      BY <2>2, <3>1 DEF BootType
    <3> QED
      BY <1>1, <1>2, <2>3, <3>1, <3>2 DEF Holds
  <2>7. CASE FinishReport(b)
    <3>1. /\ boot[b].row \in Ids /\ reports' = reports \cup {boot[b].row}
          /\ \/ rows' = rows
             \/ StatusSet(boot[b].row, "completed") /\ Ids' = Ids
      BY <2>7, FinishRows
    <3>2. torn' = torn \ {boot[b].row} /\ r # boot[b].row
      BY <2>7, <3>1 DEF FinishReport
    <3>3. r \in Ids /\ rows[r].status = "completed" /\ r \notin reports
      BY <1>2, <3>1, <3>2 DEF StatusSet
    <3> QED
      BY <1>1, <2>3, <3>2, <3>3 DEF Holds
  <2>8. CASE BootFails(b)
    <3>1. /\ UNCHANGED <<rows, reports>>
          /\ torn' = IF boot[b].pc \in {"fill", "finish"} THEN torn \cup {boot[b].row} ELSE torn
      BY <2>8 DEF BootFails
    <3> QED
      BY <1>1, <1>2, <2>3, <3>1 DEF Holds
  <2> QED
    BY <1>6, <2>4, <2>5, <2>6, <2>7, <2>8 DEF Bootstrap, Quiet
<1> QED
  BY <1>3, <1>4, <1>5, <1>6 DEF Next

\* A completed sample has its report, save while a bootstrap computes it again or
\* after one was cut off doing that, whatever clicks and workers do meanwhile.
THEOREM ReportsAreTornOnly == Spec => []UnreportedIsTorn
<1>1. Init => Typed /\ UnreportedIsTorn
  BY TypedInit DEF Init, UnreportedIsTorn, Ids
<1>2. Typed /\ UnreportedIsTorn /\ [Next]_vars => (Typed /\ UnreportedIsTorn)'
  BY TypedStep, UnreportedStep
<1> QED
  BY <1>1, <1>2, PTL DEF Spec
-----------------------------------------------------------------------------
(* The refinement of RunRow *)

StatusOf(r) == IF r \in Ids THEN rows[r].status ELSE "none"

\* What RunRow says of a row, in the variables of SampleRuns.
LEMMA RowSteps ==
    ASSUME NEW r,
           \/ StatusOf(r)' = StatusOf(r) /\ (r \in reports' <=> r \in reports)
           \/ /\ StatusOf(r) = "none" /\ StatusOf(r)' = "pending"
              /\ (r \in reports' <=> r \in reports)
           \/ /\ StatusOf(r) # "none" /\ StatusOf(r)' \in RunStatuses \ {"pending", "completed"}
              /\ (r \in reports' <=> r \in reports)
           \/ StatusOf(r) # "none" /\ StatusOf(r)' = "completed" /\ r \in reports'
           \/ StatusOf(r) # "none" /\ r \in reports' /\ StatusOf(r)' = StatusOf(r)
           \/ r \in reports /\ r \notin reports' /\ StatusOf(r)' = StatusOf(r)
    PROVE  [RowOf(r)!RowNext]_(RowOf(r)!row)
<1>1. ASSUME StatusOf(r)' = StatusOf(r), r \in reports' <=> r \in reports
      PROVE  UNCHANGED RowOf(r)!row
  BY <1>1 DEF RowOf!row, StatusOf
<1>2. ASSUME StatusOf(r) = "none", StatusOf(r)' = "pending", r \in reports' <=> r \in reports
      PROVE  RowOf(r)!Insert
  BY <1>2 DEF RowOf!Insert, StatusOf
<1>3. ASSUME StatusOf(r) # "none", StatusOf(r)' \in RunStatuses \ {"pending", "completed"},
             r \in reports' <=> r \in reports
      PROVE  RowOf(r)!Move
  <2>1. RowOf(r)!RunStatuses = RunStatuses
    BY DEF RowOf!RunStatuses, RowOf!ActiveStatuses, RowOf!TerminalStatuses,
           RunStatuses, ActiveStatuses, TerminalStatuses
  <2> QED
    BY <1>3, <2>1 DEF RowOf!Move, StatusOf
<1>4. ASSUME StatusOf(r) # "none", StatusOf(r)' = "completed", r \in reports'
      PROVE  RowOf(r)!Complete
  BY <1>4 DEF RowOf!Complete, StatusOf
<1>5. ASSUME StatusOf(r) # "none", r \in reports', StatusOf(r)' = StatusOf(r)
      PROVE  RowOf(r)!Store
  BY <1>5 DEF RowOf!Store, StatusOf
<1>6. ASSUME r \in reports, r \notin reports', StatusOf(r)' = StatusOf(r)
      PROVE  RowOf(r)!Withdraw
  BY <1>6 DEF RowOf!Withdraw, StatusOf
<1> QED
  BY <1>1, <1>2, <1>3, <1>4, <1>5, <1>6 DEF RowOf!RowNext

LEMMA StatusKnown ==
    ASSUME Typed, NEW r \in Ids
    PROVE  StatusOf(r) \in RunStatuses /\ StatusOf(r) # "none"
<1>1. rows[r].status \in RunStatuses
  BY RowIds DEF Row
<1>2. "none" \notin RunStatuses
  BY DEF RunStatuses, ActiveStatuses, TerminalStatuses
<1> QED
  BY <1>1, <1>2 DEF StatusOf

\* A row that is there stays, and a new one is pending.
LEMMA AddedStatus ==
    ASSUME Typed, [Next]_vars, rows' = rows \/ RowAdded, NEW r
    PROVE  \/ StatusOf(r)' = StatusOf(r)
           \/ StatusOf(r) = "none" /\ StatusOf(r)' = "pending"
<1>1. CASE rows' = rows
  BY <1>1 DEF StatusOf, Ids
<1>2. CASE RowAdded
  <2>1. Typed'
    BY <1>2, TypedStep
  <2>2. /\ Ids = 1 .. Len(rows) /\ Len(rows) \in Nat /\ Ids' = 1 .. Len(rows) + 1
    BY <1>2, <2>1, RowIds DEF RowAdded, Typed, TablesTyped, Ids
  <2>3. CASE r \in Ids
    BY <1>2, <2>2, <2>3 DEF StatusOf, RowAdded
  <2>4. CASE r \notin Ids
    BY <1>2, <2>2, <2>4 DEF StatusOf, RowAdded
  <2> QED
    BY <2>3, <2>4
<1> QED
  BY <1>1, <1>2

LEMMA SetStatus ==
    ASSUME Typed, NEW q \in Ids, NEW t, StatusSet(q, t), Ids' = Ids, NEW r
    PROVE  StatusOf(r)' = IF r = q THEN t ELSE StatusOf(r)
  BY DEF StatusOf, StatusSet

LEMMA RowStep ==
    ASSUME Typed, Next, NEW r
    PROVE  [RowOf(r)!RowNext]_(RowOf(r)!row)
<1>1. ASSUME NEW c \in Clicks, RunSample(c)
      PROVE  [RowOf(r)!RowNext]_(RowOf(r)!row)
  BY <1>1, ClickRows, AddedStatus, RowSteps
<1>2. ASSUME NEW q \in Ids, Work(q)
      PROVE  [RowOf(r)!RowNext]_(RowOf(r)!row)
  <2>1. UNCHANGED reports
    BY <1>2, WorkRows
  <2>2. CASE rows' = rows
    BY <2>1, <2>2, AddedStatus, RowSteps
  <2>3. ASSUME NEW t \in RunStatuses \ {"pending", "completed"}, StatusSet(q, t), Ids' = Ids
        PROVE  [RowOf(r)!RowNext]_(RowOf(r)!row)
    <3>1. StatusOf(r)' = IF r = q THEN t ELSE StatusOf(r)
      BY <2>3, SetStatus
    <3> QED
      BY <2>1, <3>1, StatusKnown, RowSteps
  <2> QED
    BY <1>2, <2>2, <2>3, WorkRows
<1>3. ASSUME NEW b \in Boots, Bootstrap(b)
      PROVE  [RowOf(r)!RowNext]_(RowOf(r)!row)
  <2>1. CASE Quiet(b)
    BY <2>1, QuietRows, AddedStatus, RowSteps
  <2>2. CASE Clear(b)
    <3>1. rows' = rows /\ reports' = reports \ {boot[b].row}
      BY <2>2 DEF Clear
    <3>2. StatusOf(r)' = StatusOf(r)
      BY <3>1 DEF StatusOf, Ids
    <3> QED
      BY <3>1, <3>2, RowSteps
  <2>3. CASE Fill(b) \/ BootFails(b)
    <3>1. UNCHANGED <<rows, reports>>
      BY <2>3 DEF Fill, BootFails
    <3>2. StatusOf(r)' = StatusOf(r)
      BY <3>1 DEF StatusOf, Ids
    <3> QED
      BY <3>1, <3>2, RowSteps
  <2>4. CASE FinishReport(b)
    <3> DEFINE q == boot[b].row
    <3>1. /\ q \in Ids /\ reports' = reports \cup {q}
          /\ rows' = rows \/ (StatusSet(q, "completed") /\ Ids' = Ids)
      BY <2>4, FinishRows
    <3> HIDE DEF q
    <3>2. CASE rows' = rows
      <4>1. StatusOf(r)' = StatusOf(r)
        BY <3>2 DEF StatusOf, Ids
      <4> QED
        BY <3>1, <4>1, StatusKnown, RowSteps
    <3>3. CASE StatusSet(q, "completed") /\ Ids' = Ids
      <4>1. StatusOf(r)' = IF r = q THEN "completed" ELSE StatusOf(r)
        BY <3>1, <3>3, SetStatus
      <4> QED
        BY <3>1, <4>1, StatusKnown, RowSteps
    <3> QED
      BY <3>1, <3>2, <3>3
  <2> QED
    BY <1>3, <2>1, <2>2, <2>3, <2>4 DEF Bootstrap, Quiet
<1> QED
  BY <1>1, <1>2, <1>3 DEF Next

\* SampleRuns implements RunRow: whatever clicks, starts and workers do, a reader
\* of any row sees no more than RunRow lets it do.
THEOREM RowsAreImplemented == Spec => ImplementsRow
<1> DEFINE Steps == \A r \in 1 .. MaxRows :
                       RowOf(r)!row' # RowOf(r)!row => RowOf(r)!RowNext
<1>1. Init => Typed /\ \A r \in 1 .. MaxRows : RowOf(r)!RowInit
  <2> SUFFICES ASSUME Init PROVE Typed /\ \A r \in 1 .. MaxRows : RowOf(r)!RowInit
    OBVIOUS
  <2>1. Typed
    BY TypedInit
  <2>2. Ids = {} /\ reports = {}
    BY DEF Init, Ids
  <2> QED
    BY <2>1, <2>2 DEF RowOf!RowInit
<1>2. Typed /\ [Next]_vars => Typed'
  BY TypedStep
<1>3. Typed /\ [Next]_vars => [Steps]_vars
  BY RowStep
<1> HIDE DEF Steps
<1>4. Spec => (\A r \in 1 .. MaxRows : RowOf(r)!RowInit) /\ [][Steps]_vars
  BY <1>1, <1>2, <1>3, PTL DEF Spec
<1> QED
  BY <1>4 DEF ImplementsRow, Steps
-----------------------------------------------------------------------------
(* Rows of one sample that are in flight together *)

\* A row in flight that has not been over before.
Fresh(a) == Live(a) /\ a \notin revived

\* Stronger than TwinsOverlapped: the second row may be over.
PairsBlind ==
    \A a, b \in Ids :
        a < b /\ rows[a].survey = rows[b].survey /\ Fresh(a) => rows[b].blind

\* A request about to insert saw no fresh row among those it could see, and a
\* bootstrap saw no row at all.
ClicksLooked ==
    \A c \in Clicks : click[c].pc = "insert" =>
        \A a \in Of(Clicked[c]) : Fresh(a) => a > click[c].knew

BootsLooked ==
    \A b \in Boots : boot[b].pc = "insert" =>
        \A a \in Of(Survey(b)) : a > boot[b].knew

\* A row stays a row of its sample, and is not fresh again.
Kept(a) ==
    /\ a \in Ids'
    /\ rows'[a].survey = rows[a].survey
    /\ rows'[a].blind = rows[a].blind
    /\ Fresh(a)' => Fresh(a)

LEMMA StatusOnly ==
    ASSUME Typed, NEW r \in Ids, NEW t, WithStatus(r, t)
    PROVE  /\ Ids' = Ids
           /\ \A a \in Ids : /\ rows'[a].survey = rows[a].survey
                             /\ rows'[a].blind = rows[a].blind
                             /\ rows'[a].status = IF a = r THEN t ELSE rows[a].status
<1>1. rows \in Seq(Row) /\ rows' = [rows EXCEPT ![r].status = t] /\ DOMAIN rows' = DOMAIN rows
  BY DEF Typed, TablesTyped, WithStatus
<1>2. \A a \in Ids : rows[a] \in Row
  BY <1>1 DEF Ids
<1>3. ASSUME NEW a \in Ids
      PROVE  /\ rows'[a].survey = rows[a].survey
             /\ rows'[a].blind = rows[a].blind
             /\ rows'[a].status = IF a = r THEN t ELSE rows[a].status
  <2>1. rows'[a] = IF a = r THEN [rows[r] EXCEPT !.status = t] ELSE rows[a]
    BY <1>1 DEF Ids
  <2> QED
    BY <1>2, <2>1 DEF Row
<1> QED
  BY <1>1, <1>3 DEF Ids

LEMMA AddedKept ==
    ASSUME Typed, [Next]_vars, rows' = rows \/ RowAdded, revived' = revived, NEW a \in Ids
    PROVE  Kept(a)
<1>1. CASE rows' = rows
  BY <1>1 DEF Kept, Fresh, Live, Ids
<1>2. CASE RowAdded
  <2>1. Ids = 1 .. Len(rows) /\ Len(rows) \in Nat
    BY RowIds
  <2>2. Ids' = 1 .. Len(rows) + 1
    BY <1>2, TypedStep DEF RowAdded, Typed, TablesTyped, Ids
  <2> QED
    BY <1>2, <2>1, <2>2 DEF RowAdded, Kept, Fresh, Live
<1> QED
  BY <1>1, <1>2

LEMMA KeptStep ==
    ASSUME Typed, [Next]_vars, NEW a \in Ids
    PROVE  Kept(a)
<1>1. CASE UNCHANGED vars
  BY <1>1 DEF vars, Kept, Fresh, Live, Ids
<1>2. ASSUME NEW c \in Clicks, RunSample(c)
      PROVE  Kept(a)
  <2>1. revived' = revived
    BY <1>2 DEF RunSample, FindCompleted, FindReport, FindInFlight, InsertClicked, EnqueueClicked
  <2> QED
    BY <1>2, <2>1, ClickRows, AddedKept
<1>3. ASSUME NEW r \in Ids, Work(r)
      PROVE  Kept(a)
  <2>1. CASE WorkerLoads(r) \/ WorkerDrops(r)
    BY <2>1 DEF WorkerLoads, WorkerDrops, Kept, Fresh, Live, Ids
  <2>2. CASE WorkerAdvances(r)
    <3>1. PICK t \in {"personas_ready", "paraphrases_ready"} : WithStatus(r, t)
      BY <2>2 DEF WorkerAdvances
    <3>2. revived' = IF Live(r) THEN revived ELSE revived \cup {r}
      BY <2>2 DEF WorkerAdvances
    <3> QED
      BY <3>1, <3>2, StatusOnly DEF Kept, Fresh, Live
  <2>3. CASE WorkerFails(r)
    <3>1. WithStatus(r, "failed") /\ revived' = revived \ {r} /\ "failed" \notin ActiveStatuses
      BY <2>3 DEF WorkerFails, ActiveStatuses
    <3> QED
      BY <3>1, StatusOnly DEF Kept, Fresh, Live
  <2> QED
    BY <1>3, <2>1, <2>2, <2>3 DEF Work
<1>4. ASSUME NEW b \in Boots, Bootstrap(b)
      PROVE  Kept(a)
  <2>1. CASE Quiet(b)
    <3>1. revived' = revived
      BY <2>1 DEF Quiet, StartBoot, FindSeeded, InsertSeeded, CountRows, CountCompleted, Pick
    <3> QED
      BY <2>1, <3>1, QuietRows, AddedKept
  <2>2. CASE Clear(b) \/ Fill(b) \/ BootFails(b)
    BY <2>2 DEF Clear, Fill, BootFails, Kept, Fresh, Live, Ids
  <2>3. CASE FinishReport(b)
    <3>1. boot[b].row \in Ids /\ "completed" \notin ActiveStatuses
      BY <2>3, FinishRows DEF ActiveStatuses
    <3>2. \/ rows' = rows /\ revived' = revived
          \/ WithStatus(boot[b].row, "completed") /\ revived' = revived \ {boot[b].row}
      BY <2>3 DEF FinishReport
    <3>3. CASE rows' = rows /\ revived' = revived
      BY <3>3 DEF Kept, Fresh, Live, Ids
    <3>4. CASE WithStatus(boot[b].row, "completed") /\ revived' = revived \ {boot[b].row}
      BY <3>1, <3>4, StatusOnly DEF Kept, Fresh, Live
    <3> QED
      BY <3>2, <3>3, <3>4
  <2> QED
    BY <1>4, <2>1, <2>2, <2>3 DEF Bootstrap, Quiet
<1> QED
  BY <1>1, <1>2, <1>3, <1>4 DEF Next

LEMMA WhoAdds ==
    ASSUME Typed, [Next]_vars, NEW a \in Ids', a \notin Ids
    PROVE  /\ a = Len(rows) + 1
           /\ \/ \E c \in Clicks : InsertClicked(c)
              \/ \E b \in Boots : InsertSeeded(b)
<1>1. Ids' = Ids \/ RowAdded
  <2>1. CASE UNCHANGED vars
    BY <2>1 DEF vars, Ids
  <2>2. ASSUME NEW c \in Clicks, RunSample(c) PROVE Ids' = Ids \/ RowAdded
    BY <2>2, ClickRows DEF Ids
  <2>3. ASSUME NEW r \in Ids, Work(r) PROVE Ids' = Ids \/ RowAdded
    BY <2>3, WorkRows DEF Ids
  <2>4. ASSUME NEW b \in Boots, Bootstrap(b) PROVE Ids' = Ids \/ RowAdded
    <3>1. CASE Quiet(b)
      BY <3>1, QuietRows DEF Ids
    <3>2. CASE Clear(b) \/ Fill(b) \/ BootFails(b)
      BY <3>2 DEF Clear, Fill, BootFails, Ids
    <3>3. CASE FinishReport(b)
      BY <3>3, FinishRows DEF Ids
    <3> QED
      BY <2>4, <3>1, <3>2, <3>3 DEF Bootstrap, Quiet
  <2> QED
    BY <2>1, <2>2, <2>3, <2>4 DEF Next
<1>2. a = Len(rows) + 1
  <2>1. Ids = 1 .. Len(rows) /\ Len(rows) \in Nat
    BY RowIds
  <2>2. Ids' = 1 .. Len(rows) + 1
    BY <1>1, TypedStep DEF RowAdded, Typed, TablesTyped, Ids
  <2> QED
    BY <2>1, <2>2
<1>3. DOMAIN rows' # DOMAIN rows
  BY DEF Ids
<1>4. ASSUME \A c \in Clicks : ~InsertClicked(c), \A b \in Boots : ~InsertSeeded(b)
      PROVE  FALSE
  <2>1. rows' = rows \/ \E r, t : WithStatus(r, t)
    <3>1. CASE UNCHANGED vars
      BY <3>1 DEF vars
    <3>2. ASSUME NEW c \in Clicks, RunSample(c) PROVE rows' = rows
      BY <1>4, <3>2 DEF RunSample, FindCompleted, FindReport, FindInFlight, EnqueueClicked
    <3>3. ASSUME NEW r \in Ids, Work(r) PROVE rows' = rows \/ \E q, t : WithStatus(q, t)
      BY <3>3 DEF Work, WorkerLoads, WorkerAdvances, WorkerFails, WorkerDrops
    <3>4. ASSUME NEW b \in Boots, Bootstrap(b) PROVE rows' = rows \/ \E q, t : WithStatus(q, t)
      BY <1>4, <3>4 DEF Bootstrap, StartBoot, FindSeeded, CountRows, CountCompleted, Pick, Clear,
                        Fill, FinishReport, BootFails
    <3> QED
      BY <3>1, <3>2, <3>3, <3>4 DEF Next
  <2>2. ASSUME NEW r, NEW t, WithStatus(r, t) PROVE DOMAIN rows' = DOMAIN rows
    BY <2>2 DEF WithStatus
  <2> QED
    BY <1>3, <2>1, <2>2
<1> QED
  BY <1>2, <1>4
\* A request comes to insert from a look at the rows in flight.
LEMMA ClickComes ==
    ASSUME Typed, [Next]_vars, NEW c \in Clicks, click'[c].pc = "insert"
    PROVE  /\ click'[c].knew = click[c].knew
           /\ click[c].pc = "insert" \/ ~InFlight(Clicked[c])
<1>1. CASE click' = click
  BY <1>1
<1>2. ASSUME NEW d \in Clicks, RunSample(d)
      PROVE  /\ click'[c].knew = click[c].knew
             /\ click[c].pc = "insert" \/ ~InFlight(Clicked[c])
  <2>1. click[c] = [pc |-> click[c].pc, row |-> click[c].row, knew |-> click[c].knew]
        /\ DOMAIN click = Clicks
    BY DEF Typed, ClicksTyped
  <2>2. Over.pc = "over"
    BY DEF Over, NewRequest
  <2>3. CASE FindCompleted(d)
    <3>1. PICK pc \in {"flight", "report"} :
              click' = [click EXCEPT ![d] = [pc |-> pc, row |-> LatestCompleted(Clicked[d]),
                                             knew |-> Len(rows)]]
      BY <2>3 DEF FindCompleted
    <3> QED
      BY <2>1, <3>1
  <2>4. CASE FindReport(d)
    <3>1. \/ click' = [click EXCEPT ![d] = Over]
          \/ click' = [click EXCEPT ![d].pc = "flight", ![d].row = 0]
      BY <2>4 DEF FindReport, Answered
    <3>2. d # c
      BY <2>1, <2>2, <3>1
    <3> QED
      BY <2>1, <3>1, <3>2
  <2>5. CASE FindInFlight(d)
    <3>1. \/ click' = [click EXCEPT ![d] = Over]
          \/ click' = [click EXCEPT ![d].pc = "insert"] /\ ~InFlight(Clicked[d])
      BY <2>5 DEF FindInFlight, Answered
    <3>2. CASE d = c
      BY <2>1, <2>2, <3>1, <3>2
    <3>3. CASE d # c
      BY <2>1, <3>1, <3>3
    <3> QED
      BY <3>2, <3>3
  <2>6. CASE InsertClicked(d)
    <3>1. click' = [click EXCEPT ![d] = [pc |-> "enqueue", row |-> Len(rows) + 1, knew |-> 0]]
      BY <2>6 DEF InsertClicked
    <3> QED
      BY <2>1, <3>1
  <2>7. CASE EnqueueClicked(d)
    <3>1. click' = [click EXCEPT ![d] = Over]
      BY <2>7 DEF EnqueueClicked
    <3> QED
      BY <2>1, <2>2, <3>1
  <2> QED
    BY <1>2, <2>3, <2>4, <2>5, <2>6, <2>7 DEF RunSample
<1>3. ASSUME NEW r \in Ids, Work(r) PROVE click' = click
  BY <1>3 DEF Work, WorkerLoads, WorkerAdvances, WorkerFails, WorkerDrops
<1>4. ASSUME NEW b \in Boots, Bootstrap(b) PROVE click' = click
  BY <1>4 DEF Bootstrap, StartBoot, FindSeeded, InsertSeeded, CountRows, CountCompleted, Pick,
              Clear, Fill, FinishReport, BootFails
<1> QED
  BY <1>1, <1>2, <1>3, <1>4 DEF Next, vars

\* A bootstrap comes to insert from a look that found no row.
LEMMA BootComes ==
    ASSUME Typed, [Next]_vars, NEW b \in Boots, boot'[b].pc = "insert"
    PROVE  /\ boot'[b].knew <= Len(rows) /\ boot'[b].i = boot[b].i
           /\ boot'[b] = boot[b] \/ Of(Survey(b)) = {}
<1>1. /\ boot[b] \in BootType /\ boot[b].knew <= Len(rows) /\ Len(rows) \in Nat
      /\ boot \in [Boots -> BootType]
  BY DEF Typed, BootsTyped, TablesTyped
<1>2. CASE boot'[b] = boot[b]
  BY <1>1, <1>2
<1>3. ASSUME NEW new, new.pc # "insert", boot' = [boot EXCEPT ![b] = new]
      PROVE  FALSE
  BY <1>1, <1>3
<1>4. ASSUME Bootstrap(b)
      PROVE  /\ boot'[b].knew <= Len(rows) /\ boot'[b].i = boot[b].i
             /\ boot'[b] = boot[b] \/ Of(Survey(b)) = {}
  <2>1. ASSUME NEW p \in {"seed", "pick"}, NEW after \in {"count", "done"}, NextSample(b, p, after)
        PROVE  FALSE
    BY <2>1, NextSampleTyped
  <2>2. ASSUME NEW pc \in {"seed", "count", "pick", "done", "off", "new"}, NEW whole \in BOOLEAN
        PROVE  boot' # [boot EXCEPT ![b] = BootRecord(pc, whole)]
    BY <1>3, <2>2, BootRecordTyped
  <2>3. CASE FindSeeded(b)
    <3> DEFINE open == BootTx(b) \in ToSet(begun)
               knew == IF open THEN boot[b].knew ELSE Len(rows)
               old == Of(Survey(b)) # {}
               last == boot[b].i = Len(SampleOrder)
               new == [boot[b] EXCEPT !.pc = IF old THEN "seed" ELSE "insert",
                                      !.i = IF old THEN boot[b].i + 1 ELSE boot[b].i,
                                      !.knew = knew]
    <3>1. ~(old /\ last)
      BY <2>1, <2>3 DEF FindSeeded
    <3>2. boot' = [boot EXCEPT ![b] = new]
      BY <2>3, <3>1 DEF FindSeeded
    <3>3. knew \in Nat /\ knew <= Len(rows)
      BY <1>1 DEF BootType
    <3> HIDE DEF knew
    <3>4. boot'[b] = new /\ new.pc = (IF old THEN "seed" ELSE "insert") /\ new.knew = knew
          /\ new.i = (IF old THEN boot[b].i + 1 ELSE boot[b].i)
      BY <1>1, <3>2 DEF BootType
    <3> HIDE DEF new
    <3> QED
      BY <3>3, <3>4
  <2>4. CASE CountRows(b) \/ Clear(b) \/ Fill(b)
    <3>1. PICK pc \in {"gate", "fill", "finish"} :
              \/ boot' = [boot EXCEPT ![b].pc = pc, ![b].knew = Len(rows)]
              \/ boot' = [boot EXCEPT ![b].pc = pc]
      BY <2>4 DEF CountRows, Clear, Fill, BootGoto
    <3> QED
      BY <1>1, <3>1 DEF BootType
  <2>5. CASE Pick(b)
    <3>1. PICK row, seen : boot' = [boot EXCEPT ![b].pc = "clear", ![b].row = row, ![b].seen = seen]
      BY <2>1, <2>5 DEF Pick
    <3> QED
      BY <1>1, <3>1 DEF BootType
  <2>6. CASE InsertSeeded(b) \/ FinishReport(b)
    BY <2>1, <2>6 DEF InsertSeeded, FinishReport
  <2>7. CASE StartBoot(b) \/ CountCompleted(b) \/ BootFails(b)
    <3>1. PICK pc \in {"seed", "count", "pick", "done", "off"}, whole \in BOOLEAN :
              boot' = [boot EXCEPT ![b] = BootRecord(pc, whole)]
      BY <1>1, <2>7 DEF StartBoot, CountCompleted, BootFails, BootType
    <3> QED
      BY <2>2, <3>1
  <2> QED
    BY <1>4, <2>3, <2>4, <2>5, <2>6, <2>7 DEF Bootstrap
<1>5. ASSUME NEW c \in Clicks, RunSample(c) PROVE boot' = boot
  BY <1>5, ClickRows
<1>6. ASSUME NEW r \in Ids, Work(r) PROVE boot' = boot
  BY <1>6, WorkRows
<1>7. ASSUME NEW d \in Boots, Bootstrap(d), d # b PROVE boot'[b] = boot[b]
  BY <1>7, BootKeepsOthers
<1> QED
  BY <1>2, <1>4, <1>5, <1>6, <1>7 DEF Next, vars

TwinsInv == PairsBlind /\ ClicksLooked /\ BootsLooked

LEMMA TwinsStep == Typed /\ TwinsInv /\ [Next]_vars => TwinsInv'
<1> SUFFICES ASSUME Typed, TwinsInv, [Next]_vars PROVE TwinsInv'
  OBVIOUS
<1>1. Ids = 1 .. Len(rows) /\ Len(rows) \in Nat
  BY RowIds
<1>2. \A a \in Ids : Kept(a)
  BY KeptStep
<1>3. \A a \in Ids' : a \notin Ids => a = Len(rows) + 1
  BY WhoAdds
<1>4. ASSUME NEW a \in Ids', NEW b \in Ids', a < b, rows'[a].survey = rows'[b].survey, Fresh(a)'
      PROVE  rows'[b].blind
  <2>1. CASE b \in Ids
    <3>1. a \in Ids
      BY <1>1, <1>3, <1>4, <2>1
    <3> QED
      BY <1>2, <1>4, <2>1, <3>1 DEF Kept, TwinsInv, PairsBlind
  <2>2. CASE b \notin Ids
    <3>1. b = Len(rows) + 1 /\ a \in Ids
      BY <1>1, <1>3, <1>4, <2>2
    <3>2. rows'[a].survey = rows[a].survey /\ Fresh(a)
      BY <1>2, <1>4, <3>1 DEF Kept
    <3>3. CASE \E c \in Clicks : InsertClicked(c)
      <4>1. PICK c \in Clicks : InsertClicked(c)
        BY <3>3
      <4>2. /\ InsertRow(ClickTx(c), Clicked[c], click[c].knew) /\ Clicked[c] \in Samples
            /\ click[c].pc = "insert"
        BY <4>1, OrderTyped DEF InsertClicked, ClickAt
      <4>3. /\ rows'[b].survey = Clicked[c]
            /\ rows'[b].blind = (\E x \in Of(Clicked[c]) : x > click[c].knew)
        BY <3>1, <4>2, InsertTyped DEF Typed
      <4>4. a \in Of(Clicked[c])
        BY <1>4, <3>1, <3>2, <4>3 DEF Of
      <4>5. a > click[c].knew
        BY <3>2, <4>2, <4>4 DEF TwinsInv, ClicksLooked
      <4> QED
        BY <4>3, <4>4, <4>5
    <3>4. CASE \E d \in Boots : InsertSeeded(d)
      <4>1. PICK d \in Boots : InsertSeeded(d)
        BY <3>4
      <4>2. Survey(d) \in Samples
        <5>1. boot[d].i \in 1 .. Len(SampleOrder)
          BY DEF Typed, BootsTyped, BootType
        <5> QED
          BY <5>1, OrderTyped DEF Survey
      <4>3. InsertRow(BootTx(d), Survey(d), boot[d].knew) /\ boot[d].pc = "insert"
        BY <4>1 DEF InsertSeeded, BootAt
      <4>4. /\ rows'[b].survey = Survey(d)
            /\ rows'[b].blind = (\E x \in Of(Survey(d)) : x > boot[d].knew)
        BY <3>1, <4>2, <4>3, InsertTyped DEF Typed
      <4>5. a \in Of(Survey(d))
        BY <1>4, <3>1, <3>2, <4>4 DEF Of
      <4>6. a > boot[d].knew
        BY <4>3, <4>5 DEF TwinsInv, BootsLooked
      <4> QED
        BY <4>4, <4>5, <4>6
    <3> QED
      BY <2>2, <3>3, <3>4, WhoAdds
  <2> QED
    BY <2>1, <2>2
<1>5. ASSUME NEW c \in Clicks, click'[c].pc = "insert",
             NEW a \in Ids', rows'[a].survey = Clicked[c], Fresh(a)'
      PROVE  a > click'[c].knew
  <2>1. /\ click'[c].knew = click[c].knew
        /\ click[c].pc = "insert" \/ ~InFlight(Clicked[c])
    BY <1>5, ClickComes
  <2>2. click[c].knew \in 0 .. Len(rows)
    BY DEF Typed, ClicksTyped
  <2>3. CASE a \in Ids
    <3>1. a \in Of(Clicked[c]) /\ Fresh(a)
      BY <1>2, <1>5, <2>3 DEF Kept, Of
    <3>2. InFlight(Clicked[c])
      BY <3>1 DEF InFlight, Fresh
    <3> QED
      BY <2>1, <3>1, <3>2 DEF TwinsInv, ClicksLooked
  <2>4. CASE a \notin Ids
    BY <1>1, <1>3, <1>5, <2>1, <2>2, <2>4
  <2> QED
    BY <2>3, <2>4
<1>6. ASSUME NEW b \in Boots, boot'[b].pc = "insert", NEW a \in Ids', rows'[a].survey = Survey(b)'
      PROVE  a > boot'[b].knew
  <2>1. /\ boot'[b].knew <= Len(rows) /\ boot'[b].i = boot[b].i
        /\ boot'[b] = boot[b] \/ Of(Survey(b)) = {}
    BY <1>6, BootComes
  <2>2. Survey(b)' = Survey(b)
    BY <2>1 DEF Survey
  <2>3. CASE a \in Ids
    <3>1. a \in Of(Survey(b))
      BY <1>2, <1>6, <2>2, <2>3 DEF Kept, Of
    <3>2. boot'[b] = boot[b]
      BY <2>1, <3>1
    <3> QED
      BY <1>6, <3>1, <3>2 DEF TwinsInv, BootsLooked
  <2>4. CASE a \notin Ids
    <3>1. boot'[b].knew \in Nat
      BY TypedStep DEF Typed, BootsTyped, BootType
    <3> QED
      BY <1>1, <1>3, <1>6, <2>1, <2>4, <3>1
  <2> QED
    BY <2>3, <2>4
<1>7. PairsBlind'
  BY <1>4 DEF PairsBlind
<1>8. ClicksLooked'
  BY <1>5 DEF ClicksLooked, Of
<1>9. BootsLooked'
  BY <1>6 DEF BootsLooked, Of
<1> QED
  BY <1>7, <1>8, <1>9 DEF TwinsInv

\* Two runs of one sample are in flight together only if their requests overlapped,
\* or the first had been over and a worker brought it back.
THEOREM TwinsAreBlind == Spec => []TwinsOverlapped
<1>1. Init => Typed /\ TwinsInv
  <2> SUFFICES ASSUME Init PROVE TwinsInv
    BY TypedInit
  <2>1. Ids = {}
    BY DEF Init, Ids
  <2> QED
    BY <2>1 DEF TwinsInv, PairsBlind, ClicksLooked, BootsLooked, Of
<1>2. Typed /\ TwinsInv /\ [Next]_vars => (Typed /\ TwinsInv)'
  BY TypedStep, TwinsStep
<1>3. TwinsInv => TwinsOverlapped
  BY DEF TwinsInv, PairsBlind, TwinsOverlapped, Fresh
<1> QED
  BY <1>1, <1>2, <1>3, PTL DEF Spec

-----------------------------------------------------------------------------
(* Lists in the order of their beginnings *)

\* In list, what follows x and is a row is none of the first knew rows.
Late(list, x, knew) ==
    \A i, j \in 1 .. Len(list), r \in Nat :
        i < j /\ list[i] = x /\ list[j] = <<"row", r>> => r > knew

\* The transaction x is the row n from now on.
Placed(list, x, n) == [i \in DOMAIN list |-> IF list[i] = x THEN <<"row", n>> ELSE list[i]]

LEMMA NotThere ==
    ASSUME NEW S, NEW list \in Seq(S), NEW x, x \notin ToSet(list), NEW k
    PROVE  Late(list, x, k)
  BY DEF Late, ToSet

LEMMA WithoutLate ==
    ASSUME NEW S, NEW list \in Seq(S), NEW x, NEW y, NEW k, Late(list, y, k)
    PROVE  Late(Without(list, x), y, k)
<1>1. CASE x \notin ToSet(list)
  BY <1>1 DEF Without
<1>2. CASE x \in ToSet(list)
  <2> DEFINE rest == Without(list, x)
  <2>1. PICK p \in 1 .. Len(list) :
            /\ Len(rest) = Len(list) - 1
            /\ \A i \in 1 .. Len(list) - 1 : rest[i] = IF i < p THEN list[i] ELSE list[i + 1]
    BY <1>2, WithoutAt
  <2> HIDE DEF rest
  <2> SUFFICES ASSUME NEW i \in 1 .. Len(rest), NEW j \in 1 .. Len(rest), NEW r \in Nat,
                      i < j, rest[i] = y, rest[j] = <<"row", r>>
               PROVE  r > k
    BY DEF Late, rest
  <2> DEFINE from(n) == IF n < p THEN n ELSE n + 1
  <2>2. list[from(i)] = y /\ list[from(j)] = <<"row", r>>
    BY <2>1
  <2>3. from(i) \in 1 .. Len(list) /\ from(j) \in 1 .. Len(list) /\ from(i) < from(j)
    BY <2>1
  <2> HIDE DEF from
  <2> QED
    BY <2>2, <2>3 DEF Late
<1> QED
  BY <1>1, <1>2

LEMMA AppendOnce ==
    ASSUME NEW S, NEW list \in Seq(S), NEW x \in S, x \notin ToSet(list), IsInjective(list)
    PROVE  /\ Append(list, x) \in Seq(S) /\ IsInjective(Append(list, x))
           /\ ToSet(Append(list, x)) = ToSet(list) \cup {x}
<1> DEFINE more == Append(list, x)
<1>1. /\ more \in Seq(S) /\ Len(list) \in Nat
      /\ DOMAIN more = 1 .. Len(list) + 1 /\ DOMAIN list = 1 .. Len(list)
      /\ \A i \in 1 .. Len(list) : more[i] = list[i]
      /\ more[Len(list) + 1] = x
  OBVIOUS
<1> HIDE DEF more
<1>2. IsInjective(more)
  <2>1. \A i \in 1 .. Len(list) : list[i] # x
    BY <1>1 DEF ToSet
  <2> QED
    BY <1>1, <2>1 DEF IsInjective
<1>3. ToSet(more) = ToSet(list) \cup {x}
  <2>1. ASSUME NEW y \in ToSet(more) PROVE y \in ToSet(list) \cup {x}
    BY <1>1, <2>1 DEF ToSet
  <2>2. ASSUME NEW y \in ToSet(list) \cup {x} PROVE y \in ToSet(more)
    BY <1>1, <2>2 DEF ToSet
  <2> QED
    BY <2>1, <2>2
<1> QED
  BY <1>1, <1>2, <1>3 DEF more

\* The last one in is followed by nothing.
LEMMA AppendLate ==
    ASSUME NEW S, NEW list \in Seq(S), NEW x \in S, \A n \in Nat : x # <<"row", n>>,
           NEW y, NEW k, Late(list, y, k)
    PROVE  Late(Append(list, x), y, k)
<1> DEFINE more == Append(list, x)
<1>1. /\ Len(more) = Len(list) + 1 /\ Len(list) \in Nat
      /\ \A i \in 1 .. Len(list) : more[i] = list[i]
      /\ more[Len(list) + 1] = x
  OBVIOUS
<1> HIDE DEF more
<1> SUFFICES ASSUME NEW i \in 1 .. Len(more), NEW j \in 1 .. Len(more), NEW r \in Nat,
                    i < j, more[i] = y, more[j] = <<"row", r>>
             PROVE  r > k
  BY DEF Late, more
<1>2. j # Len(list) + 1
  BY <1>1
<1>3. i \in 1 .. Len(list) /\ j \in 1 .. Len(list)
  BY <1>1, <1>2
<1> QED
  BY <1>1, <1>3 DEF Late

LEMMA PlacedLate ==
    ASSUME NEW S, NEW list \in Seq(S), IsInjective(list), NEW x \in ToSet(list), NEW n \in Nat,
           <<"row", n>> \notin ToSet(list), \A m \in Nat : x # <<"row", m>>
    PROVE  /\ IsInjective(Placed(list, x, n))
           /\ ToSet(Placed(list, x, n)) = (ToSet(list) \ {x}) \cup {<<"row", n>>}
           /\ \A y, k : Late(list, y, k) /\ y # <<"row", n>> /\ k < n => Late(Placed(list, x, n), y, k)
<1> DEFINE next == Placed(list, x, n)
<1>1. /\ DOMAIN next = DOMAIN list /\ DOMAIN list = 1 .. Len(list) /\ Len(list) \in Nat
      /\ \A i \in 1 .. Len(list) : next[i] = IF list[i] = x THEN <<"row", n>> ELSE list[i]
      /\ \A i \in 1 .. Len(list) : list[i] # <<"row", n>>
  BY DEF Placed, ToSet
<1>2. PICK p \in 1 .. Len(list) : list[p] = x
  BY <1>1 DEF ToSet
<1>3. \A i, j \in 1 .. Len(list) : list[i] = list[j] => i = j
  BY <1>1 DEF IsInjective
<1>4. Len(next) = Len(list)
  BY <1>1 DEF Placed
<1> HIDE DEF next
<1>5. IsInjective(next)
  BY <1>1, <1>3 DEF IsInjective
<1>6. ToSet(next) = (ToSet(list) \ {x}) \cup {<<"row", n>>}
  <2>1. ASSUME NEW y \in ToSet(next) PROVE y \in (ToSet(list) \ {x}) \cup {<<"row", n>>}
    BY <1>1, <2>1 DEF ToSet
  <2>2. ASSUME NEW y \in ToSet(list), y # x PROVE y \in ToSet(next)
    BY <1>1, <2>2 DEF ToSet
  <2>3. <<"row", n>> \in ToSet(next)
    BY <1>1, <1>2 DEF ToSet
  <2> QED
    BY <2>1, <2>2, <2>3
<1>7. ASSUME NEW y, NEW k, Late(list, y, k), y # <<"row", n>>, k < n PROVE Late(next, y, k)
  <2> SUFFICES ASSUME NEW i \in 1 .. Len(list), NEW j \in 1 .. Len(list), NEW r \in Nat,
                      i < j, next[i] = y, next[j] = <<"row", r>>
               PROVE  r > k
    BY <1>4 DEF Late
  <2>1. list[i] = y
    BY <1>1, <1>7
  <2>2. CASE list[j] = x
    BY <1>1, <1>7, <2>2
  <2>3. CASE list[j] # x
    BY <1>1, <1>7, <2>1, <2>3 DEF Late
  <2> QED
    BY <2>2, <2>3
<1> QED
  BY <1>5, <1>6, <1>7 DEF next

Places(list, T) == {i \in DOMAIN list : \E r \in T : list[i] = <<"row", r>>}

\* The first row of T in list.
LEMMA FirstOf ==
    ASSUME NEW list \in Seq(Transactions), NEW T, Places(list, T) # {}
    PROVE  \E m \in 1 .. Len(list), r \in T :
              /\ list[m] = <<"row", r>> /\ list[Min(Places(list, T))][2] = r
              /\ \A i \in 1 .. Len(list), a \in T : list[i] = <<"row", a>> => m <= i
<1> DEFINE at == Places(list, T)
<1> USE DEF Places
<1>1. at \in SUBSET Nat
  OBVIOUS
<1>2. Min(at) \in at /\ \A i \in at : Min(at) <= i
  <2>1. \E m \in at : \A i \in at : m <= i
    BY <1>1, Smallest
  <2> QED
    BY <2>1 DEF Min
<1>3. PICK r \in T : list[Min(at)] = <<"row", r>>
  BY <1>2
<1>4. Min(at) \in 1 .. Len(list)
  BY <1>2
<1>5. ASSUME NEW i \in 1 .. Len(list), NEW a \in T, list[i] = <<"row", a>>
      PROVE  Min(at) <= i
  <2>1. i \in at
    BY <1>5
  <2> QED
    BY <1>2, <2>1
<1>6. list[Min(at)][2] = r
  BY <1>3
<1> DEFINE m == Min(at)
<1>7. m \in 1 .. Len(list) /\ list[m] = <<"row", r>> /\ list[Min(at)][2] = r
  BY <1>3, <1>4, <1>6
<1>8. \A i \in 1 .. Len(list), a \in T : list[i] = <<"row", a>> => m <= i
  BY <1>5
<1> HIDE DEF m
<1> QED
  BY <1>7, <1>8

-----------------------------------------------------------------------------
(* Types in full *)

\* Where a request has a transaction open; a bootstrap has one in the first, and
\* may have one in both.
ClickOpen == {"report", "flight", "insert"}
BootOpen == {"insert", "seed"}

\* Every row has its place by created_at, and keeps the place of its transaction.
RowsInTime ==
    /\ IsInjective(begun)
    /\ \A n \in Nat : <<"row", n>> \in ToSet(begun) <=> n \in Ids

\* Rows that began after an open transaction are none of those it knew.
ClickInTime(c) ==
    /\ ClickTx(c) \in ToSet(begun) <=> click[c].pc \in ClickOpen
    /\ Late(begun, ClickTx(c), click[c].knew)

BootInTime(b) ==
    /\ boot[b].pc = "insert" => BootTx(b) \in ToSet(begun)
    /\ BootTx(b) \in ToSet(begun) => boot[b].pc \in BootOpen
    /\ Late(begun, BootTx(b), boot[b].knew)

InTime ==
    /\ RowsInTime
    /\ \A c \in Clicks : ClickInTime(c)
    /\ \A b \in Boots : BootInTime(b)

\* The transaction x begins, ends without a row, or ends with the next row.
Begins(x) == x \notin ToSet(begun) /\ begun' = Append(begun, x) /\ Ids' = Ids
Ends(x) == Ending(x) /\ Ids' = Ids
Commits(x) ==
    /\ x \in ToSet(begun) /\ begun' = Placed(begun, x, Len(rows) + 1)
    /\ Ids' = 1 .. Len(rows) + 1

LEMMA Distinct ==
    /\ \A c \in Clicks : ClickTx(c) \in Transactions /\ \A n : ClickTx(c) # <<"row", n>>
    /\ \A b \in Boots : BootTx(b) \in Transactions /\ \A n : BootTx(b) # <<"row", n>>
    /\ \A c \in Clicks, b \in Boots : ClickTx(c) # BootTx(b)
    /\ \A c, d \in Clicks : ClickTx(c) = ClickTx(d) => c = d
    /\ \A b, d \in Boots : BootTx(b) = BootTx(d) => b = d
  BY DEF ClickTx, BootTx, Transactions

\* What such a step does to the other transactions, and to the rows.
LEMMA OrderMoves ==
    ASSUME Typed, RowsInTime, NEW x \in Transactions, \A n \in Nat : x # <<"row", n>>,
           Begins(x) \/ Ends(x) \/ Commits(x)
    PROVE  /\ RowsInTime'
           /\ x \in ToSet(begun') <=> Begins(x)
           /\ \A y : y # x /\ (\A n \in Nat : y # <<"row", n>>) =>
                /\ y \in ToSet(begun') <=> y \in ToSet(begun)
                /\ \A k \in 0 .. Len(rows) : Late(begun, y, k) => Late(begun', y, k)
<1>1. begun \in Seq(Transactions) /\ Ids = 1 .. Len(rows) /\ Len(rows) \in Nat
  BY RowIds DEF Typed, TablesTyped
<1>2. CASE Begins(x)
  <2>1. /\ IsInjective(begun') /\ ToSet(begun') = ToSet(begun) \cup {x}
        /\ \A y, k : Late(begun, y, k) => Late(begun', y, k)
    BY <1>1, <1>2, AppendOnce, AppendLate DEF Begins, RowsInTime
  <2> QED
    BY <1>2, <2>1 DEF Begins, RowsInTime
<1>3. CASE Ends(x)
  <2>1. /\ IsInjective(begun') /\ ToSet(begun') = ToSet(begun) \ {x}
        /\ \A y, k : Late(begun, y, k) => Late(begun', y, k)
    BY <1>1, <1>3, WithoutKeeps, WithoutLate DEF Ends, Ending, RowsInTime
  <2>2. ~Begins(x)
    <3>1. Begins(x) => x \in ToSet(begun')
      BY <1>1, AppendOnce DEF Begins, RowsInTime
    <3> QED
      BY <2>1, <3>1
  <2> QED
    BY <1>3, <2>1, <2>2 DEF Ends, RowsInTime
<1>4. CASE Commits(x)
  <2> DEFINE n == Len(rows) + 1
  <2>1. n \in Nat /\ n \notin Ids /\ Ids' = Ids \cup {n} /\ \A k \in 0 .. Len(rows) : k < n
    BY <1>1, <1>4 DEF Commits
  <2>2. begun' = Placed(begun, x, n) /\ x \in ToSet(begun)
    BY <1>4 DEF Commits
  <2> HIDE DEF n
  <2>3. /\ IsInjective(begun') /\ ToSet(begun') = (ToSet(begun) \ {x}) \cup {<<"row", n>>}
        /\ \A y, k : Late(begun, y, k) /\ y # <<"row", n>> /\ k < n => Late(begun', y, k)
    BY <1>1, <2>1, <2>2, PlacedLate DEF RowsInTime
  <2>4. ~Begins(x)
    BY <2>2 DEF Begins
  <2>5. \A m \in Nat : <<"row", m>> \in ToSet(begun') <=> m \in Ids'
    BY <2>1, <2>3 DEF RowsInTime
  <2>6. x \notin ToSet(begun')
    BY <2>1, <2>3
  <2> QED
    BY <2>1, <2>3, <2>4, <2>5, <2>6 DEF RowsInTime
<1> QED
  BY <1>2, <1>3, <1>4

\* A step of the transaction x leaves the others in time.
LEMMA TxMoves ==
    ASSUME Typed, InTime, NEW x \in Transactions, \A n \in Nat : x # <<"row", n>>,
           Begins(x) \/ Ends(x) \/ Commits(x),
           \A c \in Clicks : ClickTx(c) # x => click'[c] = click[c],
           \A b \in Boots : BootTx(b) # x => boot'[b] = boot[b],
           \A c \in Clicks : ClickTx(c) = x => (click'[c].pc \in ClickOpen <=> Begins(x)),
           \A b \in Boots : BootTx(b) = x =>
                IF Begins(x) THEN boot'[b].pc \in BootOpen ELSE boot'[b].pc # "insert"
    PROVE  InTime'
<1>1. /\ RowsInTime'
      /\ x \in ToSet(begun') <=> Begins(x)
      /\ \A y : y # x /\ (\A n \in Nat : y # <<"row", n>>) =>
           /\ y \in ToSet(begun') <=> y \in ToSet(begun)
           /\ \A k \in 0 .. Len(rows) : Late(begun, y, k) => Late(begun', y, k)
  BY OrderMoves DEF InTime
<1>2. \A k : Late(begun', x, k)
  <2>1. begun' \in Seq(Transactions)
    <3>1. Begins(x) \/ Ends(x) => begun' \in Seq(Transactions)
      BY EndingTyped DEF Begins, Ends, Typed, TablesTyped
    <3>2. Commits(x) => begun' \in Seq(Transactions)
      <4>1. /\ begun \in Seq(Transactions) /\ Len(begun) \in Nat
            /\ DOMAIN begun = 1 .. Len(begun) /\ Len(rows) + 1 \in Nat
        BY RowIds DEF Typed, TablesTyped
      <4> DEFINE new == <<"row", Len(rows) + 1>>
      <4>2. new \in Transactions
        BY <4>1 DEF Transactions
      <4>3. \A i \in 1 .. Len(begun) : begun[i] \in Transactions
        BY <4>1
      <4>4. Commits(x) => begun' = [i \in 1 .. Len(begun) |-> IF begun[i] = x THEN new ELSE begun[i]]
        BY <4>1 DEF Commits, Placed
      <4> HIDE DEF new
      <4> QED
        BY <4>1, <4>2, <4>3, <4>4
    <3> QED
      BY <3>1, <3>2
  <2>2. ASSUME Begins(x), NEW k PROVE Late(begun', x, k)
    <3>1. begun \in Seq(Transactions) /\ IsInjective(begun)
      BY DEF Typed, TablesTyped, InTime, RowsInTime
    <3>2. Late(begun, x, k)
      BY <2>2, <3>1, NotThere DEF Begins
    <3> QED
      BY <2>2, <3>1, <3>2, AppendLate DEF Begins
  <2> QED
    BY <1>1, <2>1, <2>2, NotThere
<1>3. ASSUME NEW c \in Clicks PROVE ClickInTime(c)'
  <2>1. CASE ClickTx(c) = x
    <3>1. \A k : Late(begun', x, k)
      BY <1>2
    <3>2. ClickTx(c) \in ToSet(begun') <=> click'[c].pc \in ClickOpen
      BY <1>1, <2>1
    <3> QED
      BY <2>1, <3>1, <3>2 DEF ClickInTime, ClickTx
  <2>2. CASE ClickTx(c) # x
    <3>1. click'[c] = click[c] /\ click[c].knew \in 0 .. Len(rows)
      BY <2>2 DEF Typed, ClicksTyped
    <3>2. /\ ClickTx(c) \in ToSet(begun') <=> ClickTx(c) \in ToSet(begun)
          /\ Late(begun, ClickTx(c), click[c].knew) => Late(begun', ClickTx(c), click[c].knew)
      BY <1>1, <2>2, <3>1, Distinct
    <3> QED
      BY <3>1, <3>2 DEF InTime, ClickInTime, ClickTx
  <2> QED
    BY <2>1, <2>2
<1>4. ASSUME NEW b \in Boots PROVE BootInTime(b)'
  <2>1. CASE BootTx(b) = x
    <3>1. \A k : Late(begun', x, k)
      BY <1>2
    <3>2. /\ boot'[b].pc = "insert" => BootTx(b) \in ToSet(begun')
          /\ BootTx(b) \in ToSet(begun') => boot'[b].pc \in BootOpen
      BY <1>1, <2>1
    <3> QED
      BY <2>1, <3>1, <3>2 DEF BootInTime, BootTx
  <2>2. CASE BootTx(b) # x
    <3>1. boot'[b] = boot[b] /\ boot[b].knew \in 0 .. Len(rows)
      BY <2>2, RowIds DEF Typed, BootsTyped, BootType
    <3>2. /\ BootTx(b) \in ToSet(begun') <=> BootTx(b) \in ToSet(begun)
          /\ Late(begun, BootTx(b), boot[b].knew) => Late(begun', BootTx(b), boot[b].knew)
      BY <1>1, <2>2, <3>1, Distinct
    <3> QED
      BY <3>1, <3>2 DEF InTime, BootInTime, BootTx
  <2> QED
    BY <2>1, <2>2
<1> QED
  BY <1>1, <1>3, <1>4 DEF InTime

\* A step of no transaction.
LEMMA TxStays ==
    ASSUME Typed, InTime, begun' = begun, Ids' = Ids,
           \A c \in Clicks :
              /\ click'[c].pc \in ClickOpen <=> click[c].pc \in ClickOpen
              /\ click'[c].knew = click[c].knew \/ click[c].pc \notin ClickOpen,
           \A b \in Boots :
              \/ boot'[b] = boot[b]
              \/ BootTx(b) \notin ToSet(begun) /\ boot'[b].pc # "insert"
              \/ boot'[b].knew = boot[b].knew /\ boot'[b].pc \in BootOpen /\ BootTx(b) \in ToSet(begun)
    PROVE  InTime'
<1>1. begun \in Seq(Transactions)
  BY DEF Typed, TablesTyped
<1>2. RowsInTime'
  BY DEF InTime, RowsInTime
<1>3. ASSUME NEW c \in Clicks PROVE ClickInTime(c)'
  <2>1. ClickInTime(c)
    BY DEF InTime
  <2>2. CASE click'[c].knew = click[c].knew
    BY <2>1, <2>2 DEF ClickInTime, ClickTx
  <2>3. CASE click[c].pc \notin ClickOpen
    <3>1. ClickTx(c) \notin ToSet(begun)
      BY <2>1, <2>3 DEF ClickInTime
    <3>2. \A k : Late(begun, ClickTx(c), k)
      BY <1>1, <3>1, NotThere
    <3> QED
      BY <2>1, <2>3, <3>2 DEF ClickInTime, ClickTx
  <2> QED
    BY <2>2, <2>3
<1>4. ASSUME NEW b \in Boots PROVE BootInTime(b)'
  <2>1. BootInTime(b)
    BY DEF InTime
  <2>2. CASE boot'[b] = boot[b]
    BY <2>1, <2>2 DEF BootInTime, BootTx
  <2>3. CASE BootTx(b) \notin ToSet(begun) /\ boot'[b].pc # "insert"
    <3>1. \A k : Late(begun, BootTx(b), k)
      BY <1>1, <2>3, NotThere
    <3> QED
      BY <2>3, <3>1 DEF BootInTime, BootTx
  <2>4. CASE boot'[b].knew = boot[b].knew /\ boot'[b].pc \in BootOpen /\ BootTx(b) \in ToSet(begun)
    BY <2>1, <2>4 DEF BootInTime, BootTx
  <2> QED
    BY <2>2, <2>3, <2>4
<1> QED
  BY <1>2, <1>3, <1>4 DEF InTime

LEMMA InsertCommits ==
    ASSUME Typed, NEW x \in ToSet(begun), NEW s \in Samples, NEW knew, InsertRow(x, s, knew)
    PROVE  Commits(x)
<1>1. TablesTyped' /\ Len(rows') = Len(rows) + 1
  BY InsertTyped DEF Typed
<1>2. Ids' = 1 .. Len(rows) + 1
  BY <1>1 DEF TablesTyped, Ids
<1> QED
  BY <1>2 DEF InsertRow, Commits, Placed

LEMMA ClickInTimeStep ==
    ASSUME Typed, InTime, NEW c \in Clicks, RunSample(c)
    PROVE  InTime'
<1> DEFINE x == ClickTx(c)
<1>1. /\ click[c] = [pc |-> click[c].pc, row |-> click[c].row, knew |-> click[c].knew]
      /\ DOMAIN click = Clicks
  BY DEF Typed, ClicksTyped
<1>2. /\ x \in Transactions /\ \A n \in Nat : x # <<"row", n>>
      /\ \A d \in Clicks : ClickTx(d) = x <=> d = c
      /\ \A b \in Boots : BootTx(b) # x
  BY Distinct
<1>3. x \in ToSet(begun) <=> click[c].pc \in ClickOpen
  BY DEF InTime, ClickInTime
<1>4. Over.pc \notin ClickOpen
  BY DEF Over, NewRequest, ClickOpen
<1>5. boot' = boot
  BY ClickRows
\* The request begins or ends its transaction.
<1>6. ASSUME NEW new, click' = [click EXCEPT ![c] = new], Begins(x) \/ Ends(x) \/ Commits(x),
             new.pc \in ClickOpen <=> Begins(x)
      PROVE  InTime'
  <2>1. /\ \A d \in Clicks : ClickTx(d) # x => click'[d] = click[d]
        /\ \A d \in Clicks : ClickTx(d) = x => (click'[d].pc \in ClickOpen <=> Begins(x))
    BY <1>1, <1>2, <1>6
  <2>2. /\ \A b \in Boots : BootTx(b) # x => boot'[b] = boot[b]
        /\ \A b \in Boots : BootTx(b) = x =>
                IF Begins(x) THEN boot'[b].pc \in BootOpen ELSE boot'[b].pc # "insert"
    BY <1>2, <1>5
  <2> HIDE DEF x
  <2> QED
    BY <1>2, <1>6, <2>1, <2>2, TxMoves
<1>7. ASSUME NEW new, click' = [click EXCEPT ![c] = new], begun' = begun, Ids' = Ids,
             new.pc \in ClickOpen <=> click[c].pc \in ClickOpen,
             new.knew = click[c].knew \/ click[c].pc \notin ClickOpen
      PROVE  InTime'
  BY <1>1, <1>5, <1>7, TxStays
<1> HIDE DEF x
<1>8. CASE FindCompleted(c)
  <2> DEFINE row == LatestCompleted(Clicked[c])
             knew == Len(rows)
  <2>1. PICK pc \in {"flight", "report"} :
            click' = [click EXCEPT ![c] = [pc |-> pc, row |-> row, knew |-> knew]]
    BY <1>8 DEF FindCompleted
  <2> DEFINE new == [pc |-> pc, row |-> row, knew |-> knew]
  <2>2. click' = [click EXCEPT ![c] = new] /\ new.pc \in ClickOpen
    BY <2>1 DEF ClickOpen
  <2> HIDE DEF new
  <2>3. Begins(x)
    <3>1. click[c].pc \notin ClickOpen
      BY <1>8 DEF FindCompleted, ClickAt, ClickOpen
    <3> QED
      BY <1>3, <1>8, <3>1 DEF FindCompleted, Begins, Ids, x
  <2> QED
    BY <1>6, <2>2, <2>3
<1>9. ASSUME Answered(c), rows' = rows, click[c].pc \in ClickOpen
      PROVE  InTime'
  <2>1. click' = [click EXCEPT ![c] = Over] /\ Ends(x)
    BY <1>9 DEF Answered, Ends, Ids, x
  <2>2. ~Begins(x)
    BY <1>3, <1>9 DEF Begins
  <2> QED
    BY <1>4, <1>6, <2>1, <2>2
<1>10. CASE FindReport(c)
  <2>1. click[c].pc \in ClickOpen /\ rows' = rows
    BY <1>10 DEF FindReport, ClickAt, ClickOpen
  <2>2. CASE Answered(c)
    BY <1>9, <2>1, <2>2
  <2>3. CASE ~Answered(c)
    <3> DEFINE new == [click[c] EXCEPT !.pc = "flight", !.row = 0]
    <3>1. click' = [click EXCEPT ![c] = new] /\ begun' = begun
      BY <1>10, <2>3 DEF FindReport
    <3>2. new.pc \in ClickOpen /\ new.knew = click[c].knew
      BY <1>1 DEF ClickOpen
    <3> HIDE DEF new
    <3> QED
      BY <1>7, <2>1, <3>1, <3>2 DEF Ids
  <2> QED
    BY <2>2, <2>3
<1>11. CASE FindInFlight(c)
  <2>1. click[c].pc \in ClickOpen /\ rows' = rows
    BY <1>11 DEF FindInFlight, ClickAt, ClickOpen
  <2>2. CASE Answered(c)
    BY <1>9, <2>1, <2>2
  <2>3. CASE ~Answered(c)
    <3> DEFINE new == [click[c] EXCEPT !.pc = "insert"]
    <3>1. click' = [click EXCEPT ![c] = new] /\ begun' = begun
      BY <1>11, <2>3 DEF FindInFlight
    <3>2. new.pc \in ClickOpen /\ new.knew = click[c].knew
      BY <1>1 DEF ClickOpen
    <3> HIDE DEF new
    <3> QED
      BY <1>7, <2>1, <3>1, <3>2 DEF Ids
  <2> QED
    BY <2>2, <2>3
<1>12. CASE InsertClicked(c)
  <2>1. InsertRow(x, Clicked[c], click[c].knew) /\ Clicked[c] \in Samples
    BY <1>12, OrderTyped DEF InsertClicked, x
  <2>2. x \in ToSet(begun)
    BY <1>3, <1>12 DEF InsertClicked, ClickAt, ClickOpen
  <2>3. Commits(x) /\ ~Begins(x)
    BY <2>1, <2>2, InsertCommits DEF Begins
  <2> DEFINE new == [pc |-> "enqueue", row |-> Len(rows) + 1, knew |-> 0]
  <2>4. click' = [click EXCEPT ![c] = new] /\ new.pc \notin ClickOpen
    BY <1>12 DEF InsertClicked, ClickOpen
  <2> HIDE DEF new
  <2> QED
    BY <1>6, <2>3, <2>4
<1>13. CASE EnqueueClicked(c)
  <2>1. /\ click' = [click EXCEPT ![c] = Over] /\ begun' = begun /\ Ids' = Ids
        /\ click[c].pc \notin ClickOpen
    BY <1>13 DEF EnqueueClicked, Ids, ClickAt, ClickOpen
  <2> QED
    BY <1>4, <1>7, <2>1
<1> QED
  BY <1>8, <1>10, <1>11, <1>12, <1>13 DEF RunSample

LEMMA BootInTimeStep ==
    ASSUME Typed, InTime, NEW b \in Boots, Bootstrap(b)
    PROVE  InTime'
<1> DEFINE x == BootTx(b)
<1>1. /\ boot[b] \in BootType /\ boot \in [Boots -> BootType]
      /\ Len(rows) \in Nat /\ Ids = 1 .. Len(rows)
  BY RowIds DEF Typed, BootsTyped
<1>2. /\ x \in Transactions /\ \A n \in Nat : x # <<"row", n>>
      /\ \A d \in Boots : BootTx(d) = x <=> d = b
      /\ \A c \in Clicks : ClickTx(c) # x
  BY Distinct
<1>3. /\ boot[b].pc = "insert" => x \in ToSet(begun)
      /\ x \in ToSet(begun) => boot[b].pc \in BootOpen
  BY DEF InTime, BootInTime
<1>4. click' = click
  BY DEF Bootstrap, StartBoot, FindSeeded, InsertSeeded, CountRows, CountCompleted, Pick,
         Clear, Fill, FinishReport, BootFails
<1>5. \A d \in Boots \ {b} : boot'[d] = boot[d]
  BY BootKeepsOthers
\* The bootstrap begins or ends its transaction.
<1>6. ASSUME Begins(x) \/ Ends(x) \/ Commits(x),
             IF Begins(x) THEN boot'[b].pc \in BootOpen ELSE boot'[b].pc # "insert"
      PROVE  InTime'
  <2>1. /\ \A c \in Clicks : ClickTx(c) # x => click'[c] = click[c]
        /\ \A c \in Clicks : ClickTx(c) = x => (click'[c].pc \in ClickOpen <=> Begins(x))
    BY <1>2, <1>4
  <2>2. /\ \A d \in Boots : BootTx(d) # x => boot'[d] = boot[d]
        /\ \A d \in Boots : BootTx(d) = x =>
                IF Begins(x) THEN boot'[d].pc \in BootOpen ELSE boot'[d].pc # "insert"
    BY <1>2, <1>5, <1>6
  <2> HIDE DEF x
  <2> QED
    BY <1>2, <1>6, <2>1, <2>2, TxMoves
<1>7. ASSUME begun' = begun, Ids' = Ids,
             \/ boot[b].pc \notin BootOpen /\ boot'[b].pc # "insert"
             \/ boot'[b].knew = boot[b].knew /\ boot'[b].pc \in BootOpen /\ x \in ToSet(begun)
      PROVE  InTime'
  <2>1. \A d \in Boots :
            \/ boot'[d] = boot[d]
            \/ BootTx(d) \notin ToSet(begun) /\ boot'[d].pc # "insert"
            \/ boot'[d].knew = boot[d].knew /\ boot'[d].pc \in BootOpen /\ BootTx(d) \in ToSet(begun)
    BY <1>3, <1>5, <1>7
  <2> QED
    BY <1>4, <1>7, <2>1, TxStays
<1>8. ASSUME NEW p \in {"seed", "pick"}, NEW after \in {"count", "done"}, NextSample(b, p, after)
      PROVE  boot'[b].pc # "insert"
  BY <1>8, NextSampleTyped
<1>9. ASSUME NEW pc \in {"seed", "count", "pick", "done", "off", "new"}, NEW whole \in BOOLEAN,
             boot' = [boot EXCEPT ![b] = BootRecord(pc, whole)]
      PROVE  boot'[b].pc # "insert"
  BY <1>1, <1>9, BootRecordTyped
<1> HIDE DEF x
<1>10. CASE FindSeeded(b)
  <2> DEFINE open == x \in ToSet(begun)
             knew == IF open THEN boot[b].knew ELSE Len(rows)
             old == Of(Survey(b)) # {}
             last == boot[b].i = Len(SampleOrder)
             new == [boot[b] EXCEPT !.pc = IF old THEN "seed" ELSE "insert",
                                    !.i = IF old THEN boot[b].i + 1 ELSE boot[b].i,
                                    !.knew = knew]
  <2>1. rows' = rows /\ Ids' = Ids
    BY <1>10 DEF FindSeeded, Ids
  <2>2. CASE old /\ last
    <3>1. Ends(x) /\ boot'[b].pc # "insert"
      BY <1>8, <1>10, <2>1, <2>2 DEF FindSeeded, Ends, x
    <3>2. ~Begins(x)
      <4>1. Begins(x) => x \in ToSet(begun')
        BY <1>2, OrderMoves DEF InTime
      <4>2. x \notin ToSet(begun')
        <5>1. begun \in Seq(Transactions) /\ IsInjective(begun)
          BY DEF Typed, TablesTyped, InTime, RowsInTime
        <5> QED
          BY <3>1, <5>1, WithoutKeeps DEF Ends, Ending
      <4> QED
        BY <4>1, <4>2
    <3> QED
      BY <1>6, <3>1, <3>2
  <2>3. CASE ~(old /\ last)
    <3>1. boot' = [boot EXCEPT ![b] = new]
      BY <1>10, <2>3 DEF FindSeeded, x
    <3>2. new.pc \in BootOpen /\ new.knew = knew
      BY <1>1 DEF BootOpen, BootType
    <3> HIDE DEF new
    <3>3. boot'[b].pc \in BootOpen /\ boot'[b].knew = knew
      BY <1>1, <3>1, <3>2
    <3>4. CASE open
      <4>1. begun' = begun
        BY <1>10, <2>3, <3>4 DEF FindSeeded, x
      <4> QED
        BY <1>7, <2>1, <3>3, <3>4, <4>1
    <3>5. CASE ~open
      <4>1. Begins(x)
        BY <1>10, <2>1, <2>3, <3>5 DEF FindSeeded, Begins, x
      <4> QED
        BY <1>6, <3>3, <4>1
    <3> QED
      BY <3>4, <3>5
  <2> QED
    BY <2>2, <2>3
<1>11. CASE InsertSeeded(b)
  <2>1. InsertRow(x, Survey(b), boot[b].knew) /\ boot[b].pc = "insert"
    BY <1>11 DEF InsertSeeded, BootAt, x
  <2>2. Survey(b) \in Samples
    BY <1>1, OrderTyped DEF Survey, BootType
  <2>3. Commits(x) /\ ~Begins(x)
    BY <1>3, <2>1, <2>2, InsertCommits DEF Begins
  <2>4. boot'[b].pc # "insert"
    BY <1>8, <1>11 DEF InsertSeeded
  <2> QED
    BY <1>6, <2>3, <2>4
<1>12. CASE StartBoot(b) \/ CountCompleted(b)
  <2>1. begun' = begun /\ Ids' = Ids /\ boot[b].pc \notin BootOpen
    BY <1>12 DEF StartBoot, CountCompleted, Ids, BootAt, BootOpen
  <2>2. PICK pc \in {"seed", "count", "pick", "done"}, whole \in BOOLEAN :
            boot' = [boot EXCEPT ![b] = BootRecord(pc, whole)]
    BY <1>1, <1>12 DEF StartBoot, CountCompleted, BootType
  <2> QED
    BY <1>7, <1>9, <2>1, <2>2
<1>13. CASE CountRows(b) \/ Clear(b) \/ Fill(b)
  <2>1. begun' = begun /\ Ids' = Ids /\ boot[b].pc \notin BootOpen
    BY <1>13 DEF CountRows, Clear, Fill, Ids, BootAt, BootOpen
  <2>2. PICK pc \in {"gate", "fill", "finish"} :
            \/ boot' = [boot EXCEPT ![b].pc = pc, ![b].knew = Len(rows)]
            \/ boot' = [boot EXCEPT ![b].pc = pc]
    BY <1>13 DEF CountRows, Clear, Fill, BootGoto
  <2>3. boot'[b].pc # "insert"
    BY <1>1, <2>2 DEF BootType
  <2> QED
    BY <1>7, <2>1, <2>3
<1>14. CASE Pick(b)
  <2>1. begun' = begun /\ Ids' = Ids /\ boot[b].pc \notin BootOpen
    BY <1>14 DEF Pick, Ids, BootAt, BootOpen
  <2>2. boot'[b].pc # "insert"
    <3>1. \/ NextSample(b, "pick", "done")
          \/ \E row, seen :
                boot' = [boot EXCEPT ![b].pc = "clear", ![b].row = row, ![b].seen = seen]
      BY <1>14 DEF Pick
    <3>2. ASSUME NEW row, NEW seen,
                 boot' = [boot EXCEPT ![b].pc = "clear", ![b].row = row, ![b].seen = seen]
          PROVE  boot'[b].pc # "insert"
      BY <1>1, <3>2 DEF BootType
    <3> QED
      BY <1>8, <3>1, <3>2
  <2> QED
    BY <1>7, <2>1, <2>2
<1>15. CASE FinishReport(b)
  <2>1. begun' = begun /\ boot[b].pc \notin BootOpen
    BY <1>15 DEF FinishReport, BootAt, BootOpen
  <2>2. Ids' = Ids
    BY <1>15, FinishRows DEF Ids
  <2>3. boot'[b].pc # "insert"
    BY <1>8, <1>15 DEF FinishReport
  <2> QED
    BY <1>7, <2>1, <2>2, <2>3
<1>16. CASE BootFails(b)
  <2>1. Ends(x)
    BY <1>16 DEF BootFails, Ends, Ids, x
  <2>2. boot'[b].pc # "insert"
    <3>1. PICK pc \in {"off", "count"} : boot' = [boot EXCEPT ![b] = BootRecord(pc, FALSE)]
      BY <1>16 DEF BootFails
    <3> QED
      BY <1>9, <3>1
  <2>3. ~Begins(x)
    <3>1. Begins(x) => x \in ToSet(begun')
      BY <1>2, OrderMoves DEF InTime
    <3>2. begun \in Seq(Transactions) /\ IsInjective(begun)
      BY DEF Typed, TablesTyped, InTime, RowsInTime
    <3> QED
      BY <2>1, <3>1, <3>2, WithoutKeeps DEF Ends, Ending
  <2> QED
    BY <1>6, <2>1, <2>2, <2>3
<1> QED
  BY <1>10, <1>11, <1>12, <1>13, <1>14, <1>15, <1>16 DEF Bootstrap

LEMMA InTimeStep == Typed /\ InTime /\ [Next]_vars => InTime'
<1> SUFFICES ASSUME Typed, InTime, [Next]_vars PROVE InTime'
  OBVIOUS
<1>1. CASE UNCHANGED vars
  BY <1>1, TxStays DEF vars, Ids
<1>2. ASSUME NEW r \in Ids, Work(r) PROVE InTime'
  <2>1. UNCHANGED <<begun, click, boot>>
    BY <1>2 DEF Work, WorkerLoads, WorkerAdvances, WorkerFails, WorkerDrops
  <2>2. Ids' = Ids
    BY <1>2, WorkRows DEF Ids
  <2> QED
    BY <2>1, <2>2, TxStays
<1> QED
  BY <1>1, <1>2, ClickInTimeStep, BootInTimeStep DEF Next

LEMMA InTimeInit == Init => InTime
<1> SUFFICES ASSUME Init PROVE InTime
  OBVIOUS
<1>1. begun = <<>> /\ Ids = {} /\ ToSet(begun) = {}
  BY DEF Init, Ids, ToSet
<1>2. RowsInTime
  BY <1>1 DEF RowsInTime, IsInjective
<1>3. \A x, k : Late(begun, x, k)
  BY <1>1 DEF Late
<1>4. \A c \in Clicks : click[c].pc = "new"
  BY DEF Init, NewRequest
<1>5. \A b \in Boots : boot[b].pc = "new"
  BY DEF Init, BootRecord
<1> QED
  BY <1>1, <1>2, <1>3, <1>4, <1>5 DEF InTime, ClickInTime, BootInTime, ClickOpen

\* The row a precompute picks changes only by a row that began earlier, and that
\* the oldest so far is then unknown to.
LEMMA OldestMoves ==
    ASSUME Typed, InTime, NEW x \in ToSet(begun), \A n \in Nat : x # <<"row", n>>,
           NEW s \in Samples, NEW knew \in Nat, Late(begun, x, knew), InsertRow(x, s, knew),
           NEW t, Of(t) # {}, Oldest(t)' # Oldest(t)
    PROVE  rows'[Oldest(t)'].blind
<1> DEFINE n == Len(rows) + 1
           at == {i \in DOMAIN begun : \E r \in Of(t) : begun[i] = <<"row", r>>}
           next == {i \in DOMAIN begun' : \E r \in Of(t)' : begun'[i] = <<"row", r>>}
<1>1. begun \in Seq(Transactions) /\ Ids = 1 .. Len(rows) /\ Len(rows) \in Nat
  BY RowIds DEF Typed, TablesTyped
<1>2. Commits(x)
  BY InsertCommits
<1>3. /\ begun' \in Seq(Transactions) /\ DOMAIN begun' = DOMAIN begun
      /\ \A i \in DOMAIN begun : begun'[i] = IF begun[i] = x THEN <<"row", n>> ELSE begun[i]
      /\ DOMAIN begun = 1 .. Len(begun) /\ Len(begun') = Len(begun)
  <2>1. begun' \in Seq(Transactions)
    BY InsertTyped DEF Typed, TablesTyped
  <2> QED
    BY <1>1, <1>2, <2>1 DEF Commits, Placed
<1>4. /\ Ids' = Ids \cup {n} /\ n \notin Ids /\ n \in Nat
      /\ \A r \in Ids : rows'[r] = rows[r]
      /\ rows'[n].survey = s /\ rows'[n].blind = (\E a \in Of(s) : a > knew)
  <2>1. /\ \A r \in Ids : rows'[r] = rows[r]
        /\ rows'[n].survey = s /\ rows'[n].blind = (\E a \in Of(s) : a > knew)
    BY InsertTyped DEF Typed
  <2>2. Ids' = Ids \cup {n} /\ n \notin Ids /\ n \in Nat
    BY <1>1, <1>2 DEF Commits
  <2> QED
    BY <2>1, <2>2
<1> HIDE DEF n
<1>5. Of(t)' = IF s = t THEN Of(t) \cup {n} ELSE Of(t)
  BY <1>4 DEF Of
<1>6. at # {} /\ next # {}
  <2>1. PICK a \in Of(t) : TRUE
    OBVIOUS
  <2>2. <<"row", a>> \in ToSet(begun)
    BY <1>1, <2>1 DEF InTime, RowsInTime, Of
  <2>3. PICK i \in DOMAIN begun : begun[i] = <<"row", a>>
    BY <2>2 DEF ToSet
  <2>4. a \in Nat
    BY <1>1, <2>1 DEF Of
  <2>5. begun'[i] = <<"row", a>> /\ a \in Of(t)' /\ i \in DOMAIN begun'
    BY <1>3, <1>5, <2>3, <2>4
  <2> QED
    BY <2>3, <2>5
<1>7. PICK m \in 1 .. Len(begun), a \in Of(t) :
          /\ begun[m] = <<"row", a>> /\ Oldest(t) = a
          /\ \A i \in 1 .. Len(begun), r \in Of(t) : begun[i] = <<"row", r>> => m <= i
  <2> HIDE DEF at
  <2>1. PICK m \in 1 .. Len(begun), a \in Of(t) :
            /\ begun[m] = <<"row", a>> /\ begun[Min(at)][2] = a
            /\ \A i \in 1 .. Len(begun), r \in Of(t) : begun[i] = <<"row", r>> => m <= i
    <3> DEFINE T == Of(t)
    <3>1. at = Places(begun, T)
      BY DEF at, Places
    <3> HIDE DEF T
    <3>2. begun \in Seq(Transactions) /\ Places(begun, T) # {}
      BY <1>1, <1>6, <3>1
    <3>3. \E m \in 1 .. Len(begun), a \in T :
            /\ begun[m] = <<"row", a>> /\ begun[Min(Places(begun, T))][2] = a
            /\ \A i \in 1 .. Len(begun), r \in T : begun[i] = <<"row", r>> => m <= i
      BY ONLY <3>2, FirstOf
    <3> QED
      BY <3>1, <3>3 DEF T
  <2>2. Oldest(t) = begun[Min(at)][2]
    BY <1>6 DEF Oldest, at
  <2> QED
    BY <2>1, <2>2
<1>8. PICK p \in 1 .. Len(begun), z \in Of(t)' :
          /\ begun'[p] = <<"row", z>> /\ Oldest(t)' = z
          /\ \A i \in 1 .. Len(begun), r \in Of(t)' : begun'[i] = <<"row", r>> => p <= i
  <2> HIDE DEF next
  <2>1. PICK p \in 1 .. Len(begun'), z \in Of(t)' :
            /\ begun'[p] = <<"row", z>> /\ begun'[Min(next)][2] = z
            /\ \A i \in 1 .. Len(begun'), r \in Of(t)' : begun'[i] = <<"row", r>> => p <= i
    <3> DEFINE list == begun'
               T == Of(t)'
    <3>1. next = Places(list, T) /\ list \in Seq(Transactions)
      BY <1>3 DEF next, Places
    <3> HIDE DEF list, T
    <3>2. list \in Seq(Transactions) /\ Places(list, T) # {}
      BY <1>6, <3>1
    <3>3. \E p \in 1 .. Len(list), z \in T :
            /\ list[p] = <<"row", z>> /\ list[Min(Places(list, T))][2] = z
            /\ \A i \in 1 .. Len(list), r \in T : list[i] = <<"row", r>> => p <= i
      BY ONLY <3>2, FirstOf
    <3> QED
      BY <3>1, <3>3 DEF list, T
  <2>2. Oldest(t)' = begun'[Min(next)][2]
    BY <1>6 DEF Oldest, next
  <2> QED
    BY <1>3, <2>1, <2>2
<1>9. /\ begun'[m] = <<"row", a>> /\ a \in Of(t)' /\ a \in Ids /\ a \in Nat
  <2>1. a \in Of(t)' /\ a \in Ids /\ a \in Nat
    BY <1>1, <1>5, <1>7 DEF Of
  <2>2. begun[m] # x
    BY <1>7, <2>1
  <2> QED
    BY <1>3, <1>7, <2>1, <2>2
<1>10. z = n
  <2> SUFFICES ASSUME z # n PROVE FALSE
    OBVIOUS
  <2>1. z \in Of(t) /\ begun[p] = <<"row", z>>
    <3>1. z \in Of(t)
      BY <1>5, <1>8
    <3>2. begun[p] # x
      BY <1>3, <1>8
    <3> QED
      BY <1>3, <1>8, <3>1, <3>2
  <2>2. m <= p
    BY <1>7, <2>1
  <2>3. p <= m
    BY <1>8, <1>9
  <2>4. m = p
    BY <2>2, <2>3
  <2> QED
    BY <1>7, <1>8, <2>1, <2>4
<1>11. s = t
  BY <1>4, <1>5, <1>8, <1>10 DEF Of
<1>12. begun[p] = x
  <2> SUFFICES ASSUME begun[p] # x PROVE FALSE
    OBVIOUS
  <2>1. begun[p] = <<"row", n>>
    BY <1>3, <1>8, <1>10
  <2>2. <<"row", n>> \in ToSet(begun)
    BY <1>3, <2>1 DEF ToSet
  <2> QED
    BY <1>4, <2>2 DEF InTime, RowsInTime
<1>13. p < m
  <2>1. p <= m
    BY <1>7, <1>8, <1>9
  <2>2. p # m
    BY <1>7, <1>9, <1>12
  <2> QED
    BY <2>1, <2>2
<1>14. a > knew
  BY <1>7, <1>9, <1>12, <1>13 DEF Late
<1> QED
  BY <1>4, <1>7, <1>8, <1>10, <1>11, <1>14

\* The row the container starts compute the report for stays the same, save when a
\* transaction that overlapped its own commits a row that began before it.
THEOREM CanonicalMovesOnlyByOverlap == Spec => CanonicalMovesByOverlap
<1>1. Init => Typed /\ InTime
  BY TypedInit, InTimeInit
<1>2. Typed /\ InTime /\ [Next]_vars => (Typed /\ InTime)'
  BY TypedStep, InTimeStep
<1>3. Typed /\ InTime /\ [Next]_vars =>
        [Len(rows') > Len(rows) =>
            \A s \in Samples :
                Of(s) # {} /\ Oldest(s)' # Oldest(s) => rows'[Oldest(s)'].blind]_vars
  <2> SUFFICES ASSUME Typed, InTime, [Next]_vars, Len(rows') > Len(rows),
                      NEW t \in Samples, Of(t) # {}, Oldest(t)' # Oldest(t)
               PROVE  rows'[Oldest(t)'].blind
    OBVIOUS
  <2>1. Len(rows') \in Nat /\ Len(rows) \in Nat /\ Ids' = 1 .. Len(rows') /\ Ids = 1 .. Len(rows)
    BY TypedStep DEF Typed, TablesTyped, Ids
  <2>2. PICK n \in Ids' : n \notin Ids
    BY <2>1
  <2>3. CASE \E c \in Clicks : InsertClicked(c)
    <3>1. PICK c \in Clicks : InsertClicked(c)
      BY <2>3
    <3>2. /\ InsertRow(ClickTx(c), Clicked[c], click[c].knew) /\ Clicked[c] \in Samples
          /\ click[c].pc \in ClickOpen
      BY <3>1, OrderTyped DEF InsertClicked, ClickAt, ClickOpen
    <3>3. click[c].knew \in Nat
      BY <2>1 DEF Typed, ClicksTyped
    <3>4. ClickTx(c) \in ToSet(begun) /\ Late(begun, ClickTx(c), click[c].knew)
      BY <3>2 DEF InTime, ClickInTime
    <3>5. \A k \in Nat : ClickTx(c) # <<"row", k>>
      BY Distinct
    <3> QED
      BY <3>2, <3>3, <3>4, <3>5, OldestMoves
  <2>4. CASE \E b \in Boots : InsertSeeded(b)
    <3>1. PICK b \in Boots : InsertSeeded(b)
      BY <2>4
    <3>2. InsertRow(BootTx(b), Survey(b), boot[b].knew) /\ boot[b].pc = "insert"
      BY <3>1 DEF InsertSeeded, BootAt
    <3>3. boot[b].knew \in Nat /\ boot[b].i \in 1 .. Len(SampleOrder)
      BY DEF Typed, BootsTyped, BootType
    <3>4. Survey(b) \in Samples
      BY <3>3, OrderTyped DEF Survey
    <3>5. BootTx(b) \in ToSet(begun) /\ Late(begun, BootTx(b), boot[b].knew)
      BY <3>2 DEF InTime, BootInTime
    <3>6. \A k \in Nat : BootTx(b) # <<"row", k>>
      BY Distinct
    <3> QED
      BY <3>2, <3>3, <3>4, <3>5, <3>6, OldestMoves
  <2> QED
    BY <2>2, <2>3, <2>4, WhoAdds
<1> QED
  BY <1>1, <1>2, <1>3, PTL DEF Spec, CanonicalMovesByOverlap

\* Lists and tables hold rows, each at one place.
ListsTyped ==
    /\ finished \in Seq(Nat) /\ IsInjective(finished)
    /\ ToSet(finished) \cup reports \cup responses \cup torn \cup revived \subseteq Ids

\* What requests and bootstraps have found are rows.
RowsFound ==
    /\ \A c \in Clicks : click[c].row \in 0 .. Len(rows)
    /\ \A b \in Boots : boot[b].row \in 0 .. Len(rows)

LEMMA RowsStay ==
    ASSUME Typed, [Next]_vars
    PROVE  /\ Ids \subseteq Ids' /\ Len(rows) \in Nat /\ Len(rows') \in Nat
           /\ Ids = 1 .. Len(rows) /\ Ids' = 1 .. Len(rows') /\ Len(rows) <= Len(rows')
<1>1. /\ Len(rows) \in Nat /\ Len(rows') \in Nat
      /\ Ids = 1 .. Len(rows) /\ Ids' = 1 .. Len(rows')
  BY TypedStep DEF Typed, TablesTyped, Ids
<1>2. Ids \subseteq Ids'
  BY KeptStep DEF Kept
<1>3. Len(rows) <= Len(rows')
  <2>1. Len(rows) # 0 => Len(rows) \in 1 .. Len(rows')
    BY <1>1, <1>2
  <2> QED
    BY <1>1, <2>1
<1> QED
  BY <1>1, <1>2, <1>3

LEMMA ListsStep == Typed /\ ListsTyped /\ [Next]_vars => ListsTyped'
<1> SUFFICES ASSUME Typed, ListsTyped, [Next]_vars PROVE ListsTyped'
  OBVIOUS
<1>1. Ids \subseteq Ids' /\ Ids \subseteq Nat
  BY RowsStay
<1>2. ASSUME UNCHANGED finished,
             reports' \cup responses' \cup torn' \cup revived' \subseteq Ids
      PROVE  ListsTyped'
  BY <1>1, <1>2 DEF ListsTyped
<1>3. ASSUME NEW r \in Ids,
             finished' = Without(finished, r) \/ Completing(r),
             reports' \cup responses' \cup torn' \cup revived' \subseteq Ids
      PROVE  ListsTyped'
  <2>1. /\ Without(finished, r) \in Seq(Nat) /\ IsInjective(Without(finished, r))
        /\ ToSet(Without(finished, r)) = ToSet(finished) \ {r}
    BY WithoutAt, WithoutKeeps DEF ListsTyped
  <2>2. CASE finished' = Without(finished, r)
    BY <1>1, <1>3, <2>1, <2>2 DEF ListsTyped
  <2>3. CASE Completing(r)
    <3>1. /\ finished' \in Seq(Nat) /\ IsInjective(finished')
          /\ ToSet(finished') = ToSet(finished) \cup {r}
      BY <1>1, <2>1, <2>3, AppendOnce DEF Completing
    <3> QED
      BY <1>1, <1>3, <3>1 DEF ListsTyped
  <2> QED
    BY <1>3, <2>2, <2>3
<1>4. CASE UNCHANGED vars
  BY <1>2, <1>4 DEF vars, ListsTyped
<1>5. ASSUME NEW c \in Clicks, RunSample(c) PROVE ListsTyped'
  <2>1. UNCHANGED <<finished, reports, responses, torn, revived>>
    BY <1>5 DEF RunSample, FindCompleted, FindReport, FindInFlight, InsertClicked, EnqueueClicked
  <2> QED
    BY <1>2, <2>1 DEF ListsTyped
<1>6. ASSUME NEW r \in Ids, Work(r) PROVE ListsTyped'
  <2>1. UNCHANGED <<reports, responses, torn>>
    BY <1>6 DEF Work, WorkerLoads, WorkerAdvances, WorkerFails, WorkerDrops
  <2>2. CASE WorkerFails(r)
    BY <1>3, <2>1, <2>2 DEF WorkerFails, ListsTyped
  <2>3. CASE ~WorkerFails(r)
    <3>1. finished' = finished /\ revived' \subseteq revived \cup {r}
      BY <1>6, <2>3 DEF Work, WorkerLoads, WorkerAdvances, WorkerDrops
    <3> QED
      BY <1>2, <2>1, <3>1 DEF ListsTyped
  <2> QED
    BY <2>2, <2>3
<1>7. ASSUME NEW b \in Boots, Bootstrap(b) PROVE ListsTyped'
  <2>1. CASE Quiet(b)
    <3>1. UNCHANGED <<finished, reports, responses, torn, revived>>
      BY <2>1 DEF Quiet, StartBoot, FindSeeded, InsertSeeded, CountRows, CountCompleted, Pick
    <3> QED
      BY <1>2, <3>1 DEF ListsTyped
  <2>2. boot[b].pc \in {"clear", "fill", "finish"} => boot[b].row \in Ids
    BY DEF Typed, BootsTyped
  <2>3. CASE Clear(b) \/ Fill(b)
    <3>1. /\ finished' = finished /\ revived' = revived /\ boot[b].row \in Ids
          /\ reports' \subseteq reports /\ torn' \subseteq torn
          /\ responses' \subseteq responses \cup {boot[b].row}
      BY <2>2, <2>3 DEF Clear, Fill, BootAt
    <3> QED
      BY <1>2, <3>1 DEF ListsTyped
  <2>4. CASE FinishReport(b)
    <3>1. /\ Completing(boot[b].row) /\ boot[b].row \in Ids
          /\ reports' = reports \cup {boot[b].row} /\ responses' = responses
          /\ torn' \subseteq torn /\ revived' \subseteq revived
      BY <2>2, <2>4 DEF FinishReport, Reported, BootAt
    <3> QED
      BY <1>3, <3>1 DEF ListsTyped
  <2>5. CASE BootFails(b)
    <3>1. /\ UNCHANGED <<finished, reports, responses, revived>>
          /\ torn' = IF boot[b].pc \in {"fill", "finish"} THEN torn \cup {boot[b].row} ELSE torn
      BY <2>5 DEF BootFails
    <3> QED
      BY <1>2, <2>2, <3>1 DEF ListsTyped
  <2> QED
    BY <1>7, <2>1, <2>3, <2>4, <2>5 DEF Bootstrap, Quiet
<1> QED
  BY <1>4, <1>5, <1>6, <1>7 DEF Next

\* Among finitely many positions there is a last one.
LEMMA LatestTyped ==
    ASSUME finished \in Seq(Nat), NEW s, LatestCompleted(s) # 0
    PROVE  LatestCompleted(s) \in Of(s)
<1> DEFINE at == {i \in DOMAIN finished : \E r \in Of(s) :
                     finished[i] = r /\ rows[r].status = "completed"}
           back == {Len(finished) - i : i \in at}
<1>1. at # {} /\ LatestCompleted(s) = finished[Max(at)]
  BY DEF LatestCompleted
<1>2. at \subseteq 1 .. Len(finished) /\ Len(finished) \in Nat
  OBVIOUS
<1>3. Max(at) \in at
  <2> HIDE DEF at
  <2>1. back \in SUBSET Nat /\ back # {}
    <3>1. PICK i \in at : TRUE
      BY <1>1
    <3>2. \A j \in at : Len(finished) - j \in Nat
      BY <1>2
    <3> QED
      BY <3>1, <3>2
  <2>2. PICK x \in back : \A y \in back : x <= y
    BY <2>1, Smallest
  <2>3. PICK i \in at : x = Len(finished) - i
    BY <2>2
  <2>4. \A j \in at : i >= j
    <3> SUFFICES ASSUME NEW j \in at PROVE i >= j
      OBVIOUS
    <3>1. Len(finished) - j \in back
      OBVIOUS
    <3>2. x <= Len(finished) - j
      BY <2>2, <3>1
    <3> QED
      BY <1>2, <2>3, <3>2
  <2> HIDE DEF back
  <2> QED
    BY <2>4 DEF Max
<1> QED
  BY <1>1, <1>3

LEMMA FoundStep == Typed /\ ListsTyped /\ RowsFound /\ [Next]_vars => RowsFound'
<1> SUFFICES ASSUME Typed, ListsTyped, RowsFound, [Next]_vars PROVE RowsFound'
  OBVIOUS
<1>1. /\ Len(rows) \in Nat /\ Len(rows') \in Nat /\ Len(rows) <= Len(rows')
      /\ Ids = 1 .. Len(rows) /\ Ids' = 1 .. Len(rows')
  BY RowsStay
<1>2. \A n \in 0 .. Len(rows) : n \in 0 .. Len(rows')
  BY <1>1
<1>3. Typed' /\ DOMAIN click = Clicks /\ boot \in [Boots -> BootType]
  BY TypedStep DEF Typed, ClicksTyped, BootsTyped
<1>4. ASSUME click' = click, boot' = boot PROVE RowsFound'
  BY <1>2, <1>4 DEF RowsFound
<1>5. ASSUME NEW c \in Clicks, RunSample(c) PROVE RowsFound'
  <2>1. boot' = boot
    BY <1>5, ClickRows
  <2>2. ASSUME NEW new, click' = [click EXCEPT ![c] = new], new.row \in 0 .. Len(rows')
        PROVE  RowsFound'
    BY <1>2, <1>3, <2>1, <2>2 DEF RowsFound
  <2>3. Over.row = 0
    BY DEF Over, NewRequest
  <2>4. CASE FindCompleted(c)
    <3> DEFINE row == LatestCompleted(Clicked[c])
    <3>1. row \in 0 .. Len(rows)
      <4>1. row # 0 => row \in Ids
        BY LatestTyped DEF ListsTyped, Of
      <4> HIDE DEF row
      <4> QED
        BY <1>1, <4>1
    <3> HIDE DEF row
    <3>2. PICK pc : click' = [click EXCEPT ![c] = [pc |-> pc, row |-> row, knew |-> Len(rows)]]
      BY <2>4 DEF FindCompleted, row
    <3> QED
      BY <1>2, <2>2, <3>1, <3>2
  <2>5. CASE FindReport(c)
    <3> DEFINE new == [click[c] EXCEPT !.pc = "flight", !.row = 0]
    <3>1. click' = [click EXCEPT ![c] = Over] \/ click' = [click EXCEPT ![c] = new]
      BY <2>5 DEF FindReport, Answered
    <3>2. new.row = 0
      <4>1. click[c] = [pc |-> click[c].pc, row |-> click[c].row, knew |-> click[c].knew]
        BY DEF Typed, ClicksTyped
      <4> QED
        BY <4>1
    <3> HIDE DEF new
    <3> QED
      BY <1>1, <2>2, <2>3, <3>1, <3>2
  <2>6. CASE FindInFlight(c)
    <3> DEFINE new == [click[c] EXCEPT !.pc = "insert"]
    <3>1. click' = [click EXCEPT ![c] = Over] \/ click' = [click EXCEPT ![c] = new]
      BY <2>6 DEF FindInFlight, Answered
    <3>2. new.row = click[c].row
      <4>1. click[c] = [pc |-> click[c].pc, row |-> click[c].row, knew |-> click[c].knew]
        BY DEF Typed, ClicksTyped
      <4> QED
        BY <4>1
    <3>3. new.row \in 0 .. Len(rows')
      BY <1>2, <3>2 DEF RowsFound
    <3> HIDE DEF new
    <3> QED
      BY <1>1, <2>2, <2>3, <3>1, <3>3
  <2>7. CASE InsertClicked(c)
    <3> DEFINE new == [pc |-> "enqueue", row |-> Len(rows) + 1, knew |-> 0]
    <3>1. InsertRow(ClickTx(c), Clicked[c], click[c].knew) /\ click' = [click EXCEPT ![c] = new]
      BY <2>7 DEF InsertClicked
    <3>2. Len(rows') = Len(rows) + 1
      BY <3>1, InsertTyped, OrderTyped DEF Typed
    <3>3. new.row \in 0 .. Len(rows')
      BY <1>1, <3>2
    <3> HIDE DEF new
    <3> QED
      BY <2>2, <3>1, <3>3
  <2>8. CASE EnqueueClicked(c)
    <3>1. click' = [click EXCEPT ![c] = Over] /\ Over.row \in 0 .. Len(rows')
      BY <1>1, <2>3, <2>8 DEF EnqueueClicked
    <3> QED
      BY <2>2, <3>1
  <2> QED
    BY <1>5, <2>4, <2>5, <2>6, <2>7, <2>8 DEF RunSample
<1>6. ASSUME NEW b \in Boots, Bootstrap(b) PROVE RowsFound'
  <2>1. click' = click
    BY <1>6 DEF Bootstrap, StartBoot, FindSeeded, InsertSeeded, CountRows, CountCompleted, Pick,
                Clear, Fill, FinishReport, BootFails
  <2>2. \A d \in Boots \ {b} : boot'[d] = boot[d]
    BY <1>6, BootKeepsOthers
  <2>3. ASSUME boot'[b].row \in 0 .. Len(rows) PROVE RowsFound'
    BY <1>2, <2>1, <2>2, <2>3 DEF RowsFound
  <2>4. /\ boot[b] \in BootType /\ boot[b].row \in 0 .. Len(rows)
    BY <1>3 DEF RowsFound
  <2>5. ASSUME NEW pc, NEW whole, boot' = [boot EXCEPT ![b] = BootRecord(pc, whole)]
        PROVE  RowsFound'
    <3>1. BootRecord(pc, whole).row = 0
      BY DEF BootRecord
    <3> QED
      BY <1>1, <1>3, <2>3, <2>5, <3>1
  <2>6. ASSUME NEW p, NEW after, NextSample(b, p, after) PROVE RowsFound'
    <3> DEFINE last == boot[b].i = Len(SampleOrder)
               fresh == BootRecord(IF last THEN after ELSE p, boot[b].whole)
               next == [fresh EXCEPT !.i = IF last THEN 1 ELSE boot[b].i + 1]
    <3>1. next.row = 0
      BY DEF BootRecord
    <3>2. boot' = [boot EXCEPT ![b] = next]
      BY <2>6 DEF NextSample
    <3> HIDE DEF next
    <3> QED
      BY <1>1, <1>3, <2>3, <3>1, <3>2
  <2>7. CASE StartBoot(b) \/ CountCompleted(b) \/ BootFails(b)
    BY <2>5, <2>7 DEF StartBoot, CountCompleted, BootFails
  <2>8. CASE InsertSeeded(b) \/ FinishReport(b)
    BY <2>6, <2>8 DEF InsertSeeded, FinishReport
  <2>9. CASE CountRows(b) \/ Clear(b) \/ Fill(b)
    <3>1. PICK pc, knew :
              \/ boot' = [boot EXCEPT ![b].pc = pc, ![b].knew = knew]
              \/ boot' = [boot EXCEPT ![b].pc = pc]
      BY <2>9 DEF CountRows, Clear, Fill, BootGoto
    <3>2. boot'[b].row = boot[b].row
      BY <1>3, <2>4, <3>1 DEF BootType
    <3> QED
      BY <2>3, <2>4, <3>2
  <2>10. CASE FindSeeded(b)
    <3>1. \/ NextSample(b, "seed", "count")
          \/ \E pc, i, knew : boot' = [boot EXCEPT ![b] = [@ EXCEPT !.pc = pc, !.i = i, !.knew = knew]]
      <4>1. CASE NextSample(b, "seed", "count")
        BY <4>1
      <4>2. CASE ~NextSample(b, "seed", "count")
        <5> DEFINE old == Of(Survey(b)) # {}
                   knew == IF BootTx(b) \in ToSet(begun) THEN boot[b].knew ELSE Len(rows)
        <5>1. boot' = [boot EXCEPT ![b].pc = IF old THEN "seed" ELSE "insert",
                                   ![b].i = IF old THEN @ + 1 ELSE @, ![b].knew = knew]
          BY <2>10, <4>2 DEF FindSeeded
        <5>2. boot' = [boot EXCEPT ![b] = [boot[b] EXCEPT !.pc = IF old THEN "seed" ELSE "insert",
                                              !.i = IF old THEN boot[b].i + 1 ELSE boot[b].i,
                                              !.knew = knew]]
          BY <5>1
        <5> QED
          BY <5>2
      <4> QED
        BY <4>1, <4>2
    <3>2. ASSUME NEW pc, NEW i, NEW knew,
                 boot' = [boot EXCEPT ![b] = [@ EXCEPT !.pc = pc, !.i = i, !.knew = knew]]
          PROVE  RowsFound'
      <4>1. boot'[b].row = boot[b].row
        BY <1>3, <2>4, <3>2 DEF BootType
      <4> QED
        BY <2>3, <2>4, <4>1
    <3> QED
      BY <2>6, <3>1, <3>2
  <2>11. CASE Pick(b)
    <3> DEFINE row == Oldest(Survey(b))
    <3>1. row # 0 => row \in Ids
      BY OldestTyped DEF Typed, TablesTyped, Of
    <3>2. CASE row = 0
      BY <2>6, <2>11, <3>2 DEF Pick
    <3>3. CASE row # 0
      <4>1. PICK seen : boot' = [boot EXCEPT ![b].pc = "clear", ![b].row = row, ![b].seen = seen]
        BY <2>11, <3>3 DEF Pick
      <4> HIDE DEF row
      <4>2. boot'[b].row = row
        BY <1>3, <2>4, <4>1 DEF BootType
      <4> QED
        BY <1>1, <2>3, <3>1, <3>3, <4>2
    <3> QED
      BY <3>2, <3>3
  <2> QED
    BY <1>6, <2>7, <2>8, <2>9, <2>10, <2>11 DEF Bootstrap
<1>7. ASSUME NEW r \in Ids, Work(r) PROVE RowsFound'
  <2>1. click' = click /\ boot' = boot
    BY <1>7 DEF Work, WorkerLoads, WorkerAdvances, WorkerFails, WorkerDrops
  <2> QED
    BY <1>4, <2>1
<1> QED
  BY <1>4, <1>5, <1>6, <1>7 DEF Next, vars

\* Every row and every open transaction has one place in the order of their
\* beginnings, what tables and lists name are rows, and so are the finds of requests
\* and bootstraps.
THEOREM SamplesTyping == Spec => []TypeOK
<1> DEFINE Inv == Typed /\ InTime /\ ListsTyped /\ RowsFound
<1>1. Init => Inv
  <2> SUFFICES ASSUME Init PROVE ListsTyped /\ RowsFound
    BY TypedInit, InTimeInit
  <2>1. ListsTyped
    BY DEF Init, ListsTyped, IsInjective, ToSet
  <2>2. RowsFound
    BY DEF Init, RowsFound, NewRequest, BootRecord
  <2> QED
    BY <2>1, <2>2
<1>2. Inv /\ [Next]_vars => Inv'
  BY TypedStep, InTimeStep, ListsStep, FoundStep
<1>3. Inv => TypeOK
  <2> SUFFICES ASSUME Inv PROVE TypeOK
    OBVIOUS
  <2>1. rows \in Seq([survey : Samples, status : RunStatuses, blind : BOOLEAN])
        /\ Len(driver) = Len(rows)
    BY DEF Typed, TablesTyped, JobsTyped, Row
  <2>2. ToSet(begun) \cap ({"row"} \X Nat) = {<<"row", r>> : r \in Ids}
    BY RowIds DEF InTime, RowsInTime
  <2>3. \A b \in Boots : boot[b].i \in DOMAIN SampleOrder
    BY SamplesAssumption DEF Typed, BootsTyped, BootType
  <2>4. \A c \in Clicks :
            (ClickTx(c) \in ToSet(begun)) = (click[c].pc \in {"report", "flight", "insert"})
    BY DEF InTime, ClickInTime, ClickOpen
  <2> QED
    BY <2>1, <2>2, <2>3, <2>4 DEF TypeOK, InTime, RowsInTime, ListsTyped, RowsFound
<1> QED
  BY <1>1, <1>2, <1>3, PTL DEF Spec

===============================================================================
