------------------------------ MODULE SampleRuns ------------------------------
(***************************************************************************)
(* The rows of the sample surveys in the table runs, and who writes them:  *)
(* clicks on a sample button (POST /samples/{slug}/run), the bootstrap of  *)
(* every container start (seed the samples, precompute their reports), and *)
(* the workers, on the rows that clicks have enqueued.                     *)
(*                                                                         *)
(* Rows are numbered in the order of their commits.  created_at is now(),  *)
(* the start of the transaction that inserts the row: begun holds rows and *)
(* open transactions in that order.  finished holds the rows by their      *)
(* completed_at.  Of the pipeline (RunPipeline) a row keeps the status the *)
(* worker has read and the status it writes.                               *)
(***************************************************************************)
EXTENDS Naturals, Sequences, SequencesExt, RunStatus

CONSTANTS
    SampleOrder,    \* the survey ids, in the order of load_sample_files
    Clicks, Boots,  \* the requests and the container starts; they bound the rows
    Clicked         \* Clicked[c]: the sample request c asks for

ASSUME SamplesAssumption ==
    /\ SampleOrder \in Seq(ToSet(SampleOrder))
    /\ SampleOrder # <<>> /\ IsInjective(SampleOrder)
    /\ Clicked \in [Clicks -> ToSet(SampleOrder)]

Samples == ToSet(SampleOrder)

VARIABLES
    rows,       \* rows[r]: survey, status, and blind: a row of that survey was committed
                \* while the transaction that inserted r was open
    begun,      \* rows and open transactions by the time they began
    finished,   \* completed rows by completed_at, the latest last
    reports,    \* rows with a row in reports
    responses,  \* rows with synthesized rows in probe_responses
    driver,     \* driver[r]: the message of the pipeline for the row
    click,      \* click[c]: progress of run_sample
    boot,       \* boot[b]: progress of bootstrap_if_empty
    torn,       \* rows whose last precompute ended between its delete and its report
    revived     \* rows in flight again after they were completed or failed

vars == <<rows, begun, finished, reports, responses, driver, click, boot,
          torn, revived>>

Ids == DOMAIN rows
Of(s) == {r \in Ids : rows[r].survey = s}
Live(r) == rows[r].status \in ActiveStatuses

\* list without x, which is in it once at the most.
Without(list, x) ==
    IF x \in ToSet(list)
    THEN RemoveAt(list, CHOOSE i \in DOMAIN list : list[i] = x) ELSE list

\* The row of s with the latest completed_at among the completed ones; none: 0.
LatestCompleted(s) ==
    LET at == {i \in DOMAIN finished : \E r \in Of(s) :
                  finished[i] = r /\ rows[r].status = "completed"}
    IN  IF at = {} THEN 0 ELSE finished[Max(at)]

\* Mutant: ORDER BY created_at DESC.
Newest(s) ==
    LET at == {i \in DOMAIN begun : \E r \in Of(s) : begun[i] = <<"row", r>>}
    IN  IF at = {} THEN 0 ELSE begun[Max(at)][2]

\* The row of s with the earliest created_at; none: 0.
Oldest(s) ==
    LET at == {i \in DOMAIN begun : \E r \in Of(s) : begun[i] = <<"row", r>>}
    IN  IF at = {} THEN 0 ELSE begun[Min(at)][2]

Completing(r) == finished' = Append(Without(finished, r), r)

\* The transaction x is over, if it was open.
Ending(x) == begun' = Without(begun, x)

WithStatus(r, t) == rows' = [rows EXCEPT ![r].status = t]

\* row: what the request has found; knew: the rows there were when it began.
NewRequest == [pc |-> "new", row |-> 0, knew |-> 0]

Over == [NewRequest EXCEPT !.pc = "over"]

\* i: the sample at hand; row, seen: its row and the status it was loaded with;
\* knew: the rows counted; whole: no step of this bootstrap has failed.
\* It ends "done" if it is whole, "off" otherwise.
BootRecord(pc, whole) ==
    [pc |-> IF pc = "done" /\ ~whole THEN "off" ELSE pc,
     i |-> 1, row |-> 0, seen |-> "none", knew |-> 0,
     whole |-> whole \/ pc \in {"done", "off"}]

NoJob == [at |-> "none", seen |-> "none"]

Init ==
    /\ rows = <<>> /\ begun = <<>> /\ finished = <<>> /\ driver = <<>>
    /\ reports = {} /\ responses = {} /\ torn = {} /\ revived = {}
    /\ click = [c \in Clicks |-> NewRequest]
    /\ boot = [b \in Boots |-> BootRecord("new", TRUE)]

\* Commit of a new row by the transaction x, which began when there were knew rows.
InsertRow(x, s, knew) ==
    LET r == Len(rows) + 1
    IN  /\ rows' = Append(rows, [survey |-> s, status |-> "pending",
                                blind |-> \E a \in Of(s) : a > knew])
        /\ begun' = [i \in DOMAIN begun |->
                        IF begun[i] = x THEN <<"row", r>> ELSE begun[i]]
        /\ driver' = Append(driver, NoJob)

-----------------------------------------------------------------------------
(* run_sample *)

ClickTx(c) == <<"click", c>>
ClickAt(c, p) == click[c].pc = p

\* Mutant: the session of an answered request is not closed.
AnsweredOpen(c) ==
    click' = [click EXCEPT ![c] = Over] /\ UNCHANGED begun

\* The transaction of the request ends without a row.
Answered(c) ==
    click' = [click EXCEPT ![c] = Over] /\ Ending(ClickTx(c))

FindCompleted(c) ==
    LET r == LatestCompleted(Clicked[c])
    IN  /\ ClickAt(c, "new")
        /\ click' = [click EXCEPT ![c] =
                [pc |-> IF r = 0 THEN "flight" ELSE "report", row |-> r, knew |-> Len(rows)]]
        /\ begun' = Append(begun, ClickTx(c))
        /\ UNCHANGED <<rows, finished, reports, responses, driver, boot, torn, revived>>

FindReport(c) ==
    /\ ClickAt(c, "report")
    /\ IF click[c].row \in reports THEN Answered(c)
       ELSE click' = [click EXCEPT ![c].pc = "flight", ![c].row = 0] /\ UNCHANGED begun
    /\ UNCHANGED <<rows, finished, reports, responses, driver, boot, torn, revived>>

\* Mutant: a pending row does not count as in flight.
InFlightNotPending(s) == \E r \in Of(s) : Live(r) /\ rows[r].status # "pending"

InFlight(s) == \E r \in Of(s) : Live(r)

FindInFlight(c) ==
    /\ ClickAt(c, "flight")
    /\ IF InFlight(Clicked[c]) THEN Answered(c)
       ELSE click' = [click EXCEPT ![c].pc = "insert"] /\ UNCHANGED begun
    /\ UNCHANGED <<rows, finished, reports, responses, driver, boot, torn, revived>>

InsertClicked(c) ==
    /\ ClickAt(c, "insert")
    /\ InsertRow(ClickTx(c), Clicked[c], click[c].knew)
    /\ click' = [click EXCEPT ![c] = [pc |-> "enqueue", row |-> Len(rows) + 1, knew |-> 0]]
    /\ UNCHANGED <<finished, reports, responses, boot, torn, revived>>

\* gen_personas is enqueued, or Redis raises and the row is left without a job.
EnqueueClicked(c) ==
    /\ ClickAt(c, "enqueue")
    /\ \E at \in {"queued", "none"} : driver' = [driver EXCEPT ![click[c].row].at = at]
    /\ click' = [click EXCEPT ![c] = Over]
    /\ UNCHANGED <<rows, begun, finished, reports, responses, boot, torn, revived>>

-----------------------------------------------------------------------------
(* The pipeline on an enqueued row *)

WorkerLoads(r) ==
    /\ driver[r].at = "queued"
    /\ driver' = [driver EXCEPT ![r] = [at |-> "busy", seen |-> rows[r].status]]
    /\ UNCHANGED <<rows, begun, finished, reports, responses, click, boot, torn, revived>>

\* The handlers up to paraphrases_ready; no run they drive gets further.
WorkerAdvances(r) ==
    \E t \in {"personas_ready", "paraphrases_ready"} :
        /\ driver[r].at = "busy" /\ CanTransition(driver[r].seen, t)
        /\ WithStatus(r, t)
        /\ revived' = IF Live(r) THEN revived ELSE revived \cup {r}
        /\ driver' = [driver EXCEPT ![r] = [NoJob EXCEPT !.at = "queued"]]
        /\ UNCHANGED <<begun, finished, reports, responses, click, boot, torn>>

\* The job fails, then is retried or dead-lettered.
WorkerFails(r) ==
    /\ driver[r].at = "busy"
    /\ WithStatus(r, "failed") /\ finished' = Without(finished, r)
    /\ revived' = revived \ {r}
    /\ \E at \in {"queued", "none"} : driver' = [driver EXCEPT ![r] = [NoJob EXCEPT !.at = at]]
    /\ UNCHANGED <<begun, reports, responses, click, boot, torn>>

\* A probe that collected nothing, or the worker dies.
WorkerDrops(r) ==
    /\ driver[r].at = "busy"
    /\ driver' = [driver EXCEPT ![r] = NoJob]
    /\ UNCHANGED <<rows, begun, finished, reports, responses, click, boot, torn, revived>>

-----------------------------------------------------------------------------
(* bootstrap_if_empty, without its calibration *)

BootTx(b) == <<"boot", b>>
BootAt(b, p) == boot[b].pc = p
BootGoto(b, p) == boot' = [boot EXCEPT ![b].pc = p]
Survey(b) == SampleOrder[boot[b].i]

AtWork(bs) == \E b \in bs : boot[b].pc \notin {"new", "off", "done"}

\* What follows the sample at hand: the next one at p, or the step after the last.
NextSample(b, p, after) ==
    LET last == boot[b].i = Len(SampleOrder)
    IN  boot' = [boot EXCEPT ![b] = [BootRecord(IF last THEN after ELSE p, @.whole)
                                        EXCEPT !.i = IF last THEN 1 ELSE boot[b].i + 1]]

\* Container start; _samples_seeded.
StartBoot(b) ==
    /\ BootAt(b, "new")
    /\ boot' = [boot EXCEPT ![b] = BootRecord(IF Ids = {} THEN "seed" ELSE "count", TRUE)]
    /\ UNCHANGED <<rows, begun, finished, reports, responses, driver, click, torn, revived>>

\* seed_samples: a transaction stays open over the samples that need no row.
FindSeeded(b) ==
    LET tx == BootTx(b)
        open == tx \in ToSet(begun)
        knew == IF open THEN boot[b].knew ELSE Len(rows)
        old == Of(Survey(b)) # {}
        last == boot[b].i = Len(SampleOrder)
    IN  /\ BootAt(b, "seed")
        /\ IF old /\ last THEN NextSample(b, "seed", "count")
           ELSE boot' = [boot EXCEPT ![b].pc = IF old THEN "seed" ELSE "insert",
                                     ![b].i = IF old THEN @ + 1 ELSE @,
                                     ![b].knew = knew]
        /\ IF old /\ last THEN Ending(tx)
           ELSE begun' = IF open THEN begun ELSE Append(begun, tx)
        /\ UNCHANGED <<rows, finished, reports, responses, driver, click, torn, revived>>

InsertSeeded(b) ==
    /\ BootAt(b, "insert")
    /\ InsertRow(BootTx(b), Survey(b), boot[b].knew)
    /\ NextSample(b, "seed", "count")
    /\ UNCHANGED <<finished, reports, responses, click, torn, revived>>

\* _samples_completed: one query counts the rows, the next the completed ones.
CountRows(b) ==
    /\ BootAt(b, "count")
    /\ boot' = [boot EXCEPT ![b].pc = "gate", ![b].knew = Len(rows)]
    /\ UNCHANGED <<rows, begun, finished, reports, responses, driver, click, torn, revived>>

CountCompleted(b) ==
    LET completed == Len(SelectSeq(rows, LAMBDA x : x.status = "completed"))
        all == boot[b].knew > 0 /\ completed >= boot[b].knew
    IN  /\ BootAt(b, "gate")
        /\ boot' = [boot EXCEPT ![b] = BootRecord(IF all THEN "done" ELSE "pick", @.whole)]
        /\ UNCHANGED <<rows, begun, finished, reports, responses, driver, click, torn, revived>>

Pick(b) ==
    LET r == Oldest(Survey(b))
    IN  /\ BootAt(b, "pick")
        /\ IF r = 0 THEN NextSample(b, "pick", "done")
           ELSE boot' = [boot EXCEPT ![b].pc = "clear", ![b].row = r,
                                     ![b].seen = rows[r].status]
        /\ UNCHANGED <<rows, begun, finished, reports, responses, driver, click, torn, revived>>

Clear(b) ==
    /\ BootAt(b, "clear")
    /\ responses' = responses \ {boot[b].row}
    /\ reports' = reports \ {boot[b].row}
    /\ torn' = torn \ {boot[b].row}
    /\ BootGoto(b, "fill")
    /\ UNCHANGED <<rows, begun, finished, driver, click, revived>>

\* A plain INSERT: it conflicts with the rows of another precompute.
Fill(b) ==
    /\ BootAt(b, "fill") /\ boot[b].row \notin responses
    /\ responses' = responses \cup {boot[b].row}
    /\ BootGoto(b, "finish")
    /\ UNCHANGED <<rows, begun, finished, reports, driver, click, torn, revived>>

\* Mutant: the report is left to the analyze job.
ReportedLater(r) == reports

Reported(r) == reports \cup {r}

\* The analyses, the report and the status, in one commit.  The ORM writes the
\* status only if it differs from the one the session has loaded.
FinishReport(b) ==
    LET r == boot[b].row
    IN  /\ BootAt(b, "finish")
        /\ reports' = Reported(r)
        /\ IF boot[b].seen = "completed" THEN UNCHANGED rows ELSE WithStatus(r, "completed")
        /\ Completing(r)
        /\ torn' = torn \ {r}
        /\ revived' = IF boot[b].seen = "completed" THEN revived ELSE revived \ {r}
        /\ NextSample(b, "pick", "done")
        /\ UNCHANGED <<begun, responses, driver, click>>

\* The container goes away, or a statement raises: bootstrap_if_empty goes on
\* with the step after the one that failed.
BootFails(b) ==
    /\ AtWork({b})
    /\ \E p \in {"off"} \cup (IF boot[b].pc \in {"seed", "insert"} THEN {"count"} ELSE {}) :
          boot' = [boot EXCEPT ![b] = BootRecord(p, FALSE)]
    /\ Ending(BootTx(b))
    /\ torn' = IF boot[b].pc \in {"fill", "finish"} THEN torn \cup {boot[b].row} ELSE torn
    /\ UNCHANGED <<rows, finished, reports, responses, driver, click, revived>>

-----------------------------------------------------------------------------
RunSample(c) ==
    \/ FindCompleted(c) \/ FindReport(c) \/ FindInFlight(c) \/ InsertClicked(c) \/ EnqueueClicked(c)

Work(r) == WorkerLoads(r) \/ WorkerAdvances(r) \/ WorkerFails(r) \/ WorkerDrops(r)

Bootstrap(b) ==
    \/ StartBoot(b) \/ FindSeeded(b) \/ InsertSeeded(b) \/ CountRows(b)
    \/ CountCompleted(b) \/ Pick(b) \/ Clear(b) \/ Fill(b) \/ FinishReport(b)
    \/ BootFails(b)

Next ==
    \/ \E c \in Clicks : RunSample(c)
    \/ \E r \in Ids : Work(r)
    \/ \E b \in Boots : Bootstrap(b)

Spec == Init /\ [][Next]_vars

-----------------------------------------------------------------------------
(* Properties *)

TypeOK ==
    /\ rows \in Seq([survey : Samples, status : RunStatuses, blind : BOOLEAN])
    /\ Len(driver) = Len(rows)
    /\ IsInjective(begun) /\ IsInjective(finished)
    /\ ToSet(begun) \cap ({"row"} \X Nat) = {<<"row", r>> : r \in Ids}
    /\ ToSet(finished) \cup reports \cup responses \cup torn \cup revived \subseteq Ids
    /\ \A c \in Clicks :
          /\ click[c].row \in 0 .. Len(rows)
          /\ (ClickTx(c) \in ToSet(begun)) = (click[c].pc \in {"report", "flight", "insert"})
    /\ \A b \in Boots : boot[b].row \in 0 .. Len(rows) /\ boot[b].i \in DOMAIN SampleOrder

\* Two rows of one sample are in flight together only if the transaction of the
\* second began before the first was committed, or the first was over and a
\* worker that had read it before brought it back.  Clicks one after the other
\* share one run.
TwinsOverlapped ==
    \A a, b \in Ids :
        a < b /\ rows[a].survey = rows[b].survey /\ Live(a) /\ Live(b) =>
            rows[b].blind \/ a \in revived

\* A completed sample is without its report only while a bootstrap is computing
\* it again, or after one was cut off doing that.
UnreportedIsTorn ==
    \A r \in Ids : rows[r].status = "completed" /\ r \notin reports =>
        \/ r \in torn
        \/ \E b \in Boots : boot[b].row = r /\ boot[b].pc \in {"fill", "finish"}

\* The row the bootstrap computes the report for is the same on every start,
\* unless an overlapping transaction commits an earlier one.  (A visitor is given
\* another one, the latest that is completed.)
CanonicalMovesByOverlap ==
    [][Len(rows') > Len(rows) =>
          \A s \in Samples :
              Of(s) # {} /\ Oldest(s)' # Oldest(s) => rows'[Oldest(s)'].blind]_vars

\* bootstrap.py: a partial bootstrap is made good by the next start.  When one
\* has run to its end and nothing failed in it, and no other is at work, every
\* sample has a completed run with a report.
BootstrapComplete ==
    \A b \in Boots : BootAt(b, "done") /\ ~AtWork(Boots \ {b}) =>
        \A s \in Samples : \E r \in Of(s) : rows[r].status = "completed" /\ r \in reports

\* No interleaving of clicks, starts and workers shows a reader more than RunRow
\* promises: a row is never gone or new again, and completed is never announced
\* before the report is there.  RunReader is checked on that promise.
RowOf(r) ==
    INSTANCE RunRow WITH status <- IF r \in Ids THEN rows[r].status ELSE "none",
                         reported <- r \in reports
MaxRows == Cardinality(Clicks) + Cardinality(Boots) * Len(SampleOrder)
ImplementsRow ==
    /\ \A r \in 1 .. MaxRows : RowOf(r)!RowInit
    /\ [][\A r \in 1 .. MaxRows :
          RowOf(r)!row' # RowOf(r)!row => RowOf(r)!RowNext]_vars
===============================================================================
