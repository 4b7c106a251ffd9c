# Knit PreFlight in TLA+

Specifications of the parts of Knit PreFlight that are hard to test: the run
pipeline (API, Redis stream, workers, Postgres tables), the circuit breaker in
front of the Anthropic API, the sample runs that clicks, container starts and
workers write at the same time, what runs of one audience share, the page that
follows a run, the report and its screener checks, and the calibration. TLC
checks them on small instances; TLAPS proves the theorems named below for every
value of the constants. Paths are relative to `src/`.

## 1. Inventory of the system

| Part | Code | State it keeps | Operations | Hard because |
| --- | --- | --- | --- | --- |
| Run state machine | `preflight/worker/state.py` | `runs.status` | `set_run_status` with and without `enforce` | checks the row its session loaded, updates the row there is |
| Job queue | `preflight/worker/queue.py` | stream, consumer group, dead-letter stream | enqueue, consume, ack, dead-letter | at-least-once, dead consumers, errors after execution |
| Worker loop, dispatcher | `preflight/worker/main.py`, `dispatcher.py` | the message in hand | run, dispatch | retry of finished work, failure while recording a failure |
| Job handlers | `preflight/worker/jobs/*.py` | pools, paraphrases, responses, reports | gen_personas, gen_paraphrases, run_probe, analyze | several commits per handler, a session shared by coroutines, jobs of one run in parallel |
| Run API | `preflight/routes/runs.py` | none of its own | create_run, get_run, report, SSE stream | commit before enqueue; a polling reader |
| Samples and bootstrap | `preflight/routes/samples.py`, `bootstrap.py`, `seeds/*.py`, `scripts/entrypoint.sh` | sample rows of `runs`, their responses and reports | run_sample, seed, precompute, list | check-then-insert without a constraint, overlapping starts, partial runs |
| Circuit breaker | `preflight/llm/circuit_breaker.py` | state, window, probe outcomes, clock | before_call, record_success, record_failure | late answers of calls admitted earlier |
| Anthropic client | `preflight/llm/anthropic_client.py` | semaphore, ledger rows | message | admission long before the request, retries holding a permit |
| Rate limiter | `preflight/llm/rate_limiter.py` | tokens, last refill | acquire | waiters race for tokens |
| Cost ledger, pricing | `anthropic_client.py`, `llm/pricing.py` | `llm_calls` | add a row | stored by whatever commits next, lost with the session |
| Persona pool | `preflight/persona/*.py` | `persona_pools` | get_or_create_pool | two generators of one key |
| Paraphrase cache | `jobs/paraphrase_gen.py` | `paraphrase_cache` | generate, overwrite by precompute | two generators of one key, edits under a running probe |
| Report and analyzers | `preflight/stats/**` | none | compose, screener graph, quotas, shifts, IRT, correlation | several SELECTs under concurrent deletes; graph and boundary cases |
| Calibration | `preflight/calibration/**` | `calibration_runs`, transient runs | run_calibration, tallies | check-then-act at container start, two commits per row |
| Frontend | `frontend/**` | the status on screen | getRun and EventSource | two sources for one state, answers that overtake each other |

**Interactions.** `create_run` commits a row and adds the first message; each
handler commits its product, sets the status, and adds the messages of the next
step. Workers share the tables and the stream and nothing else. Handlers call
the Anthropic client, of which there is one per process. Bootstrap and clicks
write the same tables as the workers, without the queue between them. The page
reads the run and its report through the API and a stream that polls the row.

**What makes each part correct.** Pipeline: an accepted run is finished or has a
recorded cause for not being so; statuses follow the table; a status implies the
rows it is built from; no question is paid for twice. Breaker: opens on the
failure that reaches the threshold, counts only recent probes, closes again when
the provider recovers. Samples: one row in flight per sample, a completed row
has its report, the row the bootstrap chooses stays the same, a partial
bootstrap is completed by the next. Caches: all runs of an audience ask the same
people in the same wordings; each paid call is in the ledger. Page: it ends at
the status of the run and with its report. Report: composed over whole
responses; the graph checks find the defects their definitions name. Calibration:
each planted defect is counted once; nothing transient stays; one result.

## 2. Modules

| Module | Models | Checked by |
| --- | --- | --- |
| `RunStatus` | statuses and transition table | extended by the others |
| `RunLifecycle` | abstract: the status of a run as its transition table promises it | refined by `RunPipeline` |
| `RunPipeline` | a run from `POST /runs` to its end, with disturbances | `MCRunPipeline`, `RunPipelineProofs`, `RunMessagesProofs` |
| `CircuitBreaker` | the breaker's operations | through `LlmClient` |
| `LlmClient` | concurrent `message()` calls over one breaker | `MCLlmClient`, `LlmClientProofs` |
| `RunRow` | abstract: status and report of one row, as a reader may find them | refined by `SampleRuns`, environment of `RunReader` |
| `SampleRuns` | clicks, container starts and workers on sample rows | `MCSampleRuns`, `SampleRunsProofs` |
| `RunReader` | one browser tab on a run: page, requests, event stream | `MCRunReader`, `RunReaderProofs` |
| `ScreenerGraph` | the graph checks, and reachability by definition | through `Precompute` |
| `Analyzers` | thresholds, guards and aggregation of the other analyzers | through `Precompute` |
| `Precompute` | overlapping precomputes of one run and the report they leave | `MCPrecompute`, `PrecomputeProofs` |
| `Caches` | pool, paraphrases, responses and ledger of runs of one audience | `MCCaches`, `CachesProofs` |
| `Calibration` | injection, findings row by row, runner and tallies, several starts | `MCCalibration`, `CalibrationProofs` |

Operators marked "Mutant" state a plausible error in the code beside the
definition it would change; no specification uses them.

### RunPipeline

Tables are sets and functions: `status`, `pools`, `cache`, `responses`,
`reports`. `stream` is the undelivered part of the Redis stream; `orphans` holds
what was delivered to a consumer that no longer exists. A worker has a program
counter `pc`, the message `job`, and `seen`, the status in the identity map of
its session (`expire_on_commit=False`, and a second `session.get` does not reload).
A survey is a list, and `schemas/survey.py:88-100` does not ask for distinct ids:
`Text` says what a question reads and `First` which question the handler finds by
its id, so that two entries may share a row of `paraphrase_cache`, or a probe's
message and its rows of `probe_responses`. A probe is counted by the entry it was
enqueued for. One action is one database transaction, one Redis command or one swarm.

| Actions | Code |
| --- | --- |
| `CreateRun`, `EnqueueFirst`, `LoseFirst` | `create_run` before, at and failing at the XADD |
| `Consume`, `Load` | XREADGROUP; the `session.get(Run)` of the handler, with the guard of `handle_run_probe` |
| `WriteProduct`, `NobodyMatches` | `get_or_create_pool`, with the `ValueError` of an empty sample; the report of `handle_analyze` |
| `Generate`, `Generated`, `GatherRaises`, `BackgroundGenerate` | `_generate_for_question` under `asyncio.gather`; after a failure the others run on in the session |
| `Ask`, `Persist`, `CheckDone` | `handle_run_probe` |
| `Advance`, `Emit`, `EmitFails` | `set_run_status`, then one XADD per follow-up |
| `StatementRaises`, `MarkFailed`, `MarkFailedRaises` | the except branch of `dispatch` |
| `Ack`, `AckFails`, `Retry`, `DeadLetter`, `Crash` | `WorkerLoop.run` |

`faults` and `hits` record the disturbances, so that a property can say "unless
the database failed". The disturbance kinds are constants: a run of the checker
chooses which may occur and how many (`MaxFaults`). The death of the API process
between commit and XADD (`api`) is a kind of its own beside the death of a worker
(`crash`). A failed gather is not counted: it needs nothing but two generators of
one session committing at once. `dispatch` does not roll back before it records a
failure, so after a failed statement recording it may fail as well, uncounted.

### CircuitBreaker and LlmClient

The breaker's four operations are taken under its lock, so each is one step.
The clock is reduced to the time since the last opening, capped at the
cool-down (`waited`): the code compares nothing else. A call passes the breaker
(`Begin`), waits for tokens and a permit (`Start`), and then sends, fails,
sleeps and resends up to `MAX_TRIES` times. The token bucket appears as the
unbounded delay between `Begin` and `Start`. `Turn` lets the provider fail and
recover at any time.

### RunRow and SampleRuns

`RunRow` is what somebody who polls one run may rely on: a row that is there
stays, is `pending` only when new, and is `completed` only with its report, but
may leave `failed` again and have its report withdrawn while it is computed anew.

In `SampleRuns`, `begun` orders rows and open transactions by the start of the
transaction, which is what `created_at = now()` means in Postgres; rows are
numbered in the order of commits. A click makes three queries and an insert,
with a step for each; a container start passes the gates, seeds, and precomputes
sample by sample with one step per commit. `CountRows` and `CountCompleted` are
two queries because `_samples_completed` is. `FinishReport` writes the status
only if the session had loaded another one: the ORM omits an attribute that has
not changed. The worker on a clicked row is the abstraction of `RunPipeline`
that matters here: it holds a status it has read, advances as far as
`paraphrases_ready` or sets `failed` whatever the row says. That no such run gets
further is the theorem `NoRunIsReported`. `ImplementsRow` is the refinement: each
row of each sample, with its report, is a `RunRow`.

### RunReader

It extends `RunRow` with the tab at `/run/[id]`. `RunPage` asks for the report
when it is mounted and whenever `RunProgress` sees `completed`; `RunProgress`,
mounted while there is no report, asks for the run and follows the event stream.
A request is sent, read and answered in three steps, so that answers overtake
each other and what the row has become since. Of the stream the model keeps
`last_status`, the events under way, and whether it is still polled; a poll
without news is no step. Streams end after a terminal status or after ten
minutes, which the page does not tell apart; a lost connection loses its events.
`excuses` notes the three things after which a mounted `RunProgress` may wait in
vain: a request or connection that was refused (`broken`), the status `failed`
seen, which closes the stream although the row may move again (`failed`), and a
report asked for on `completed` and found withdrawn by a precompute
(`withdrawn`).

### ScreenerGraph, Analyzers and Precompute

`ScreenerGraph` has the five checks of `screener_graph.py` on surveys as data
(id, type, number of options, condition), and beside them `Asked`: the questions
that some respondent who walks through the survey can be asked, by definition.
`Analyzers` turns measured numbers, given in hundredths with the survey, into
severities as the shift, 2PL, correlation and quota analyzers do: eligibility,
minimum sizes, thresholds, the first paraphrase with the largest distance, the
fallback of a fit that did not converge, the maximum in the report. `Precompute`
runs `precompute_for_run` in several containers on one run: delete (committed),
insert, one SELECT per question and two for the survey, store. The responses
come from a fixed seed, so the table has them or not, and the report is
determined by which SELECTs found them.

### Caches

Runs of one audience whose surveys may share questions, or questions that read the
same. A job has the session `Session(r)`. `gen[<<r, a, q>>]` is the generator of
question `q` in attempt `a` of the run's paraphrase job; the generators of one
attempt share its session, as under `asyncio.gather`, and when one raises the
others go on in the session `dispatch` has closed, beside the retry with its own
(`Gathers`, `Live`). `holding` is the sessions that hold ledger rows of paid calls:
any commit stores them, whatever it is for, and a session that ends without one
loses them (`lost`). `torn`, `cut` and `edited` note what may cause a loss or a
change of wordings.

| Actions | Code |
| --- | --- |
| `LookUpPool`, `StorePool`, `NoPool` | `get_or_create_pool` |
| `Gather`, `LookUpWords`, `AskHaiku`, `StoreWords` | `_generate_for_question`, one answer of Haiku at a time |
| `GatherRaises`, `StrayRaises`, `StraysLost` | a generator that raises in its job, or after it; the worker that has those left behind dies |
| `LoadPool`, `AskSwarm`, `Persist`, `CheckDone` | `handle_run_probe` |
| `Advance`, `Raise`, `Retry` | `set_run_status` and the next job; the except branches of `dispatch` and of the worker loop |
| `StatementFails`, `WorkerLost`, `AnotherFails` | the disturbances, and the other probes of the run |
| `EditWords` | `_populate_paraphrase_cache`, at any time |

Jobs of one run follow each other here, and of its probes one is followed
(`Probed`); that they need not is the business of `RunPipeline`. `EditWords` is the
precompute that overwrites paraphrases of a question it shares with a run.

### Calibration

`Rows` enumerates the clean surveys and their planted variants in the order of
`run_calibration`; `Injected` says what the injectors do to the list of questions.
Each row has a seed of its own and each injector draws its own target
(`runner.py:174-189`), so what the statistics find is given row by row (`found`),
on the planted question or on any other; it is chosen once, because the seeds are
fixed and every calibration of a configuration finds the same. `Detected` is
`_detected_classes` on those findings. A calibration inserts a transient run and
commits, analyzes and deletes it and commits, and tallies; container starts look
first whether a result is stored, the command line does not, a dry run stores
nothing.

## 3. Runs

| Run | Instance | Result |
| --- | --- | --- |
| `pipeline_nominal` | 2 runs (one with nothing to probe, one with 2 questions of one id), 2 workers, no disturbance, 2 attempts; fair | `NeverReported`, `PaidOnce`, `Implements` (refinement of `RunLifecycle`), `UploadSettles` hold |
| `pipeline_faults` | 1 run, 2 questions, 2 workers, 7 kinds of disturbance, any 2 of them | `TypeOK`, `NeverReported`, `ProductsBehindStatus`, `StallHasACause`, `PaidOnce`, `DeadLetterIsFailed`, `StatusForward` hold |
| `pipeline_answered` | 1 worker, 1 question, no disturbance; fair | `AnsweredRunCompletes` is violated |
| `pipeline_failed_final` | 2 workers, one XACK error | `FailedIsFinal` is violated |
| `pipeline_crash` | 1 worker, one crash of it; fair | `RunEnds` is violated |
| `llm_client` | 3 calls, 2 permits, 2 tries, window 4, threshold 50 %, 2 probes, cool-down 2; fair | `TypeOK`, `ProbesAreRecent`, `TripNotMissed`, `Recovers` hold, no deadlock |
| `samples` | 2 samples, 1 click, 2 container starts | `TypeOK`, `TwinsOverlapped`, `UnreportedIsTorn`, `CanonicalMovesByOverlap`, `ImplementsRow` (refinement of `RunRow`) hold |
| `samples_restart` | 2 samples, one container that may be restarted, no click | `BootstrapComplete` is violated |
| `progress` | 3 changes of the row, 1 lost connection; fair | `TypeOK`, `StopsForACause`, `ReportArrives`, `StatusCatchesUp` hold |
| `analysis` | 2 precomputes, each survey of a catalogue | `TypeOK`, `MissingWasCrossed`, `SettledIsWhole`, `LoopsAreForward`, `ScreenerExact`, `ScreenerLimits`, `LosesOneRank`, `TighterCellNoEasier` hold |
| `calibration` | 2 calibrations, 1 clean survey of 3 questions, 5 choices of what the rows are found to have | `TypeOK`, `TallyBalanced`, `LeftoverWasCut`, `AgainOverlapped` hold |
| `caches` | 2 runs, one of 2 questions and one of 1 they have in common; 1 call per probe, 2 tries, 2 attempts (of the first run), the first run disturbed once | `TypeOK`, `OnePool`, `WordsAgree`, `LedgerGap` hold |

**What the properties say of the code beyond "it works".**

- `SettledIsWhole` and `MissingWasCrossed`: overlapping container starts repair each
  other, and a conflict on the plain INSERT is harmless, but a precompute whose
  responses another one deletes under it stores a report in which questions look
  sound because nobody answered them. Such a report stays when it is stored last.
- `ScreenerExact`, `ScreenerLimits`: for conditions by `==` the flagged questions are
  exactly the roots of what nobody is asked. With the other operators
  `_value_compatible_with_question` raises false alarms for `!=` and for orders on
  values just off the scale, and misses orders and memberships nobody satisfies, and
  a `!=` on a question that has a single answer.
- `LosesOneRank`: a question can be rated one rank below its worst paraphrase, since
  only the paraphrase with the largest distance lends its effect size. A
  categorical question is never `high`: it has no effect size, and `high` asks for one.
- `PaidOnce`: the probe of each entry of a survey asks the swarm once, retries and
  strays included, unless the database failed or Redis reported an error for what
  it had executed. Two questions of one id are two entries: the handler asks the
  first of them twice, and pays twice (section 4).
- `TallyBalanced`: whatever else is flagged, a planted defect is counted once, in its own
  cell. `_detected_classes` lists neither `loaded_language` nor `fatigue_block`, for
  which it names another class each, so all their rows are misses.
- `LedgerGap`: a paid call is missing in the ledger only after a disturbance (a lost
  worker, a failed statement), after a generator raised while others of its job
  went on in the session, or as the call of a probe all of whose answers were
  useless, which returns without a commit. A handler that fails by itself loses
  nothing: the update to `failed` commits what its session holds. The second cause
  needs no fault outside the program.
- `StopsForACause`, `ReportArrives`, `StatusCatchesUp`: dropped events, late answers,
  lost connections and expired streams are all repaired; the three excuses are not.
- `TwinsOverlapped`: two clicks that overlap do create two rows in flight, the check at
  `routes/samples.py:125-164` being without a constraint; two that do not overlap
  never do. `ProbesAreRecent` and `Recovers` hold although an open circuit lets
  requests through that were admitted before it opened, and all retries
  (`anthropic_client.py:89-117`).

**Bounds, and why they are enough.** Two questions are the fewest with two probe
jobs in parallel and a "last" one; two workers the fewest that run two jobs of
one run; two disturbances allow one to hit the recovery from the other.
`MAX_ATTEMPTS` is 2 in the passing runs (one retry, one dead letter) and the
code's 3 in the others. A window of 4 with a threshold of 2 failures
distinguishes filling, overflowing and reaching the threshold; 3 calls over 2
permits put one in the queue, one asleep and one sending. In `SampleRuns` a click
and a container start happen once each, which bounds the rows; two starts
overlap or follow each other, and a failed first one makes the second a restart.
Two clicks that overlap insert as a click and a start do (`InsertRow`); two of them
beside two starts are beyond TLC, and the theorems have any number.
Three changes of the row take it from its way to `failed` and back, or withdraw
and restore a report, under one page; one lost connection comes on top of the
reconnections after expired streams, which are not bounded. The catalogue of
`analysis` has every dependency of three questions on none, any of them, or a
missing one; every operator with values at both ends of
each scale and off them, single-choice questions with no, one or two options
(`schemas/survey.py` asks for no minimum); pairs of paraphrases on both sides of every threshold;
quota cells that refine each other. Equal ids are in the catalogue for the graph
checks; the precompute of such a survey conflicts with itself at the plain INSERT,
and `SettledIsWhole` leaves it out. A corpus of one survey has all 19 rows and
both kinds of question; a second would add the same rows again. Two runs are the
fewest that generate at once, and two generators of one session the fewest of which
one outlives the other; with two tries a generator gives up after an invalid answer
and one more (the code's number is three), and a call of a probe is answered,
useless or failed. Retries and disturbances happen to the run whose generators share
a session, beside a run that meets neither. Two questions of one id, of two texts, are in the undisturbed run
of the pipeline; distinct ones in the disturbed. The theorems of section
5 hold without any of these bounds.

Deadlock checking is off where the system is meant to come to rest: once every
message is handled, every request made, every start over or every page shown.
`llm_client` leaves it on.

**Fairness.** `FairSpec` of the pipeline owes weak fairness to the request that
has committed its row and to the undisturbed steps of each worker: `WorkerLoop.run`
is a loop without a condition other than shutdown. It owes nothing to a failure,
a crash, a background generator or a new upload. `FairSpec` of the client owes
that calls are made, requests are answered or time out, sleeps end, and time
passes; the provider owes nothing, so `Recovers` is conditional on its staying up.
`FairSpec` of the reader owes that each request is answered or fails, that what
was answered arrives, that the stream is polled (every two seconds) and expires
(after ten minutes), and that the browser reconnects a stream that ended, as an
`EventSource` does. It owes nothing to the row, so its liveness properties speak of
rows that have come to rest. The other modules state safety only.

## 4. Where code and its documentation disagree

1. *A fully answered run fails.* `probe_response.py:217` asks for `probing` when the
   run is in neither `paraphrases_ready` nor `probing`, the opposite of what the
   transition table needs. `README.md:252` says uploads run end-to-end.
2. *`failed` is overwritten.* An XACK error retries a finished job beside its
   successor; the successor's check of the status is on a stale row
   (`state.py:48-57`). `state.py:27` and its tests call `failed` terminal.
3. *A worker crash strands its run.* Pending entries are never claimed
   (`queue.py:33-34, 77-83`). `README.md:196` says the run converges.
4. *A partial seeding is final.* `bootstrap.py:34` takes one row for all;
   `bootstrap.py:109-111` says the next start completes a partial one.

Each is a run of its own. Smaller remarks without one: `README.md:211` says the
open circuit stops calls for 30 s, which admitted requests and retries do not
heed; the comment at `routes/samples.py:125` says that no click creates a second
row beside one in flight, which overlapping clicks do; `calibration/metrics.py:40-42` describes the macro F1 as
an average over cells, the code averages classes;
`preflight/stats/analyzers/screener_graph.py:8-9` says that a dead branch depends on
a condition that can never be true, and the check also flags `!=` with a value that
is not among the options, which is true of every answer, and orders on values just
off the scale; `README.md:196` says that LLM cost is never duplicated, and a survey
with two questions of one id, which nothing refuses, has one of them asked twice
and the other never.

## 5. Proofs

Assumptions are the named ones of the modules: types of the constants, and in
`BreakerAssumption` no more probes than the window holds, in `SamplesAssumption`
distinct samples, at least one, in `CachesAssumption` that a run follows the probe
of a question it has, and at least one try and attempt; in `FindingsAssumption`
the type of what rows may be found to have. Of `Precompute`: at least one container start
(`PrecomputeAssumption`); a paraphrase at distance 0 has no effect size, since it was
answered as the original wording was (`MeasuresAssumption`); a question has no or
one condition (`ConditionsAssumption`); a panel is finite and its weights are
natural numbers (`PanelAssumption`; the person weights of the microdata are whole).
None bounds the number of actors, and the bounds of the models (`MaxFaults`,
`MaxMoves`, `MaxDrops`, `MaxCut`) are any natural numbers. One theorem has a
hypothesis of its own: `PipelineImplements` is about runs without an XACK error and
without an XADD that lands and reports an error, all other disturbances allowed.
With an XACK error the statement is false, as run `pipeline_failed_final` shows.

Every invariant and every action property that a passing run checks is a theorem.

| Theorem | Statement | Inductive invariant |
| --- | --- | --- |
| **`RunPipelineProofs`** | | |
| `Typing` | `TypeOK` | itself |
| `NoRunIsReported` | `NeverReported` | `NothingToAnalyze` |
| `ProductsStored` | `ProductsBehindStatus` | `InputsStored` |
| **`RunMessagesProofs`** | | |
| `StallsAreCaused` | `StallHasACause` | `OwnMessages`, `Owed` of each run |
| `StatusNeverSlips` | `StatusForward` | `Ordered` |
| `PipelineImplements` | `Implements` (refinement of `RunLifecycle`) | `Ordered` |
| `ProbesArePaidOnce` | `PaidOnce` | `AllAskedOnce`, `LeftBehind` |
| `DeadLettersAreOfFailedRuns` | `DeadLetterIsFailed` | `FailedFirst` |
| **`LlmClientProofs`** | | |
| `ClientTyping`, `RecentProbes`, `TripsAreTaken` | `TypeOK`, `ProbesAreRecent`, `TripNotMissed` | `ClientInv` |
| **`SampleRunsProofs`** | | |
| `SamplesTyping` | `TypeOK` | `Typed`, `InTime`, `ListsTyped`, `RowsFound` |
| `ReportsAreTornOnly` | `UnreportedIsTorn` | `Typed`, itself |
| `TwinsAreBlind` | `TwinsOverlapped` | `TwinsInv` |
| `CanonicalMovesOnlyByOverlap` | `CanonicalMovesByOverlap` | `Typed`, `InTime` |
| `RowsAreImplemented` | `ImplementsRow` (refinement of `RunRow`) | `Typed` |
| **`RunReaderProofs`** | | |
| `ReaderTyping`, `ListensOrKnows` | `TypeOK`, `StopsForACause` | `ReaderInv` |
| **`PrecomputeProofs`** | | |
| `ReportTyping` | `TypeOK` | `ReadInv`, `Reported` |
| `BadReportWasCrossed` | `MissingWasCrossed` | `ReadInv` |
| `OverlapsSettle` | `SettledIsWhole` | `OwedBySome` |
| `ShiftLosesOneRank` | `LosesOneRank` | `ReadInv`, `Reported`, `AllRead` |
| `TighterIsHarder` | `TighterCellNoEasier` | none: holds of every panel |
| `CyclesHoldForward`, `EqualitiesAreExact`, `ChecksHaveTheseLimits` | `LoopsAreForward`, `ScreenerExact`, `ScreenerLimits` | none: hold of every survey |
| **`CalibrationProofs`** | | |
| `CalibrationTyping`, `DefectsAreCountedOnce`, `LeftoversAreCut` | `TypeOK`, `TallyBalanced`, `LeftoverWasCut` | `TallyInv` |
| `SecondResultOverlapped` | `AgainOverlapped` | `LookedFirst` |
| **`CachesProofs`** | | |
| `CacheTyping` | `TypeOK` | `TypeInv` |
| `PoolIsShared`, `WordsAreShared` | `OnePool`, `WordsAgree` | `SharedInv` |
| `LedgerAccounts` | `LedgerGap` | `LedgerInv` |

Why the strengthenings are needed, and what the other proofs rest on:

- `NeverReported` is not inductive: a stale session could write `stats_running` if it
  held `probing`. `NothingToAnalyze` says that no session holds, and no row with
  questions to probe is in, a status from which `stats_running` can be entered, and
  that no `analyze` message exists anywhere. It rests on the lemma `Predecessor`:
  each status is entered from one status only. `InputsStored` states the products
  for the statuses that sessions hold and jobs are about to write.
- `StallHasACause` lets any busy worker count as work for its run, and then breaks when
  that worker ends. `Owed` counts only a worker that *carries* the run: one that will
  still write its status, put out its next message or be retried. One that only has
  to acknowledge, or whose probe is not the last, does not count, and then one of the
  causes must hold already. A probe that is missing in `paraphrases_ready` needs a cause of its
  own: `ProbesKept` follows each entry of the survey from the outbox to its row
  (`Sought`), so that only a probe whose calls all failed may be without one.
- `StatusForward` depends on what a session read some transactions ago. It is safe
  only because a run has one message until its probes are sent (`InLine`): whoever
  is at that message is alone, and what it read is what the row still says. This
  holds as long as no Redis error doubled a message; a lost row, a failed database
  statement or a crash leaves at most one message, which is why the theorem excuses
  nothing else. Before the first message is out there is nothing of the run at all
  (`Begun`).
- `PaidOnce` needs the same for the probe of each entry of a survey (`AllAskedOnce`): there is one
  at the most, and while its run has not failed and it waits or is loaded, it has not
  been put to the swarm. A retried probe comes back too, but only after it has failed
  its run, and then the handler returns. `LeftBehind` covers the generators that
  outlive their failed job: they belong to a paraphrase job, never to a probe.
- `DeadLetterIsFailed` needs that a message about to be retried or given up has marked
  its run (`FailedFirst`), and that nothing can move the run on from there.
- `ProbesRecorded` in `ClientInv` counts outcomes and window from their ends; the lemma
  `PushedWindow` says what an append to a full and to a filling window does.
- `TwinsOverlapped` is about two rows in flight; the second may be over in between
  and come back. `PairsBlind` drops that condition, and `ClicksLooked` and
  `BootsLooked` say what a request about to insert has seen. The refinement
  `RowsAreImplemented` needs only `Typed` and one lemma on how rows and reports move
  in each step (`RowStep`): every step leaves a row alone or is one step of `RunRow`.
- `CanonicalMovesByOverlap` compares rows by the start of their transactions.
  `InTime` says that a transaction still open began after every row it has found
  committed, so that only one that knew nothing of a row can slip in before it.
  `ListsTyped` and `RowsFound` make the order one without repetition, and every row
  that somebody works at one that is there.
- `FoundSoFar` in `ReadInv`: a precompute that nobody crossed has found the responses
  in every SELECT so far, and they are still there. `OwedBySome`: while responses or
  report of a survey with distinct ids are missing, some precompute is still to bring
  them, or was cut off.
- `LosesOneRank` needs a result for every SELECT (`AllRead`); the rest is arithmetic on
  thresholds (`OneRankApart`): a distance that is high by itself is at least medium
  with whatever effect size it is given.
- `TighterCellNoEasier` is about a sum of weights over a set. The module states the
  weight as a number of people, as a person weight means it; the lemmas
  `PeopleFinite` and `PartIsLighter` then give monotony without an induction.
- `CyclesHoldForward` is a fact about surveys, not about steps: along a cycle the
  positions of the questions cannot fall all the way round, so one dependency does not
  come before its question. Proved with the smallest position on the cycle.
- `EqualitiesAreExact` and `ChecksHaveTheseLimits` compare the checks with `Asked`, a
  recursive definition. That such a function exists is proved without the library's
  induction theorems: of the prefixes on which it did not, there would be a smallest
  (`AskedExists`). A chain of conditions without a flag goes back in the survey with
  every step, so it ends at a question without a condition (`Steps`, `ChainIs`).
  The attempt corrected the property: it had left out `!=` on a single-choice question
  with one option, which the check takes for satisfiable.
- `TallyBalanced` needs that a calibration past its gate is at a row of the corpus.
- `OnePool` and `WordsAgree` need that what a probe has loaded is what is stored
  (`HeldIsStored`), and that stored rows are never replaced (`StoredStays`).
- `LedgerInv` adds to `LedgerGap` that generators outlive their job only in a run that
  lost a worker or had one of them raise before the others (`Strays`), so that whatever
  they lose later has its cause already; and that a probe past its commit holds ledger
  rows only if it had nothing to commit (`Checked`).

**Only model-checked.** Liveness, which is beyond the prover (it needs ENABLED):
`UploadSettles`, `Recovers`, `ReportArrives`, `StatusCatchesUp`; their instances are
those of section 3. The four violations of section 4 are counterexamples and need no
proof.

## 6. Not modelled, and what is left

Not modelled: sampling from the microdata and the personas, the distances,
coefficients and the 2PL fit (floating-point statistics: their results are
given), prompts, pricing arithmetic, precision and F1, the read-only routes
(`list_samples`, calibration, health), the pages other than `/run/[id]`,
configuration, logging, the command line other than `calibrate`. The rate limiter
is the delay between `Begin` and `Start`: a waiter is late, never early, and no
property of the client depends on the order of waiters; how large a burst the
bucket admits is arithmetic on a clock. The handler of `validate_equivalence` is a
stub that nothing enqueues.

Left for a continuation: the token bucket on a discretised clock; the coroutines of a
swarm that add ledger rows to one session at once; the safety half of `UploadSettles` and `Recovers` (what each
step brings nearer to the end), as far as it can be stated without ENABLED.
