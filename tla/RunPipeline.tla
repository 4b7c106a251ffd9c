----------------------------- MODULE RunPipeline -----------------------------
(***************************************************************************)
(* A run from POST /runs to its end: the route create_run, the Redis       *)
(* stream and its consumer group, the worker loop, the dispatcher and the  *)
(* four job handlers, over the tables runs, persona_pools,                 *)
(* paraphrase_cache, probe_responses and reports.                          *)
(*                                                                         *)
(* A worker process handles one message at a time.  pc is where its        *)
(* handler stands, job the message, seen the status its database session   *)
(* holds for the run: the session keeps the row it loaded first            *)
(* (expire_on_commit=False), so seen does not follow the writes of others. *)
(*                                                                         *)
(* A survey is a list: two of its questions may have one text, and so one  *)
(* row in paraphrase_cache, or one id, and so the same probe message and   *)
(* the same rows in probe_responses.  A probe is labelled here by the      *)
(* question it was enqueued for; the message has only its id, by which the *)
(* handler finds the first such question.                                  *)
(*                                                                         *)
(* Disturbances are recorded in faults as <<kind, run>>, counted in hits:  *)
(*   "db"      a statement of the job raises;                              *)
(*   "llm"     every Anthropic call of a job fails;                        *)
(*   "lost"    an XADD raises and the message is not in the stream;        *)
(*   "landed"  an XADD raises although the message is in the stream;       *)
(*   "ack"     an XACK raises;                                             *)
(*   "api"     the API process dies between the row and the first message; *)
(*   "crash"   the worker process dies.                                    *)
(* "loose" is added, uncounted, when a failed asyncio.gather leaves        *)
(* generators running in the session of the job.                           *)
(***************************************************************************)
EXTENDS Naturals, Sequences, FiniteSets, RunStatus

CONSTANTS
    Runs, Workers,
    Questions, Texts,   \* questions of the surveys, and what they say
    Text,           \* Text[q]: what question q says
    Survey,         \* Survey[r]: the paraphraseable questions of run r
    First,          \* First[r][q]: the first question of r with the id of q
    Audiences, Audience,    \* Audience[r]: the key of the persona pool of r
    MAX_ATTEMPTS,
    FaultKinds,     \* the disturbances that may happen
    MaxFaults,      \* bound on the number of disturbances
    None            \* no job, no question

ASSUME ConstantsAssumption ==
    /\ Text \in [Questions -> Texts]
    /\ Survey \in [Runs -> SUBSET Questions]
    /\ First \in [Runs -> [Questions -> Questions]]
    /\ Audience \in [Runs -> Audiences]
    /\ MAX_ATTEMPTS \in Nat \ {0}
    /\ MaxFaults \in Nat
    /\ None \notin Questions

VARIABLES
    status,     \* runs.status
    pools,      \* keys of persona_pools
    cache,      \* texts with a row in paraphrase_cache
    responses,  \* responses[r]: questions with a row in probe_responses
    reports,    \* runs with a row in reports
    api,        \* api[r]: progress of create_run
    stream,     \* messages of preflight:jobs not delivered yet
    dlq,        \* preflight:jobs:dlq
    orphans,    \* delivered, never acknowledged, consumer gone
    pc, job, seen, outbox,
    todo,       \* todo[w]: questions whose paraphrases are being generated
    background, \* background[w]: generators a failed gather left in the session
    strays,     \* strays[w]: such generators of earlier messages of w
    paid,       \* paid[r][q]: times the probe enqueued for q asked the swarm
    faults, hits

db == <<pools, cache, responses, reports>>
queue == <<stream, dlq, orphans>>
undisturbed == <<faults, hits>>
generators == <<todo, background, strays>>
vars == <<status, db, api, queue, pc, job, seen, outbox, generators, paid,
          undisturbed>>

JobTypes == {"gen_personas", "gen_paraphrases", "run_probe", "analyze"}
Jobs == {j \in [type : JobTypes, run : Runs, q : Questions \cup {None},
                attempt : 1 .. MAX_ATTEMPTS] :
            IF j.type = "run_probe" THEN j.q \in Survey[j.run] ELSE j.q = None}
Job(type, r, q) == [type |-> type, run |-> r, q |-> q, attempt |-> 1]

\* The status a handler sets when its work is done.
Target == [gen_personas    |-> "personas_ready",
           gen_paraphrases |-> "paraphrases_ready",
           run_probe       |-> "stats_running",
           analyze         |-> "completed"]

\* The jobs a handler enqueues after it has set that status: one probe for
\* every entry of the list of questions, equal ids or not.
FollowUps(j) ==
    CASE j.type = "gen_personas"    -> {Job("gen_paraphrases", j.run, None)}
      [] j.type = "gen_paraphrases" ->
             {Job("run_probe", j.run, q) : q \in Survey[j.run]}
      [] j.type = "run_probe"       -> {Job("analyze", j.run, None)}
      [] j.type = "analyze"         -> {}

\* Mutants of the guard of handle_run_probe.
MustClaimReady(s) == s = "paraphrases_ready"
MustClaimUnlessFailed(s) == s \notin {"paraphrases_ready", "probing", "failed"}

\* run.status not in ("paraphrases_ready", "probing")
MustClaim(s) == s \notin {"paraphrases_ready", "probing"}

Init ==
    /\ status = [r \in Runs |-> "none"]
    /\ pools = {} /\ cache = {} /\ reports = {}
    /\ responses = [r \in Runs |-> {}]
    /\ api = [r \in Runs |-> "none"]
    /\ stream = <<>> /\ dlq = {} /\ orphans = {}
    /\ pc = [w \in Workers |-> "idle"]
    /\ job = [w \in Workers |-> None]
    /\ seen = [w \in Workers |-> "none"]
    /\ outbox = [w \in Workers |-> {}]
    /\ todo = [w \in Workers |-> {}]
    /\ background = [w \in Workers |-> {}]
    /\ strays = [w \in Workers |-> {}]
    /\ paid = [r \in Runs |-> [q \in Questions |-> 0]]
    /\ faults = {} /\ hits = 0

\* A disturbance of kind k hits run r.
Hit(k, r) ==
    /\ k \in FaultKinds /\ hits < MaxFaults
    /\ hits' = hits + 1
    /\ faults' = faults \cup {<<k, r>>}

Goto(w, p) == pc' = [pc EXCEPT ![w] = p]

-----------------------------------------------------------------------------
(* POST /runs *)

\* The row is committed before the queue is contacted.
CreateRun(r) ==
    /\ api[r] = "none"
    /\ api' = [api EXCEPT ![r] = "posting"]
    /\ status' = [status EXCEPT ![r] = "pending"]
    /\ UNCHANGED <<db, queue, pc, job, seen, outbox, generators, paid,
                   undisturbed>>

EnqueueFirst(r) ==
    /\ api[r] = "posting"
    /\ api' = [api EXCEPT ![r] = "accepted"]
    /\ stream' = Append(stream, Job("gen_personas", r, None))
    /\ UNCHANGED <<status, db, dlq, orphans, pc, job, seen, outbox,
                   generators, paid, undisturbed>>

\* Redis is down or the API process dies: the row stays, no job exists.
LoseFirst(r) ==
    /\ api[r] = "posting"
    /\ \E k \in {"lost", "api"} : Hit(k, r)
    /\ api' = [api EXCEPT ![r] = "dropped"]
    /\ UNCHANGED <<status, db, queue, pc, job, seen, outbox, generators,
                   paid>>

-----------------------------------------------------------------------------
(* The worker loop and the entry of the handlers *)

\* XREADGROUP ">" hands over only messages no consumer has received.
Consume(w) ==
    /\ pc[w] = "idle"
    /\ stream # <<>>
    /\ job' = [job EXCEPT ![w] = Head(stream)]
    /\ stream' = Tail(stream)
    /\ Goto(w, "load")
    /\ UNCHANGED <<status, db, api, dlq, orphans, seen, outbox, generators,
                   paid, undisturbed>>

\* The handler reads the row.  handle_run_probe asks for probing exactly when
\* the row is not in a status from which that is allowed, and then raises.
Load(w) ==
    LET r == job[w].run
        s == status[r]
        claims == job[w].type = "run_probe" /\ MustClaim(s)
        raises == claims /\ ~CanTransition(s, "probing")
        now == IF claims /\ ~raises THEN "probing" ELSE s
    IN  /\ pc[w] = "load"
        /\ status' = [status EXCEPT ![r] = now]
        /\ seen' = [seen EXCEPT ![w] = now]
        /\ todo' = [todo EXCEPT ![w] =
                        IF job[w].type = "gen_paraphrases" THEN Survey[r] ELSE {}]
        /\ Goto(w, IF raises THEN "markFailed" ELSE "work")
        /\ UNCHANGED <<db, api, queue, job, outbox, background, strays, paid,
                       undisturbed>>

-----------------------------------------------------------------------------
(* The work of the handlers *)

\* Mutant: the pool is generated and not stored.
PoolsWithout(j) == pools
PoolsWith(j) == IF j.type = "gen_personas" THEN pools \cup {Audience[j.run]} ELSE pools

\* handle_gen_personas: get_or_create_pool.  handle_analyze: report upsert.
WriteProduct(w) ==
    /\ pc[w] = "work" /\ job[w].type \in {"gen_personas", "analyze"}
    /\ pools' = PoolsWith(job[w])
    /\ reports' = IF job[w].type = "analyze"
                  THEN reports \cup {job[w].run} ELSE reports
    /\ Goto(w, "advance")
    /\ UNCHANGED <<status, cache, responses, api, queue, job, seen, outbox,
                   generators, paid, undisturbed>>

\* generate_pool_in_memory: the audience matches nobody.
NobodyMatches(w) ==
    /\ pc[w] = "work" /\ job[w].type = "gen_personas"
    /\ Audience[job[w].run] \notin pools
    /\ Goto(w, "markFailed")
    /\ UNCHANGED <<status, db, api, queue, job, seen, outbox, generators, paid,
                   undisturbed>>

\* _generate_for_question ends for q: cached already, generated and stored, or
\* given up after MAX_RETRIES invalid answers, which stores nothing.
Generate(w, q) ==
    /\ pc[w] = "work" /\ job[w].type = "gen_paraphrases"
    /\ q \in todo[w]
    /\ cache' \in {cache, cache \cup {Text[q]}}
    /\ todo' = [todo EXCEPT ![w] = @ \ {q}]
    /\ UNCHANGED <<status, pools, responses, reports, api, queue, pc, job,
                   seen, outbox, background, strays, paid, undisturbed>>

Generated(w) ==
    /\ pc[w] = "work" /\ job[w].type = "gen_paraphrases"
    /\ todo[w] = {}
    /\ Goto(w, "advance")
    /\ UNCHANGED <<status, db, api, queue, job, seen, outbox, generators,
                   paid, undisturbed>>

\* A generator raises out of asyncio.gather: a call of its own fails, or it runs
\* into the commit of another generator in the one session they share.  The
\* others keep running.
GatherRaises(w, q) ==
    /\ pc[w] = "work" /\ job[w].type = "gen_paraphrases"
    /\ q \in todo[w]
    /\ \/ /\ todo[w] # {q} /\ \E p \in todo[w] : Text[p] \notin cache
          /\ faults' = faults \cup {<<"loose", job[w].run>>}
          /\ UNCHANGED hits
       \/ todo[w] = {q} /\ Text[q] \notin cache /\ Hit("llm", job[w].run)
    /\ background' = [background EXCEPT ![w] = todo[w] \ {q}]
    /\ todo' = [todo EXCEPT ![w] = {}]
    /\ Goto(w, "markFailed")
    /\ UNCHANGED <<status, db, api, queue, job, seen, outbox, strays, paid>>

BackgroundGenerate(w, q) ==
    /\ q \in background[w] \cup strays[w]
    /\ cache' \in {cache, cache \cup {Text[q]}}
    /\ background' = [background EXCEPT ![w] = @ \ {q}]
    /\ strays' = [strays EXCEPT ![w] = @ \ {q}]
    /\ UNCHANGED <<status, pools, responses, reports, api, queue, pc, job,
                   seen, outbox, todo, paid, undisturbed>>

\* handle_run_probe loads pool and paraphrases and puts the question to the
\* swarm.  _probe_one swallows every failure: none of the calls may succeed.
Ask(w) ==
    LET r == job[w].run
        q == job[w].q
        ready == Audience[r] \in pools /\ Text[First[r][q]] \in cache
    IN  /\ pc[w] = "work" /\ job[w].type = "run_probe"
        /\ \/ /\ ~ready
              /\ Goto(w, "markFailed")
              /\ UNCHANGED <<paid, undisturbed>>
           \/ /\ ready
              /\ paid' = [paid EXCEPT ![r][q] = @ + 1]
              /\ \/ Goto(w, "persist") /\ UNCHANGED undisturbed
                 \/ Goto(w, "check") /\ Hit("llm", r)
        /\ UNCHANGED <<status, db, api, queue, job, seen, outbox, generators>>

Persist(w) ==
    /\ pc[w] = "persist"
    /\ LET r == job[w].run
       IN  responses' = [responses EXCEPT ![r] = @ \cup {First[r][job[w].q]}]
    /\ Goto(w, "check")
    /\ UNCHANGED <<status, pools, cache, reports, api, queue, job, seen,
                   outbox, generators, paid, undisturbed>>

\* The questions the probes of r ask: the first of each id.
Asked(r) == {First[r][q] : q \in Survey[r]}

\* _all_question_probes_done: every id has a row.
AllProbed(r) == Asked(r) \subseteq responses[r]

CheckDone(w) ==
    /\ pc[w] = "check"
    /\ Goto(w, IF AllProbed(job[w].run) THEN "advance" ELSE "ack")
    /\ UNCHANGED <<status, db, api, queue, job, seen, outbox, generators,
                   paid, undisturbed>>

-----------------------------------------------------------------------------
(* The status write and the messages that follow it *)

\* A survey without such questions: probing is set and nothing is enqueued.
SkipsProbes(j) == j.type = "gen_paraphrases" /\ Survey[j.run] = {}

\* Mutant: enforce=False.
Unchecked(w, t) == TRUE

\* assert_can_transition, on the row the session holds.
Checked(w, t) == CanTransition(seen[w], t)

\* set_run_status with enforce=True: the UPDATE is on the row there is.
Advance(w) ==
    LET r == job[w].run
        t == IF pc[w] = "skip" THEN "probing" ELSE Target[job[w].type]
        after == IF pc[w] = "advance" /\ SkipsProbes(job[w]) THEN "skip"
                 ELSE IF FollowUps(job[w]) = {} THEN "ack" ELSE "emit"
        allowed == Checked(w, t)
    IN  /\ pc[w] \in {"advance", "skip"}
        /\ status' = IF allowed THEN [status EXCEPT ![r] = t] ELSE status
        /\ seen' = IF allowed THEN [seen EXCEPT ![w] = t] ELSE seen
        /\ outbox' = [outbox EXCEPT ![w] = IF allowed /\ after = "emit"
                                           THEN FollowUps(job[w]) ELSE {}]
        /\ Goto(w, IF allowed THEN after ELSE "markFailed")
        /\ UNCHANGED <<db, api, queue, job, generators, paid, undisturbed>>

Emit(w, m) ==
    /\ pc[w] = "emit" /\ m \in outbox[w]
    /\ stream' = Append(stream, m)
    /\ outbox' = [outbox EXCEPT ![w] = @ \ {m}]
    /\ Goto(w, IF outbox[w] = {m} THEN "ack" ELSE "emit")
    /\ UNCHANGED <<status, db, api, dlq, orphans, job, seen, generators, paid,
                   undisturbed>>

EmitFails(w, m) ==
    /\ pc[w] = "emit" /\ m \in outbox[w]
    /\ \/ Hit("lost", job[w].run) /\ UNCHANGED stream
       \/ Hit("landed", job[w].run) /\ stream' = Append(stream, m)
    /\ outbox' = [outbox EXCEPT ![w] = {}]
    /\ Goto(w, "markFailed")
    /\ UNCHANGED <<status, db, api, dlq, orphans, job, seen, generators,
                   paid>>

-----------------------------------------------------------------------------
(* Errors, retries, acknowledgement *)

\* A statement of the handler, or of the last generator, raises; what it had not committed is undone.
\* dispatch does not roll back before it records the failure in this session,
\* so recording it may raise as well.
StatementRaises(w) ==
    /\ pc[w] \in {"load", "work", "persist", "check", "advance", "skip"}
    /\ \A p, q \in todo[w] : p = q
    /\ Hit("db", job[w].run)
    /\ todo' = [todo EXCEPT ![w] = {}]
    /\ \E p \in {"markFailed", "settle"} : Goto(w, p)
    /\ UNCHANGED <<status, db, api, queue, job, seen, outbox, background,
                   strays, paid>>

\* Mutant: dispatch re-raises without recording the failure.
Unrecorded(r) == status
Failed(r) == [status EXCEPT ![r] = "failed"]

\* dispatch: set_run_status(..., "failed", enforce=False), whatever the status.
MarkFailed(w) ==
    /\ pc[w] = "markFailed"
    /\ status' = Failed(job[w].run)
    /\ Goto(w, "settle")
    /\ UNCHANGED <<db, api, queue, job, seen, outbox, generators, paid,
                   undisturbed>>

\* The same UPDATE raises: the database, or a generator still using the session.
MarkFailedRaises(w) ==
    /\ pc[w] = "markFailed"
    /\ \/ background[w] # {} /\ UNCHANGED undisturbed
       \/ background[w] = {} /\ Hit("db", job[w].run)
    /\ Goto(w, "settle")
    /\ UNCHANGED <<status, db, api, queue, job, seen, outbox, generators,
                   paid>>

Release(w) ==
    /\ Goto(w, "idle")
    /\ job' = [job EXCEPT ![w] = None]
    /\ seen' = [seen EXCEPT ![w] = "none"]
    /\ background' = [background EXCEPT ![w] = {}]

\* XACK after dispatch, or after the retry or the dead letter has been added.
Ack(w) ==
    /\ pc[w] \in {"ack", "ackOld"}
    /\ Release(w)
    /\ strays' = [strays EXCEPT ![w] = @ \cup background[w]]
    /\ UNCHANGED <<status, db, api, queue, outbox, todo, paid, undisturbed>>

\* The XACK inside the try block raises: the finished job is taken for failed.
AckFails(w) ==
    /\ pc[w] = "ack"
    /\ Hit("ack", job[w].run)
    /\ Goto(w, "settle")
    /\ UNCHANGED <<status, db, api, queue, job, seen, outbox, generators,
                   paid>>

\* Mutants of the retry: one attempt too many; acknowledged, not enqueued.
MayRetryOnceMore(j) == j.attempt <= MAX_ATTEMPTS
NotRequeued(j) == stream

MayRetry(j) == j.attempt < MAX_ATTEMPTS
Requeued(j) == Append(stream, [j EXCEPT !.attempt = @ + 1])

Retry(w) ==
    /\ pc[w] = "settle" /\ MayRetry(job[w])
    /\ stream' = Requeued(job[w])
    /\ Goto(w, "ackOld")
    /\ UNCHANGED <<status, db, api, dlq, orphans, job, seen, outbox,
                   generators, paid, undisturbed>>

DeadLetter(w) ==
    /\ pc[w] = "settle" /\ ~MayRetry(job[w])
    /\ dlq' = dlq \cup {job[w]}
    /\ Goto(w, "ackOld")
    /\ UNCHANGED <<status, db, api, stream, orphans, job, seen, outbox,
                   generators, paid, undisturbed>>

\* The process dies, or Redis raises outside the try block.  Its successor is
\* a new consumer: what the old one had received is not delivered again.
Crash(w) ==
    /\ pc[w] # "idle"
    /\ Hit("crash", job[w].run)
    /\ orphans' = orphans \cup {job[w]}
    /\ Release(w)
    /\ outbox' = [outbox EXCEPT ![w] = {}]
    /\ todo' = [todo EXCEPT ![w] = {}]
    /\ strays' = [strays EXCEPT ![w] = {}]
    /\ UNCHANGED <<status, db, api, stream, dlq, paid>>

-----------------------------------------------------------------------------
Accept(r) == CreateRun(r) \/ EnqueueFirst(r)

\* What a worker does unless something disturbs it.
Step(w) ==
    \/ Consume(w) \/ Load(w)
    \/ WriteProduct(w) \/ NobodyMatches(w) \/ Generated(w) \/ (\E q \in Questions : Generate(w, q))
    \/ Ask(w) \/ Persist(w) \/ CheckDone(w)
    \/ Advance(w) \/ (\E m \in outbox[w] : Emit(w, m))
    \/ MarkFailed(w) \/ Retry(w) \/ DeadLetter(w) \/ Ack(w)

Disturb(w) ==
    \/ \E q \in Questions : GatherRaises(w, q) \/ BackgroundGenerate(w, q)
    \/ \E m \in outbox[w] : EmitFails(w, m)
    \/ StatementRaises(w) \/ MarkFailedRaises(w) \/ AckFails(w) \/ Crash(w)

Next ==
    \/ \E r \in Runs : Accept(r) \/ LoseFirst(r)
    \/ \E w \in Workers : Step(w) \/ Disturb(w)

Spec == Init /\ [][Next]_vars

\* The API process and every worker loop keep running; no disturbance is owed.
FairSpec ==
    /\ Spec
    /\ \A r \in Runs : WF_vars(EnqueueFirst(r))
    /\ \A w \in Workers : WF_vars(Step(w))

-----------------------------------------------------------------------------
(* Properties *)

TypeOK ==
    /\ status \in [Runs -> RunStatuses \cup {"none"}]
    /\ pools \subseteq Audiences /\ cache \subseteq Texts
    /\ reports \subseteq Runs
    /\ responses \in [Runs -> SUBSET Questions]
    /\ api \in [Runs -> {"none", "posting", "accepted", "dropped"}]
    /\ stream \in Seq(Jobs) /\ dlq \subseteq Jobs /\ orphans \subseteq Jobs
    /\ pc \in [Workers -> {"idle", "load", "work", "persist", "check", "advance",
                            "skip", "emit", "ack", "markFailed", "settle", "ackOld"}]
    /\ job \in [Workers -> Jobs \cup {None}]
    /\ \A w \in Workers : pc[w] # "idle" => job[w] \in Jobs
    /\ \A w \in Workers : pc[w] \in {"persist", "check"} => job[w].type = "run_probe"
    /\ seen \in [Workers -> RunStatuses \cup {"none"}]
    /\ outbox \in [Workers -> SUBSET Jobs]
    /\ todo \in [Workers -> SUBSET Questions]
    /\ background \in [Workers -> SUBSET Questions]
    /\ strays \in [Workers -> SUBSET Questions]
    /\ paid \in [Runs -> [Questions -> Nat]]
    /\ faults \subseteq (FaultKinds \cup {"loose"}) \X Runs /\ hits \in 0 .. MaxFaults

Hurt(r, kinds) == \E k \in kinds : <<k, r>> \in faults

\* No run the workers drive ever gets beyond paraphrases_ready, or probing when
\* it has nothing to probe: handle_run_probe sets stats_running on a row it
\* found paraphrases_ready and never makes it probing, so analyze_job is not
\* reached, whatever fails or does not fail on the way.
NeverReported ==
    /\ \A r \in Runs : status[r] \notin {"stats_running", "completed"}
    /\ reports = {}

\* A status, and a collected row, has what it is built from: the pool of the
\* audience, and for a row the paraphrases of its question.  The handlers read
\* these by key and in later messages than the ones that wrote them.
ProductsBehindStatus ==
    \A r \in Runs :
        /\ status[r] \in {"personas_ready", "paraphrases_ready", "probing"}
               => Audience[r] \in pools
        /\ responses[r] # {} => Audience[r] \in pools
        /\ responses[r] \subseteq Asked(r)
        /\ \A q \in responses[r] : Text[q] \in cache

\* Some message or request still works for run r.
Outstanding(r) ==
    \/ api[r] = "posting"
    \/ \E i \in DOMAIN stream : stream[i].run = r
    \/ \E w \in Workers : pc[w] # "idle" /\ job[w].run = r

\* A run that is not finished and that nothing works for any more got there in
\* one of these ways: its first message was never enqueued, a message died with
\* its worker, its message was given up with the failure unrecorded, its survey
\* has nothing to probe, or every call of a probe failed and the probe was
\* acknowledged without a row.  No other failure, and no order of the others,
\* loses a probe or the check of the last one.
StallHasACause ==
    \A r \in Runs : status[r] \in ActiveStatuses /\ ~Outstanding(r) =>
        \/ api[r] = "dropped"
        \/ \E m \in orphans \cup dlq : m.run = r
        \/ status[r] = "probing" /\ Survey[r] = {}
        \/ status[r] = "paraphrases_ready" /\ ~AllProbed(r) /\ Hurt(r, {"llm"})

\* A probe does not ask the swarm twice, because its first failure is also the
\* end of its run -- unless that failure could not be recorded or Redis
\* reported an error for a command it had executed.  This counts by entry of
\* the survey: questions of one id are one question to the handler, which asks
\* it, and pays for it, once for each of them.
PaidOnce ==
    \A r \in Runs, q \in Questions :
        paid[r][q] > 1 => Hurt(r, {"db", "ack", "landed"})

\* A dead letter belongs to a failed run, unless recording the failure can have
\* raised or a duplicated job can have written the status after it.
DeadLetterIsFailed ==
    \A m \in dlq :
        \/ status[m.run] = "failed"
        \/ Hurt(m.run, {"db", "ack", "landed", "loose"})

\* What the status table promises holds of a run as long as Redis has not
\* reported an error for a command it executed.
StatusForward ==
    [][\A r \in Runs :
          \/ status'[r] = status[r]
          \/ status[r] = "none" /\ status'[r] = "pending"
          \/ CanTransition(status[r], status'[r])
          \/ Hurt(r, {"ack", "landed"})]_vars

\* The pipeline implements the run lifecycle.
Lifecycle == INSTANCE RunLifecycle WITH Runs <- Runs, status <- status
Implements == Lifecycle!Spec

\* An accepted upload does not hang while nothing is disturbed: it fails, or is
\* given up as a dead letter, or is left at probing with nothing to probe.
UploadSettles ==
    \A r \in Runs : api[r] = "posting" ~>
        \/ status[r] = "failed"
        \/ status[r] = "probing" /\ Survey[r] = {}
        \/ \E m \in dlq : m.run = r

\* README.md: custom uploads run end-to-end.  Once every question of a run has
\* been answered, the run completes.
AnsweredRunCompletes ==
    \A r \in Runs : Survey[r] # {} =>
        (AllProbed(r) ~> status[r] = "completed")

\* README.md: after a worker crash in the middle of a run its jobs are run again
\* and converge.  Every accepted upload reaches completed or failed.
RunEnds ==
    \A r \in Runs : api[r] = "posting" ~> status[r] \in TerminalStatuses

\* worker/state.py and its tests: a failed run stays failed.
FailedIsFinal ==
    [][\A r \in Runs : status[r] = "failed" => status'[r] = "failed"]_vars
==============================================================================
