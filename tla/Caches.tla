-------------------------------- MODULE Caches --------------------------------
(***************************************************************************)
(* What the runs of one audience share: the row of persona_pools, the rows *)
(* of paraphrase_cache of questions that read the same, and the ledger     *)
(* llm_calls.  get_or_create_pool, _generate_for_question and              *)
(* handle_run_probe, each with the session of its job: what the session    *)
(* was given is stored by whatever commits next, and lost when it closes.  *)
(*                                                                         *)
(* The generators of one job share its session, and when one of them       *)
(* raises the others go on in it after dispatch has closed it.             *)
(*                                                                         *)
(* The jobs of one run follow each other here; RunPipeline has the queue,  *)
(* and shows that no run gets beyond its probes.  Of the probes of a run,  *)
(* which have a session each, one is followed, that of any question.       *)
(***************************************************************************)
EXTENDS RunStatus, Naturals, FiniteSets

CONSTANTS
    Runs,
    Questions, Texts,
    Text,           \* Text[q]: what question q says
    Annotated,      \* what the questions of the sample surveys say
    Survey,         \* Survey[r]: the questions of run r
    Probed,         \* Probed[r]: the one the probe of which is followed
    Cells,          \* persona and paraphrase index of the calls of a probe
    MAX_RETRIES,    \* calls _generate_for_question makes for five good paraphrases
    MAX_ATTEMPTS,   \* of a job
    Fragile,        \* bound: runs that are disturbed, once each, by the database or a crash
    None, Hand      \* no row; the paraphrases of the annotations

Attempts == Runs \X (1 .. MAX_ATTEMPTS)
Generators == Runs \X (1 .. MAX_ATTEMPTS) \X Questions

ASSUME CachesAssumption ==
    /\ Text \in [Questions -> Texts] /\ Annotated \subseteq Texts
    /\ Survey \in [Runs -> SUBSET Questions]
    /\ Probed \in [Runs -> Questions] /\ \A r \in Runs : Probed[r] \in Survey[r]
    /\ MAX_RETRIES \in Nat \ {0} /\ MAX_ATTEMPTS \in Nat \ {0}
    /\ None \notin Attempts \cup Generators /\ None # Hand /\ Hand \notin Generators

VARIABLES
    pool,       \* persona_pools: the attempt that generated it, or None
    words,      \* paraphrase_cache, by text: the generator, Hand, or None
    rows,       \* probe_responses of that probe: [cell, pool, words] they were asked with
    status,     \* runs.status
    stage, attempt, step,   \* the job of a run and where it is
    gen,        \* where a generator is, and the calls it has made in vain
    held,       \* the pool and the wordings a probe has loaded
    answers,    \* cells that are answered and not yet stored
    holding,    \* sessions that hold ledger rows of paid calls
    lost,       \* runs a session of which closed with some
    torn,       \* runs a generator of which raised while others went on
    cut,        \* runs that lost a worker, or a statement of which failed
    edited      \* runs whose paraphrases were edited after they had been asked with

tables == <<pool, words, rows, status>>
place == <<stage, attempt, step>>
memory == <<held, answers>>
money == <<holding, lost>>
marks == <<torn, cut, edited>>
vars == <<tables, place, gen, memory, money, marks>>

Stages == {"gen_personas", "gen_paraphrases", "run_probe"}
Sessions == Runs \X Stages \X (1 .. MAX_ATTEMPTS)

\* The session of the job of a run.
Session(r) == <<r, stage[r], attempt[r]>>

Gets(s) == [step |-> s, tries |-> 0]
Idle == Gets("idle")

Init ==
    /\ pool = None /\ words = [t \in Texts |-> None]
    /\ rows = [r \in Runs |-> {}] /\ status = [r \in Runs |-> "pending"]
    /\ stage = [r \in Runs |-> "gen_personas"]
    /\ attempt = [r \in Runs |-> 1]
    /\ step = [r \in Runs |-> "begin"]
    /\ gen = [g \in Generators |-> Idle]
    /\ held = [r \in Runs |-> [pool |-> None, words |-> None]]
    /\ answers = [r \in Runs |-> {}]
    /\ holding = {} /\ lost = {}
    /\ torn = {} /\ cut = {} /\ edited = {}

At(r, g, s) == stage[r] = g /\ step[r] = s

Goto(r, s) == step' = [step EXCEPT ![r] = s] /\ UNCHANGED <<stage, attempt>>

\* The generators of an attempt that are not through.
Live(r, a) == {q \in Questions : gen[<<r, a, q>>].step # "idle"}

\* The job that waits for the generators of attempt a.
Gathers(r, a) == At(r, "gen_paraphrases", "gather") /\ attempt[r] = a

-----------------------------------------------------------------------------
(* The session *)

\* What session s has (and is given now, if calls are paid) it keeps, has stored by a
\* commit, whatever that is for, or loses when it closes without one.
Book(s, paid, fate) ==
    LET has == paid \/ s \in holding
    IN  /\ holding' = IF has /\ fate = "kept" THEN holding \cup {s} ELSE holding \ {s}
        /\ lost' = IF has /\ fate = "dropped" THEN lost \cup {s[1]} ELSE lost

Commit(s) == Book(s, FALSE, "stored")
Close(s) == Book(s, FALSE, "dropped")

Forget(r) ==
    /\ held' = [held EXCEPT ![r] = [pool |-> None, words |-> None]]
    /\ answers' = [answers EXCEPT ![r] = {}]

\* The worker loop: the job is enqueued again, up to MAX_ATTEMPTS times.
Retry(r) ==
    /\ IF attempt[r] < MAX_ATTEMPTS
       THEN /\ attempt' = [attempt EXCEPT ![r] = @ + 1]
            /\ step' = [step EXCEPT ![r] = "begin"]
       ELSE /\ step' = [step EXCEPT ![r] = "dead"]
            /\ UNCHANGED attempt
    /\ Forget(r)
    /\ UNCHANGED stage

\* Mutant: dispatch takes a new session for it.
MarkFailedAfresh(r) ==
    /\ status' = [status EXCEPT ![r] = "failed"]
    /\ Close(Session(r))

\* dispatch: the update to failed goes through the session of the handler.
MarkFailed(r) ==
    /\ status' = [status EXCEPT ![r] = "failed"]
    /\ Commit(Session(r))

\* The handler raises.
Raise(r) ==
    /\ MarkFailed(r) /\ Retry(r)
    /\ UNCHANGED <<pool, words, rows, gen, marks>>

Target == [gen_personas |-> "personas_ready", gen_paraphrases |-> "paraphrases_ready",
           run_probe |-> "stats_running"]
Successor == [gen_personas |-> "gen_paraphrases", gen_paraphrases |-> "run_probe"]

\* The body of the handler is done, and all generators are.
Ready(r) ==
    \/ step[r] = "advance"
    \/ Gathers(r, attempt[r]) /\ Live(r, attempt[r]) = {}

\* set_run_status and the next job; a status that is not allowed raises, and always
\* does so after a probe.
Advance(r) ==
    /\ Ready(r)
    /\ IF ~CanTransition(status[r], Target[stage[r]]) THEN Raise(r)
       ELSE /\ Commit(Session(r)) /\ Forget(r)
            /\ status' = [status EXCEPT ![r] = Target[stage[r]]]
            /\ stage' = [stage EXCEPT ![r] = Successor[@]]
            /\ attempt' = [attempt EXCEPT ![r] = 1]
            /\ step' = [step EXCEPT ![r] = "begin"]
            /\ UNCHANGED <<pool, words, rows, gen, marks>>

Works(r) == step[r] \notin {"dead", "lost", "returned"}

Cuttable(r) == r \in Fragile \ cut

\* Generator q raises out of asyncio.gather; the others keep running.
Leave(r, q) ==
    /\ Gathers(r, attempt[r]) /\ q \in Live(r, attempt[r])
    /\ gen' = [gen EXCEPT ![<<r, attempt[r], q>>] = Idle]
    /\ torn' = torn \cup (IF Live(r, attempt[r]) = {q} THEN {} ELSE {r})

\* A statement raises: the transaction is undone, and what the session holds goes
\* with it or not.  The update to failed may raise too.
StatementFails(r) ==
    /\ Works(r) /\ Cuttable(r)
    /\ \/ status' = status /\ Close(Session(r))
       \/ status' = [status EXCEPT ![r] = "failed"] /\ Close(Session(r))
       \/ MarkFailed(r)
    /\ \/ \E q \in Questions : Leave(r, q)
       \/ ~(Gathers(r, attempt[r]) /\ Live(r, attempt[r]) # {}) /\ UNCHANGED <<gen, torn>>
    /\ cut' = cut \cup {r}
    /\ Retry(r)
    /\ UNCHANGED <<pool, words, rows, edited>>

\* The worker dies that has the job of a run; nobody claims its message.
WorkerLost(r) ==
    /\ Works(r) /\ Cuttable(r)
    /\ gen' = [g \in Generators |->
                 IF Gathers(r, attempt[r]) /\ g[1] = r /\ g[2] = attempt[r] THEN Idle ELSE gen[g]]
    /\ cut' = cut \cup {r}
    /\ Goto(r, "lost") /\ Close(Session(r)) /\ Forget(r)
    /\ UNCHANGED <<tables, torn, edited>>

-----------------------------------------------------------------------------
(* pool_generator.py: get_or_create_pool *)

LookUpPool(r) ==
    /\ At(r, "gen_personas", "begin")
    /\ Goto(r, IF pool = None THEN "make" ELSE "advance")
    /\ UNCHANGED <<tables, gen, memory, money, marks>>

\* Mutant: ON CONFLICT DO UPDATE.
Last(there, mine) == mine

\* ON CONFLICT DO NOTHING.
First(there, mine) == IF there = None THEN mine ELSE there

\* generate_pool_in_memory gives every persona a new id.
StorePool(r) ==
    /\ At(r, "gen_personas", "make")
    /\ pool' = First(pool, <<r, attempt[r]>>)
    /\ Goto(r, "advance") /\ Commit(Session(r))
    /\ UNCHANGED <<words, rows, status, gen, memory, marks>>

\* The audience matches nobody.
NoPool(r) == At(r, "gen_personas", "make") /\ Raise(r)

-----------------------------------------------------------------------------
(* paraphrase_gen.py: _generate_for_question, in the session of its job *)

Paraphrasing(r, a) == <<r, "gen_paraphrases", a>>

Gather(r) ==
    /\ At(r, "gen_paraphrases", "begin")
    /\ gen' = [g \in Generators |->
                 IF g[1] = r /\ g[2] = attempt[r] /\ g[3] \in Survey[r]
                 THEN Gets("look") ELSE gen[g]]
    /\ Goto(r, "gather")
    /\ UNCHANGED <<tables, memory, money, marks>>

\* What becomes of the session when generator q ends without a commit: nobody but
\* the generators has it once the job is over.
Abandoned(r, a, q) ==
    IF ~Gathers(r, a) /\ Live(r, a) = {q} THEN "dropped" ELSE "kept"

LookUpWords(r, a, q) ==
    /\ gen[<<r, a, q>>].step = "look"
    /\ IF words[Text[q]] = None
       THEN gen' = [gen EXCEPT ![<<r, a, q>>] = Gets("call")] /\ UNCHANGED money
       ELSE /\ gen' = [gen EXCEPT ![<<r, a, q>>] = Idle]
            /\ Book(Paraphrasing(r, a), FALSE, Abandoned(r, a, q))
    /\ UNCHANGED <<tables, place, memory, marks>>

\* Mutant: one call too many.
AskHaikuMore(r, a, q) ==
    LET g == <<r, a, q>>
        GaveUp == gen[g].tries = MAX_RETRIES
    IN  /\ gen[g].step = "call"
        /\ \/ gen' = [gen EXCEPT ![g] = Gets("store")] /\ Book(Paraphrasing(r, a), TRUE, "kept")
           \/ ~GaveUp /\ gen' = [gen EXCEPT ![g].tries = @ + 1] /\ Book(Paraphrasing(r, a), TRUE, "kept")
           \/ /\ GaveUp /\ gen' = [gen EXCEPT ![g] = Idle]
              /\ Book(Paraphrasing(r, a), TRUE, Abandoned(r, a, q))
        /\ UNCHANGED <<tables, place, memory, marks>>

\* One answer of Haiku, with five paraphrases that pass or not.  After the last
\* try the generator ends without them.
AskHaiku(r, a, q) ==
    LET g == <<r, a, q>>
        GaveUp == gen[g].tries + 1 = MAX_RETRIES
    IN  /\ gen[g].step = "call"
        /\ \/ gen' = [gen EXCEPT ![g] = Gets("store")] /\ Book(Paraphrasing(r, a), TRUE, "kept")
           \/ ~GaveUp /\ gen' = [gen EXCEPT ![g].tries = @ + 1] /\ Book(Paraphrasing(r, a), TRUE, "kept")
           \/ /\ GaveUp /\ gen' = [gen EXCEPT ![g] = Idle]
              /\ Book(Paraphrasing(r, a), TRUE, Abandoned(r, a, q))
        /\ UNCHANGED <<tables, place, memory, marks>>

\* A generator raises, by its own call (the circuit is open, or it has failed five
\* times) or because it runs into another one in the session, which the update to
\* failed may do, too.
GatherRaises(r, q) ==
    LET alone == Live(r, attempt[r]) = {q}
    IN  /\ Leave(r, q)
        /\ alone => gen[<<r, attempt[r], q>>].step = "call"
        /\ \/ MarkFailed(r)
           \/ ~alone /\ status' = status /\ Close(Session(r))
        /\ Retry(r)
        /\ UNCHANGED <<pool, words, rows, cut, edited>>

\* Later nobody hears of it.
StrayRaises(r, a, q) ==
    /\ ~Gathers(r, a) /\ q \in Live(r, a)
    /\ gen' = [gen EXCEPT ![<<r, a, q>>] = Idle]
    /\ Book(Paraphrasing(r, a), FALSE, Abandoned(r, a, q)) \/ Close(Paraphrasing(r, a))
    /\ UNCHANGED <<tables, place, memory, marks>>

\* The worker dies that has the generators a job has left behind.
StraysLost(r, a) ==
    /\ ~Gathers(r, a) /\ Live(r, a) # {} /\ Cuttable(r)
    /\ gen' = [g \in Generators |-> IF g[1] = r /\ g[2] = a THEN Idle ELSE gen[g]]
    /\ cut' = cut \cup {r}
    /\ Close(Paraphrasing(r, a))
    /\ UNCHANGED <<tables, place, memory, torn, edited>>

\* Mutant: ON CONFLICT DO UPDATE here, too.
StoreWordsLast(r, a, q) ==
    /\ gen[<<r, a, q>>].step = "store"
    /\ words' = [words EXCEPT ![Text[q]] = Last(@, <<r, a, q>>)]
    /\ gen' = [gen EXCEPT ![<<r, a, q>>] = Idle]
    /\ Commit(Paraphrasing(r, a))
    /\ UNCHANGED <<pool, rows, status, place, memory, marks>>

StoreWords(r, a, q) ==
    /\ gen[<<r, a, q>>].step = "store"
    /\ words' = [words EXCEPT ![Text[q]] = First(@, <<r, a, q>>)]
    /\ gen' = [gen EXCEPT ![<<r, a, q>>] = Idle]
    /\ Commit(Paraphrasing(r, a))
    /\ UNCHANGED <<pool, rows, status, place, memory, marks>>

\* precompute_reports.py, _populate_paraphrase_cache: ON CONFLICT DO UPDATE.
EditWords(t) ==
    /\ words' = [words EXCEPT ![t] = Hand]
    /\ edited' = edited \cup {r \in Runs : /\ Text[Probed[r]] = t
                                          /\ (held[r].words # None \/ rows[r] # {})}
    /\ UNCHANGED <<pool, rows, status, place, gen, memory, money, torn, cut>>

-----------------------------------------------------------------------------
(* probe_response.py: handle_run_probe *)

\* Another probe of the run has failed.  It makes no difference once this one has
\* read the status: at its end no status of the run lets it advance.
AnotherFails(r) ==
    /\ At(r, "run_probe", "begin") /\ Survey[r] # {Probed[r]}
    /\ status' = [status EXCEPT ![r] = "failed"]
    /\ UNCHANGED <<pool, words, rows, place, gen, memory, money, marks>>

\* A failed run cannot become probing; pool or paraphrases may be missing.
LoadPool(r) ==
    LET said == words[Text[Probed[r]]]
    IN  /\ At(r, "run_probe", "begin")
        /\ IF status[r] # "paraphrases_ready" \/ pool = None \/ said = None THEN Raise(r)
           ELSE /\ held' = [held EXCEPT ![r] = [pool |-> pool, words |-> said]]
                /\ Goto(r, "ask")
                /\ UNCHANGED <<tables, gen, answers, money, marks>>

\* The calls of the swarm.  Some are answered, some of the answers hold no tool
\* call and are dropped although they are paid, the others fail.
AskSwarm(r) ==
    /\ At(r, "run_probe", "ask")
    /\ \E good \in SUBSET Cells, useless \in SUBSET Cells :
          /\ good \cap useless = {}
          /\ answers' = [answers EXCEPT ![r] = good]
          /\ Book(Session(r), good \cup useless # {}, "kept")
    /\ Goto(r, "persist")
    /\ UNCHANGED <<tables, gen, held, marks>>

\* The upsert on run, persona, question and paraphrase.
Upserted(r) ==
    {x \in rows[r] : ~(x.pool = held[r].pool /\ x.cell \in answers[r])}
        \cup {[cell |-> c, pool |-> held[r].pool, words |-> held[r].words] : c \in answers[r]}

\* _persist_responses: without an answer there is no commit.
Persist(r) ==
    /\ At(r, "run_probe", "persist")
    /\ Goto(r, "check")
    /\ IF answers[r] = {} THEN UNCHANGED <<rows, money>>
       ELSE rows' = [rows EXCEPT ![r] = Upserted(r)] /\ Commit(Session(r))
    /\ UNCHANGED <<pool, words, status, gen, memory, marks>>

\* _all_question_probes_done; otherwise the handler returns, and the session closes
\* with what it was given.
CheckDone(r) ==
    /\ At(r, "run_probe", "check")
    /\ \/ rows[r] # {} /\ Goto(r, "advance") /\ UNCHANGED money
       \/ /\ rows[r] = {} \/ Survey[r] # {Probed[r]}
          /\ Goto(r, "returned") /\ Close(Session(r))
    /\ UNCHANGED <<tables, gen, memory, marks>>

-----------------------------------------------------------------------------
Next ==
    \/ \E t \in Annotated : EditWords(t)
    \/ \E r \in Runs :
          \/ LookUpPool(r) \/ StorePool(r) \/ NoPool(r)
          \/ Gather(r) \/ (\E q \in Questions : GatherRaises(r, q))
          \/ LoadPool(r) \/ AskSwarm(r) \/ Persist(r) \/ CheckDone(r) \/ AnotherFails(r)
          \/ Advance(r) \/ StatementFails(r) \/ WorkerLost(r)
    \/ \E r \in Runs, a \in 1 .. MAX_ATTEMPTS :
          \/ StraysLost(r, a)
          \/ \E q \in Questions : \/ LookUpWords(r, a, q) \/ AskHaiku(r, a, q)
                                  \/ StoreWords(r, a, q) \/ StrayRaises(r, a, q)

Spec == Init /\ [][Next]_vars

-----------------------------------------------------------------------------
(* Properties *)

Row == [cell : Cells, pool : Attempts, words : Generators \cup {Hand}]

TypeOK ==
    /\ pool \in Attempts \cup {None}
    /\ words \in [Texts -> Generators \cup {Hand, None}]
    /\ rows \in [Runs -> SUBSET Row]
    /\ status \in [Runs -> RunStatuses]
    /\ stage \in [Runs -> Stages]
    /\ attempt \in [Runs -> 1 .. MAX_ATTEMPTS]
    /\ step \in [Runs -> {"begin", "make", "gather", "ask", "persist", "check",
                          "advance", "returned", "dead", "lost"}]
    /\ gen \in [Generators -> [step : {"idle", "look", "call", "store"}, tries : 0 .. MAX_RETRIES - 1]]
    /\ held \in [Runs -> [pool : Attempts \cup {None}, words : Generators \cup {Hand, None}]]
    /\ answers \in [Runs -> SUBSET Cells]
    /\ holding \subseteq Sessions
    /\ lost \subseteq Runs /\ torn \subseteq Runs /\ cut \subseteq Runs /\ edited \subseteq Runs

\* All runs of an audience put their questions to the same people, those of the
\* stored pool, although several of them may have generated one: the upsert of a
\* retried probe meets the rows of the first try.
OnePool == \A r \in Runs : \A x \in rows[r] : x.pool = pool

\* All runs ask a question in the same wordings, those a report would name, although
\* several of them may have generated some; only a precompute of a sample that has
\* the question too, after the run has read the paraphrases, comes between.
WordsAgree ==
    \A r \in Runs \ edited : \A x \in rows[r] : x.words = words[Text[Probed[r]]]

\* A paid call is missing in the ledger only if its run lost a worker or a statement,
\* if one of its generators raised while others went on, or if it was a call of a
\* probe all answers of which were useless.
LedgerGap ==
    \A r \in lost : r \in cut \cup torn \/ (step[r] = "returned" /\ answers[r] = {})
===============================================================================
