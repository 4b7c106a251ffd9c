-------------------------- MODULE RunPipelineProofs --------------------------
(***************************************************************************)
(* Theorems about RunPipeline, for every set of runs, workers, questions   *)
(* and audiences, every survey, and every kind and number of disturbances. *)
(***************************************************************************)
EXTENDS RunPipeline, TLAPS

-----------------------------------------------------------------------------
(* Lemmas about the operators of the model *)

\* A follow-up job is a well formed message of the same run.
LEMMA FollowUpsTyped ==
    ASSUME NEW j \in Jobs
    PROVE  FollowUps(j) \subseteq {m \in Jobs : m.run = j.run}
<1>1. 1 \in 1 .. MAX_ATTEMPTS
  BY ConstantsAssumption
<1>2. Survey[j.run] \subseteq Questions
  BY ConstantsAssumption DEF Jobs
<1>3. ASSUME NEW type \in JobTypes, NEW q \in Questions \cup {None},
             IF type = "run_probe" THEN q \in Survey[j.run] ELSE q = None
      PROVE  Job(type, j.run, q) \in {m \in Jobs : m.run = j.run}
  <2>1. j.run \in Runs
    BY DEF Jobs
  <2> QED
    BY <1>1, <1>3, <2>1 DEF Job, Jobs
<1>4. CASE j.type = "gen_personas"
  BY <1>3, <1>4 DEF FollowUps, JobTypes
<1>5. CASE j.type = "gen_paraphrases"
  BY <1>2, <1>3, <1>5 DEF FollowUps, JobTypes
<1>6. CASE j.type = "run_probe"
  BY <1>3, <1>6 DEF FollowUps, JobTypes
<1>7. CASE j.type = "analyze"
  BY <1>7 DEF FollowUps, JobTypes
<1> QED
  BY <1>4, <1>5, <1>6, <1>7 DEF Jobs, JobTypes

\* The status a handler aims at is a status of a run.
LEMMA TargetTyped ==
    ASSUME NEW j \in Jobs
    PROVE  Target[j.type] \in RunStatuses
  BY DEF Jobs, JobTypes, Target, RunStatuses, ActiveStatuses, TerminalStatuses

\* A retried job is a well formed message of the same run, type and question.
LEMMA RetryTyped ==
    ASSUME NEW j \in Jobs, MayRetry(j)
    PROVE  /\ [j EXCEPT !.attempt = @ + 1] \in Jobs
           /\ [j EXCEPT !.attempt = @ + 1].run = j.run
           /\ [j EXCEPT !.attempt = @ + 1].type = j.type
           /\ [j EXCEPT !.attempt = @ + 1].q = j.q
  BY ConstantsAssumption DEF Jobs, MayRetry

\* Each status is entered from one status only.
LEMMA Predecessor ==
    ASSUME NEW s
    PROVE  /\ CanTransition(s, "personas_ready") => s = "pending"
           /\ CanTransition(s, "paraphrases_ready") => s = "personas_ready"
           /\ CanTransition(s, "probing") => s = "paraphrases_ready"
           /\ CanTransition(s, "stats_running") => s = "probing"
<1> USE DEF CanTransition, ALLOWED_TRANSITIONS
<1>1. CASE s = "pending"
  BY <1>1
<1>2. CASE s = "personas_ready"
  BY <1>2
<1>3. CASE s = "paraphrases_ready"
  BY <1>3
<1>4. CASE s = "probing"
  BY <1>4
<1>5. CASE s = "stats_running"
  BY <1>5
<1>6. CASE s \in TerminalStatuses
  BY <1>6 DEF TerminalStatuses
<1> QED
  BY <1>1, <1>2, <1>3, <1>4, <1>5, <1>6 DEF RunStatuses, ActiveStatuses

-----------------------------------------------------------------------------
(* Type correctness *)

LEMMA InitTyped == Init => TypeOK
  BY ConstantsAssumption DEF Init, TypeOK, RunStatuses, ActiveStatuses

\* A disturbance leaves its record well formed.
LEMMA HitTyped ==
    ASSUME NEW k, NEW r \in Runs, Hit(k, r), TypeOK
    PROVE  /\ faults' \subseteq (FaultKinds \cup {"loose"}) \X Runs
           /\ hits' \in 0 .. MaxFaults
  BY ConstantsAssumption DEF Hit, TypeOK

\* A busy worker holds a message of a known type, run and question.
LEMMA JobTyped ==
    ASSUME TypeOK, NEW w \in Workers, pc[w] # "idle"
    PROVE  /\ job[w] \in Jobs
           /\ job[w].type \in JobTypes /\ job[w].run \in Runs
           /\ IF job[w].type = "run_probe" THEN job[w].q \in Survey[job[w].run]
                                           ELSE job[w].q = None
           /\ Audience[job[w].run] \in Audiences
           /\ Survey[job[w].run] \subseteq Questions
  BY ConstantsAssumption DEF TypeOK, Jobs

LEMMA StepTyped == TypeOK /\ [Next]_vars => TypeOK'
<1> SUFFICES ASSUME TypeOK, [Next]_vars PROVE TypeOK'
  OBVIOUS
<1>1. ASSUME NEW r \in Runs, CreateRun(r) PROVE TypeOK'
  BY <1>1 DEF TypeOK, CreateRun, RunStatuses, ActiveStatuses, db, queue, generators, undisturbed
<1>2. ASSUME NEW r \in Runs, EnqueueFirst(r) PROVE TypeOK'
  <2>1. Job("gen_personas", r, None) \in Jobs
    BY ConstantsAssumption DEF Job, Jobs, JobTypes
  <2> QED
    BY <1>2, <2>1 DEF TypeOK, EnqueueFirst, db, queue, generators, undisturbed
<1>3. ASSUME NEW r \in Runs, LoseFirst(r) PROVE TypeOK'
  BY <1>3, HitTyped DEF TypeOK, LoseFirst, db, queue, generators, undisturbed
<1>4. ASSUME NEW w \in Workers, Consume(w) PROVE TypeOK'
  BY <1>4 DEF TypeOK, Consume, Goto, db, queue, generators, undisturbed
<1>5. ASSUME NEW w \in Workers, Load(w) PROVE TypeOK'
  BY <1>5, JobTyped DEF TypeOK, Load, RunStatuses, ActiveStatuses, Goto, db, queue, generators, undisturbed
<1>6. ASSUME NEW w \in Workers, WriteProduct(w) PROVE TypeOK'
  BY <1>6, JobTyped DEF TypeOK, WriteProduct, PoolsWith, Goto, db, queue, generators, undisturbed
<1>7. ASSUME NEW w \in Workers, Generated(w) PROVE TypeOK'
  BY <1>7, JobTyped DEF TypeOK, Generated, Goto, db, queue, generators, undisturbed
<1>8. ASSUME NEW w \in Workers, Ask(w) PROVE TypeOK'
  <2>1. job[w].run \in Runs /\ job[w].q \in Questions /\ job[w].type = "run_probe"
    BY <1>8, JobTyped DEF Ask
  <2>2. /\ faults' \subseteq (FaultKinds \cup {"loose"}) \X Runs
        /\ hits' \in 0 .. MaxFaults
    <3>1. CASE Hit("llm", job[w].run)
      BY <2>1, <3>1, HitTyped
    <3>2. CASE UNCHANGED undisturbed
      BY <3>2 DEF TypeOK, undisturbed
    <3> QED
      BY <1>8, <3>1, <3>2 DEF Ask
  <2>3. paid' \in [Runs -> [Questions -> Nat]]
    <3> DEFINE r == job[w].run
               q == job[w].q
    <3>1. paid' = paid \/ paid' = [paid EXCEPT ![r] = [paid[r] EXCEPT ![q] = @ + 1]]
      BY <1>8 DEF Ask
    <3>2. [paid[r] EXCEPT ![q] = @ + 1] \in [Questions -> Nat]
      BY <2>1 DEF TypeOK
    <3> QED
      BY <2>1, <3>1, <3>2 DEF TypeOK
  <2>4. \E p \in {"markFailed", "persist", "check"} : pc' = [pc EXCEPT ![w] = p]
    BY <1>8 DEF Ask, Goto
  <2>5. /\ pc' \in [Workers -> {"idle", "load", "work", "persist", "check", "advance",
                                "skip", "emit", "ack", "markFailed", "settle", "ackOld"}]
        /\ \A v \in Workers : pc'[v] # "idle" => job[v] \in Jobs
        /\ \A v \in Workers : pc'[v] \in {"persist", "check"} => job[v].type = "run_probe"
    BY <1>8, <2>1, <2>4 DEF TypeOK, Ask
  <2> QED
    BY <1>8, <2>2, <2>3, <2>5 DEF TypeOK, Ask, db, queue, generators
<1>9. ASSUME NEW w \in Workers, Persist(w) PROVE TypeOK'
  <2>1. job[w].run \in Runs /\ job[w].q \in Questions
    BY <1>9, JobTyped DEF Persist, TypeOK
  <2>2. First[job[w].run][job[w].q] \in Questions
    BY <2>1, ConstantsAssumption
  <2> QED
    BY <1>9, <2>1, <2>2 DEF TypeOK, Persist, Goto, db, queue, generators, undisturbed
<1>10. ASSUME NEW w \in Workers, CheckDone(w) PROVE TypeOK'
  BY <1>10, JobTyped DEF TypeOK, CheckDone, Goto, db, queue, generators, undisturbed
<1>11. ASSUME NEW w \in Workers, Advance(w) PROVE TypeOK'
  BY <1>11, JobTyped, FollowUpsTyped, TargetTyped DEF TypeOK, Advance, Checked, RunStatuses, ActiveStatuses, Goto, db, queue, generators, undisturbed
<1>12. ASSUME NEW w \in Workers, StatementRaises(w) PROVE TypeOK'
  <2>1. \E p \in {"markFailed", "settle"} : pc' = [pc EXCEPT ![w] = p]
    BY <1>12 DEF StatementRaises, Goto
  <2>2. job[w] \in Jobs
    BY <1>12, JobTyped DEF StatementRaises
  <2>3. /\ faults' \subseteq (FaultKinds \cup {"loose"}) \X Runs
        /\ hits' \in 0 .. MaxFaults
    BY <1>12, JobTyped, HitTyped DEF StatementRaises
  <2> QED
    BY <1>12, <2>1, <2>2, <2>3 DEF TypeOK, StatementRaises, db, queue
<1>13. ASSUME NEW w \in Workers, MarkFailed(w) PROVE TypeOK'
  BY <1>13, JobTyped DEF TypeOK, MarkFailed, Failed, RunStatuses, TerminalStatuses, Goto, db, queue, generators, undisturbed
<1>14. ASSUME NEW w \in Workers, MarkFailedRaises(w) PROVE TypeOK'
  BY <1>14, JobTyped, HitTyped DEF TypeOK, MarkFailedRaises, Goto, db, queue, generators, undisturbed
<1>15. ASSUME NEW w \in Workers, Ack(w) PROVE TypeOK'
  BY <1>15, JobTyped DEF TypeOK, Ack, Release, Goto, db, queue, generators, undisturbed
<1>16. ASSUME NEW w \in Workers, AckFails(w) PROVE TypeOK'
  BY <1>16, JobTyped, HitTyped DEF TypeOK, AckFails, Goto, db, queue, generators, undisturbed
<1>17. ASSUME NEW w \in Workers, Retry(w) PROVE TypeOK'
  BY <1>17, JobTyped, RetryTyped DEF TypeOK, Retry, Requeued, Goto, db, queue, generators, undisturbed
<1>18. ASSUME NEW w \in Workers, DeadLetter(w) PROVE TypeOK'
  BY <1>18, JobTyped DEF TypeOK, DeadLetter, Goto, db, queue, generators, undisturbed
<1>19. ASSUME NEW w \in Workers, Crash(w) PROVE TypeOK'
  BY <1>19, JobTyped, HitTyped DEF TypeOK, Crash, Release, Goto, db, queue, generators, undisturbed
<1>20. ASSUME NEW w \in Workers, NEW q \in Questions, Generate(w, q) PROVE TypeOK'
  BY <1>20, ConstantsAssumption DEF TypeOK, Generate, Goto, db, queue, generators, undisturbed
<1>21. ASSUME NEW w \in Workers, NEW q \in Questions, GatherRaises(w, q) PROVE TypeOK'
  <2>1. job[w].run \in Runs
    BY <1>21, JobTyped DEF GatherRaises
  <2>2. /\ faults' \subseteq (FaultKinds \cup {"loose"}) \X Runs
        /\ hits' \in 0 .. MaxFaults
    <3>1. CASE Hit("llm", job[w].run) \/ Hit("db", job[w].run)
      BY <2>1, <3>1, HitTyped
    <3>2. CASE faults' = faults \cup {<<"loose", job[w].run>>} /\ UNCHANGED hits
      BY <2>1, <3>2 DEF TypeOK
    <3> QED
      BY <1>21, <3>1, <3>2 DEF GatherRaises
  <2> QED
    BY <1>21, <2>2 DEF TypeOK, GatherRaises, Goto, db, queue, generators
<1>22. ASSUME NEW w \in Workers, NEW q \in Questions, BackgroundGenerate(w, q) PROVE TypeOK'
  BY <1>22, ConstantsAssumption DEF TypeOK, BackgroundGenerate, Goto, db, queue, generators, undisturbed
<1>23. ASSUME NEW w \in Workers, NEW m \in outbox[w], Emit(w, m) PROVE TypeOK'
  BY <1>23 DEF TypeOK, Emit, Goto, db, queue, generators, undisturbed
<1>24. ASSUME NEW w \in Workers, NEW m \in outbox[w], EmitFails(w, m) PROVE TypeOK'
  <2>1. stream' \in Seq(Jobs)
    <3>1. stream \in Seq(Jobs) /\ m \in Jobs
      BY <1>24 DEF TypeOK
    <3>2. stream' = stream \/ stream' = Append(stream, m)
      BY <1>24 DEF EmitFails
    <3> QED
      BY <3>1, <3>2
  <2>2. /\ faults' \subseteq (FaultKinds \cup {"loose"}) \X Runs
        /\ hits' \in 0 .. MaxFaults
    BY <1>24, JobTyped, HitTyped DEF TypeOK, EmitFails
  <2> QED
    BY <1>24, <2>1, <2>2, JobTyped
    DEF EmitFails, TypeOK, Goto, db, queue, generators, undisturbed
<1>26. ASSUME NEW w \in Workers, NobodyMatches(w) PROVE TypeOK'
  BY <1>26, JobTyped DEF TypeOK, NobodyMatches, Goto,
      db, queue, generators, undisturbed
<1>25. CASE UNCHANGED vars
  BY <1>25 DEF TypeOK, vars, db, queue, generators, undisturbed
<1> QED
  BY <1>1, <1>2, <1>3, <1>4, <1>5, <1>6, <1>7, <1>8, <1>9, <1>10, <1>11, <1>12, <1>13, <1>14, <1>15, <1>16, <1>17, <1>18, <1>19, <1>20, <1>21, <1>22, <1>23, <1>24, <1>25, <1>26
     DEF Next, Accept, Step, Disturb

\* Every reachable state is well formed: statuses are those of the table,
\* messages carry at most MAX_ATTEMPTS and probe a question of their survey.
THEOREM Typing == Spec => []TypeOK
  BY InitTyped, StepTyped, PTL DEF Spec

-----------------------------------------------------------------------------
(* No run is ever reported on *)

Unreported == {"none", "pending", "personas_ready", "paraphrases_ready", "probing",
               "failed"}

\* The strengthening of NeverReported: probing is reached only without
\* questions, a probe has a question, so no probe ever sees the status from
\* which stats_running is allowed, and no analyze job exists.
NothingToAnalyze ==
    /\ reports = {}
    /\ \A r \in Runs : status[r] \in Unreported
    /\ \A r \in Runs : status[r] = "probing" => Survey[r] = {}
    /\ \A i \in 1 .. Len(stream) : stream[i].type # "analyze"
    /\ \A w \in Workers : pc[w] # "idle" =>
          /\ job[w].type # "analyze"
          /\ seen[w] \in Unreported
          /\ seen[w] = "probing" => Survey[job[w].run] = {}
          /\ pc[w] = "skip" => SkipsProbes(job[w])
    /\ \A w \in Workers : \A m \in outbox[w] : m.type # "analyze"
    /\ \A w \in Workers : pc[w] = "idle" => seen[w] = "none"

\* A message that is no analyze job keeps the stream free of them.
LEMMA AppendUnreported ==
    ASSUME NEW s \in Seq(Jobs), NEW m \in Jobs, m.type # "analyze",
           \A i \in 1 .. Len(s) : s[i].type # "analyze"
    PROVE  \A i \in 1 .. Len(Append(s, m)) : Append(s, m)[i].type # "analyze"
  OBVIOUS

LEMMA InitUnreported == Init => NothingToAnalyze
  BY DEF Init, NothingToAnalyze, Unreported

LEMMA StepUnreported == TypeOK /\ NothingToAnalyze /\ [Next]_vars => NothingToAnalyze'
<1> SUFFICES ASSUME TypeOK, NothingToAnalyze, [Next]_vars PROVE NothingToAnalyze'
  OBVIOUS
<1>1. ASSUME NEW r \in Runs, CreateRun(r) PROVE NothingToAnalyze'
  BY <1>1, JobTyped
  DEF NothingToAnalyze, Unreported, TypeOK, CreateRun,
      db, queue, generators, undisturbed
<1>2. ASSUME NEW r \in Runs, EnqueueFirst(r) PROVE NothingToAnalyze'
  BY <1>2, JobTyped
  DEF NothingToAnalyze, Unreported, TypeOK, EnqueueFirst, Job,
      db, queue, generators, undisturbed
<1>3. ASSUME NEW r \in Runs, LoseFirst(r) PROVE NothingToAnalyze'
  BY <1>3, JobTyped
  DEF NothingToAnalyze, Unreported, TypeOK, LoseFirst,
      db, queue, generators, undisturbed
<1>4. ASSUME NEW w \in Workers, Consume(w) PROVE NothingToAnalyze'
  BY <1>4, JobTyped
  DEF NothingToAnalyze, Unreported, TypeOK, Consume, Goto,
      db, queue, generators, undisturbed
<1>5. ASSUME NEW w \in Workers, Load(w) PROVE NothingToAnalyze'
  <2>1. /\ job[w].run \in Runs /\ job[w].type \in JobTypes /\ pc[w] = "load"
    BY <1>5, JobTyped DEF Load
  <2>2. status[job[w].run] \in Unreported
    BY <2>1 DEF NothingToAnalyze
  <2>3. MustClaim(status[job[w].run]) => ~CanTransition(status[job[w].run], "probing")
    BY Predecessor DEF MustClaim
  <2>4. status' = status /\ seen' = [seen EXCEPT ![w] = status[job[w].run]]
    BY <1>5, <2>3 DEF Load, TypeOK
  <2>5. \E p \in {"markFailed", "work"} : pc' = [pc EXCEPT ![w] = p]
    BY <1>5 DEF Load, Goto
  <2> QED
    BY <1>5, <2>1, <2>2, <2>4, <2>5 DEF NothingToAnalyze, TypeOK, Load, db, queue
<1>6. ASSUME NEW w \in Workers, WriteProduct(w) PROVE NothingToAnalyze'
  BY <1>6, JobTyped
  DEF NothingToAnalyze, Unreported, TypeOK, WriteProduct, PoolsWith, Goto,
      db, queue, generators, undisturbed
<1>7. ASSUME NEW w \in Workers, Generated(w) PROVE NothingToAnalyze'
  BY <1>7, JobTyped
  DEF NothingToAnalyze, Unreported, TypeOK, Generated, Goto,
      db, queue, generators, undisturbed
<1>8. ASSUME NEW w \in Workers, Ask(w) PROVE NothingToAnalyze'
  BY <1>8, JobTyped
  DEF NothingToAnalyze, Unreported, TypeOK, Ask, Goto,
      db, queue, generators, undisturbed
<1>9. ASSUME NEW w \in Workers, Persist(w) PROVE NothingToAnalyze'
  BY <1>9, JobTyped
  DEF NothingToAnalyze, Unreported, TypeOK, Persist, Goto,
      db, queue, generators, undisturbed
<1>10. ASSUME NEW w \in Workers, CheckDone(w) PROVE NothingToAnalyze'
  BY <1>10, JobTyped
  DEF NothingToAnalyze, Unreported, TypeOK, CheckDone, Goto,
      db, queue, generators, undisturbed
<1>11. ASSUME NEW w \in Workers, Advance(w) PROVE NothingToAnalyze'
  <2> DEFINE j == job[w]
  <2>1. /\ j \in Jobs /\ j.run \in Runs /\ j.type \in JobTypes /\ pc[w] \in {"advance", "skip"}
        /\ j.type # "analyze" /\ seen[w] \in Unreported
        /\ seen[w] = "probing" => Survey[j.run] = {}
        /\ pc[w] = "skip" => SkipsProbes(j)
        /\ j.type = "run_probe" => Survey[j.run] # {}
    BY <1>11, JobTyped DEF Advance, NothingToAnalyze
  <2>2. CASE ~Checked(w, IF pc[w] = "skip" THEN "probing" ELSE Target[j.type])
    BY <1>11, <2>1, <2>2 DEF Advance, Goto, NothingToAnalyze, TypeOK, db, queue
  <2>3. CASE Checked(w, IF pc[w] = "skip" THEN "probing" ELSE Target[j.type])
    <3>1. j.type # "run_probe"
      <4>1. SUFFICES ASSUME j.type = "run_probe" PROVE FALSE
        OBVIOUS
      <4>2. pc[w] = "advance" /\ Survey[j.run] # {}
        BY <2>1, <4>1 DEF SkipsProbes
      <4>3. CanTransition(seen[w], "stats_running")
        BY <2>3, <4>1, <4>2 DEF Checked, Target
      <4> QED
        BY <2>1, <4>2, <4>3, Predecessor
    <3>2. \E t \in {"personas_ready", "paraphrases_ready", "probing"} :
             /\ t = "probing" => SkipsProbes(j)
             /\ status' = [status EXCEPT ![j.run] = t]
             /\ seen' = [seen EXCEPT ![w] = t]
      <4>1. CASE pc[w] = "skip"
        BY <1>11, <2>1, <2>3, <4>1 DEF Advance
      <4>2. CASE j.type = "gen_personas" /\ pc[w] # "skip"
        BY <1>11, <2>3, <4>2 DEF Advance, Target
      <4>3. CASE j.type = "gen_paraphrases" /\ pc[w] # "skip"
        BY <1>11, <2>3, <4>3 DEF Advance, Target
      <4> QED
        BY <2>1, <3>1, <4>1, <4>2, <4>3 DEF JobTypes
    <3>3. \E p \in {"skip", "ack", "emit"} :
             /\ pc' = [pc EXCEPT ![w] = p]
             /\ p = "skip" => SkipsProbes(j)
      <4> DEFINE after == IF pc[w] = "advance" /\ SkipsProbes(j) THEN "skip"
                          ELSE IF FollowUps(j) = {} THEN "ack" ELSE "emit"
      <4>1. pc' = [pc EXCEPT ![w] = after]
        BY <1>11, <2>3 DEF Advance, Goto
      <4>2. after \in {"skip", "ack", "emit"} /\ (after = "skip" => SkipsProbes(j))
        OBVIOUS
      <4> QED
        BY <4>1, <4>2
    <3>4. \A m \in FollowUps(j) : m.type # "analyze"
      BY <2>1, <3>1 DEF FollowUps, Job, JobTypes
    <3>5. outbox' = [outbox EXCEPT ![w] = {}] \/ outbox' = [outbox EXCEPT ![w] = FollowUps(j)]
      BY <1>11 DEF Advance
    <3> QED
      <4>1. /\ \A r \in Runs : status'[r] \in Unreported
            /\ \A r \in Runs : status'[r] = "probing" => Survey[r] = {}
        BY <2>1, <3>2 DEF NothingToAnalyze, TypeOK, Unreported, SkipsProbes
      <4>2. \A v \in Workers : \A m \in outbox'[v] : m.type # "analyze"
        BY <3>4, <3>5 DEF NothingToAnalyze, TypeOK
      <4>3. reports' = reports /\ stream' = stream /\ job' = job
        BY <1>11 DEF Advance, db, queue
      <4>4. \A v \in Workers : pc'[v] # "idle" =>
              /\ job[v].type # "analyze"
              /\ seen'[v] \in Unreported
              /\ seen'[v] = "probing" => Survey[job[v].run] = {}
              /\ pc'[v] = "skip" => SkipsProbes(job[v])
        <5>1. ASSUME NEW v \in Workers, v # w, pc'[v] # "idle"
              PROVE  seen'[v] = seen[v] /\ pc'[v] = pc[v]
          BY <3>2, <3>3, <5>1 DEF TypeOK
        <5>2. seen'[w] \in Unreported /\ (seen'[w] = "probing" => SkipsProbes(j))
          BY <3>2 DEF TypeOK, Unreported
        <5>3. pc'[w] = "skip" => SkipsProbes(j)
          BY <3>3 DEF TypeOK
        <5> QED
          BY <2>1, <5>1, <5>2, <5>3 DEF NothingToAnalyze, SkipsProbes
      <4>5. \A v \in Workers : pc'[v] = "idle" => seen'[v] = "none"
        BY <2>1, <3>2, <3>3 DEF NothingToAnalyze, TypeOK
      <4> QED
        BY <4>1, <4>2, <4>3, <4>4, <4>5 DEF NothingToAnalyze, SkipsProbes
  <2> QED
    BY <2>2, <2>3
<1>12. ASSUME NEW w \in Workers, StatementRaises(w) PROVE NothingToAnalyze'
  BY <1>12, JobTyped
  DEF NothingToAnalyze, Unreported, TypeOK, StatementRaises, Goto,
      db, queue, generators, undisturbed
<1>13. ASSUME NEW w \in Workers, MarkFailed(w) PROVE NothingToAnalyze'
  BY <1>13, JobTyped
  DEF NothingToAnalyze, Unreported, TypeOK, MarkFailed, Failed, Goto,
      db, queue, generators, undisturbed
<1>14. ASSUME NEW w \in Workers, MarkFailedRaises(w) PROVE NothingToAnalyze'
  BY <1>14, JobTyped
  DEF NothingToAnalyze, Unreported, TypeOK, MarkFailedRaises, Goto,
      db, queue, generators, undisturbed
<1>15. ASSUME NEW w \in Workers, Ack(w) PROVE NothingToAnalyze'
  BY <1>15, JobTyped
  DEF NothingToAnalyze, Unreported, TypeOK, Ack, Release, Goto,
      db, queue, generators, undisturbed
<1>16. ASSUME NEW w \in Workers, AckFails(w) PROVE NothingToAnalyze'
  BY <1>16, JobTyped
  DEF NothingToAnalyze, Unreported, TypeOK, AckFails, Goto,
      db, queue, generators, undisturbed
<1>17. ASSUME NEW w \in Workers, Retry(w) PROVE NothingToAnalyze'
  <2>1. job[w] \in Jobs /\ MayRetry(job[w]) /\ job[w].type # "analyze"
    BY <1>17, JobTyped DEF Retry, NothingToAnalyze
  <2>2. \A i \in 1 .. Len(stream') : stream'[i].type # "analyze"
    BY <1>17, <2>1, RetryTyped, AppendUnreported DEF Retry, Requeued, NothingToAnalyze, TypeOK
  <2> QED
    BY <1>17, <2>1, <2>2 DEF NothingToAnalyze, TypeOK, Retry, Goto, db
<1>18. ASSUME NEW w \in Workers, DeadLetter(w) PROVE NothingToAnalyze'
  BY <1>18, JobTyped
  DEF NothingToAnalyze, Unreported, TypeOK, DeadLetter, Goto,
      db, queue, generators, undisturbed
<1>19. ASSUME NEW w \in Workers, Crash(w) PROVE NothingToAnalyze'
  BY <1>19, JobTyped
  DEF NothingToAnalyze, Unreported, TypeOK, Crash, Release, Hit, Goto,
      db, queue, generators, undisturbed
<1>20. ASSUME NEW w \in Workers, NEW q \in Questions, Generate(w, q) PROVE NothingToAnalyze'
  BY <1>20, JobTyped
  DEF NothingToAnalyze, Unreported, TypeOK, Generate, Goto,
      db, queue, generators, undisturbed
<1>21. ASSUME NEW w \in Workers, NEW q \in Questions, GatherRaises(w, q) PROVE NothingToAnalyze'
  BY <1>21, JobTyped
  DEF NothingToAnalyze, Unreported, TypeOK, GatherRaises, Goto,
      db, queue, generators, undisturbed
<1>22. ASSUME NEW w \in Workers, NEW q \in Questions, BackgroundGenerate(w, q) PROVE NothingToAnalyze'
  BY <1>22, JobTyped
  DEF NothingToAnalyze, Unreported, TypeOK, BackgroundGenerate, Goto,
      db, queue, generators, undisturbed
<1>23. ASSUME NEW w \in Workers, NEW m \in outbox[w], Emit(w, m) PROVE NothingToAnalyze'
  <2>1. m \in Jobs /\ m.type # "analyze"
    BY <1>23 DEF TypeOK, NothingToAnalyze
  <2>2. \A i \in 1 .. Len(stream') : stream'[i].type # "analyze"
    BY <1>23, <2>1, AppendUnreported DEF Emit, NothingToAnalyze, TypeOK
  <2>3. \E p \in {"ack", "emit"} : pc' = [pc EXCEPT ![w] = p]
    BY <1>23 DEF Emit, Goto
  <2> QED
    BY <1>23, <2>2, <2>3 DEF NothingToAnalyze, TypeOK, Emit, db
<1>24. ASSUME NEW w \in Workers, NEW m \in outbox[w], EmitFails(w, m) PROVE NothingToAnalyze'
  <2>1. m \in Jobs /\ m.type # "analyze"
    BY <1>24 DEF TypeOK, NothingToAnalyze
  <2>2. stream' = stream \/ stream' = Append(stream, m)
    BY <1>24 DEF EmitFails
  <2>3. \A i \in 1 .. Len(stream') : stream'[i].type # "analyze"
    <3>1. stream \in Seq(Jobs) /\ \A i \in 1 .. Len(stream) : stream[i].type # "analyze"
      BY DEF NothingToAnalyze, TypeOK
    <3> QED
      BY <2>1, <2>2, <3>1, AppendUnreported
  <2> QED
    BY <1>24, <2>3 DEF NothingToAnalyze, TypeOK, EmitFails, Goto, db
<1>26. ASSUME NEW w \in Workers, NobodyMatches(w) PROVE NothingToAnalyze'
  BY <1>26, JobTyped DEF NothingToAnalyze, Unreported, TypeOK, NobodyMatches, Goto,
      db, queue, generators, undisturbed
<1>25. CASE UNCHANGED vars
  BY <1>25 DEF NothingToAnalyze, Unreported, TypeOK, vars, db, queue, generators, undisturbed
<1> QED
  BY <1>1, <1>2, <1>3, <1>4, <1>5, <1>6, <1>7, <1>8, <1>9, <1>10, <1>11, <1>12, <1>13, <1>14, <1>15, <1>16, <1>17, <1>18, <1>19, <1>20, <1>21, <1>22, <1>23, <1>24, <1>25, <1>26 DEF Next, Accept, Step, Disturb

\* However many workers run and whatever fails, no run the workers drive gets
\* to stats_running or completed, and no report is ever written.
THEOREM NoRunIsReported == Spec => []NeverReported
<1>1. NothingToAnalyze => NeverReported
  BY DEF NothingToAnalyze, NeverReported, Unreported
<1> QED
  BY <1>1, InitUnreported, StepUnreported, Typing, PTL DEF Spec
-----------------------------------------------------------------------------
(* What a status and a collected row are built from *)

Built == {"personas_ready", "paraphrases_ready", "probing"}

\* The strengthening of ProductsBehindStatus: it holds of the status a session
\* still sees, which a later write of the same job is checked against.
Paraphrased(j) == Text[First[j.run][j.q]] \in cache

InputsStored ==
    /\ ProductsBehindStatus
    /\ \A w \in Workers : pc[w] # "idle" =>
          /\ seen[w] \in Built => Audience[job[w].run] \in pools
          /\ pc[w] = "advance" /\ job[w].type = "gen_personas"
                => Audience[job[w].run] \in pools
          /\ pc[w] = "persist" => Audience[job[w].run] \in pools /\ Paraphrased(job[w])
    /\ \A w \in Workers : pc[w] = "idle" => seen[w] \notin Built

LEMMA InitStored == Init => InputsStored
  BY DEF Init, InputsStored, ProductsBehindStatus, Built

LEMMA StepStored == TypeOK /\ InputsStored /\ [Next]_vars => InputsStored'
<1> SUFFICES ASSUME TypeOK, InputsStored, [Next]_vars PROVE InputsStored'
  OBVIOUS
<1>1. ASSUME NEW r \in Runs, CreateRun(r) PROVE InputsStored'
  BY <1>1, JobTyped
  DEF InputsStored, Paraphrased, ProductsBehindStatus, Built, TypeOK, CreateRun,
      db, queue, generators, undisturbed
<1>2. ASSUME NEW r \in Runs, EnqueueFirst(r) PROVE InputsStored'
  BY <1>2, JobTyped
  DEF InputsStored, Paraphrased, ProductsBehindStatus, Built, TypeOK, EnqueueFirst,
      db, queue, generators, undisturbed
<1>3. ASSUME NEW r \in Runs, LoseFirst(r) PROVE InputsStored'
  BY <1>3, JobTyped
  DEF InputsStored, Paraphrased, ProductsBehindStatus, Built, TypeOK, LoseFirst,
      db, queue, generators, undisturbed
<1>4. ASSUME NEW w \in Workers, Consume(w) PROVE InputsStored'
  BY <1>4, JobTyped
  DEF InputsStored, Paraphrased, ProductsBehindStatus, Built, TypeOK, Consume, Goto,
      db, queue, generators, undisturbed
<1>5. ASSUME NEW w \in Workers, Load(w) PROVE InputsStored'
  <2>1. /\ job[w].run \in Runs /\ pc[w] = "load"
    BY <1>5, JobTyped DEF Load
  <2>2. \E s \in {status[job[w].run], "probing"} :
           /\ s # status[job[w].run] => status[job[w].run] = "paraphrases_ready"
           /\ status' = [status EXCEPT ![job[w].run] = s]
           /\ seen' = [seen EXCEPT ![w] = s]
    BY <1>5, Predecessor DEF Load
  <2>3. \E p \in {"markFailed", "work"} : pc' = [pc EXCEPT ![w] = p]
    BY <1>5 DEF Load, Goto
  <2> QED
    BY <1>5, <2>1, <2>2, <2>3
    DEF InputsStored, Paraphrased, ProductsBehindStatus, Built, TypeOK, Load, db
<1>6. ASSUME NEW w \in Workers, WriteProduct(w) PROVE InputsStored'
  BY <1>6, JobTyped
  DEF InputsStored, Paraphrased, ProductsBehindStatus, Built, TypeOK, WriteProduct, PoolsWith, Goto,
      db, queue, generators, undisturbed
<1>7. ASSUME NEW w \in Workers, Generated(w) PROVE InputsStored'
  BY <1>7, JobTyped
  DEF InputsStored, Paraphrased, ProductsBehindStatus, Built, TypeOK, Generated, Goto,
      db, queue, generators, undisturbed
<1>8. ASSUME NEW w \in Workers, Ask(w) PROVE InputsStored'
  <2>1. UNCHANGED <<status, pools, cache, responses, job, seen>>
    BY <1>8 DEF Ask, db
  <2>2. /\ pc[w] = "work"
        /\ \E p \in {"markFailed", "persist", "check"} :
              /\ pc' = [pc EXCEPT ![w] = p]
              /\ p = "persist" => Audience[job[w].run] \in pools /\ Paraphrased(job[w])
    BY <1>8 DEF Ask, Goto, Paraphrased
  <2> QED
    BY <2>1, <2>2 DEF InputsStored, Paraphrased, ProductsBehindStatus, TypeOK
<1>9. ASSUME NEW w \in Workers, Persist(w) PROVE InputsStored'
  <2>1. /\ job[w].type = "run_probe" /\ job[w].run \in Runs
        /\ First[job[w].run][job[w].q] \in Asked(job[w].run)
    BY <1>9, JobTyped DEF Persist, TypeOK, Asked
  <2> QED
    BY <1>9, <2>1
  DEF InputsStored, Paraphrased, ProductsBehindStatus, Built, TypeOK, Persist, Goto,
      db, queue, generators, undisturbed
<1>10. ASSUME NEW w \in Workers, CheckDone(w) PROVE InputsStored'
  BY <1>10, JobTyped
  DEF InputsStored, Paraphrased, ProductsBehindStatus, Built, TypeOK, CheckDone, Goto,
      db, queue, generators, undisturbed
<1>11. ASSUME NEW w \in Workers, Advance(w) PROVE InputsStored'
  <2> DEFINE j == job[w]
  <2>1. /\ j.run \in Runs /\ j.type \in JobTypes /\ pc[w] \in {"advance", "skip"}
        /\ seen[w] \in Built => Audience[j.run] \in pools
        /\ pc[w] = "advance" /\ j.type = "gen_personas" => Audience[j.run] \in pools
    BY <1>11, JobTyped DEF Advance, InputsStored
  <2>2. \E p \in {"skip", "ack", "emit", "markFailed"} : pc' = [pc EXCEPT ![w] = p]
    <3> DEFINE after == IF pc[w] = "advance" /\ SkipsProbes(j) THEN "skip"
                        ELSE IF FollowUps(j) = {} THEN "ack" ELSE "emit"
    <3>1. pc' = [pc EXCEPT ![w] = after] \/ pc' = [pc EXCEPT ![w] = "markFailed"]
      BY <1>11 DEF Advance, Goto
    <3>2. after \in {"skip", "ack", "emit"}
      OBVIOUS
    <3> QED
      BY <3>1, <3>2
  <2>3. \/ status' = status /\ seen' = seen
        \/ \E t : /\ CanTransition(seen[w], t)
                  /\ t = IF pc[w] = "skip" THEN "probing" ELSE Target[j.type]
                  /\ status' = [status EXCEPT ![j.run] = t]
                  /\ seen' = [seen EXCEPT ![w] = t]
    BY <1>11 DEF Advance, Checked
  <2>4. CASE status' = status /\ seen' = seen
    BY <1>11, <2>2, <2>4 DEF InputsStored, Paraphrased, ProductsBehindStatus, TypeOK, Advance, db
  <2>5. ASSUME NEW t, CanTransition(seen[w], t),
               t = IF pc[w] = "skip" THEN "probing" ELSE Target[j.type],
               status' = [status EXCEPT ![j.run] = t],
               seen' = [seen EXCEPT ![w] = t]
        PROVE  InputsStored'
    <3>1. t \in Built => Audience[j.run] \in pools
      <4>1. CASE t = "personas_ready"
        <5>1. pc[w] = "advance" /\ j.type = "gen_personas"
          BY <2>1, <2>5, <4>1 DEF Target, JobTypes
        <5> QED
          BY <2>1, <5>1
      <4>2. CASE t = "paraphrases_ready" \/ t = "probing"
        BY <2>1, <2>5, <4>2, Predecessor DEF Built
      <4> QED
        BY <4>1, <4>2 DEF Built
    <3>2. pools' = pools /\ cache' = cache /\ responses' = responses /\ job' = job
      BY <1>11 DEF Advance, db
    <3>3. \A r \in Runs : status'[r] \in Built => Audience[r] \in pools
      BY <2>1, <2>5, <3>1 DEF InputsStored, Paraphrased, ProductsBehindStatus, Built, TypeOK
    <3>4. \A v \in Workers : pc'[v] # "idle" =>
            /\ seen'[v] \in Built => Audience[job[v].run] \in pools
            /\ pc'[v] = "advance" /\ job[v].type = "gen_personas"
                  => Audience[job[v].run] \in pools
            /\ pc'[v] = "persist" => Audience[job[v].run] \in pools /\ Paraphrased(job[v])
      BY <2>1, <2>2, <2>5, <3>1 DEF InputsStored, TypeOK
    <3>5. \A v \in Workers : pc'[v] = "idle" => seen'[v] \notin Built
      BY <2>1, <2>2, <2>5 DEF InputsStored, TypeOK
    <3> QED
      BY <3>2, <3>3, <3>4, <3>5 DEF InputsStored, Paraphrased, ProductsBehindStatus, Built
  <2> QED
    BY <2>3, <2>4, <2>5
<1>12. ASSUME NEW w \in Workers, StatementRaises(w) PROVE InputsStored'
  BY <1>12, JobTyped
  DEF InputsStored, Paraphrased, ProductsBehindStatus, Built, TypeOK, StatementRaises, Goto,
      db, queue, generators, undisturbed
<1>13. ASSUME NEW w \in Workers, MarkFailed(w) PROVE InputsStored'
  BY <1>13, JobTyped
  DEF InputsStored, Paraphrased, ProductsBehindStatus, Built, TypeOK, MarkFailed, Failed, Goto,
      db, queue, generators, undisturbed
<1>14. ASSUME NEW w \in Workers, MarkFailedRaises(w) PROVE InputsStored'
  BY <1>14, JobTyped
  DEF InputsStored, Paraphrased, ProductsBehindStatus, Built, TypeOK, MarkFailedRaises, Goto,
      db, queue, generators, undisturbed
<1>15. ASSUME NEW w \in Workers, Ack(w) PROVE InputsStored'
  BY <1>15, JobTyped
  DEF InputsStored, Paraphrased, ProductsBehindStatus, Built, TypeOK, Ack, Release, Goto,
      db, queue, generators, undisturbed
<1>16. ASSUME NEW w \in Workers, AckFails(w) PROVE InputsStored'
  BY <1>16, JobTyped
  DEF InputsStored, Paraphrased, ProductsBehindStatus, Built, TypeOK, AckFails, Goto,
      db, queue, generators, undisturbed
<1>17. ASSUME NEW w \in Workers, Retry(w) PROVE InputsStored'
  BY <1>17, JobTyped
  DEF InputsStored, Paraphrased, ProductsBehindStatus, Built, TypeOK, Retry, Goto,
      db, queue, generators, undisturbed
<1>18. ASSUME NEW w \in Workers, DeadLetter(w) PROVE InputsStored'
  BY <1>18, JobTyped
  DEF InputsStored, Paraphrased, ProductsBehindStatus, Built, TypeOK, DeadLetter, Goto,
      db, queue, generators, undisturbed
<1>19. ASSUME NEW w \in Workers, Crash(w) PROVE InputsStored'
  BY <1>19, JobTyped
  DEF InputsStored, Paraphrased, ProductsBehindStatus, Built, TypeOK, Crash, Release, Goto,
      db, queue, generators, undisturbed
<1>20. ASSUME NEW w \in Workers, NEW q \in Questions, Generate(w, q) PROVE InputsStored'
  BY <1>20, JobTyped
  DEF InputsStored, Paraphrased, ProductsBehindStatus, Built, TypeOK, Generate, Goto,
      db, queue, generators, undisturbed
<1>21. ASSUME NEW w \in Workers, NEW q \in Questions, GatherRaises(w, q) PROVE InputsStored'
  BY <1>21, JobTyped
  DEF InputsStored, Paraphrased, ProductsBehindStatus, Built, TypeOK, GatherRaises, Goto,
      db, queue, generators, undisturbed
<1>22. ASSUME NEW w \in Workers, NEW q \in Questions, BackgroundGenerate(w, q) PROVE InputsStored'
  BY <1>22, JobTyped
  DEF InputsStored, Paraphrased, ProductsBehindStatus, Built, TypeOK, BackgroundGenerate, Goto,
      db, queue, generators, undisturbed
<1>23. ASSUME NEW w \in Workers, NEW m \in outbox[w], Emit(w, m) PROVE InputsStored'
  BY <1>23, JobTyped
  DEF InputsStored, Paraphrased, ProductsBehindStatus, Built, TypeOK, Emit, Goto,
      db, queue, generators, undisturbed
<1>24. ASSUME NEW w \in Workers, NEW m \in outbox[w], EmitFails(w, m) PROVE InputsStored'
  BY <1>24, JobTyped
  DEF InputsStored, Paraphrased, ProductsBehindStatus, Built, TypeOK, EmitFails, Goto,
      db, queue, generators, undisturbed
<1>26. ASSUME NEW w \in Workers, NobodyMatches(w) PROVE InputsStored'
  BY <1>26, JobTyped DEF InputsStored, Paraphrased, ProductsBehindStatus, Built, TypeOK, NobodyMatches, Goto,
      db, queue, generators, undisturbed
<1>25. CASE UNCHANGED vars
  BY <1>25 DEF InputsStored, Paraphrased, ProductsBehindStatus, Built, TypeOK, vars, db, queue, generators, undisturbed
<1> QED
  BY <1>1, <1>2, <1>3, <1>4, <1>5, <1>6, <1>7, <1>8, <1>9, <1>10, <1>11, <1>12, <1>13, <1>14, <1>15, <1>16, <1>17, <1>18, <1>19, <1>20, <1>21, <1>22, <1>23, <1>24, <1>25, <1>26 DEF Next, Accept, Step, Disturb

\* A run is never in a status, and never has a collected answer, whose inputs
\* are not in the tables the handlers read them from.
THEOREM ProductsStored == Spec => []ProductsBehindStatus
<1>1. InputsStored => ProductsBehindStatus
  BY DEF InputsStored
<1> QED
  BY <1>1, InitStored, StepStored, Typing, PTL DEF Spec
==============================================================================
