------------------------- MODULE RunMessagesProofs -------------------------
(***************************************************************************)
(* Where the messages of a run are, for every set of runs and workers and  *)
(* every kind and number of disturbances, and what follows: why a run may  *)
(* stall, that its status moves along the table, that the pipeline         *)
(* implements the run lifecycle, that a question is paid for once, and     *)
(* that a dead letter belongs to a failed run.                             *)
(***************************************************************************)
EXTENDS RunPipelineProofs

InStream(r) == \E i \in 1 .. Len(stream) : stream[i].run = r

\* A worker that is going to put out another message for r, to record its failure,
\* or to check whether all answers of r are there when they are.
Carries(w, r) ==
    /\ pc[w] # "idle" /\ job[w].run = r
    /\ \/ pc[w] \in {"load", "advance", "skip", "emit", "markFailed", "settle"}
       \/ pc[w] = "work" /\ job[w].type # "run_probe"
       \/ pc[w] \in {"work", "persist", "check"} /\ Asked(r) \subseteq responses[r]

Attended(r) == api[r] = "posting" \/ InStream(r) \/ \E w \in Workers : Carries(w, r)

GivenUp(r) == api[r] = "dropped" \/ \E m \in orphans \cup dlq : m.run = r

Excused(r) ==
    \/ GivenUp(r)
    \/ status[r] = "probing" /\ Survey[r] = {}
    \/ status[r] = "paraphrases_ready" /\ ~(Asked(r) \subseteq responses[r])

\* Stronger than StallHasACause: a worker that only has to acknowledge its message,
\* or whose probe is not the last, does not count.
Owed(r) == status[r] \in ActiveStatuses => Attended(r) \/ Excused(r)

\* Messages about to be put out follow from the one the worker is at.
OwnMessages ==
    \A w \in Workers :
        IF pc[w] = "emit" THEN outbox[w] \subseteq FollowUps(job[w]) ELSE outbox[w] = {}

-----------------------------------------------------------------------------
LEMMA AppendRun ==
    ASSUME NEW s \in Seq(Jobs), NEW m \in Jobs, NEW r
    PROVE  (\E i \in 1 .. Len(Append(s, m)) : Append(s, m)[i].run = r)
              <=> (m.run = r \/ \E i \in 1 .. Len(s) : s[i].run = r)
<1>1. /\ Len(Append(s, m)) = Len(s) + 1 /\ Len(s) \in Nat
      /\ Append(s, m)[Len(s) + 1] = m
      /\ \A i \in 1 .. Len(s) : Append(s, m)[i] = s[i]
  OBVIOUS
<1> QED
  BY <1>1

LEMMA TailRun ==
    ASSUME NEW s \in Seq(Jobs), s # <<>>, NEW r, \E i \in 1 .. Len(s) : s[i].run = r
    PROVE  Head(s).run = r \/ \E i \in 1 .. Len(Tail(s)) : Tail(s)[i].run = r
<1>1. PICK i \in 1 .. Len(s) : s[i].run = r
  OBVIOUS
<1>2. CASE i = 1
  BY <1>1, <1>2
<1>3. CASE i # 1
  <2>1. i - 1 \in 1 .. Len(Tail(s)) /\ Tail(s)[i - 1] = s[i]
    BY <1>3
  <2> QED
    BY <1>1, <2>1
<1> QED
  BY <1>2, <1>3

\* The same of the stream.
LEMMA StreamGrows ==
    ASSUME TypeOK, NEW m \in Jobs, NEW r, stream' = Append(stream, m)
    PROVE  InStream(r)' <=> (m.run = r \/ InStream(r))
<1>1. stream \in Seq(Jobs)
  BY DEF TypeOK
<1>2. InStream(r)' <=> \E i \in 1 .. Len(Append(stream, m)) : Append(stream, m)[i].run = r
  BY DEF InStream
<1>3. (\E i \in 1 .. Len(Append(stream, m)) : Append(stream, m)[i].run = r)
          <=> (m.run = r \/ \E i \in 1 .. Len(stream) : stream[i].run = r)
  BY <1>1, AppendRun
<1> QED
  BY <1>2, <1>3 DEF InStream

LEMMA StreamShrinks ==
    ASSUME TypeOK, NEW r, stream # <<>>, stream' = Tail(stream), InStream(r)
    PROVE  Head(stream).run = r \/ InStream(r)'
<1>1. stream \in Seq(Jobs)
  BY DEF TypeOK
<1>2. Head(stream).run = r \/ \E i \in 1 .. Len(Tail(stream)) : Tail(stream)[i].run = r
  BY <1>1, TailRun DEF InStream
<1> QED
  BY <1>2 DEF InStream

\* A step of one worker that leaves the run its status owes the run only what that
\* worker was carrying.
LEMMA StillOwed ==
    ASSUME NEW r \in Runs, NEW w \in Workers, Owed(r),
           \A v \in Workers \ {w} : pc'[v] = pc[v] /\ job'[v] = job[v],
           status'[r] = status[r], api'[r] = api[r],
           responses[r] \subseteq responses'[r],
           InStream(r) => InStream(r)' \/ Carries(w, r)',
           orphans \subseteq orphans', dlq \subseteq dlq',
           Carries(w, r) => Attended(r)' \/ Excused(r)',
           Asked(r) \subseteq responses'[r] =>
               Asked(r) \subseteq responses[r] \/ Carries(w, r)'
    PROVE  Owed(r)'
<1> SUFFICES ASSUME status[r] \in ActiveStatuses, ~Attended(r)' PROVE Excused(r)'
  BY DEF Owed
<1>1. ASSUME NEW v \in Workers, Carries(v, r), v # w
      PROVE  Carries(v, r)'
  BY <1>1 DEF Carries
<1>2. ~Attended(r) \/ Excused(r)'
  BY <1>1 DEF Attended
<1>3. ~Carries(w, r)'
  BY DEF Attended
<1>4. Excused(r) => Excused(r)'
  BY <1>3 DEF Excused, GivenUp
<1> QED
  BY <1>2, <1>4 DEF Owed

LEMMA InitOwn == Init => OwnMessages
  BY DEF Init, OwnMessages

LEMMA OwnStep == TypeOK /\ OwnMessages /\ [Next]_vars => OwnMessages'
<1> SUFFICES ASSUME TypeOK, OwnMessages, [Next]_vars PROVE OwnMessages'
  OBVIOUS
<1>1. CASE UNCHANGED vars
  BY <1>1 DEF OwnMessages, vars
<1>2. ASSUME NEW r \in Runs, Accept(r) \/ LoseFirst(r) PROVE OwnMessages'
  BY <1>2 DEF OwnMessages, Accept, CreateRun, EnqueueFirst, LoseFirst
<1>3. ASSUME NEW w \in Workers, Step(w) \/ Disturb(w) PROVE OwnMessages'
  <2>1. CASE Consume(w)
    BY <2>1 DEF OwnMessages, Consume, Goto, TypeOK
  <2>2. CASE Advance(w)
    <3>1. job[w] \in Jobs
      BY <2>2, JobTyped DEF Advance
    <3> DEFINE after == IF pc[w] = "advance" /\ SkipsProbes(job[w]) THEN "skip"
                        ELSE IF FollowUps(job[w]) = {} THEN "ack" ELSE "emit"
               t == IF pc[w] = "skip" THEN "probing" ELSE Target[job[w].type]
               allowed == Checked(w, t)
               own == IF allowed /\ after = "emit" THEN FollowUps(job[w]) ELSE {}
               p == IF allowed THEN after ELSE "markFailed"
    <3>2. outbox' = [outbox EXCEPT ![w] = own] /\ pc' = [pc EXCEPT ![w] = p]
      BY <2>2 DEF Advance, Goto
    <3>3. job' = job
      BY <2>2 DEF Advance
    <3>4. own \subseteq FollowUps(job[w]) /\ (p # "emit" => own = {})
      OBVIOUS
    <3> HIDE DEF own, p
    <3> QED
      BY <3>2, <3>3, <3>4 DEF OwnMessages, TypeOK
  <2>3. ASSUME NEW m \in outbox[w], Emit(w, m) \/ EmitFails(w, m) PROVE OwnMessages'
    <3>1. PICK own, p :
             /\ own \subseteq outbox[w] /\ outbox' = [outbox EXCEPT ![w] = own]
             /\ pc' = [pc EXCEPT ![w] = p]
             /\ p # "emit" => own = {}
      <4>1. CASE Emit(w, m)
        <5> DEFINE own == outbox[w] \ {m}
                   p == IF outbox[w] = {m} THEN "ack" ELSE "emit"
        <5>1. /\ outbox' = [outbox EXCEPT ![w] = own] /\ pc' = [pc EXCEPT ![w] = p]
              /\ own \subseteq outbox[w] /\ (p # "emit" => own = {})
          BY <4>1 DEF Emit, Goto
        <5> HIDE DEF own, p
        <5> QED
          BY <5>1
      <4>2. CASE EmitFails(w, m)
        BY <4>2 DEF EmitFails, Goto
      <4> QED
        BY <2>3, <4>1, <4>2
    <3>2. job' = job
      BY <2>3 DEF Emit, EmitFails
    <3> QED
      BY <3>1, <3>2 DEF OwnMessages, TypeOK
  <2>4. CASE Ack(w) \/ Crash(w)
    <3>1. /\ pc' = [pc EXCEPT ![w] = "idle"] /\ job' = [job EXCEPT ![w] = None]
          /\ outbox' = [outbox EXCEPT ![w] = {}] \/ (outbox' = outbox /\ pc[w] # "emit")
      BY <2>4 DEF Ack, Crash, Release, Goto
    <3> QED
      BY <3>1 DEF OwnMessages, TypeOK
  <2>0. ASSUME NEW p, p # "emit", pc[w] # "emit", pc' = [pc EXCEPT ![w] = p],
               outbox' = outbox, job' = job
        PROVE  OwnMessages'
    BY <2>0 DEF OwnMessages, TypeOK
  <2>5. CASE Load(w) \/ WriteProduct(w) \/ NobodyMatches(w) \/ Generated(w) \/ CheckDone(w)
    <3>1. \E p : p # "emit" /\ pc[w] # "emit" /\ pc' = [pc EXCEPT ![w] = p]
      BY <2>5 DEF Load, WriteProduct, NobodyMatches, Generated, CheckDone, Goto
    <3>2. outbox' = outbox /\ job' = job
      BY <2>5 DEF Load, WriteProduct, NobodyMatches, Generated, CheckDone
    <3> QED
      BY <2>0, <3>1, <3>2
  <2>6. CASE Ask(w) \/ Persist(w)
    <3>1. \E p : p # "emit" /\ pc[w] # "emit" /\ pc' = [pc EXCEPT ![w] = p]
      BY <2>6 DEF Ask, Persist, Goto
    <3>2. outbox' = outbox /\ job' = job
      BY <2>6 DEF Ask, Persist
    <3> QED
      BY <2>0, <3>1, <3>2
  <2>7. CASE MarkFailed(w) \/ MarkFailedRaises(w) \/ StatementRaises(w) \/ AckFails(w)
    <3>1. \E p : p # "emit" /\ pc[w] # "emit" /\ pc' = [pc EXCEPT ![w] = p]
      BY <2>7 DEF MarkFailed, MarkFailedRaises, StatementRaises, AckFails, Goto
    <3>2. outbox' = outbox /\ job' = job
      BY <2>7 DEF MarkFailed, MarkFailedRaises, StatementRaises, AckFails
    <3> QED
      BY <2>0, <3>1, <3>2
  <2>8. CASE Retry(w) \/ DeadLetter(w)
    BY <2>8 DEF OwnMessages, Retry, DeadLetter, Goto, TypeOK
  <2>9. ASSUME NEW q \in Questions, Generate(w, q) \/ GatherRaises(w, q) \/ BackgroundGenerate(w, q)
        PROVE  OwnMessages'
    BY <2>9 DEF OwnMessages, Generate, GatherRaises, BackgroundGenerate, Goto, TypeOK
  <2> QED
    BY <1>3, <2>1, <2>2, <2>3, <2>4, <2>5, <2>6, <2>7, <2>8, <2>9 DEF Step, Disturb
<1> QED
  BY <1>1, <1>2, <1>3 DEF Next

\* The same for a step that changes no table the run's debt depends on and no message.
LEMMA MovesOn ==
    ASSUME TypeOK, NEW r \in Runs, NEW w \in Workers, Owed(r), NEW p,
           pc' = [pc EXCEPT ![w] = p],
           UNCHANGED <<job, api, stream, responses, orphans, dlq>>, status'[r] = status[r],
           Carries(w, r) => Carries(w, r)' \/ Excused(r)'
    PROVE  Owed(r)'
<1>1. \A v \in Workers \ {w} : pc'[v] = pc[v] /\ job'[v] = job[v]
  BY DEF TypeOK
<1>2. InStream(r) => InStream(r)'
  BY DEF InStream
<1>3. Carries(w, r)' => Attended(r)'
  BY DEF Attended
<1> QED
  BY <1>1, <1>2, <1>3, StillOwed

Carried == {"load", "advance", "skip", "emit", "markFailed", "settle"}

LEMMA MovesToCarried ==
    ASSUME TypeOK, NEW r \in Runs, NEW w \in Workers, Owed(r), NEW p \in Carried,
           pc' = [pc EXCEPT ![w] = p],
           UNCHANGED <<job, api, stream, responses, orphans, dlq>>, status'[r] = status[r]
    PROVE  Owed(r)'
<1>1. pc'[w] = p
  BY DEF TypeOK
<1>2. Carries(w, r) => Carries(w, r)'
  BY <1>1 DEF Carries, Carried
<1> QED
  BY <1>2, MovesOn

\* A probe reads its run ready, or it is going to fail.
LEMMA LoadOwed ==
    ASSUME TypeOK, NothingToAnalyze, NEW r \in Runs, NEW w \in Workers, Owed(r), Load(w)
    PROVE  Owed(r)'
<1> DEFINE q == job[w].run
           claims == job[w].type = "run_probe" /\ MustClaim(status[q])
           raises == claims /\ ~CanTransition(status[q], "probing")
           now == IF claims /\ ~raises THEN "probing" ELSE status[q]
           p == IF raises THEN "markFailed" ELSE "work"
<1>1. /\ q \in Runs /\ job[w] \in Jobs /\ pc[w] = "load"
      /\ job[w].type = "run_probe" => Survey[q] # {}
  BY JobTyped DEF Load
<1>2. claims => raises
  BY Predecessor DEF MustClaim
<1>3. status' = status
  <2>1. status' = [status EXCEPT ![q] = now]
    BY DEF Load
  <2>2. now = status[q]
    BY <1>2
  <2> HIDE DEF now, q
  <2> QED
    BY <2>1, <2>2 DEF TypeOK
<1>4. pc' = [pc EXCEPT ![w] = p]
  BY DEF Load, Goto
<1>5. UNCHANGED <<job, api, stream, responses, orphans, dlq>>
  BY DEF Load, db, queue
<1>6. CASE raises
  BY <1>3, <1>4, <1>5, <1>6, MovesToCarried DEF Carried
<1>7. CASE ~raises
  <2>1. pc'[w] = "work" /\ job'[w] = job[w] /\ responses' = responses
    BY <1>4, <1>5, <1>7 DEF TypeOK
  <2>2. ASSUME Carries(w, r) PROVE Carries(w, r)' \/ Excused(r)'
    <3>1. q = r
      BY <2>2 DEF Carries
    <3>2. CASE job[w].type # "run_probe"
      BY <2>1, <3>1, <3>2 DEF Carries
    <3>3. CASE job[w].type = "run_probe"
      <4>1. status[r] \in {"paraphrases_ready", "probing"}
        BY <1>2, <1>7, <3>1, <3>3 DEF MustClaim
      <4>2. status[r] # "probing"
        BY <1>1, <3>1, <3>3 DEF NothingToAnalyze
      <4>3. CASE Asked(r) \subseteq responses[r]
        BY <2>1, <3>1, <4>3 DEF Carries
      <4>4. CASE ~(Asked(r) \subseteq responses[r])
        BY <1>3, <2>1, <4>1, <4>2, <4>4 DEF Excused
      <4> QED
        BY <4>3, <4>4
    <3> QED
      BY <3>2, <3>3
  <2> QED
    BY <1>3, <1>4, <1>5, <2>2, MovesOn
<1> QED
  BY <1>6, <1>7

\* A status that is set is followed by a message, but for the last two.
LEMMA AdvanceOwed ==
    ASSUME TypeOK, NothingToAnalyze, NEW r \in Runs, NEW w \in Workers, Owed(r), Advance(w)
    PROVE  Owed(r)'
<1> DEFINE q == job[w].run
           t == IF pc[w] = "skip" THEN "probing" ELSE Target[job[w].type]
           after == IF pc[w] = "advance" /\ SkipsProbes(job[w]) THEN "skip"
                    ELSE IF FollowUps(job[w]) = {} THEN "ack" ELSE "emit"
           allowed == Checked(w, t)
           p == IF allowed THEN after ELSE "markFailed"
<1>1. /\ pc[w] \in {"advance", "skip"} /\ q \in Runs /\ job[w] \in Jobs
      /\ job[w].type \in {"gen_personas", "gen_paraphrases", "run_probe"}
      /\ pc[w] = "skip" => SkipsProbes(job[w])
  <2>1. pc[w] \in {"advance", "skip"}
    BY DEF Advance
  <2>2. job[w].type # "analyze" /\ (pc[w] = "skip" => SkipsProbes(job[w]))
    BY <2>1 DEF NothingToAnalyze
  <2> QED
    BY <2>1, <2>2, JobTyped DEF JobTypes
<1>2. /\ status' = IF allowed THEN [status EXCEPT ![q] = t] ELSE status
      /\ pc' = [pc EXCEPT ![w] = p]
      /\ UNCHANGED <<job, api, stream, responses, orphans, dlq>>
  BY DEF Advance, Goto, db, queue
<1>3. pc'[w] = p
  BY <1>2 DEF TypeOK
<1>4. ASSUME p # "ack" PROVE Owed(r)'
  <2>1. p \in {"skip", "emit", "markFailed"}
    BY <1>4
  <2> HIDE DEF p
  <2>2. CASE q = r
    <3>1. Carries(w, r)'
      BY <1>2, <1>3, <2>1, <2>2 DEF Carries
    <3> QED
      BY <3>1 DEF Owed, Attended
  <2>3. CASE q # r
    <3>1. status'[r] = status[r]
      BY <1>2, <2>3 DEF TypeOK
    <3> QED
      BY <1>2, <2>1, <3>1, MovesToCarried DEF Carried
  <2> QED
    BY <2>2, <2>3
<1>5. ASSUME p = "ack" PROVE Owed(r)'
  <2>1. allowed /\ FollowUps(job[w]) = {} /\ ~(pc[w] = "advance" /\ SkipsProbes(job[w]))
    <3> HIDE DEF allowed
    <3>1. allowed /\ after = "ack"
      BY <1>5
    <3> HIDE DEF after
    <3>2. ~(pc[w] = "advance" /\ SkipsProbes(job[w]))
      BY <3>1 DEF after, SkipsProbes
    <3>3. FollowUps(job[w]) = {}
      BY <3>1, <3>2 DEF after, SkipsProbes
    <3> QED
      BY <3>1, <3>2, <3>3
  <2>2. pc[w] = "skip"
    <3> SUFFICES ASSUME pc[w] = "advance" PROVE FALSE
      BY <1>1
    <3>1. CASE job[w].type = "gen_personas"
      BY <2>1, <3>1 DEF FollowUps
    <3>2. CASE job[w].type = "run_probe"
      BY <2>1, <3>2 DEF FollowUps
    <3>3. CASE job[w].type = "gen_paraphrases"
      <4>1. Survey[q] # {}
        BY <2>1, <3>3 DEF SkipsProbes
      <4> QED
        BY <2>1, <3>3, <4>1 DEF FollowUps
    <3> QED
      BY <1>1, <3>1, <3>2, <3>3
  <2>3. Survey[q] = {} /\ status' = [status EXCEPT ![q] = "probing"]
    BY <1>1, <1>2, <2>1, <2>2 DEF SkipsProbes
  <2> HIDE DEF p
  <2>4. CASE q = r
    <3>1. status'[r] = "probing"
      BY <2>3, <2>4 DEF TypeOK
    <3> QED
      BY <2>3, <2>4, <3>1 DEF Owed, Excused
  <2>5. CASE q # r
    <3>1. status'[r] = status[r]
      BY <2>3, <2>5 DEF TypeOK
    <3>2. ~Carries(w, r)
      BY <2>5 DEF Carries
    <3> QED
      BY <1>2, <3>1, <3>2, MovesOn
  <2> QED
    BY <2>4, <2>5
<1> QED
  BY <1>4, <1>5

LEMMA OwedStep ==
    TypeOK /\ NothingToAnalyze /\ OwnMessages /\ (\A r \in Runs : Owed(r)) /\ [Next]_vars
        => (\A r \in Runs : Owed(r))'
<1> SUFFICES ASSUME TypeOK, NothingToAnalyze, OwnMessages, \A s \in Runs : Owed(s), [Next]_vars,
                    NEW r \in Runs
             PROVE  Owed(r)'
  OBVIOUS
<1>1. CASE UNCHANGED vars
  BY <1>1 DEF vars, db, queue, Owed, Attended, Excused, GivenUp, InStream, Carries
<1>2. ASSUME NEW q \in Runs, Accept(q) \/ LoseFirst(q)
      PROVE  Owed(r)'
  <2>1. /\ UNCHANGED <<pc, job, responses, orphans, dlq>>
        /\ stream' = stream \/ stream' = Append(stream, Job("gen_personas", q, None))
    BY <1>2 DEF Accept, CreateRun, EnqueueFirst, LoseFirst, db, queue
  <2>2. \A w \in Workers : Carries(w, r) => Carries(w, r)'
    BY <2>1 DEF Carries
  <2>3. Job("gen_personas", q, None) \in Jobs /\ Job("gen_personas", q, None).run = q
    BY ConstantsAssumption DEF Job, Jobs, JobTypes
  <2>4. InStream(r) => InStream(r)'
    BY <2>1, <2>3, StreamGrows DEF InStream
  <2>5. CASE q # r
    <3>1. status'[r] = status[r] /\ api'[r] = api[r]
      BY <1>2, <2>5 DEF Accept, CreateRun, EnqueueFirst, LoseFirst, TypeOK
    <3>2. (Attended(r) => Attended(r)') /\ (Excused(r) => Excused(r)')
      BY <2>1, <2>2, <2>4, <3>1 DEF Attended, Excused, GivenUp
    <3> QED
      BY <3>1, <3>2 DEF Owed
  <2>6. CASE q = r
    <3>1. CASE CreateRun(q)
      BY <2>6, <3>1 DEF CreateRun, TypeOK, Owed, Attended
    <3>2. CASE EnqueueFirst(q)
      <4>1. stream' = Append(stream, Job("gen_personas", q, None))
        BY <3>2 DEF EnqueueFirst
      <4>2. InStream(r)'
        BY <2>3, <2>6, <4>1, StreamGrows
      <4> QED
        BY <4>2 DEF Owed, Attended
    <3>3. CASE LoseFirst(q)
      BY <2>6, <3>3 DEF LoseFirst, TypeOK, Owed, Excused, GivenUp
    <3> QED
      BY <1>2, <3>1, <3>2, <3>3 DEF Accept
  <2> QED
    BY <2>5, <2>6
<1>3. ASSUME NEW w \in Workers, Step(w) \/ Disturb(w)
      PROVE  Owed(r)'
  <2>1. CASE Consume(w)
    <3>1. /\ pc' = [pc EXCEPT ![w] = "load"] /\ job' = [job EXCEPT ![w] = Head(stream)]
          /\ stream # <<>> /\ stream' = Tail(stream)
          /\ UNCHANGED <<status, api, responses, orphans, dlq>> /\ pc[w] = "idle"
      BY <2>1 DEF Consume, Goto, db
    <3>2. \A v \in Workers \ {w} : pc'[v] = pc[v] /\ job'[v] = job[v]
      BY <3>1 DEF TypeOK
    <3>3. pc'[w] = "load" /\ job'[w] = Head(stream)
      BY <3>1 DEF TypeOK
    <3>4. InStream(r) => InStream(r)' \/ Carries(w, r)'
      BY <3>1, <3>3, StreamShrinks DEF Carries
    <3>5. ~Carries(w, r)
      BY <3>1 DEF Carries
    <3> QED
      BY <3>1, <3>2, <3>4, <3>5, StillOwed
  <2>2. CASE Load(w)
    BY <2>2, LoadOwed
  <2>3. CASE Advance(w)
    BY <2>3, AdvanceOwed
  <2>4. CASE WriteProduct(w) \/ NobodyMatches(w) \/ Generated(w)
    <3>1. /\ \E p \in {"advance", "markFailed"} : pc' = [pc EXCEPT ![w] = p]
          /\ UNCHANGED <<status, job, api, stream, responses, orphans, dlq>>
      BY <2>4 DEF WriteProduct, NobodyMatches, Generated, Goto, db, queue
    <3> QED
      BY <3>1, MovesToCarried DEF Carried
  <2>5. ASSUME NEW q \in Questions, Generate(w, q) \/ BackgroundGenerate(w, q)
        PROVE  Owed(r)'
    <3>1. UNCHANGED <<status, pc, job, api, stream, responses, orphans, dlq>>
      BY <2>5 DEF Generate, BackgroundGenerate, queue
    <3>2. pc' = [pc EXCEPT ![w] = pc[w]]
      BY <3>1 DEF TypeOK
    <3>3. Carries(w, r) => Carries(w, r)'
      BY <3>1 DEF Carries
    <3> QED
      BY <3>1, <3>2, <3>3, MovesOn
  <2>6. ASSUME NEW q \in Questions, GatherRaises(w, q)
        PROVE  Owed(r)'
    <3>1. /\ pc' = [pc EXCEPT ![w] = "markFailed"]
          /\ UNCHANGED <<status, job, api, stream, responses, orphans, dlq>>
      BY <2>6 DEF GatherRaises, Goto, db, queue
    <3> QED
      BY <3>1, MovesToCarried DEF Carried
  <2>7. CASE Ask(w)
    <3>1. UNCHANGED <<status, job, api, stream, responses, orphans, dlq>>
      BY <2>7 DEF Ask, db, queue
    <3>2. PICK p \in {"markFailed", "persist", "check"} : pc' = [pc EXCEPT ![w] = p]
      BY <2>7 DEF Ask, Goto
    <3>3. pc'[w] = p /\ pc[w] = "work" /\ job[w].type = "run_probe"
      BY <2>7, <3>2 DEF Ask, TypeOK
    <3>4. Carries(w, r) => Carries(w, r)'
      BY <3>1, <3>3 DEF Carries
    <3> QED
      BY <3>1, <3>2, <3>4, MovesOn
  <2>8. CASE Persist(w)
    <3>1. /\ pc' = [pc EXCEPT ![w] = "check"] /\ pc[w] = "persist"
          /\ responses' = [responses EXCEPT ![job[w].run] = @ \cup {First[job[w].run][job[w].q]}]
          /\ UNCHANGED <<status, job, api, stream, orphans, dlq>>
      BY <2>8 DEF Persist, Goto, queue
    <3>2. \A v \in Workers \ {w} : pc'[v] = pc[v] /\ job'[v] = job[v]
      BY <3>1 DEF TypeOK
    <3>3. /\ pc'[w] = "check" /\ job'[w] = job[w]
          /\ responses[r] \subseteq responses'[r]
          /\ job[w].run # r => responses'[r] = responses[r]
      BY <3>1 DEF TypeOK
    <3>4. job[w].run = r /\ Asked(r) \subseteq responses'[r] => Carries(w, r)'
      BY <3>3 DEF Carries
    <3>5. Carries(w, r) => Attended(r)'
      BY <3>1, <3>3, <3>4 DEF Carries, Attended
    <3>6. Asked(r) \subseteq responses'[r] => Asked(r) \subseteq responses[r] \/ Carries(w, r)'
      BY <3>3, <3>4
    <3>7. InStream(r) => InStream(r)'
      BY <3>1 DEF InStream
    <3> QED
      BY <3>1, <3>2, <3>3, <3>5, <3>6, <3>7, StillOwed
  <2>9. CASE CheckDone(w)
    <3> DEFINE p == IF Asked(job[w].run) \subseteq responses[job[w].run]
                    THEN "advance" ELSE "ack"
    <3>1. /\ pc' = [pc EXCEPT ![w] = p] /\ pc[w] = "check"
          /\ UNCHANGED <<status, job, api, stream, responses, orphans, dlq>>
      BY <2>9 DEF CheckDone, AllProbed, Goto, db, queue
    <3>2. pc'[w] = p
      BY <3>1 DEF TypeOK
    <3>3. Carries(w, r) => Carries(w, r)'
      BY <3>1, <3>2 DEF Carries
    <3> HIDE DEF p
    <3> QED
      BY <3>1, <3>3, MovesOn
  <2>10. ASSUME NEW m \in outbox[w], Emit(w, m) \/ EmitFails(w, m)
         PROVE  Owed(r)'
    <3>1. m \in Jobs /\ m.run = job[w].run /\ pc[w] = "emit" /\ stream \in Seq(Jobs)
      BY <2>10, JobTyped, FollowUpsTyped DEF OwnMessages, TypeOK, Emit, EmitFails
    <3>2. /\ UNCHANGED <<status, job, api, responses, orphans, dlq>>
          /\ stream' = stream \/ stream' = Append(stream, m)
          /\ stream' = stream => pc' = [pc EXCEPT ![w] = "markFailed"]
          /\ \E p : pc' = [pc EXCEPT ![w] = p]
      <4>1. stream # Append(stream, m)
        BY <3>1
      <4> QED
        BY <2>10, <4>1 DEF Emit, EmitFails, Goto, db
    <3>3. \A v \in Workers \ {w} : pc'[v] = pc[v] /\ job'[v] = job[v]
      BY <3>2 DEF TypeOK
    <3>4. InStream(r) => InStream(r)'
      BY <3>1, <3>2, StreamGrows DEF InStream
    <3>5. Carries(w, r) => Attended(r)'
      <4> SUFFICES ASSUME m.run = r PROVE Attended(r)'
        BY <3>1 DEF Carries
      <4>1. CASE stream' = stream
        <5>1. pc'[w] = "markFailed" /\ job'[w].run = r
          BY <3>1, <3>2, <4>1 DEF TypeOK
        <5> QED
          BY <5>1 DEF Attended, Carries
      <4>2. CASE stream' = Append(stream, m)
        BY <3>1, <4>2, StreamGrows DEF Attended
      <4> QED
        BY <3>2, <4>1, <4>2
    <3> QED
      BY <3>2, <3>3, <3>4, <3>5, StillOwed
  <2>11. CASE MarkFailed(w)
    <3>1. /\ pc' = [pc EXCEPT ![w] = "settle"] /\ status' = [status EXCEPT ![job[w].run] = "failed"]
          /\ UNCHANGED <<job, api, stream, responses, orphans, dlq>>
      BY <2>11 DEF MarkFailed, Failed, Goto, db, queue
    <3>2. CASE job[w].run = r
      <4>1. status'[r] = "failed"
        BY <3>1, <3>2 DEF TypeOK
      <4> QED
        BY <4>1 DEF Owed, ActiveStatuses
    <3>3. CASE job[w].run # r
      <4>1. status'[r] = status[r]
        BY <3>1, <3>3 DEF TypeOK
      <4> QED
        BY <3>1, <4>1, MovesToCarried DEF Carried
    <3> QED
      BY <3>2, <3>3
  <2>12. CASE MarkFailedRaises(w) \/ AckFails(w)
    <3>1. /\ pc' = [pc EXCEPT ![w] = "settle"]
          /\ UNCHANGED <<status, job, api, stream, responses, orphans, dlq>>
      BY <2>12 DEF MarkFailedRaises, AckFails, Goto, db, queue
    <3> QED
      BY <3>1, MovesToCarried DEF Carried
  <2>13. CASE StatementRaises(w)
    <3>1. /\ \E p \in {"markFailed", "settle"} : pc' = [pc EXCEPT ![w] = p]
          /\ UNCHANGED <<status, job, api, stream, responses, orphans, dlq>>
      BY <2>13 DEF StatementRaises, Goto, db, queue
    <3> QED
      BY <3>1, MovesToCarried DEF Carried
  <2>14. CASE Retry(w)
    <3> DEFINE m == [job[w] EXCEPT !.attempt = @ + 1]
    <3>1. /\ pc' = [pc EXCEPT ![w] = "ackOld"] /\ stream' = Append(stream, m) /\ pc[w] = "settle"
          /\ UNCHANGED <<status, job, api, responses, orphans, dlq>>
      BY <2>14 DEF Retry, Requeued, Goto, db
    <3>2. m \in Jobs /\ m.run = job[w].run /\ stream \in Seq(Jobs)
      BY <2>14, <3>1, JobTyped, RetryTyped DEF Retry, TypeOK
    <3> HIDE DEF m
    <3>3. \A v \in Workers \ {w} : pc'[v] = pc[v] /\ job'[v] = job[v]
      BY <3>1 DEF TypeOK
    <3>4. (InStream(r) => InStream(r)') /\ (Carries(w, r) => Attended(r)')
      BY <3>1, <3>2, StreamGrows DEF Carries, Attended
    <3> QED
      BY <3>1, <3>3, <3>4, StillOwed
  <2>15. CASE DeadLetter(w)
    <3>1. /\ pc' = [pc EXCEPT ![w] = "ackOld"] /\ dlq' = dlq \cup {job[w]}
          /\ UNCHANGED <<status, job, api, stream, responses, orphans>>
      BY <2>15 DEF DeadLetter, Goto, db
    <3>2. \A v \in Workers \ {w} : pc'[v] = pc[v] /\ job'[v] = job[v]
      BY <3>1 DEF TypeOK
    <3>3. Carries(w, r) => Excused(r)'
      BY <3>1 DEF Carries, Excused, GivenUp
    <3>4. InStream(r) => InStream(r)'
      BY <3>1 DEF InStream
    <3> QED
      BY <3>1, <3>2, <3>3, <3>4, StillOwed
  <2>16. CASE Ack(w)
    <3>1. /\ pc' = [pc EXCEPT ![w] = "idle"] /\ job' = [job EXCEPT ![w] = None]
          /\ pc[w] \in {"ack", "ackOld"}
          /\ UNCHANGED <<status, api, stream, responses, orphans, dlq>>
      BY <2>16 DEF Ack, Release, Goto, db, queue
    <3>2. \A v \in Workers \ {w} : pc'[v] = pc[v] /\ job'[v] = job[v]
      BY <3>1 DEF TypeOK
    <3>3. ~Carries(w, r)
      BY <3>1 DEF Carries
    <3>4. InStream(r) => InStream(r)'
      BY <3>1 DEF InStream
    <3> QED
      BY <3>1, <3>2, <3>3, <3>4, StillOwed
  <2>17. CASE Crash(w)
    <3>1. /\ pc' = [pc EXCEPT ![w] = "idle"] /\ job' = [job EXCEPT ![w] = None]
          /\ orphans' = orphans \cup {job[w]}
          /\ UNCHANGED <<status, api, stream, responses, dlq>>
      BY <2>17 DEF Crash, Release, Goto, db
    <3>2. \A v \in Workers \ {w} : pc'[v] = pc[v] /\ job'[v] = job[v]
      BY <3>1 DEF TypeOK
    <3>3. Carries(w, r) => Excused(r)'
      BY <3>1 DEF Carries, Excused, GivenUp
    <3>4. InStream(r) => InStream(r)'
      BY <3>1 DEF InStream
    <3> QED
      BY <3>1, <3>2, <3>3, <3>4, StillOwed
  <2> QED
    BY <1>3, <2>1, <2>2, <2>3, <2>4, <2>5, <2>6, <2>7, <2>8, <2>9, <2>10, <2>11, <2>12, <2>13,
       <2>14, <2>15, <2>16, <2>17 DEF Step, Disturb
<1> QED
  BY <1>1, <1>2, <1>3 DEF Next

-----------------------------------------------------------------------------
(* Where the messages of a run are *)

\* A worker that has only to acknowledge has done with its message.
Inert == {"idle", "ack", "ackOld"}

OfRun(r) == {m \in Jobs : m.run = r}
ProbesOf(r, q) == {m \in OfRun(r) : m.type = "run_probe" /\ m.q = q}

\* A message of M is in the stream; worker w works at one or is going to send one.
Waits(M) == \E i \in 1 .. Len(stream) : stream[i] \in M
Holds(M, w) == pc[w] \notin Inert /\ (job[w] \in M \/ outbox[w] \cap M # {})

\* There is one message of M at the most.
Alone(M) ==
    /\ \A i, j \in 1 .. Len(stream) : stream[i] \in M /\ stream[j] \in M => i = j
    /\ \A v, w \in Workers : Holds(M, v) /\ Holds(M, w) => v = w
    /\ \A w \in Workers : Holds(M, w) => ~Waits(M)

LEMMA AloneKept ==
    ASSUME NEW M, Alone(M), stream' = stream,
           \A v \in Workers : Holds(M, v)' => Holds(M, v)
    PROVE  Alone(M)' /\ (Waits(M)' => Waits(M))
  BY DEF Alone, Waits

LEMMA AloneConsumed ==
    ASSUME TypeOK, NEW M, Alone(M), NEW w \in Workers, stream # <<>>, stream' = Tail(stream),
           \A v \in Workers \ {w} : Holds(M, v)' => Holds(M, v),
           Holds(M, w)' => Head(stream) \in M
    PROVE  Alone(M)' /\ (Waits(M)' => Waits(M))
<1>1. /\ stream \in Seq(Jobs) /\ Len(stream) \in Nat /\ Len(stream) # 0
      /\ Len(stream') = Len(stream) - 1
      /\ \A i \in 1 .. Len(stream') : i + 1 \in 1 .. Len(stream) /\ stream'[i] = stream[i + 1]
      /\ Head(stream) = stream[1] /\ 1 \in 1 .. Len(stream)
  BY DEF TypeOK
<1>2. \A i, j \in 1 .. Len(stream') : stream'[i] \in M /\ stream'[j] \in M => i = j
  <2> SUFFICES ASSUME NEW i \in 1 .. Len(stream'), NEW j \in 1 .. Len(stream'),
                      stream'[i] \in M, stream'[j] \in M
               PROVE  i = j
    OBVIOUS
  <2>1. i + 1 = j + 1
    BY <1>1 DEF Alone
  <2> QED
    BY <1>1, <2>1
<1>3. Waits(M)' => Waits(M)
  BY <1>1 DEF Waits
<1>4. Head(stream) \in M => Waits(M) /\ ~Waits(M)'
  <2> SUFFICES ASSUME Head(stream) \in M, NEW i \in 1 .. Len(stream'), stream'[i] \in M
               PROVE  FALSE
    BY <1>1 DEF Waits
  <2>1. i + 1 = 1
    BY <1>1 DEF Alone
  <2> QED
    BY <1>1, <2>1
<1>5. \A v \in Workers : Holds(M, v)' => ~Waits(M)'
  BY <1>3, <1>4 DEF Alone
<1>6. \A u, v \in Workers : Holds(M, u)' /\ Holds(M, v)' => u = v
  BY <1>4 DEF Alone
<1> QED
  BY <1>2, <1>3, <1>5, <1>6 DEF Alone

LEMMA AloneAppended ==
    ASSUME TypeOK, NEW M, Alone(M), NEW m \in Jobs, stream' = Append(stream, m),
           \A v \in Workers : Holds(M, v)' => Holds(M, v),
           m \in M => ~Waits(M) /\ \A v \in Workers : ~Holds(M, v)'
    PROVE  Alone(M)' /\ (Waits(M)' <=> m \in M \/ Waits(M))
<1>1. /\ stream \in Seq(Jobs) /\ Len(stream) \in Nat
      /\ Len(stream') = Len(stream) + 1
      /\ \A i \in 1 .. Len(stream) : stream'[i] = stream[i] /\ i \in 1 .. Len(stream')
      /\ stream'[Len(stream) + 1] = m /\ Len(stream) + 1 \in 1 .. Len(stream')
      /\ \A i \in 1 .. Len(stream') : i \in 1 .. Len(stream) \/ i = Len(stream) + 1
  BY DEF TypeOK
<1>2. Waits(M)' <=> m \in M \/ Waits(M)
  BY <1>1 DEF Waits
<1>3. \A i, j \in 1 .. Len(stream') : stream'[i] \in M /\ stream'[j] \in M => i = j
  <2>1. CASE m \in M
    <3>1. \A i \in 1 .. Len(stream) : stream[i] \notin M
      BY <2>1 DEF Waits
    <3> QED
      BY <1>1, <3>1
  <2>2. CASE m \notin M
    BY <1>1, <2>2 DEF Alone
  <2> QED
    BY <2>1, <2>2
<1> QED
  BY <1>2, <1>3 DEF Alone

-----------------------------------------------------------------------------
(* What a step does to the messages *)

\* Nothing a message or a status depends on.
Same == UNCHANGED <<status, api, stream, dlq, pc, job, seen, outbox, paid, faults>>

\* Only worker w moves, and no disturbance is forgotten.
Others(w) ==
    /\ \A v \in Workers \ {w} :
          pc'[v] = pc[v] /\ job'[v] = job[v] /\ outbox'[v] = outbox[v] /\ seen'[v] = seen[v]
    /\ api' = api /\ faults \subseteq faults'

Takes(w) ==
    /\ pc[w] = "idle" /\ pc'[w] = "load"
    /\ stream # <<>> /\ job'[w] = Head(stream) /\ stream' = Tail(stream)
    /\ outbox'[w] = {} /\ UNCHANGED <<status, dlq, paid>>

\* w goes on with its message: it sends nothing and sets no status.
Goes(w) ==
    /\ pc[w] \notin {"idle", "ackOld"}
    /\ pc'[w] \in {"work", "persist", "check", "advance", "ack", "markFailed", "settle"}
    /\ pc[w] = "ack" => <<"ack", job[w].run>> \in faults'
    /\ pc'[w] \in {"work", "persist", "check", "advance"} =>
          \/ /\ pc[w] = "load" /\ pc'[w] = "work" /\ seen'[w] = status[job[w].run]
             /\ job[w].type = "run_probe" => status[job[w].run] # "failed"
          \/ pc[w] \in {"work", "persist", "check"} /\ pc'[w] # "work" /\ seen'[w] = seen[w]
    /\ pc'[w] = "ack" => job[w].type = "run_probe"
    /\ pc'[w] = "settle" =>
          \/ Hurt(job[w].run, {"ack", "db"})'
          \/ pc[w] = "markFailed" /\ background[w] # {}
    /\ \/ UNCHANGED paid
       \/ /\ pc[w] = "work" /\ job[w].type = "run_probe"
          /\ paid' = [paid EXCEPT ![job[w].run][job[w].q] = @ + 1]
    /\ job'[w] = job[w] /\ outbox'[w] = {} /\ UNCHANGED <<status, stream, dlq>>

Sets(w, t) ==
    /\ pc[w] \in {"advance", "skip"} /\ pc'[w] \in {"skip", "emit", "ack"}
    /\ CanTransition(seen[w], t)
    /\ t = IF pc[w] = "skip" THEN "probing" ELSE Target[job[w].type]
    /\ status' = [status EXCEPT ![job[w].run] = t] /\ seen'[w] = t
    /\ pc'[w] = "skip" => SkipsProbes(job[w])
    /\ pc'[w] = "ack" => FollowUps(job[w]) = {}
    /\ outbox'[w] = IF pc'[w] = "emit" THEN FollowUps(job[w]) ELSE {}
    /\ job'[w] = job[w] /\ UNCHANGED <<stream, dlq, paid>>

Sends(w, m) ==
    /\ pc[w] = "emit" /\ m \in outbox[w] /\ stream' = Append(stream, m)
    /\ \/ pc'[w] = "emit" /\ outbox'[w] = outbox[w] \ {m} /\ outbox[w] # {m}
       \/ pc'[w] = "ack" /\ outbox'[w] = {} /\ outbox[w] = {m}
       \/ pc'[w] = "markFailed" /\ outbox'[w] = {} /\ <<"landed", job[w].run>> \in faults'
    /\ job'[w] = job[w] /\ UNCHANGED <<status, dlq, paid>>

Marks(w) ==
    /\ pc[w] = "markFailed" /\ pc'[w] = "settle"
    /\ status' = [status EXCEPT ![job[w].run] = "failed"]
    /\ job'[w] = job[w] /\ outbox'[w] = {} /\ UNCHANGED <<stream, dlq, paid>>

Requeues(w, m) ==
    /\ pc[w] = "settle" /\ pc'[w] = "ackOld" /\ stream' = Append(stream, m)
    /\ m \in Jobs /\ m.run = job[w].run /\ m.type = job[w].type /\ m.q = job[w].q
    /\ job'[w] = job[w] /\ outbox'[w] = {} /\ UNCHANGED <<status, dlq, paid>>

Buries(w) ==
    /\ pc[w] = "settle" /\ pc'[w] = "ackOld" /\ dlq' = dlq \cup {job[w]}
    /\ job'[w] = job[w] /\ outbox'[w] = {} /\ UNCHANGED <<status, stream, paid>>

Leaves(w) ==
    /\ pc'[w] = "idle" /\ job'[w] = None /\ outbox'[w] = {}
    /\ pc[w] \in {"ack", "ackOld"} \/ orphans' = orphans \cup {job[w]}
    /\ UNCHANGED <<status, stream, dlq, paid>>

Moves(w) ==
    \/ Takes(w) \/ Goes(w) \/ Marks(w) \/ Buries(w) \/ Leaves(w)
    \/ (\E t \in RunStatuses : Sets(w, t)) \/ (\E m \in Jobs : Sends(w, m) \/ Requeues(w, m))

LEMMA OthersStay ==
    ASSUME TypeOK, NEW w \in Workers, Step(w) \/ Disturb(w)
    PROVE  Others(w)
<1> USE DEF Others, TypeOK
<1>1. CASE Consume(w) \/ Load(w) \/ WriteProduct(w) \/ NobodyMatches(w) \/ Generated(w)
  BY <1>1 DEF Consume, Load, WriteProduct, NobodyMatches, Generated, Goto, undisturbed
<1>2. CASE Ask(w) \/ Persist(w) \/ CheckDone(w)
  BY <1>2 DEF Ask, Persist, CheckDone, Goto, Hit, undisturbed
<1>3. CASE Advance(w)
  BY <1>3 DEF Advance, Goto, undisturbed
<1>4. CASE MarkFailed(w) \/ Retry(w) \/ DeadLetter(w) \/ Ack(w)
  BY <1>4 DEF MarkFailed, Retry, DeadLetter, Ack, Release, Goto, undisturbed
<1>5. CASE StatementRaises(w) \/ MarkFailedRaises(w) \/ AckFails(w) \/ Crash(w)
  BY <1>5 DEF StatementRaises, MarkFailedRaises, AckFails, Crash, Release, Goto, Hit, undisturbed
<1>6. ASSUME NEW q \in Questions, Generate(w, q) \/ GatherRaises(w, q) \/ BackgroundGenerate(w, q)
      PROVE  Others(w)
  BY <1>6 DEF Generate, GatherRaises, BackgroundGenerate, Goto, Hit, undisturbed
<1>7. ASSUME NEW m \in outbox[w], Emit(w, m) \/ EmitFails(w, m)
      PROVE  Others(w)
  BY <1>7 DEF Emit, EmitFails, Goto, Hit, undisturbed
<1> QED
  BY <1>1, <1>2, <1>3, <1>4, <1>5, <1>6, <1>7 DEF Step, Disturb

LEMMA MovesOrStays ==
    ASSUME TypeOK, OwnMessages, NEW w \in Workers, Step(w) \/ Disturb(w)
    PROVE  Same \/ Moves(w)
<1>1. CASE Consume(w)
  BY <1>1 DEF Consume, Goto, TypeOK, OwnMessages, Moves, Takes
<1>2. CASE Load(w)
  <2> DEFINE r == job[w].run
             claims == job[w].type = "run_probe" /\ MustClaim(status[r])
             raises == claims /\ ~CanTransition(status[r], "probing")
             now == IF claims /\ ~raises THEN "probing" ELSE status[r]
             p == IF raises THEN "markFailed" ELSE "work"
  <2>1. now = status[r] /\ (p = "work" => ~claims)
    BY Predecessor DEF MustClaim
  <2>2. /\ pc[w] = "load" /\ status' = [status EXCEPT ![r] = now] /\ pc' = [pc EXCEPT ![w] = p]
        /\ seen' = [seen EXCEPT ![w] = now] /\ UNCHANGED <<stream, dlq, paid, job, outbox>>
    BY <1>2 DEF Load, Goto, queue
  <2>3. p \in {"work", "markFailed"}
    OBVIOUS
  <2>4. p = "work" /\ job[w].type = "run_probe" => status[r] # "failed"
    BY <2>1 DEF MustClaim
  <2> HIDE DEF now, p
  <2>5. Goes(w)
    BY <2>1, <2>2, <2>3, <2>4 DEF Goes, TypeOK, OwnMessages
  <2> QED
    BY <2>5 DEF Moves
<1>3. CASE WriteProduct(w) \/ NobodyMatches(w) \/ Generated(w)
  <2>1. Goes(w)
    BY <1>3 DEF WriteProduct, NobodyMatches, Generated, Goto, TypeOK, OwnMessages, Goes, queue
  <2> QED
    BY <2>1 DEF Moves
<1>4. CASE Ask(w)
  <2>1. PICK p \in {"markFailed", "persist", "check"} : pc' = [pc EXCEPT ![w] = p]
    BY <1>4 DEF Ask, Goto
  <2>2. Goes(w)
    BY <1>4, <2>1 DEF Ask, TypeOK, OwnMessages, Goes, queue
  <2> QED
    BY <2>2 DEF Moves
<1>5. CASE Persist(w) \/ CheckDone(w)
  <2>1. Goes(w)
    BY <1>5 DEF Persist, CheckDone, Goto, TypeOK, OwnMessages, Goes, queue
  <2> QED
    BY <2>1 DEF Moves
<1>6. CASE Advance(w)
  <2> DEFINE t == IF pc[w] = "skip" THEN "probing" ELSE Target[job[w].type]
             after == IF pc[w] = "advance" /\ SkipsProbes(job[w]) THEN "skip"
                      ELSE IF FollowUps(job[w]) = {} THEN "ack" ELSE "emit"
             allowed == Checked(w, t)
  <2>1. /\ pc[w] \in {"advance", "skip"}
        /\ status' = IF allowed THEN [status EXCEPT ![job[w].run] = t] ELSE status
        /\ seen' = IF allowed THEN [seen EXCEPT ![w] = t] ELSE seen
        /\ outbox' = [outbox EXCEPT ![w] = IF allowed /\ after = "emit" THEN FollowUps(job[w]) ELSE {}]
        /\ pc' = [pc EXCEPT ![w] = IF allowed THEN after ELSE "markFailed"]
        /\ UNCHANGED <<stream, dlq, job, paid>>
    BY <1>6 DEF Advance, Goto, queue
  <2>2. t \in RunStatuses
    BY <2>1, JobTyped, TargetTyped DEF RunStatuses, ActiveStatuses
  <2>3. /\ after \in {"skip", "emit", "ack"} /\ (after = "skip" => SkipsProbes(job[w]))
        /\ after = "ack" => FollowUps(job[w]) = {}
    OBVIOUS
  <2>4. allowed <=> CanTransition(seen[w], t)
    BY DEF Checked
  <2>5. t = IF pc[w] = "skip" THEN "probing" ELSE Target[job[w].type]
    OBVIOUS
  <2> HIDE DEF t, after, allowed
  <2>6. CASE allowed
    <3>1. Sets(w, t)
      BY <2>1, <2>3, <2>4, <2>5, <2>6 DEF Sets, TypeOK
    <3> QED
      BY <2>2, <3>1 DEF Moves
  <2>7. CASE ~allowed
    <3>1. Goes(w)
      BY <2>1, <2>7 DEF Goes, TypeOK
    <3> QED
      BY <3>1 DEF Moves
  <2> QED
    BY <2>6, <2>7
<1>7. CASE MarkFailed(w)
  <2>1. Marks(w)
    BY <1>7 DEF MarkFailed, Failed, Goto, TypeOK, OwnMessages, Marks, queue
  <2> QED
    BY <2>1 DEF Moves
<1>8. CASE Retry(w)
  <2> DEFINE m == [job[w] EXCEPT !.attempt = @ + 1]
  <2>1. m \in Jobs /\ m.run = job[w].run /\ m.type = job[w].type /\ m.q = job[w].q
    BY <1>8, JobTyped, RetryTyped DEF Retry
  <2>2. stream' = Append(stream, m)
    BY <1>8 DEF Retry, Requeued
  <2> HIDE DEF m
  <2>3. Requeues(w, m)
    BY <1>8, <2>1, <2>2 DEF Retry, Goto, TypeOK, OwnMessages, Requeues
  <2> QED
    BY <2>1, <2>3 DEF Moves
<1>9. CASE DeadLetter(w)
  <2>1. Buries(w)
    BY <1>9 DEF DeadLetter, Goto, TypeOK, OwnMessages, Buries
  <2> QED
    BY <2>1 DEF Moves
<1>10. CASE Ack(w) \/ Crash(w)
  <2>1. Leaves(w)
    BY <1>10 DEF Ack, Crash, Release, Goto, TypeOK, OwnMessages, Leaves, queue
  <2> QED
    BY <2>1 DEF Moves
<1>11. CASE StatementRaises(w) \/ MarkFailedRaises(w) \/ AckFails(w)
  <2>1. Goes(w)
    BY <1>11 DEF StatementRaises, MarkFailedRaises, AckFails, Goto, Hit, Hurt, TypeOK, OwnMessages, Goes, queue
  <2> QED
    BY <2>1 DEF Moves
<1>12. ASSUME NEW q \in Questions, GatherRaises(w, q)
       PROVE  Goes(w)
  BY <1>12 DEF GatherRaises, Goto, TypeOK, OwnMessages, Goes, queue
<1>13. ASSUME NEW q \in Questions, Generate(w, q) \/ BackgroundGenerate(w, q)
       PROVE  Same
  BY <1>13 DEF Generate, BackgroundGenerate, Same, queue, undisturbed
<1>14. ASSUME NEW m \in outbox[w], Emit(w, m) \/ EmitFails(w, m)
       PROVE  Moves(w)
  <2>1. m \in Jobs
    BY DEF TypeOK
  <2>2. CASE Emit(w, m)
    <3>1. Sends(w, m)
      BY <2>2 DEF Emit, Goto, TypeOK, Sends
    <3> QED
      BY <2>1, <3>1 DEF Moves
  <2>3. CASE EmitFails(w, m)
    <3>1. CASE stream' = stream
      BY <2>3, <3>1 DEF EmitFails, Goto, TypeOK, Goes, Moves
    <3>2. CASE stream' # stream
      <4>1. Sends(w, m)
        BY <2>3, <3>2 DEF EmitFails, Hit, Goto, TypeOK, Sends
      <4> QED
        BY <2>1, <4>1 DEF Moves
    <3> QED
      BY <3>1, <3>2
  <2> QED
    BY <1>14, <2>2, <2>3
<1> QED
  BY <1>1, <1>2, <1>3, <1>4, <1>5, <1>6, <1>7, <1>8, <1>9, <1>10, <1>11, <1>12, <1>13, <1>14
  DEF Step, Disturb, Moves

-----------------------------------------------------------------------------
(* No probe is lost without a trace *)

LEMMA WaitsAppended ==
    ASSUME TypeOK, NEW M, NEW m \in Jobs, stream' = Append(stream, m)
    PROVE  Waits(M)' <=> m \in M \/ Waits(M)
<1>1. /\ stream \in Seq(Jobs) /\ Len(stream) \in Nat
      /\ Len(stream') = Len(stream) + 1
      /\ \A i \in 1 .. Len(stream) : stream'[i] = stream[i] /\ i \in 1 .. Len(stream')
      /\ stream'[Len(stream) + 1] = m /\ Len(stream) + 1 \in 1 .. Len(stream')
      /\ \A i \in 1 .. Len(stream') : i \in 1 .. Len(stream) \/ i = Len(stream) + 1
  BY DEF TypeOK
<1> QED
  BY <1>1 DEF Waits

LEMMA WaitsTaken ==
    ASSUME TypeOK, NEW M, stream # <<>>, stream' = Tail(stream), Waits(M)
    PROVE  Head(stream) \in M \/ Waits(M)'
<1>1. PICK i \in 1 .. Len(stream) : stream[i] \in M
  BY DEF Waits
<1>2. CASE i = 1
  BY <1>1, <1>2 DEF TypeOK
<1>3. CASE i # 1
  <2>1. i - 1 \in 1 .. Len(stream') /\ stream'[i - 1] = stream[i]
    BY <1>3 DEF TypeOK
  <2> QED
    BY <1>1, <2>1 DEF Waits
<1> QED
  BY <1>2, <1>3

\* A worker is at a probe of M that has not been answered, or is going to retry it.
Seeks(M, w) ==
    /\ pc[w] \in {"load", "work", "persist", "markFailed", "settle"}
    /\ job[w] \in M

\* Question q of r is answered, or its probe is still on its way, or there is a trace
\* of what became of it.
Sought(r, q) ==
    \/ First[r][q] \in responses[r]
    \/ GivenUp(r) \/ Hurt(r, {"llm"})
    \/ Waits(ProbesOf(r, q)) \/ \E w \in Workers : Seeks(ProbesOf(r, q), w)

\* A job is on its way that comes before the probes of r.
Preparations(r) == {m \in OfRun(r) : m.type \in {"gen_personas", "gen_paraphrases"}}
Prepared(r) == Waits(Preparations(r))
Preparing(r) ==
    Prepared(r) \/ \E w \in Workers : pc[w] \notin Inert /\ job[w] \in Preparations(r)

\* The probes of a run are looked for from the moment its status asks for them.
ProbesKept ==
    /\ \A w \in Workers : pc[w] = "emit" /\ job[w].type = "gen_paraphrases" =>
          \A q \in Survey[job[w].run] :
              Job("run_probe", job[w].run, q) \in outbox[w] \/ Sought(job[w].run, q)
    /\ \A r \in Runs : status[r] = "paraphrases_ready" =>
          Preparing(r) \/ \A q \in Survey[r] : Sought(r, q)

LEMMA InitKept == Init => ProbesKept
  BY DEF Init, ProbesKept

\* What is stored, given up or recorded stays so.
Traces ==
    /\ \A r \in Runs : responses[r] \subseteq responses'[r]
    /\ \A r \in Runs : api[r] = "dropped" => api'[r] = "dropped"
    /\ orphans \subseteq orphans' /\ dlq \subseteq dlq' /\ faults \subseteq faults'

LEMMA TracesStay == TypeOK /\ [Next]_vars => Traces
<1> SUFFICES ASSUME TypeOK, [Next]_vars PROVE Traces
  OBVIOUS
<1>1. CASE UNCHANGED vars
  BY <1>1 DEF Traces, vars, db, queue, undisturbed
<1>2. ASSUME NEW r \in Runs, Accept(r) \/ LoseFirst(r) PROVE Traces
  BY <1>2 DEF Traces, TypeOK, Accept, CreateRun, EnqueueFirst, LoseFirst, Hit, db, queue, undisturbed
<1>3. ASSUME NEW w \in Workers, Step(w) \/ Disturb(w) PROVE Traces
  <2>1. api' = api /\ faults \subseteq faults'
    BY <1>3, OthersStay DEF Others
  <2>2. responses' = responses
        \/ responses' = [responses EXCEPT ![job[w].run] = @ \cup {First[job[w].run][job[w].q]}]
    BY <1>3 DEF Step, Disturb, Consume, Load, WriteProduct, NobodyMatches, Generated, Generate,
       Ask, Persist, CheckDone, Advance, Emit, MarkFailed, Retry, DeadLetter, Ack, GatherRaises,
       BackgroundGenerate, EmitFails, StatementRaises, MarkFailedRaises, AckFails, Crash, db
  <2>3. orphans \subseteq orphans' /\ dlq \subseteq dlq'
    BY <1>3 DEF Step, Disturb, Consume, Load, WriteProduct, NobodyMatches, Generated, Generate,
       Ask, Persist, CheckDone, Advance, Emit, MarkFailed, Retry, DeadLetter, Ack, GatherRaises,
       BackgroundGenerate, EmitFails, StatementRaises, MarkFailedRaises, AckFails, Crash, queue
  <2> QED
    BY <2>1, <2>2, <2>3 DEF Traces, TypeOK
<1> QED
  BY <1>1, <1>2, <1>3 DEF Next

\* The worker at a probe answers it, passes it on, or leaves a trace of it.
LEMMA SeekingWorker ==
    ASSUME TypeOK, NEW r \in Runs, NEW q \in Survey[r], NEW w \in Workers,
           Seeks(ProbesOf(r, q), w), Step(w) \/ Disturb(w)
    PROVE  Sought(r, q)'
<1> DEFINE M == ProbesOf(r, q)
<1>1. /\ job[w] \in Jobs /\ job[w].type = "run_probe" /\ job[w].run = r /\ job[w].q = q
      /\ pc[w] \in {"load", "work", "persist", "markFailed", "settle"}
  BY DEF Seeks, ProbesOf, OfRun
<1>0. ASSUME NEW p \in {"load", "work", "persist", "markFailed", "settle"},
             pc' = [pc EXCEPT ![w] = p], job' = job
      PROVE  Sought(r, q)'
  <2>1. Seeks(ProbesOf(r, q), w)'
    BY <1>0 DEF Seeks, ProbesOf, OfRun, TypeOK
  <2> QED
    BY <2>1 DEF Sought
<1>2. CASE Load(w) \/ MarkFailed(w) \/ MarkFailedRaises(w) \/ StatementRaises(w)
  <2>1. /\ \E p \in {"work", "markFailed", "settle"} : pc' = [pc EXCEPT ![w] = p]
        /\ job' = job
    BY <1>2 DEF Load, MarkFailed, MarkFailedRaises, StatementRaises, Goto
  <2> QED
    BY <1>0, <2>1
<1>3. CASE Ask(w)
  <2>1. CASE Hit("llm", job[w].run)
    BY <1>1, <2>1 DEF Hit, Hurt, Sought
  <2>2. CASE ~Hit("llm", job[w].run)
    <3>1. \E p \in {"persist", "markFailed"} : pc' = [pc EXCEPT ![w] = p]
      BY <1>3, <2>2 DEF Ask, Goto
    <3>2. job' = job
      BY <1>3 DEF Ask
    <3> QED
      BY <1>0, <3>1, <3>2
  <2> QED
    BY <2>1, <2>2
<1>4. CASE Persist(w)
  <2>1. responses' = [responses EXCEPT ![r] = @ \cup {First[r][q]}]
    BY <1>1, <1>4 DEF Persist
  <2> QED
    BY <2>1 DEF Sought, TypeOK
<1>5. CASE Retry(w)
  <2> DEFINE m == [job[w] EXCEPT !.attempt = @ + 1]
  <2>1. m \in Jobs /\ m.run = r /\ m.type = "run_probe" /\ m.q = q
    BY <1>1, <1>5, RetryTyped DEF Retry
  <2>2. stream' = Append(stream, m)
    BY <1>5 DEF Retry, Requeued
  <2>3. m \in ProbesOf(r, q)
    BY <2>1 DEF ProbesOf, OfRun
  <2> HIDE DEF m
  <2>4. Waits(ProbesOf(r, q))'
    BY <2>1, <2>2, <2>3, WaitsAppended
  <2> QED
    BY <2>4 DEF Sought
<1>6. CASE DeadLetter(w)
  BY <1>1, <1>6 DEF DeadLetter, Sought, GivenUp
<1>7. CASE Crash(w)
  BY <1>1, <1>7 DEF Crash, Sought, GivenUp
<1>8. ASSUME NEW p \in Questions, BackgroundGenerate(w, p) PROVE Sought(r, q)'
  <2>1. Seeks(ProbesOf(r, q), w)'
    BY <1>8 DEF BackgroundGenerate, Seeks
  <2> QED
    BY <2>1 DEF Sought
<1>9. /\ ~Consume(w) /\ ~WriteProduct(w) /\ ~NobodyMatches(w) /\ ~Generated(w) /\ ~CheckDone(w)
      /\ ~Advance(w) /\ ~Ack(w) /\ ~AckFails(w)
      /\ \A p \in Questions : ~Generate(w, p) /\ ~GatherRaises(w, p)
      /\ \A m : ~Emit(w, m) /\ ~EmitFails(w, m)
  BY <1>1 DEF Consume, WriteProduct, NobodyMatches, Generated, CheckDone, Advance, Ack, AckFails,
     Generate, GatherRaises, Emit, EmitFails
<1> QED
  BY <1>2, <1>3, <1>4, <1>5, <1>6, <1>7, <1>8, <1>9 DEF Step, Disturb

\* A probe that is looked for does not get lost.
LEMMA SoughtStays ==
    ASSUME TypeOK, OwnMessages, [Next]_vars, NEW r \in Runs, NEW q \in Survey[r], Sought(r, q)
    PROVE  Sought(r, q)'
<1> DEFINE M == ProbesOf(r, q)
<1>1. Traces
  BY TracesStay
<1>2. CASE First[r][q] \in responses[r] \/ GivenUp(r) \/ Hurt(r, {"llm"})
  BY <1>1, <1>2 DEF Traces, Sought, GivenUp, Hurt
<1>3. CASE UNCHANGED vars
  BY <1>1, <1>3 DEF vars, queue, Sought, Waits, Seeks, ProbesOf, OfRun, GivenUp, Hurt, Traces
<1>4. ASSUME NEW o \in Runs, Accept(o) \/ LoseFirst(o) PROVE Sought(r, q)'
  <2>1. /\ pc' = pc /\ job' = job
        /\ stream' = stream \/ stream' = Append(stream, Job("gen_personas", o, None))
    BY <1>4 DEF Accept, CreateRun, EnqueueFirst, LoseFirst, queue
  <2>2. Job("gen_personas", o, None) \in Jobs
    BY ConstantsAssumption DEF Job, Jobs, JobTypes
  <2>3. Waits(M) => Waits(M)'
    BY <2>1, <2>2, WaitsAppended DEF Waits
  <2> QED
    BY <1>2, <2>1, <2>3 DEF Sought, Seeks
<1>5. ASSUME NEW w \in Workers, Step(w) \/ Disturb(w) PROVE Sought(r, q)'
  <2>1. Others(w) /\ (Same \/ Moves(w))
    BY <1>5, OthersStay, MovesOrStays
  <2>2. ASSUME Waits(M) PROVE Sought(r, q)'
    <3>1. CASE Takes(w)
      <4>1. Head(stream) \in M \/ Waits(M)'
        BY <2>2, <3>1, WaitsTaken DEF Takes
      <4>2. Head(stream) \in M => Seeks(M, w)'
        BY <3>1 DEF Takes, Seeks
      <4> QED
        BY <4>1, <4>2 DEF Sought
    <3>2. ASSUME NEW m \in Jobs, stream' = Append(stream, m) PROVE Waits(M)'
      BY <2>2, <3>2, WaitsAppended
    <3>3. stream' = stream => Waits(M)'
      BY <2>2 DEF Waits
    <3>4. Takes(w) \/ stream' = stream \/ \E m \in Jobs : stream' = Append(stream, m)
      BY <2>1 DEF Same, Moves, Goes, Marks, Buries, Leaves, Sets, Sends, Requeues
    <3> QED
      BY <3>1, <3>2, <3>3, <3>4 DEF Sought
  <2>3. ASSUME NEW v \in Workers, Seeks(M, v) PROVE Sought(r, q)'
    <3>1. CASE v = w
      BY <1>5, <2>3, <3>1, SeekingWorker
    <3>2. CASE v # w
      <4>1. Seeks(M, v)'
        BY <2>1, <2>3, <3>2 DEF Others, Seeks
      <4> QED
        BY <4>1 DEF Sought
    <3> QED
      BY <3>1, <3>2
  <2> QED
    BY <1>2, <2>2, <2>3 DEF Sought
<1> QED
  BY <1>3, <1>4, <1>5 DEF Next

\* A preparing job stays on its way, has sent the probes, or leaves a trace.
LEMMA PreparingMove ==
    ASSUME TypeOK, OwnMessages, ProbesKept, [Next]_vars,
           NEW r \in Runs, Preparing(r), NEW w \in Workers, Others(w), Same \/ Moves(w),
           status'[r] = status[r]
    PROVE  Preparing(r)' \/ \A q \in Survey[r] : Sought(r, q)'
<1> DEFINE M == Preparations(r)
<1>1. CASE Same
  BY <1>1 DEF Same, Preparing, Prepared, Waits
<1>2. ASSUME Moves(w), Waits(M) PROVE Preparing(r)'
  <2>1. CASE Takes(w)
    <3>1. Head(stream) \in M \/ Waits(M)'
      BY <1>2, <2>1, WaitsTaken DEF Takes
    <3>2. Head(stream) \in M => pc'[w] \notin Inert /\ job'[w] \in M
      BY <2>1 DEF Takes, Inert
    <3> QED
      BY <3>1, <3>2 DEF Preparing, Prepared
  <2>2. ASSUME NEW m \in Jobs, stream' = Append(stream, m) PROVE Waits(M)'
    BY <1>2, <2>2, WaitsAppended
  <2>3. stream' = stream => Waits(M)'
    BY <1>2 DEF Waits
  <2>4. Takes(w) \/ stream' = stream \/ \E m \in Jobs : stream' = Append(stream, m)
    BY <1>2 DEF Moves, Goes, Marks, Buries, Leaves, Sets, Sends, Requeues
  <2> QED
    BY <2>1, <2>2, <2>3, <2>4 DEF Preparing, Prepared
<1>3. ASSUME Moves(w), NEW v \in Workers, pc[v] \notin Inert, job[v] \in M
      PROVE  Preparing(r)' \/ \A q \in Survey[r] : Sought(r, q)'
  <2>1. CASE v # w
    BY <1>3, <2>1 DEF Others, Preparing
  <2>2. CASE v = w
    <3>1. /\ job[w] \in Jobs /\ job[w].run = r /\ pc[w] \notin Inert
          /\ job[w].type \in {"gen_personas", "gen_paraphrases"}
      BY <1>3, <2>2 DEF Preparations, OfRun
    <3>0. pc'[w] \notin Inert /\ job'[w] = job[w] => Preparing(r)'
      BY <1>3, <2>2 DEF Preparing
    <3>2. CASE Goes(w) \/ Marks(w)
      BY <3>0, <3>1, <3>2 DEF Goes, Marks, Inert
    <3>3. ASSUME NEW t \in RunStatuses, Sets(w, t)
          PROVE  Preparing(r)' \/ \A q \in Survey[r] : Sought(r, q)'
      <4>1. CASE pc'[w] # "ack"
        BY <3>0, <3>3, <4>1 DEF Sets, Inert
      <4>2. CASE pc'[w] = "ack"
        <5>1. FollowUps(job[w]) = {}
          BY <3>3, <4>2 DEF Sets
        <5>2. job[w].type = "gen_paraphrases" /\ Survey[r] = {}
          BY <3>1, <5>1 DEF FollowUps
        <5> QED
          BY <5>2
      <4> QED
        BY <4>1, <4>2
    <3>4. ASSUME NEW m \in Jobs, Sends(w, m)
          PROVE  Preparing(r)' \/ \A q \in Survey[r] : Sought(r, q)'
      <4>1. CASE pc'[w] # "ack"
        BY <3>0, <3>4, <4>1 DEF Sends, Inert
      <4>2. CASE pc'[w] = "ack" /\ job[w].type = "gen_personas"
        <5>1. m \in FollowUps(job[w]) /\ stream' = Append(stream, m)
          BY <3>4 DEF Sends, OwnMessages
        <5>2. m = Job("gen_paraphrases", r, None)
          BY <3>1, <4>2, <5>1 DEF FollowUps
        <5>3. m \in M
          BY <5>2 DEF Job, Preparations, OfRun
        <5>4. Waits(M)'
          BY <5>1, <5>3, WaitsAppended
        <5> QED
          BY <5>4 DEF Preparing, Prepared
      <4>3. CASE pc'[w] = "ack" /\ job[w].type = "gen_paraphrases"
        <5>1. pc[w] = "emit" /\ outbox[w] = {m} /\ stream' = Append(stream, m)
          BY <3>4, <4>3 DEF Sends
        <5> SUFFICES ASSUME NEW q \in Survey[r] PROVE Sought(r, q)'
          OBVIOUS
        <5>2. CASE Sought(r, q)
          BY <5>2, SoughtStays
        <5>3. CASE Job("run_probe", r, q) = m
          <6>1. m \in ProbesOf(r, q)
            BY <5>3 DEF Job, ProbesOf, OfRun
          <6>2. Waits(ProbesOf(r, q))'
            BY <5>1, <6>1, WaitsAppended
          <6> QED
            BY <6>2 DEF Sought
        <5> QED
          BY <3>1, <4>3, <5>1, <5>2, <5>3 DEF ProbesKept
      <4> QED
        BY <3>1, <4>1, <4>2, <4>3
    <3>5. ASSUME NEW m \in Jobs, Requeues(w, m) PROVE Preparing(r)'
      <4>1. m \in M /\ stream' = Append(stream, m)
        BY <3>1, <3>5 DEF Requeues, Preparations, OfRun
      <4>2. Waits(M)'
        BY <4>1, WaitsAppended
      <4> QED
        BY <4>2 DEF Preparing, Prepared
    <3>6. CASE Buries(w) \/ Leaves(w)
      BY <3>1, <3>6 DEF Buries, Leaves, Inert, Sought, GivenUp
    <3>7. ~Takes(w)
      BY <3>1 DEF Takes, Inert
    <3> QED
      BY <1>3, <3>2, <3>3, <3>4, <3>5, <3>6, <3>7 DEF Moves
  <2> QED
    BY <2>1, <2>2
<1> QED
  BY <1>1, <1>2, <1>3 DEF Preparing, Prepared

LEMMA StepKept == TypeOK /\ OwnMessages /\ ProbesKept /\ [Next]_vars => ProbesKept'
<1> SUFFICES ASSUME TypeOK, OwnMessages, ProbesKept, [Next]_vars PROVE ProbesKept'
  OBVIOUS
<1>1. \A r \in Runs : \A q \in Survey[r] : Sought(r, q) => Sought(r, q)'
  BY SoughtStays
<1>2. CASE UNCHANGED vars
  <2>1. UNCHANGED <<pc, job, outbox, status, stream>>
    BY <1>2 DEF vars, queue
  <2>2. \A r \in Runs : Preparing(r) => Preparing(r)'
    BY <2>1 DEF Preparing, Prepared, Waits
  <2> QED
    BY <1>1, <2>1, <2>2, JobTyped DEF ProbesKept
<1>3. ASSUME NEW o \in Runs, Accept(o) \/ LoseFirst(o) PROVE ProbesKept'
  <2>1. /\ UNCHANGED <<pc, job, outbox>>
        /\ stream' = stream \/ stream' = Append(stream, Job("gen_personas", o, None))
        /\ \A r \in Runs : status'[r] = status[r] \/ status'[r] = "pending"
    BY <1>3 DEF Accept, CreateRun, EnqueueFirst, LoseFirst, queue, TypeOK
  <2>2. Job("gen_personas", o, None) \in Jobs
    BY ConstantsAssumption DEF Job, Jobs, JobTypes
  <2>3. \A r \in Runs : Prepared(r) => Prepared(r)'
    BY <2>1, <2>2, WaitsAppended DEF Waits, Prepared
  <2>4. \A r \in Runs : Preparing(r) => Preparing(r)'
    BY <2>1, <2>3 DEF Preparing
  <2> QED
    BY <1>1, <2>1, <2>4, JobTyped DEF ProbesKept
<1>4. ASSUME NEW w \in Workers, Step(w) \/ Disturb(w) PROVE ProbesKept'
  <2>1. Others(w) /\ (Same \/ Moves(w))
    BY <1>4, OthersStay, MovesOrStays
  <2>2. ASSUME NEW v \in Workers, pc'[v] = "emit", job'[v].type = "gen_paraphrases",
               NEW r \in Runs, r = job'[v].run, NEW q \in Survey[r]
        PROVE  Job("run_probe", r, q) \in outbox'[v] \/ Sought(r, q)'
    <3>1. CASE v # w \/ Same
      <4>1. pc[v] = "emit" /\ job'[v] = job[v] /\ outbox'[v] = outbox[v]
        BY <2>1, <2>2, <3>1 DEF Others, Same
      <4>2. Job("run_probe", r, q) \in outbox[v] \/ Sought(r, q)
        BY <2>2, <4>1 DEF ProbesKept
      <4> QED
        BY <1>1, <4>1, <4>2
    <3>2. CASE v = w /\ Moves(w)
      <4>1. \/ \E t \in RunStatuses : Sets(w, t)
            \/ \E m \in Jobs : Sends(w, m) /\ outbox'[w] = outbox[w] \ {m}
        BY <2>2, <3>2 DEF Moves, Takes, Goes, Marks, Buries, Leaves, Sends, Requeues
      <4>2. CASE \E t \in RunStatuses : Sets(w, t)
        <5>1. outbox'[w] = FollowUps(job[w]) /\ job'[w] = job[w]
          BY <2>2, <3>2, <4>2 DEF Sets
        <5> QED
          BY <2>2, <3>2, <5>1 DEF FollowUps
      <4>3. ASSUME NEW m \in Jobs, Sends(w, m), outbox'[w] = outbox[w] \ {m}
            PROVE  Job("run_probe", r, q) \in outbox'[w] \/ Sought(r, q)'
        <5>1. pc[w] = "emit" /\ job'[w] = job[w] /\ stream' = Append(stream, m)
          BY <4>3 DEF Sends
        <5>2. Job("run_probe", r, q) \in outbox[w] \/ Sought(r, q)
          BY <2>2, <3>2, <5>1 DEF ProbesKept
        <5>3. CASE Job("run_probe", r, q) = m
          <6>1. m \in ProbesOf(r, q)
            BY <5>3 DEF Job, ProbesOf, OfRun
          <6>2. Waits(ProbesOf(r, q))'
            BY <5>1, <6>1, WaitsAppended
          <6> QED
            BY <6>2 DEF Sought
        <5>4. CASE Job("run_probe", r, q) # m
          BY <1>1, <4>3, <5>2, <5>4
        <5> QED
          BY <5>3, <5>4
      <4> QED
        BY <3>2, <4>1, <4>2, <4>3
    <3> QED
      BY <2>1, <3>1, <3>2
  <2>3. ASSUME NEW r \in Runs, status'[r] = "paraphrases_ready"
        PROVE  Preparing(r)' \/ \A q \in Survey[r] : Sought(r, q)'
    <3>1. CASE status'[r] = status[r]
      BY <1>1, <2>1, <2>3, <3>1, PreparingMove DEF ProbesKept
    <3>2. CASE status'[r] # status[r]
      <4>1. PICK t \in RunStatuses : Sets(w, t)
        BY <2>1, <2>3, <3>2 DEF Same, Moves, Takes, Goes, Marks, Buries, Leaves, Sends, Requeues, TypeOK
      <4>2. /\ status' = [status EXCEPT ![job[w].run] = t] /\ pc[w] \in {"advance", "skip"}
            /\ t = IF pc[w] = "skip" THEN "probing" ELSE Target[job[w].type]
            /\ job'[w] = job[w] /\ pc'[w] \in {"skip", "emit", "ack"}
            /\ pc'[w] = "ack" => FollowUps(job[w]) = {}
        BY <4>1 DEF Sets
      <4>3. job[w] \in Jobs /\ job[w].type \in JobTypes
        BY <4>2, JobTyped
      <4>4. job[w].run = r /\ t = "paraphrases_ready"
        BY <2>3, <3>2, <4>2 DEF TypeOK
      <4>5. job[w].type = "gen_paraphrases"
        BY <4>2, <4>3, <4>4 DEF Target, JobTypes
      <4>6. CASE pc'[w] = "ack"
        BY <4>2, <4>4, <4>5, <4>6 DEF FollowUps
      <4>7. CASE pc'[w] # "ack"
        <5>1. pc'[w] \notin Inert /\ job'[w] \in Preparations(r)
          BY <4>2, <4>3, <4>4, <4>5, <4>7 DEF Inert, Preparations, OfRun
        <5> QED
          BY <5>1 DEF Preparing
      <4> QED
        BY <4>6, <4>7
    <3> QED
      BY <3>1, <3>2
  <2>4. \A v \in Workers : pc'[v] = "emit" => job'[v].run \in Runs
    <3>1. TypeOK'
      BY StepTyped
    <3> QED
      BY <3>1 DEF TypeOK, Jobs
  <2> QED
    BY <2>2, <2>3, <2>4 DEF ProbesKept
<1> QED
  BY <1>2, <1>3, <1>4 DEF Next

\* A run that is not finished and that nobody works for has lost its first message,
\* or a message to a crash or to the dead letters, or had nothing to probe, or had
\* a probe acknowledged whose calls had all failed: there is no other way to stall.
THEOREM StallsAreCaused == Spec => []StallHasACause
<1> DEFINE AllOwed == \A r \in Runs : Owed(r)
<1>1. TypeOK /\ AllOwed /\ ProbesKept => StallHasACause
  <2> SUFFICES ASSUME TypeOK, ProbesKept, NEW r \in Runs, Owed(r), status[r] \in ActiveStatuses,
                      ~Outstanding(r), ~GivenUp(r), ~(status[r] = "probing" /\ Survey[r] = {})
               PROVE  /\ status[r] = "paraphrases_ready" /\ ~(Asked(r) \subseteq responses[r])
                      /\ Hurt(r, {"llm"})
    BY DEF StallHasACause, AllProbed, GivenUp
  <2>1. stream \in Seq(Jobs)
    BY DEF TypeOK
  <2>2. ~InStream(r)
    BY <2>1 DEF Outstanding, InStream
  <2>3. ~Attended(r)
    BY <2>2 DEF Outstanding, Attended, Carries
  <2>4. status[r] = "paraphrases_ready" /\ ~(Asked(r) \subseteq responses[r])
    BY <2>3 DEF Owed, Excused
  <2>5. ASSUME NEW M, M \subseteq OfRun(r) PROVE ~Waits(M)
    BY <2>2, <2>5 DEF OfRun, InStream, Waits
  <2>6. ~Preparing(r)
    <3>1. Preparations(r) \subseteq OfRun(r)
      BY DEF Preparations
    <3>2. ~Prepared(r)
      BY <2>5, <3>1 DEF Prepared
    <3> QED
      BY <3>1, <3>2 DEF Preparing, Outstanding, OfRun, Inert
  <2>7. PICK q \in Survey[r] : First[r][q] \notin responses[r]
    BY <2>4 DEF Asked
  <2>8. Sought(r, q)
    BY <2>4, <2>6 DEF ProbesKept
  <2>9. ~Waits(ProbesOf(r, q)) /\ \A w \in Workers : ~Seeks(ProbesOf(r, q), w)
    <3>1. ProbesOf(r, q) \subseteq OfRun(r)
      BY DEF ProbesOf
    <3>2. ~Waits(ProbesOf(r, q))
      BY <2>5, <3>1
    <3> QED
      BY <3>1, <3>2 DEF Seeks, Outstanding, OfRun
  <2> QED
    BY <2>4, <2>7, <2>8, <2>9 DEF Sought
<1>2. Init => OwnMessages /\ AllOwed
  BY InitOwn DEF Init, Owed, ActiveStatuses
<1>3. TypeOK /\ OwnMessages /\ [Next]_vars => OwnMessages'
  BY OwnStep
<1>4. TypeOK /\ NothingToAnalyze /\ OwnMessages /\ AllOwed /\ [Next]_vars => AllOwed'
  BY OwedStep
<1>5. Init => NothingToAnalyze
  BY InitUnreported
<1>6. TypeOK /\ NothingToAnalyze /\ [Next]_vars => NothingToAnalyze'
  BY StepUnreported
<1>7. Init => ProbesKept
  BY InitKept
<1>8. TypeOK /\ OwnMessages /\ ProbesKept /\ [Next]_vars => ProbesKept'
  BY StepKept
<1> HIDE DEF AllOwed
<1> QED
  BY <1>1, <1>2, <1>3, <1>4, <1>5, <1>6, <1>7, <1>8, Typing, PTL DEF Spec

-----------------------------------------------------------------------------
(* One message of a run at a time, until its probes are sent *)

Free(M) == ~Waits(M) /\ \A w \in Workers : ~Holds(M, w)

\* A move keeps the messages of M single if its worker only works at one it had
\* or takes, starts none while there is another, and sends none it keeps.
LEMMA MovesAlone ==
    ASSUME TypeOK, NEW M, Alone(M), NEW w \in Workers, Others(w), Moves(w),
           Holds(M, w)' => Holds(M, w) \/ Free(M) \/ (Takes(w) /\ Head(stream) \in M),
           \A m \in Jobs : m \in M /\ (Sends(w, m) \/ Requeues(w, m)) =>
               Holds(M, w) /\ ~Holds(M, w)'
    PROVE  Alone(M)' /\ (Waits(M)' => Waits(M) \/ Holds(M, w))
<1>1. \A v \in Workers \ {w} : Holds(M, v)' <=> Holds(M, v)
  BY DEF Others, Holds
<1>2. CASE Takes(w)
  <2>1. Holds(M, w)' => Head(stream) \in M
    <3>1. ~Holds(M, w)
      BY <1>2 DEF Takes, Holds, Inert
    <3>2. Free(M) => Head(stream) \notin M
      BY <1>2 DEF Takes, Free, Waits, TypeOK
    <3>3. Holds(M, w)' => Head(stream) \in M
      BY <1>2 DEF Takes, Holds
    <3> QED
      BY <3>3
  <2> QED
    BY <1>1, <1>2, <2>1, AloneConsumed DEF Takes
<1>3. CASE stream' = stream
  <2>1. ~Takes(w)
    BY <1>3 DEF Takes, TypeOK
  <2>2. CASE Free(M)
    <3>1. ~Waits(M)'
      BY <1>3, <2>2 DEF Free, Waits
    <3>2. \A v \in Workers \ {w} : ~Holds(M, v)'
      BY <1>1, <2>2 DEF Free
    <3> QED
      BY <3>1, <3>2 DEF Alone, Waits
  <2>3. CASE ~Free(M)
    <3>1. \A v \in Workers : Holds(M, v)' => Holds(M, v)
      BY <1>1, <2>1, <2>3
    <3> QED
      BY <1>3, <3>1, AloneKept
  <2> QED
    BY <2>2, <2>3
<1>4. ASSUME NEW m \in Jobs, Sends(w, m) \/ Requeues(w, m)
      PROVE  Alone(M)' /\ (Waits(M)' => Waits(M) \/ Holds(M, w))
  <2>1. stream' = Append(stream, m) /\ ~Takes(w)
    BY <1>4 DEF Sends, Requeues, Takes
  <2>2. CASE m \in M
    <3>1. Holds(M, w) /\ ~Holds(M, w)'
      BY <1>4, <2>2
    <3>2. ~Waits(M) /\ \A v \in Workers : ~Holds(M, v)'
      BY <1>1, <3>1 DEF Alone
    <3>3. \A v \in Workers : Holds(M, v)' => Holds(M, v)
      BY <3>2
    <3> QED
      BY <2>1, <3>1, <3>2, <3>3, AloneAppended
  <2>3. CASE m \notin M
    <3>1. CASE Holds(M, w)' => Holds(M, w)
      <4>1. \A v \in Workers : Holds(M, v)' => Holds(M, v)
        BY <1>1, <3>1
      <4> QED
        BY <2>1, <2>3, <4>1, AloneAppended
    <3>2. CASE Holds(M, w)' /\ ~Holds(M, w)
      <4>1. job'[w] = job[w] /\ outbox'[w] \subseteq outbox[w] /\ (pc[w] = "emit" \/ pc[w] = "settle")
        BY <1>4 DEF Sends, Requeues
      <4> QED
        BY <3>2, <4>1 DEF Holds, Inert
    <3> QED
      BY <3>1, <3>2
  <2> QED
    BY <2>2, <2>3
<1>5. Takes(w) \/ stream' = stream \/ \E m \in Jobs : Sends(w, m) \/ Requeues(w, m)
  BY DEF Moves, Goes, Sets, Marks, Buries, Leaves
<1> QED
  BY <1>2, <1>3, <1>4, <1>5

Early == {"none", "pending", "personas_ready"}

\* Redis has not reported an error for a command of r that it executed.
Clean(r) == ~Hurt(r, {"ack", "landed"})

\* What is there of a run before its first message is in the stream.
Begun(r) ==
    /\ status[r] = "none" <=> api[r] = "none"
    /\ api[r] # "accepted" =>
          ~Waits(OfRun(r)) /\ \A w \in Workers : pc[w] # "idle" => job[w].run # r

\* A handler that is going to set a status other than the one it found there.
Due(w) ==
    \/ pc[w] = "skip"
    \/ pc[w] \in {"work", "persist", "check", "advance"} /\ seen[w] \in Early

\* Until the probes are sent, a run has one message, so no other handler can have
\* written the status since the one that is going to set it has read it.
InLine(r) ==
    /\ status[r] \in Early \/ Survey[r] = {} => Alone(OfRun(r))
    /\ \A w \in Workers : Due(w) /\ job[w].run = r => status[r] = seen[w]
    /\ \A w \in Workers :
          pc[w] = "emit" /\ job[w].type = "gen_paraphrases" /\ job[w].run = r =>
              status[r] \notin Early

\* A status is set on the one the row has.
LEMMA SetsOnRow ==
    ASSUME TypeOK, NothingToAnalyze, NEW w \in Workers, InLine(job[w].run), NEW t, Sets(w, t)
    PROVE  /\ status[job[w].run] = seen[w]
           /\ \/ seen[w] = "pending" /\ t = "personas_ready" /\ job[w].type = "gen_personas"
              \/ /\ seen[w] = "personas_ready" /\ t = "paraphrases_ready"
                 /\ job[w].type = "gen_paraphrases"
              \/ seen[w] = "paraphrases_ready" /\ t = "probing" /\ Survey[job[w].run] = {}
<1>1. /\ pc[w] \in {"advance", "skip"} /\ CanTransition(seen[w], t)
      /\ t = IF pc[w] = "skip" THEN "probing" ELSE Target[job[w].type]
      /\ job[w].type \in JobTypes
      /\ job[w].type = "run_probe" => Survey[job[w].run] # {}
  BY JobTyped DEF Sets
<1>2. CASE pc[w] = "skip"
  <2>1. Survey[job[w].run] = {}
    BY <1>2 DEF NothingToAnalyze, SkipsProbes
  <2> QED
    BY <1>1, <1>2, <2>1, Predecessor DEF InLine, Due
<1>3. CASE pc[w] = "advance"
  <2>1. job[w].type \in {"gen_personas", "gen_paraphrases"}
    <3>1. job[w].type # "analyze"
      BY <1>3 DEF NothingToAnalyze
    <3>2. job[w].type # "run_probe"
      BY <1>1, <1>3, Predecessor DEF NothingToAnalyze, Target
    <3> QED
      BY <1>1, <3>1, <3>2 DEF JobTypes
  <2>2. \/ seen[w] = "pending" /\ t = "personas_ready" /\ job[w].type = "gen_personas"
        \/ /\ seen[w] = "personas_ready" /\ t = "paraphrases_ready"
           /\ job[w].type = "gen_paraphrases"
    BY <1>1, <1>3, <2>1, Predecessor DEF Target
  <2> QED
    BY <1>3, <2>2 DEF InLine, Due, Early
<1> QED
  BY <1>1, <1>2, <1>3

\* A worker changes the status of its run as the table of worker/state.py allows.
LEMMA StatusOfMove ==
    ASSUME TypeOK, NothingToAnalyze, NEW r \in Runs, Begun(r), Clean(r) => InLine(r),
           NEW w \in Workers, Moves(w), status'[r] # status[r]
    PROVE  /\ pc[w] # "idle" /\ job[w].run = r /\ status[r] # "none"
           /\ (Marks(w) /\ status'[r] = "failed") \/ Sets(w, status'[r])
           /\ Clean(r) => CanTransition(status[r], status'[r])
<1>1. PICK t \in RunStatuses :
         /\ Sets(w, t) \/ (Marks(w) /\ t = "failed")
         /\ status' = [status EXCEPT ![job[w].run] = t]
  BY DEF Moves, Takes, Goes, Buries, Leaves, Sends, Requeues, Sets, Marks, RunStatuses, TerminalStatuses
<1>2. job[w].run = r /\ status'[r] = t
  BY <1>1 DEF TypeOK
<1>3. pc[w] # "idle"
  BY <1>1 DEF Sets, Marks
<1>4. status[r] # "none"
  BY <1>2, <1>3 DEF Begun
<1>5. CASE Sets(w, t)
  <2>1. Clean(r) => status[r] = seen[w]
    BY <1>2, <1>5, SetsOnRow
  <2> QED
    BY <1>2, <1>3, <1>4, <1>5, <2>1 DEF Sets
<1>6. CASE Marks(w) /\ t = "failed"
  <2>1. status[r] \in Unreported \ {"none", "failed"}
    BY <1>2, <1>4, <1>6 DEF NothingToAnalyze
  <2>2. CanTransition(status[r], "failed")
    BY <2>1 DEF Unreported, CanTransition, ALLOWED_TRANSITIONS, RunStatuses, ActiveStatuses
  <2> QED
    BY <1>2, <1>3, <1>4, <1>6, <2>2
<1> QED
  BY <1>1, <1>5, <1>6

\* A status is never set back to an early one, nor a failed run revived.
LEMMA StatusAfterMove ==
    ASSUME TypeOK, NothingToAnalyze, NEW r \in Runs, Begun(r), InLine(r), Clean(r),
           NEW w \in Workers, Moves(w)
    PROVE  /\ status'[r] \in Early => status[r] \in Early
           /\ status[r] = "failed" => status'[r] = "failed"
<1> SUFFICES ASSUME status'[r] # status[r]
             PROVE  /\ status'[r] \in Early => status[r] \in Early
                    /\ status[r] # "failed"
  OBVIOUS
<1>1. /\ job[w].run = r /\ (status'[r] = "failed" \/ Sets(w, status'[r]))
      /\ CanTransition(status[r], status'[r])
  BY StatusOfMove
<1>2. status[r] # "failed"
  BY <1>1 DEF CanTransition, ALLOWED_TRANSITIONS
<1>3. CASE Sets(w, status'[r])
  BY <1>1, <1>2, <1>3, SetsOnRow DEF Early
<1>4. CASE status'[r] = "failed"
  BY <1>2, <1>4 DEF Early
<1> QED
  BY <1>1, <1>3, <1>4

\* What is not of a run's messages does not touch it.
LEMMA BegunMove ==
    ASSUME TypeOK, OwnMessages, NothingToAnalyze, NEW r \in Runs, Begun(r), Clean(r) => InLine(r),
           NEW w \in Workers, Others(w), Moves(w)
    PROVE  Begun(r)'
<1>1. api' = api
  BY DEF Others
<1>2. status'[r] = "none" <=> api'[r] = "none"
  <2>1. CASE status'[r] = status[r]
    BY <1>1, <2>1 DEF Begun
  <2>2. CASE status'[r] # status[r]
    <3>1. (Marks(w) /\ status'[r] = "failed") \/ Sets(w, status'[r])
      BY <2>2, StatusOfMove
    <3>2. status'[r] # "none" /\ status[r] # "none"
      <4>1. ~CanTransition(seen[w], "none")
        BY DEF CanTransition, ALLOWED_TRANSITIONS, RunStatuses, ActiveStatuses, TerminalStatuses
      <4> QED
        BY <2>2, <3>1, <4>1, StatusOfMove DEF Sets
    <3> QED
      BY <1>1, <3>2 DEF Begun
  <2> QED
    BY <2>1, <2>2
<1>3. ASSUME api[r] # "accepted"
      PROVE  ~Waits(OfRun(r))' /\ \A v \in Workers : pc'[v] # "idle" => job'[v].run # r
  <2>1. ~Waits(OfRun(r)) /\ \A v \in Workers : pc[v] # "idle" => job[v].run # r
    BY <1>3 DEF Begun
  <2>2. stream \in Seq(Jobs)
    BY DEF TypeOK
  <2>3. CASE Takes(w)
    <3>1. Head(stream) \notin OfRun(r) /\ Head(stream) \in Jobs
      BY <2>1, <2>2, <2>3 DEF Takes, Waits
    <3>2. ~Waits(OfRun(r))'
      BY <2>1, <2>2, <2>3 DEF Takes, Waits, OfRun
    <3> QED
      BY <2>1, <2>3, <3>1, <3>2 DEF Takes, Others, OfRun
  <2>4. CASE stream' = stream /\ ~Takes(w)
    <3>1. pc'[w] # "idle" => pc[w] # "idle" /\ job'[w] = job[w]
      BY <2>4 DEF Moves, Goes, Sets, Sends, Marks, Requeues, Buries, Leaves
    <3> QED
      BY <2>1, <2>4, <3>1 DEF Others, Waits, OfRun
  <2>5. ASSUME NEW m \in Jobs, Sends(w, m) \/ Requeues(w, m)
        PROVE  ~Waits(OfRun(r))' /\ \A v \in Workers : pc'[v] # "idle" => job'[v].run # r
    <3>1. /\ stream' = Append(stream, m) /\ pc[w] # "idle" /\ job'[w] = job[w]
          /\ m.run = job[w].run
      BY <2>5, JobTyped, FollowUpsTyped DEF Sends, Requeues, OwnMessages
    <3>2. m.run # r
      BY <2>1, <3>1
    <3>3. ~Waits(OfRun(r))'
      BY <2>1, <2>2, <3>1, <3>2 DEF Waits, OfRun
    <3> QED
      BY <2>1, <3>1, <3>3 DEF Others
  <2> QED
    BY <2>3, <2>4, <2>5 DEF Moves, Goes, Sets, Marks, Buries, Leaves
<1> QED
  BY <1>1, <1>2, <1>3 DEF Begun

LEMMA HoldsRun ==
    ASSUME TypeOK, OwnMessages, NEW r, NEW w \in Workers
    PROVE  Holds(OfRun(r), w) <=> pc[w] \notin Inert /\ job[w].run = r
  BY JobTyped, FollowUpsTyped DEF Holds, OfRun, OwnMessages, Inert

\* A follow-up that is not a probe is the only one.
LEMMA FollowUpAlone ==
    ASSUME NEW j \in Jobs, NEW m \in FollowUps(j), j.type # "gen_paraphrases"
    PROVE  FollowUps(j) = {m} /\ m.type # "run_probe"
<1>1. j.type \in JobTypes
  BY DEF Jobs
<1>2. CASE j.type = "gen_personas"
  BY <1>2 DEF FollowUps, Job
<1>3. CASE j.type = "run_probe"
  BY <1>3 DEF FollowUps, Job
<1>4. CASE j.type = "analyze"
  BY <1>4 DEF FollowUps
<1> QED
  BY <1>1, <1>2, <1>3, <1>4 DEF JobTypes

LEMMA InLineMove ==
    ASSUME TypeOK, OwnMessages, NothingToAnalyze, NEW r \in Runs, Begun(r), InLine(r),
           Clean(r), Clean(r)', NEW w \in Workers, Others(w), Moves(w)
    PROVE  InLine(r)'
<1>1. status'[r] \in Early => status[r] \in Early
  BY StatusAfterMove
<1>2. ASSUME status'[r] \in Early \/ Survey[r] = {}
      PROVE  Alone(OfRun(r))'
  <2> DEFINE M == OfRun(r)
  <2>1. Alone(M)
    BY <1>1, <1>2 DEF InLine
  <2>2. Holds(M, w)' => Holds(M, w) \/ (Takes(w) /\ Head(stream) \in M)
    <3> SUFFICES ASSUME Holds(M, w)', ~Takes(w) PROVE Holds(M, w)
      <4>1. Takes(w) /\ Holds(M, w)' => Head(stream) \in M
        BY DEF Takes, Holds
      <4> QED
        BY <4>1
    <3>1. pc'[w] \notin Inert /\ (job'[w] \in M \/ outbox'[w] \cap M # {})
      BY DEF Holds
    <3>2. job'[w] = job[w] /\ pc[w] # "idle"
      BY <3>1 DEF Moves, Goes, Sets, Sends, Marks, Requeues, Buries, Leaves, Inert
    <3>3. outbox'[w] \subseteq FollowUps(job[w])
      BY <3>1 DEF Moves, Goes, Sets, Sends, Marks, Requeues, Buries, Leaves, Inert, OwnMessages
    <3>4. job[w].run = r
      BY <3>1, <3>2, <3>3, JobTyped, FollowUpsTyped DEF OfRun
    <3>5. pc[w] \notin {"ack", "ackOld"}
      BY <3>1, <3>4 DEF Moves, Goes, Sets, Sends, Marks, Requeues, Buries, Leaves, Inert, Clean, Hurt
    <3> QED
      BY <3>2, <3>4, <3>5, HoldsRun DEF Inert
  <2>3. ASSUME NEW m \in Jobs, m \in M, Sends(w, m) \/ Requeues(w, m)
        PROVE  Holds(M, w) /\ ~Holds(M, w)'
    <3>1. CASE Requeues(w, m)
      <4>1. job[w].run = r
        BY <2>3, <3>1 DEF Requeues, OfRun
      <4> QED
        BY <3>1, <4>1, HoldsRun DEF Requeues, Holds, Inert
    <3>2. CASE Sends(w, m)
      <4>1. job[w] \in Jobs /\ m \in FollowUps(job[w]) /\ outbox[w] \subseteq FollowUps(job[w])
        BY <3>2, JobTyped DEF Sends, OwnMessages
      <4>2. job[w].run = r
        BY <2>3, <4>1, FollowUpsTyped DEF OfRun
      <4>3. job[w].type # "gen_paraphrases"
        <5> SUFFICES ASSUME job[w].type = "gen_paraphrases" PROVE FALSE
          OBVIOUS
        <5>1. Survey[r] # {}
          BY <4>1, <4>2 DEF FollowUps
        <5>2. status[r] \notin Early /\ status' = status
          BY <3>2, <4>2 DEF InLine, Sends
        <5> QED
          BY <1>2, <5>1, <5>2
      <4>4. outbox[w] = {m}
        BY <3>2, <4>1, <4>3, FollowUpAlone DEF Sends
      <4>5. pc'[w] = "ack"
        BY <3>2, <4>2, <4>4 DEF Sends, Clean, Hurt
      <4> QED
        BY <3>2, <4>2, <4>5, HoldsRun DEF Sends, Holds, Inert
    <3> QED
      BY <2>3, <3>1, <3>2
  <2> HIDE DEF M
  <2>4. Alone(M)'
    BY <2>1, <2>2, <2>3, MovesAlone
  <2> QED
    BY <2>4 DEF M
<1>3. ASSUME NEW v \in Workers, Due(v)', job'[v].run = r
      PROVE  status'[r] = seen'[v]
  <2>1. CASE v # w
    <3>1. Due(v) /\ job[v].run = r /\ seen'[v] = seen[v]
      BY <1>3, <2>1 DEF Others, Due
    <3>2. status[r] = seen[v]
      BY <3>1 DEF InLine
    <3>3. status[r] \in Early \/ Survey[r] = {}
      BY <3>1, <3>2 DEF Due, NothingToAnalyze, SkipsProbes
    <3>4. Holds(OfRun(r), v) /\ Alone(OfRun(r))
      BY <3>1, <3>3, HoldsRun DEF InLine, Due, Inert
    <3>5. ASSUME status'[r] # status[r] PROVE FALSE
      <4>1. job[w].run = r /\ (Marks(w) \/ Sets(w, status'[r]))
        BY <3>5, StatusOfMove
      <4>2. Holds(OfRun(r), w)
        BY <4>1, HoldsRun DEF Marks, Sets, Inert
      <4> QED
        BY <2>1, <3>4, <4>2 DEF Alone
    <3> QED
      BY <3>1, <3>2, <3>5
  <2>2. CASE v = w
    <3>1. pc'[w] \in {"work", "persist", "check", "advance", "skip"}
      BY <1>3, <2>2 DEF Due
    <3>2. CASE Goes(w)
      <4>1. job[w].run = r /\ status' = status /\ pc'[w] # "skip"
        BY <1>3, <2>2, <3>2 DEF Goes
      <4> QED
        BY <1>3, <2>2, <3>1, <3>2, <4>1 DEF Goes, InLine, Due
    <3>3. ASSUME NEW t \in RunStatuses, Sets(w, t) PROVE status'[r] = seen'[v]
      BY <1>3, <2>2, <3>3 DEF Sets, TypeOK
    <3> QED
      BY <3>1, <3>2, <3>3 DEF Moves, Takes, Sends, Marks, Requeues, Buries, Leaves
  <2> QED
    BY <2>1, <2>2
<1>4. ASSUME NEW v \in Workers, pc'[v] = "emit", job'[v].type = "gen_paraphrases", job'[v].run = r
      PROVE  status'[r] \notin Early
  <2>1. CASE pc[v] = "emit" /\ job[v] = job'[v]
    BY <1>1, <1>4, <2>1 DEF InLine
  <2>2. CASE ~(pc[v] = "emit" /\ job[v] = job'[v])
    <3>1. v = w
      BY <1>4, <2>2 DEF Others
    <3>2. PICK t \in RunStatuses : Sets(w, t)
      BY <1>4, <2>2, <3>1 DEF Moves, Takes, Goes, Sends, Marks, Requeues, Buries, Leaves
    <3>3. job[w].run = r /\ job[w].type = "gen_paraphrases" /\ status'[r] = t
      BY <1>4, <3>1, <3>2 DEF Sets, TypeOK
    <3> QED
      BY <3>2, <3>3, SetsOnRow DEF Early
  <2> QED
    BY <2>1, <2>2
<1> QED
  BY <1>2, <1>3, <1>4 DEF InLine

LEMMA SameKeeps ==
    ASSUME Same, NEW r
    PROVE  /\ Begun(r) => Begun(r)'
           /\ InLine(r) => InLine(r)'
           /\ \A k : Hurt(r, k)' <=> Hurt(r, k)
  BY DEF Same, Begun, InLine, Due, Alone, Holds, Waits, Hurt

\* What the route of POST /runs does to run q.
Posts(q) ==
    /\ UNCHANGED <<pc, job, seen, outbox, dlq, paid>> /\ faults \subseteq faults'
    /\ \/ /\ api[q] = "none" /\ api' = [api EXCEPT ![q] = "posting"]
          /\ status' = [status EXCEPT ![q] = "pending"] /\ stream' = stream
       \/ /\ api[q] = "posting" /\ api' = [api EXCEPT ![q] = "accepted"]
          /\ status' = status /\ stream' = Append(stream, Job("gen_personas", q, None))
       \/ /\ api[q] = "posting" /\ api' = [api EXCEPT ![q] = "dropped"]
          /\ status' = status /\ stream' = stream

LEMMA RouteMoves ==
    ASSUME NEW q \in Runs, Accept(q) \/ LoseFirst(q)
    PROVE  Posts(q)
<1>1. CASE CreateRun(q) \/ EnqueueFirst(q)
  BY <1>1 DEF CreateRun, EnqueueFirst, Posts, queue, undisturbed
<1>2. CASE LoseFirst(q)
  BY <1>2 DEF LoseFirst, Hit, Posts, queue
<1> QED
  BY <1>1, <1>2 DEF Accept

LEMMA FirstTyped ==
    ASSUME NEW q \in Runs
    PROVE  Job("gen_personas", q, None) \in OfRun(q)
  BY ConstantsAssumption DEF Job, Jobs, JobTypes, OfRun

\* The messages of M stay single when the first one of q is sent, if M has
\* nothing to do with it or nothing of q is there yet.
LEMMA PostsAlone ==
    ASSUME TypeOK, NEW q \in Runs, Posts(q), NEW M, Alone(M),
           M \cap OfRun(q) = {} \/ Free(M) \/ Job("gen_personas", q, None) \notin M
    PROVE  /\ Alone(M)'
           /\ Waits(M)' => Waits(M) \/ Job("gen_personas", q, None) \in M
<1>1. \A v \in Workers : Holds(M, v)' <=> Holds(M, v)
  BY DEF Posts, Holds
<1>2. CASE stream' = stream
  BY <1>1, <1>2, AloneKept
<1>3. CASE stream' = Append(stream, Job("gen_personas", q, None))
  <2> DEFINE m == Job("gen_personas", q, None)
  <2>1. m \in OfRun(q) /\ m \in Jobs
    BY FirstTyped DEF OfRun
  <2>2. m \in M => ~Waits(M) /\ \A v \in Workers : ~Holds(M, v)'
    BY <1>1, <2>1 DEF Free
  <2>3. stream' = Append(stream, m) /\ (m \in M <=> Job("gen_personas", q, None) \in M)
    BY <1>3
  <2> HIDE DEF m
  <2> QED
    BY <1>1, <2>1, <2>2, <2>3, AloneAppended
<1> QED
  BY <1>2, <1>3 DEF Posts

LEMMA RouteOrder ==
    ASSUME TypeOK, OwnMessages, NEW r \in Runs, Begun(r), NEW q \in Runs, Posts(q)
    PROVE  Begun(r)' /\ (InLine(r) => InLine(r)')
<1> DEFINE first == Job("gen_personas", q, None)
           M == OfRun(r)
<1>0. first \in OfRun(q)
  BY FirstTyped
<1> HIDE DEF first
<1>1. q # r => OfRun(r) \cap OfRun(q) = {}
  BY DEF OfRun
<1>2. q = r => Free(M)
  BY HoldsRun DEF Posts, Begun, Free, Inert
<1>3. Begun(r)'
  <2>1. CASE q # r
    <3>1. status'[r] = status[r] /\ api'[r] = api[r] /\ pc' = pc /\ job' = job
      BY <2>1 DEF Posts, TypeOK
    <3>2. ~Waits(M) => ~Waits(M)'
      <4>1. first \notin M
        BY <1>0, <1>1, <2>1
      <4>2. stream \in Seq(Jobs) /\ (stream' = stream \/ stream' = Append(stream, first)) /\ first \in Jobs
        BY <1>0 DEF Posts, TypeOK, first, OfRun
      <4> QED
        BY <4>1, <4>2 DEF Waits
    <3> QED
      BY <3>1, <3>2 DEF Begun
  <2>2. CASE q = r
    <3>1. /\ api'[r] # "none" /\ status'[r] # "none" /\ pc' = pc /\ job' = job
          /\ api'[r] # "accepted" => stream' = stream
      BY <2>2 DEF Posts, TypeOK, Begun
    <3>2. \A v \in Workers : pc[v] # "idle" => job[v].run # r
      BY <2>2 DEF Posts, Begun
    <3>3. stream' = stream => ~Waits(M)'
      BY <1>2, <2>2 DEF Free, Waits
    <3> QED
      BY <3>1, <3>2, <3>3 DEF Begun
  <2> QED
    BY <2>1, <2>2
<1>4. ASSUME InLine(r) PROVE InLine(r)'
  <2>1. CASE q # r
    <3>1. status'[r] = status[r]
      BY <2>1 DEF Posts, TypeOK
    <3>2. Alone(M) => Alone(M)'
      BY <1>1, <2>1, PostsAlone
    <3> QED
      BY <1>4, <3>1, <3>2 DEF InLine, Due, Posts
  <2>2. CASE q = r
    <3>1. \A v \in Workers : pc[v] # "idle" => job[v].run # r
      BY <2>2 DEF Posts, Begun
    <3>2. status[r] \in Early \/ Survey[r] = {} => Alone(M)'
      BY <1>2, <1>4, <2>2, PostsAlone DEF InLine
    <3>3. status'[r] = status[r] \/ status[r] \in Early
      BY <2>2 DEF Posts, Begun, Early
    <3>4. \A v \in Workers : ~(pc'[v] # "idle" /\ job'[v].run = r)
      BY <3>1 DEF Posts
    <3> QED
      BY <3>2, <3>3, <3>4 DEF InLine, Due
  <2> QED
    BY <2>1, <2>2
<1> QED
  BY <1>3, <1>4

Ordered == \A r \in Runs : Begun(r) /\ (Clean(r) => InLine(r))

LEMMA InitOrdered == Init => Ordered
<1> SUFFICES ASSUME Init, NEW r \in Runs PROVE Begun(r) /\ InLine(r)
  BY DEF Ordered
<1> QED
  BY DEF Init, Begun, InLine, Due, Alone, Holds, Waits, Inert, OfRun

LEMMA StepOrdered ==
    TypeOK /\ OwnMessages /\ NothingToAnalyze /\ Ordered /\ [Next]_vars => Ordered'
<1> SUFFICES ASSUME TypeOK, OwnMessages, NothingToAnalyze, Ordered, [Next]_vars, NEW r \in Runs
             PROVE  Begun(r)' /\ (Clean(r)' => InLine(r)')
  BY DEF Ordered
<1>0. Begun(r) /\ (Clean(r) => InLine(r))
  BY DEF Ordered
<1>1. CASE Same
  BY <1>0, <1>1, SameKeeps DEF Clean
<1>2. CASE UNCHANGED vars
  <2>1. Same
    BY <1>2 DEF vars, Same, queue, undisturbed
  <2> QED
    BY <1>1, <2>1
<1>3. ASSUME NEW q \in Runs, Accept(q) \/ LoseFirst(q)
      PROVE  Begun(r)' /\ (Clean(r)' => InLine(r)')
  <2>1. Posts(q)
    BY <1>3, RouteMoves
  <2>2. Clean(r)' => Clean(r)
    BY <2>1 DEF Posts, Clean, Hurt
  <2> QED
    BY <1>0, <2>1, <2>2, RouteOrder
<1>4. ASSUME NEW w \in Workers, Step(w) \/ Disturb(w), ~Same
      PROVE  Begun(r)' /\ (Clean(r)' => InLine(r)')
  <2>1. Others(w) /\ Moves(w)
    BY <1>4, OthersStay, MovesOrStays
  <2>2. Clean(r)' => Clean(r)
    BY <2>1 DEF Others, Clean, Hurt
  <2> QED
    BY <1>0, <2>1, <2>2, BegunMove, InLineMove
<1> QED
  BY <1>1, <1>2, <1>3, <1>4 DEF Next

-----------------------------------------------------------------------------
(* The status moves along the table *)

\* One run's status moves at a time, and as the table allows.
LEMMA OneStatusMoves ==
    ASSUME TypeOK, OwnMessages, NothingToAnalyze, Ordered, Next
    PROVE  \/ status' = status
           \/ \E r \in Runs, t \in RunStatuses :
                /\ status' = [status EXCEPT ![r] = t]
                /\ \/ status[r] = t
                   \/ status[r] = "none" /\ t = "pending"
                   \/ Clean(r) => CanTransition(status[r], t)
<1>1. ASSUME NEW q \in Runs, Accept(q) \/ LoseFirst(q)
      PROVE  \/ status' = status
             \/ status[q] = "none" /\ status' = [status EXCEPT ![q] = "pending"]
  BY <1>1, RouteMoves DEF Posts, Ordered, Begun
<1>2. ASSUME NEW w \in Workers, Step(w) \/ Disturb(w), status' # status
      PROVE  \E r \in Runs, t \in RunStatuses :
                /\ status' = [status EXCEPT ![r] = t]
                /\ status[r] = t \/ (Clean(r) => CanTransition(status[r], t))
  <2>1. Moves(w)
    BY <1>2, MovesOrStays DEF Same
  <2>2. PICK t \in RunStatuses :
           /\ status' = [status EXCEPT ![job[w].run] = t]
           /\ pc[w] # "idle"
    BY <1>2, <2>1 DEF Moves, Takes, Goes, Buries, Leaves, Sends, Requeues, Sets, Marks,
                     RunStatuses, TerminalStatuses
  <2>3. job[w].run \in Runs /\ status'[job[w].run] = t
    BY <2>2, JobTyped DEF TypeOK
  <2>4. status[job[w].run] = t \/ (Clean(job[w].run) => CanTransition(status[job[w].run], t))
    BY <2>1, <2>3, StatusOfMove DEF Ordered
  <2> QED
    BY <2>2, <2>3, <2>4
<1>3. "pending" \in RunStatuses
  BY DEF RunStatuses, ActiveStatuses
<1> QED
  BY <1>1, <1>2, <1>3 DEF Next

\* As long as Redis has not reported an error for a command of a run that it
\* executed, the status of the run moves along the table of worker/state.py: a
\* handler that was started twice or late never writes over another's status.
THEOREM StatusNeverSlips == Spec => StatusForward
<1> DEFINE Forward == \A r \in Runs :
                          \/ status'[r] = status[r]
                          \/ status[r] = "none" /\ status'[r] = "pending"
                          \/ CanTransition(status[r], status'[r])
                          \/ Hurt(r, {"ack", "landed"})
<1>1. TypeOK /\ OwnMessages /\ NothingToAnalyze /\ Ordered /\ [Next]_vars => [Forward]_vars
  <2> SUFFICES ASSUME TypeOK, OwnMessages, NothingToAnalyze, Ordered, Next PROVE Forward
    OBVIOUS
  <2>1. CASE status' = status
    BY <2>1
  <2>2. ASSUME NEW r \in Runs, NEW t \in RunStatuses, status' = [status EXCEPT ![r] = t],
               \/ status[r] = t
               \/ status[r] = "none" /\ t = "pending"
               \/ Clean(r) => CanTransition(status[r], t)
        PROVE  Forward
    BY <2>2 DEF TypeOK, Clean
  <2> QED
    BY <2>1, <2>2, OneStatusMoves
<1> QED
  BY <1>1, Typing, InitOwn, OwnStep, InitUnreported, StepUnreported, InitOrdered, StepOrdered, PTL
  DEF Spec, StatusForward

\* Without such errors the pipeline implements the run lifecycle, whatever other
\* disturbances there are: every step of it is a step of RunLifecycle or none.
THEOREM PipelineImplements ==
    ASSUME FaultKinds \cap {"ack", "landed"} = {}
    PROVE  Spec => Implements
<1>1. Init => Lifecycle!Init
  BY DEF Init, Lifecycle!Init
<1>2. TypeOK /\ OwnMessages /\ NothingToAnalyze /\ Ordered /\ [Next]_vars => [Lifecycle!Next]_status
  <2> SUFFICES ASSUME TypeOK, OwnMessages, NothingToAnalyze, Ordered, Next, status' # status
               PROVE  Lifecycle!Next
    BY DEF vars
  <2>1. PICK r \in Runs, t \in RunStatuses :
           /\ status' = [status EXCEPT ![r] = t]
           /\ \/ status[r] = t
              \/ status[r] = "none" /\ t = "pending"
              \/ Clean(r) => CanTransition(status[r], t)
    BY OneStatusMoves
  <2>2. Clean(r)
    BY DEF Clean, Hurt, TypeOK
  <2>3. status[r] # t
    BY <2>1 DEF TypeOK
  <2>4. Lifecycle!Create(r) \/ Lifecycle!Advance(r) \/ Lifecycle!Fail(r)
    BY <2>1, <2>2, <2>3
    DEF Lifecycle!Create, Lifecycle!Advance, Lifecycle!Fail, Lifecycle!CanTransition,
        Lifecycle!ALLOWED_TRANSITIONS, Lifecycle!RunStatuses, Lifecycle!ActiveStatuses,
        Lifecycle!TerminalStatuses, CanTransition, ALLOWED_TRANSITIONS, RunStatuses,
        ActiveStatuses, TerminalStatuses
  <2> QED
    BY <2>4 DEF Lifecycle!Next
<1> QED
  BY <1>1, <1>2, Typing, InitOwn, OwnStep, InitUnreported, StepUnreported, InitOrdered, StepOrdered,
     PTL DEF Spec, Implements, Lifecycle!Spec

-----------------------------------------------------------------------------
(* A question is put to the swarm once *)

\* Generators left in a session are those of a paraphrase job that has failed.
LeftBehind ==
    \A w \in Workers : background[w] # {} =>
        /\ pc[w] \in {"markFailed", "settle", "ackOld"}
        /\ job[w].type = "gen_paraphrases" /\ <<"loose", job[w].run>> \in faults

LEMMA StepLeftBehind == TypeOK /\ LeftBehind /\ [Next]_vars => LeftBehind'
<1> SUFFICES ASSUME TypeOK, LeftBehind, [Next]_vars PROVE LeftBehind'
  OBVIOUS
<1>1. CASE UNCHANGED vars
  BY <1>1 DEF LeftBehind, vars, generators, undisturbed
<1>2. ASSUME NEW q \in Runs, Accept(q) \/ LoseFirst(q) PROVE LeftBehind'
  <2>1. UNCHANGED background
    BY <1>2 DEF Accept, CreateRun, EnqueueFirst, LoseFirst, generators
  <2> QED
    BY <1>2, <2>1, RouteMoves DEF LeftBehind, Posts
<1>3. ASSUME NEW w \in Workers, Step(w) \/ Disturb(w) PROVE LeftBehind'
  <2>0. Others(w)
    BY <1>3, OthersStay
  <2>1. CASE Ack(w) \/ Crash(w)
    BY <2>0, <2>1 DEF LeftBehind, Others, Ack, Crash, Release, TypeOK
  <2>2. ASSUME NEW q \in Questions, GatherRaises(w, q) PROVE LeftBehind'
    <3>1. /\ pc'[w] = "markFailed" /\ job' = job /\ job'[w].type = "gen_paraphrases"
          /\ \A v \in Workers \ {w} : background'[v] = background[v]
          /\ background'[w] = todo[w] \ {q}
      BY <2>2 DEF GatherRaises, Goto, TypeOK
    <3>2. todo[w] \ {q} # {} => <<"loose", job'[w].run>> \in faults'
      BY <2>2 DEF GatherRaises
    <3> QED
      BY <2>0, <3>1, <3>2 DEF LeftBehind, Others
  <2>3. ASSUME NEW q \in Questions, BackgroundGenerate(w, q) PROVE LeftBehind'
    <3>1. UNCHANGED <<pc, job, faults>> /\ background' = [background EXCEPT ![w] = @ \ {q}]
      BY <2>3 DEF BackgroundGenerate, undisturbed
    <3> QED
      BY <3>1 DEF LeftBehind, TypeOK
  <2>4. ASSUME UNCHANGED background, job'[w] = job[w] \/ pc[w] = "idle",
               pc[w] \in {"markFailed", "settle", "ackOld"} =>
                   pc'[w] \in {"markFailed", "settle", "ackOld"}
        PROVE  LeftBehind'
    BY <2>0, <2>4 DEF LeftBehind, Others
  <2>5. CASE Consume(w) \/ Load(w) \/ WriteProduct(w) \/ NobodyMatches(w) \/ Generated(w)
    BY <2>4, <2>5 DEF Consume, Load, WriteProduct, NobodyMatches, Generated, generators
  <2>6. CASE Ask(w) \/ Persist(w) \/ CheckDone(w)
    BY <2>4, <2>6 DEF Ask, Persist, CheckDone, generators
  <2>7. CASE Advance(w)
    BY <2>4, <2>7 DEF Advance, generators
  <2>8. CASE MarkFailed(w) \/ MarkFailedRaises(w) \/ Retry(w) \/ DeadLetter(w)
    BY <2>4, <2>8 DEF MarkFailed, MarkFailedRaises, Retry, DeadLetter, Goto, TypeOK, generators
  <2>9. CASE StatementRaises(w) \/ AckFails(w)
    BY <2>4, <2>9 DEF StatementRaises, AckFails, generators
  <2>10. ASSUME NEW q \in Questions, Generate(w, q) PROVE LeftBehind'
    BY <2>4, <2>10 DEF Generate
  <2>11. ASSUME NEW m \in outbox[w], Emit(w, m) \/ EmitFails(w, m) PROVE LeftBehind'
    BY <2>4, <2>11 DEF Emit, EmitFails, generators
  <2> QED
    BY <1>3, <2>1, <2>2, <2>3, <2>5, <2>6, <2>7, <2>8, <2>9, <2>10, <2>11 DEF Step, Disturb
<1> QED
  BY <1>1, <1>2, <1>3 DEF Next

Calm(r) == ~Hurt(r, {"db", "ack", "landed"})

\* A probe of M is about to be sent or loaded by w.
Ready(M, w) == (pc[w] = "load" /\ job[w] \in M) \/ outbox[w] \cap M # {}

\* There is one probe of a question at the most, it has not been put to the swarm
\* when it is loaded by a run that has not failed, and its failure fails the run.
AskedOnce(r, q) ==
    LET M == ProbesOf(r, q)
    IN  /\ Alone(M)
        /\ paid[r][q] <= 1
        /\ status[r] \in Early => Free(M) /\ paid[r][q] = 0
        /\ status[r] # "failed" /\ (Waits(M) \/ \E w \in Workers : Ready(M, w)) =>
              paid[r][q] = 0
        /\ \A w \in Workers : job[w] \in M =>
              /\ pc[w] = "work" => paid[r][q] = 0
              /\ pc[w] = "settle" => status[r] = "failed"

\* Of the follow-ups of a job at most one probes a question.
LEMMA OneProbe ==
    ASSUME NEW j \in Jobs, NEW r, NEW q, NEW m \in FollowUps(j) \cap ProbesOf(r, q)
    PROVE  /\ j.type = "gen_paraphrases" /\ j.run = r /\ j \notin ProbesOf(r, q)
           /\ FollowUps(j) \cap ProbesOf(r, q) = {m}
<1>1. m.type = "run_probe" /\ m.run = r
  BY DEF ProbesOf, OfRun
<1>2. j.type = "gen_paraphrases"
  BY <1>1, FollowUpAlone
<1>3. j.run = r
  BY <1>1, FollowUpsTyped
<1>4. FollowUps(j) = {Job("run_probe", r, x) : x \in Survey[r]}
  BY <1>2, <1>3 DEF FollowUps
<1>5. \A n \in FollowUps(j) \cap ProbesOf(r, q) : n = Job("run_probe", r, q)
  BY <1>4 DEF ProbesOf, Job
<1> QED
  BY <1>2, <1>3, <1>5 DEF ProbesOf

LEMMA AskedMove ==
    ASSUME TypeOK, OwnMessages, NothingToAnalyze, LeftBehind, NEW r \in Runs, NEW q \in Survey[r],
           Begun(r), InLine(r), AskedOnce(r, q), Calm(r), Calm(r)',
           NEW w \in Workers, Others(w), Moves(w)
    PROVE  AskedOnce(r, q)'
<1> DEFINE M == ProbesOf(r, q)
<1>1. /\ \A m \in Jobs : m \in M <=> m.run = r /\ m.type = "run_probe" /\ m.q = q
      /\ M \subseteq Jobs /\ q \in Questions
  BY ConstantsAssumption DEF ProbesOf, OfRun
<1>2. /\ status'[r] \in Early => status[r] \in Early
      /\ status[r] = "failed" => status'[r] = "failed"
  BY StatusAfterMove DEF Calm, Clean, Hurt
<1>3. \A m \in FollowUps(job[w]) \cap M : pc[w] # "idle" =>
         /\ job[w].type = "gen_paraphrases" /\ job[w].run = r /\ job[w] \notin M
         /\ FollowUps(job[w]) \cap M = {m}
  BY OneProbe, JobTyped
<1> HIDE DEF M
<1>4. /\ Alone(M) /\ paid[r][q] <= 1 /\ paid[r][q] \in Nat
      /\ status[r] \in Early => Free(M) /\ paid[r][q] = 0
      /\ status[r] # "failed" /\ (Waits(M) \/ \E v \in Workers : Ready(M, v)) => paid[r][q] = 0
      /\ \A v \in Workers : job[v] \in M =>
            /\ pc[v] = "work" => paid[r][q] = 0
            /\ pc[v] = "settle" => status[r] = "failed"
  BY <1>1 DEF AskedOnce, M, TypeOK
\* A probe is begun only by the step that ends the early statuses.
<1>5. ASSUME Holds(M, w)', ~Holds(M, w), ~Takes(w)
      PROVE  /\ status[r] \in Early /\ status'[r] \notin Early
             /\ pc[w] = "advance"
  <2>1. pc'[w] \notin Inert /\ (job'[w] \in M \/ outbox'[w] \cap M # {})
    BY <1>5 DEF Holds
  <2>2. job'[w] = job[w] /\ pc[w] # "idle"
    BY <1>5, <2>1 DEF Moves, Goes, Sets, Sends, Marks, Requeues, Buries, Leaves, Inert
  <2>3. job[w] \notin M
    <3> SUFFICES ASSUME job[w] \in M PROVE FALSE
      OBVIOUS
    <3>1. pc[w] \notin {"ack", "ackOld"}
      <4>1. job[w].run = r
        BY <1>1
      <4> QED
        BY <2>1, <4>1 DEF Moves, Goes, Sets, Sends, Marks, Requeues, Buries, Leaves, Takes, Inert, Calm, Hurt
    <3> QED
      BY <1>5, <2>2, <3>1 DEF Holds, Inert
  <2>4. PICK m \in outbox'[w] : m \in M
    BY <2>1, <2>2, <2>3
  <2>5. ~\E n \in Jobs : Sends(w, n)
    BY <1>5, <2>4 DEF Sends, Holds, Inert
  <2>6. PICK t \in RunStatuses : Sets(w, t) /\ pc'[w] = "emit"
    BY <1>5, <2>1, <2>4, <2>5 DEF Moves, Goes, Marks, Requeues, Buries, Leaves, Sets
  <2>7. job[w].type = "gen_paraphrases" /\ job[w].run = r
    BY <1>3, <2>2, <2>4, <2>6 DEF Sets
  <2>8. /\ status[r] = seen[w] /\ status'[r] = t
        /\ seen[w] = "personas_ready" /\ t = "paraphrases_ready"
    <3>1. Survey[r] # {}
      OBVIOUS
    <3> QED
      BY <2>6, <2>7, <3>1, SetsOnRow DEF Sets, TypeOK
  <2>9. pc[w] = "advance"
    BY <2>6, <2>8 DEF Sets
  <2> QED
    BY <2>8, <2>9 DEF Early
<1>6. Holds(M, w)' => Holds(M, w) \/ Free(M) \/ (Takes(w) /\ Head(stream) \in M)
  <2>1. Takes(w) /\ Holds(M, w)' => Head(stream) \in M
    BY DEF Takes, Holds
  <2> QED
    BY <1>4, <1>5, <2>1
<1>7. ASSUME NEW m \in Jobs, m \in M, Sends(w, m) \/ Requeues(w, m)
      PROVE  /\ Holds(M, w) /\ ~Holds(M, w)'
             /\ status[r] # "failed" => Ready(M, w)
  <2>1. CASE Sends(w, m)
    <3>1. m \in FollowUps(job[w]) /\ outbox[w] \subseteq FollowUps(job[w]) /\ pc[w] # "idle"
      BY <2>1 DEF Sends, OwnMessages
    <3>2. job'[w] \notin M /\ outbox'[w] \cap M = {}
      BY <1>3, <1>7, <2>1, <3>1 DEF Sends
    <3> QED
      BY <1>7, <2>1, <3>2 DEF Sends, Holds, Ready, Inert
  <2>2. CASE Requeues(w, m)
    <3>1. job[w] \in M
      BY <1>1, <1>7, <2>2, JobTyped DEF Requeues
    <3> QED
      BY <1>4, <2>2, <3>1 DEF Requeues, Holds, Inert
  <2> QED
    BY <1>7, <2>1, <2>2
<1>8. Alone(M)' /\ (Waits(M)' => Waits(M) \/ Holds(M, w))
  BY <1>4, <1>6, <1>7, MovesAlone
<1>9. \/ paid'[r][q] = paid[r][q]
      \/ /\ job[w] \in M /\ pc[w] = "work" /\ pc'[w] # "work" /\ Goes(w)
         /\ paid'[r][q] = paid[r][q] + 1
  <2>1. CASE UNCHANGED paid
    BY <2>1
  <2>2. CASE paid' # paid
    <3>1. /\ Goes(w) /\ pc[w] = "work" /\ pc'[w] # "work" /\ job[w].type = "run_probe"
          /\ paid' = [paid EXCEPT ![job[w].run][job[w].q] = @ + 1]
      BY <2>2 DEF Moves, Takes, Goes, Sets, Sends, Marks, Requeues, Buries, Leaves
    <3>2. job[w] \in Jobs
      BY <3>1, JobTyped
    <3>3. CASE job[w].run = r /\ job[w].q = q
      BY <1>1, <3>1, <3>2, <3>3 DEF TypeOK
    <3>4. CASE ~(job[w].run = r /\ job[w].q = q)
      BY <1>1, <3>1, <3>4 DEF TypeOK
    <3> QED
      BY <3>3, <3>4
  <2> QED
    BY <2>1, <2>2
<1>10. paid'[r][q] <= 1
  BY <1>4, <1>9
<1>11. status'[r] \in Early => Free(M)' /\ paid'[r][q] = 0
  <2> SUFFICES ASSUME status'[r] \in Early PROVE Free(M)' /\ paid'[r][q] = 0
    OBVIOUS
  <2>1. Free(M) /\ paid[r][q] = 0
    BY <1>2, <1>4
  <2>2. paid'[r][q] = 0
    BY <1>9, <2>1 DEF Free, Holds, Inert
  <2>3. ~Waits(M)'
    BY <1>8, <2>1 DEF Free
  <2>4. ~Holds(M, w)'
    <3>1. ~(Takes(w) /\ Head(stream) \in M)
      BY <2>1 DEF Takes, Free, Waits, TypeOK
    <3>2. Takes(w) => ~Holds(M, w)'
      BY <3>1 DEF Takes, Holds
    <3> QED
      BY <1>5, <2>1, <3>2 DEF Free
  <2> QED
    BY <2>1, <2>2, <2>3, <2>4 DEF Free, Holds, Others
<1>12. ASSUME status'[r] # "failed", Waits(M)' \/ \E v \in Workers : Ready(M, v)'
       PROVE  paid'[r][q] = 0
  <2>1. status[r] # "failed"
    BY <1>2, <1>12
  <2>2. CASE status[r] \in Early
    BY <1>4, <1>9, <2>2 DEF Free, Holds, Inert
  <2>3. CASE status[r] \notin Early
    <3>1. Waits(M) \/ \E v \in Workers : Ready(M, v)
      <4>1. CASE Waits(M)' /\ ~Waits(M)
        <5>1. PICK m \in Jobs : Sends(w, m) \/ Requeues(w, m)
          <6>1. stream' # stream /\ ~Takes(w)
            BY <4>1, <1>4, <1>8 DEF Waits, Takes, Holds, Inert
          <6> QED
            BY <6>1 DEF Moves, Goes, Sets, Marks, Buries, Leaves
        <5>2. m \in M
          <6>1. stream' = Append(stream, m) /\ stream \in Seq(Jobs)
            BY <5>1 DEF Sends, Requeues, TypeOK
          <6> QED
            BY <4>1, <6>1 DEF Waits
        <5> QED
          BY <1>7, <2>1, <5>1, <5>2
      <4>2. ASSUME NEW v \in Workers, v # w, Ready(M, v)' PROVE Ready(M, v)
        BY <4>2 DEF Ready, Others
      <4>3. CASE Ready(M, w)'
        <5>1. CASE Takes(w)
          <6>1. Head(stream) \in M
            BY <4>3, <5>1 DEF Ready, Takes
          <6>2. 1 \in 1 .. Len(stream) /\ stream[1] = Head(stream)
            BY <5>1 DEF Takes, TypeOK
          <6> QED
            BY <6>1, <6>2 DEF Waits
        <5>2. CASE ~Takes(w)
          <6>1. Holds(M, w)'
            BY <4>3, <5>2 DEF Ready, Holds, Inert, Moves, Goes, Sets, Sends, Marks, Requeues, Buries, Leaves
          <6>2. Holds(M, w)
            BY <1>5, <2>3, <5>2, <6>1
          <6>3. pc'[w] # "load"
            BY <5>2 DEF Moves, Goes, Sets, Sends, Marks, Requeues, Buries, Leaves
          <6>4. outbox'[w] \cap M # {}
            BY <4>3, <6>3 DEF Ready
          <6>5. CASE outbox'[w] \subseteq outbox[w]
            BY <6>4, <6>5 DEF Ready
          <6>6. CASE ~(outbox'[w] \subseteq outbox[w])
            <7>1. PICK t \in RunStatuses : Sets(w, t) /\ outbox'[w] = FollowUps(job[w])
              BY <5>2, <6>4, <6>6 DEF Moves, Goes, Sets, Sends, Marks, Requeues, Buries, Leaves
            <7>2. job[w] \notin M /\ outbox[w] = {}
              BY <1>3, <6>4, <7>1 DEF Sets, OwnMessages
            <7> QED
              BY <6>2, <7>2 DEF Holds
          <6> QED
            BY <6>5, <6>6
        <5> QED
          BY <5>1, <5>2
      <4> QED
        BY <1>12, <4>1, <4>2, <4>3
    <3>2. paid[r][q] = 0
      BY <1>4, <2>1, <3>1
    <3>3. ~(job[w] \in M /\ pc[w] = "work")
      <4> SUFFICES ASSUME job[w] \in M, pc[w] = "work" PROVE FALSE
        OBVIOUS
      <4>1. Holds(M, w)
        BY DEF Holds, Inert
      <4>2. ~Waits(M)
        BY <1>4, <4>1 DEF Alone
      <4>3. PICK v \in Workers : Ready(M, v)
        BY <3>1, <4>2
      <4>4. Holds(M, v)
        BY <4>3 DEF Ready, Holds, Inert, OwnMessages
      <4>5. v = w
        BY <1>4, <4>1, <4>4 DEF Alone
      <4> QED
        BY <4>3, <4>5 DEF Ready, OwnMessages
    <3> QED
      BY <1>9, <3>2, <3>3
  <2> QED
    BY <2>2, <2>3
<1>13. ASSUME NEW v \in Workers, job'[v] \in M, pc'[v] = "work"
       PROVE  paid'[r][q] = 0
  <2>1. CASE v # w
    <3>1. job[v] \in M /\ pc[v] = "work" /\ paid[r][q] = 0
      BY <1>4, <1>13, <2>1 DEF Others
    <3>2. ~(job[w] \in M /\ pc[w] = "work")
      BY <1>4, <2>1, <3>1 DEF Alone, Holds, Inert
    <3> QED
      BY <1>9, <3>1, <3>2
  <2>2. CASE v = w
    <3>1. Goes(w)
      BY <1>13, <2>2 DEF Moves, Takes, Sets, Sends, Marks, Requeues, Buries, Leaves
    <3>2. /\ job[w] \in M /\ pc[w] = "load" /\ status[r] # "failed"
      BY <1>1, <1>13, <2>2, <3>1 DEF Goes
    <3>3. Ready(M, w)
      BY <3>2 DEF Ready
    <3> QED
      BY <1>4, <1>9, <3>2, <3>3
  <2> QED
    BY <2>1, <2>2
<1>14. ASSUME NEW v \in Workers, job'[v] \in M, pc'[v] = "settle"
       PROVE  status'[r] = "failed"
  <2>1. CASE v # w
    BY <1>2, <1>4, <1>14, <2>1 DEF Others
  <2>2. CASE v = w
    <3>1. CASE Marks(w)
      BY <1>1, <1>14, <2>2, <3>1 DEF Marks, TypeOK
    <3>2. CASE Goes(w)
      <4>1. job[w].run = r /\ job[w].type = "run_probe"
        BY <1>1, <1>14, <2>2, <3>2 DEF Goes
      <4>2. Hurt(r, {"ack", "db"})' \/ background[w] # {}
        BY <1>14, <2>2, <3>2, <4>1 DEF Goes
      <4> QED
        BY <4>1, <4>2 DEF LeftBehind, Calm, Hurt
    <3> QED
      BY <1>14, <2>2, <3>1, <3>2 DEF Moves, Takes, Sets, Sends, Requeues, Buries, Leaves
  <2> QED
    BY <2>1, <2>2
<1> QED
  BY <1>8, <1>10, <1>11, <1>12, <1>13, <1>14 DEF AskedOnce, M

LEMMA AskedRoute ==
    ASSUME TypeOK, NEW r \in Runs, NEW q, NEW p \in Runs, Posts(p), AskedOnce(r, q), Begun(p)
    PROVE  AskedOnce(r, q)'
<1> DEFINE M == ProbesOf(r, q)
<1>1. Job("gen_personas", p, None) \notin M
  BY DEF ProbesOf, Job
<1> HIDE DEF M
<1>2. Alone(M)
  BY DEF AskedOnce, M
<1>3. Alone(M)' /\ (Waits(M)' => Waits(M))
  BY <1>1, <1>2, PostsAlone
<1>4. /\ Free(M) => Free(M)'
      /\ \A v \in Workers : Ready(M, v)' <=> Ready(M, v)
      /\ pc' = pc /\ job' = job /\ paid' = paid
  BY <1>3 DEF Posts, Free, Holds, Ready
<1>5. \/ status'[r] = status[r]
      \/ status[r] = "none" /\ status'[r] = "pending" /\ p = r
  BY DEF Posts, TypeOK, Begun
<1>6. status'[r] \in Early <=> status[r] \in Early
  BY <1>5 DEF Early
<1>7. status'[r] = "failed" <=> status[r] = "failed"
  BY <1>5
<1> QED
  BY <1>3, <1>4, <1>6, <1>7 DEF AskedOnce, M

\* Questions that are not in a survey are never asked.
AllAskedOnce ==
    \A r \in Runs, q \in Questions :
        IF q \in Survey[r] THEN Calm(r) => AskedOnce(r, q) ELSE paid[r][q] = 0

LEMMA InitAsked == Init => AllAskedOnce /\ LeftBehind
<1> SUFFICES ASSUME Init PROVE AllAskedOnce /\ LeftBehind
  OBVIOUS
<1>1. ASSUME NEW r \in Runs, NEW q \in Questions
      PROVE  paid[r][q] = 0 /\ AskedOnce(r, q)
  <2> DEFINE M == ProbesOf(r, q)
  <2>1. Alone(M) /\ Free(M)
    BY DEF Init, Alone, Free, Holds, Waits, Inert
  <2>2. ~Waits(M) /\ \A w \in Workers : ~Ready(M, w) /\ pc[w] \notin {"work", "settle"}
    BY DEF Init, Ready, Waits
  <2>3. paid[r][q] = 0
    BY DEF Init
  <2> HIDE DEF M
  <2> QED
    BY <2>1, <2>2, <2>3 DEF AskedOnce, M
<1>2. LeftBehind
  BY DEF Init, LeftBehind
<1> QED
  BY <1>1, <1>2 DEF AllAskedOnce

LEMMA StepAsked ==
    TypeOK /\ OwnMessages /\ NothingToAnalyze /\ Ordered /\ LeftBehind /\ AllAskedOnce /\ [Next]_vars
        => AllAskedOnce'
<1> SUFFICES ASSUME TypeOK, OwnMessages, NothingToAnalyze, Ordered, LeftBehind, AllAskedOnce,
                    [Next]_vars, NEW r \in Runs, NEW q \in Questions
             PROVE  IF q \in Survey[r] THEN Calm(r)' => AskedOnce(r, q)' ELSE paid'[r][q] = 0
  BY DEF AllAskedOnce
<1>0. IF q \in Survey[r] THEN Calm(r) => AskedOnce(r, q) ELSE paid[r][q] = 0
  BY DEF AllAskedOnce
<1>1. CASE Same
  <2>1. Calm(r)' => Calm(r)
    BY <1>1, SameKeeps DEF Calm
  <2>2. AskedOnce(r, q) => AskedOnce(r, q)'
    BY <1>1 DEF Same, AskedOnce, Alone, Free, Holds, Waits, Ready
  <2> QED
    BY <1>0, <1>1, <2>1, <2>2 DEF Same
<1>2. CASE UNCHANGED vars
  <2>1. Same
    BY <1>2 DEF vars, Same, queue, undisturbed
  <2> QED
    BY <1>1, <2>1
<1>3. ASSUME NEW p \in Runs, Accept(p) \/ LoseFirst(p)
      PROVE  IF q \in Survey[r] THEN Calm(r)' => AskedOnce(r, q)' ELSE paid'[r][q] = 0
  <2>1. Posts(p)
    BY <1>3, RouteMoves
  <2>2. Calm(r)' => Calm(r)
    BY <2>1 DEF Posts, Calm, Hurt
  <2> QED
    BY <1>0, <2>1, <2>2, AskedRoute DEF Ordered, Posts
<1>4. ASSUME NEW w \in Workers, Step(w) \/ Disturb(w), ~Same
      PROVE  IF q \in Survey[r] THEN Calm(r)' => AskedOnce(r, q)' ELSE paid'[r][q] = 0
  <2>1. Others(w) /\ Moves(w)
    BY <1>4, OthersStay, MovesOrStays
  <2>2. CASE q \in Survey[r]
    <3>1. Calm(r)' => Calm(r)
      BY <2>1 DEF Others, Calm, Hurt
    <3>2. Calm(r) => Begun(r) /\ InLine(r)
      BY DEF Ordered, Calm, Clean, Hurt
    <3> QED
      BY <1>0, <2>1, <2>2, <3>1, <3>2, AskedMove
  <2>3. CASE q \notin Survey[r]
    <3>1. CASE paid' = paid
      BY <1>0, <2>3, <3>1
    <3>2. CASE paid' # paid
      <4>1. /\ pc[w] = "work" /\ job[w].type = "run_probe"
            /\ paid' = [paid EXCEPT ![job[w].run][job[w].q] = @ + 1]
        BY <2>1, <3>2 DEF Moves, Takes, Goes, Sets, Sends, Marks, Requeues, Buries, Leaves
      <4>2. ~(job[w].run = r /\ job[w].q = q)
        BY <2>3, <4>1, JobTyped
      <4> QED
        BY <1>0, <2>3, <4>1, <4>2 DEF TypeOK
    <3> QED
      BY <3>1, <3>2
  <2> QED
    BY <2>2, <2>3
<1> QED
  BY <1>1, <1>2, <1>3, <1>4 DEF Next

\* A question is put to the swarm of its run once, unless a statement of the run's
\* jobs raised or Redis reported an error for a command it had executed.
THEOREM ProbesArePaidOnce == Spec => []PaidOnce
<1>1. TypeOK /\ AllAskedOnce => PaidOnce
  <2> SUFFICES ASSUME TypeOK, AllAskedOnce, NEW r \in Runs, NEW q \in Questions, Calm(r)
               PROVE  ~(paid[r][q] > 1)
    BY DEF PaidOnce, Calm
  <2>1. paid[r][q] \in Nat /\ (paid[r][q] = 0 \/ paid[r][q] <= 1)
    BY DEF TypeOK, AllAskedOnce, AskedOnce
  <2> QED
    BY <2>1
<1> QED
  BY <1>1, Typing, InitOwn, OwnStep, InitUnreported, StepUnreported, InitOrdered, StepOrdered,
     InitAsked, StepLeftBehind, StepAsked, PTL DEF Spec

-----------------------------------------------------------------------------
(* A dead letter belongs to a failed run *)

Recorded(r) == ~Hurt(r, {"db", "ack", "landed", "loose"})

\* A message that is about to be retried or given up has failed its run.
FailedFirst ==
    \A r \in Runs : Recorded(r) =>
        /\ \A w \in Workers : pc[w] = "settle" /\ job[w].run = r => status[r] = "failed"
        /\ \A m \in dlq : m.run = r => status[r] = "failed"

LEMMA StepFailedFirst ==
    TypeOK /\ OwnMessages /\ NothingToAnalyze /\ Ordered /\ LeftBehind /\ FailedFirst /\ [Next]_vars
        => FailedFirst'
<1> SUFFICES ASSUME TypeOK, OwnMessages, NothingToAnalyze, Ordered, LeftBehind, FailedFirst,
                    [Next]_vars, NEW r \in Runs, Recorded(r)'
             PROVE  /\ \A w \in Workers : pc'[w] = "settle" /\ job'[w].run = r => status'[r] = "failed"
                    /\ \A m \in dlq' : m.run = r => status'[r] = "failed"
  BY DEF FailedFirst
<1>1. CASE Same \/ UNCHANGED vars
  <2>1. Same
    BY <1>1 DEF vars, Same, queue, undisturbed
  <2> QED
    BY <2>1 DEF Same, FailedFirst, Recorded, Hurt
<1>2. ASSUME NEW p \in Runs, Accept(p) \/ LoseFirst(p)
      PROVE  /\ \A w \in Workers : pc'[w] = "settle" /\ job'[w].run = r => status'[r] = "failed"
             /\ \A m \in dlq' : m.run = r => status'[r] = "failed"
  <2>1. Posts(p)
    BY <1>2, RouteMoves
  <2>2. Recorded(r) /\ pc' = pc /\ job' = job /\ dlq' = dlq
    BY <2>1 DEF Posts, Recorded, Hurt
  <2>3. status[r] = "failed" => status'[r] = "failed"
    BY <2>1 DEF Posts, Ordered, Begun, TypeOK
  <2> QED
    BY <2>2, <2>3 DEF FailedFirst
<1>3. ASSUME NEW w \in Workers, Step(w) \/ Disturb(w), ~Same
      PROVE  /\ \A v \in Workers : pc'[v] = "settle" /\ job'[v].run = r => status'[r] = "failed"
             /\ \A m \in dlq' : m.run = r => status'[r] = "failed"
  <2>1. Others(w) /\ Moves(w)
    BY <1>3, OthersStay, MovesOrStays
  <2>2. Recorded(r) /\ Clean(r) /\ Begun(r) /\ InLine(r)
    BY <2>1 DEF Others, Recorded, Clean, Hurt, Ordered
  <2>3. status[r] = "failed" => status'[r] = "failed"
    BY <2>1, <2>2, StatusAfterMove
  <2>4. pc'[w] = "settle" /\ job'[w].run = r => status'[r] = "failed"
    <3>1. CASE Goes(w)
      <4> SUFFICES ASSUME pc'[w] = "settle", job[w].run = r PROVE FALSE
        BY <3>1 DEF Goes
      <4>1. Hurt(r, {"ack", "db"})' \/ background[w] # {}
        BY <3>1 DEF Goes
      <4>2. background[w] # {} => <<"loose", r>> \in faults
        BY DEF LeftBehind
      <4>3. <<"loose", r>> \notin faults
        BY <2>2 DEF Recorded, Hurt
      <4>4. ~Hurt(r, {"ack", "db"})'
        BY DEF Recorded, Hurt
      <4> QED
        BY <4>1, <4>2, <4>3, <4>4
    <3>2. CASE Marks(w)
      BY <3>2 DEF Marks, TypeOK
    <3> QED
      BY <2>1, <3>1, <3>2 DEF Moves, Takes, Sets, Sends, Requeues, Buries, Leaves
  <2>5. \A m \in dlq' : m \in dlq \/ (m = job[w] /\ pc[w] = "settle")
    BY <2>1 DEF Moves, Takes, Goes, Sets, Sends, Marks, Requeues, Buries, Leaves
  <2> QED
    BY <2>1, <2>2, <2>3, <2>4, <2>5 DEF FailedFirst, Others
<1> QED
  BY <1>1, <1>2, <1>3 DEF Next

\* A message is given up only when its run is recorded as failed, and the run stays
\* failed, unless recording the failure can have raised or the job ran twice.
THEOREM DeadLettersAreOfFailedRuns == Spec => []DeadLetterIsFailed
<1>1. TypeOK /\ FailedFirst => DeadLetterIsFailed
  <2> SUFFICES ASSUME TypeOK, FailedFirst, NEW m \in dlq, Recorded(m.run) PROVE status[m.run] = "failed"
    BY DEF DeadLetterIsFailed, Recorded
  <2>1. m.run \in Runs
    BY DEF TypeOK, Jobs
  <2> QED
    BY <2>1 DEF FailedFirst
<1>2. Init => FailedFirst
  BY DEF Init, FailedFirst
<1> QED
  BY <1>1, <1>2, Typing, InitOwn, OwnStep, InitUnreported, StepUnreported, InitOrdered, StepOrdered,
     InitAsked, StepLeftBehind, StepFailedFirst, PTL DEF Spec
=============================================================================
