----------------------------- MODULE CachesProofs -----------------------------
(***************************************************************************)
(* Theorems about Caches, for any runs and surveys, any calls in a probe,  *)
(* any number of attempts and tries, and any disturbances.                 *)
(***************************************************************************)
EXTENDS Caches, TLAPS

-----------------------------------------------------------------------------
(* Types *)

\* No run gets beyond paraphrases_ready, so a probe is never followed by a job.
Reached == \A r \in Runs :
    status[r] \in {"pending", "personas_ready", "paraphrases_ready", "failed"}

\* A probe that asks or has asked holds a pool and wordings.
Loaded == \A r \in Runs :
    At(r, "run_probe", "ask") \/ At(r, "run_probe", "persist") =>
        held[r].pool # None /\ held[r].words # None

TypeInv == TypeOK /\ Reached /\ Loaded

Pairs == [pool : Attempts \cup {None}, words : Generators \cup {Hand, None}]
Places == [step : {"idle", "look", "call", "store"}, tries : 0 .. MAX_RETRIES - 1]
Steps == {"begin", "make", "gather", "ask", "persist", "check",
          "advance", "returned", "dead", "lost"}

LEMMA NoWayOn ==
    ASSUME NEW s \in {"pending", "personas_ready", "paraphrases_ready", "failed"}
    PROVE  ~CanTransition(s, "stats_running")
  BY DEF CanTransition, ALLOWED_TRANSITIONS

\* A generator can be put anywhere with no call made.
LEMMA PlacesTyped == \A s \in {"idle", "look", "call", "store"} : Gets(s) \in Places
<1>1. 0 \in 0 .. MAX_RETRIES - 1
  BY CachesAssumption
<1> QED
  BY <1>1 DEF Gets, Places

LEMMA SessionTyped ==
    ASSUME TypeInv, NEW r \in Runs
    PROVE  Session(r) \in Sessions
  BY DEF TypeInv, TypeOK, Session, Sessions

LEMMA ParaphrasingTyped ==
    ASSUME NEW r \in Runs, NEW a \in 1 .. MAX_ATTEMPTS
    PROVE  Paraphrasing(r, a) \in Sessions
  BY DEF Paraphrasing, Sessions, Stages

\* What Book does to the money.
LEMMA BookTyped ==
    ASSUME TypeInv, NEW s \in Sessions, NEW paid, NEW fate, Book(s, paid, fate)
    PROVE  holding' \subseteq Sessions /\ lost' \subseteq Runs
  BY DEF Book, TypeInv, TypeOK, Sessions

LEMMA ClosedTyped ==
    ASSUME TypeInv, NEW r \in Runs, Commit(Session(r)) \/ Close(Session(r))
    PROVE  holding' \subseteq Sessions /\ lost' \subseteq Runs
  BY SessionTyped, BookTyped DEF Commit, Close

\* Forget empties the hands of one run.
LEMMA ForgetTyped ==
    ASSUME TypeInv, NEW r \in Runs, Forget(r)
    PROVE  /\ held' \in [Runs -> Pairs] /\ answers' \in [Runs -> SUBSET Cells]
           /\ \A q \in Runs \ {r} : held'[q] = held[q]
  BY DEF TypeInv, TypeOK, Forget, Pairs

\* Retry enqueues the job again with nothing in hand, or gives up.
LEMMA RetryTyped ==
    ASSUME TypeInv, NEW r \in Runs, Retry(r)
    PROVE  /\ attempt' \in [Runs -> 1 .. MAX_ATTEMPTS] /\ stage' = stage
           /\ step' \in [Runs -> Steps]
           /\ step'[r] \in {"begin", "dead"}
           /\ \A q \in Runs \ {r} : step'[q] = step[q] /\ attempt'[q] = attempt[q]
           /\ Forget(r)
<1>1. step \in [Runs -> Steps] /\ attempt \in [Runs -> 1 .. MAX_ATTEMPTS]
  BY DEF TypeInv, TypeOK, Steps
<1>2. stage' = stage /\ Forget(r)
  BY DEF Retry
<1>3. CASE attempt[r] < MAX_ATTEMPTS
  <2>1. /\ attempt' = [attempt EXCEPT ![r] = attempt[r] + 1]
        /\ step' = [step EXCEPT ![r] = "begin"]
    BY <1>3 DEF Retry
  <2>2. attempt[r] + 1 \in 1 .. MAX_ATTEMPTS
    BY <1>1, <1>3, CachesAssumption
  <2> QED
    BY <1>1, <1>2, <2>1, <2>2 DEF Steps
<1>4. CASE ~(attempt[r] < MAX_ATTEMPTS)
  <2>1. attempt' = attempt /\ step' = [step EXCEPT ![r] = "dead"]
    BY <1>4 DEF Retry
  <2> QED
    BY <1>1, <1>2, <2>1 DEF Steps
<1> QED
  BY <1>3, <1>4

\* A job that is over, by an exception or a crash, leaves its run well typed.
LEMMA LeftTyped ==
    ASSUME TypeInv, NEW r \in Runs,
           status' = status \/ status' = [status EXCEPT ![r] = "failed"],
           Commit(Session(r)) \/ Close(Session(r)),
           Retry(r) \/ (Goto(r, "lost") /\ Forget(r)),
           gen' \in [Generators -> Places], torn' \subseteq Runs, cut' \subseteq Runs,
           UNCHANGED <<pool, words, rows, edited>>
    PROVE  TypeInv'
<1>1. holding' \subseteq Sessions /\ lost' \subseteq Runs
  BY ClosedTyped
<1>2. status' \in [Runs -> RunStatuses] /\ Reached'
  BY DEF TypeInv, TypeOK, Reached, RunStatuses, TerminalStatuses
<1>3. /\ attempt' \in [Runs -> 1 .. MAX_ATTEMPTS] /\ stage' = stage
      /\ step' \in [Runs -> Steps]
      /\ step'[r] \in {"begin", "dead", "lost"}
      /\ \A q \in Runs \ {r} : step'[q] = step[q]
      /\ Forget(r)
  <2>1. CASE Retry(r)
    BY <2>1, RetryTyped
  <2>2. CASE Goto(r, "lost") /\ Forget(r)
    BY <2>2 DEF Goto, TypeInv, TypeOK, Steps
  <2> QED
    BY <2>1, <2>2
<1>4. /\ held' \in [Runs -> Pairs] /\ answers' \in [Runs -> SUBSET Cells]
      /\ \A q \in Runs \ {r} : held'[q] = held[q]
  BY <1>3, ForgetTyped
<1>5. TypeOK'
  BY <1>1, <1>2, <1>3, <1>4 DEF TypeInv, TypeOK, Steps, Pairs, Places
<1>6. Loaded'
  BY <1>3, <1>4 DEF TypeInv, Loaded, At
<1> QED
  BY <1>2, <1>5, <1>6 DEF TypeInv

LEMMA RaiseTyped ==
    ASSUME TypeInv, NEW r \in Runs, Raise(r)
    PROVE  TypeInv'
<1>1. /\ status' = [status EXCEPT ![r] = "failed"] /\ Commit(Session(r)) /\ Retry(r)
      /\ UNCHANGED <<pool, words, rows, gen, torn, cut, edited>>
  BY DEF Raise, MarkFailed, marks
<1>2. gen \in [Generators -> Places] /\ torn \subseteq Runs /\ cut \subseteq Runs
  BY DEF TypeInv, TypeOK, Places
<1> QED
  BY <1>1, <1>2, LeftTyped

\* The last job of a run is its probe, so Successor has a value where it is used.
LEMMA AdvanceTyped ==
    ASSUME TypeInv, NEW r \in Runs, Advance(r)
    PROVE  TypeInv'
<1>1. CASE ~CanTransition(status[r], Target[stage[r]])
  BY <1>1, RaiseTyped DEF Advance
<1>2. CASE CanTransition(status[r], Target[stage[r]])
  <2>1. stage[r] \in {"gen_personas", "gen_paraphrases"}
    <3>1. CASE stage[r] = "run_probe"
      BY <1>2, <3>1, NoWayOn DEF Target, TypeInv, Reached
    <3> QED
      BY <3>1 DEF TypeInv, TypeOK, Stages
  <2>2. /\ Target[stage[r]] \in {"personas_ready", "paraphrases_ready"}
        /\ Successor[stage[r]] \in {"gen_paraphrases", "run_probe"}
    BY <2>1 DEF Target, Successor
  <2>3. /\ Commit(Session(r)) /\ Forget(r)
        /\ status' = [status EXCEPT ![r] = Target[stage[r]]]
        /\ stage' = [stage EXCEPT ![r] = Successor[stage[r]]]
        /\ attempt' = [attempt EXCEPT ![r] = 1]
        /\ step' = [step EXCEPT ![r] = "begin"]
        /\ UNCHANGED <<pool, words, rows, gen, torn, cut, edited>>
    BY <1>2 DEF Advance, marks
  <2>4. holding' \subseteq Sessions /\ lost' \subseteq Runs
    BY <2>3, ClosedTyped
  <2>5. /\ held' \in [Runs -> Pairs] /\ answers' \in [Runs -> SUBSET Cells]
        /\ \A q \in Runs \ {r} : held'[q] = held[q]
    BY <2>3, ForgetTyped
  <2>6. status' \in [Runs -> RunStatuses] /\ Reached'
    BY <2>2, <2>3 DEF TypeInv, TypeOK, Reached, RunStatuses, ActiveStatuses
  <2>7. attempt' \in [Runs -> 1 .. MAX_ATTEMPTS]
    BY <2>3, CachesAssumption DEF TypeInv, TypeOK
  <2>8. /\ stage' \in [Runs -> Stages]
        /\ step' \in [Runs -> Steps]
        /\ step'[r] = "begin"
        /\ \A q \in Runs \ {r} : stage'[q] = stage[q] /\ step'[q] = step[q]
    BY <2>2, <2>3 DEF TypeInv, TypeOK, Steps, Stages
  <2>9. TypeOK'
    BY <2>3, <2>4, <2>5, <2>6, <2>7, <2>8 DEF TypeInv, TypeOK, Steps, Pairs
  <2>10. Loaded'
    BY <2>5, <2>8 DEF TypeInv, Loaded, At
  <2> QED
    BY <2>6, <2>9, <2>10 DEF TypeInv
<1> QED
  BY <1>1, <1>2

\* A generator that leaves, or is lost, leaves the others where they are.
LEMMA LeaveTyped ==
    ASSUME TypeInv, NEW r \in Runs, NEW q \in Questions, Leave(r, q)
    PROVE  gen' \in [Generators -> Places] /\ torn' \subseteq Runs
<1>1. gen' = [gen EXCEPT ![<<r, attempt[r], q>>] = Idle] /\ torn' \subseteq torn \cup {r}
  BY DEF Leave
<1> QED
  BY <1>1, PlacesTyped DEF TypeInv, TypeOK, Places, Idle

\* Faults
LEMMA FaultTyped ==
    ASSUME TypeInv, NEW r \in Runs, StatementFails(r) \/ WorkerLost(r)
    PROVE  TypeInv'
<1>0. gen \in [Generators -> Places] /\ torn \subseteq Runs /\ cut \subseteq Runs
  BY DEF TypeInv, TypeOK, Places
<1>1. CASE StatementFails(r)
  <2>1. /\ status' = status \/ status' = [status EXCEPT ![r] = "failed"]
        /\ Commit(Session(r)) \/ Close(Session(r))
        /\ Retry(r) /\ cut' \subseteq Runs
        /\ UNCHANGED <<pool, words, rows, edited>>
    BY <1>0, <1>1 DEF StatementFails, MarkFailed
  <2>2. gen' \in [Generators -> Places] /\ torn' \subseteq Runs
    BY <1>0, <1>1, LeaveTyped DEF StatementFails
  <2> QED
    BY <2>1, <2>2, LeftTyped
<1>2. CASE WorkerLost(r)
  <2>1. gen' \in [Generators -> Places]
    BY <1>0, <1>2, PlacesTyped DEF WorkerLost, Idle
  <2>2. /\ status' = status /\ Close(Session(r)) /\ Goto(r, "lost") /\ Forget(r)
        /\ torn' \subseteq Runs /\ cut' \subseteq Runs
        /\ UNCHANGED <<pool, words, rows, edited>>
    BY <1>0, <1>2 DEF WorkerLost, tables
  <2> QED
    BY <2>1, <2>2, LeftTyped
<1> QED
  BY <1>1, <1>2

\* get_or_create_pool
LEMMA PoolStepTyped ==
    ASSUME TypeInv, NEW r \in Runs, LookUpPool(r) \/ StorePool(r) \/ NoPool(r)
    PROVE  TypeInv'
<1>1. CASE LookUpPool(r)
  BY <1>1 DEF TypeInv, TypeOK, Reached, Loaded, At, LookUpPool, Goto, tables, memory, money, marks
<1>2. CASE StorePool(r)
  <2>1. holding' \subseteq Sessions /\ lost' \subseteq Runs
    BY <1>2, ClosedTyped DEF StorePool
  <2>2. pool' \in Attempts \cup {None}
    BY <1>2 DEF StorePool, First, TypeInv, TypeOK, Attempts
  <2> QED
    BY <1>2, <2>1, <2>2 DEF TypeInv, TypeOK, Reached, Loaded, At, StorePool, Goto, memory, marks
<1>3. CASE NoPool(r)
  BY <1>3, RaiseTyped DEF NoPool
<1> QED
  BY <1>1, <1>2, <1>3

LEMMA GatherTyped ==
    ASSUME TypeInv, NEW r \in Runs, Gather(r)
    PROVE  TypeInv'
<1>1. gen' \in [Generators -> Places]
  BY PlacesTyped DEF Gather, TypeInv, TypeOK, Places
<1> QED
  BY <1>1 DEF Gather, TypeInv, TypeOK, Reached, Loaded, At, Goto, tables, memory, money, marks, Places

LEMMA GatherRaisesTyped ==
    ASSUME TypeInv, NEW r \in Runs, NEW q \in Questions, GatherRaises(r, q)
    PROVE  TypeInv'
<1>1. gen' \in [Generators -> Places] /\ torn' \subseteq Runs
  BY LeaveTyped DEF GatherRaises
<1>2. /\ status' = status \/ status' = [status EXCEPT ![r] = "failed"]
      /\ Commit(Session(r)) \/ Close(Session(r))
      /\ Retry(r) /\ UNCHANGED <<pool, words, rows, cut, edited>>
  BY DEF GatherRaises, MarkFailed
<1>3. cut' \subseteq Runs
  BY <1>2 DEF TypeInv, TypeOK
<1> QED
  BY <1>1, <1>2, <1>3, LeftTyped

\* What a generator does to its own state, the money and the wordings.
LEMMA GeneratorMoves ==
    ASSUME TypeInv, NEW r \in Runs, NEW a \in 1 .. MAX_ATTEMPTS, NEW q \in Questions,
           \/ LookUpWords(r, a, q) \/ AskHaiku(r, a, q)
           \/ StoreWords(r, a, q) \/ StrayRaises(r, a, q)
    PROVE  /\ \E p \in Places : gen' = [gen EXCEPT ![<<r, a, q>>] = p]
           /\ gen[<<r, a, q>>].step # "idle"
           /\ \/ UNCHANGED money
              \/ \E paid, fate : Book(Paraphrasing(r, a), paid, fate)
           /\ \/ words' = words
              \/ words' = [words EXCEPT ![Text[q]] = First(words[Text[q]], <<r, a, q>>)]
           /\ UNCHANGED <<pool, rows, status, place, memory, marks>>
<1> DEFINE g == <<r, a, q>>
<1>0. g \in Generators /\ gen[g] \in Places
  BY DEF TypeInv, TypeOK, Generators, Places
<1>1. CASE LookUpWords(r, a, q)
  BY <1>1, PlacesTyped DEF LookUpWords, Idle, tables
<1>2. CASE AskHaiku(r, a, q)
  <2>1. /\ gen[g].step = "call" /\ UNCHANGED <<tables, place, memory, marks>>
        /\ \E paid, fate : Book(Paraphrasing(r, a), paid, fate)
        /\ \/ gen' = [gen EXCEPT ![g] = Gets("store")]
           \/ /\ gen[g].tries + 1 # MAX_RETRIES
              /\ gen' = [gen EXCEPT ![g].tries = gen[g].tries + 1]
           \/ gen' = [gen EXCEPT ![g] = Idle]
    BY <1>2 DEF AskHaiku
  <2>2. ASSUME gen[g].tries + 1 # MAX_RETRIES, gen' = [gen EXCEPT ![g].tries = gen[g].tries + 1]
        PROVE  \E p \in Places : gen' = [gen EXCEPT ![g] = p]
    <3> DEFINE p == [gen[g] EXCEPT !.tries = gen[g].tries + 1]
    <3>1. gen[g].tries + 1 \in 0 .. MAX_RETRIES - 1
      BY <1>0, <2>2, CachesAssumption DEF Places
    <3>2. p \in Places
      BY <1>0, <3>1 DEF Places
    <3>3. gen' = [gen EXCEPT ![g] = p]
      BY <2>2
    <3> QED
      BY <3>2, <3>3
  <2> QED
    BY <2>1, <2>2, PlacesTyped DEF Idle, tables
<1>3. CASE StoreWords(r, a, q)
  BY <1>3, PlacesTyped DEF StoreWords, Idle, Commit
<1>4. CASE StrayRaises(r, a, q)
  BY <1>4, PlacesTyped DEF StrayRaises, Idle, Close, Live, tables
<1> QED
  BY <1>1, <1>2, <1>3, <1>4

\* _generate_for_question
LEMMA GeneratorTyped ==
    ASSUME TypeInv, NEW r \in Runs, NEW a \in 1 .. MAX_ATTEMPTS, NEW q \in Questions,
           \/ LookUpWords(r, a, q) \/ AskHaiku(r, a, q)
           \/ StoreWords(r, a, q) \/ StrayRaises(r, a, q)
    PROVE  TypeInv'
<1>1. gen' \in [Generators -> Places]
  BY GeneratorMoves DEF TypeInv, TypeOK, Places
<1>2. holding' \subseteq Sessions /\ lost' \subseteq Runs
  BY GeneratorMoves, ParaphrasingTyped, BookTyped DEF TypeInv, TypeOK, money
<1>3. words' \in [Texts -> Generators \cup {Hand, None}]
  <2>1. Text[q] \in Texts /\ <<r, a, q>> \in Generators
    BY CachesAssumption DEF Generators
  <2>2. words[Text[q]] \in Generators \cup {Hand, None}
    BY <2>1 DEF TypeInv, TypeOK
  <2>3. First(words[Text[q]], <<r, a, q>>) \in Generators \cup {Hand, None}
    BY <2>1, <2>2 DEF First
  <2>4. \/ words' = words
        \/ words' = [words EXCEPT ![Text[q]] = First(words[Text[q]], <<r, a, q>>)]
    BY GeneratorMoves
  <2> QED
    BY <2>1, <2>3, <2>4 DEF TypeInv, TypeOK
<1>4. UNCHANGED <<pool, rows, status, place, memory, marks>>
  BY GeneratorMoves
<1> QED
  BY <1>1, <1>2, <1>3, <1>4
  DEF TypeInv, TypeOK, Reached, Loaded, At, place, memory, marks, Places

LEMMA StraysLostTyped ==
    ASSUME TypeInv, NEW r \in Runs, NEW a \in 1 .. MAX_ATTEMPTS, StraysLost(r, a)
    PROVE  TypeInv'
<1>1. gen' \in [Generators -> Places]
  BY PlacesTyped DEF StraysLost, TypeInv, TypeOK, Places, Idle
<1>2. holding' \subseteq Sessions /\ lost' \subseteq Runs
  BY ParaphrasingTyped, BookTyped DEF StraysLost, Close
<1> QED
  BY <1>1, <1>2
  DEF StraysLost, TypeInv, TypeOK, Reached, Loaded, At, tables, place, memory, Places

\* The new rows of a probe name what it has loaded.
LEMMA UpsertTyped ==
    ASSUME TypeInv, NEW r \in Runs, At(r, "run_probe", "persist")
    PROVE  Upserted(r) \in SUBSET Row
<1>1. held[r].pool \in Attempts /\ held[r].words \in Generators \cup {Hand}
  BY DEF TypeInv, TypeOK, Loaded
<1>2. answers[r] \subseteq Cells /\ rows[r] \subseteq Row
  BY DEF TypeInv, TypeOK
<1> QED
  BY <1>1, <1>2 DEF Upserted, Row

\* handle_run_probe
LEMMA ProbeStepTyped ==
    ASSUME TypeInv, NEW r \in Runs,
           LoadPool(r) \/ AskSwarm(r) \/ Persist(r) \/ CheckDone(r) \/ AnotherFails(r)
    PROVE  TypeInv'
<1>1. CASE LoadPool(r)
  <2> DEFINE said == words[Text[Probed[r]]]
             loaded == [pool |-> pool, words |-> said]
  <2>1. CASE status[r] # "paraphrases_ready" \/ pool = None \/ said = None
    BY <1>1, <2>1, RaiseTyped DEF LoadPool
  <2>2. CASE ~(status[r] # "paraphrases_ready" \/ pool = None \/ said = None)
    <3>1. /\ held' = [held EXCEPT ![r] = loaded]
          /\ step' = [step EXCEPT ![r] = "ask"]
          /\ UNCHANGED <<stage, attempt, tables, gen, answers, money, marks>>
      BY <1>1, <2>2 DEF LoadPool, Goto
    <3>2. loaded \in Pairs /\ loaded.pool # None /\ loaded.words # None
      BY <2>2, CachesAssumption DEF TypeInv, TypeOK, Pairs
    <3> HIDE DEF loaded
    <3>3. TypeOK'
      BY <3>1, <3>2 DEF TypeInv, TypeOK, tables, money, marks, Pairs
    <3>4. Loaded'
      BY <3>1, <3>2 DEF TypeInv, TypeOK, Loaded, At
    <3>5. Reached'
      BY <3>1 DEF TypeInv, Reached, tables
    <3> QED
      BY <3>3, <3>4, <3>5 DEF TypeInv
  <2> QED
    BY <2>1, <2>2
<1>2. CASE AskSwarm(r)
  <2>1. PICK good \in SUBSET Cells, useless \in SUBSET Cells :
           /\ answers' = [answers EXCEPT ![r] = good]
           /\ Book(Session(r), good \cup useless # {}, "kept")
    BY <1>2 DEF AskSwarm
  <2>2. holding' \subseteq Sessions /\ lost' \subseteq Runs
    BY <2>1, SessionTyped, BookTyped
  <2>3. answers' \in [Runs -> SUBSET Cells]
    BY <2>1 DEF TypeInv, TypeOK
  <2> QED
    BY <1>2, <2>2, <2>3 DEF AskSwarm, TypeInv, TypeOK, Reached, Loaded, At, Goto, tables, marks
<1>3. CASE Persist(r)
  <2>1. holding' \subseteq Sessions /\ lost' \subseteq Runs
    BY <1>3, ClosedTyped DEF Persist, TypeInv, TypeOK, money
  <2>2. rows' \in [Runs -> SUBSET Row]
    BY <1>3, UpsertTyped DEF Persist, TypeInv, TypeOK
  <2> QED
    BY <1>3, <2>1, <2>2 DEF Persist, TypeInv, TypeOK, Reached, Loaded, At, Goto, memory, marks
<1>4. CASE CheckDone(r)
  <2>1. holding' \subseteq Sessions /\ lost' \subseteq Runs
    BY <1>4, ClosedTyped DEF CheckDone, TypeInv, TypeOK, money
  <2>2. /\ UNCHANGED <<stage, attempt>> /\ step' \in [Runs -> Steps]
        /\ step'[r] \in {"advance", "returned"} /\ \A q \in Runs \ {r} : step'[q] = step[q]
    BY <1>4 DEF CheckDone, Goto, TypeInv, TypeOK, Steps
  <2> QED
    BY <1>4, <2>1, <2>2
    DEF CheckDone, TypeInv, TypeOK, Reached, Loaded, At, tables, memory, marks, Steps
<1>5. CASE AnotherFails(r)
  BY <1>5
  DEF AnotherFails, TypeInv, TypeOK, Reached, Loaded, At, place, memory, money, marks,
      RunStatuses, TerminalStatuses
<1> QED
  BY <1>1, <1>2, <1>3, <1>4, <1>5

LEMMA EditTyped ==
    ASSUME TypeInv, NEW t \in Annotated, EditWords(t)
    PROVE  TypeInv'
  BY CachesAssumption
  DEF EditWords, TypeInv, TypeOK, Reached, Loaded, At, place, memory, money

LEMMA TypeInvInit == Init => TypeInv
<1> SUFFICES ASSUME Init PROVE TypeInv
  OBVIOUS
<1>1. TypeOK
  BY CachesAssumption, PlacesTyped
  DEF Init, TypeOK, RunStatuses, ActiveStatuses, Stages, Idle, Places
<1>2. Reached /\ Loaded
  BY DEF Init, Reached, Loaded, At
<1> QED
  BY <1>1, <1>2 DEF TypeInv

\* Who moves.
RunMoves(r) ==
    \/ LookUpPool(r) \/ StorePool(r) \/ NoPool(r)
    \/ Gather(r) \/ (\E q \in Questions : GatherRaises(r, q))
    \/ LoadPool(r) \/ AskSwarm(r) \/ Persist(r) \/ CheckDone(r) \/ AnotherFails(r)
    \/ Advance(r) \/ StatementFails(r) \/ WorkerLost(r)

GeneratorSteps(r, a, q) ==
    \/ LookUpWords(r, a, q) \/ AskHaiku(r, a, q) \/ StoreWords(r, a, q) \/ StrayRaises(r, a, q)

LEMMA WhoMoves ==
    Next <=> \/ \E t \in Annotated : EditWords(t)
             \/ \E r \in Runs : RunMoves(r)
             \/ \E r \in Runs, a \in 1 .. MAX_ATTEMPTS : StraysLost(r, a)
             \/ \E r \in Runs, a \in 1 .. MAX_ATTEMPTS, q \in Questions : GeneratorSteps(r, a, q)
  BY DEF Next, RunMoves, GeneratorSteps

LEMMA TypeInvStep == TypeInv /\ [Next]_vars => TypeInv'
<1> SUFFICES ASSUME TypeInv, [Next]_vars PROVE TypeInv'
  OBVIOUS
<1>1. ASSUME NEW r \in Runs, RunMoves(r)
      PROVE  TypeInv'
  BY <1>1, PoolStepTyped, GatherTyped, GatherRaisesTyped, ProbeStepTyped, AdvanceTyped, FaultTyped
  DEF RunMoves
<1>2. CASE UNCHANGED vars
  BY <1>2
  DEF vars, tables, place, memory, money, marks, TypeInv, TypeOK, Reached, Loaded, At
<1> QED
  BY <1>1, <1>2, WhoMoves, EditTyped, StraysLostTyped, GeneratorTyped DEF GeneratorSteps

\* The caches keep their types: a generator is never at more than MAX_RETRIES calls, a
\* job has no more than MAX_ATTEMPTS attempts, and a row of probe_responses always
\* names a pool and wordings.
THEOREM CacheTyping == Spec => []TypeOK
<1>1. Spec => []TypeInv
  BY TypeInvInit, TypeInvStep, PTL DEF Spec
<1>2. TypeInv => TypeOK
  BY DEF TypeInv
<1> QED
  BY <1>1, <1>2, PTL

-----------------------------------------------------------------------------
(* Who changes what *)

\* A job moves its own run only, in its own session.
LEMMA RunActs ==
    ASSUME TypeInv, NEW r \in Runs, RunMoves(r)
    PROVE  /\ \A q \in Runs \ {r} : /\ stage'[q] = stage[q] /\ step'[q] = step[q]
                                    /\ attempt'[q] = attempt[q] /\ answers'[q] = answers[q]
                                    /\ held'[q] = held[q] /\ rows'[q] = rows[q]
           /\ UNCHANGED money \/ \E paid, fate : Book(Session(r), paid, fate)
           /\ step[r] # "returned"
           /\ words' = words /\ edited' = edited
           /\ pool # None => pool' = pool
<1> DEFINE Own == /\ \A q \in Runs \ {r} : /\ stage'[q] = stage[q] /\ step'[q] = step[q]
                                           /\ attempt'[q] = attempt[q] /\ answers'[q] = answers[q]
                                           /\ held'[q] = held[q] /\ rows'[q] = rows[q]
                  /\ UNCHANGED money \/ \E paid, fate : Book(Session(r), paid, fate)
                  /\ step[r] # "returned"
                  /\ words' = words /\ edited' = edited
                  /\ pool # None => pool' = pool
<1>1. ASSUME step[r] # "returned", Retry(r) \/ (Forget(r) /\ Goto(r, "lost")), UNCHANGED <<pool, words, rows, edited>>,
             Commit(Session(r)) \/ Close(Session(r))
      PROVE  Own
  <2>1. Forget(r)
    BY <1>1 DEF Retry
  <2>2. \A q \in Runs \ {r} : held'[q] = held[q] /\ answers'[q] = answers[q]
    BY <2>1 DEF Forget, TypeInv, TypeOK
  <2>3. \A q \in Runs \ {r} : /\ stage'[q] = stage[q] /\ step'[q] = step[q]
                              /\ attempt'[q] = attempt[q]
    BY <1>1, RetryTyped DEF Goto, TypeInv, TypeOK
  <2> QED
    BY <1>1, <2>2, <2>3 DEF Commit, Close
<1>2. ASSUME step[r] # "returned", Raise(r)
      PROVE  Own
  BY <1>1, <1>2 DEF Raise, MarkFailed, marks
<1>3. CASE LookUpPool(r) \/ StorePool(r) \/ NoPool(r)
  BY <1>2, <1>3
  DEF LookUpPool, StorePool, NoPool, At, Goto, Commit, First, tables, memory, money, marks,
      TypeInv, TypeOK
<1>4. CASE Gather(r)
  BY <1>4 DEF Gather, At, Goto, tables, memory, money, marks, TypeInv, TypeOK
<1>5. CASE \E q \in Questions : GatherRaises(r, q)
  <2>1. step[r] # "returned"
    BY <1>5 DEF GatherRaises, Leave, Gathers, At
  <2>2. /\ Retry(r) /\ UNCHANGED <<pool, words, rows, edited>>
        /\ Commit(Session(r)) \/ Close(Session(r))
    BY <1>5 DEF GatherRaises, MarkFailed
  <2> QED
    BY <1>1, <2>1, <2>2
<1>6. CASE LoadPool(r)
  BY <1>2, <1>6 DEF LoadPool, At, Goto, tables, money, marks, TypeInv, TypeOK
<1>7. CASE AskSwarm(r) \/ Persist(r) \/ CheckDone(r) \/ AnotherFails(r)
  BY <1>7
  DEF AskSwarm, Persist, CheckDone, AnotherFails, At, Goto, Commit, Close, tables, place,
      memory, money, marks, TypeInv, TypeOK
<1>8. CASE Advance(r)
  <2>1. step[r] # "returned"
    BY <1>8 DEF Advance, Ready, Gathers, At
  <2>2. CASE Raise(r)
    BY <1>2, <2>1, <2>2
  <2>3. CASE ~Raise(r)
    <3>1. /\ Commit(Session(r)) /\ Forget(r)
          /\ stage' = [stage EXCEPT ![r] = Successor[stage[r]]]
          /\ attempt' = [attempt EXCEPT ![r] = 1]
          /\ step' = [step EXCEPT ![r] = "begin"]
          /\ UNCHANGED <<pool, words, rows, edited>>
      BY <1>8, <2>3 DEF Advance, marks
    <3>2. \A q \in Runs \ {r} : held'[q] = held[q] /\ answers'[q] = answers[q]
      BY <3>1 DEF Forget, TypeInv, TypeOK
    <3> QED
      BY <2>1, <3>1, <3>2 DEF Commit, TypeInv, TypeOK
  <2> QED
    BY <2>2, <2>3
<1>9. CASE StatementFails(r)
  <2>1. step[r] # "returned"
    BY <1>9 DEF StatementFails, Works
  <2>2. /\ Retry(r) /\ UNCHANGED <<pool, words, rows, edited>>
        /\ Commit(Session(r)) \/ Close(Session(r))
    BY <1>9 DEF StatementFails, MarkFailed
  <2> QED
    BY <1>1, <2>1, <2>2
<1>10. CASE WorkerLost(r)
  <2>1. step[r] # "returned"
    BY <1>10 DEF WorkerLost, Works
  <2>2. /\ Forget(r) /\ Goto(r, "lost") /\ UNCHANGED <<pool, words, rows, edited>>
        /\ Close(Session(r))
    BY <1>10 DEF WorkerLost, tables
  <2> QED
    BY <1>1, <2>1, <2>2
<1> QED
  BY <1>3, <1>4, <1>5, <1>6, <1>7, <1>8, <1>9, <1>10 DEF RunMoves

-----------------------------------------------------------------------------
(* One pool, one set of wordings *)

\* The wordings of the question that is followed in run r.
Said(r) == words[Text[Probed[r]]]

\* What a probe holds is what is stored, unless its paraphrases were edited since.
HeldIsStored == \A r \in Runs :
    /\ held[r].pool \in {None, pool}
    /\ r \notin edited => held[r].words \in {None, Said(r)}

SharedInv == HeldIsStored /\ OnePool /\ WordsAgree

LEMMA SaidTyped ==
    ASSUME TypeInv, NEW r \in Runs
    PROVE  Text[Probed[r]] \in Texts /\ Said(r) \in Generators \cup {Hand, None}
<1>1. Text[Probed[r]] \in Texts
  BY CachesAssumption
<1> QED
  BY <1>1 DEF Said, TypeInv, TypeOK

\* A pool that is stored stays, whatever step is taken; so do wordings, as long as
\* nobody edits them.
LEMMA StoredStays ==
    ASSUME TypeInv, Next
    PROVE  /\ pool # None => pool' = pool
           /\ \A t \in Texts : words[t] # None => words'[t] = words[t] \/ EditWords(t)
<1> DEFINE Stays == /\ pool # None => pool' = pool
                    /\ \A t \in Texts : words[t] # None => words'[t] = words[t] \/ EditWords(t)
<1>1. ASSUME NEW t \in Annotated, EditWords(t)
      PROVE  Stays
  BY <1>1, CachesAssumption DEF EditWords, TypeInv, TypeOK
<1>2. ASSUME NEW r \in Runs, RunMoves(r)
      PROVE  Stays
  BY <1>2, RunActs
<1>3. ASSUME NEW r \in Runs, NEW a \in 1 .. MAX_ATTEMPTS, StraysLost(r, a)
      PROVE  Stays
  BY <1>3 DEF StraysLost, tables
<1>4. ASSUME NEW r \in Runs, NEW a \in 1 .. MAX_ATTEMPTS, NEW q \in Questions,
             GeneratorSteps(r, a, q)
      PROVE  Stays
  <2>1. /\ pool' = pool
        /\ \/ words' = words
           \/ words' = [words EXCEPT ![Text[q]] = First(words[Text[q]], <<r, a, q>>)]
    BY <1>4, GeneratorMoves DEF GeneratorSteps
  <2> QED
    BY <2>1 DEF First, TypeInv, TypeOK
<1> QED
  BY <1>1, <1>2, <1>3, <1>4, WhoMoves

\* What a probe holds is kept, dropped, or read from the tables.
LEMMA HeldMoves ==
    ASSUME TypeInv, Next, NEW q \in Runs
    PROVE  \/ held'[q] = held[q]
           \/ held'[q].pool = None /\ held'[q].words = None
           \/ held'[q].pool = pool' /\ held'[q].words = Said(q)'
<1> DEFINE Moved == \/ held'[q] = held[q]
                    \/ held'[q].pool = None /\ held'[q].words = None
                    \/ held'[q].pool = pool' /\ held'[q].words = Said(q)'
<1>1. ASSUME Forget(q) \/ UNCHANGED held
      PROVE  Moved
  BY <1>1 DEF Forget, TypeInv, TypeOK
<1>2. ASSUME Raise(q)
      PROVE  Moved
  BY <1>1, <1>2 DEF Raise, Retry
<1>3. ASSUME LoadPool(q)
      PROVE  Moved
  <2>1. CASE Raise(q)
    BY <1>2, <2>1
  <2>2. CASE ~Raise(q)
    <3>1. /\ held' = [held EXCEPT ![q] = [pool |-> pool, words |-> Said(q)]]
          /\ UNCHANGED <<pool, words>>
      BY <1>3, <2>2 DEF LoadPool, Said, tables
    <3> QED
      BY <3>1 DEF TypeInv, TypeOK, Said
  <2> QED
    BY <2>1, <2>2
<1>4. ASSUME RunMoves(q)
      PROVE  Moved
  <2>1. CASE LookUpPool(q) \/ StorePool(q) \/ NoPool(q) \/ Gather(q)
    BY <1>1, <1>2, <2>1 DEF LookUpPool, StorePool, NoPool, Gather, memory
  <2>2. CASE \E p \in Questions : GatherRaises(q, p)
    BY <1>1, <2>2 DEF GatherRaises, Retry
  <2>3. CASE AskSwarm(q) \/ Persist(q) \/ CheckDone(q) \/ AnotherFails(q)
    BY <1>1, <2>3 DEF AskSwarm, Persist, CheckDone, AnotherFails, memory
  <2>4. CASE Advance(q) \/ StatementFails(q) \/ WorkerLost(q)
    BY <1>1, <1>2, <2>4 DEF Advance, StatementFails, WorkerLost, Retry
  <2> QED
    BY <1>3, <1>4, <2>1, <2>2, <2>3, <2>4 DEF RunMoves
<1>5. ASSUME NEW r \in Runs, RunMoves(r)
      PROVE  Moved
  BY <1>4, <1>5, RunActs
<1>6. ASSUME NEW t \in Annotated, EditWords(t)
      PROVE  Moved
  BY <1>6 DEF EditWords, memory
<1>7. ASSUME NEW r \in Runs, NEW a \in 1 .. MAX_ATTEMPTS, StraysLost(r, a)
      PROVE  Moved
  BY <1>7 DEF StraysLost, memory
<1>8. ASSUME NEW r \in Runs, NEW a \in 1 .. MAX_ATTEMPTS, NEW p \in Questions,
             GeneratorSteps(r, a, p)
      PROVE  Moved
  BY <1>8, GeneratorMoves DEF GeneratorSteps, memory
<1> QED
  BY <1>5, <1>6, <1>7, <1>8, WhoMoves

\* Rows are only written by a probe, from what it holds.
LEMMA RowsMove ==
    ASSUME TypeInv, Next, NEW q \in Runs
    PROVE  \/ rows'[q] = rows[q]
           \/ /\ rows'[q] = Upserted(q) /\ At(q, "run_probe", "persist")
              /\ UNCHANGED <<pool, words, held, edited>>
<1> DEFINE Written == \/ rows'[q] = rows[q]
                      \/ /\ rows'[q] = Upserted(q) /\ At(q, "run_probe", "persist")
                         /\ UNCHANGED <<pool, words, held, edited>>
<1>1. ASSUME NEW r \in Runs, RunMoves(r)
      PROVE  Written
  <2>1. CASE Persist(q)
    BY <2>1 DEF Persist, TypeInv, TypeOK, memory, marks
  <2>2. CASE r = q /\ ~Persist(q)
    <3>1. CASE LookUpPool(q) \/ StorePool(q) \/ NoPool(q) \/ Gather(q)
      BY <3>1 DEF LookUpPool, StorePool, NoPool, Gather, Raise, tables
    <3>2. CASE (\E p \in Questions : GatherRaises(q, p)) \/ LoadPool(q) \/ AskSwarm(q)
      BY <3>2 DEF GatherRaises, LoadPool, AskSwarm, Raise, tables
    <3>3. CASE CheckDone(q) \/ AnotherFails(q) \/ Advance(q) \/ StatementFails(q) \/ WorkerLost(q)
      BY <3>3 DEF CheckDone, AnotherFails, Advance, StatementFails, WorkerLost, Raise, tables
    <3> QED
      BY <1>1, <2>2, <3>1, <3>2, <3>3 DEF RunMoves
  <2>3. CASE r # q
    BY <1>1, <2>3, RunActs
  <2> QED
    BY <2>1, <2>2, <2>3
<1>2. ASSUME NEW t \in Annotated, EditWords(t)
      PROVE  Written
  BY <1>2 DEF EditWords
<1>3. ASSUME NEW r \in Runs, NEW a \in 1 .. MAX_ATTEMPTS, StraysLost(r, a)
      PROVE  Written
  BY <1>3 DEF StraysLost, tables
<1>4. ASSUME NEW r \in Runs, NEW a \in 1 .. MAX_ATTEMPTS, NEW p \in Questions,
             GeneratorSteps(r, a, p)
      PROVE  Written
  BY <1>4, GeneratorMoves DEF GeneratorSteps
<1> QED
  BY <1>1, <1>2, <1>3, <1>4, WhoMoves

\* No mark is taken back.
LEMMA MarksStay ==
    ASSUME TypeInv, Next
    PROVE  edited \subseteq edited'
<1>1. ASSUME NEW r \in Runs, RunMoves(r)
      PROVE  edited' = edited
  BY <1>1, RunActs
<1>2. ASSUME NEW r \in Runs, NEW a \in 1 .. MAX_ATTEMPTS, StraysLost(r, a)
      PROVE  edited' = edited
  BY <1>2 DEF StraysLost
<1>3. ASSUME NEW r \in Runs, NEW a \in 1 .. MAX_ATTEMPTS, NEW p \in Questions,
             GeneratorSteps(r, a, p)
      PROVE  edited' = edited
  BY <1>3, GeneratorMoves DEF GeneratorSteps, marks
<1> QED
  BY <1>1, <1>2, <1>3, WhoMoves DEF EditWords

LEMMA SharedStep ==
    ASSUME TypeInv, SharedInv, [Next]_vars
    PROVE  SharedInv'
<1>1. CASE Next
  <2>0. ASSUME NEW q \in Runs \ edited'
        PROVE  Said(q) # None =>
                  \/ Said(q)' = Said(q)
                  \/ held'[q] = held[q] /\ held[q].words = None /\ rows'[q] = {}
    <3>1. CASE EditWords(Text[Probed[q]])
      <4>1. rows' = rows /\ held' = held /\ held[q].words = None /\ rows[q] = {}
        BY <3>1 DEF EditWords, memory
      <4> QED
        BY <4>1
    <3> QED
      BY <1>1, <3>1, StoredStays, SaidTyped DEF Said
  <2>1. HeldIsStored'
    <3> SUFFICES ASSUME NEW q \in Runs
                 PROVE  /\ held'[q].pool \in {None, pool'}
                        /\ q \notin edited' => held'[q].words \in {None, Said(q)'}
      BY DEF HeldIsStored
    <3>1. CASE held'[q] = held[q]
      <4>1. held[q].pool \in {None, pool'}
        BY <1>1, StoredStays DEF SharedInv, HeldIsStored
      <4>2. ASSUME q \notin edited'
            PROVE  held'[q].words \in {None, Said(q)'}
        <5>1. q \notin edited /\ held[q].words \in {None, Said(q)}
          BY <1>1, <4>2, MarksStay DEF SharedInv, HeldIsStored
        <5> QED
          BY <2>0, <3>1, <4>2, <5>1
      <4> QED
        BY <3>1, <4>1, <4>2
    <3> QED
      BY <1>1, <3>1, HeldMoves
  <2>2. OnePool'
    <3> SUFFICES ASSUME NEW q \in Runs, NEW x \in rows'[q]
                 PROVE  x.pool = pool'
      BY DEF OnePool
    <3>1. CASE rows'[q] = rows[q]
      <4>1. x.pool = pool /\ x.pool \in Attempts
        BY <3>1 DEF SharedInv, OnePool, TypeInv, TypeOK, Row
      <4> QED
        BY <1>1, <4>1, StoredStays, CachesAssumption
    <3>2. CASE /\ rows'[q] = Upserted(q) /\ At(q, "run_probe", "persist")
               /\ UNCHANGED <<pool, words, held, edited>>
      <4>1. held[q].pool = pool
        BY <3>2 DEF SharedInv, HeldIsStored, TypeInv, Loaded
      <4> QED
        BY <3>2, <4>1 DEF Upserted, SharedInv, OnePool
    <3> QED
      BY <1>1, <3>1, <3>2, RowsMove
  <2>3. WordsAgree'
    <3> SUFFICES ASSUME NEW q \in Runs \ edited', NEW x \in rows'[q]
                 PROVE  x.words = Said(q)'
      BY DEF WordsAgree, Said
    <3>1. q \notin edited
      BY <1>1, MarksStay
    <3>2. CASE rows'[q] = rows[q]
      <4>1. x.words = Said(q) /\ x.words \in Generators \cup {Hand}
        BY <3>1, <3>2 DEF SharedInv, WordsAgree, TypeInv, TypeOK, Row, Said
      <4>2. Said(q) # None
        BY <4>1, CachesAssumption
      <4> QED
        BY <2>0, <4>1, <4>2
    <3>3. CASE /\ rows'[q] = Upserted(q) /\ At(q, "run_probe", "persist")
               /\ UNCHANGED <<pool, words, held, edited>>
      <4>1. held[q].words = Said(q) /\ Said(q)' = Said(q)
        BY <3>1, <3>3 DEF SharedInv, HeldIsStored, TypeInv, Loaded, Said
      <4>2. \A y \in rows[q] : y.words = Said(q)
        BY <3>1 DEF SharedInv, WordsAgree, Said
      <4> QED
        BY <3>3, <4>1, <4>2 DEF Upserted
    <3> QED
      BY <1>1, <3>2, <3>3, RowsMove
  <2> QED
    BY <2>1, <2>2, <2>3 DEF SharedInv
<1>2. CASE UNCHANGED vars
  BY <1>2 DEF vars, tables, memory, marks, SharedInv, HeldIsStored, OnePool, WordsAgree, Said
<1> QED
  BY <1>1, <1>2

LEMMA SharedInit == Init => SharedInv
  BY DEF Init, SharedInv, HeldIsStored, OnePool, WordsAgree

\* Every row of every run was asked of a person of the one stored pool, whoever
\* generated how many of them in what order.
THEOREM PoolIsShared == Spec => []OnePool
<1>1. Spec => [](TypeInv /\ SharedInv)
  BY TypeInvInit, TypeInvStep, SharedInit, SharedStep, PTL DEF Spec
<1>2. SharedInv => OnePool
  BY DEF SharedInv
<1> QED
  BY <1>1, <1>2, PTL

\* Every row of a run whose paraphrases nobody edited later was asked in the stored
\* wordings of its question.
THEOREM WordsAreShared == Spec => []WordsAgree
<1>1. Spec => [](TypeInv /\ SharedInv)
  BY TypeInvInit, TypeInvStep, SharedInit, SharedStep, PTL DEF Spec
<1>2. SharedInv => WordsAgree
  BY DEF SharedInv
<1> QED
  BY <1>1, <1>2, PTL

-----------------------------------------------------------------------------
(* The ledger *)

Disturbed == cut \cup torn

\* Generators outlive their job only where one raised before them, or a worker died.
Strays == \A r \in Runs, a \in 1 .. MAX_ATTEMPTS :
    Live(r, a) # {} /\ ~Gathers(r, a) => r \in Disturbed

\* A probe that has stored its answers has stored its ledger rows with them.
Checked == \A r \in Runs :
    At(r, "run_probe", "check") /\ Session(r) \in holding => answers[r] = {}

LedgerInv == LedgerGap /\ Strays /\ Checked

\* Only the run of the session can lose something, and only when it is dropped.
LEMMA BookMoves ==
    ASSUME NEW s \in Sessions, NEW paid, NEW fate, Book(s, paid, fate)
    PROVE  /\ lost' \subseteq lost \cup {s[1]}
           /\ fate # "dropped" => lost' = lost
           /\ fate = "dropped" /\ ~paid /\ s \notin holding => lost' = lost
           /\ fate # "kept" => s \notin holding'
           /\ \A x \in Sessions \ {s} : x \in holding' <=> x \in holding
  BY DEF Book

LEMMA CommitLosesNothing ==
    ASSUME NEW s \in Sessions, Commit(s)
    PROVE  lost' = lost /\ s \notin holding'
  BY DEF Commit, Book

\* A job that ends with a session that was dropped has lost a worker or a statement, or
\* left generators behind, or is a probe that returned without a commit.
LEMMA RunLoses ==
    ASSUME TypeInv, LedgerInv, NEW r \in Runs, RunMoves(r), lost' # lost
    PROVE  /\ lost' \subseteq lost \cup {r}
           /\ r \in Disturbed' \/ (step'[r] = "returned" /\ answers'[r] = {})
<1>0. /\ Session(r) \in Sessions /\ Session(r)[1] = r
      /\ ~UNCHANGED money
  BY SessionTyped DEF Session, money
<1>1. ~Commit(Session(r))
  BY <1>0, CommitLosesNothing
<1>2. \A paid : ~Book(Session(r), paid, "kept")
  BY <1>0, BookMoves
<1>3. lost' \subseteq lost \cup {r}
  BY <1>0, BookMoves, RunActs
<1>4. ~Raise(r)
  BY <1>1 DEF Raise, MarkFailed
<1>5. CASE StatementFails(r) \/ WorkerLost(r)
  BY <1>3, <1>5 DEF StatementFails, WorkerLost, Disturbed, Cuttable
<1>6. CASE \E q \in Questions : GatherRaises(r, q)
  <2>1. PICK q \in Questions : GatherRaises(r, q)
    BY <1>6
  <2>2. Live(r, attempt[r]) # {q} /\ Leave(r, q)
    BY <1>1, <2>1 DEF GatherRaises, MarkFailed
  <2> QED
    BY <1>3, <2>2 DEF Leave, Disturbed
<1>7. CASE CheckDone(r)
  <2>1. /\ At(r, "run_probe", "check") /\ Goto(r, "returned") /\ Close(Session(r))
        /\ answers' = answers
    BY <1>0, <1>7 DEF CheckDone, memory
  <2>2. Session(r) \in holding
    BY <1>0, <2>1, BookMoves DEF Close
  <2>3. answers[r] = {}
    BY <2>1, <2>2 DEF LedgerInv, Checked
  <2> QED
    BY <1>3, <2>1, <2>3 DEF Goto, TypeInv, TypeOK
<1>8. ~(LookUpPool(r) \/ StorePool(r) \/ NoPool(r) \/ Gather(r))
  BY <1>0, <1>1, <1>4 DEF LookUpPool, StorePool, NoPool, Gather
<1>9. ~(LoadPool(r) \/ AskSwarm(r) \/ Persist(r) \/ AnotherFails(r) \/ Advance(r))
  BY <1>0, <1>1, <1>2, <1>4 DEF LoadPool, AskSwarm, Persist, AnotherFails, Advance
<1> QED
  BY <1>5, <1>6, <1>7, <1>8, <1>9 DEF RunMoves

\* A generator loses the ledger rows of its session only when nobody waits for it.
LEMMA GeneratorLoses ==
    ASSUME TypeInv, LedgerInv, NEW r \in Runs, NEW a \in 1 .. MAX_ATTEMPTS, NEW q \in Questions,
           GeneratorSteps(r, a, q), lost' # lost
    PROVE  lost' \subseteq lost \cup {r} /\ r \in Disturbed
<1> DEFINE s == Paraphrasing(r, a)
<1>0. s \in Sessions /\ s[1] = r /\ ~UNCHANGED money
  BY ParaphrasingTyped DEF Paraphrasing, money
<1>1. gen[<<r, a, q>>].step # "idle" => q \in Live(r, a)
  BY DEF Live
<1>2. lost' \subseteq lost \cup {r}
  BY <1>0, GeneratorMoves, BookMoves DEF GeneratorSteps
<1>3. ~Commit(s) /\ \A paid : ~Book(s, paid, "kept")
  BY <1>0, CommitLosesNothing, BookMoves
<1>4. \A paid : Book(s, paid, Abandoned(r, a, q)) => ~Gathers(r, a)
  BY <1>3 DEF Abandoned
<1>5. ~Gathers(r, a) /\ q \in Live(r, a)
  <2>1. CASE LookUpWords(r, a, q)
    BY <1>0, <1>1, <1>4, <2>1 DEF LookUpWords
  <2>2. CASE AskHaiku(r, a, q)
    BY <1>1, <1>3, <1>4, <2>2 DEF AskHaiku
  <2>3. CASE StoreWords(r, a, q)
    BY <1>3, <2>3 DEF StoreWords
  <2>4. CASE StrayRaises(r, a, q)
    BY <2>4 DEF StrayRaises
  <2> QED
    BY <2>1, <2>2, <2>3, <2>4 DEF GeneratorSteps
<1> QED
  BY <1>2, <1>5 DEF LedgerInv, Strays

\* What happened to a run stays on record.
LEMMA DisturbedStays ==
    ASSUME TypeInv, Next
    PROVE  Disturbed \subseteq Disturbed'
<1>1. ASSUME NEW r \in Runs, RunMoves(r)
      PROVE  Disturbed \subseteq Disturbed'
  <2>1. CASE LookUpPool(r) \/ StorePool(r) \/ NoPool(r) \/ Gather(r)
    BY <2>1 DEF LookUpPool, StorePool, NoPool, Gather, Raise, marks, Disturbed
  <2>2. CASE \E q \in Questions : GatherRaises(r, q)
    BY <2>2 DEF GatherRaises, Leave, Disturbed
  <2>3. CASE LoadPool(r) \/ AskSwarm(r) \/ Persist(r) \/ CheckDone(r) \/ AnotherFails(r) \/ Advance(r)
    BY <2>3
    DEF LoadPool, AskSwarm, Persist, CheckDone, AnotherFails, Advance, Raise, marks, Disturbed
  <2>4. CASE StatementFails(r) \/ WorkerLost(r)
    BY <2>4 DEF StatementFails, WorkerLost, Leave, Disturbed
  <2> QED
    BY <1>1, <2>1, <2>2, <2>3, <2>4 DEF RunMoves
<1>2. ASSUME NEW t \in Annotated, EditWords(t)
      PROVE  Disturbed \subseteq Disturbed'
  BY <1>2 DEF EditWords, Disturbed
<1>3. ASSUME NEW r \in Runs, NEW a \in 1 .. MAX_ATTEMPTS, StraysLost(r, a)
      PROVE  Disturbed \subseteq Disturbed'
  BY <1>3 DEF StraysLost, Disturbed
<1>4. ASSUME NEW r \in Runs, NEW a \in 1 .. MAX_ATTEMPTS, NEW q \in Questions,
             GeneratorSteps(r, a, q)
      PROVE  Disturbed \subseteq Disturbed'
  BY <1>4, GeneratorMoves DEF GeneratorSteps, marks, Disturbed
<1> QED
  BY <1>1, <1>2, <1>3, <1>4, WhoMoves

\* Nothing happens to a run whose probe has returned.
LEMMA ReturnedStays ==
    ASSUME TypeInv, Next, NEW q \in Runs, step[q] = "returned"
    PROVE  step'[q] = "returned" /\ answers'[q] = answers[q]
<1>1. ASSUME NEW r \in Runs, RunMoves(r)
      PROVE  step'[q] = "returned" /\ answers'[q] = answers[q]
  BY <1>1, RunActs
<1>2. ASSUME NEW t \in Annotated, EditWords(t)
      PROVE  UNCHANGED <<step, answers>>
  BY <1>2 DEF EditWords, place, memory
<1>3. ASSUME NEW r \in Runs, NEW a \in 1 .. MAX_ATTEMPTS, StraysLost(r, a)
      PROVE  UNCHANGED <<step, answers>>
  BY <1>3 DEF StraysLost, place, memory
<1>4. ASSUME NEW r \in Runs, NEW a \in 1 .. MAX_ATTEMPTS, NEW p \in Questions,
             GeneratorSteps(r, a, p)
      PROVE  UNCHANGED <<step, answers>>
  BY <1>4, GeneratorMoves DEF GeneratorSteps, place, memory
<1> QED
  BY <1>1, <1>2, <1>3, <1>4, WhoMoves

LEMMA GapStep ==
    ASSUME TypeInv, LedgerInv, Next
    PROVE  LedgerGap'
<1> SUFFICES ASSUME NEW q \in Runs, q \in lost'
             PROVE  q \in Disturbed' \/ (step'[q] = "returned" /\ answers'[q] = {})
  <2>1. lost' \subseteq Runs
    BY TypeInvStep DEF TypeInv, TypeOK
  <2> QED
    BY <2>1 DEF LedgerGap, Disturbed
<1>1. CASE q \in lost
  <2>1. q \in Disturbed \/ (step[q] = "returned" /\ answers[q] = {})
    BY <1>1 DEF LedgerInv, LedgerGap, Disturbed
  <2> QED
    BY <2>1, DisturbedStays, ReturnedStays
<1>2. CASE q \notin lost
  <2>1. ASSUME NEW r \in Runs, RunMoves(r)
        PROVE  q \in Disturbed' \/ (step'[q] = "returned" /\ answers'[q] = {})
    BY <1>2, <2>1, RunLoses
  <2>2. ASSUME NEW r \in Runs, NEW a \in 1 .. MAX_ATTEMPTS, NEW p \in Questions,
               GeneratorSteps(r, a, p)
        PROVE  q \in Disturbed'
    BY <1>2, <2>2, GeneratorLoses, DisturbedStays
  <2>3. ASSUME NEW r \in Runs, NEW a \in 1 .. MAX_ATTEMPTS, StraysLost(r, a)
        PROVE  q \in Disturbed'
    <3>1. Paraphrasing(r, a) \in Sessions /\ Paraphrasing(r, a)[1] = r
      BY ParaphrasingTyped DEF Paraphrasing
    <3>2. q = r
      BY <1>2, <2>3, <3>1, BookMoves DEF StraysLost, Close
    <3> QED
      BY <2>3, <3>2 DEF StraysLost, Disturbed
  <2>4. ASSUME NEW t \in Annotated, EditWords(t)
        PROVE  FALSE
    BY <1>2, <2>4 DEF EditWords, money
  <2> QED
    BY <2>1, <2>2, <2>3, <2>4, WhoMoves
<1> QED
  BY <1>1, <1>2

\* The job of run r leaves the generators of other jobs alone.  Those of its own it
\* starts, ends, or leaves when one of them raises.
LEMMA StraysOfRun ==
    ASSUME TypeInv, LedgerInv, NEW r \in Runs, RunMoves(r)
    PROVE  Strays'
<1> SUFFICES ASSUME NEW q \in Runs, NEW a \in 1 .. MAX_ATTEMPTS,
                    Live(q, a)' # {}, ~Gathers(q, a)'
             PROVE  q \in Disturbed'
  BY DEF Strays
<1>0. Disturbed \subseteq Disturbed'
  BY DisturbedStays, WhoMoves
<1>1. ASSUME Live(q, a) # {} /\ ~Gathers(q, a)
      PROVE  q \in Disturbed'
  BY <1>0, <1>1 DEF LedgerInv, Strays
<1>2. CASE UNCHANGED gen
  <2>1. Live(q, a) # {}
    BY <1>2 DEF Live
  <2>2. CASE Gathers(q, a)
    <3>1. q = r
      BY <2>2, RunActs DEF Gathers, At
    <3>2. At(r, "gen_paraphrases", "gather") /\ attempt[r] = a
      BY <2>2, <3>1 DEF Gathers
    <3>3. ~(LookUpPool(r) \/ StorePool(r) \/ NoPool(r) \/ Gather(r) \/ LoadPool(r) \/ AskSwarm(r)
            \/ Persist(r) \/ CheckDone(r) \/ AnotherFails(r))
      BY <3>2
      DEF LookUpPool, StorePool, NoPool, Gather, LoadPool, AskSwarm, Persist, CheckDone,
          AnotherFails, At
    <3>4. ~Advance(r)
      BY <2>1, <3>1, <3>2 DEF Advance, Ready, At
    <3>5. \A p \in Questions : ~GatherRaises(r, p)
      <4>1. ASSUME NEW p \in Questions, Leave(r, p) PROVE FALSE
        <5>1. <<r, attempt[r], p>> \in Generators /\ gen[<<r, attempt[r], p>>].step # "idle"
          BY <4>1 DEF Leave, Live, Generators, TypeInv, TypeOK
        <5>2. gen'[<<r, attempt[r], p>>] = Idle
          BY <4>1, <5>1 DEF Leave, TypeInv, TypeOK
        <5> QED
          BY <1>2, <5>1, <5>2 DEF Idle, Gets
      <4> QED
        BY <4>1 DEF GatherRaises
    <3>6. StatementFails(r) \/ WorkerLost(r)
      BY <3>3, <3>4, <3>5 DEF RunMoves
    <3> QED
      BY <3>1, <3>6 DEF StatementFails, WorkerLost, Disturbed
  <2> QED
    BY <1>1, <2>1, <2>2
<1>3. CASE Gather(r)
  <2>1. CASE q = r /\ a = attempt[r]
    <3>1. Gathers(q, a)'
      BY <1>3, <2>1 DEF Gather, Gathers, At, Goto, TypeInv, TypeOK
    <3> QED
      BY <3>1
  <2>2. CASE ~(q = r /\ a = attempt[r])
    <3>1. Live(q, a)' = Live(q, a)
      BY <1>3, <2>2 DEF Gather, Live, Generators
    <3>2. Gathers(q, a)' <=> Gathers(q, a)
      BY <1>3, <2>2 DEF Gather, Gathers, At, Goto, TypeInv, TypeOK
    <3> QED
      BY <1>1, <3>1, <3>2
  <2> QED
    BY <2>1, <2>2
<1>4. ASSUME NEW p \in Questions, Leave(r, p), Retry(r)
      PROVE  q \in Disturbed'
  <2>1. CASE q = r /\ a = attempt[r]
    <3>1. Live(q, a)' \subseteq Live(q, a) \ {p}
      BY <1>4, <2>1 DEF Leave, Live, Generators, TypeInv, TypeOK, Idle, Gets
    <3>2. Live(r, attempt[r]) # {p}
      BY <2>1, <3>1
    <3> QED
      BY <1>4, <2>1, <3>2 DEF Leave, Disturbed
  <2>2. CASE ~(q = r /\ a = attempt[r])
    <3>1. Live(q, a)' = Live(q, a)
      BY <1>4, <2>2 DEF Leave, Live, Generators, TypeInv, TypeOK
    <3>2. Gathers(q, a) => Gathers(q, a)'
      BY <1>4, <2>2, RunActs DEF Gathers, At
    <3> QED
      BY <1>1, <3>1, <3>2
  <2> QED
    BY <2>1, <2>2
<1>5. CASE WorkerLost(r)
  <2>1. CASE q = r
    BY <1>5, <2>1 DEF WorkerLost, Disturbed
  <2>2. CASE q # r
    <3>1. Live(q, a)' = Live(q, a)
      BY <1>5, <2>2 DEF WorkerLost, Live, Generators
    <3>2. Gathers(q, a)' <=> Gathers(q, a)
      BY <2>2, RunActs DEF Gathers, At
    <3> QED
      BY <1>1, <3>1, <3>2
  <2> QED
    BY <2>1, <2>2
<1>6. CASE StatementFails(r)
  BY <1>2, <1>4, <1>6 DEF StatementFails
<1>7. CASE \E p \in Questions : GatherRaises(r, p)
  BY <1>4, <1>7 DEF GatherRaises
<1>8. CASE \/ LookUpPool(r) \/ StorePool(r) \/ NoPool(r) \/ LoadPool(r) \/ AskSwarm(r)
           \/ Persist(r) \/ CheckDone(r) \/ AnotherFails(r) \/ Advance(r)
  <2>1. UNCHANGED gen
    BY <1>8
    DEF LookUpPool, StorePool, NoPool, LoadPool, AskSwarm, Persist, CheckDone, AnotherFails,
        Advance, Raise
  <2> QED
    BY <1>2, <2>1
<1> QED
  BY <1>3, <1>5, <1>6, <1>7, <1>8 DEF RunMoves

LEMMA StraysStep ==
    ASSUME TypeInv, LedgerInv, Next
    PROVE  Strays'
<1>0. Disturbed \subseteq Disturbed'
  BY DisturbedStays
<1>1. ASSUME NEW t \in Annotated, EditWords(t)
      PROVE  Strays'
  BY <1>0, <1>1 DEF EditWords, place, LedgerInv, Strays, Live, Gathers, At
<1>2. ASSUME NEW r \in Runs, NEW a \in 1 .. MAX_ATTEMPTS, StraysLost(r, a)
      PROVE  Strays'
  <2>1. \A q \in Runs, b \in 1 .. MAX_ATTEMPTS : Live(q, b)' \subseteq Live(q, b)
    BY <1>2 DEF StraysLost, Live, Generators, Idle, Gets
  <2>2. \A q \in Runs, b \in 1 .. MAX_ATTEMPTS : Gathers(q, b)' <=> Gathers(q, b)
    BY <1>2 DEF StraysLost, place, Gathers, At
  <2> QED
    BY <1>0, <2>1, <2>2 DEF LedgerInv, Strays
<1>3. ASSUME NEW r \in Runs, NEW a \in 1 .. MAX_ATTEMPTS, NEW p \in Questions,
             GeneratorSteps(r, a, p)
      PROVE  Strays'
  <2>1. PICK x \in Places : gen' = [gen EXCEPT ![<<r, a, p>>] = x]
    BY <1>3, GeneratorMoves DEF GeneratorSteps
  <2>2. gen[<<r, a, p>>].step # "idle" /\ place' = place
    BY <1>3, GeneratorMoves DEF GeneratorSteps
  <2>3. \A q \in Runs, b \in 1 .. MAX_ATTEMPTS : Live(q, b)' \subseteq Live(q, b)
    BY <2>1, <2>2 DEF Live, Generators, TypeInv, TypeOK
  <2>4. \A q \in Runs, b \in 1 .. MAX_ATTEMPTS : Gathers(q, b)' <=> Gathers(q, b)
    BY <2>2 DEF place, Gathers, At
  <2> QED
    BY <1>0, <2>3, <2>4 DEF LedgerInv, Strays
<1> QED
  BY <1>1, <1>2, <1>3, WhoMoves, StraysOfRun

\* The only way to the check is through _persist_responses.
LEMMA CheckedOfRun ==
    ASSUME TypeInv, NEW r \in Runs, RunMoves(r), At(r, "run_probe", "check")'
    PROVE  Persist(r)
<1>1. step' \in [Runs -> Steps] /\ step'[r] = "check"
  BY TypeInvStep, WhoMoves DEF TypeInv, TypeOK, Steps, At
<1>2. ~Retry(r) /\ ~Raise(r)
  BY <1>1, RetryTyped DEF Raise
<1>3. \A x \in Steps \ {"check"} : ~Goto(r, x)
  BY <1>1 DEF Goto, TypeInv, TypeOK
<1>4. ~(LookUpPool(r) \/ StorePool(r) \/ NoPool(r) \/ Gather(r) \/ LoadPool(r) \/ AskSwarm(r))
  BY <1>2, <1>3 DEF LookUpPool, StorePool, NoPool, Gather, LoadPool, AskSwarm, Steps
<1>5. ~(CheckDone(r) \/ StatementFails(r) \/ WorkerLost(r))
  BY <1>2, <1>3 DEF CheckDone, StatementFails, WorkerLost, Steps
<1>6. ~AnotherFails(r)
  BY <1>1 DEF AnotherFails, At, place
<1>7. ~Advance(r)
  BY <1>1, <1>2 DEF Advance, TypeInv, TypeOK
<1>8. \A q \in Questions : ~GatherRaises(r, q)
  BY <1>2 DEF GatherRaises
<1> QED
  BY <1>4, <1>5, <1>6, <1>7, <1>8 DEF RunMoves

LEMMA CheckedStep ==
    ASSUME TypeInv, LedgerInv, Next
    PROVE  Checked'
<1> SUFFICES ASSUME NEW q \in Runs, At(q, "run_probe", "check")', (Session(q) \in holding)'
             PROVE  answers'[q] = {}
  BY DEF Checked
<1>1. ASSUME UNCHANGED place, answers'[q] = answers[q], Session(q) \in holding
      PROVE  answers'[q] = {}
  BY <1>1 DEF LedgerInv, Checked, At, place
<1>2. ASSUME NEW r \in Runs, RunMoves(r)
      PROVE  answers'[q] = {}
  <2>1. CASE r = q
    <3>1. Persist(q)
      BY <1>2, <2>1, CheckedOfRun
    <3>2. Session(q) \in Sessions /\ Session(q)' = Session(q) /\ answers'[q] = answers[q]
      BY <3>1, SessionTyped DEF Persist, Goto, Session, memory
    <3>3. ~Commit(Session(q))
      BY <3>2, CommitLosesNothing
    <3> QED
      BY <3>1, <3>2, <3>3 DEF Persist
  <2>2. CASE r # q
    <3>1. /\ At(q, "run_probe", "check") /\ Session(q)' = Session(q) /\ answers'[q] = answers[q]
      BY <1>2, <2>2, RunActs DEF At, Session
    <3>2. Session(q) \in Sessions /\ Session(r) \in Sessions /\ Session(q) # Session(r)
      BY <2>2, SessionTyped DEF Session
    <3>3. Session(q) \in holding
      BY <1>2, <3>1, <3>2, RunActs, BookMoves DEF money
    <3> QED
      BY <3>1, <3>3 DEF LedgerInv, Checked
  <2> QED
    BY <2>1, <2>2
<1>3. ASSUME NEW t \in Annotated, EditWords(t)
      PROVE  answers'[q] = {}
  BY <1>1, <1>3 DEF EditWords, place, memory, money, Session
<1>4. ASSUME NEW r \in Runs, NEW a \in 1 .. MAX_ATTEMPTS, UNCHANGED <<place, answers>>,
             UNCHANGED money \/ \E paid, fate : Book(Paraphrasing(r, a), paid, fate)
      PROVE  answers'[q] = {}
  <2>1. Session(q)' = Session(q) /\ stage[q] = "run_probe"
    BY <1>4 DEF place, Session, At
  <2>2. /\ Session(q) \in Sessions /\ Paraphrasing(r, a) \in Sessions
        /\ Session(q) # Paraphrasing(r, a)
    BY <2>1, SessionTyped, ParaphrasingTyped DEF Session, Paraphrasing
  <2>3. Session(q) \in holding
    BY <1>4, <2>1, <2>2, BookMoves DEF money
  <2> QED
    BY <1>1, <1>4, <2>3
<1>5. ASSUME NEW r \in Runs, NEW a \in 1 .. MAX_ATTEMPTS, StraysLost(r, a)
      PROVE  answers'[q] = {}
  BY <1>4, <1>5 DEF StraysLost, Close, memory
<1>6. ASSUME NEW r \in Runs, NEW a \in 1 .. MAX_ATTEMPTS, NEW p \in Questions,
             GeneratorSteps(r, a, p)
      PROVE  answers'[q] = {}
  BY <1>4, <1>6, GeneratorMoves DEF GeneratorSteps, memory
<1> QED
  BY <1>2, <1>3, <1>5, <1>6, WhoMoves

LEMMA LedgerStep ==
    ASSUME TypeInv, LedgerInv, [Next]_vars
    PROVE  LedgerInv'
<1>1. CASE Next
  BY <1>1, GapStep, StraysStep, CheckedStep DEF LedgerInv
<1>2. CASE UNCHANGED vars
  BY <1>2
  DEF vars, place, memory, money, marks, LedgerInv, LedgerGap, Strays, Checked, Disturbed, Live,
      Gathers, At, Session
<1> QED
  BY <1>1, <1>2

LEMMA LedgerInit == Init => LedgerInv
<1> SUFFICES ASSUME Init PROVE LedgerInv
  OBVIOUS
<1>1. LedgerGap /\ Checked
  BY DEF Init, LedgerGap, Checked
<1>2. Strays
  BY DEF Init, Strays, Live, Generators, Idle, Gets
<1> QED
  BY <1>1, <1>2 DEF LedgerInv

\* Every paid call of a run is in the ledger, or in a session that is still to commit,
\* unless the run lost a worker or a statement, one of its generators raised while
\* others went on, or all answers of its probe were useless.
THEOREM LedgerAccounts == Spec => []LedgerGap
<1>1. Spec => [](TypeInv /\ LedgerInv)
  BY TypeInvInit, TypeInvStep, LedgerInit, LedgerStep, PTL DEF Spec
<1>2. LedgerInv => LedgerGap
  BY DEF LedgerInv
<1> QED
  BY <1>1, <1>2, PTL
===============================================================================
