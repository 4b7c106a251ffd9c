---------------------------- MODULE LlmClientProofs ----------------------------
(***************************************************************************)
(* Theorems about LlmClient and its circuit breaker, for every window      *)
(* size, threshold, number of probes, cool-down, and number of calls.      *)
(***************************************************************************)
EXTENDS LlmClient, TLAPS

-----------------------------------------------------------------------------
(* The window *)

\* The window keeps its bound, ends with the new outcome, and what was at most
\* WINDOW_SIZE - 1 outcomes from its end is one outcome further from it.
LEMMA PushedWindow ==
    ASSUME BreakerTypeOK, NEW ok \in BOOLEAN
    PROVE  /\ Pushed(ok) \in Seq(BOOLEAN)
           /\ Len(Pushed(ok)) \in 1 .. WINDOW_SIZE
           /\ Pushed(ok)[Len(Pushed(ok))] = ok
           /\ \A d \in Nat : d < Len(window) /\ d < WINDOW_SIZE - 1 =>
                 /\ d + 1 < Len(Pushed(ok))
                 /\ Pushed(ok)[Len(Pushed(ok)) - (d + 1)] = window[Len(window) - d]
<1> USE BreakerAssumption DEF BreakerTypeOK
<1>1. window \in Seq(BOOLEAN) /\ Len(window) \in 0 .. WINDOW_SIZE
  OBVIOUS
<1>2. CASE Len(window) < WINDOW_SIZE
  <2>1. Pushed(ok) = Append(window, ok)
    BY <1>2 DEF Pushed
  <2> QED
    BY <1>1, <1>2, <2>1
<1>3. CASE Len(window) = WINDOW_SIZE
  <2>1. Pushed(ok) = Append(Tail(window), ok)
    BY <1>3 DEF Pushed
  <2>2. /\ Tail(window) \in Seq(BOOLEAN)
        /\ Len(Tail(window)) = WINDOW_SIZE - 1
        /\ \A i \in 1 .. WINDOW_SIZE - 1 : Tail(window)[i] = window[i + 1]
    BY <1>1, <1>3
  <2>3. /\ Pushed(ok) \in Seq(BOOLEAN)
        /\ Len(Pushed(ok)) = WINDOW_SIZE
        /\ Pushed(ok)[WINDOW_SIZE] = ok
        /\ \A i \in 1 .. WINDOW_SIZE - 1 : Pushed(ok)[i] = Tail(window)[i]
    BY <2>1, <2>2
  <2>4. ASSUME NEW d \in Nat, d < WINDOW_SIZE - 1
        PROVE  Pushed(ok)[WINDOW_SIZE - (d + 1)] = window[WINDOW_SIZE - d]
    <3> DEFINE i == WINDOW_SIZE - (d + 1)
    <3>1. i \in 1 .. WINDOW_SIZE - 1 /\ i + 1 = WINDOW_SIZE - d
      BY <2>4
    <3> QED
      BY <2>2, <2>3, <3>1
  <2> QED
    BY <1>1, <1>3, <2>3, <2>4
<1> QED
  BY <1>1, <1>2, <1>3

-----------------------------------------------------------------------------
(* The breaker *)

\* The part of ProbesAreRecent about the outcomes themselves.
ProbesRecorded ==
    /\ state # "half_open" => outcomes = <<>>
    /\ Len(outcomes) < HALF_OPEN_PROBES
    /\ Len(outcomes) <= Len(window)
    /\ \A d \in 0 .. Len(outcomes) - 1 :
          outcomes[Len(outcomes) - d] /\ window[Len(window) - d]

BreakerInv == BreakerTypeOK /\ ProbesRecorded /\ TripNotMissed

LEMMA RecordedIsRecent ==
    ASSUME BreakerTypeOK
    PROVE  ProbesRecorded <=> ProbesAreRecent
<1>1. outcomes \in Seq(BOOLEAN) /\ window \in Seq(BOOLEAN)
  BY DEF BreakerTypeOK
<1>2. ASSUME ProbesRecorded, NEW i \in 1 .. Len(outcomes)
      PROVE  outcomes[i] /\ window[Len(window) - Len(outcomes) + i]
  <2> DEFINE d == Len(outcomes) - i
  <2>1. d \in 0 .. Len(outcomes) - 1
    BY <1>1, <1>2
  <2>2. outcomes[Len(outcomes) - d] /\ window[Len(window) - d]
    BY <1>2, <2>1 DEF ProbesRecorded
  <2>3. Len(outcomes) - d = i /\ Len(window) - d = Len(window) - Len(outcomes) + i
    BY <1>1, <1>2
  <2> QED
    BY <2>2, <2>3
<1>3. ASSUME ProbesAreRecent, NEW d \in 0 .. Len(outcomes) - 1
      PROVE  outcomes[Len(outcomes) - d] /\ window[Len(window) - d]
  <2> DEFINE i == Len(outcomes) - d
  <2>1. i \in 1 .. Len(outcomes)
    BY <1>1, <1>3
  <2>2. outcomes[i] /\ window[Len(window) - Len(outcomes) + i]
    BY <1>3, <2>1 DEF ProbesAreRecent
  <2>3. Len(window) - Len(outcomes) + i = Len(window) - d
    BY <1>1, <1>3
  <2> QED
    BY <2>2, <2>3
<1> QED
  BY <1>2, <1>3 DEF ProbesRecorded, ProbesAreRecent

LEMMA BeforeCallKeeps == BreakerInv /\ BeforeCall => BreakerInv'
  BY BreakerAssumption
  DEF BreakerInv, BreakerTypeOK, ProbesRecorded, TripNotMissed, Tripping, BeforeCall

LEMMA TickKeeps == BreakerInv /\ Tick => BreakerInv'
  BY BreakerAssumption
  DEF BreakerInv, BreakerTypeOK, ProbesRecorded, TripNotMissed, Tripping, Tick

LEMMA SuccessKeeps == BreakerInv /\ RecordSuccess => BreakerInv'
<1> SUFFICES ASSUME BreakerInv, RecordSuccess PROVE BreakerInv'
  OBVIOUS
<1> USE BreakerAssumption
<1>1. window' = Pushed(TRUE) /\ waited' = waited
  BY DEF RecordSuccess
<1>2. /\ window' \in Seq(BOOLEAN) /\ Len(window') \in 1 .. WINDOW_SIZE
      /\ window'[Len(window')]
      /\ \A d \in Nat : d < Len(window) /\ d < WINDOW_SIZE - 1 =>
            /\ d + 1 < Len(window')
            /\ window'[Len(window') - (d + 1)] = window[Len(window) - d]
  BY <1>1, PushedWindow DEF BreakerInv
<1>3. /\ state \in {"closed", "open", "half_open"} /\ outcomes \in Seq(BOOLEAN)
      /\ waited \in 0 .. COOL_DOWN
  BY DEF BreakerInv, BreakerTypeOK
<1>4. /\ state' = state \/ state' = "closed"
      /\ \/ outcomes' = outcomes
         \/ outcomes' = <<>>
         \/ outcomes' = Append(outcomes, TRUE)
  BY Zenon DEF RecordSuccess
<1>5. BreakerTypeOK'
  <2>1. <<>> \in Seq(BOOLEAN) /\ Append(outcomes, TRUE) \in Seq(BOOLEAN)
    BY <1>3
  <2>2. state' \in {"closed", "open", "half_open"} /\ outcomes' \in Seq(BOOLEAN)
    BY <1>3, <1>4, <2>1, Zenon
  <2>3. waited' \in 0 .. COOL_DOWN
    BY <1>1, <1>3
  <2>4. Len(window') <= WINDOW_SIZE
    BY <1>2
  <2> QED
    BY <1>2, <2>2, <2>3, <2>4, Zenon DEF BreakerTypeOK
<1>6. TripNotMissed'
  BY <1>2 DEF TripNotMissed
<1>7. ProbesRecorded'
  <2>1. CASE state # "half_open" \/ Recovered(Append(outcomes, TRUE))
    <3>1. outcomes' = <<>>
      <4>1. CASE state # "half_open"
        BY <4>1, Zenon DEF BreakerInv, ProbesRecorded, RecordSuccess
      <4>2. CASE state = "half_open" /\ Recovered(Append(outcomes, TRUE))
        BY <4>2, Zenon DEF RecordSuccess
      <4> QED
        BY <2>1, <4>1, <4>2
    <3>2. Len(outcomes') = 0
      BY <3>1
    <3> QED
      BY <1>2, <3>1, <3>2 DEF ProbesRecorded
  <2>2. CASE state = "half_open" /\ ~Recovered(Append(outcomes, TRUE))
    <3>1. outcomes' = Append(outcomes, TRUE) /\ state' = state
      BY <2>2 DEF RecordSuccess
    <3>2. \A i \in DOMAIN outcomes' : outcomes'[i]
      <4>1. \A i \in 1 .. Len(outcomes) : outcomes[i]
        BY <1>3, RecordedIsRecent DEF BreakerInv, ProbesAreRecent
      <4> QED
        BY <1>3, <3>1, <4>1
    <3>3. Len(outcomes') = Len(outcomes) + 1 /\ Len(outcomes') < HALF_OPEN_PROBES
      BY <1>3, <2>2, <3>1, <3>2 DEF Recovered
    <3>4. Len(outcomes) <= Len(window) /\ Len(outcomes) < WINDOW_SIZE - 1
      BY <1>3, <3>3 DEF BreakerInv, ProbesRecorded
    <3>5. Len(window) \in Nat
      BY DEF BreakerInv, BreakerTypeOK
    <3>6. Len(outcomes') <= Len(window')
      <4>1. CASE Len(outcomes) = 0
        BY <1>2, <3>3, <4>1
      <4>2. CASE Len(outcomes) # 0
        BY <1>2, <1>3, <3>3, <3>4, <3>5, <4>2
      <4> QED
        BY <4>1, <4>2
    <3>7. ASSUME NEW d \in 0 .. Len(outcomes') - 1
          PROVE  outcomes'[Len(outcomes') - d] /\ window'[Len(window') - d]
      <4>1. outcomes'[Len(outcomes') - d]
        BY <1>3, <3>1, <3>2, <3>3
      <4>2. CASE d = 0
        BY <1>2, <4>1, <4>2
      <4>3. CASE d # 0
        <5>1. /\ d - 1 \in 0 .. Len(outcomes) - 1 /\ d - 1 \in Nat
              /\ d - 1 < Len(window) /\ d - 1 < WINDOW_SIZE - 1
              /\ (d - 1) + 1 = d
          BY <1>3, <3>3, <3>4, <3>5, <4>3
        <5>2. window'[Len(window') - d] = window[Len(window) - (d - 1)]
          BY <1>2, <5>1
        <5>3. window[Len(window) - (d - 1)]
          BY <5>1 DEF BreakerInv, ProbesRecorded
        <5> QED
          BY <4>1, <5>2, <5>3
      <4> QED
        BY <4>2, <4>3
    <3> QED
      BY <2>2, <3>1, <3>3, <3>6, <3>7 DEF ProbesRecorded
  <2> QED
    BY <2>1, <2>2
<1> QED
  BY <1>5, <1>6, <1>7 DEF BreakerInv

LEMMA FailureKeeps == BreakerInv /\ RecordFailure => BreakerInv'
<1> SUFFICES ASSUME BreakerInv, RecordFailure PROVE BreakerInv'
  OBVIOUS
<1> USE BreakerAssumption
<1>1. window' \in Seq(BOOLEAN) /\ Len(window') \in 1 .. WINDOW_SIZE
  BY PushedWindow DEF BreakerInv, RecordFailure
<1>2. CASE state = "half_open" \/ Tripping(window')
  <2>1. state' = "open" /\ waited' = 0 /\ outcomes' = <<>>
    BY <1>2, Zenon DEF RecordFailure, Open
  <2>2. BreakerTypeOK'
    <3>1. outcomes' \in Seq(BOOLEAN) /\ waited' \in 0 .. COOL_DOWN
      BY <2>1
    <3>2. Len(window') <= WINDOW_SIZE
      BY <1>1
    <3> QED
      BY <1>1, <2>1, <3>1, <3>2, Zenon DEF BreakerTypeOK
  <2>3. ProbesRecorded'
    <3>1. Len(outcomes') = 0
      BY <2>1
    <3> QED
      BY <1>1, <2>1, <3>1 DEF ProbesRecorded
  <2> QED
    BY <2>1, <2>2, <2>3 DEF BreakerInv, TripNotMissed
<1>3. CASE ~(state = "half_open" \/ Tripping(window'))
  <2>1. UNCHANGED <<state, outcomes, waited>>
    BY <1>3 DEF RecordFailure
  <2>2. TripNotMissed'
    BY <1>3 DEF TripNotMissed, Tripping
  <2> QED
    BY <1>1, <1>3, <2>1, <2>2 DEF BreakerInv, BreakerTypeOK, ProbesRecorded
<1> QED
  BY <1>2, <1>3

-----------------------------------------------------------------------------
(* The client *)

\* Only a call with tries left sleeps.
ClientInv ==
    /\ TypeOK /\ BreakerInv
    /\ \A c \in Calls : phase[c] = "sleeping" => tries[c] < MAX_TRIES

LEMMA InitClient == Init => ClientInv
<1> SUFFICES ASSUME Init PROVE ClientInv
  OBVIOUS
<1> USE BreakerAssumption, ClientAssumption
<1>1. /\ state = "closed" /\ window = <<>> /\ outcomes = <<>> /\ waited = COOL_DOWN
  BY DEF Init, BreakerInit
<1>2. BreakerInv
  BY <1>1 DEF BreakerInv, BreakerTypeOK, ProbesRecorded, TripNotMissed, Tripping
<1> QED
  BY <1>2 DEF ClientInv, TypeOK, BreakerInv, Init

LEMMA StepClient == ClientInv /\ [Next]_vars => ClientInv'
<1> SUFFICES ASSUME ClientInv, [Next]_vars PROVE ClientInv'
  OBVIOUS
<1> USE BreakerAssumption, ClientAssumption DEF ClientInv
<1>0. ASSUME UNCHANGED breaker PROVE BreakerInv'
  BY <1>0
  DEF breaker, BreakerInv, BreakerTypeOK, ProbesRecorded, TripNotMissed, Tripping
<1>1. ASSUME NEW c \in Calls, Begin(c) PROVE ClientInv'
  BY <1>1, BeforeCallKeeps DEF Begin, Move, TypeOK, BreakerInv
<1>2. ASSUME NEW c \in Calls, Start(c) PROVE ClientInv'
  BY <1>0, <1>2 DEF Start, Move, TypeOK, BreakerInv
<1>3. ASSUME NEW c \in Calls, Succeed(c) PROVE ClientInv'
  BY <1>3, SuccessKeeps DEF Succeed, Finish, Move, TypeOK, BreakerInv
<1>4. ASSUME NEW c \in Calls, Fail(c) PROVE ClientInv'
  BY <1>4, FailureKeeps DEF Fail, Finish, Move, TypeOK, BreakerInv
<1>5. ASSUME NEW c \in Calls, Abort(c) PROVE ClientInv'
  BY <1>0, <1>5 DEF Abort, Finish, Move, TypeOK, BreakerInv
<1>6. ASSUME NEW c \in Calls, Resend(c) PROVE ClientInv'
  BY <1>0, <1>6 DEF Resend, Move, TypeOK, BreakerInv
<1>7. CASE Time
  BY <1>7, TickKeeps DEF Time, TypeOK, BreakerInv
<1>8. CASE Turn
  BY <1>0, <1>8 DEF Turn, TypeOK, BreakerInv
<1>9. CASE UNCHANGED vars
  BY <1>0, <1>9 DEF vars, TypeOK, BreakerInv
<1> QED
  BY <1>1, <1>2, <1>3, <1>4, <1>5, <1>6, <1>7, <1>8, <1>9 DEF Next

\* No call sends more requests than the retry policy allows, and the window
\* never outgrows its size.
THEOREM ClientTyping == Spec => []TypeOK
<1>1. ClientInv => TypeOK
  BY DEF ClientInv
<1> QED
  BY <1>1, InitClient, StepClient, PTL DEF Spec

\* Whatever calls are in flight, the outcomes a half-open circuit counts are its
\* latest ones, all successes, and fewer than it takes to close it.
THEOREM RecentProbes == Spec => []ProbesAreRecent
<1>1. ClientInv => ProbesAreRecent
  BY RecordedIsRecent DEF ClientInv, BreakerInv
<1> QED
  BY <1>1, InitClient, StepClient, PTL DEF Spec

\* A closed circuit is never left over a window that calls for tripping by a
\* failure: for every interleaving of late answers with the opening.
THEOREM TripsAreTaken == Spec => []TripNotMissed
<1>1. ClientInv => TripNotMissed
  BY DEF ClientInv, BreakerInv
<1> QED
  BY <1>1, InitClient, StepClient, PTL DEF Spec
==============================================================================
