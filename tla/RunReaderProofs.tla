---------------------------- MODULE RunReaderProofs ----------------------------
(***************************************************************************)
(* Theorems about RunReader, for any number of changes of the row and of   *)
(* lost connections.                                                       *)
(***************************************************************************)
EXTENDS RunReader, TLAPS

-----------------------------------------------------------------------------
(* Requests for the report *)

Fetches == [Reasons \X Stages -> Nat]

\* Requests that may still bring the report because the run was seen completed.
Hope == fetch[<<"completed", "sent">>] + fetch[<<"completed", "found">>]

LEMMA SentTyped ==
    ASSUME fetch \in Fetches, NEW why \in Reasons
    PROVE  /\ Sent(why) \in Fetches
           /\ Sent(why)[<<"completed", "found">>] = fetch[<<"completed", "found">>]
           /\ Sent(why)[<<"completed", "sent">>] >= fetch[<<"completed", "sent">>]
           /\ why = "completed" => Sent(why)[<<"completed", "sent">>] > 0
<1>1. <<why, "sent">> \in Reasons \X Stages /\ <<"completed", "sent">> \in Reasons \X Stages
      /\ <<"completed", "found">> \in Reasons \X Stages
  BY DEF Reasons, Stages
<1>2. fetch[<<why, "sent">>] \in Nat /\ fetch[<<"completed", "sent">>] \in Nat
  BY <1>1 DEF Fetches
<1> QED
  BY <1>1, <1>2 DEF Sent, Fetches

LEMMA AnsweredTyped ==
    ASSUME fetch \in Fetches, NEW why \in Reasons, NEW stage \in Stages, Answered(why, stage)
    PROVE  /\ fetch' \in Fetches
           /\ stage = "missing" => Hope' = Hope
<1>1. <<why, stage>> \in Reasons \X Stages /\ <<"completed", "sent">> \in Reasons \X Stages
      /\ <<"completed", "found">> \in Reasons \X Stages
  BY DEF Reasons, Stages
<1>2. fetch[<<why, stage>>] - 1 \in Nat
  BY <1>1 DEF Answered, Fetches
<1> QED
  BY <1>1, <1>2 DEF Answered, Fetches, Hope

LEMMA ReadReportTyped ==
    ASSUME fetch \in Fetches, NEW why \in Reasons, ReadReport(why)
    PROVE  /\ fetch' \in Fetches
           /\ Hope' = Hope \/ "withdrawn" \in excuses'
           /\ excuses' \in {excuses, excuses \cup {"withdrawn"}}
<1> DEFINE found == IF reported THEN "found" ELSE "missing"
<1>1. /\ fetch[<<why, "sent">>] > 0
      /\ fetch' = [fetch EXCEPT ![<<why, "sent">>] = fetch[<<why, "sent">>] - 1,
                                ![<<why, found>>] = fetch[<<why, found>>] + 1]
  BY DEF ReadReport
<1>2. /\ <<why, "sent">> \in Reasons \X Stages /\ <<why, found>> \in Reasons \X Stages
      /\ <<"completed", "sent">> \in Reasons \X Stages
      /\ <<"completed", "found">> \in Reasons \X Stages
  BY DEF Reasons, Stages
<1>3. fetch[<<why, "sent">>] - 1 \in Nat /\ fetch[<<why, found>>] + 1 \in Nat
  BY <1>1, <1>2 DEF Fetches
<1>4. fetch' \in Fetches
  BY <1>1, <1>3 DEF Fetches
<1>5. excuses' = IF why = "completed" /\ ~reported
                 THEN excuses \cup {"withdrawn"} ELSE excuses
  BY DEF ReadReport
<1>6. CASE why = "completed" /\ ~reported
  BY <1>4, <1>5, <1>6
<1>7. CASE why = "completed" /\ reported
  <2>1. /\ fetch'[<<"completed", "sent">>] = fetch[<<"completed", "sent">>] - 1
        /\ fetch'[<<"completed", "found">>] = fetch[<<"completed", "found">>] + 1
    BY <1>1, <1>2, <1>7 DEF Fetches
  <2>2. fetch[<<"completed", "sent">>] \in Nat /\ fetch[<<"completed", "found">>] \in Nat
    BY <1>2 DEF Fetches
  <2> QED
    BY <1>4, <1>5, <1>7, <2>1, <2>2 DEF Hope
<1>8. CASE why # "completed"
  BY <1>1, <1>2, <1>4, <1>5, <1>8 DEF Fetches, Hope
<1> QED
  BY <1>6, <1>7, <1>8

-----------------------------------------------------------------------------
(* Types, and why a page stops listening *)

Pages == [shown : BOOLEAN, run : RunStatuses \cup {"none"},
          query : RunStatuses \cup {"sent", "over"},
          source : {"connecting", "open", "closed"}]
Wires == [live : {"off", "on", "over"}, last : RunStatuses \cup {"none"},
          events : Seq(RunStatuses)]
Excuses == {"withdrawn", "broken", "failed"}

LEMMA FreshTyped == NoWire \in Wires /\ Mounted \in Pages /\ Unmounted \in Pages
<1>1. <<>> \in Seq(RunStatuses)
  OBVIOUS
<1> QED
  BY <1>1 DEF NoWire, Wires, Mounted, Unmounted, Pages

LEMMA TypeByParts ==
    ASSUME TypeOK, status' \in RunStatuses, reported' \in BOOLEAN,
           moves' \in 0 .. MaxMoves, drops' \in 0 .. MaxDrops,
           page' \in Pages, wire' \in Wires, fetch' \in Fetches, excuses' \subseteq Excuses
    PROVE  TypeOK'
  BY DEF TypeOK, Pages, Wires, Fetches, Excuses

LEMMA PartsOfType ==
    ASSUME TypeOK
    PROVE  /\ status \in RunStatuses /\ reported \in BOOLEAN
           /\ moves \in 0 .. MaxMoves /\ drops \in 0 .. MaxDrops
           /\ page \in Pages /\ wire \in Wires /\ fetch \in Fetches /\ excuses \subseteq Excuses
  BY DEF TypeOK, Pages, Wires, Fetches, Excuses

\* Hope and the cause of StopsForACause, with the sum under its name.
LEMMA CauseByHope ==
    StopsForACause <=> (page.source = "closed" /\ ~page.shown => excuses # {} \/ Hope > 0)
  BY DEF StopsForACause, Hope

ReaderInv == TypeOK /\ StopsForACause

LEMMA ReaderInit == Init => ReaderInv
<1> SUFFICES ASSUME Init PROVE ReaderInv
  OBVIOUS
<1>1. fetch \in Fetches
  BY DEF Init, Fetches
<1>2. TypeOK
  BY <1>1, FreshTyped, ReaderAssumption DEF Init, TypeOK, Pages, Wires, Fetches
<1>3. StopsForACause
  BY DEF Init, StopsForACause, Mounted
<1> QED
  BY <1>2, <1>3 DEF ReaderInv

\* The row, the report and the answers to requests for it.
LEMMA ReportStep ==
    ASSUME ReaderInv,
           \/ RowMoves
           \/ \E why \in Reasons : ReadReport(why) \/ ShowReport(why)
                                      \/ MissReport(why) \/ ReportBreaks(why)
    PROVE  ReaderInv'
<1> USE PartsOfType, CauseByHope DEF ReaderInv
<1>1. CASE RowMoves
  <2>1. {"pending", "completed"} \subseteq RunStatuses
    BY DEF RunStatuses, ActiveStatuses, TerminalStatuses
  <2>2. RowNext /\ status \in RunStatuses /\ reported \in BOOLEAN
    BY <1>1 DEF RowMoves
  <2>3. status' \in RunStatuses
    BY <2>1, <2>2 DEF RowNext, Insert, Move, Complete, Store, Withdraw
  <2>4. reported' \in BOOLEAN
    BY <2>2, Zenon DEF RowNext, Insert, Move, Complete, Store, Withdraw
  <2>5. moves' \in 0 .. MaxMoves
    BY <1>1, ReaderAssumption DEF RowMoves
  <2> QED
    BY <1>1, <2>3, <2>4, <2>5, TypeByParts DEF RowMoves, StopsForACause
<1>2. ASSUME NEW why \in Reasons, ReadReport(why)
      PROVE  ReaderInv'
  <2>1. UNCHANGED <<row, moves, drops, page, wire>>
    BY <1>2 DEF ReadReport
  <2>2. fetch' \in Fetches /\ (Hope' = Hope \/ "withdrawn" \in excuses')
        /\ excuses' \in {excuses, excuses \cup {"withdrawn"}}
    BY <1>2, ReadReportTyped
  <2>3. excuses' \subseteq Excuses /\ (excuses # {} => excuses' # {})
    BY <2>2 DEF Excuses
  <2>4. TypeOK'
    BY <2>1, <2>2, <2>3, TypeByParts DEF row
  <2>5. page.source = "closed" /\ ~page.shown => excuses' # {} \/ Hope' > 0
    BY <2>2, <2>3
  <2>6. StopsForACause'
    BY <2>1, <2>5 DEF StopsForACause, Hope
  <2> QED
    BY <2>4, <2>6
<1>3. ASSUME NEW why \in Reasons, ShowReport(why)
      PROVE  ReaderInv'
  <2>1. /\ page' = Unmounted /\ wire' = NoWire /\ excuses' = {}
        /\ UNCHANGED <<row, moves, drops>>
    BY <1>3 DEF ShowReport
  <2>2. fetch' \in Fetches
    BY <1>3, AnsweredTyped DEF ShowReport, Stages
  <2>3. TypeOK'
    BY <2>1, <2>2, FreshTyped, TypeByParts DEF row
  <2>4. StopsForACause'
    BY <2>1 DEF StopsForACause, Unmounted
  <2> QED
    BY <2>3, <2>4
<1>4. ASSUME NEW why \in Reasons, MissReport(why)
      PROVE  ReaderInv'
  <2>1. /\ page' = IF page.shown THEN Mounted ELSE page
        /\ UNCHANGED <<row, moves, drops, wire, excuses>>
    BY <1>4 DEF MissReport
  <2>2. fetch' \in Fetches /\ Hope' = Hope
    BY <1>4, AnsweredTyped DEF MissReport, Stages
  <2>3. TypeOK'
    BY <2>1, <2>2, FreshTyped, TypeByParts DEF row
  <2>4. page'.source = "closed" => page' = page
    BY <2>1 DEF Mounted
  <2>5. page'.source = "closed" /\ ~page'.shown => excuses' # {} \/ Hope' > 0
    BY <2>1, <2>2, <2>4
  <2>6. StopsForACause'
    BY <2>5 DEF StopsForACause, Hope
  <2> QED
    BY <2>3, <2>6
<1>5. ASSUME NEW why \in Reasons, ReportBreaks(why)
      PROVE  ReaderInv'
  <2>1. excuses' = excuses \cup {"broken"} /\ UNCHANGED <<row, moves, drops, page, wire>>
    BY <1>5 DEF ReportBreaks
  <2>2. fetch' \in Fetches
    BY <1>5, AnsweredTyped DEF ReportBreaks, Stages
  <2>3. excuses' \subseteq Excuses /\ excuses' # {}
    BY <2>1 DEF Excuses
  <2>4. TypeOK'
    BY <2>1, <2>2, <2>3, TypeByParts DEF row
  <2>5. StopsForACause'
    BY <2>3 DEF StopsForACause
  <2> QED
    BY <2>4, <2>5
<1> QED
  BY <1>1, <1>2, <1>3, <1>4, <1>5

\* The answer to getRun.
LEMMA RunStep ==
    ASSUME ReaderInv, ReadRun \/ AnswerRun \/ RunBreaks
    PROVE  ReaderInv'
<1> USE PartsOfType, CauseByHope DEF ReaderInv
<1>1. CASE ReadRun
  <2>1. page' = [page EXCEPT !.query = status]
        /\ UNCHANGED <<row, moves, drops, wire, fetch, excuses>>
    BY <1>1 DEF ReadRun
  <2>2. page' \in Pages /\ page'.source = page.source /\ page'.shown = page.shown
    BY <2>1 DEF Pages
  <2> QED
    BY <2>1, <2>2, TypeByParts DEF row, StopsForACause
<1>2. CASE AnswerRun
  <2>1. /\ page.query \in RunStatuses
        /\ page' = [page EXCEPT !.run = page.query, !.query = "over"]
        /\ fetch' = IF page.query = "completed" THEN Sent("completed") ELSE fetch
        /\ UNCHANGED <<row, moves, drops, wire, excuses>>
    BY <1>2 DEF AnswerRun
  <2>2. page' \in Pages /\ page'.source = page.source /\ page'.shown = page.shown
    BY <2>1 DEF Pages
  <2>3. "completed" \in Reasons /\ <<"completed", "sent">> \in Reasons \X Stages
        /\ <<"completed", "found">> \in Reasons \X Stages
    BY DEF Reasons, Stages
  <2>4. fetch' \in Fetches /\ Hope' >= Hope
    BY <2>1, <2>3, SentTyped DEF Hope, Fetches
  <2>5. TypeOK'
    BY <2>1, <2>2, <2>4, TypeByParts DEF row
  <2>6. Hope \in Nat /\ Hope' \in Nat
    BY <2>3, <2>4 DEF Hope, Fetches
  <2>7. page'.source = "closed" /\ ~page'.shown => excuses' # {} \/ Hope' > 0
    BY <2>1, <2>2, <2>4, <2>6
  <2>8. StopsForACause'
    BY <2>7 DEF StopsForACause, Hope
  <2> QED
    BY <2>5, <2>8
<1>3. CASE RunBreaks
  <2>1. page' = [page EXCEPT !.query = "over"] /\ excuses' = excuses \cup {"broken"}
        /\ UNCHANGED <<row, moves, drops, wire, fetch>>
    BY <1>3 DEF RunBreaks
  <2>2. page' \in Pages /\ excuses' \subseteq Excuses /\ excuses' # {}
    BY <2>1 DEF Pages, Excuses
  <2>3. TypeOK'
    BY <2>1, <2>2, TypeByParts DEF row
  <2>4. StopsForACause'
    BY <2>2 DEF StopsForACause
  <2> QED
    BY <2>3, <2>4
<1> QED
  BY <1>1, <1>2, <1>3

\* The event stream.  An event that closes it is completed, and sends for the
\* report, or failed, and is an excuse.
LEMMA StreamStep ==
    ASSUME ReaderInv, Connect \/ Refused \/ Poll \/ Expire \/ Deliver \/ Reconnect \/ Drop
    PROVE  ReaderInv'
<1> USE PartsOfType, CauseByHope DEF ReaderInv
<1>1. CASE Connect \/ Reconnect \/ Drop
  <2>1. /\ page' \in Pages /\ page'.source # "closed"
        /\ wire' \in Wires /\ drops' \in 0 .. MaxDrops
        /\ UNCHANGED <<row, moves, fetch, excuses>>
    <3>1. page' \in Pages /\ page'.source # "closed"
      BY <1>1 DEF Connect, Reconnect, Drop, Pages
    <3>2. wire' \in Wires
      BY <1>1, FreshTyped DEF Connect, Reconnect, Drop, Wires
    <3>3. drops' \in 0 .. MaxDrops
      BY <1>1, ReaderAssumption DEF Connect, Reconnect, Drop
    <3> QED
      BY <1>1, <3>1, <3>2, <3>3 DEF Connect, Reconnect, Drop
  <2>2. TypeOK'
    BY <2>1, TypeByParts DEF row
  <2>3. StopsForACause'
    BY <2>1 DEF StopsForACause
  <2> QED
    BY <2>2, <2>3
<1>2. CASE Refused
  <2>1. page' = [page EXCEPT !.source = "closed"] /\ excuses' = excuses \cup {"broken"}
        /\ UNCHANGED <<row, moves, drops, wire, fetch>>
    BY <1>2 DEF Refused
  <2>2. page' \in Pages /\ excuses' \subseteq Excuses /\ excuses' # {}
    BY <2>1 DEF Pages, Excuses
  <2>3. TypeOK'
    BY <2>1, <2>2, TypeByParts DEF row
  <2>4. StopsForACause'
    BY <2>2 DEF StopsForACause
  <2> QED
    BY <2>3, <2>4
<1>3. CASE Poll \/ Expire
  <2>1. UNCHANGED <<row, moves, drops, page, fetch, excuses>>
    BY <1>3 DEF Poll, Expire
  <2>2. wire' \in Wires
    BY <1>3 DEF Poll, Expire, AfterPoll, Wires
  <2>3. TypeOK'
    BY <2>1, <2>2, TypeByParts DEF row
  <2>4. StopsForACause'
    BY <2>1 DEF StopsForACause
  <2> QED
    BY <2>3, <2>4
<1>4. CASE Deliver
  <2> DEFINE s == Head(wire.events)
             ends == s \in TerminalStatuses
  <2>1. /\ page.source = "open" /\ wire.events # <<>>
        /\ page' = [page EXCEPT !.run = IF @ = "none" THEN @ ELSE s,
                                !.source = IF ends THEN "closed" ELSE @]
        /\ wire' = IF ends THEN NoWire ELSE [wire EXCEPT !.events = Tail(@)]
        /\ fetch' = IF s = "completed" THEN Sent("completed") ELSE fetch
        /\ excuses' = IF s = "failed" THEN excuses \cup {"failed"} ELSE excuses
        /\ UNCHANGED <<row, moves, drops>>
    BY <1>4 DEF Deliver, AsksForReport
  <2>2. s \in RunStatuses /\ Tail(wire.events) \in Seq(RunStatuses)
    BY <2>1 DEF Wires
  <2> HIDE DEF s
  <2>3. page' \in Pages /\ (page'.source = "closed" => s = "completed" \/ s = "failed")
    BY <2>1, <2>2 DEF Pages, TerminalStatuses
  <2>4. wire' \in Wires
    BY <2>1, <2>2, FreshTyped DEF Wires
  <2>5. "completed" \in Reasons /\ <<"completed", "sent">> \in Reasons \X Stages
        /\ <<"completed", "found">> \in Reasons \X Stages
    BY DEF Reasons, Stages
  <2>6. fetch' \in Fetches /\ (s = "completed" => Hope' > 0)
    BY <2>1, <2>5, SentTyped DEF Hope, Fetches
  <2>7. excuses' \subseteq Excuses /\ (s = "failed" => excuses' # {})
    BY <2>1 DEF Excuses
  <2>8. TypeOK'
    BY <2>1, <2>3, <2>4, <2>6, <2>7, TypeByParts DEF row
  <2>9. StopsForACause'
    BY <2>3, <2>6, <2>7 DEF StopsForACause, Hope
  <2> QED
    BY <2>8, <2>9
<1> QED
  BY <1>1, <1>2, <1>3, <1>4

LEMMA ReaderStep == ReaderInv /\ [Next]_vars => ReaderInv'
<1> SUFFICES ASSUME ReaderInv, [Next]_vars PROVE ReaderInv'
  OBVIOUS
<1>1. CASE UNCHANGED vars
  BY <1>1 DEF vars, row, ReaderInv, TypeOK, StopsForACause
<1> QED
  BY <1>1, ReportStep, RunStep, StreamStep DEF Next

LEMMA ReaderHolds == Spec => []ReaderInv
  BY ReaderInit, ReaderStep, PTL DEF Spec

\* The row, the page, the stream and the requests keep their types: in particular
\* no answer arrives that was not asked for.
THEOREM ReaderTyping == Spec => []TypeOK
<1>1. ReaderInv => TypeOK
  BY DEF ReaderInv
<1> QED
  BY <1>1, ReaderHolds, PTL

\* A page that waits for its report and has closed its stream has sent for the
\* report, or has met an obstacle.
THEOREM ListensOrKnows == Spec => []StopsForACause
<1>1. ReaderInv => StopsForACause
  BY DEF ReaderInv
<1> QED
  BY <1>1, ReaderHolds, PTL
===============================================================================
