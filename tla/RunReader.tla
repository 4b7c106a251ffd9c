------------------------------- MODULE RunReader -------------------------------
(***************************************************************************)
(* One browser tab on /run/[id]: RunPage fetches the report, RunProgress   *)
(* asks for the run and follows the event stream of the API, which polls   *)
(* the row.  The row moves as RunRow allows, whatever the tab does.        *)
(*                                                                         *)
(* Every request has three steps: it is sent, the API reads the tables,    *)
(* the answer arrives; answers of different requests overtake each other.  *)
(* RunProgress is mounted exactly while the page holds no report.          *)
(***************************************************************************)
EXTENDS RunRow, Naturals, Sequences

CONSTANTS
    MaxMoves,   \* bound: changes of the row
    MaxDrops    \* bound: connections lost

ASSUME ReaderAssumption == MaxMoves \in Nat /\ MaxDrops \in Nat

VARIABLES
    moves, drops,   \* how often the row has changed, connections were lost
    page,       \* shown: the page holds the report; run: the status RunProgress holds
                \* ("none": null); query: its getRun; source: its EventSource
    wire,       \* the stream: live, last (last_status), events under way
    fetch,      \* requests for the report, by what they were sent for and their stage
    excuses     \* what this mount of RunProgress has met, see Deliver and the faults

vars == <<row, moves, drops, page, wire, fetch, excuses>>

Reasons == {"mount", "completed"}
Stages == {"sent", "found", "missing"}

NoWire == [live |-> "off", last |-> "none", events |-> <<>>]

Mounted == [shown |-> FALSE, run |-> "none", query |-> "sent", source |-> "connecting"]

Unmounted == [shown |-> TRUE, run |-> "none", query |-> "over", source |-> "closed"]

\* The tab is opened on an existing run; a new one has no report, a completed one has.
Init ==
    /\ status \in RunStatuses /\ reported \in BOOLEAN
    /\ status = "pending" => ~reported
    /\ status = "completed" => reported
    /\ moves = 0 /\ drops = 0
    /\ page = Mounted /\ wire = NoWire /\ excuses = {}
    /\ fetch = [f \in Reasons \X Stages |-> IF f = <<"mount", "sent">> THEN 1 ELSE 0]

RowMoves ==
    /\ moves < MaxMoves /\ moves' = moves + 1
    /\ RowNext /\ row' # row
    /\ UNCHANGED <<drops, page, wire, fetch, excuses>>

-----------------------------------------------------------------------------
(* RunPage: loadReport *)

\* loadReport is called for this reason.
Sent(why) == [fetch EXCEPT ![<<why, "sent">>] = @ + 1]

\* get_run_report
ReadReport(why) ==
    LET found == IF reported THEN "found" ELSE "missing"
    IN  /\ fetch[<<why, "sent">>] > 0
        /\ fetch' = [fetch EXCEPT ![<<why, "sent">>] = @ - 1, ![<<why, found>>] = @ + 1]
        /\ excuses' = IF why = "completed" /\ ~reported
                      THEN excuses \cup {"withdrawn"} ELSE excuses
        /\ UNCHANGED <<row, moves, drops, page, wire>>

\* Mutant: an answer may arrive more than once.
AnsweredAgain(why, stage) == fetch' = [fetch EXCEPT ![<<why, stage>>] = @ - 1]

Answered(why, stage) ==
    /\ fetch[<<why, stage>>] > 0
    /\ fetch' = [fetch EXCEPT ![<<why, stage>>] = @ - 1]

\* setReport(r): RunProgress goes, and closes its source.
ShowReport(why) ==
    /\ Answered(why, "found")
    /\ page' = Unmounted /\ wire' = NoWire /\ excuses' = {}
    /\ UNCHANGED <<row, moves, drops>>

\* setReport(null) on 404: an answer overtaken by a later one takes the report
\* away again, and RunProgress starts anew.
MissReport(why) ==
    /\ Answered(why, "missing")
    /\ page' = IF page.shown THEN Mounted ELSE page
    /\ UNCHANGED <<row, moves, drops, wire, excuses>>

\* Any other error of the request: reportError.
ReportBreaks(why) ==
    /\ Answered(why, "sent")
    /\ excuses' = excuses \cup {"broken"}
    /\ UNCHANGED <<row, moves, drops, page, wire>>

-----------------------------------------------------------------------------
(* RunProgress: getRun *)

\* get_run
ReadRun ==
    /\ page.query = "sent"
    /\ page' = [page EXCEPT !.query = status]
    /\ UNCHANGED <<row, moves, drops, wire, fetch, excuses>>

AnswerRun ==
    /\ page.query \in RunStatuses
    /\ page' = [page EXCEPT !.run = page.query, !.query = "over"]
    /\ fetch' = IF page.query = "completed" THEN Sent("completed") ELSE fetch
    /\ UNCHANGED <<row, moves, drops, wire, excuses>>

\* setError: the phases are not shown any more.
RunBreaks ==
    /\ page.query = "sent"
    /\ page' = [page EXCEPT !.query = "over"]
    /\ excuses' = excuses \cup {"broken"}
    /\ UNCHANGED <<row, moves, drops, wire, fetch>>

-----------------------------------------------------------------------------
(* The event stream *)

Connect ==
    /\ page.source = "connecting"
    /\ page' = [page EXCEPT !.source = "open"]
    /\ wire' = [NoWire EXCEPT !.live = "on"]
    /\ UNCHANGED <<row, moves, drops, fetch, excuses>>

\* An answer other than 200: an EventSource does not try again.
Refused ==
    /\ page.source = "connecting"
    /\ page' = [page EXCEPT !.source = "closed"]
    /\ excuses' = excuses \cup {"broken"}
    /\ UNCHANGED <<row, moves, drops, wire, fetch>>

\* The generator returns after a terminal status.
AfterPoll(s) == IF s \in TerminalStatuses THEN "over" ELSE "on"

\* last_status starts as None: the first poll of a stream always sends.
Sends(s) == wire.last # s

\* One poll of _sse_events that has something to say.
Poll ==
    /\ wire.live = "on" /\ Sends(status)
    /\ wire' = [live |-> AfterPoll(status), last |-> status,
                events |-> Append(wire.events, status)]
    /\ UNCHANGED <<row, moves, drops, page, fetch, excuses>>

\* Mutant: the page closes its source on the event timeout.
ExpireCloses ==
    /\ wire.live = "on" /\ wire.last # "none"
    /\ wire' = NoWire /\ page' = [page EXCEPT !.source = "closed"]
    /\ UNCHANGED <<row, moves, drops, fetch, excuses>>

\* Mutant: a stream has no deadline.
ExpireNever == FALSE /\ UNCHANGED vars

\* Ten minutes are over, with at least one poll behind: the page does not listen
\* to the event timeout.
Expire ==
    /\ wire.live = "on" /\ wire.last # "none"
    /\ wire' = [wire EXCEPT !.live = "over"]
    /\ UNCHANGED <<row, moves, drops, page, fetch, excuses>>

\* Mutant: completed only counts once the run is on the page.
AsksOnceShown(s) == s = "completed" /\ page.run # "none"

AsksForReport(s) == s = "completed"

\* The listener of the event status.
Deliver ==
    LET s == Head(wire.events)
        ends == s \in TerminalStatuses
    IN  /\ page.source = "open" /\ wire.events # <<>>
        /\ page' = [page EXCEPT !.run = IF @ = "none" THEN @ ELSE s,
                                !.source = IF ends THEN "closed" ELSE @]
        /\ wire' = IF ends THEN NoWire ELSE [wire EXCEPT !.events = Tail(@)]
        /\ fetch' = IF AsksForReport(s) THEN Sent("completed") ELSE fetch
        /\ excuses' = IF s = "failed" THEN excuses \cup {"failed"} ELSE excuses
        /\ UNCHANGED <<row, moves, drops>>

\* The stream has ended and was read to its end: the browser connects again.
Reconnect ==
    /\ page.source = "open" /\ wire.live = "over" /\ wire.events = <<>>
    /\ page' = [page EXCEPT !.source = "connecting"]
    /\ wire' = NoWire
    /\ UNCHANGED <<row, moves, drops, fetch, excuses>>

\* The connection is lost with what is under way.
Drop ==
    /\ page.source = "open" /\ drops < MaxDrops
    /\ drops' = drops + 1
    /\ page' = [page EXCEPT !.source = "connecting"]
    /\ wire' = NoWire
    /\ UNCHANGED <<row, moves, fetch, excuses>>

-----------------------------------------------------------------------------
Next ==
    \/ RowMoves
    \/ \E why \in Reasons : \/ ReadReport(why) \/ ShowReport(why)
                            \/ MissReport(why) \/ ReportBreaks(why)
    \/ ReadRun \/ AnswerRun \/ RunBreaks
    \/ Connect \/ Refused \/ Poll \/ Expire \/ Deliver \/ Reconnect \/ Drop

Spec == Init /\ [][Next]_vars

\* Requests are answered or fail, answers arrive, the stream is polled every two
\* seconds, expires after ten minutes and is reconnected by the browser.
FairSpec ==
    /\ Spec
    /\ \A why \in Reasons :
          /\ WF_vars(ReadReport(why) \/ ReportBreaks(why))
          /\ WF_vars(ShowReport(why)) /\ WF_vars(MissReport(why))
    /\ WF_vars(ReadRun \/ RunBreaks) /\ WF_vars(AnswerRun)
    /\ WF_vars(Connect \/ Refused) /\ WF_vars(Poll) /\ WF_vars(Expire)
    /\ WF_vars(Deliver) /\ WF_vars(Reconnect)

-----------------------------------------------------------------------------
(* Properties *)

TypeOK ==
    /\ status \in RunStatuses /\ reported \in BOOLEAN
    /\ moves \in 0 .. MaxMoves /\ drops \in 0 .. MaxDrops
    /\ page \in [shown : BOOLEAN, run : RunStatuses \cup {"none"},
                 query : RunStatuses \cup {"sent", "over"},
                 source : {"connecting", "open", "closed"}]
    /\ wire \in [live : {"off", "on", "over"}, last : RunStatuses \cup {"none"},
                 events : Seq(RunStatuses)]
    /\ fetch \in [Reasons \X Stages -> Nat]
    /\ excuses \subseteq {"withdrawn", "broken", "failed"}

\* A page that waits for a report never stops listening silently: its source is
\* closed only when the report has been asked for and is still to come, or was
\* answered 404, or the run was seen failing, or a request of the page failed.
StopsForACause ==
    page.source = "closed" /\ ~page.shown =>
        \/ excuses # {}
        \/ fetch[<<"completed", "sent">>] + fetch[<<"completed", "found">>] > 0

\* Once a run rests with its report, a page that is open on it ends up with the
\* report, although mount-time answers arrive late, events are dropped before
\* getRun is answered, connections are lost and streams expire -- unless it met
\* one of the three obstacles.
ReportArrives ==
    <>[](status = "completed" /\ reported) => <>[](page.shown \/ excuses # {})

\* A run that rests on its way (a worker died) is shown where it is in the end:
\* what the race of getRun and the first events left behind, the next stream
\* repairs.
StatusCatchesUp ==
    \A s \in ActiveStatuses :
        <>[](status = s) => <>[](page.shown \/ excuses # {} \/ page.run = s)
===============================================================================
