---------------------------- MODULE CircuitBreaker ----------------------------
(***************************************************************************)
(* llm/circuit_breaker.py: the breaker every Anthropic call of a process   *)
(* goes through.  Each operation runs under the breaker's lock, so it is   *)
(* one step.  Of the clock only the time since _opened_at matters, and     *)
(* only until it reaches the cool-down: waited is that time, capped.       *)
(***************************************************************************)
EXTENDS Naturals, Sequences, FiniteSets

CONSTANTS WINDOW_SIZE, TRIP_PERCENT, COOL_DOWN, HALF_OPEN_PROBES

ASSUME BreakerAssumption ==
    /\ WINDOW_SIZE \in Nat \ {0}
    /\ TRIP_PERCENT \in 1 .. 100
    /\ COOL_DOWN \in Nat
    /\ HALF_OPEN_PROBES \in 1 .. WINDOW_SIZE

VARIABLES
    state,      \* _state
    window,     \* _window, oldest outcome first
    outcomes,   \* _half_open_outcomes
    waited      \* time since _opened_at, at most COOL_DOWN

breaker == <<state, window, outcomes, waited>>

BreakerInit ==
    /\ state = "closed" /\ window = <<>> /\ outcomes = <<>> /\ waited = COOL_DOWN

\* Mutant: a deque without maxlen.
PushedUnbounded(ok) == Append(window, ok)

\* deque(maxlen=WINDOW_SIZE).append
Pushed(ok) ==
    IF Len(window) < WINDOW_SIZE THEN Append(window, ok) ELSE Append(Tail(window), ok)

\* The window is full and the share of failures reaches failure_ratio_trip.
Tripping(win) ==
    /\ Len(win) >= WINDOW_SIZE
    /\ 100 * Cardinality({i \in DOMAIN win : ~win[i]}) >= TRIP_PERCENT * Len(win)

\* The probes close the circuit: enough of them, all successful.
Recovered(probes) ==
    /\ Len(probes) >= HALF_OPEN_PROBES
    /\ \A i \in DOMAIN probes : probes[i]

\* Mutant: the outcomes of the probes survive the opening.
OpenKeepsOutcomes ==
    state' = "open" /\ waited' = 0 /\ UNCHANGED outcomes

Open == state' = "open" /\ waited' = 0 /\ outcomes' = <<>>

\* before_call returns: always, unless the circuit is open and still cooling.
BeforeCall ==
    /\ state = "open" => waited >= COOL_DOWN
    /\ state' = IF state = "open" THEN "half_open" ELSE state
    /\ outcomes' = IF state = "open" THEN <<>> ELSE outcomes
    /\ UNCHANGED <<window, waited>>

\* Mutant: a success only goes to the window.
SuccessIgnoresProbes ==
    window' = Pushed(TRUE) /\ UNCHANGED <<state, outcomes, waited>>

RecordSuccess ==
    LET probes == Append(outcomes, TRUE)
        closes == Recovered(probes)
    IN  /\ window' = Pushed(TRUE)
        /\ state' = IF state = "half_open" /\ closes THEN "closed" ELSE state
        /\ outcomes' = IF state # "half_open" THEN outcomes
                       ELSE IF closes THEN <<>> ELSE probes
        /\ UNCHANGED waited

\* Mutant: the ratio is taken before the failure is in the window.
FailureChecksOldWindow ==
    /\ window' = Pushed(FALSE)
    /\ IF state = "half_open" \/ Tripping(window)
       THEN Open ELSE UNCHANGED <<state, outcomes, waited>>

\* Opening again while open starts the cool-down anew.
RecordFailure ==
    /\ window' = Pushed(FALSE)
    /\ IF state = "half_open" \/ Tripping(window')
       THEN Open ELSE UNCHANGED <<state, outcomes, waited>>

Tick ==
    /\ waited < COOL_DOWN
    /\ waited' = waited + 1
    /\ UNCHANGED <<state, window, outcomes>>

-----------------------------------------------------------------------------
(* Properties *)

BreakerTypeOK ==
    /\ state \in {"closed", "open", "half_open"}
    /\ window \in Seq(BOOLEAN) /\ Len(window) <= WINDOW_SIZE
    /\ outcomes \in Seq(BOOLEAN)
    /\ waited \in 0 .. COOL_DOWN

\* Only a half-open circuit holds probe outcomes; they are successes, not yet
\* enough of them, and the latest entries of the window: late answers and
\* answers of calls admitted before the opening are counted in neither or both.
ProbesAreRecent ==
    /\ state # "half_open" => outcomes = <<>>
    /\ Len(outcomes) < HALF_OPEN_PROBES
    /\ Len(outcomes) <= Len(window)
    /\ \A i \in 1 .. Len(outcomes) :
          outcomes[i] /\ window[Len(window) - Len(outcomes) + i]

\* A closed circuit whose window calls for tripping owes it to a success: the
\* one that filled the window, or the probe that closed the circuit over it.
\* A failure is never recorded past the threshold without opening.
TripNotMissed ==
    state = "closed" /\ Tripping(window) => window[Len(window)]
===============================================================================
