------------------------------ MODULE LlmClient ------------------------------
(***************************************************************************)
(* llm/anthropic_client.py: concurrent calls of message() in one worker    *)
(* process, over one circuit breaker and one semaphore.  A call passes the *)
(* breaker once, then waits for the rate limiter and the semaphore, then   *)
(* sends up to MAX_TRIES requests; between two of them it sleeps with the  *)
(* semaphore held.  provider is the Anthropic API: while it is down a      *)
(* request may fail.  Calls are slots: a finished call is free for the     *)
(* next one.                                                               *)
(***************************************************************************)
EXTENDS CircuitBreaker

CONSTANTS Calls, MAX_CONCURRENCY, MAX_TRIES

ASSUME ClientAssumption ==
    /\ MAX_CONCURRENCY \in Nat \ {0}
    /\ MAX_TRIES \in Nat \ {0}

VARIABLES
    phase,      \* phase[c]: where message() stands
    tries,      \* tries[c]: requests sent by the call
    provider    \* "up", "down"

vars == <<breaker, phase, tries, provider>>

Init ==
    /\ BreakerInit
    /\ phase = [c \in Calls |-> "idle"]
    /\ tries = [c \in Calls |-> 0]
    /\ provider = "up"

Move(c, from, to) ==
    /\ phase[c] = from
    /\ phase' = [phase EXCEPT ![c] = to]

\* The calls that hold the semaphore.
Holders == {c \in Calls : phase[c] \in {"sending", "sleeping"}}

\* before_call; a refused call raises CircuitBreakerOpen and changes nothing.
Begin(c) ==
    /\ Move(c, "idle", "admitted")
    /\ BeforeCall
    /\ UNCHANGED <<tries, provider>>

\* The rate limiter and the semaphore let the call through.
Start(c) ==
    /\ Move(c, "admitted", "sending")
    /\ Cardinality(Holders) < MAX_CONCURRENCY
    /\ tries' = [tries EXCEPT ![c] = 1]
    /\ UNCHANGED <<breaker, provider>>

Finish(c) ==
    /\ Move(c, "sending", "idle")
    /\ tries' = [tries EXCEPT ![c] = 0]

Succeed(c) ==
    /\ Finish(c)
    /\ RecordSuccess
    /\ UNCHANGED provider

\* RateLimitError or APIError: recorded; tenacity sleeps, or re-raises after
\* the last try.
Fail(c) ==
    /\ provider = "down"
    /\ RecordFailure
    /\ \/ /\ tries[c] < MAX_TRIES
          /\ Move(c, "sending", "sleeping")
          /\ UNCHANGED tries
       \/ /\ tries[c] >= MAX_TRIES
          /\ Finish(c)
    /\ UNCHANGED provider

\* Any other exception: not recorded, not retried.
Abort(c) ==
    /\ provider = "down"
    /\ Finish(c)
    /\ UNCHANGED <<breaker, provider>>

\* A retry does not ask the breaker again.
Resend(c) ==
    /\ Move(c, "sleeping", "sending")
    /\ tries' = [tries EXCEPT ![c] = @ + 1]
    /\ UNCHANGED <<breaker, provider>>

Time == Tick /\ UNCHANGED <<phase, tries, provider>>

Turn ==
    /\ provider' = IF provider = "up" THEN "down" ELSE "up"
    /\ UNCHANGED <<breaker, phase, tries>>

Next ==
    \/ \E c \in Calls : \/ Begin(c) \/ Start(c) \/ Succeed(c) \/ Fail(c)
                        \/ Abort(c) \/ Resend(c)
    \/ Time \/ Turn

Spec == Init /\ [][Next]_vars

\* The worker keeps calling, requests are answered or time out, sleeps end and
\* time passes.  Nothing is owed by the provider.
FairSpec ==
    /\ Spec
    /\ WF_vars(Time)
    /\ \A c \in Calls :
          /\ WF_vars(Begin(c)) /\ WF_vars(Start(c)) /\ WF_vars(Resend(c))
          /\ WF_vars(Succeed(c) \/ Fail(c) \/ Abort(c))

-----------------------------------------------------------------------------
(* Properties *)

TypeOK ==
    /\ BreakerTypeOK
    /\ phase \in [Calls -> {"idle", "admitted", "sending", "sleeping"}]
    /\ tries \in [Calls -> 0 .. MAX_TRIES]
    /\ provider \in {"up", "down"}

\* Half-open probes recover: once the provider stays up, the circuit closes for
\* good, whatever calls and windows the outage left behind.
Recovers == <>[](provider = "up") => <>[](state = "closed")

==============================================================================
