--------------------------- MODULE CircuitBreaker ---------------------------
(* CircuitBreaker of micronaut-runtime.js under calls that overlap: each call *)
(* is let in or refused when it is made, and reports to the breaker when its  *)
(* function settles, by when the breaker may be in another state.             *)
EXTENDS Naturals

CONSTANTS
    Callers,           \* callers, each with one call at a time
    Threshold,         \* failureThreshold
    Timeout,           \* timeoutMs, in ticks
    MaxTime, MaxCalls  \* bounds on the clock and on the calls let in

VARIABLES
    breaker,           \* _state
    failures,          \* twice _failures, which moves by halves
    nextAttempt,       \* _nextAttempt
    clock,
    inCall,            \* callers whose function is running
    admitted,          \* calls let in
    quietUntil         \* history: when the refusal begun by the last trip ends

breakerVars == <<breaker, failures, nextAttempt, clock, inCall, admitted, quietUntil>>

BreakerInit ==
    /\ breaker = "CLOSED" /\ failures = 0 /\ nextAttempt = 0
    /\ clock = 0 /\ inCall = {} /\ admitted = 0 /\ quietUntil = 0

Tick ==
    /\ clock < MaxTime
    /\ clock' = clock + 1
    /\ UNCHANGED <<breaker, failures, nextAttempt, inCall, admitted, quietUntil>>

Refuses == breaker = "OPEN" /\ clock < nextAttempt

\* A call that is refused changes nothing; any other goes to the function, and
\* the first after the timeout opens the breaker half.
Call(c) ==
    /\ c \notin inCall /\ admitted < MaxCalls /\ ~Refuses
    /\ breaker' = IF breaker = "OPEN" THEN "HALF_OPEN" ELSE breaker
    /\ inCall' = inCall \union {c} /\ admitted' = admitted + 1
    /\ UNCHANGED <<failures, nextAttempt, clock, quietUntil>>

Less(f) == IF f = 0 THEN 0 ELSE f - 1

\* mutant: a success closes the breaker whatever its state
ClosesM == TRUE

Closes == breaker = "HALF_OPEN"

Success(c) ==
    /\ c \in inCall
    /\ IF Closes THEN breaker' = "CLOSED" /\ failures' = 0
                 ELSE failures' = Less(failures) /\ UNCHANGED breaker
    /\ inCall' = inCall \ {c}
    /\ UNCHANGED <<nextAttempt, clock, admitted, quietUntil>>

\* mutant: only a closed breaker trips, so a failed probe leaves the old time
TripsM(f) == f >= 2 * Threshold /\ breaker = "CLOSED"

Trips(f) == f >= 2 * Threshold

Failure(c) ==
    /\ c \in inCall
    /\ failures' = failures + 2
    /\ IF Trips(failures')
       THEN breaker' = "OPEN" /\ nextAttempt' = clock + Timeout
       ELSE UNCHANGED <<breaker, nextAttempt>>
    /\ quietUntil' = IF failures' >= 2 * Threshold THEN clock + Timeout ELSE quietUntil
    /\ inCall' = inCall \ {c}
    /\ UNCHANGED <<clock, admitted>>

\* reset(), the owner's.
Reset ==
    /\ breaker # "CLOSED"
    /\ breaker' = "CLOSED" /\ failures' = 0 /\ nextAttempt' = 0 /\ quietUntil' = 0
    /\ UNCHANGED <<clock, inCall, admitted>>

BreakerNext ==
    Tick \/ Reset \/ \E c \in Callers : Call(c) \/ Success(c) \/ Failure(c)

BreakerSpec == BreakerInit /\ [][BreakerNext]_breakerVars

-----------------------------------------------------------------------------
BreakerTypeOK ==
    /\ breaker \in {"CLOSED", "OPEN", "HALF_OPEN"} /\ failures \in Nat
    /\ nextAttempt \in Nat /\ inCall \subseteq Callers

\* A closed breaker has seen fewer failures than the threshold, whatever calls
\* let in before it tripped report after it has closed again.
ClosedIsBelow == breaker = "CLOSED" => failures < 2 * Threshold

\* Until its timeout is over a breaker that tripped lets nothing through: no
\* late success, and no probe that fails, shortens the time.
QuietWhileOpen == clock < quietUntil => Refuses

\* Threshold and refusal under overlapping calls.
BreakerSafety == BreakerTypeOK /\ ClosedIsBelow /\ QuietWhileOpen
=============================================================================
