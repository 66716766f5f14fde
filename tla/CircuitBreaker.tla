--------------------------- MODULE CircuitBreaker ---------------------------
(***************************************************************************)
(* The shared circuit breaker of one exchange (app/core/resilience.py) and *)
(* the calls CcxtAdapter._call makes through it.                           *)
(*                                                                         *)
(* The breaker's lock is never held across an await, so admitting a call   *)
(* and recording its result are atomic; the call itself is not, and any    *)
(* number of calls may be in flight when the breaker changes its state.    *)
(*                                                                         *)
(* Two abstractions keep the state finite and lose nothing.  The clock is  *)
(* only read as `clock() - _opened_at >= recovery_timeout`: `cooldown` is  *)
(* what is left of that timeout.  `_failures` is only compared with        *)
(* failure_threshold: it saturates there.                                  *)
(***************************************************************************)
EXTENDS Integers

CONSTANTS
    Call,               \* callers; each makes calls one after the other
    FailureThreshold,   \* consecutive failures that open the circuit
    RecoveryTimeout     \* ticks the circuit stays open

ASSUME BreakerAssumption ==
    /\ FailureThreshold \in Nat \ {0}
    /\ RecoveryTimeout \in Nat \ {0}

VARIABLES
    state,              \* _state
    failures,           \* _failures, saturated
    cooldown,           \* time left until a probe is let through
    probeInFlight,      \* _probe_in_flight
    call                \* what each caller has in flight

breaker == <<state, failures, cooldown, probeInFlight>>
breakerVars == <<state, failures, cooldown, probeInFlight, call>>

BreakerTypeOK ==
    /\ state \in {"closed", "open", "half_open"}
    /\ failures \in 0..FailureThreshold
    /\ cooldown \in 0..RecoveryTimeout
    /\ probeInFlight \in BOOLEAN
    /\ call \in [Call -> {"idle", "normal", "probe"}]

BreakerInit ==
    /\ state = "closed"
    /\ failures = 0
    /\ cooldown = 0
    /\ probeInFlight = FALSE
    /\ call = [c \in Call |-> "idle"]

(***************************************************************************)
(* _can_attempt.  Where it returns FALSE, call() raises CircuitOpenError   *)
(* and nothing changes.                                                    *)
(***************************************************************************)
CanAttempt ==
    \/ state = "closed"
    \/ state = "open" /\ cooldown = 0
    \/ state = "half_open" /\ ~probeInFlight

Admit(c) ==
    /\ call[c] = "idle"
    /\ CanAttempt
    /\ IF state = "closed"
       THEN /\ call' = [call EXCEPT ![c] = "normal"]
            /\ UNCHANGED <<state, probeInFlight>>
       ELSE /\ call' = [call EXCEPT ![c] = "probe"]
            /\ state' = "half_open"
            /\ probeInFlight' = TRUE
    /\ UNCHANGED <<failures, cooldown>>

Returned(c) == call' = [call EXCEPT ![c] = "idle"]

\* Mutant of Succeed: a success resets the counter and not the state.
SucceedKeepsState(c) ==
    /\ call[c] # "idle"
    /\ Returned(c)
    /\ failures' = 0
    /\ probeInFlight' = FALSE
    /\ UNCHANGED <<state, cooldown>>

\* record_success, whatever the state was when the call was admitted.
Succeed(c) ==
    /\ call[c] # "idle"
    /\ Returned(c)
    /\ failures' = 0
    /\ state' = "closed"
    /\ probeInFlight' = FALSE
    /\ UNCHANGED cooldown

CountedFailures == IF failures < FailureThreshold THEN failures + 1 ELSE failures

\* Mutant of Fail: only a closed circuit can open.
FailKeepsHalfOpen(c) ==
    /\ call[c] # "idle"
    /\ Returned(c)
    /\ failures' = CountedFailures
    /\ probeInFlight' = FALSE
    /\ IF failures' >= FailureThreshold /\ state = "closed"
       THEN state' = "open" /\ cooldown' = RecoveryTimeout
       ELSE UNCHANGED <<state, cooldown>>

\* Mutant of Fail: the failure being recorded is not counted yet.
FailOpensLate(c) ==
    /\ call[c] # "idle"
    /\ Returned(c)
    /\ failures' = CountedFailures
    /\ probeInFlight' = FALSE
    /\ IF state = "half_open" \/ failures >= FailureThreshold
       THEN state' = "open" /\ cooldown' = RecoveryTimeout
       ELSE UNCHANGED <<state, cooldown>>

\* record_failure: it restarts the timeout of a circuit that is open already.
Fail(c) ==
    /\ call[c] # "idle"
    /\ Returned(c)
    /\ failures' = CountedFailures
    /\ probeInFlight' = FALSE
    /\ IF state = "half_open" \/ failures' >= FailureThreshold
       THEN state' = "open" /\ cooldown' = RecoveryTimeout
       ELSE UNCHANGED <<state, cooldown>>

\* CancelledError is not an Exception: neither result is recorded.  It is
\* how asyncio.run ends its task when a Celery worker's soft time limit is
\* raised in the event loop, and the process lives on.
Cancelled(c) ==
    /\ call[c] # "idle"
    /\ Returned(c)
    /\ UNCHANGED breaker

\* The process restarts: the breaker registry lives in its memory.
BreakerRestart ==
    /\ state' = "closed"
    /\ failures' = 0
    /\ cooldown' = 0
    /\ probeInFlight' = FALSE
    /\ call' = [c \in Call |-> "idle"]

Tick ==
    /\ cooldown > 0
    /\ cooldown' = cooldown - 1
    /\ UNCHANGED <<state, failures, probeInFlight, call>>

BreakerNext ==
    \/ \E c \in Call : Admit(c) \/ Succeed(c) \/ Fail(c)
    \/ Tick
    \/ BreakerRestart

BreakerSpec == BreakerInit /\ [][BreakerNext]_breakerVars

\* The same where tasks are cancelled, as they are in the Celery workers.
CancellableNext == BreakerNext \/ \E c \in Call : Cancelled(c)

CancellableSpec == BreakerInit /\ [][CancellableNext]_breakerVars

\* Time passes, an admitted call returns (the ccxt client has a timeout),
\* and there is traffic: a call the breaker would admit is made some day.
FairSpec ==
    /\ BreakerSpec
    /\ WF_breakerVars(Tick)
    /\ WF_breakerVars(\E c \in Call : Admit(c))
    /\ \A c \in Call : WF_breakerVars(Succeed(c) \/ Fail(c))

-----------------------------------------------------------------------------
(***************************************************************************)
(* The circuit is closed exactly as long as fewer than failure_threshold   *)
(* failures came in since the last success, although results arrive in any *)
(* order and in any state (record_success and record_failure).             *)
(***************************************************************************)
ClosedIffHealthy == state = "closed" <=> failures < FailureThreshold

(***************************************************************************)
(* _probe_in_flight is "True while a single half-open probe is in flight": *)
(* whenever the flag or the half-open state keeps other calls out, a probe *)
(* is on its way whose result will move the circuit on.                    *)
(***************************************************************************)
HalfOpenHasAProbe ==
    state = "half_open" \/ probeInFlight => \E c \in Call : call[c] = "probe"

(***************************************************************************)
(* Once the exchange stops failing, the circuit closes for good, however   *)
(* many probes failed and however late their results were.                 *)
(***************************************************************************)
Recovers ==
    (<>[][\A c \in Call : ~Fail(c)]_breakerVars) => <>[](state = "closed")
=============================================================================
