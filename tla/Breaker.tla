------------------------------ MODULE Breaker ------------------------------
(***************************************************************************)
(* The fail-closed circuit breaker of engine/circuit_breaker.py as a       *)
(* value: a breaker is a record, and each method of CircuitBreaker is an    *)
(* operator from a breaker to a breaker.  Every method of the class runs    *)
(* under its RLock, so each is one indivisible step of whoever calls it.    *)
(*                                                                         *)
(*   state     _state                                                      *)
(*   failures  _failure_count; it grows without limit in the code and      *)
(*             stays at CountBound here, which no comparison can notice    *)
(*             because CountBound is at least the threshold                *)
(*   age       time.time() - _last_state_change, in ticks, counted while   *)
(*             OPEN, the only state it is read in, and up to ResetTimeout,  *)
(*             the only value it is compared with                          *)
(***************************************************************************)
EXTENDS Naturals

CONSTANTS
  BreakerEnabled,     \* settings.CIRCUIT_BREAKER_ENABLED
  FailureThreshold,   \* settings.CIRCUIT_BREAKER_FAILURE_THRESHOLD
  ResetTimeout,       \* settings.CIRCUIT_BREAKER_RESET_TIMEOUT, in ticks
  CountBound          \* where the failure count stops growing (a bound)

ASSUME BreakerAssumption ==
  /\ BreakerEnabled \in BOOLEAN
  /\ FailureThreshold \in Nat \ {0}
  /\ ResetTimeout \in Nat \ {0}
  /\ CountBound \in Nat
  /\ CountBound >= FailureThreshold

CircuitStates == {"closed", "open", "half_open"}

Breakers == [state : CircuitStates, failures : 0..CountBound, age : 0..ResetTimeout]

NewBreaker == [state |-> "closed", failures |-> 0, age |-> 0]

UpTo(bound, n) == IF n < bound THEN n + 1 ELSE bound

\* Mutants of this module's operators, each named for the bug it puts in.
TransitionTo_ClockKept(b, s) ==
  [state |-> s, failures |-> IF s = "closed" THEN 0 ELSE b.failures, age |-> b.age]

TransitionTo_CountKept(b, s) ==
  [state |-> s, failures |-> b.failures, age |-> 0]

\* _transition_to: every transition restarts the clock, closing also forgives.
TransitionTo(b, s) ==
  [state    |-> s,
   failures |-> IF s = "closed" THEN 0 ELSE b.failures,
   age      |-> 0]

Observe_MisspeltState(b) ==
  IF b.state = "open" /\ b.age >= ResetTimeout
  THEN TransitionTo(b, "half-open") ELSE b

\* The `state` property: reading it is what turns OPEN into HALF_OPEN.
Observe(b) ==
  IF b.state = "open" /\ b.age >= ResetTimeout
  THEN TransitionTo(b, "half_open")
  ELSE b

Checked_RejectionRestartsClock(b) ==
  IF Observe(b).state = "open" THEN TransitionTo(b, "open") ELSE Observe(b)

\* check(): the breaker after the call, and whether the call returns.
Checked(b) == IF BreakerEnabled THEN Observe(b) ELSE b

Admits_Always(b) == TRUE

Admits(b) == BreakerEnabled => Observe(b).state # "open"

RecordSuccess_AnyStateCloses(b) ==
  IF BreakerEnabled THEN TransitionTo(b, "closed") ELSE b

RecordSuccess_StaysHalfOpen(b) ==
  IF BreakerEnabled THEN [b EXCEPT !.failures = 0] ELSE b

RecordSuccess(b) ==
  IF ~BreakerEnabled THEN b
  ELSE LET r == IF b.state = "half_open" THEN TransitionTo(b, "closed") ELSE b
       IN  [r EXCEPT !.failures = 0]

RecordFailure_OneLate(b) ==
  LET f == [b EXCEPT !.failures = UpTo(CountBound, @)]
  IN  IF f.state = "half_open" \/ f.failures > FailureThreshold
      THEN TransitionTo(f, "open") ELSE f

RecordFailure(b) ==
  IF ~BreakerEnabled THEN b
  ELSE LET f == [b EXCEPT !.failures = UpTo(CountBound, @)]
       IN  IF f.state = "half_open" \/ f.failures >= FailureThreshold
           THEN TransitionTo(f, "open")
           ELSE f

\* One tick of the wall clock.
Aged(b) == IF b.state = "open" THEN [b EXCEPT !.age = UpTo(ResetTimeout, @)] ELSE b
=============================================================================
