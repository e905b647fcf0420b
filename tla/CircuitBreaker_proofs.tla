------------------------ MODULE CircuitBreaker_proofs -----------------------
(***************************************************************************)
(* What the breaker guarantees for every threshold, timeout and set of      *)
(* callers.  The safety properties are not inductive alone: an OPEN breaker *)
(* whose own clock ran ahead of the trip clock could half-open too early,   *)
(* and a failure count behind the reports could stay below the threshold.   *)
(* IInv adds the two facts that exclude this.                               *)
(***************************************************************************)
EXTENDS CircuitBreaker, Breaker_proofs

\* The breaker's own clock is never ahead of the time since the trip.
ClockBehindTrip == breaker.state = "open" => breaker.age <= sinceTrip

\* The failure count is the number of failures the callers reported.
CountIsStreak == BreakerEnabled => breaker.failures = streak

IInv ==
  /\ TypeOK
  /\ TrialAfterCooldown
  /\ ClosedBelowThreshold
  /\ ClockBehindTrip
  /\ CountIsStreak

LEMMA InitInv == Init => IInv
  BY BreakerAssumption, ForcesAssumption
  DEF Init, NewBreaker, IInv, TypeOK, Breakers, CircuitStates, TrialAfterCooldown,
      ClosedBelowThreshold, ClockBehindTrip, CountIsStreak

LEMMA NextInv == IInv /\ [Next]_vars => IInv'
  <1> SUFFICES ASSUME IInv, [Next]_vars PROVE IInv'
    OBVIOUS
  <1> USE BreakerAssumption, ForcesAssumption
  <1>t. /\ breaker \in Breakers /\ breaker.state \in CircuitStates
        /\ breaker.failures \in 0..CountBound /\ breaker.age \in 0..ResetTimeout
        /\ streak \in 0..CountBound /\ sinceTrip \in 0..ResetTimeout
    BY DEF IInv, TypeOK, Breakers
  <1>1. ASSUME NEW c \in Callers, Check(c) PROVE IInv'
    <2>1. breaker' = Observe(breaker) \/ breaker' = breaker
      BY <1>1 DEF Check, Checked
    <2>2. TypeOK'
      BY <1>1, <1>t, <2>1, ObserveFields DEF Check, Watch, IInv, TypeOK
    <2>3. (TrialAfterCooldown /\ ClosedBelowThreshold /\ ClockBehindTrip /\ CountIsStreak)'
      BY <1>1, <1>t, <2>1, ObserveFields
      DEF Check, Watch, IInv, TrialAfterCooldown, ClosedBelowThreshold,
          ClockBehindTrip, CountIsStreak
    <2> QED BY <2>2, <2>3 DEF IInv
  <1>2. ASSUME NEW c \in Callers, Succeed(c) PROVE IInv'
    <2>1. TypeOK'
      BY <1>2, <1>t, SuccessFields DEF Succeed, Watch, IInv, TypeOK
    <2>2. (TrialAfterCooldown /\ ClosedBelowThreshold /\ ClockBehindTrip /\ CountIsStreak)'
      BY <1>2, <1>t, SuccessFields
      DEF Succeed, Watch, IInv, TrialAfterCooldown, ClosedBelowThreshold,
          ClockBehindTrip, CountIsStreak
    <2> QED BY <2>1, <2>2 DEF IInv
  <1>3. ASSUME NEW c \in Callers, Fail(c) \/ AuditFails(c) PROVE IInv'
    <2>1. UpTo(CountBound, streak) \in 0..CountBound
      BY <1>t, UpToType
    <2>2. TypeOK'
      BY <1>3, <1>t, <2>1, FailureFields DEF Fail, AuditFails, Watch, IInv, TypeOK
    <2>3. (TrialAfterCooldown /\ ClosedBelowThreshold /\ ClockBehindTrip /\ CountIsStreak)'
      BY <1>3, <1>t, FailureFields
      DEF Fail, AuditFails, Watch, IInv, TrialAfterCooldown, ClosedBelowThreshold,
          ClockBehindTrip, CountIsStreak
    <2> QED BY <2>2, <2>3 DEF IInv
  <1>4. ASSUME GetStatus PROVE IInv'
    <2>1. TypeOK'
      BY <1>4, <1>t, ObserveFields DEF GetStatus, Watch, IInv, TypeOK
    <2>2. (TrialAfterCooldown /\ ClosedBelowThreshold /\ ClockBehindTrip /\ CountIsStreak)'
      BY <1>4, <1>t, ObserveFields
      DEF GetStatus, Watch, IInv, TrialAfterCooldown, ClosedBelowThreshold,
          ClockBehindTrip, CountIsStreak
    <2> QED BY <2>1, <2>2 DEF IInv
  <1>5. ASSUME ForceOpen \/ ForceClose PROVE IInv'
    <2> DEFINE s == IF ForceOpen THEN "open" ELSE "closed"
    <2>1. TransitionTo(breaker, s) \in Breakers /\ breaker' = TransitionTo(breaker, s)
      BY <1>5, <1>t, TransitionToFields DEF ForceOpen, ForceClose, CircuitStates
    <2>2. TypeOK'
      BY <1>5, <1>t, <2>1, TransitionToFields
      DEF ForceOpen, ForceClose, Watch, IInv, TypeOK, CircuitStates
    <2>3. (TrialAfterCooldown /\ ClosedBelowThreshold /\ ClockBehindTrip /\ CountIsStreak)'
      BY <1>5, <1>t, TransitionToFields
      DEF ForceOpen, ForceClose, Watch, IInv, TrialAfterCooldown, ClosedBelowThreshold,
          ClockBehindTrip, CountIsStreak, CircuitStates
    <2> QED BY <2>2, <2>3 DEF IInv
  <1>6. ASSUME Tick PROVE IInv'
    <2>1. TypeOK'
      BY <1>6, <1>t, AgedFields, UpToType DEF Tick, IInv, TypeOK
    <2>2. (TrialAfterCooldown /\ ClosedBelowThreshold /\ CountIsStreak)'
      BY <1>6, <1>t, AgedFields
      DEF Tick, UpTo, IInv, TrialAfterCooldown, ClosedBelowThreshold, CountIsStreak
    <2>3. ClockBehindTrip'
      BY <1>6, <1>t, AgedFields DEF Tick, UpTo, IInv, ClockBehindTrip
    <2> QED BY <2>1, <2>2, <2>3 DEF IInv
  <1>7. ASSUME NEW c \in Callers, Audited(c) PROVE IInv'
    BY <1>7 DEF Audited, IInv, TypeOK, TrialAfterCooldown, ClosedBelowThreshold,
                ClockBehindTrip, CountIsStreak
  <1>8. CASE UNCHANGED vars
    BY <1>8 DEF vars, IInv, TypeOK, TrialAfterCooldown, ClosedBelowThreshold,
                ClockBehindTrip, CountIsStreak
  <1> QED BY <1>1, <1>2, <1>3, <1>4, <1>5, <1>6, <1>7, <1>8 DEF Next

\* The inductive invariant holds throughout.
THEOREM Inductive == Spec => []IInv
  BY InitInv, NextInv, PTL DEF Spec

\* Type correctness (the fields of circuit_breaker.py:66-69).
THEOREM TypeCorrect == Spec => []TypeOK
  BY Inductive, PTL DEF IInv

\* No recovery trial before a whole reset timeout has passed since the trip.
THEOREM Cooldown == Spec => []TrialAfterCooldown
  BY Inductive, PTL DEF IInv

\* A closed breaker always has fewer failures counted than the threshold.
THEOREM BelowThreshold == Spec => []ClosedBelowThreshold
  BY Inductive, PTL DEF IInv

\* A report never moves an OPEN breaker: neither a success of a caller that was
\* admitted before the trip nor a late failure.
THEOREM NoReportRecovers == Spec => NoStrayRecovery
  <1>1. IInv /\ [Next]_vars =>
          [(\E c \in Callers : Report(c)) /\ breaker.state = "open"
             => breaker'.state = "open"]_vars
    <2> SUFFICES ASSUME IInv, NEW c \in Callers, Report(c), breaker.state = "open"
                 PROVE  breaker'.state = "open"
      OBVIOUS
    <2>1. breaker \in Breakers
      BY DEF IInv, TypeOK
    <2>2. CASE Succeed(c)
      BY <2>1, <2>2, SuccessFields DEF Succeed
    <2>3. CASE Fail(c) \/ AuditFails(c)
      BY <2>1, <2>3, FailureFields DEF Fail, AuditFails
    <2> QED BY <2>2, <2>3 DEF Report
  <1> QED BY <1>1, Inductive, PTL DEF Spec, NoStrayRecovery

\* Outside HALF_OPEN no trial is on record.
NoOldTrials == breaker.state # "half_open" => trials = {}

Episode == NoOldTrials /\ TrialsInFlight

LEMMA EpisodeStep == IInv /\ Episode /\ [Next]_vars => Episode'
  <1> SUFFICES ASSUME IInv, Episode, [Next]_vars PROVE Episode'
    OBVIOUS
  <1>t. /\ breaker \in Breakers /\ pc \in [Callers -> {"idle", "masking", "auditing"}]
        /\ trials \subseteq Callers
    BY DEF IInv, TypeOK
  <1>1. ASSUME NEW c \in Callers, Check(c) PROVE Episode'
    <2>1. breaker' = Observe(breaker) \/ breaker' = breaker
      BY <1>1 DEF Check, Checked
    <2>2. BreakerEnabled => Admits(breaker) \/ breaker'.state = "open"
      BY <1>1 DEF Check, Checked, Admits
    <2> QED BY <1>1, <1>t, <2>1, <2>2, ObserveFields
            DEF Check, Watch, Episode, NoOldTrials, TrialsInFlight
  <1>2. ASSUME NEW c \in Callers, Succeed(c) PROVE Episode'
    BY <1>2, <1>t, SuccessFields DEF Succeed, Watch, Episode, NoOldTrials, TrialsInFlight
  <1>3. ASSUME NEW c \in Callers, Fail(c) \/ AuditFails(c) PROVE Episode'
    BY <1>3, <1>t, FailureFields
    DEF Fail, AuditFails, Watch, Episode, NoOldTrials, TrialsInFlight
  <1>4. CASE GetStatus
    BY <1>4, <1>t, ObserveFields DEF GetStatus, Watch, Episode, NoOldTrials, TrialsInFlight
  <1>5. CASE ForceOpen \/ ForceClose
    BY <1>5, <1>t, TransitionToFields
    DEF ForceOpen, ForceClose, Watch, Episode, NoOldTrials, TrialsInFlight, CircuitStates
  <1>6. CASE Tick
    BY <1>6, <1>t, AgedFields DEF Tick, Episode, NoOldTrials, TrialsInFlight
  <1>7. ASSUME NEW c \in Callers, Audited(c) PROVE Episode'
    BY <1>7, <1>t DEF Audited, Episode, NoOldTrials, TrialsInFlight
  <1>8. CASE UNCHANGED vars
    BY <1>8 DEF vars, Episode, NoOldTrials, TrialsInFlight
  <1> QED BY <1>1, <1>2, <1>3, <1>4, <1>5, <1>6, <1>7, <1>8 DEF Next

\* A HALF_OPEN episode ends with its first report: whoever it let through is
\* still masking while it lasts.
THEOREM EpisodeEndsWithReport == Spec => []TrialsInFlight
  <1>1. Init => Episode
    BY DEF Init, NewBreaker, Episode, NoOldTrials, TrialsInFlight
  <1>2. Episode => TrialsInFlight
    BY DEF Episode
  <1> QED BY <1>1, <1>2, EpisodeStep, Inductive, PTL DEF Spec

\* Fail-closed: after a threshold of failures with no success in between,
\* nobody is let through until a reset timeout has passed since the trip.
THEOREM FailsClosed == Spec => FailClosed
  <1>1. IInv /\ [Next]_vars => [FailClosedStep]_vars
    <2> SUFFICES ASSUME IInv, [Next]_vars, BreakerEnabled,
                        NEW c \in Callers, Admitted(c)
                 PROVE  streak < FailureThreshold \/ sinceTrip = ResetTimeout
      BY DEF FailClosedStep
    <2>t. /\ breaker \in Breakers /\ breaker.state \in CircuitStates
          /\ breaker.age \in 0..ResetTimeout
          /\ streak \in 0..CountBound /\ sinceTrip \in 0..ResetTimeout
          /\ pc \in [Callers -> {"idle", "masking", "auditing"}]
      BY DEF IInv, TypeOK, Breakers
    <2>1. Check(c)
      <3>1. ASSUME NEW d \in Callers, ~Check(c),
                   Check(d) \/ Succeed(d) \/ Fail(d) \/ Audited(d) \/ AuditFails(d)
            PROVE FALSE
        BY <2>t, <3>1 DEF Admitted, Check, Succeed, Fail, Audited, AuditFails
      <3>2. ASSUME GetStatus \/ ForceOpen \/ ForceClose \/ Tick \/ UNCHANGED vars
            PROVE FALSE
        BY <3>2 DEF Admitted, GetStatus, ForceOpen, ForceClose, Tick, vars
      <3> QED BY <3>1, <3>2 DEF Next
    <2>2. Observe(breaker).state # "open"
      BY <2>1 DEF Check, Admits, Admitted
    <2>3. CASE breaker.state = "open"
      BY <2>3, <2>2, <2>t, ObserveFields, BreakerAssumption DEF IInv, ClockBehindTrip
    <2>4. CASE breaker.state = "half_open"
      BY <2>4 DEF IInv, TrialAfterCooldown
    <2>5. CASE breaker.state = "closed"
      BY <2>5 DEF IInv, ClosedBelowThreshold, CountIsStreak
    <2> QED BY <2>3, <2>4, <2>5, <2>t DEF CircuitStates
  <1> QED BY <1>1, Inductive, PTL DEF Spec, FailClosed
=============================================================================
