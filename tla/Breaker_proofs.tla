--------------------------- MODULE Breaker_proofs ---------------------------
(***************************************************************************)
(* What each breaker operator returns, for every threshold and timeout:     *)
(* the lemmas the proofs about CircuitBreaker and Gateway rest on.          *)
(***************************************************************************)
EXTENDS Breaker, TLAPS

LEMMA UpToType ==
  ASSUME NEW bound \in Nat, NEW n \in 0..bound
  PROVE  UpTo(bound, n) \in 0..bound /\ n <= UpTo(bound, n)
  BY DEF UpTo

LEMMA TransitionToFields ==
  ASSUME NEW b \in Breakers, NEW s \in CircuitStates
  PROVE  /\ TransitionTo(b, s) \in Breakers
         /\ TransitionTo(b, s).state = s
         /\ TransitionTo(b, s).age = 0
         /\ TransitionTo(b, s).failures = IF s = "closed" THEN 0 ELSE b.failures
  BY BreakerAssumption DEF TransitionTo, Breakers, CircuitStates

\* Reading the state changes it only from OPEN, only to HALF_OPEN, and only
\* when the timeout is over.
LEMMA ObserveFields ==
  ASSUME NEW b \in Breakers
  PROVE  /\ Observe(b) \in Breakers
         /\ Observe(b).failures = b.failures
         /\ \/ Observe(b) = b
            \/ /\ b.state = "open" /\ b.age = ResetTimeout
               /\ Observe(b).state = "half_open"
         /\ Observe(b).state = "open" => b.age < ResetTimeout
  <1>1. CASE b.state = "open" /\ b.age >= ResetTimeout
    <2>1. Observe(b) = TransitionTo(b, "half_open")
      BY <1>1 DEF Observe
    <2>2. b.age = ResetTimeout
      BY <1>1, BreakerAssumption DEF Breakers
    <2> QED BY <1>1, <2>1, <2>2, TransitionToFields DEF CircuitStates
  <1>2. CASE ~(b.state = "open" /\ b.age >= ResetTimeout)
    BY <1>2, BreakerAssumption DEF Observe, Breakers
  <1> QED BY <1>1, <1>2

LEMMA SuccessFields ==
  ASSUME NEW b \in Breakers
  PROVE  /\ RecordSuccess(b) \in Breakers
         /\ BreakerEnabled => RecordSuccess(b).failures = 0
         /\ ~BreakerEnabled => RecordSuccess(b) = b
         /\ RecordSuccess(b).state
              = IF BreakerEnabled /\ b.state = "half_open" THEN "closed" ELSE b.state
         /\ b.state = "open" => RecordSuccess(b).age = b.age
  <1>1. TransitionTo(b, "closed") \in Breakers /\ TransitionTo(b, "closed").state = "closed"
    BY TransitionToFields DEF CircuitStates
  <1> QED BY <1>1, BreakerAssumption DEF RecordSuccess, Breakers

LEMMA FailureFields ==
  ASSUME NEW b \in Breakers
  PROVE  /\ RecordFailure(b) \in Breakers
         /\ ~BreakerEnabled => RecordFailure(b) = b
         /\ BreakerEnabled => RecordFailure(b).failures = UpTo(CountBound, b.failures)
         /\ RecordFailure(b).state \in {b.state, "open"}
         /\ BreakerEnabled /\ RecordFailure(b).state = "open"
              => \/ RecordFailure(b).age = 0
                 \/ b.state = "open" /\ RecordFailure(b).age = b.age
         /\ RecordFailure(b).state = "closed" /\ BreakerEnabled
              => RecordFailure(b).failures < FailureThreshold
         /\ BreakerEnabled /\ b.state = "half_open" => RecordFailure(b).state = "open"
  <1> DEFINE f == [b EXCEPT !.failures = UpTo(CountBound, @)]
  <1>1. UpTo(CountBound, b.failures) \in 0..CountBound
    BY UpToType, BreakerAssumption DEF Breakers
  <1>2. /\ f \in Breakers /\ f.state = b.state /\ f.age = b.age
        /\ f.failures = UpTo(CountBound, b.failures)
    BY <1>1 DEF Breakers
  <1>3. /\ TransitionTo(f, "open") \in Breakers
        /\ TransitionTo(f, "open").state = "open"
        /\ TransitionTo(f, "open").age = 0
        /\ TransitionTo(f, "open").failures = f.failures
    BY <1>2, TransitionToFields DEF CircuitStates
  <1>4. CASE ~BreakerEnabled
    <2>1. RecordFailure(b) = b
      BY <1>4 DEF RecordFailure
    <2> QED BY <1>4, <2>1
  <1>5. CASE BreakerEnabled /\ (f.state = "half_open" \/ f.failures >= FailureThreshold)
    <2>1. RecordFailure(b) = TransitionTo(f, "open")
      BY <1>5 DEF RecordFailure
    <2> HIDE DEF f
    <2> QED BY <1>5, <2>1, <1>2, <1>3
  <1>6. CASE BreakerEnabled /\ ~(f.state = "half_open" \/ f.failures >= FailureThreshold)
    <2>1. RecordFailure(b) = f
      BY <1>6 DEF RecordFailure
    <2>2. f.failures < FailureThreshold
      BY <1>6, <1>2, <1>1, BreakerAssumption
    <2> HIDE DEF f
    <2> QED BY <1>6, <2>1, <2>2, <1>2
  <1> QED BY <1>4, <1>5, <1>6

LEMMA AgedFields ==
  ASSUME NEW b \in Breakers
  PROVE  /\ Aged(b) \in Breakers
         /\ Aged(b).state = b.state /\ Aged(b).failures = b.failures
         /\ b.state = "open" => Aged(b).age = UpTo(ResetTimeout, b.age)
  <1>1. UpTo(ResetTimeout, b.age) \in 0..ResetTimeout
    BY UpToType, BreakerAssumption DEF Breakers
  <1> QED BY <1>1 DEF Aged, Breakers
=============================================================================
