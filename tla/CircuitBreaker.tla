--------------------------- MODULE CircuitBreaker ---------------------------
(***************************************************************************)
(* One CircuitBreaker object and the threads that use it as                *)
(* RequestHandler.mask_request_body does: check, mask, report the outcome,  *)
(* and write to the audit log, which if it fails is reported as a failure    *)
(* after the success.                                                       *)
(*                                                                         *)
(* The class is written for threads (its RLock) and ties no outcome to an    *)
(* admission, so here callers interleave between those steps.  In the        *)
(* gateway they do not: mask_request_body() awaits nothing, each worker      *)
(* process has one loop and one breaker.  What holds here holds there.       *)
(***************************************************************************)
EXTENDS Breaker

CONSTANTS
  Callers,            \* threads that mask under this breaker
  MaxForces           \* how often force_open / force_close are called (a bound)

ASSUME ForcesAssumption == MaxForces \in Nat

VARIABLES
  breaker,            \* the object's fields
  pc,                 \* pc[c]: "idle", "masking" once check() let c through, or
                      \* "auditing" once it has reported success
  forces,             \* how often the operator has intervened
  streak,             \* history: failures reported since the last success or force_close
  sinceTrip,          \* history: ticks since the breaker last became OPEN
  trials              \* history: who was let through since it became HALF_OPEN

vars == <<breaker, pc, forces, streak, sinceTrip, trials>>

Init ==
  /\ breaker = NewBreaker
  /\ pc = [c \in Callers |-> "idle"]
  /\ forces = 0
  /\ streak = 0
  /\ sinceTrip = ResetTimeout
  /\ trials = {}

\* The trip clock restarts when the breaker becomes OPEN, whatever the cause;
\* trials are collected per HALF_OPEN episode.
Watch(admitted) ==
  /\ sinceTrip' = IF breaker.state # "open" /\ breaker'.state = "open"
                  THEN 0 ELSE sinceTrip
  /\ trials' = IF breaker'.state = "half_open" THEN trials \cup admitted ELSE {}

Check(c) ==
  /\ pc[c] = "idle"
  /\ breaker' = Checked(breaker)
  /\ IF Admits(breaker)
     THEN pc' = [pc EXCEPT ![c] = "masking"] /\ Watch({c})
     ELSE pc' = pc /\ Watch({})
  /\ UNCHANGED <<forces, streak>>

Succeed(c) ==
  /\ pc[c] = "masking"
  /\ breaker' = RecordSuccess(breaker)
  /\ pc' = [pc EXCEPT ![c] = "auditing"]
  /\ streak' = 0
  /\ Watch({})
  /\ UNCHANGED forces

Fail(c) ==
  /\ pc[c] = "masking"
  /\ breaker' = RecordFailure(breaker)
  /\ pc' = [pc EXCEPT ![c] = "idle"]
  /\ streak' = UpTo(CountBound, streak)
  /\ Watch({})
  /\ UNCHANGED forces

\* The entry is in the immutable log, or there is none to write.
Audited(c) ==
  /\ pc[c] = "auditing"
  /\ pc' = [pc EXCEPT ![c] = "idle"]
  /\ UNCHANGED <<breaker, forces, streak, sinceTrip, trials>>

\* immutable_audit_log() raises: what was a success is now a failure.
AuditFails(c) ==
  /\ pc[c] = "auditing"
  /\ breaker' = RecordFailure(breaker)
  /\ pc' = [pc EXCEPT ![c] = "idle"]
  /\ streak' = UpTo(CountBound, streak)
  /\ Watch({})
  /\ UNCHANGED forces

\* get_status() reads the state through the property, so it may move it; so does
\* check() for a body without messages, which has no outcome to report.
GetStatus ==
  /\ breaker' = Observe(breaker)
  /\ Watch({})
  /\ UNCHANGED <<pc, forces, streak>>

ForceOpen ==
  /\ forces < MaxForces
  /\ forces' = forces + 1
  /\ breaker' = TransitionTo(breaker, "open")
  /\ Watch({})
  /\ UNCHANGED <<pc, streak>>

ForceClose ==
  /\ forces < MaxForces
  /\ forces' = forces + 1
  /\ breaker' = TransitionTo(breaker, "closed")
  /\ streak' = 0
  /\ Watch({})
  /\ UNCHANGED pc

Tick ==
  /\ breaker' = Aged(breaker)
  /\ sinceTrip' = UpTo(ResetTimeout, sinceTrip)
  /\ UNCHANGED <<pc, forces, streak, trials>>

Report(c) == Succeed(c) \/ Fail(c) \/ AuditFails(c)

Next ==
  \/ \E c \in Callers : Check(c) \/ Succeed(c) \/ Fail(c) \/ Audited(c) \/ AuditFails(c)
  \/ GetStatus
  \/ ForceOpen
  \/ ForceClose
  \/ Tick

Spec == Init /\ [][Next]_vars

\* The clock advances, masking ends (mask() returns or raises), so does the write
\* to the audit log, and traffic keeps arriving.
Fairness ==
  /\ WF_vars(Tick)
  /\ \A c \in Callers : WF_vars(Report(c) \/ Audited(c)) /\ WF_vars(Check(c))

FairSpec == Spec /\ Fairness
-----------------------------------------------------------------------------
\* The type invariant of the breaker, its callers and the two histories.
TypeOK ==
  /\ breaker \in Breakers
  /\ pc \in [Callers -> {"idle", "masking", "auditing"}]
  /\ forces \in 0..MaxForces
  /\ streak \in 0..CountBound
  /\ sinceTrip \in 0..ResetTimeout
  /\ trials \subseteq Callers

Admitted(c) == pc[c] = "idle" /\ pc'[c] = "masking"

\* Fail-closed (circuit_breaker.py:139-140 against 82-98): once as many
\* failures as the threshold were reported with no success in between, nobody
\* is let through until a whole reset timeout has passed since the trip.
FailClosedStep ==
  BreakerEnabled =>
    \A c \in Callers : Admitted(c) =>
      streak < FailureThreshold \/ sinceTrip = ResetTimeout

FailClosed == [][FailClosedStep]_vars

\* A recovery trial is under way only when a whole reset timeout has passed
\* since the breaker opened; a failed trial and a late failure reopen it with
\* a fresh clock (circuit_breaker.py:76-79, 129-131, 154).
TrialAfterCooldown == breaker.state = "half_open" => sinceTrip = ResetTimeout

\* A closed breaker is one failure report short of tripping at most: however
\* it was closed, no earlier count survives (circuit_breaker.py:113-118, 156).
ClosedBelowThreshold ==
  breaker.state = "closed" => breaker.failures < FailureThreshold

\* A report from a caller admitted before the trip neither closes nor
\* half-opens an OPEN breaker: only the clock does (circuit_breaker.py:112-118).
NoStrayRecovery ==
  [][(\E c \in Callers : Report(c)) /\ breaker.state = "open"
       => breaker'.state = "open"]_vars

\* The breaker never stays OPEN for good while requests keep coming and the
\* operator stops intervening: late failures may restart the clock, but only as
\* many as were admitted before (circuit_breaker.py:76-79).
OpenEnds == breaker.state = "open" ~> breaker.state # "open"

\* A HALF_OPEN episode ends with the first report that comes in: as long as it
\* lasts, every caller it let through is still masking.  (Several may be:
\* check() turns nobody away in HALF_OPEN, circuit_breaker.py:100 and 112-131.)
TrialsInFlight ==
  BreakerEnabled /\ breaker.state = "half_open" =>
    \A c \in trials : pc[c] = "masking"
=============================================================================
