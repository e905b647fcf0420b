------------------------- MODULE ConsecutiveFailures -------------------------
(* What the documentation says of the breaker's threshold, for CircuitBreaker  *)
(* with a history of the calls of mask_request_body that failed in a row.      *)
EXTENDS CircuitBreakerMC

VARIABLE inARow        \* failed calls since the last that returned, or force_close

rowVars == <<vars, inARow>>

OneCaller == {c1}

RowInit == Init /\ inARow = 0

RowNext ==
  \/ /\ \E c \in Callers : Fail(c) \/ AuditFails(c)
     /\ inARow' = UpTo(CountBound, inARow)
  \/ /\ ForceClose \/ \E c \in Callers : Audited(c)
     /\ inARow' = 0
  \/ /\ GetStatus \/ ForceOpen \/ Tick \/ \E c \in Callers : Check(c) \/ Succeed(c)
     /\ UNCHANGED inARow

RowSpec == RowInit /\ [][RowNext]_rowVars
-----------------------------------------------------------------------------
\* DOCUMENTATION.md:325, "Consecutive failures before breaker opens": when as many
\* calls in a row as the threshold have failed, each of them reported to the
\* breaker, the breaker has opened.
OpensAtThreshold ==
  BreakerEnabled /\ inARow >= FailureThreshold => breaker.state # "closed"
=============================================================================
