-------------------------- MODULE Sessions_proofs ---------------------------
(***************************************************************************)
(* What the gateway owes a session and its worker, for every set of workers, *)
(* sessions and values, every text and any number of faults:               *)
(*                                                                         *)
(*   - a chat leaves only while its worker's breaker is closed, and the gauge *)
(*     of a worker without streams counts the chats that run on it;        *)
(*   - a value keeps its token within a session, a session that has ended is *)
(*     in no store, and an answer that repeats what was sent is restored.  *)
(*                                                                         *)
(* The first two hold because a handler holds its worker's event loop from *)
(* its check to its send; the others because no step of one request, and   *)
(* nothing else that leaves a session undisturbed, changes what any store  *)
(* holds of another.                                                       *)
(***************************************************************************)
EXTENDS Gateway_proofs, FiniteSetTheorems

-----------------------------------------------------------------------------
(* The event loop, the breaker and the outcome.                             *)

OnLoop == {"check", "mask", "index", "send", "restore", "touch", "ending"}

\* A stream whose next part has not come.
Waits(r) == kind[r] = "stream" /\ pc[r] = "restore"

\* Between two awaits a handler holds the loop of its worker.
Holds(r) == pc[r] \in OnLoop /\ ~Waits(r) => running[worker[r]] = r

\* The outcome is settled when the handler reaches its finally, unless it is
\* a stream's, and not before; only a stream is sent after that.
Undecided(r) ==
  /\ pc[r] \in {"new", "check", "mask", "index", "send", "open", "await", "restore",
                "touch"} => outcome[r] = "none"
  /\ pc[r] = "ending" /\ kind[r] # "stream" => outcome[r] # "none"
  /\ pc[r] = "open" => kind[r] = "stream"
  /\ pc[r] = "send" => kind[r] # "stream"

Unplaced(r) == pc[r] = "new" => worker[r] = Nobody

\* Nobody trips the breaker between a handler's check and its send.
PassedCheck(r) ==
  BreakerEnabled =>
    /\ kind[r] \in Guarded /\ pc[r] \in {"mask", "index"}
         => breaker[worker[r]].state \in {"closed", "half_open"}
    /\ kind[r] = "chat" /\ pc[r] = "send" => breaker[worker[r]].state = "closed"

LoopInv(r) == Holds(r) /\ Undecided(r) /\ Unplaced(r) /\ PassedCheck(r)

LoopIInv == IInv /\ \A r \in Requests : LoopInv(r)

\* Who changes what belongs to a worker runs on its loop, or finds it free.
OwnLoop(r) ==
  \A w \in Workers :
    /\ running'[w] # running[w] => running[w] \in {r, Nobody}
    /\ breaker'[w] # breaker[w] => running[w] = r

LEMMA LoopTypes ==
  ASSUME LoopIInv, NEW r \in Requests
  PROVE  /\ TypeOK /\ RequestTypes /\ ProcessTypes /\ RequestInv(r) /\ LoopInv(r)
         /\ (pc[r] # "new" => worker[r] \in Workers)
         /\ r # Nobody /\ Nobody \notin Workers
  BY GatewayAssumption DEF LoopIInv, IInv, TypeOK, RequestInv, Placed, Requests

LEMMA OthersKeepLoop ==
  ASSUME LoopIInv, NEW r \in Requests, OwnLoop(r), NEW q \in Requests \ {r}, Same(q)
  PROVE  LoopInv(q)'
  <1>1. LoopInv(q) /\ q # Nobody /\ (pc[q] # "new" => worker[q] \in Workers)
    BY LoopTypes
  <1>2. Holds(q)' /\ Undecided(q)' /\ Unplaced(q)'
    BY <1>1 DEF Same, OwnLoop, LoopInv, Holds, Waits, Undecided, Unplaced,
           OnLoop
  <1>3. PassedCheck(q)'
    BY <1>1 DEF Same, OwnLoop, LoopInv, Holds, Waits, PassedCheck, OnLoop
  <1> QED BY <1>2, <1>3 DEF LoopInv

\* Steps that change no request.
Elsewhere ==
  \/ \E s \in Sessions : TtlElapses(s) \/ RedisExpires(s)
  \/ \E w \in Workers, s \in Sessions : AdminDelete(w, s)
  \/ \E w \in Workers : Cleanup(w)
  \/ Tick
  \/ UNCHANGED vars

LEMMA GoesSame ==
  ASSUME LoopIInv, NEW r \in Requests, Goes(r), ~Elsewhere
  PROVE  \A q \in Requests \ {r} : Same(q)
  <1>1. RequestTypes /\ (pc[r] # "new" => worker[r] \in Workers)
    BY LoopTypes
  <1> USE <1>1 DEF RequestTypes, Goto, reqVars, answerVars, workerVars, Same
  <1>2. ASSUME NEW w \in Workers, NEW k \in Kinds, ArriveRaises(r, w, k)
        PROVE  \A q \in Requests \ {r} : Same(q)
    BY <1>2 DEF ArriveRaises
  <1>3. ASSUME NEW w \in Workers, NEW k \in Kinds, NEW b \in Bodies, Arrive(r, w, k, b)
        PROVE  \A q \in Requests \ {r} : Same(q)
    BY <1>3 DEF Arrive
  <1>4. CASE Check(r)
    BY <1>4 DEF Check, Raise
  <1>5. CASE ReuseToken(r)
    BY <1>5 DEF ReuseToken, Replace
  <1>6. CASE MintToken(r)
    BY <1>6 DEF MintToken, Mint, Replace
  <1>7. CASE IndexToken(r)
    BY <1>7 DEF IndexToken, Replace
  <1>8. CASE MaskRaises(r)
    BY <1>8 DEF MaskRaises, Mint, Report, Raise
  <1>9. CASE MaskDone(r)
    BY <1>9 DEF MaskDone, Report
  <1>10. CASE AuditRaises(r)
    BY <1>10 DEF AuditRaises, Report, Raise
  <1>11. CASE Forward(r)
    BY <1>11 DEF Forward, Release
  <1>12. CASE OpenStream(r)
    BY <1>12 DEF OpenStream
  <1>13. CASE UpstreamReply(r)
    BY <1>13 DEF UpstreamReply, Restoring
  <1>14. CASE UpstreamFails(r)
    BY <1>14 DEF UpstreamFails, StreamEnds, Raise, Release
  <1>15. CASE Retrieve(r)
    BY <1>15 DEF Retrieve, LookedUp
  <1>16. CASE Touch(r)
    BY <1>16 DEF Touch
  <1>17. CASE RetrieveFails(r)
    BY <1>17 DEF RetrieveFails, LookedUp, StreamEnds, Raise, Release
  <1>18. CASE Restored(r)
    BY <1>18 DEF Restored, StreamEnds, Release
  <1>19. CASE EndSession(r)
    BY <1>19 DEF EndSession, Release
  <1>20. CASE EndSessionFails(r)
    BY <1>20 DEF EndSessionFails, Release
  <1> QED BY <1>2, <1>3, <1>4, <1>5, <1>6, <1>7, <1>8, <1>9, <1>10, <1>11, <1>12, <1>13,
         <1>14, <1>15, <1>16, <1>17, <1>18, <1>19, <1>20
         DEF Goes, Elsewhere, Requests

\* A handler holds its loop, or takes one that is free.
LEMMA GoesOwnLoop ==
  ASSUME LoopIInv, NEW r \in Requests, Goes(r), ~Elsewhere
  PROVE  OwnLoop(r)
  <1>1. /\ RequestTypes /\ ProcessTypes /\ LoopInv(r) /\ r # Nobody
        /\ Nobody \notin Workers /\ (pc[r] # "new" => worker[r] \in Workers)
    BY LoopTypes
  <1> USE <1>1 DEF RequestTypes, ProcessTypes, Goto, reqVars, workerVars, LoopInv, Holds,
                   Waits, OnLoop, OwnLoop
  <1>2. ASSUME NEW w \in Workers, NEW k \in Kinds, ArriveRaises(r, w, k)
        PROVE  OwnLoop(r)
    BY <1>2 DEF ArriveRaises
  <1>3. ASSUME NEW w \in Workers, NEW k \in Kinds, NEW b \in Bodies, Arrive(r, w, k, b)
        PROVE  OwnLoop(r)
    BY <1>3 DEF Arrive
  <1>4. CASE Check(r)
    BY <1>4 DEF Check, Raise
  <1>5. CASE ReuseToken(r)
    BY <1>5 DEF ReuseToken, Replace
  <1>6. CASE MintToken(r)
    BY <1>6 DEF MintToken, Mint, Replace
  <1>7. CASE IndexToken(r)
    BY <1>7 DEF IndexToken, Replace
  <1>8. CASE MaskRaises(r)
    BY <1>8 DEF MaskRaises, Mint, Report, Raise
  <1>9. CASE MaskDone(r)
    BY <1>9 DEF MaskDone, Report
  <1>10. CASE AuditRaises(r)
    BY <1>10 DEF AuditRaises, Report, Raise
  <1>11. CASE Forward(r)
    BY <1>11 DEF Forward, Release
  <1>12. CASE OpenStream(r)
    BY <1>12 DEF OpenStream
  <1>13. CASE UpstreamReply(r)
    BY <1>13 DEF UpstreamReply, Restoring, Hold
  <1>14. CASE UpstreamFails(r)
    BY <1>14 DEF UpstreamFails, StreamEnds, Raise, Release, Hold
  <1>15. CASE Retrieve(r)
    BY <1>15 DEF Retrieve, Resumes, LookedUp, Hold
  <1>16. CASE Touch(r)
    BY <1>16 DEF Touch, PutBack, Release
  <1>17. CASE RetrieveFails(r)
    BY <1>17 DEF RetrieveFails, Resumes, LookedUp, StreamEnds, Raise, Release
  <1>18. CASE Restored(r)
    BY <1>18 DEF Restored, Resumes, StreamEnds, Release
  <1>19. CASE EndSession(r)
    BY <1>19 DEF EndSession, Release
  <1>20. CASE EndSessionFails(r)
    BY <1>20 DEF EndSessionFails, Release
  <1> QED BY <1>2, <1>3, <1>4, <1>5, <1>6, <1>7, <1>8, <1>9, <1>10, <1>11, <1>12, <1>13,
         <1>14, <1>15, <1>16, <1>17, <1>18, <1>19, <1>20
         DEF Goes, Elsewhere, Requests

LEMMA GoesDecides ==
  ASSUME LoopIInv, NEW r \in Requests, Goes(r), ~Elsewhere
  PROVE  Holds(r)' /\ Undecided(r)' /\ Unplaced(r)'
  <1>1. /\ RequestTypes /\ ProcessTypes /\ LoopInv(r) /\ r # Nobody
        /\ Nobody \notin Workers /\ (pc[r] # "new" => worker[r] \in Workers)
    BY LoopTypes
  <1> USE <1>1 DEF RequestTypes, ProcessTypes, Goto, reqVars, workerVars, LoopInv, Holds,
                   Waits, OnLoop, Undecided, Unplaced
  <1>2. ASSUME NEW w \in Workers, NEW k \in Kinds, ArriveRaises(r, w, k)
        PROVE  Holds(r)' /\ Undecided(r)' /\ Unplaced(r)'
    BY <1>2 DEF ArriveRaises
  <1>3. ASSUME NEW w \in Workers, NEW k \in Kinds, NEW b \in Bodies, Arrive(r, w, k, b)
        PROVE  Holds(r)' /\ Undecided(r)' /\ Unplaced(r)'
    BY <1>3 DEF Arrive, Guarded
  <1>4. CASE Check(r)
    BY <1>4 DEF Check, Raise
  <1>5. CASE ReuseToken(r)
    BY <1>5 DEF ReuseToken, Replace
  <1>6. CASE MintToken(r)
    BY <1>6 DEF MintToken, Mint, Replace
  <1>7. CASE IndexToken(r)
    BY <1>7 DEF IndexToken, Replace
  <1>8. CASE MaskRaises(r)
    BY <1>8 DEF MaskRaises, Mint, Report, Raise
  <1>9. CASE MaskDone(r)
    BY <1>9 DEF MaskDone, Report
  <1>10. CASE AuditRaises(r)
    BY <1>10 DEF AuditRaises, Report, Raise
  <1>11. CASE Forward(r)
    BY <1>11 DEF Forward, Release
  <1>12. CASE OpenStream(r)
    BY <1>12 DEF OpenStream
  <1>13. CASE UpstreamReply(r)
    BY <1>13 DEF UpstreamReply, Restoring, Hold
  <1>14. CASE UpstreamFails(r)
    BY <1>14 DEF UpstreamFails, StreamEnds, Raise, Release, Hold
  <1>15. CASE Retrieve(r)
    BY <1>15 DEF Retrieve, Resumes, LookedUp, Hold
  <1>16. CASE Touch(r)
    BY <1>16 DEF Touch, PutBack, Release
  <1>17. CASE RetrieveFails(r)
    BY <1>17 DEF RetrieveFails, Resumes, LookedUp, StreamEnds, Raise, Release
  <1>18. CASE Restored(r)
    BY <1>18 DEF Restored, Resumes, StreamEnds, Release
  <1>19. CASE EndSession(r)
    BY <1>19 DEF EndSession, Release
  <1>20. CASE EndSessionFails(r)
    BY <1>20 DEF EndSessionFails, Release
  <1> QED BY <1>2, <1>3, <1>4, <1>5, <1>6, <1>7, <1>8, <1>9, <1>10, <1>11, <1>12, <1>13,
         <1>14, <1>15, <1>16, <1>17, <1>18, <1>19, <1>20
         DEF Goes, Elsewhere, Requests

\* The check lets no open breaker pass, and a success closes a half-open one.
LEMMA GoesPassed ==
  ASSUME LoopIInv, NEW r \in Requests, Goes(r), ~Elsewhere
  PROVE  PassedCheck(r)'
  <1>1. /\ RequestTypes /\ ProcessTypes /\ LoopInv(r) /\ r # Nobody
        /\ Nobody \notin Workers /\ (pc[r] # "new" => worker[r] \in Workers)
    BY LoopTypes
  <1> USE <1>1 DEF RequestTypes, ProcessTypes, Goto, reqVars, workerVars, LoopInv,
                   PassedCheck
  <1>2. ASSUME NEW w \in Workers, NEW k \in Kinds, ArriveRaises(r, w, k)
        PROVE  PassedCheck(r)'
    BY <1>2 DEF ArriveRaises
  <1>3. ASSUME NEW w \in Workers, NEW k \in Kinds, NEW b \in Bodies, Arrive(r, w, k, b)
        PROVE  PassedCheck(r)'
    BY <1>3 DEF Arrive
  <1>4. CASE Check(r)
    <2> DEFINE b == breaker[worker[r]]
    <2>1. pc[r] = "check" /\ b \in Breakers
      BY <1>1, <1>4 DEF Check, ProcessTypes
    <2>2. Observe(b).state \in CircuitStates
      BY <2>1, ObserveFields DEF Breakers
    <2>3. CASE Admits(b)
      <3>1. BreakerEnabled => breaker'[worker[r]].state \in {"closed", "half_open"}
        BY <1>1, <1>4, <2>1, <2>2, <2>3 DEF Check, Checked, Admits, CircuitStates
      <3>2. pc'[r] = "mask" /\ UNCHANGED <<worker, kind>>
        BY <1>1, <1>4, <2>3 DEF Check, Goto, reqVars, RequestTypes
      <3> QED BY <3>1, <3>2 DEF PassedCheck
    <2>4. CASE ~Admits(b)
      BY <1>1, <1>4, <2>4 DEF Check, Raise, Goto, RequestTypes, PassedCheck
    <2> QED BY <2>3, <2>4
  <1>5. CASE ReuseToken(r)
    BY <1>5 DEF ReuseToken, Replace
  <1>6. CASE MintToken(r)
    BY <1>6 DEF MintToken, Mint, Replace
  <1>7. CASE IndexToken(r)
    BY <1>7 DEF IndexToken, Replace
  <1>8. CASE MaskRaises(r)
    BY <1>8 DEF MaskRaises, Mint, Report, Raise
  <1>9. CASE MaskDone(r)
    <2> DEFINE b == breaker[worker[r]]
    <2>1. pc[r] = "mask" /\ b \in Breakers
      BY <1>1, <1>9 DEF MaskDone, ProcessTypes
    <2>2. /\ UNCHANGED <<worker, kind>> /\ pc'[r] \in {"send", "ending"}
          /\ kind[r] = "chat" => breaker'[worker[r]] = RecordSuccess(b)
      BY <1>1, <1>9 DEF MaskDone, Report, Goto, Guarded, reqVars, RequestTypes, ProcessTypes
    <2>3. kind[r] = "chat" /\ BreakerEnabled => RecordSuccess(b).state = "closed"
      BY <1>1, <1>9, <2>1, SuccessFields DEF LoopInv, PassedCheck, Guarded
    <2> QED BY <2>2, <2>3 DEF PassedCheck
  <1>10. CASE AuditRaises(r)
    BY <1>10 DEF AuditRaises, Report, Raise
  <1>11. CASE Forward(r)
    BY <1>11 DEF Forward, Release
  <1>12. CASE OpenStream(r)
    BY <1>12 DEF OpenStream
  <1>13. CASE UpstreamReply(r)
    BY <1>13 DEF UpstreamReply, Restoring
  <1>14. CASE UpstreamFails(r)
    BY <1>14 DEF UpstreamFails, StreamEnds, Raise, Release
  <1>15. CASE Retrieve(r)
    BY <1>15 DEF Retrieve, LookedUp
  <1>16. CASE Touch(r)
    BY <1>16 DEF Touch
  <1>17. CASE RetrieveFails(r)
    BY <1>17 DEF RetrieveFails, LookedUp, StreamEnds, Raise, Release
  <1>18. CASE Restored(r)
    BY <1>18 DEF Restored, StreamEnds, Release
  <1>19. CASE EndSession(r)
    BY <1>19 DEF EndSession, Release
  <1>20. CASE EndSessionFails(r)
    BY <1>20 DEF EndSessionFails, Release
  <1> QED BY <1>2, <1>3, <1>4, <1>5, <1>6, <1>7, <1>8, <1>9, <1>10, <1>11, <1>12, <1>13,
         <1>14, <1>15, <1>16, <1>17, <1>18, <1>19, <1>20
         DEF Goes, Elsewhere, Requests

LEMMA GoesLoop ==
  ASSUME LoopIInv, NEW r \in Requests, Goes(r), ~Elsewhere
  PROVE  OwnLoop(r) /\ LoopInv(r)' /\ \A q \in Requests \ {r} : Same(q)
  BY GoesSame, GoesOwnLoop, GoesDecides, GoesPassed DEF LoopInv

\* Whatever else happens changes no handler but those a crash ends.
LEMMA CrashLoop ==
  ASSUME LoopIInv, NEW w \in Workers, Crash(w), NEW q \in Requests
  PROVE  LoopInv(q)'
  <1>1. /\ RequestTypes /\ ProcessTypes /\ LoopInv(q) /\ Nobody \notin Workers
        /\ (pc[q] # "new" => worker[q] \in Workers)
    BY LoopTypes
  <1>2. /\ UNCHANGED <<worker, kind, outcome>>
        /\ pc'[q] = IF worker[q] = w /\ pc[q] \notin {"new", "done"} THEN "lost" ELSE pc[q]
        /\ running' = [running EXCEPT ![w] = Nobody]
        /\ breaker' = [breaker EXCEPT ![w] = NewBreaker]
    BY <1>1 DEF Crash, reqVars, RequestTypes
  <1>3. Holds(q)' /\ Undecided(q)' /\ Unplaced(q)'
    BY <1>1, <1>2 DEF ProcessTypes, LoopInv, Holds, Waits, Undecided, Unplaced,
           OnLoop
  <1>4. PassedCheck(q)'
    BY <1>1, <1>2 DEF ProcessTypes, LoopInv, PassedCheck
  <1> QED BY <1>3, <1>4 DEF LoopInv

LEMMA ElsewhereSame ==
  ASSUME Elsewhere
  PROVE  /\ UNCHANGED <<worker, kind, body, pc, text, minted, sent, reply, looked, found,
                        outcome, running, metrics, backend>>
         /\ \A q \in Requests : Same(q)
  <1>1. UNCHANGED <<worker, kind, body, pc, text, minted, sent, reply, looked, found,
                    outcome, running, metrics, backend>>
    BY DEF Elsewhere, TtlElapses, RedisExpires, AdminDelete, Cleanup, Tick, reqVars,
           answerVars, workerVars, vars
  <1> QED BY <1>1 DEF Same

LEMMA ElsewhereLoop ==
  ASSUME LoopIInv, Elsewhere, NEW q \in Requests
  PROVE  LoopInv(q)'
  <1>1. /\ RequestTypes /\ ProcessTypes /\ LoopInv(q)
        /\ (pc[q] # "new" => worker[q] \in Workers)
    BY LoopTypes
  <1>2. UNCHANGED <<worker, kind, pc, outcome, running>>
    BY ElsewhereSame
  <1>3. \A w \in Workers : breaker'[w].state = breaker[w].state
    <2>1. CASE Tick
      BY <1>1, <2>1, AgedFields DEF Tick, ProcessTypes
    <2>2. CASE ~Tick
      BY <2>2 DEF Elsewhere, TtlElapses, RedisExpires, AdminDelete, Cleanup, workerVars, vars
    <2> QED BY <2>1, <2>2
  <1> QED BY <1>1, <1>2, <1>3
         DEF LoopInv, Holds, Waits, Undecided, Unplaced, PassedCheck, OnLoop

LEMMA InitLoop == Init => LoopIInv
  BY InitInv
     DEF Init, LoopIInv, LoopInv, Holds, Waits, Undecided, Unplaced, PassedCheck, OnLoop

\* A step is some request's, a crash, or nobody's.
LEMMA Steps ==
  ASSUME [Next]_vars
  PROVE  \/ \E r \in Requests : Goes(r) /\ ~Elsewhere
         \/ \E w \in Workers : Crash(w)
         \/ Elsewhere
  BY DEF Next, Elsewhere

LEMMA NextLoop == LoopIInv /\ [Next]_vars => LoopIInv'
  <1> SUFFICES ASSUME LoopIInv, [Next]_vars PROVE LoopIInv'
    OBVIOUS
  <1>1. IInv'
    BY NextInv DEF LoopIInv
  <1>2. ASSUME NEW r \in Requests, Goes(r), ~Elsewhere, NEW q \in Requests
        PROVE  LoopInv(q)'
    BY <1>2, GoesLoop, OthersKeepLoop
  <1> QED BY <1>1, <1>2, CrashLoop, ElsewhereLoop, Steps DEF LoopIInv

LEMMA AlwaysLoopIInv == Spec => []LoopIInv
  BY InitLoop, NextLoop, PTL DEF Spec

\* A chat's text leaves its worker only while that worker's breaker is CLOSED,
\* whatever the other workers, the time and the faults do between its check, its
\* success and its send.
THEOREM ChatsSentWhenClosed == Spec => ChatSendsWhenClosed
  <1> DEFINE Step == \A r \in Requests :
               Sends(r) /\ kind[r] = "chat" /\ BreakerEnabled
                 => breaker[worker[r]].state = "closed"
  <1>1. LoopIInv /\ [Next]_vars => [Step]_vars
    <2> SUFFICES ASSUME LoopIInv, [Next]_vars, NEW r \in Requests, Sends(r), kind[r] = "chat",
                        BreakerEnabled
                 PROVE  breaker[worker[r]].state = "closed"
      OBVIOUS
    <2>1. RequestTypes /\ RequestInv(r) /\ LoopInv(r)
      BY LoopTypes
    <2>2. ~Same(r)
      BY DEF Sends, Same
    <2>3. ~(\E w \in Workers : Crash(w)) /\ ~Elsewhere
      BY <2>2, ElsewhereSame DEF Crash, Sends
    <2>4. Goes(r)
      BY <2>2, <2>3, Steps, GoesLoop
    <2>5. CASE Forward(r)
      BY <2>1, <2>5 DEF Forward, LoopInv, PassedCheck
    <2>6. CASE OpenStream(r)
      BY <2>1, <2>6 DEF OpenStream, LoopInv, Undecided
    <2>7. CASE ~Forward(r) /\ ~OpenStream(r)
      BY <2>4, <2>7
         DEF Sends, Goes, ArriveRaises, Arrive, Check, ReuseToken, MintToken, IndexToken,
             MaskRaises, MaskDone, AuditRaises, UpstreamReply, UpstreamFails, Retrieve,
             Touch, RetrieveFails, Restored, EndSession, EndSessionFails, TtlElapses,
             RedisExpires
    <2> QED BY <2>5, <2>6, <2>7
  <1> QED BY <1>1, AlwaysLoopIInv, PTL DEF Spec, ChatSendsWhenClosed

-----------------------------------------------------------------------------
(* The gauge of active sessions.                                            *)

\* A guarded request that has started and has no outcome yet.
Flying(r) ==
  kind[r] \in Guarded /\ outcome[r] = "none" /\ pc[r] \notin {"new", "done", "lost"}

Streamless(w) == \A r \in Requests : worker[r] = w => kind[r] # "stream"

\* (That the set is finite is part of the invariant: there may be any number of
\* requests, and finitely many have started.)
Counted(w) ==
  Streamless(w) =>
    IsFiniteSet(InFlight(w)) /\ metrics[w].active = Cardinality(InFlight(w))

GaugeIInv == LoopIInv /\ \A w \in Workers : Counted(w)

ActiveSame(w) == metrics'[w].active = metrics[w].active

\* What a step of r does to the gauges: nothing, its start, its end, or, for a
\* stream, anything to its own worker's.
GaugeMoves(r) ==
  LET w == worker'[r]
  IN  /\ \A v \in Workers \ {w} : ActiveSame(v)
      /\ worker[r] # Nobody => w = worker[r] /\ kind'[r] = kind[r]
      /\ \/ kind'[r] = "stream"
         \/ w = Nobody
         \/ ActiveSame(w) /\ Flying(r)' = Flying(r) /\ (Flying(r) => worker[r] = w)
         \/ /\ metrics'[w].active = metrics[w].active + 1
            /\ ~Flying(r) /\ Flying(r)' /\ worker[r] = Nobody
         \/ /\ metrics'[w].active = metrics[w].active - 1
            /\ Flying(r) /\ ~Flying(r)' /\ worker[r] = w

LEMMA GoesMoveGauge ==
  ASSUME LoopIInv, NEW r \in Requests, Goes(r), ~Elsewhere
  PROVE  GaugeMoves(r)
  <1>1. /\ RequestTypes /\ ProcessTypes /\ LoopInv(r) /\ Nobody \notin Workers
        /\ (pc[r] # "new" => worker[r] \in Workers)
    BY LoopTypes
  <1> USE <1>1 DEF RequestTypes, ProcessTypes, Gauges, LoopInv, Undecided, Unplaced,
                   GaugeMoves, ActiveSame, Flying
  <1>2. ASSUME NEW w \in Workers, NEW k \in Kinds, ArriveRaises(r, w, k)
        PROVE  GaugeMoves(r)
    BY <1>2 DEF ArriveRaises, Goto, workerVars
  <1>3. ASSUME NEW w \in Workers, NEW k \in Kinds, NEW b \in Bodies, Arrive(r, w, k, b)
        PROVE  GaugeMoves(r)
    BY <1>3 DEF Arrive, Goto, Guarded, RequestStarted
  <1>4. CASE Check(r)
    BY <1>4 DEF Check, Raise, Goto, reqVars, RequestCompleted
  <1>5. CASE ReuseToken(r)
    BY <1>5 DEF ReuseToken, reqVars, workerVars
  <1>6. CASE MintToken(r)
    BY <1>6 DEF MintToken, Goto, reqVars, workerVars
  <1>7. CASE IndexToken(r)
    BY <1>7 DEF IndexToken, Goto, reqVars, workerVars
  <1>8. CASE MaskRaises(r)
    BY <1>8 DEF MaskRaises, Raise, Goto, reqVars, RequestCompleted
  <1>9. CASE MaskDone(r)
    BY <1>9 DEF MaskDone, Goto, reqVars
  <1>10. CASE AuditRaises(r)
    BY <1>10 DEF AuditRaises, Raise, Goto, reqVars, RequestCompleted
  <1>11. CASE Forward(r)
    BY <1>11 DEF Forward, Goto, reqVars
  <1>12. CASE OpenStream(r)
    BY <1>12 DEF OpenStream, Goto, reqVars, workerVars
  <1>13. CASE UpstreamReply(r)
    BY <1>13 DEF UpstreamReply, Goto, Guarded, Restoring, reqVars
  <1>14. CASE UpstreamFails(r)
    BY <1>14 DEF UpstreamFails, StreamEnds, Raise, Goto, reqVars, RequestCompleted
  <1>15. CASE Retrieve(r)
    BY <1>15 DEF Retrieve, Resumes, Goto, reqVars
  <1>16. CASE Touch(r)
    BY <1>16 DEF Touch, Goto, reqVars
  <1>17. CASE RetrieveFails(r)
    <2>1. pc[r] \in {"restore", "touch"} /\ UNCHANGED <<worker, kind>>
      BY <1>17 DEF RetrieveFails, Resumes, reqVars
    <2>2. \/ UNCHANGED <<pc, outcome, metrics>>
          \/ kind[r] = "stream" /\ UNCHANGED metrics
          \/ kind[r] # "stream" /\ Raise(r)
      BY <1>17 DEF RetrieveFails, StreamEnds
    <2> QED BY <2>1, <2>2 DEF Raise, Guarded, Goto, RequestCompleted
  <1>18. CASE Restored(r)
    BY <1>18 DEF Restored, Resumes, StreamEnds, Goto, Guarded, reqVars, RequestCompleted
  <1>19. CASE EndSession(r)
    BY <1>19 DEF EndSession, Goto, reqVars
  <1>20. CASE EndSessionFails(r)
    BY <1>20 DEF EndSessionFails, Goto, reqVars
  <1> QED BY <1>2, <1>3, <1>4, <1>5, <1>6, <1>7, <1>8, <1>9, <1>10, <1>11, <1>12, <1>13,
         <1>14, <1>15, <1>16, <1>17, <1>18, <1>19, <1>20
         DEF Goes, Elsewhere, Requests


\* Requests of a worker that takes no stream: one more, one less or the same.
LEMMA GoesCounted ==
  ASSUME GaugeIInv, NEW r \in Requests, Goes(r), ~Elsewhere, NEW v \in Workers
  PROVE  Counted(v)'
  <1> SUFFICES ASSUME Streamless(v)'
               PROVE  /\ IsFiniteSet(InFlight(v)')
                      /\ metrics'[v].active = Cardinality(InFlight(v)')
    BY DEF Counted
  <1> DEFINE S == InFlight(v)
             w == worker'[r]
  <1>1. LoopIInv /\ Counted(v) /\ Nobody \notin Workers /\ ProcessTypes /\ RequestTypes
    BY LoopTypes DEF GaugeIInv
  <1>2. GaugeMoves(r) /\ \A q \in Requests \ {r} : Same(q)
    BY <1>1, GoesMoveGauge, GoesLoop
  <1>3. Streamless(v)
    BY <1>1, <1>2 DEF Streamless, Same, GaugeMoves
  <1>4. IsFiniteSet(S) /\ metrics[v].active = Cardinality(S)
    BY <1>1, <1>3 DEF Counted
  <1>5. \A q : q \in InFlight(v)' <=> q \in Requests /\ worker'[q] = v /\ Flying(q)'
    BY DEF InFlight, Flying
  <1>6. \A q : q \in S <=> q \in Requests /\ worker[q] = v /\ Flying(q)
    BY DEF InFlight, Flying
  <1>7. \A q \in Requests \ {r} : Flying(q)' = Flying(q) /\ worker'[q] = worker[q]
    BY <1>2 DEF Same, Flying
  <1> HIDE DEF S
  <1>8. CASE v # w
    <2>1. InFlight(v)' = S
      BY <1>1, <1>2, <1>5, <1>6, <1>7, <1>8 DEF GaugeMoves
    <2> QED BY <1>2, <1>4, <1>8, <2>1 DEF GaugeMoves, ActiveSame
  <1>9. CASE v = w
    <2>1. w # Nobody /\ kind'[r] # "stream"
      BY <1>1, <1>9 DEF Streamless
    <2>2. CASE ActiveSame(w) /\ Flying(r)' = Flying(r) /\ (Flying(r) => worker[r] = w)
      <3>1. InFlight(v)' = S
        BY <1>5, <1>6, <1>7, <1>9, <2>2
      <3> QED BY <1>4, <1>9, <2>2, <3>1 DEF ActiveSame
    <2>3. CASE /\ metrics'[w].active = metrics[w].active + 1
               /\ ~Flying(r) /\ Flying(r)' /\ worker[r] = Nobody
      <3>1. InFlight(v)' = S \cup {r} /\ r \notin S
        BY <1>5, <1>6, <1>7, <1>9, <2>3
      <3> QED BY <1>4, <1>9, <2>3, <3>1, FS_AddElement
    <2>4. CASE /\ metrics'[w].active = metrics[w].active - 1
               /\ Flying(r) /\ ~Flying(r)' /\ worker[r] = w
      <3>1. InFlight(v)' = S \ {r} /\ r \in S
        BY <1>5, <1>6, <1>7, <1>9, <2>4
      <3> QED BY <1>4, <1>9, <2>4, <3>1, FS_RemoveElement
    <2> QED BY <1>2, <2>1, <2>2, <2>3, <2>4 DEF GaugeMoves
  <1> QED BY <1>8, <1>9

\* A new process counts from zero, and nothing of the old one runs on.
LEMMA CrashCounted ==
  ASSUME GaugeIInv, NEW w \in Workers, Crash(w), NEW v \in Workers
  PROVE  Counted(v)'
  <1>1. LoopIInv /\ Counted(v) /\ ProcessTypes /\ RequestTypes
    BY DEF GaugeIInv, LoopIInv, IInv, TypeOK
  <1>2. /\ UNCHANGED <<worker, kind, outcome>>
        /\ metrics' = [metrics EXCEPT ![w] = NewMetrics]
        /\ \A q \in Requests :
             pc'[q] = IF worker[q] = w /\ pc[q] \notin {"new", "done"} THEN "lost" ELSE pc[q]
    BY DEF Crash, reqVars
  <1>3. CASE v = w
    <2>1. InFlight(v)' = {}
      BY <1>2, <1>3 DEF InFlight
    <2> QED BY <1>1, <1>2, <1>3, <2>1, FS_EmptySet DEF Counted, NewMetrics, ProcessTypes
  <1>4. CASE v # w
    <2>1. InFlight(v)' = InFlight(v)
      BY <1>2, <1>4 DEF InFlight
    <2> QED BY <1>1, <1>2, <1>4, <2>1 DEF Counted, Streamless, ProcessTypes
  <1> QED BY <1>3, <1>4

LEMMA ElsewhereCounted ==
  ASSUME GaugeIInv, Elsewhere, NEW v \in Workers
  PROVE  Counted(v)'
  <1>1. Counted(v)
    BY DEF GaugeIInv
  <1>2. UNCHANGED <<worker, kind, outcome, pc, metrics>>
    BY ElsewhereSame
  <1> QED BY <1>1, <1>2 DEF Counted, Streamless, InFlight

LEMMA InitCounted == Init => GaugeIInv
  <1> SUFFICES ASSUME Init, NEW w \in Workers PROVE Counted(w)
    BY InitLoop DEF GaugeIInv
  <1>1. InFlight(w) = {} /\ metrics[w].active = 0
    BY DEF Init, InFlight, NewMetrics
  <1> QED BY <1>1, FS_EmptySet DEF Counted

LEMMA NextCounted == GaugeIInv /\ [Next]_vars => GaugeIInv'
  <1> SUFFICES ASSUME GaugeIInv, [Next]_vars PROVE GaugeIInv'
    OBVIOUS
  <1>1. LoopIInv'
    BY NextLoop DEF GaugeIInv
  <1>2. ASSUME NEW w \in Workers PROVE Counted(w)'
    BY Steps, GoesCounted, CrashCounted, ElsewhereCounted
  <1> QED BY <1>1, <1>2 DEF GaugeIInv

\* The gauge of active sessions is exact on every worker that took no stream,
\* whichever requests fail, are refused or are lost in a crash on the way.
THEOREM GaugeIsExact == Spec => []GaugeCountsChats
  <1>1. GaugeIInv => GaugeCountsChats
    BY DEF GaugeIInv, Counted, Streamless, GaugeCountsChats
  <1> QED BY <1>1, InitCounted, NextCounted, PTL DEF Spec

-----------------------------------------------------------------------------
(* What a store holds of one session.                                       *)

\* Between store a and store b nothing changes of session q, or nothing is added.
CellSame(a, b, q) ==
  /\ q \in b.live <=> q \in a.live
  /\ \A x \in Rows : x.session = q =>
       (x \in b.rows <=> x \in a.rows) /\ (x \in b.index <=> x \in a.index)

CellShrinks(a, b, q) ==
  /\ q \in b.live => q \in a.live
  /\ \A x \in Rows : x.session = q =>
       (x \in b.rows => x \in a.rows) /\ (x \in b.index => x \in a.index)

\* Every method of a store is about one session.
LEMMA CreateSessionCells ==
  ASSUME NEW b, NEW h \in Stores, NEW s \in Sessions, NEW q \in Sessions \ {s}
  PROVE  CellSame(h, CreateSession(b, h, s), q)
  BY DEF CreateSession, Marked, Without, Stores, CellSame

LEMMA EnteredCells ==
  ASSUME NEW h \in Stores, NEW s \in Sessions, NEW t, NEW v, NEW q \in Sessions \ {s}
  PROVE  CellSame(h, Entered(h, s, t, v), q)
  BY DEF Entered, WithoutToken, Row, Stores, CellSame

LEMMA StoreIndexCells ==
  ASSUME NEW h \in Stores, NEW s \in Sessions, NEW t, NEW v, NEW q \in Sessions \ {s}
  PROVE  CellSame(h, StoreIndex(h, s, t, v), q)
  BY DEF StoreIndex, WithoutValue, Row, Stores, CellSame

LEMMA MarkedCells ==
  ASSUME NEW h \in Stores, NEW s \in Sessions, NEW q \in Sessions \ {s}
  PROVE  CellSame(h, Marked(h, s), q)
  BY DEF Marked, Stores, CellSame

LEMMA StoreEntryCells ==
  ASSUME NEW b, NEW h \in Stores, NEW s \in Sessions, NEW t \in Tokens, NEW v \in Values,
         NEW q \in Sessions \ {s}
  PROVE  CellSame(h, StoreEntry(b, h, s, t, v), q)
  <1> DEFINE e == Entered(h, s, t, v)
             m == Marked(e, s)
  <1>1. e \in Stores /\ m \in Stores
    BY EnteredFacts, MarkedFacts
  <1>2. CellSame(h, e, q) /\ CellSame(e, m, q)
    BY <1>1, EnteredCells, MarkedCells
  <1>3. CellSame(m, StoreIndex(m, s, t, v), q)
    BY <1>1, StoreIndexCells
  <1> HIDE DEF e, m
  <1>4. CellSame(h, StoreIndex(m, s, t, v), q)
    BY <1>2, <1>3 DEF CellSame
  <1> QED BY <1>2, <1>4 DEF StoreEntry, e, m

LEMMA WriteBackCells ==
  ASSUME NEW b, NEW h \in Stores, NEW x \in Rows, NEW q \in Sessions \ {x.session}
  PROVE  CellSame(h, WriteBack(b, h, x), q)
  <1> DEFINE e == Entered(h, x.session, x.token, x.value)
  <1>1. x.session \in Sessions /\ x.token \in Tokens /\ x.value \in Values
    BY DEF Rows
  <1>2. e \in Stores /\ CellSame(h, e, q)
    BY <1>1, EnteredFacts, EnteredCells
  <1>3. CellSame(e, Marked(e, x.session), q)
    BY <1>1, <1>2, MarkedCells
  <1> HIDE DEF e
  <1> QED BY <1>2, <1>3 DEF WriteBack, e, CellSame

LEMMA DestroySessionCells ==
  ASSUME NEW b, NEW h \in Stores, NEW s \in Sessions
  PROVE  /\ \A q \in Sessions \ {s} : CellSame(h, DestroySession(b, h, s), q)
         /\ CellShrinks(h, DestroySession(b, h, s), s)
  BY DEF DestroySession, Without, Stores, CellSame, CellShrinks

LEMMA PurgeExpiredCells ==
  ASSUME NEW b, NEW h \in Stores, NEW gone, NEW q \in Sessions
  PROVE  /\ CellShrinks(h, PurgeExpired(b, h, gone), q)
         /\ q \notin gone /\ b # "memory" => CellSame(h, PurgeExpired(b, h, gone), q)
  BY DEF PurgeExpired, Stores, CellSame, CellShrinks

-----------------------------------------------------------------------------
(* The invariant of a session.                                              *)

InStore(h, s) ==
  s \in store[h].live \/ \E x \in store[h].rows \cup store[h].index : x.session = s

\* A request is in no store but its worker's, and in none before it arrives.
Housed(r) ==
  \A h \in Shelves : InStore(h, r) => pc[r] # "new" /\ h = ShelfOf(r)

\* When the engine knows the session, unless something hit it.
Tracking(r) ==
  r \notin disturbed =>
    /\ pc[r] \in {"check", "mask", "index"} => r \in tracked
    /\ pc[r] = "touch" /\ backend # "vault" => r \in tracked
    /\ kind[r] = "stream" /\ pc[r] \in {"open", "await", "restore", "touch"}
         => r \notin tracked
    /\ pc[r] \in {"new", "done"} => r \notin tracked

EndedIsClean(r) ==
  backend # "vault" /\ pc[r] # "new" /\ r \notin tracked \cup disturbed
    => ~InStore(ShelfOf(r), r)

NotStale(r) == r \in stale => r \in disturbed

HasRow(r, t) == \E x \in store[ShelfOf(r)].rows : x.session = r /\ x.token = t

TokensFor(r, v) == TokensForValue(backend, store[ShelfOf(r)], r, v)

Replaced(r) == DOMAIN text[r] \ Raw(r)

Masking(r) == r \notin disturbed /\ pc[r] \in {"check", "mask", "index"}

\* While a text is masked, a search by value finds the one token that stands
\* for it, and every token that is found can be looked up.
Indexed(r) ==
  Masking(r) =>
    /\ \A i \in Replaced(r) : text[r][i] \in TokensFor(r, body[r][i])
    /\ \A v \in Values : \A t, u \in TokensFor(r, v) : t = u
    /\ \A v \in Values : \A t \in TokensFor(r, v) : HasRow(r, t)

\* Between Vault's two writes the entry is there and cannot be found by value.
HalfIndexed(r) ==
  r \notin disturbed /\ pc[r] = "index" =>
    /\ backend = "vault"
    /\ HasRow(r, <<r, Len(minted[r])>>)
    /\ \A k \in NextMention(r) : TokensFor(r, text[r][k]) = {}

SameToken(r) ==
  r \notin disturbed =>
    \A i, j \in Replaced(r) : body[r][i] = body[r][j] => text[r][i] = text[r][j]

\* What was replaced can be looked up until the answer is restored.
Stored(r) ==
  Masking(r) \/ (/\ r \notin disturbed /\ kind[r] \in {"chat", "completions"}
                 /\ pc[r] \in {"send", "await", "restore", "touch"})
    => \A i \in Replaced(r) : HasRow(r, text[r][i])

\* The text that was sent is the one masked, and nothing of the answer is looked
\* up before it is there.
SentAll(r) ==
  /\ pc[r] \in {"await", "restore", "touch"} \/ outcome[r] = "ok" => sent[r] = text[r]
  /\ pc[r] \in {"new", "check", "mask", "index", "send", "open", "await"} => looked[r] = 0
  /\ pc[r] = "ending" /\ outcome[r] = "none" => looked[r] = 0
  /\ looked[r] <= Len(reply[r])

Found(r, i) == \E p \in found[r] : p[1] = reply[r][i]

FoundAll(r) ==
  r \notin disturbed /\ kind[r] \in {"chat", "completions"} /\ reply[r] = sent[r] =>
    /\ pc[r] \in {"restore", "touch"} => \A i \in 1..looked[r] : Found(r, i)
    /\ outcome[r] = "ok" => \A i \in DOMAIN reply[r] : Found(r, i)

SessionInv(r) ==
  /\ Housed(r) /\ Tracking(r) /\ EndedIsClean(r) /\ NotStale(r)
  /\ Indexed(r) /\ HalfIndexed(r) /\ SameToken(r) /\ Stored(r)
  /\ SentAll(r) /\ FoundAll(r)

SessionIInv == LoopIInv /\ \A r \in Requests : SessionInv(r)
-----------------------------------------------------------------------------
(* What a step leaves alone.                                                *)

LEMMA SessionTypes ==
  ASSUME SessionIInv, NEW r \in Requests
  PROVE  /\ LoopIInv /\ IInv /\ TypeOK /\ StoreTypes /\ RequestTypes /\ ProcessTypes
         /\ RequestInv(r) /\ LoopInv(r) /\ SessionInv(r)
         /\ (pc[r] # "new" => worker[r] \in Workers /\ ShelfOf(r) \in Shelves)
         /\ \A h \in Shelves : store[h] \in Stores
         /\ r \in Sessions /\ Nobody \notin Workers /\ r # Nobody
  <1>1. LoopIInv /\ IInv /\ TypeOK /\ StoreTypes /\ SessionInv(r)
    BY DEF SessionIInv, LoopIInv, IInv, TypeOK
  <1> QED BY <1>1, LoopTypes, ShelfType DEF ShelfOf, StoreTypes, Shelves, Requests

\* Session q is left alone, by the request's steps and by the stores.
Left(q) ==
  /\ Same(q) /\ backend' = backend
  /\ \A h \in Shelves : CellSame(store[h], store'[h], q)
  /\ q \in tracked' <=> q \in tracked
  /\ q \in disturbed' <=> q \in disturbed
  /\ q \in stale' => q \in stale

LEMMA CellViews ==
  ASSUME SessionIInv, TypeOK', NEW q \in Requests, Left(q)
  PROVE  /\ ShelfOf(q)' = ShelfOf(q)
         /\ \A h \in Shelves : InStore(h, q)' <=> InStore(h, q)
         /\ pc[q] # "new" =>
              /\ \A t : HasRow(q, t)' <=> HasRow(q, t)
              /\ \A v : TokensFor(q, v)' = TokensFor(q, v)
  <1>1. ShelfOf(q)' = ShelfOf(q)
    BY DEF Left, Same, ShelfOf, Shelf
  <1>2. \A h \in Shelves : store[h] \in Stores /\ store'[h] \in Stores
    BY DEF SessionIInv, LoopIInv, IInv, TypeOK, StoreTypes, Shelves
  <1>3. \A h \in Shelves : CellSame(store[h], store'[h], q)
    BY DEF Left
  <1>4. ASSUME NEW h \in Shelves PROVE InStore(h, q)' <=> InStore(h, q)
    BY <1>2, <1>3 DEF Stores, CellSame, InStore
  <1>5. ASSUME pc[q] # "new", NEW t PROVE HasRow(q, t)' <=> HasRow(q, t)
    <2>1. ShelfOf(q) \in Shelves
      BY <1>5, SessionTypes
    <2> QED BY <1>1, <1>2, <1>3, <2>1 DEF Stores, CellSame, HasRow
  <1>6. ASSUME pc[q] # "new", NEW v PROVE TokensFor(q, v)' = TokensFor(q, v)
    <2>1. ShelfOf(q) \in Shelves
      BY <1>6, SessionTypes
    <2> QED BY <1>1, <1>2, <1>3, <2>1 DEF Stores, CellSame, TokensFor, TokensForValue, Left
  <1> QED BY <1>1, <1>4, <1>5, <1>6

LEMMA LeftKeeps ==
  ASSUME SessionIInv, TypeOK', NEW q \in Requests, Left(q)
  PROVE  SessionInv(q)'
  <1>1. SessionInv(q)
    BY DEF SessionIInv
  <1>2. /\ Same(q) /\ backend' = backend
        /\ (q \in tracked' <=> q \in tracked) /\ (q \in disturbed' <=> q \in disturbed)
        /\ (q \in stale' => q \in stale)
    BY DEF Left
  <1>3. /\ ShelfOf(q)' = ShelfOf(q)
        /\ \A h \in Shelves : InStore(h, q)' <=> InStore(h, q)
    BY CellViews
  <1>4. pc[q] # "new" =>
          /\ ShelfOf(q) \in Shelves
          /\ \A t : HasRow(q, t)' <=> HasRow(q, t)
          /\ \A v : TokensFor(q, v)' = TokensFor(q, v)
    BY CellViews, SessionTypes
  <1>5. Replaced(q)' = Replaced(q) /\ NextMention(q)' = NextMention(q)
    BY <1>2 DEF Same, Replaced, Raw, NextMention
  <1>6. Housed(q)' /\ Tracking(q)' /\ EndedIsClean(q)' /\ NotStale(q)'
    BY <1>1, <1>2, <1>3, <1>4
       DEF SessionInv, Same, Housed, Tracking, EndedIsClean, NotStale
  <1>7. Indexed(q)' /\ HalfIndexed(q)'
    <2>1. Masking(q)' <=> Masking(q)
      BY <1>2 DEF Same, Masking
    <2>2. Masking(q) => pc[q] # "new"
      BY DEF Masking
    <2>3. Indexed(q)'
      BY <1>1, <1>2, <1>4, <1>5, <2>1, <2>2 DEF SessionInv, Same, Indexed
    <2>4. HalfIndexed(q)'
      BY <1>1, <1>2, <1>4, <1>5 DEF SessionInv, Same, HalfIndexed
    <2> QED BY <2>3, <2>4
  <1>8. SameToken(q)' /\ Stored(q)'
    BY <1>1, <1>2, <1>4, <1>5 DEF SessionInv, Same, Masking, SameToken, Stored
  <1>9. SentAll(q)' /\ FoundAll(q)'
    BY <1>1, <1>2 DEF SessionInv, Same, SentAll, Found, FoundAll
  <1> QED BY <1>6, <1>7, <1>8, <1>9 DEF SessionInv

\* Of a session that was hit little is said.
LEMMA DisturbedKeeps ==
  ASSUME NEW q \in Requests, q \in disturbed', Housed(q)', SentAll(q)'
  PROVE  SessionInv(q)'
  BY DEF SessionInv, Tracking, EndedIsClean, NotStale, Masking, Indexed, HalfIndexed,
         SameToken, Stored, FoundAll

\* It may lose entries, and its handler may be lost in a crash.
LEMMA HitKeeps ==
  ASSUME SessionIInv, TypeOK', NEW q \in Requests, q \in disturbed',
         UNCHANGED <<backend, worker, text, sent, reply, looked, outcome>>,
         pc'[q] \in {pc[q], "lost"},
         \A h \in Shelves : CellShrinks(store[h], store'[h], q)
  PROVE  SessionInv(q)'
  <1>1. SessionInv(q) /\ \A h \in Shelves : store[h] \in Stores
    BY SessionTypes
  <1>2. \A h \in Shelves : store'[h] \in Stores
    BY DEF TypeOK, StoreTypes, Shelves
  <1>3. ShelfOf(q)' = ShelfOf(q)
    BY DEF ShelfOf, Shelf
  <1>4. ASSUME NEW h \in Shelves PROVE InStore(h, q)' => InStore(h, q)
    BY <1>1, <1>2 DEF Stores, CellShrinks, InStore
  <1>5. Housed(q)'
    BY <1>1, <1>3, <1>4 DEF SessionInv, Housed
  <1>6. SentAll(q)'
    BY <1>1 DEF SessionInv, SentAll
  <1> QED BY <1>5, <1>6, DisturbedKeeps

-----------------------------------------------------------------------------
(* The operator, the cleanup task, time, and crashes.                       *)

LEMMA CellsUntouched ==
  ASSUME NEW q, UNCHANGED store
  PROVE  \A h \in Shelves : CellSame(store[h], store'[h], q)
  BY DEF CellSame

\* A store loses something: nothing of those that are not concerned.
LEMMA OneShelf ==
  ASSUME TypeOK, NEW g \in Shelves, NEW st, store' = [store EXCEPT ![g] = st]
  PROVE  /\ store'[g] = st
         /\ \A h \in Shelves \ {g} : \A q : CellSame(store[h], store'[h], q)
         /\ \A q : CellSame(store[g], st, q) =>
              \A h \in Shelves : CellSame(store[h], store'[h], q)
         /\ \A q : CellShrinks(store[g], st, q) =>
              \A h \in Shelves : CellShrinks(store[h], store'[h], q)
  BY DEF TypeOK, StoreTypes, Shelves, CellSame, CellShrinks

LEMMA AdminDeleteSessions ==
  ASSUME SessionIInv, TypeOK', NEW w \in Workers, NEW s \in Sessions, AdminDelete(w, s),
         NEW q \in Requests
  PROVE  SessionInv(q)'
  <1> DEFINE g == Shelf(w)
             st == DestroySession(backend, store[g], s)
  <1>1. TypeOK /\ g \in Shelves /\ store[g] \in Stores
    BY SessionTypes, ShelfType
  <1>2. store' = [store EXCEPT ![g] = st]
    BY DEF AdminDelete
  <1>3. /\ \A p \in Sessions \ {s} : CellSame(store[g], st, p)
        /\ CellShrinks(store[g], st, s)
    BY <1>1, DestroySessionCells
  <1>4. /\ \A p \in Sessions \ {s} : \A h \in Shelves : CellSame(store[h], store'[h], p)
        /\ \A h \in Shelves : CellShrinks(store[h], store'[h], s)
    BY <1>1, <1>2, <1>3, OneShelf
  <1>5. UNCHANGED <<worker, kind, body, pc, text, minted, sent, reply, looked, found,
                    outcome, backend, stale>> /\ Same(q)
    BY ElsewhereSame DEF Elsewhere, AdminDelete
  <1>6. disturbed' = disturbed \cup {s} /\ tracked' \cup {s} = tracked \cup {s}
    BY DEF AdminDelete, FaultOn
  <1>7. CASE q = s
    BY <1>4, <1>5, <1>6, <1>7, HitKeeps
  <1>8. CASE q # s
    BY <1>4, <1>5, <1>6, <1>8, LeftKeeps DEF Left, Requests
  <1> QED BY <1>7, <1>8

LEMMA CleanupSessions ==
  ASSUME SessionIInv, TypeOK', NEW w \in Workers, Cleanup(w), NEW q \in Requests
  PROVE  SessionInv(q)'
  <1> DEFINE g == DaemonShelf
             st == PurgeExpired(backend, store[g], stale)
  <1>1. /\ TypeOK /\ g \in Shelves /\ store[g] \in Stores /\ SessionInv(q) /\ q \in Sessions
        /\ (pc[q] # "new" => worker[q] \in Workers)
    BY SessionTypes, ShelfType
  <1>2. store' = [store EXCEPT ![g] = st]
    BY DEF Cleanup
  <1>3. CellShrinks(store[g], st, q)
        /\ (q \notin stale /\ backend # "memory" => CellSame(store[g], st, q))
    BY <1>1, PurgeExpiredCells
  <1>4. UNCHANGED <<worker, kind, body, pc, text, minted, sent, reply, looked, found,
                    outcome, backend, stale, tracked, disturbed>> /\ Same(q)
    BY ElsewhereSame DEF Elsewhere, Cleanup, NoFault, workerVars
  <1>5. CASE q \in stale
    <2>1. q \in disturbed'
      BY <1>1, <1>4, <1>5 DEF SessionInv, NotStale
    <2> QED BY <1>1, <1>2, <1>3, <1>4, <2>1, OneShelf, HitKeeps
  <1>6. CASE q \notin stale
    <2>1. backend = "memory" => g # ShelfOf(q) \/ pc[q] = "new"
      BY <1>1, GatewayAssumption DEF DaemonShelf, ShelfOf, Shelf
    <2>2. backend = "memory" => ~InStore(g, q)
      BY <1>1, <2>1 DEF SessionInv, Housed
    <2>3. CellSame(store[g], st, q)
      BY <1>1, <1>3, <1>6, <2>2 DEF InStore, CellShrinks, CellSame, Stores
    <2> QED BY <1>1, <1>2, <1>4, <2>3, OneShelf, LeftKeeps DEF Left
  <1> QED BY <1>5, <1>6

LEMMA RedisExpiresSessions ==
  ASSUME SessionIInv, TypeOK', NEW s \in Sessions, RedisExpires(s), NEW q \in Requests
  PROVE  SessionInv(q)'
  <1> DEFINE st == DestroySession(backend, store["shared"], s)
  <1>1. TypeOK /\ "shared" \in Shelves /\ store["shared"] \in Stores
    BY SessionTypes DEF Shelves
  <1>2. store' = [store EXCEPT !["shared"] = st] /\ s \in stale
    BY DEF RedisExpires
  <1>3. /\ \A p \in Sessions \ {s} : CellSame(store["shared"], st, p)
        /\ CellShrinks(store["shared"], st, s)
    BY <1>1, DestroySessionCells
  <1>4. /\ \A p \in Sessions \ {s} : \A h \in Shelves : CellSame(store[h], store'[h], p)
        /\ \A h \in Shelves : CellShrinks(store[h], store'[h], s)
    BY <1>1, <1>2, <1>3, OneShelf
  <1>5. UNCHANGED <<worker, kind, body, pc, text, minted, sent, reply, looked, found,
                    outcome, backend, stale, tracked, disturbed>> /\ Same(q)
    BY ElsewhereSame DEF Elsewhere, RedisExpires, NoFault, workerVars
  <1>6. CASE q = s
    <2>1. q \in disturbed'
      BY <1>2, <1>5, <1>6, SessionTypes DEF SessionInv, NotStale
    <2> QED BY <1>4, <1>5, <1>6, <2>1, HitKeeps
  <1>7. CASE q # s
    BY <1>4, <1>5, <1>7, LeftKeeps DEF Left, Requests
  <1> QED BY <1>6, <1>7

LEMMA ElsewhereSessions ==
  ASSUME SessionIInv, TypeOK', Elsewhere, NEW q \in Requests
  PROVE  SessionInv(q)'
  <1>1. CASE \E w \in Workers, s \in Sessions : AdminDelete(w, s)
    BY <1>1, AdminDeleteSessions
  <1>2. CASE \E w \in Workers : Cleanup(w)
    BY <1>2, CleanupSessions
  <1>3. CASE \E s \in Sessions : RedisExpires(s)
    BY <1>3, RedisExpiresSessions
  <1>4. ASSUME NEW s \in Sessions, TtlElapses(s)
        PROVE  SessionInv(q)'
    <2>1. /\ UNCHANGED <<store, backend, tracked>> /\ Same(q)
          /\ disturbed' = disturbed \cup {s} /\ stale' = stale \cup {s}
          /\ UNCHANGED <<worker, text, sent, reply, looked, outcome, pc>>
      BY <1>4, ElsewhereSame DEF Elsewhere, TtlElapses, workerVars
    <2>2. \A h \in Shelves : CellSame(store[h], store'[h], q)
      BY <2>1, CellsUntouched
    <2>3. CASE q = s
      BY <2>1, <2>2, <2>3, HitKeeps DEF CellSame, CellShrinks
    <2>4. CASE q # s
      BY <2>1, <2>2, <2>4, LeftKeeps DEF Left
    <2> QED BY <2>3, <2>4
  <1>5. CASE Tick \/ UNCHANGED vars
    <2>1. UNCHANGED <<store, stale, tracked, disturbed>>
      BY <1>5 DEF Tick, NoFault, vars
    <2> QED BY <2>1, ElsewhereSame, CellsUntouched, LeftKeeps DEF Left
  <1> QED BY <1>1, <1>2, <1>3, <1>4, <1>5 DEF Elsewhere

\* A crash hits the requests that run on the worker.  One that is done has
\* nothing in the memory that is lost.
LEMMA CrashSessions ==
  ASSUME SessionIInv, TypeOK', NEW w \in Workers, Crash(w), NEW q \in Requests
  PROVE  SessionInv(q)'
  <1> DEFINE gone == worker[q] = w /\ pc[q] \notin {"new", "done"}
  <1>1. /\ TypeOK /\ RequestTypes /\ w \in Shelves /\ store[w] \in Stores /\ SessionInv(q)
        /\ (pc[q] # "new" => worker[q] \in Workers)
    BY SessionTypes DEF Shelves
  <1>2. /\ UNCHANGED <<backend, stale, worker, kind, body, text, minted, sent, reply, looked,
                       found, outcome>>
        /\ store' = [store EXCEPT ![w] = NewStore]
        /\ tracked' = {r \in tracked : worker[r] # w}
        /\ (gone => q \in disturbed' /\ pc'[q] = "lost")
        /\ (~gone => (q \in disturbed' <=> q \in disturbed) /\ pc'[q] = pc[q])
    BY DEF Crash, reqVars, answerVars
  <1>3. CellShrinks(store[w], NewStore, q)
    BY DEF CellShrinks, NewStore
  <1>4. \A h \in Shelves : CellShrinks(store[h], store'[h], q)
    BY <1>1, <1>2, <1>3, OneShelf
  <1>5. CASE q \in disturbed'
    <2>1. pc'[q] \in {pc[q], "lost"}
      BY <1>2
    <2> QED BY <1>2, <1>4, <1>5, <2>1, HitKeeps
  <1>6. CASE q \notin disturbed'
    <2>1. ~gone /\ q \notin disturbed /\ Same(q)
      BY <1>2, <1>6 DEF Same
    <2>2. worker[q] = w => pc[q] = "new" \/ (pc[q] = "done" /\ q \notin tracked)
      BY <1>1, <2>1 DEF SessionInv, Tracking
    <2>3. ~InStore(w, q)
      <3>1. CASE pc[q] = "new" \/ w # ShelfOf(q)
        BY <1>1, <3>1 DEF SessionInv, Housed
      <3>2. CASE pc[q] # "new" /\ w = ShelfOf(q)
        <4>1. backend = "memory" /\ worker[q] = w
          BY <3>2, GatewayAssumption DEF ShelfOf, Shelf
        <4> QED BY <1>1, <2>1, <2>2, <3>2, <4>1 DEF SessionInv, EndedIsClean
      <3> QED BY <3>1, <3>2
    <2>4. CellSame(store[w], NewStore, q)
      BY <1>1, <2>3 DEF InStore, CellSame, NewStore, Stores
    <2>5. \A h \in Shelves : CellSame(store[h], store'[h], q)
      BY <1>1, <1>2, <2>4, OneShelf
    <2>6. q \in tracked' <=> q \in tracked
      BY <1>1, <1>2, <2>1, <2>2 DEF SessionInv, Tracking
    <2> QED BY <1>2, <2>1, <2>5, <2>6, <1>6, LeftKeeps DEF Left
  <1> QED BY <1>5, <1>6

-----------------------------------------------------------------------------
(* The frame of a request's own step.                                       *)

\* It changes nothing of another session, and of its own only on its shelf.
OwnCells(r) ==
  \A h \in Shelves, q \in Sessions :
    q # r \/ h # Shelf(worker'[r]) => CellSame(store[h], store'[h], q)

Frame(r) ==
  /\ backend' = backend
  /\ OwnCells(r)
  /\ tracked' \cup {r} = tracked \cup {r}
  /\ disturbed' \in {disturbed, disturbed \cup {r}}
  /\ stale' \in {stale, stale \ {r}}
  /\ pc'[r] # "new" /\ worker'[r] \in Workers
  /\ pc[r] # "new" => worker'[r] = worker[r]

LEMMA OwnShelf ==
  ASSUME SessionIInv, NEW r \in Requests, worker'[r] \in Workers, NEW st,
         \A q \in Sessions \ {r} : CellSame(store[Shelf(worker'[r])], st, q),
         store' = [store EXCEPT ![Shelf(worker'[r])] = st]
  PROVE  OwnCells(r)
  <1>1. TypeOK /\ Shelf(worker'[r]) \in Shelves
    BY SessionTypes, ShelfType
  <1> QED BY <1>1, OneShelf DEF OwnCells

\* A new token is for the mention at hand, and only the session's own shelf
\* learns of it.
LEMMA MintCells ==
  ASSUME SessionIInv, NEW r \in Requests, pc[r] # "new", UNCHANGED <<worker, backend>>,
         NEW k \in NextMention(r), Mint(r, k)
  PROVE  OwnCells(r)
  <1> DEFINE h == ShelfOf(r)
             st == StoreEntry(backend, store[h], r, FreshToken(r), text[r][k])
  <1>1. /\ TypeOK /\ RequestTypes /\ worker[r] \in Workers /\ h \in Shelves
        /\ store[h] \in Stores /\ r \in Sessions
    BY SessionTypes
  <1>2. text[r][k] \in Values
    BY <1>1, NextMentionFacts
  <1>3. FreshToken(r) \in Tokens
    BY <1>1 DEF RequestTypes, FreshToken, Tokens
  <1>4. \A q \in Sessions \ {r} : CellSame(store[h], st, q)
    BY <1>1, <1>2, <1>3, StoreEntryCells
  <1> QED BY <1>1, <1>4, OwnShelf DEF Mint, ShelfOf

\* So with the index entry, the write-back and the end of the session.
LEMMA PutIndexCells ==
  ASSUME SessionIInv, NEW r \in Requests, pc[r] # "new", UNCHANGED <<worker, backend>>,
         NEW k \in NextMention(r), PutIndex(r, k)
  PROVE  OwnCells(r)
  <1>1. /\ worker[r] \in Workers /\ ShelfOf(r) \in Shelves
        /\ store[ShelfOf(r)] \in Stores /\ r \in Sessions
    BY SessionTypes
  <1>2. \A q \in Sessions \ {r} :
          CellSame(store[ShelfOf(r)],
                   StoreIndex(store[ShelfOf(r)], r, LastMinted(r), text[r][k]), q)
    BY <1>1, StoreIndexCells
  <1> QED BY <1>1, <1>2, OwnShelf DEF PutIndex, ShelfOf

LEMMA PutBackCells ==
  ASSUME SessionIInv, NEW r \in Requests, pc[r] = "touch", UNCHANGED <<worker, backend>>,
         PutBack(r)
  PROVE  OwnCells(r)
  <1> DEFINE t == reply[r][looked[r]]
             v == CHOOSE u \in Values : <<t, u>> \in found[r]
  <1>1. /\ RequestTypes /\ worker[r] \in Workers /\ ShelfOf(r) \in Shelves
        /\ store[ShelfOf(r)] \in Stores /\ r \in Sessions
    BY SessionTypes
  <1>2. store' = [store EXCEPT ![ShelfOf(r)] = WriteBack(backend, @, Row(r, t, v))]
    BY DEF PutBack
  <1>3. \E u \in Values : <<t, u>> \in found[r]
    BY SessionTypes DEF RequestInv, TouchHasFound
  <1>4. <<t, v>> \in found[r]
    BY <1>3
  <1> HIDE DEF t, v
  <1>5. t \in Tokens /\ v \in Values
    <2>1. found[r] \subseteq Tokens \X Values
      BY <1>1 DEF RequestTypes
    <2> QED BY <1>4, <2>1
  <1>6. Row(r, t, v) \in Rows /\ Row(r, t, v).session = r
    BY <1>1, <1>5, RowType
  <1>7. \A q \in Sessions \ {r} :
          CellSame(store[ShelfOf(r)], WriteBack(backend, store[ShelfOf(r)], Row(r, t, v)), q)
    BY <1>1, <1>6, WriteBackCells
  <1> QED BY <1>1, <1>2, <1>7, OwnShelf DEF ShelfOf

LEMMA DestroyCells ==
  ASSUME SessionIInv, NEW r \in Requests, pc[r] # "new", UNCHANGED <<worker, backend>>,
         store' = [store EXCEPT ![ShelfOf(r)] = DestroySession(backend, @, r)]
  PROVE  OwnCells(r)
  <1>1. /\ worker[r] \in Workers /\ ShelfOf(r) \in Shelves
        /\ store[ShelfOf(r)] \in Stores /\ r \in Sessions
    BY SessionTypes
  <1>2. \A q \in Sessions \ {r} :
          CellSame(store[ShelfOf(r)], DestroySession(backend, store[ShelfOf(r)], r), q)
    BY <1>1, DestroySessionCells
  <1> QED BY <1>1, <1>2, OwnShelf DEF ShelfOf

LEMMA CreateCells ==
  ASSUME SessionIInv, NEW r \in Requests, NEW w \in Workers, worker'[r] = w,
         store' = [store EXCEPT ![Shelf(w)] = CreateSession(backend, @, r)]
  PROVE  OwnCells(r)
  <1>1. Shelf(w) \in Shelves /\ store[Shelf(w)] \in Stores /\ r \in Sessions
    BY SessionTypes, ShelfType
  <1>2. \A q \in Sessions \ {r} :
          CellSame(store[Shelf(w)], CreateSession(backend, store[Shelf(w)], r), q)
    BY <1>1, CreateSessionCells
  <1> QED BY <1>1, <1>2, OwnShelf

LEMMA GoesFrame ==
  ASSUME SessionIInv, NEW r \in Requests, Goes(r), ~Elsewhere
  PROVE  Frame(r)
  <1>1. /\ TypeOK /\ RequestTypes /\ (pc[r] # "new" => worker[r] \in Workers)
        /\ (pc[r] # "new" => ShelfOf(r) \in Shelves) /\ r \in Sessions
        /\ \A h \in Shelves : store[h] \in Stores
    BY SessionTypes
  <1>2. UNCHANGED store => OwnCells(r)
    BY CellsUntouched DEF OwnCells
  <1> USE <1>1 DEF RequestTypes, Goto, reqVars, workerVars, NoFault, FaultOn, Frame
  <1>3. ASSUME NEW w \in Workers, NEW k \in Kinds, ArriveRaises(r, w, k)
        PROVE  Frame(r)
    <2>1. worker'[r] = w
      BY <1>3 DEF ArriveRaises
    <2>2. OwnCells(r)
      BY <1>2, <1>3, <2>1, CreateCells DEF ArriveRaises
    <2> QED BY <1>3, <2>1, <2>2 DEF ArriveRaises
  <1>4. CASE Check(r)
    BY <1>2, <1>4 DEF Check, Raise
  <1>5. CASE ReuseToken(r)
    BY <1>2, <1>5 DEF ReuseToken
  <1>6. CASE MaskDone(r)
    BY <1>2, <1>6 DEF MaskDone
  <1>7. CASE AuditRaises(r)
    BY <1>2, <1>7 DEF AuditRaises, Raise
  <1>8. CASE Forward(r)
    BY <1>2, <1>8 DEF Forward
  <1>9. CASE OpenStream(r)
    BY <1>2, <1>9 DEF OpenStream
  <1>10. CASE UpstreamReply(r)
    BY <1>2, <1>10 DEF UpstreamReply
  <1>11. CASE UpstreamFails(r)
    BY <1>2, <1>11 DEF UpstreamFails, StreamEnds, Raise
  <1>12. CASE Retrieve(r)
    BY <1>2, <1>12 DEF Retrieve, Resumes
  <1>13. CASE RetrieveFails(r)
    <2>1. pc[r] # "new" /\ UNCHANGED <<worker, backend, tracked>>
      BY <1>13 DEF RetrieveFails, Resumes
    <2>2. OwnCells(r) /\ stale' \in {stale, stale \ {r}}
      BY <1>2, <1>13, <2>1, PutBackCells DEF RetrieveFails, PutBack
    <2> QED BY <1>13, <2>1, <2>2 DEF RetrieveFails, StreamEnds, Raise
  <1>14. CASE Restored(r)
    BY <1>2, <1>14 DEF Restored, Resumes, StreamEnds
  <1>15. CASE EndSessionFails(r)
    <2>1. OwnCells(r)
      BY <1>2, <1>15, DestroyCells DEF EndSessionFails
    <2> QED BY <1>15, <2>1 DEF EndSessionFails
  <1>16. ASSUME NEW w \in Workers, NEW k \in Kinds, NEW b \in Bodies, Arrive(r, w, k, b)
        PROVE  Frame(r)
    <2>1. worker'[r] = w
      BY <1>16 DEF Arrive
    <2>2. OwnCells(r)
      BY <1>16, <2>1, CreateCells DEF Arrive
    <2> QED BY <1>16, <2>1, <2>2 DEF Arrive
  <1>17. CASE MintToken(r)
    <2>1. OwnCells(r)
      BY <1>17, MintCells DEF MintToken
    <2> QED BY <1>17, <2>1 DEF MintToken, Mint
  <1>18. CASE IndexToken(r)
    <2>1. OwnCells(r)
      BY <1>18, PutIndexCells DEF IndexToken
    <2> QED BY <1>18, <2>1 DEF IndexToken
  <1>19. CASE MaskRaises(r)
    <2>1. OwnCells(r)
      BY <1>19, <1>2, MintCells, PutIndexCells DEF MaskRaises
    <2> QED BY <1>19, <2>1 DEF MaskRaises, Mint, Raise
  <1>20. CASE Touch(r)
    <2>1. OwnCells(r) /\ stale' \in {stale, stale \ {r}}
      BY <1>20, PutBackCells DEF Touch, PutBack
    <2> QED BY <1>20, <2>1 DEF Touch
  <1>21. CASE EndSession(r)
    <2>1. OwnCells(r)
      BY <1>21, DestroyCells DEF EndSession
    <2> QED BY <1>21, <2>1 DEF EndSession
  <1> QED BY <1>3, <1>4, <1>5, <1>6, <1>7, <1>8, <1>9, <1>10, <1>11, <1>12, <1>13,
         <1>14, <1>15, <1>16, <1>17, <1>18, <1>19, <1>20, <1>21
         DEF Goes, Elsewhere, Requests

\* So the others are left alone, and the session stays where it is.
LEMMA GoesLeaves ==
  ASSUME SessionIInv, NEW r \in Requests, Goes(r), ~Elsewhere, NEW q \in Requests \ {r}
  PROVE  Left(q)
  <1>1. Frame(r) /\ Same(q)
    BY GoesFrame, GoesLoop, SessionTypes
  <1> QED BY <1>1 DEF Frame, OwnCells, Left, Requests

LEMMA GoesHoused ==
  ASSUME SessionIInv, TypeOK', NEW r \in Requests, Frame(r)
  PROVE  Housed(r)' /\ NotStale(r)'
  <1>1. /\ Housed(r) /\ NotStale(r) /\ r \in Sessions
        /\ \A h \in Shelves : store[h] \in Stores
    BY SessionTypes DEF SessionInv
  <1>2. \A h \in Shelves : store'[h] \in Stores
    BY DEF TypeOK, StoreTypes, Shelves
  <1>3. ShelfOf(r)' = Shelf(worker'[r]) /\ (pc[r] # "new" => ShelfOf(r)' = ShelfOf(r))
    BY DEF Frame, ShelfOf, Shelf
  <1>4. ASSUME NEW h \in Shelves, h # ShelfOf(r)', InStore(h, r)'
        PROVE  FALSE
    <2>1. CellSame(store[h], store'[h], r)
      BY <1>1, <1>3, <1>4 DEF Frame, OwnCells
    <2>2. InStore(h, r)
      BY <1>1, <1>2, <1>4, <2>1 DEF InStore, CellSame, Stores
    <2> QED BY <1>1, <1>3, <1>4, <2>2 DEF Housed
  <1> QED BY <1>1, <1>4 DEF Frame, Housed, NotStale

LEMMA GoesSentAll ==
  ASSUME SessionIInv, NEW r \in Requests, Goes(r), ~Elsewhere
  PROVE  SentAll(r)'
  <1>1. RequestTypes /\ RequestInv(r) /\ LoopInv(r) /\ SentAll(r)
    BY SessionTypes DEF SessionInv
  <1> USE <1>1 DEF RequestTypes, Goto, reqVars, answerVars, Restoring, LoopInv, Undecided,
                   RequestInv, SentIsText, SentAll
  <1>2. ASSUME NEW w \in Workers, NEW k \in Kinds, ArriveRaises(r, w, k)
        PROVE  SentAll(r)'
    BY <1>2 DEF ArriveRaises
  <1>3. ASSUME NEW w \in Workers, NEW k \in Kinds, NEW b \in Bodies, Arrive(r, w, k, b)
        PROVE  SentAll(r)'
    BY <1>3 DEF Arrive
  <1>4. CASE Check(r)
    BY <1>4 DEF Check, Raise
  <1>5. CASE ReuseToken(r)
    BY <1>5 DEF ReuseToken, Replace
  <1>6. CASE MintToken(r)
    BY <1>6 DEF MintToken, Replace
  <1>7. CASE IndexToken(r)
    BY <1>7 DEF IndexToken, Replace
  <1>8. CASE MaskRaises(r)
    BY <1>8 DEF MaskRaises, Raise
  <1>9. CASE MaskDone(r)
    BY <1>9 DEF MaskDone
  <1>10. CASE AuditRaises(r)
    BY <1>10 DEF AuditRaises, Raise
  <1>11. CASE Forward(r)
    BY <1>11 DEF Forward
  <1>12. CASE OpenStream(r)
    BY <1>12 DEF OpenStream
  <1>13. CASE UpstreamReply(r)
    BY <1>13 DEF UpstreamReply
  <1>14. CASE UpstreamFails(r)
    BY <1>14 DEF UpstreamFails, StreamEnds, Raise
  <1>15. CASE Retrieve(r)
    BY <1>15 DEF Retrieve, Resumes, LookedUp
  <1>16. CASE Touch(r)
    BY <1>16 DEF Touch
  <1>17. CASE RetrieveFails(r)
    BY <1>17 DEF RetrieveFails, StreamEnds, Raise, LookedUp
  <1>18. CASE Restored(r)
    BY <1>18 DEF Restored, Resumes, StreamEnds
  <1>19. CASE EndSession(r)
    BY <1>19 DEF EndSession
  <1>20. CASE EndSessionFails(r)
    BY <1>20 DEF EndSessionFails
  <1> QED BY <1>2, <1>3, <1>4, <1>5, <1>6, <1>7, <1>8, <1>9, <1>10, <1>11, <1>12, <1>13,
         <1>14, <1>15, <1>16, <1>17, <1>18, <1>19, <1>20
         DEF Goes, Elsewhere, Requests

\* What the engine knows of an undisturbed session is what the stores know.
LEMMA GoesTracks ==
  ASSUME SessionIInv, NEW r \in Requests, Goes(r), ~Elsewhere, r \notin disturbed'
  PROVE  Tracking(r)' /\ EndedIsClean(r)'
  <1>1. /\ RequestTypes /\ ProcessTypes /\ LoopInv(r) /\ Tracking(r) /\ EndedIsClean(r)
        /\ (pc[r] # "new" => worker[r] \in Workers /\ ShelfOf(r) \in Shelves)
        /\ \A h \in Shelves : store[h] \in Stores
    BY SessionTypes DEF SessionInv
  <1> USE <1>1 DEF RequestTypes, ProcessTypes, Goto, reqVars, workerVars, NoFault, FaultOn,
                   LoopInv, Undecided, InStore, ShelfOf, Shelf, Tracking, EndedIsClean
  <1>2. ASSUME NEW w \in Workers, NEW k \in Kinds, ArriveRaises(r, w, k)
        PROVE  Tracking(r)' /\ EndedIsClean(r)'
    BY <1>2 DEF ArriveRaises
  <1>3. ASSUME NEW w \in Workers, NEW k \in Kinds, NEW b \in Bodies, Arrive(r, w, k, b)
        PROVE  Tracking(r)' /\ EndedIsClean(r)'
    BY <1>3 DEF Arrive, Guarded
  <1>4. CASE Check(r)
    BY <1>4 DEF Check, Raise
  <1>5. CASE ReuseToken(r)
    BY <1>5 DEF ReuseToken, Replace
  <1>6. CASE MintToken(r)
    BY <1>6 DEF MintToken, Replace
  <1>7. CASE IndexToken(r)
    BY <1>7 DEF IndexToken, Replace
  <1>8. CASE MaskRaises(r)
    BY <1>8 DEF MaskRaises, Raise
  <1>9. CASE MaskDone(r)
    BY <1>9 DEF MaskDone
  <1>10. CASE AuditRaises(r)
    BY <1>10 DEF AuditRaises, Raise
  <1>11. CASE Forward(r)
    BY <1>11 DEF Forward
  <1>12. CASE OpenStream(r)
    BY <1>12 DEF OpenStream
  <1>13. CASE UpstreamReply(r)
    BY <1>13 DEF UpstreamReply
  <1>14. CASE UpstreamFails(r)
    BY <1>14 DEF UpstreamFails, StreamEnds, Raise
  <1>15. CASE Retrieve(r)
    <2> DEFINE rows == RetrieveRows(store[ShelfOf(r)], r, Mention(r))
    <2>1. rows # {} => InStore(ShelfOf(r), r)
      BY DEF RetrieveRows
    <2>2. pc[r] = "restore" /\ UNCHANGED <<backend, store, worker, kind, tracked, disturbed>>
          /\ ((pc'[r] = "touch" /\ rows # {}) \/ pc'[r] = "restore")
      BY <1>15 DEF Retrieve, Resumes
    <2> HIDE DEF rows
    <2> QED BY <2>1, <2>2
  <1>16. CASE Touch(r)
    BY <1>16 DEF Touch, PutBack
  <1>17. CASE RetrieveFails(r)
    BY <1>17 DEF RetrieveFails, StreamEnds, Raise, LookedUp
  <1>18. CASE Restored(r)
    BY <1>18 DEF Restored, Resumes, StreamEnds
  <1>19. CASE EndSession(r)
    <2>1. /\ backend # "vault" => ~InStore(ShelfOf(r), r)'
          /\ UNCHANGED <<worker, backend, kind, disturbed>> /\ pc'[r] \in {"open", "done"}
          /\ tracked' = tracked \ {r}
      <3>1. store'[ShelfOf(r)] = DestroySession(backend, store[ShelfOf(r)], r)
        BY <1>19, ShelfType, SessionTypes DEF EndSession, StoreTypes, Shelves
      <3>2. backend # "vault" => ~InStore(ShelfOf(r), r)'
        BY <1>19, <3>1 DEF EndSession, DestroySession, Without
      <3> QED BY <1>19, <3>2 DEF EndSession
    <2> QED BY <2>1
  <1>20. CASE EndSessionFails(r)
    BY <1>20 DEF EndSessionFails
  <1> QED BY <1>2, <1>3, <1>4, <1>5, <1>6, <1>7, <1>8, <1>9, <1>10, <1>11, <1>12, <1>13,
         <1>14, <1>15, <1>16, <1>17, <1>18, <1>19, <1>20
         DEF Goes, Elsewhere, Requests

-----------------------------------------------------------------------------
(* The tokens of a session.                                                 *)

TokensInv(r) == Indexed(r) /\ HalfIndexed(r) /\ SameToken(r) /\ Stored(r)

\* Before the answer is restored, an entry of the session may still be read.
Restorable(r) ==
  kind[r] \in {"chat", "completions"} /\ pc[r] \in {"send", "await", "restore", "touch"}

\* Nothing happens to the tokens, and masking or restoring does not begin anew.
LEMMA TokensUntouched ==
  ASSUME SessionIInv, NEW r \in Requests, r \notin disturbed, r \notin disturbed',
         UNCHANGED <<backend, store, worker, body, text>>,
         pc'[r] \in {"check", "mask", "index"} => pc'[r] = "mask" /\ Masking(r),
         Restorable(r)' => Restorable(r) \/ Masking(r)
  PROVE  TokensInv(r)'
  <1>1. Indexed(r) /\ SameToken(r) /\ Stored(r)
    BY SessionTypes DEF SessionInv
  <1>2. /\ \A t : HasRow(r, t)' <=> HasRow(r, t)
        /\ \A v : TokensFor(r, v)' = TokensFor(r, v)
    BY DEF HasRow, TokensFor, ShelfOf, Shelf
  <1>3. Replaced(r)' = Replaced(r) /\ NextMention(r)' = NextMention(r)
    BY DEF Replaced, Raw, NextMention
  <1>4. Masking(r)' => Masking(r)
    BY DEF Masking
  <1>5. Indexed(r)' /\ HalfIndexed(r)'
    BY <1>1, <1>2, <1>3, <1>4 DEF Indexed, HalfIndexed
  <1>6. SameToken(r)'
    BY <1>1, <1>3 DEF SameToken
  <1>7. Stored(r)'
    BY <1>1, <1>2, <1>3, <1>4 DEF Stored, Restorable
  <1> QED BY <1>5, <1>6, <1>7 DEF TokensInv

\* Tokens found by value that are unique and can be looked up are enough.
LEMMA IndexedSuffices ==
  ASSUME NEW r \in Requests, body'[r] \in Seq(Values), DOMAIN text'[r] = DOMAIN body'[r],
         pc'[r] # "index", Masking(r)', Indexed(r)'
  PROVE  TokensInv(r)'
  <1>1. \A i \in Replaced(r)' : body'[r][i] \in Values
    BY DEF Replaced
  <1>2. /\ \A i \in Replaced(r)' : text'[r][i] \in TokensFor(r, body[r][i])'
        /\ \A v \in Values : \A t, u \in TokensFor(r, v)' : t = u
        /\ \A v \in Values : \A t \in TokensFor(r, v)' : HasRow(r, t)'
    BY DEF Indexed
  <1>3. SameToken(r)' /\ Stored(r)'
    BY <1>1, <1>2 DEF SameToken, Stored
  <1> QED BY <1>3 DEF TokensInv, HalfIndexed

\* The mention at hand is replaced, and nothing else of the text.
LEMMA ReplaceOne ==
  ASSUME SessionIInv, NEW r \in Requests, NEW k \in NextMention(r), NEW t, t \notin Values,
         Replace(r, k, t), UNCHANGED body
  PROVE  /\ Replaced(r)' = Replaced(r) \cup {k} /\ k \notin Replaced(r)
         /\ text'[r][k] = t /\ text[r][k] = body[r][k] /\ text[r][k] \in Values
         /\ \A i \in Replaced(r) : text'[r][i] = text[r][i]
         /\ body'[r] \in Seq(Values) /\ DOMAIN text'[r] = DOMAIN body'[r]
         /\ k \in DOMAIN body[r]
  <1>1. TypeOK /\ RequestTypes /\ TextFromBody(r)
    BY SessionTypes DEF RequestInv
  <1>2. k \in DOMAIN text[r] /\ text[r][k] \in Values
    BY <1>1, NextMentionFacts
  <1>3. text'[r] = [text[r] EXCEPT ![k] = t]
    BY <1>1 DEF Replace, RequestTypes
  <1>4. Raw(r)' = Raw(r) \ {k} /\ k \in Raw(r)
    BY <1>1, <1>2, <1>3 DEF Raw, RequestTypes
  <1>5. text[r][k] = body[r][k]
    BY <1>1, <1>2, OwnTokenType DEF TextFromBody
  <1>6. body[r] \in Seq(Values)
    BY <1>1 DEF RequestTypes
  <1>7. DOMAIN text[r] = DOMAIN body[r] /\ DOMAIN text'[r] = DOMAIN text[r]
    BY <1>1, <1>3 DEF TextFromBody
  <1> QED BY <1>2, <1>3, <1>4, <1>5, <1>6, <1>7 DEF Replaced

LEMMA FreshNotHeld ==
  ASSUME SessionIInv, NEW r \in Requests, NEW h \in Shelves, NEW x \in Held(store[h]),
         x.session = r
  PROVE  x.token # FreshToken(r)
  <1>1. StoresHoldMinted /\ DOMAIN store = Shelves /\ RequestTypes
    BY SessionTypes, ShelfType DEF IInv
  <1>2. PICK n \in 1..Len(minted[r]) : x.token = <<r, n>>
    BY <1>1 DEF StoresHoldMinted, OwnToken
  <1> QED BY <1>1, <1>2 DEF FreshToken, RequestTypes

\* The store after a new token: it, and nothing else of the session's, is added.
LEMMA EntryAdded ==
  ASSUME NEW b \in AllBackends, NEW h \in Stores, NEW s \in Sessions, NEW t \in Tokens,
         NEW v \in Values, NEW g, g = StoreEntry(b, h, s, t, v),
         \A x \in Held(h) : x.session = s => x.token # t
  PROVE  /\ \A x \in h.rows : x.session = s => x \in g.rows
         /\ Row(s, t, v) \in g.rows
         /\ b = "vault" => g.index = h.index
         /\ b # "vault" /\ TokensForValue(b, h, s, v) = {} =>
              /\ TokensForValue(b, g, s, v) = {t}
              /\ \A u \in Values \ {v} : TokensForValue(b, g, s, u) = TokensForValue(b, h, s, u)
  <1>1. Row(s, t, v) \in Rows /\ Row(s, t, v).session = s /\ Row(s, t, v).token = t
        /\ Row(s, t, v).value = v
    BY RowType
  <1>2. /\ h.rows \subseteq Held(h) /\ h.index \subseteq Held(h)
        /\ h = [live |-> h.live, rows |-> h.rows, index |-> h.index]
    BY DEF Held, Stores
  <1>3. g.rows = WithoutToken(h.rows, s, t) \cup {Row(s, t, v)}
    BY <1>2 DEF StoreEntry, StoreIndex, Marked, Entered
  <1>4. g.rows = h.rows \cup {Row(s, t, v)}
    BY <1>2, <1>3 DEF WithoutToken
  <1>5. g.index = IF b \in {"memory", "redis"}
                  THEN WithoutValue(h.index, s, v) \cup {Row(s, t, v)} ELSE h.index
    BY <1>2 DEF StoreEntry, StoreIndex, Marked, Entered
  <1>6. ASSUME b # "vault", TokensForValue(b, h, s, v) = {}
        PROVE  /\ TokensForValue(b, g, s, v) = {t}
               /\ \A u \in Values \ {v} : TokensForValue(b, g, s, u) = TokensForValue(b, h, s, u)
    <2>1. CASE b = "local"
      BY <1>1, <1>4, <1>6, <2>1 DEF TokensForValue
    <2>2. CASE b # "local"
      <3>1. g.index = WithoutValue(h.index, s, v) \cup {Row(s, t, v)}
        BY <1>5, <1>6, <2>2 DEF AllBackends
      <3> QED BY <1>1, <1>6, <2>2, <3>1 DEF TokensForValue, WithoutValue
    <2> QED BY <2>1, <2>2
  <1> QED BY <1>1, <1>4, <1>5, <1>6

\* A session starts with nothing in any store, and with nothing replaced.
LEMMA ArriveTokens ==
  ASSUME SessionIInv, NEW r \in Requests, NEW w \in Workers, NEW k \in Kinds, NEW b \in Bodies,
         Arrive(r, w, k, b), r \notin disturbed'
  PROVE  TokensInv(r)'
  <1> DEFINE h == Shelf(w)
  <1>1. /\ TypeOK /\ RequestTypes /\ Housed(r) /\ h \in Shelves /\ store[h] \in Stores
        /\ store \in [Shelves -> Stores]
    BY SessionTypes, ShelfType DEF SessionInv, TypeOK, StoreTypes, Shelves
  <1>2. /\ pc[r] = "new" /\ pc'[r] # "index" /\ UNCHANGED <<backend, disturbed>>
        /\ text'[r] = b /\ body'[r] = b /\ worker'[r] = w /\ minted' = minted
        /\ store'[h] = CreateSession(backend, store[h], r)
        /\ pc'[r] \notin {"await", "restore", "touch"}
        /\ pc'[r] = "send" => kind'[r] = "list"
    BY <1>1 DEF Arrive, Goto, NoFault, RequestTypes
  <1>3. b \in Seq(Values)
    BY GatewayAssumption
  <1>4. Replaced(r)' = {}
    BY <1>2, <1>3 DEF Replaced, Raw
  <1>5. ~InStore(h, r)
    BY <1>1, <1>2 DEF Housed
  <1>6. \A x \in store'[h].rows \cup store'[h].index : x.session # r
    BY <1>1, <1>2, <1>5 DEF CreateSession, Marked, Without, InStore, Stores
  <1>7. ShelfOf(r)' = h
    BY <1>2 DEF ShelfOf, Shelf
  <1>8. \A v : TokensFor(r, v)' = {}
    BY <1>2, <1>6, <1>7 DEF TokensFor, TokensForValue
  <1> QED BY <1>2, <1>4, <1>8 DEF TokensInv, Indexed, HalfIndexed, SameToken, Stored

\* A token that was found by value takes the place of the mention.
LEMMA ReuseTokenTokens ==
  ASSUME SessionIInv, NEW r \in Requests, ReuseToken(r), r \notin disturbed'
  PROVE  TokensInv(r)'
  <1>1. /\ pc[r] = "mask" /\ Indexed(r) /\ RequestTypes /\ IInv /\ TypeOK
        /\ ShelfOf(r) \in Shelves /\ store[ShelfOf(r)] \in Stores
    BY SessionTypes DEF ReuseToken, SessionInv
  <1>2. UNCHANGED <<backend, store, worker, kind, body, pc, disturbed>>
    BY DEF ReuseToken, NoFault, reqVars
  <1>3. PICK k \in NextMention(r) : \E t \in Known(r, k) : Replace(r, k, t)
    BY DEF ReuseToken
  <1>4. PICK t \in Known(r, k) : Replace(r, k, t)
    BY <1>3
  <1>5. t \in TokensFor(r, text[r][k])
    BY <1>4 DEF Known, TokensFor
  <1>6. t \notin Values
    <2>1. PICK x \in Rows : x.token = t
      BY <1>1, <1>4, TokensForValueFacts DEF Known
    <2> QED BY <2>1, GatewayAssumption DEF Rows
  <1>7. /\ Replaced(r)' = Replaced(r) \cup {k} /\ text'[r][k] = t /\ text[r][k] = body[r][k]
        /\ \A i \in Replaced(r) : text'[r][i] = text[r][i]
        /\ body'[r] \in Seq(Values) /\ DOMAIN text'[r] = DOMAIN body'[r]
    BY <1>2, <1>4, <1>6, ReplaceOne
  <1>8. /\ \A u : HasRow(r, u)' <=> HasRow(r, u)
        /\ \A v : TokensFor(r, v)' = TokensFor(r, v)
    BY <1>2 DEF HasRow, TokensFor, ShelfOf, Shelf
  <1>9. Masking(r) /\ Masking(r)'
    BY <1>1, <1>2 DEF Masking
  <1>10. Indexed(r)'
    BY <1>1, <1>2, <1>5, <1>7, <1>8, <1>9 DEF Indexed
  <1> QED BY <1>1, <1>2, <1>7, <1>9, <1>10, IndexedSuffices

\* The new token t is found for its value v alone, which had none before.
LEMMA FoundByValue ==
  ASSUME SessionIInv, NEW r \in Requests, Masking(r), UNCHANGED body,
         NEW k, NEW v \in Values, NEW t,
         TokensFor(r, v) = {}, TokensFor(r, v)' = {t},
         \A u \in Values \ {v} : TokensFor(r, u)' = TokensFor(r, u),
         HasRow(r, t)', \A u : HasRow(r, u) => HasRow(r, u)',
         Replaced(r)' = Replaced(r) \cup {k}, text'[r][k] = t, v = body[r][k],
         \A i \in Replaced(r) : text'[r][i] = text[r][i]
  PROVE  Indexed(r)'
  <1>1. Indexed(r) /\ RequestTypes /\ TextFromBody(r)
    BY SessionTypes DEF SessionInv, RequestInv
  <1>2. /\ \A i \in Replaced(r) : text[r][i] \in TokensFor(r, body[r][i])
        /\ \A u \in Values : \A x, y \in TokensFor(r, u) : x = y
        /\ \A u \in Values : \A x \in TokensFor(r, u) : HasRow(r, x)
    BY <1>1 DEF Indexed
  <1>3. ASSUME NEW i \in Replaced(r) PROVE body[r][i] \in Values \ {v}
    <2>1. body[r] \in Seq(Values) /\ i \in DOMAIN body[r]
      BY <1>1 DEF Replaced, TextFromBody, RequestTypes
    <2> QED BY <1>2, <2>1
  <1>4. \A i \in Replaced(r)' : text'[r][i] \in TokensFor(r, body[r][i])'
    BY <1>2, <1>3
  <1>5. \A u \in Values : /\ \A x, y \in TokensFor(r, u)' : x = y
                         /\ \A x \in TokensFor(r, u)' : HasRow(r, x)'
    BY <1>2
  <1> QED BY <1>4, <1>5 DEF Indexed

\* A token that was found by nothing is new, and is found and looked up from now
\* on, or, in Vault, looked up only.
LEMMA MintTokenTokens ==
  ASSUME SessionIInv, NEW r \in Requests, MintToken(r), r \notin disturbed'
  PROVE  TokensInv(r)'
  <1>1. /\ pc[r] = "mask" /\ Indexed(r) /\ Stored(r) /\ SameToken(r) /\ TypeOK /\ RequestTypes
        /\ ShelfOf(r) \in Shelves /\ store[ShelfOf(r)] \in Stores /\ r \in Sessions
        /\ store \in [Shelves -> Stores] /\ backend \in AllBackends
    BY SessionTypes, GatewayAssumption
       DEF MintToken, SessionInv, TypeOK, StoreTypes, Shelves
  <1>2. UNCHANGED <<backend, worker, kind, body>> /\ r \notin disturbed
    BY DEF MintToken, NoFault, FaultOn, reqVars
  <1>3. PICK k \in NextMention(r) :
          /\ Known(r, k) = {} /\ Mint(r, k)
          /\ IF backend = "vault" THEN Goto(r, "index") /\ UNCHANGED text
                                  ELSE Replace(r, k, FreshToken(r)) /\ UNCHANGED pc
    BY DEF MintToken, FaultOn
  <1>4. PICK v \in Values : v = text[r][k] /\ \A i \in NextMention(r) : i = k
    BY <1>1, NextMentionFacts
  <1>5. PICK t \in Tokens : t = FreshToken(r) /\ t \notin Values
    <2>1. Len(minted[r]) \in Nat
      BY <1>1 DEF RequestTypes
    <2>2. FreshToken(r) \in Tokens
      BY <1>1, <2>1 DEF FreshToken, Tokens
    <2> QED BY <2>2, GatewayAssumption
  <1>6. PICK h \in Stores : h = store[ShelfOf(r)]
    BY <1>1
  <1>7. PICK g : g = StoreEntry(backend, h, r, t, v)
    OBVIOUS
  <1>8. /\ store'[ShelfOf(r)] = g /\ ShelfOf(r)' = ShelfOf(r)
        /\ t = <<r, Len(minted'[r])>>
    <2>1. minted'[r] = Append(minted[r], v) /\ minted[r] \in Seq(Values)
      BY <1>1, <1>3, <1>4 DEF Mint, RequestTypes
    <2>2. Len(minted'[r]) = Len(minted[r]) + 1
      BY <2>1
    <2>3. store'[ShelfOf(r)] = g
      BY <1>1, <1>3, <1>4, <1>5, <1>6, <1>7 DEF Mint
    <2> QED BY <1>2, <1>5, <2>2, <2>3 DEF FreshToken, ShelfOf, Shelf
  <1>9. \A x \in Held(h) : x.session = r => x.token # t
    BY <1>1, <1>5, <1>6, FreshNotHeld
  <1>10. TokensFor(r, v) = {} /\ TokensForValue(backend, h, r, v) = {}
    BY <1>3, <1>4, <1>6 DEF Known, TokensFor
  <1>11. Masking(r) /\ (pc'[r] \in {"mask", "index"} => Masking(r)')
    BY <1>1, <1>2 DEF Masking
  <1>12. /\ \A x \in h.rows : x.session = r => x \in g.rows
         /\ Row(r, t, v) \in g.rows
         /\ backend = "vault" => g.index = h.index
         /\ backend # "vault" =>
              /\ TokensForValue(backend, g, r, v) = {t}
              /\ \A u \in Values \ {v} :
                   TokensForValue(backend, g, r, u) = TokensForValue(backend, h, r, u)
    BY <1>1, <1>7, <1>9, <1>10, EntryAdded
  <1>13. HasRow(r, t)' /\ \A u : HasRow(r, u) => HasRow(r, u)'
    BY <1>6, <1>8, <1>12 DEF HasRow, Row
  <1>14. CASE backend = "vault"
    <2>1. pc'[r] = "index" /\ text' = text
      BY <1>1, <1>3, <1>14 DEF Goto, RequestTypes
    <2>2. \A u : TokensFor(r, u)' = TokensFor(r, u)
      BY <1>2, <1>6, <1>8, <1>12, <1>14 DEF TokensFor, TokensForValue
    <2>3. Replaced(r)' = Replaced(r) /\ NextMention(r)' = NextMention(r)
      BY <2>1 DEF Replaced, Raw, NextMention
    <2>4. Indexed(r)' /\ SameToken(r)' /\ Stored(r)'
      BY <1>1, <1>2, <1>11, <1>13, <2>1, <2>2, <2>3 DEF Indexed, SameToken, Stored
    <2>5. HalfIndexed(r)'
      BY <1>2, <1>4, <1>8, <1>10, <1>13, <1>14, <2>1, <2>2, <2>3 DEF HalfIndexed
    <2> QED BY <2>4, <2>5 DEF TokensInv
  <1>15. CASE backend # "vault"
    <2>1. pc'[r] = "mask" /\ Replace(r, k, t)
      BY <1>1, <1>3, <1>5, <1>15
    <2>2. /\ Replaced(r)' = Replaced(r) \cup {k} /\ text'[r][k] = t /\ v = body[r][k]
          /\ \A i \in Replaced(r) : text'[r][i] = text[r][i]
          /\ body'[r] \in Seq(Values) /\ DOMAIN text'[r] = DOMAIN body'[r]
      BY <1>2, <1>4, <1>5, <2>1, ReplaceOne
    <2>3. TokensFor(r, v)' = {t} /\ \A u \in Values \ {v} : TokensFor(r, u)' = TokensFor(r, u)
      BY <1>2, <1>6, <1>8, <1>12, <1>15 DEF TokensFor
    <2>4. Indexed(r)'
      BY <1>1, <1>2, <1>10, <1>11, <1>13, <2>2, <2>3, FoundByValue
    <2> QED BY <1>11, <2>1, <2>2, <2>4, IndexedSuffices
  <1> QED BY <1>14, <1>15

\* Vault's second write: from here the token is found by value.
LEMMA IndexTokenTokens ==
  ASSUME SessionIInv, NEW r \in Requests, IndexToken(r), r \notin disturbed'
  PROVE  TokensInv(r)'
  <1>1. /\ pc[r] = "index" /\ Indexed(r) /\ HalfIndexed(r) /\ TypeOK /\ RequestTypes
        /\ ShelfOf(r) \in Shelves /\ store[ShelfOf(r)] \in Stores /\ r \in Sessions
        /\ store \in [Shelves -> Stores] /\ IndexHasMinted(r)
    BY SessionTypes DEF IndexToken, SessionInv, RequestInv, TypeOK, StoreTypes, Shelves
  <1>2. UNCHANGED <<backend, worker, kind, body, disturbed>> /\ pc'[r] = "mask"
    BY <1>1 DEF IndexToken, NoFault, reqVars, Goto, RequestTypes
  <1>3. PICK t : t = LastMinted(r) /\ t = <<r, Len(minted[r])>>
    BY DEF LastMinted
  <1>4. PICK k \in NextMention(r) :
          /\ store' = [store EXCEPT ![ShelfOf(r)] = StoreIndex(@, r, t, text[r][k])]
          /\ Replace(r, k, t)
    BY <1>3 DEF IndexToken, PutIndex
  <1>5. PICK v \in Values : v = text[r][k] /\ \A i \in NextMention(r) : i = k
    BY <1>1, NextMentionFacts
  <1>6. t \in Tokens /\ t \notin Values
    <2>1. minted[r] # <<>> /\ minted[r] \in Seq(Values)
      BY <1>1 DEF IndexHasMinted, RequestTypes
    <2>2. Len(minted[r]) \in Nat \ {0}
      BY <2>1
    <2> QED BY <1>1, <1>3, <2>2, GatewayAssumption DEF Tokens
  <1>7. PICK h \in Stores : h = store[ShelfOf(r)]
    BY <1>1
  <1>8. store'[ShelfOf(r)] = StoreIndex(h, r, t, v) /\ ShelfOf(r)' = ShelfOf(r)
    BY <1>1, <1>2, <1>4, <1>5, <1>7 DEF ShelfOf, Shelf
  <1>9. backend = "vault" /\ HasRow(r, t) /\ TokensFor(r, v) = {} /\ r \notin disturbed
    BY <1>1, <1>2, <1>3, <1>5 DEF HalfIndexed
  <1>10. Masking(r) /\ Masking(r)'
    BY <1>1, <1>2 DEF Masking
  <1>11. Row(r, t, v).session = r /\ Row(r, t, v).token = t /\ Row(r, t, v).value = v
    BY DEF Row
  <1>12. store'[ShelfOf(r)].rows = h.rows
         /\ store'[ShelfOf(r)].index = WithoutValue(h.index, r, v) \cup {Row(r, t, v)}
    BY <1>8 DEF StoreIndex, Stores
  <1>13. \A u : HasRow(r, u)' <=> HasRow(r, u)
    BY <1>7, <1>8, <1>12 DEF HasRow
  <1>14. TokensFor(r, v)' = {t}
    BY <1>2, <1>8, <1>9, <1>11, <1>12 DEF TokensFor, TokensForValue, WithoutValue
  <1>15. \A u \in Values \ {v} : TokensFor(r, u)' = TokensFor(r, u)
    BY <1>2, <1>7, <1>8, <1>9, <1>11, <1>12 DEF TokensFor, TokensForValue, WithoutValue
  <1>16. /\ Replaced(r)' = Replaced(r) \cup {k} /\ text'[r][k] = t /\ v = body[r][k]
         /\ \A i \in Replaced(r) : text'[r][i] = text[r][i]
         /\ body'[r] \in Seq(Values) /\ DOMAIN text'[r] = DOMAIN body'[r]
    BY <1>2, <1>4, <1>5, <1>6, ReplaceOne
  <1>17. Indexed(r)'
    BY <1>2, <1>9, <1>10, <1>13, <1>14, <1>15, <1>16, FoundByValue
  <1> QED BY <1>2, <1>10, <1>16, <1>17, IndexedSuffices

\* The write-back adds nothing but the entry it read, and takes nothing away.
LEMMA TouchTokens ==
  ASSUME SessionIInv, NEW r \in Requests, Touch(r), r \notin disturbed'
  PROVE  TokensInv(r)'
  <1>1. /\ pc[r] = "touch" /\ SameToken(r) /\ Stored(r) /\ RequestTypes
        /\ ShelfOf(r) \in Shelves /\ store[ShelfOf(r)] \in Stores
        /\ store \in [Shelves -> Stores]
    BY SessionTypes DEF Touch, SessionInv, TypeOK, StoreTypes, Shelves
  <1>2. UNCHANGED <<backend, worker, kind, body, text, disturbed>> /\ pc'[r] = "restore"
    BY <1>1 DEF Touch, NoFault, reqVars, Goto, RequestTypes
  <1>3. PICK t, v : store' = [store EXCEPT ![ShelfOf(r)] = WriteBack(backend, @, Row(r, t, v))]
    BY DEF Touch, PutBack
  <1>4. PICK h \in Stores : h = store[ShelfOf(r)]
    BY <1>1
  <1>5. /\ store'[ShelfOf(r)].rows = WithoutToken(h.rows, r, t) \cup {Row(r, t, v)}
        /\ ShelfOf(r)' = ShelfOf(r)
    BY <1>1, <1>2, <1>3, <1>4
       DEF WriteBack, Entered, Marked, Row, Stores, ShelfOf, Shelf
  <1>6. Row(r, t, v).session = r /\ Row(r, t, v).token = t
    BY DEF Row
  <1>7. ASSUME NEW u, HasRow(r, u) PROVE HasRow(r, u)'
    <2>1. CASE u = t
      BY <1>5, <1>6, <2>1 DEF HasRow
    <2>2. CASE u # t
      BY <1>4, <1>5, <1>7, <2>2 DEF HasRow, WithoutToken
    <2> QED BY <2>1, <2>2
  <1>8. Replaced(r)' = Replaced(r)
    BY <1>2 DEF Replaced, Raw
  <1>9. SameToken(r)' /\ Stored(r)'
    BY <1>1, <1>2, <1>7, <1>8 DEF SameToken, Stored, Masking
  <1> QED BY <1>2, <1>9 DEF TokensInv, Indexed, HalfIndexed, Masking

LEMMA EndSessionTokens ==
  ASSUME SessionIInv, NEW r \in Requests, EndSession(r), r \notin disturbed'
  PROVE  TokensInv(r)'
  <1>1. SameToken(r) /\ RequestTypes
    BY SessionTypes DEF SessionInv
  <1>2. UNCHANGED <<body, text, disturbed>> /\ pc'[r] \in {"open", "done"}
    BY <1>1 DEF EndSession, NoFault, reqVars, Goto, RequestTypes
  <1>3. Replaced(r)' = Replaced(r)
    BY <1>2 DEF Replaced, Raw
  <1> QED BY <1>1, <1>2, <1>3
          DEF TokensInv, Indexed, HalfIndexed, Masking, SameToken, Stored

LEMMA GoesTokens ==
  ASSUME SessionIInv, NEW r \in Requests, Goes(r), ~Elsewhere, r \notin disturbed'
  PROVE  TokensInv(r)'
  <1>1. RequestTypes /\ LoopInv(r)
    BY SessionTypes
  <1> USE <1>1 DEF RequestTypes, Goto, reqVars, NoFault, FaultOn, LoopInv, Undecided
  <1>2. ASSUME NEW w \in Workers, NEW k \in Kinds, ArriveRaises(r, w, k)
        PROVE  TokensInv(r)'
    BY <1>2 DEF ArriveRaises
  <1>3. ASSUME NEW w \in Workers, NEW k \in Kinds, NEW b \in Bodies, Arrive(r, w, k, b)
        PROVE  TokensInv(r)'
    BY <1>3, ArriveTokens
  <1>4. CASE Check(r)
    BY <1>4, TokensUntouched DEF Check, Raise, Masking, Restorable
  <1>5. CASE ReuseToken(r)
    BY <1>5, ReuseTokenTokens
  <1>6. CASE MintToken(r)
    BY <1>6, MintTokenTokens
  <1>7. CASE IndexToken(r)
    BY <1>7, IndexTokenTokens
  <1>8. CASE MaskRaises(r)
    BY <1>8 DEF MaskRaises, Raise
  <1>9. CASE MaskDone(r)
    BY <1>9, TokensUntouched DEF MaskDone, Masking, Restorable
  <1>10. CASE AuditRaises(r)
    BY <1>10 DEF AuditRaises, Raise
  <1>11. CASE Forward(r)
    BY <1>11, TokensUntouched DEF Forward, Masking, Restorable
  <1>12. CASE OpenStream(r)
    BY <1>12, TokensUntouched DEF OpenStream, Masking, Restorable
  <1>13. CASE UpstreamReply(r)
    BY <1>13, TokensUntouched DEF UpstreamReply, Masking, Restorable
  <1>14. CASE UpstreamFails(r)
    BY <1>14, TokensUntouched DEF UpstreamFails, StreamEnds, Raise, Masking, Restorable
  <1>15. CASE Retrieve(r)
    BY <1>15, TokensUntouched DEF Retrieve, Resumes, LookedUp, Masking, Restorable
  <1>16. CASE Touch(r)
    BY <1>16, TouchTokens
  <1>17. CASE RetrieveFails(r)
    BY <1>17 DEF RetrieveFails, StreamEnds, Raise, LookedUp
  <1>18. CASE Restored(r)
    BY <1>18, TokensUntouched DEF Restored, Resumes, StreamEnds, Masking, Restorable
  <1>19. CASE EndSession(r)
    BY <1>19, EndSessionTokens
  <1>20. CASE EndSessionFails(r)
    BY <1>20 DEF EndSessionFails
  <1> QED BY <1>2, <1>3, <1>4, <1>5, <1>6, <1>7, <1>8, <1>9, <1>10, <1>11, <1>12, <1>13,
         <1>14, <1>15, <1>16, <1>17, <1>18, <1>19, <1>20
         DEF Goes, Elsewhere, Requests

-----------------------------------------------------------------------------
(* The answer.                                                              *)

\* What was replaced and sent is found when the answer mentions it.
LEMMA RetrieveFinds ==
  ASSUME SessionIInv, NEW r \in Requests, Retrieve(r), r \notin disturbed'
  PROVE  FoundAll(r)'
  <1>1. /\ RequestTypes /\ RequestInv(r) /\ LoopInv(r) /\ SentAll(r) /\ FoundAll(r)
        /\ Stored(r)
    BY SessionTypes DEF SessionInv
  <1> DEFINE rows == RetrieveRows(store[ShelfOf(r)], r, Mention(r))
             n == looked[r] + 1
  <1>2. /\ pc[r] = "restore" /\ looked[r] < Len(reply[r])
        /\ pc'[r] \in {"restore", "touch"} /\ looked'[r] = n
        /\ found'[r] = found[r] \cup {<<x.token, x.value>> : x \in rows}
        /\ UNCHANGED <<kind, sent, reply, outcome, disturbed>>
    BY <1>1 DEF Retrieve, Resumes, LookedUp, Goto, NoFault, reqVars, RequestTypes
  <1>3. outcome[r] = "none"
    BY <1>1, <1>2 DEF LoopInv, Undecided
  <1> SUFFICES ASSUME kind[r] \in {"chat", "completions"}, reply[r] = sent[r]
               PROVE  \A i \in 1..n : Found(r, i)'
    BY <1>2, <1>3 DEF FoundAll
  <1>4. \A i \in 1..looked[r] : Found(r, i)
    BY <1>1, <1>2 DEF FoundAll
  <1>5. n \in DOMAIN reply[r] /\ looked[r] \in Nat /\ sent[r] # <<>>
    BY <1>1, <1>2 DEF RequestTypes
  <1>6. sent[r] = text[r] /\ Raw(r) = {}
    BY <1>1, <1>2, <1>5 DEF RequestInv, SentIsText, ReadyIsMasked
  <1>7. HasRow(r, reply[r][n])
    BY <1>1, <1>2, <1>5, <1>6 DEF Stored, Replaced
  <1>8. PICK x \in rows : x.token = reply[r][n]
    BY <1>7 DEF HasRow, RetrieveRows, Mention
  <1>9. <<x.token, x.value>> \in found'[r] /\ <<x.token, x.value>>[1] = reply[r][n]
    BY <1>2, <1>8
  <1> HIDE DEF rows
  <1>10. ASSUME NEW i \in 1..n PROVE Found(r, i)'
    <2>1. CASE i = n
      BY <1>2, <1>9, <2>1 DEF Found
    <2>2. CASE i # n
      <3>1. Found(r, i)
        BY <1>4, <1>5, <2>2
      <3> QED BY <1>2, <3>1 DEF Found
    <2> QED BY <2>1, <2>2
  <1> QED BY <1>10

LEMMA GoesFound ==
  ASSUME SessionIInv, NEW r \in Requests, Goes(r), ~Elsewhere, r \notin disturbed'
  PROVE  FoundAll(r)'
  <1>1. /\ RequestTypes /\ RequestInv(r) /\ LoopInv(r) /\ SentAll(r) /\ FoundAll(r)
        /\ Stored(r)
    BY SessionTypes DEF SessionInv
  <1> USE <1>1 DEF RequestTypes, Goto, reqVars, answerVars, NoFault, FaultOn, LoopInv,
                   Undecided, FoundAll, Found
  <1>2. ASSUME NEW w \in Workers, NEW k \in Kinds, ArriveRaises(r, w, k)
        PROVE  FoundAll(r)'
    BY <1>2 DEF ArriveRaises
  <1>3. ASSUME NEW w \in Workers, NEW k \in Kinds, NEW b \in Bodies, Arrive(r, w, k, b)
        PROVE  FoundAll(r)'
    BY <1>3 DEF Arrive
  <1>4. CASE Check(r)
    BY <1>4 DEF Check, Raise
  <1>5. CASE ReuseToken(r)
    BY <1>5 DEF ReuseToken, Replace
  <1>6. CASE MintToken(r)
    BY <1>6 DEF MintToken, Replace
  <1>7. CASE IndexToken(r)
    BY <1>7 DEF IndexToken, Replace
  <1>8. CASE MaskRaises(r)
    BY <1>8 DEF MaskRaises, Raise
  <1>9. CASE MaskDone(r)
    BY <1>9 DEF MaskDone
  <1>10. CASE AuditRaises(r)
    BY <1>10 DEF AuditRaises, Raise
  <1>11. CASE Forward(r)
    BY <1>11 DEF Forward
  <1>12. CASE OpenStream(r)
    BY <1>12 DEF OpenStream
  <1>13. CASE UpstreamReply(r)
    BY <1>13 DEF UpstreamReply, Restoring, SentAll
  <1>14. CASE UpstreamFails(r)
    BY <1>14 DEF UpstreamFails, StreamEnds, Raise
  <1>15. CASE Retrieve(r)
    BY <1>15, RetrieveFinds
  <1>16. CASE Touch(r)
    BY <1>16 DEF Touch
  <1>17. CASE RetrieveFails(r)
    BY <1>17 DEF RetrieveFails, StreamEnds, Raise, LookedUp
  <1>18. CASE Restored(r)
    BY <1>18 DEF Restored, Resumes, StreamEnds, SentAll
  <1>19. CASE EndSession(r)
    BY <1>19 DEF EndSession
  <1>20. CASE EndSessionFails(r)
    BY <1>20 DEF EndSessionFails
  <1> QED BY <1>2, <1>3, <1>4, <1>5, <1>6, <1>7, <1>8, <1>9, <1>10, <1>11, <1>12, <1>13,
         <1>14, <1>15, <1>16, <1>17, <1>18, <1>19, <1>20
         DEF Goes, Elsewhere, Requests
-----------------------------------------------------------------------------
(* The theorems.                                                            *)

LEMMA GoesSessions ==
  ASSUME SessionIInv, TypeOK', NEW r \in Requests, Goes(r), ~Elsewhere, NEW q \in Requests
  PROVE  SessionInv(q)'
  <1>1. CASE q # r
    BY <1>1, GoesLeaves, LeftKeeps
  <1>2. CASE q = r
    <2>1. Housed(r)' /\ NotStale(r)' /\ SentAll(r)'
      BY GoesFrame, GoesHoused, GoesSentAll
    <2>2. CASE r \in disturbed'
      BY <1>2, <2>1, <2>2, DisturbedKeeps
    <2>3. CASE r \notin disturbed'
      BY <1>2, <2>1, <2>3, GoesTracks, GoesTokens, GoesFound DEF SessionInv, TokensInv
    <2> QED BY <2>2, <2>3
  <1> QED BY <1>1, <1>2

LEMMA InitSessions == Init => SessionIInv
  <1> SUFFICES ASSUME Init, NEW r \in Requests PROVE SessionInv(r)
    BY InitLoop DEF SessionIInv
  <1>1. \A h \in Shelves : ~InStore(h, r)
    BY DEF Init, Shelves, InStore, NewStore
  <1>2. pc[r] = "new" /\ outcome[r] = "none" /\ looked[r] = 0 /\ reply[r] = <<>>
        /\ text[r] = <<>> /\ stale = {} /\ tracked = {}
    BY DEF Init
  <1> QED BY <1>1, <1>2
          DEF SessionInv, Housed, Tracking, EndedIsClean, NotStale, Masking, Indexed,
              HalfIndexed, SameToken, Replaced, Stored, SentAll, FoundAll

LEMMA NextSessions == SessionIInv /\ [Next]_vars => SessionIInv'
  <1> SUFFICES ASSUME SessionIInv, [Next]_vars PROVE SessionIInv'
    OBVIOUS
  <1>1. LoopIInv' /\ TypeOK'
    BY NextLoop DEF SessionIInv, LoopIInv, IInv
  <1>2. ASSUME NEW q \in Requests PROVE SessionInv(q)'
    BY <1>1, Steps, GoesSessions, CrashSessions, ElsewhereSessions
  <1> QED BY <1>1, <1>2 DEF SessionIInv

LEMMA AlwaysSessionIInv == Spec => []SessionIInv
  BY InitSessions, NextSessions, PTL DEF Spec

\* Whatever the other sessions, the operator and the faults do, a value has one
\* token in its session, and no two values share one.
THEOREM ValuesKeepTokens == Spec => []OneTokenPerValue
  <1>1. SessionIInv => OneTokenPerValue
    <2> SUFFICES ASSUME SessionIInv, NEW r \in Requests, NEW i \in Replaced(r),
                        NEW j \in Replaced(r)
                 PROVE  /\ text[r][i] = text[r][j] => body[r][i] = body[r][j]
                        /\ body[r][i] = body[r][j] /\ r \notin disturbed
                             => text[r][i] = text[r][j]
      BY DEF OneTokenPerValue, Replaced
    <2>1. RequestTypes /\ TextFromBody(r) /\ SameToken(r)
      BY SessionTypes DEF RequestInv, SessionInv
    <2>2. text[r][i] \notin Values /\ text[r][j] \notin Values
          /\ i \in DOMAIN text[r] /\ j \in DOMAIN text[r]
      BY DEF Replaced, Raw
    <2>3. body[r] \in Seq(Values) /\ i \in DOMAIN body[r] /\ j \in DOMAIN body[r]
      BY <2>1, <2>2 DEF RequestTypes, TextFromBody
    <2>4. OwnToken(r, text[r][i], body[r][i]) /\ OwnToken(r, text[r][j], body[r][j])
      BY <2>1, <2>2, <2>3 DEF TextFromBody
    <2>5. text[r][i] = text[r][j] => body[r][i] = body[r][j]
      BY <2>4 DEF OwnToken
    <2> QED BY <2>1, <2>5 DEF SameToken
  <1> QED BY <1>1, AlwaysSessionIInv, PTL

\* What the engine has forgotten no store remembers, whichever process, cleanup,
\* write-back or crash comes between.
THEOREM EndedSessionsAreGone == Spec => []EndedLeavesNothing
  <1>1. SessionIInv => EndedLeavesNothing
    <2> SUFFICES ASSUME SessionIInv, NEW r \in Requests, backend # "vault", pc[r] # "new",
                        r \notin tracked \cup disturbed
                 PROVE  ~HasTrace(r)
      BY DEF EndedLeavesNothing
    <2>1. Housed(r) /\ EndedIsClean(r) /\ DOMAIN store = Shelves
      BY SessionTypes, ShelfType DEF SessionInv
    <2>2. \A h \in Shelves : ~InStore(h, r)
      BY <2>1 DEF Housed, EndedIsClean
    <2> QED BY <2>1, <2>2 DEF HasTrace, InStore
  <1> QED BY <1>1, AlwaysSessionIInv, PTL

\* An answer that repeats the masked text reaches the client as the original
\* text, unless this very session was hit.
THEOREM AnswersAreRestored == Spec => []RestoresWhatItMasked
  <1>1. SessionIInv => RestoresWhatItMasked
    <2> SUFFICES ASSUME SessionIInv, NEW r \in Requests, kind[r] \in {"chat", "completions"},
                        outcome[r] = "ok", reply[r] = sent[r], r \notin disturbed
                 PROVE  Shown(r) = body[r]
      BY DEF RestoresWhatItMasked, RoundTrip
    <2>1. /\ RequestTypes /\ TextFromBody(r) /\ SentAll(r) /\ FoundAll(r) /\ IInv
          /\ FaithfulRestoration
      BY SessionTypes, InvIsolates DEF RequestInv, SessionInv
    <2>2. sent[r] = text[r]
      BY <2>1 DEF SentAll
    <2>3. DOMAIN reply[r] = DOMAIN body[r]
      BY <2>1, <2>2 DEF TextFromBody
    <2>4. ASSUME NEW i \in DOMAIN reply[r]
          PROVE  Shown(r)[i] = body[r][i]
      <3>1. \E p \in found[r] : p[1] = reply[r][i]
        BY <2>1 DEF FoundAll, Found
      <3>2. PICK p \in found[r] :
              p[1] = reply[r][i] /\ p = CHOOSE x \in found[r] : x[1] = reply[r][i]
        BY <3>1
      <3>3. body[r][i] = p[2]
        BY <2>1, <3>2 DEF FaithfulRestoration
      <3>4. Shown(r)[i] = p[2]
        BY <3>1, <3>2 DEF Shown
      <3> QED BY <3>3, <3>4
    <2>5. body[r] \in Seq(Values)
      BY <2>1 DEF RequestTypes
    <2>6. body[r] = [i \in DOMAIN body[r] |-> body[r][i]]
      BY <2>5
    <2>7. Shown(r) = [i \in DOMAIN reply[r] |-> Shown(r)[i]]
      BY DEF Shown
    <2> QED BY <2>3, <2>4, <2>6, <2>7
  <1> QED BY <1>1, AlwaysSessionIInv, PTL
=============================================================================
