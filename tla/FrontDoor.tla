------------------------------ MODULE FrontDoor -----------------------------
(***************************************************************************)
(* The middleware a call passes before an endpoint sees it, in one worker    *)
(* process: main.py adds it innermost first, so a call meets CORS, the size   *)
(* limit, authentication and the rate limiter in this order.  Every layer     *)
(* awaits the next one, and between two layers other calls run.  The layers   *)
(* that only add headers to the answer (timing, security headers, the         *)
(* request id, all inside the rate limiter) are left out.                     *)
(*                                                                           *)
(* Time: the limiter keeps time.time() of each admission, which is not        *)
(* monotonic.  age[c] is now - ts by that clock, elapsed[c] the time that     *)
(* really passed; both stop at Horizon, beyond which no comparison differs.   *)
(***************************************************************************)
EXTENDS Integers, FiniteSets

CONSTANTS
  Clients,            \* client addresses
  Calls,              \* calls that are made; a call answered 429 is made again
  Mixes,              \* who makes the calls, and what they look like
  KeysConfigured,     \* settings.GATEWAY_API_KEYS is not empty
  RateLimited,        \* settings.RATE_LIMIT_ENABLED
  Limit,              \* settings.RATE_LIMIT_RPM
  Window,             \* window_seconds, in ticks
  MaxSets             \* how often the clock is set, by one tick (a bound)

Shapes == [path : {"api", "health", "public", "preflight"},
           key : {"good", "bad", "undecodable"},
           length : {"fits", "big"}]

ASSUME FrontDoorAssumption ==
  /\ IsFiniteSet(Calls)
  /\ Mixes \subseteq [client : [Calls -> Clients], shape : [Calls -> Shapes]]
  /\ KeysConfigured \in BOOLEAN /\ RateLimited \in BOOLEAN
  /\ Limit \in Nat \ {0} /\ Window \in Nat \ {0} /\ MaxSets \in Nat

VARIABLES
  client, shape,      \* who makes a call and what it looks like
  pc,                 \* the layer a call is at
  status,             \* the answer to its last attempt, 0 before
  window,             \* _requests[k]: the calls whose time stamp is kept
  age, elapsed,       \* see above, for calls that were admitted
  behind, ahead       \* by how much the clock was set back and forward in all

callVars == <<client, shape, pc, status>>
timeVars == <<age, elapsed, behind, ahead>>
vars == <<callVars, window, timeVars>>

Horizon == Window + MaxSets

Init ==
  /\ \E m \in Mixes : client = m.client /\ shape = m.shape
  /\ pc = [c \in Calls |-> "new"]
  /\ status = [c \in Calls |-> 0]
  /\ window = [k \in Clients |-> {}]
  /\ age = [c \in Calls |-> Horizon]
  /\ elapsed = [c \in Calls |-> Horizon]
  /\ behind = 0 /\ ahead = 0

\* The layer that call_next() of a layer leads to.
Inner(layer) ==
  CASE layer = "cors" -> "size" [] layer = "size" -> "auth"
    [] layer = "auth" -> "limit" [] layer = "limit" -> "handler"

Pass(c) == pc' = [pc EXCEPT ![c] = Inner(pc[c])] /\ UNCHANGED status

Answer(c, s) ==
  /\ status' = [status EXCEPT ![c] = s]
  /\ pc' = [pc EXCEPT ![c] = "answered"]

Arrive(c) ==
  /\ pc[c] = "new"
  /\ pc' = [pc EXCEPT ![c] = "cors"]
  /\ UNCHANGED <<client, shape, status, window, timeVars>>

\* CORSMiddleware answers a preflight itself, with 400 if it does not allow it.
Cors(c) ==
  /\ pc[c] = "cors"
  /\ IF shape[c].path = "preflight" THEN \E s \in {200, 400} : Answer(c, s) ELSE Pass(c)
  /\ UNCHANGED <<client, shape, window, timeVars>>

\* By the Content-Length alone, which the server has checked to be a number.
SizeLimit(c) ==
  /\ pc[c] = "size"
  /\ IF shape[c].length = "big" THEN Answer(c, 413) ELSE Pass(c)
  /\ UNCHANGED <<client, shape, window, timeVars>>

Accepted(s) == s.path \in {"health", "public"} \/ ~KeysConfigured \/ s.key = "good"

Authenticate_Forbids(c) ==
  /\ pc[c] = "auth"
  /\ IF Accepted(shape[c]) THEN Pass(c) ELSE Answer(c, 403)
  /\ UNCHANGED <<client, shape, window, timeVars>>

\* compare_digest() of a key that is not ASCII raises.
Authenticate(c) ==
  /\ pc[c] = "auth"
  /\ IF Accepted(shape[c]) THEN Pass(c)
     ELSE Answer(c, IF shape[c].key = "undecodable" THEN 500 ELSE 401)
  /\ UNCHANGED <<client, shape, window, timeVars>>

Counted(s) == RateLimited /\ s.path # "health"

Uncounted(c) ==
  /\ pc[c] = "limit" /\ ~Counted(shape[c])
  /\ Pass(c)
  /\ UNCHANGED <<client, shape, window, timeVars>>

\* The entries is_allowed() keeps: ts > now - window_seconds.
Kept_EdgeDropped(k) == {c \in window[k] : age[c] + 1 < Window}

Kept_EdgeStays(k) == {c \in window[k] : age[c] <= Window}

Kept_Everything(k) == window[k]

Kept(k) == {c \in window[k] : age[c] < Window}

\* is_allowed() has no await in it and holds a lock: one step.
Admit(c) ==
  LET k == client[c]
  IN  /\ pc[c] = "limit" /\ Counted(shape[c])
      /\ Cardinality(Kept(k)) < Limit
      /\ window' = [window EXCEPT ![k] = Kept(k) \cup {c}]
      /\ age' = [age EXCEPT ![c] = 0]
      /\ elapsed' = [elapsed EXCEPT ![c] = 0]
      /\ Pass(c)
      /\ UNCHANGED <<client, shape, behind, ahead>>

\* A rejected call leaves no time stamp.
Reject(c) ==
  LET k == client[c]
  IN  /\ pc[c] = "limit" /\ Counted(shape[c])
      /\ Cardinality(Kept(k)) >= Limit
      /\ window' = [window EXCEPT ![k] = Kept(k)]
      /\ Answer(c, 429)
      /\ UNCHANGED <<client, shape, timeVars>>

\* The endpoint answers, or raises into global_exception_handler.
Handle(c) ==
  /\ pc[c] = "handler"
  /\ \E s \in {200, 500} : Answer(c, s)
  /\ UNCHANGED <<client, shape, window, timeVars>>

\* A client that was told to retry does.
Retry(c) ==
  /\ pc[c] = "answered" /\ status[c] = 429
  /\ pc' = [pc EXCEPT ![c] = "cors"]
  /\ status' = [status EXCEPT ![c] = 0]
  /\ UNCHANGED <<client, shape, window, timeVars>>

Older(n) == IF n < Horizon THEN n + 1 ELSE n

Tick ==
  /\ age' = [c \in Calls |-> Older(age[c])]
  /\ elapsed' = [c \in Calls |-> Older(elapsed[c])]
  /\ UNCHANGED <<callVars, window, behind, ahead>>

SetBack ==
  /\ behind + ahead < MaxSets
  /\ behind' = behind + 1
  /\ age' = [c \in Calls |-> age[c] - 1]
  /\ UNCHANGED <<callVars, window, elapsed, ahead>>

SetForward ==
  /\ behind + ahead < MaxSets
  /\ ahead' = ahead + 1
  /\ age' = [c \in Calls |-> Older(age[c])]
  /\ UNCHANGED <<callVars, window, elapsed, behind>>

Goes(c) ==
  \/ Cors(c) \/ SizeLimit(c) \/ Authenticate(c) \/ Uncounted(c)
  \/ Admit(c) \/ Reject(c) \/ Handle(c) \/ Retry(c)

Next ==
  \/ \E c \in Calls : Arrive(c) \/ Goes(c)
  \/ Tick \/ SetBack \/ SetForward

Spec == Init /\ [][Next]_vars

\* The loop runs every layer, endpoints end, clients retry, time passes.
Fairness == (\A c \in Calls : WF_vars(Goes(c))) /\ WF_vars(Tick)

FairSpec == Spec /\ Fairness
-----------------------------------------------------------------------------
Layers == {"new", "cors", "size", "auth", "limit", "handler", "answered"}

\* The type invariant of the front door.
TypeOK ==
  /\ client \in [Calls -> Clients]
  /\ shape \in [Calls -> Shapes]
  /\ pc \in [Calls -> Layers]
  /\ status \in [Calls -> {0, 200, 400, 401, 413, 429, 500}]
  /\ window \in [Clients -> SUBSET Calls]
  /\ age \in [Calls -> -MaxSets..Horizon]
  /\ elapsed \in [Calls -> 0..Horizon]
  /\ behind \in 0..MaxSets /\ ahead \in 0..MaxSets

\* The calls of client k admitted less than t ago, in real time.
Recent(k, t) == {c \in Calls : client[c] = k /\ elapsed[c] < t}

\* The limiter's promise (rate_limit.py:21): of a client's calls no more than the
\* limit are let through in any window, however they interleave; setting the
\* clock forward shortens that window by no more than it was set.
WindowBound ==
  \A k \in Clients : Cardinality(Recent(k, Window - ahead)) <= Limit

Rejected(c) == status[c] # 429 /\ status'[c] = 429

\* Nobody is turned away for the calls of others, for calls that were
\* rejected, or for calls that are out of the window: a 429 means that the
\* client has had its limit of calls in the last window, lengthened by no more
\* than the clock was set back (rate_limit.py:36-52).
NoFalseRejection ==
  [][\A c \in Calls : Rejected(c) =>
       Cardinality(Recent(client[c], Window + behind)) >= Limit]_vars

\* A client that retries gets through in the end: rejections do not prolong
\* the block (rate_limit.py:48-49), and every other call is answered.
EveryCallAnswered ==
  \A c \in Calls : pc[c] = "cors" ~> pc[c] = "answered" /\ status[c] # 429
=============================================================================
