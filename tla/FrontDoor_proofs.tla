-------------------------- MODULE FrontDoor_proofs --------------------------
(***************************************************************************)
(* Theorems about the middleware, for every set of clients and calls, every  *)
(* limit and window, and a clock that is set as often as one likes: the       *)
(* limiter lets no more than its limit through in any window, and turns       *)
(* nobody away who has not had that limit.                                   *)
(*                                                                         *)
(* Two things make it so: the clock of the limiter and real time differ by    *)
(* no more than the clock was set (Drift), and what is dropped from a window  *)
(* was out of it when it was dropped (RecentKept).                            *)
(***************************************************************************)
EXTENDS FrontDoor, FiniteSetTheorems, TLAPS

\* The age the limiter sees and the time that passed.
Drift ==
  \A c \in Calls : age[c] - ahead <= elapsed[c] /\ elapsed[c] <= age[c] + behind

\* A call that counts is in the window of its client.
RecentKept ==
  \A c \in Calls : elapsed[c] < Window - ahead => c \in window[client[c]]

WithinLimit == \A k \in Clients : Cardinality(window[k]) <= Limit

\* A window holds calls of its own client.
OwnWindow == \A k \in Clients : \A c \in window[k] : client[c] = k

IInv == TypeOK /\ Drift /\ RecentKept /\ WithinLimit /\ OwnWindow
-----------------------------------------------------------------------------
LEMMA WindowFinite ==
  ASSUME TypeOK, NEW k \in Clients, NEW S \in SUBSET window[k]
  PROVE  /\ IsFiniteSet(S) /\ Cardinality(S) \in Nat
         /\ Cardinality(S) <= Cardinality(window[k])
  <1>1. window[k] \subseteq Calls
    BY DEF TypeOK
  <1>2. IsFiniteSet(window[k])
    BY <1>1, FS_Subset, FrontDoorAssumption
  <1> QED BY <1>2, FS_Subset, FS_CardinalityType

LEMMA OlderFacts ==
  ASSUME NEW n \in Int, n <= Horizon
  PROVE  Older(n) \in Int /\ Older(n) <= Horizon /\ Older(n) >= n /\ Older(n) <= n + 1
         /\ (n < Horizon => Older(n) = n + 1)
  BY FrontDoorAssumption DEF Older, Horizon

\* A layer that looks at one call and changes nothing but its pc and status.
Moves(c) ==
  /\ pc' = [pc EXCEPT ![c] = pc'[c]]
  /\ status' = [status EXCEPT ![c] = status'[c]]
  /\ UNCHANGED <<client, shape, window, timeVars>>

LEMMA MovesKeeps ==
  ASSUME IInv, NEW c \in Calls, Moves(c),
         pc'[c] \in Layers, status'[c] \in {0, 200, 400, 401, 413, 429, 500}
  PROVE  IInv'
  <1>1. TypeOK'
    BY DEF Moves, timeVars, IInv, TypeOK
  <1>2. Drift' /\ RecentKept' /\ WithinLimit' /\ OwnWindow'
    BY DEF Moves, timeVars, IInv, Drift, RecentKept, WithinLimit, OwnWindow
  <1> QED BY <1>1, <1>2 DEF IInv

LEMMA LayersKeep ==
  ASSUME IInv, NEW c \in Calls,
         Arrive(c) \/ Cors(c) \/ SizeLimit(c) \/ Authenticate(c) \/ Uncounted(c)
           \/ Handle(c) \/ Retry(c)
  PROVE  IInv'
  <1>1. TypeOK
    BY DEF IInv
  <1>2. Moves(c)
    BY <1>1 DEF Arrive, Cors, SizeLimit, Authenticate, Uncounted, Handle, Retry, Pass,
                Answer, Moves, TypeOK
  <1>3. pc'[c] \in Layers
    BY <1>1 DEF Arrive, Cors, SizeLimit, Authenticate, Uncounted, Handle, Retry, Pass,
                Inner, Answer, TypeOK, Layers
  <1>4. status'[c] \in {0, 200, 400, 401, 413, 429, 500}
    BY <1>1 DEF Arrive, Cors, SizeLimit, Authenticate, Uncounted, Handle, Retry, Pass,
                Answer, TypeOK
  <1> QED BY <1>2, <1>3, <1>4, MovesKeeps

\* The limiter drops what is out of the window and adds the call, if at all.
LEMMA AdmitKeeps ==
  ASSUME IInv, NEW c \in Calls, Admit(c)
  PROVE  IInv'
  <1> DEFINE k == client[c]
  <1>1. TypeOK /\ k \in Clients /\ Kept(k) \in SUBSET window[k]
    BY DEF IInv, TypeOK, Kept
  <1>2. /\ pc[c] = "limit" /\ Cardinality(Kept(k)) < Limit
        /\ window' = [window EXCEPT ![k] = Kept(k) \cup {c}]
        /\ age' = [age EXCEPT ![c] = 0] /\ elapsed' = [elapsed EXCEPT ![c] = 0]
        /\ pc' = [pc EXCEPT ![c] = "handler"]
        /\ UNCHANGED <<client, shape, status, behind, ahead>>
    BY DEF Admit, Pass, Inner
  <1>3. TypeOK'
    BY <1>1, <1>2, FrontDoorAssumption DEF TypeOK, Layers, Horizon
  <1>4. Drift'
    BY <1>2 DEF IInv, TypeOK, Drift
  <1>5. RecentKept'
    <2> SUFFICES ASSUME NEW d \in Calls, elapsed'[d] < Window - ahead
                 PROVE  d \in window'[client[d]]
      BY <1>2 DEF RecentKept
    <2>1. CASE d = c
      BY <1>1, <1>2, <2>1 DEF TypeOK
    <2>2. CASE d # c
      <3>1. elapsed[d] < Window - ahead /\ d \in window[client[d]]
        BY <1>1, <1>2, <2>2 DEF IInv, RecentKept, TypeOK
      <3>2. age[d] < Window
        BY <1>1, <3>1, FrontDoorAssumption DEF IInv, Drift, TypeOK, Horizon
      <3> QED BY <1>1, <1>2, <3>1, <3>2 DEF Kept, TypeOK
    <2> QED BY <2>1, <2>2
  <1>6. WithinLimit'
    <2>1. IsFiniteSet(Kept(k)) /\ Cardinality(Kept(k)) \in Nat
      BY <1>1, WindowFinite
    <2>2. Cardinality(Kept(k) \cup {c}) \in {Cardinality(Kept(k)), Cardinality(Kept(k)) + 1}
      BY <2>1, FS_AddElement
    <2>3. Cardinality(Kept(k) \cup {c}) <= Limit
      BY <1>2, <2>1, <2>2, FrontDoorAssumption
    <2> QED BY <1>1, <1>2, <2>3 DEF IInv, TypeOK, WithinLimit
  <1>7. OwnWindow'
    BY <1>1, <1>2 DEF IInv, TypeOK, OwnWindow
  <1> QED BY <1>3, <1>4, <1>5, <1>6, <1>7 DEF IInv

LEMMA RejectKeeps ==
  ASSUME IInv, NEW c \in Calls, Reject(c)
  PROVE  IInv'
  <1> DEFINE k == client[c]
  <1>1. TypeOK /\ k \in Clients /\ Kept(k) \in SUBSET window[k]
    BY DEF IInv, TypeOK, Kept
  <1>2. /\ window' = [window EXCEPT ![k] = Kept(k)]
        /\ pc' = [pc EXCEPT ![c] = "answered"] /\ status' = [status EXCEPT ![c] = 429]
        /\ UNCHANGED <<client, shape, age, elapsed, behind, ahead>>
    BY DEF Reject, Answer, timeVars
  <1>3. TypeOK'
    BY <1>1, <1>2 DEF TypeOK, Layers
  <1>4. Drift'
    BY <1>2 DEF IInv, Drift
  <1>5. RecentKept'
    <2> SUFFICES ASSUME NEW d \in Calls, elapsed[d] < Window - ahead
                 PROVE  d \in window'[client[d]]
      BY <1>2 DEF RecentKept
    <2>1. d \in window[client[d]]
      BY DEF IInv, RecentKept
    <2>2. age[d] < Window
      BY <1>1, FrontDoorAssumption DEF IInv, Drift, TypeOK, Horizon
    <2> QED BY <1>1, <1>2, <2>1, <2>2 DEF Kept, TypeOK
  <1>6. WithinLimit'
    <2>1. Cardinality(Kept(k)) <= Limit
      BY <1>1, WindowFinite, FrontDoorAssumption, FS_Subset DEF IInv, WithinLimit
    <2> QED BY <1>1, <1>2, <2>1 DEF IInv, TypeOK, WithinLimit
  <1>7. OwnWindow'
    BY <1>1, <1>2 DEF IInv, TypeOK, OwnWindow
  <1> QED BY <1>3, <1>4, <1>5, <1>6, <1>7 DEF IInv

\* Time passes, and the clock is set.
LEMMA TimeKeeps ==
  ASSUME IInv, Tick \/ SetBack \/ SetForward
  PROVE  IInv'
  <1>1. TypeOK /\ Drift
    BY DEF IInv
  <1>2. UNCHANGED <<client, shape, pc, status, window>>
    BY DEF Tick, SetBack, SetForward, callVars
  <1>3. \A c \in Calls : age[c] \in Int /\ age[c] <= Horizon
                         /\ elapsed[c] \in Nat /\ elapsed[c] <= Horizon
    BY <1>1, FrontDoorAssumption DEF TypeOK, Horizon
  <1>4. behind \in Nat /\ ahead \in Nat /\ behind' \in 0..MaxSets /\ ahead' \in 0..MaxSets
        /\ ahead <= ahead' /\ Horizon \in Nat
    BY <1>1, FrontDoorAssumption DEF TypeOK, Tick, SetBack, SetForward, Horizon
  <1>5. ASSUME NEW c \in Calls
        PROVE  /\ age'[c] - ahead' <= elapsed'[c] /\ elapsed'[c] <= age'[c] + behind'
               /\ elapsed'[c] \in 0..Horizon /\ elapsed[c] <= elapsed'[c]
               /\ age'[c] \in Int /\ age'[c] <= Horizon
    <2>1. CASE Tick
      BY <1>1, <1>3, <1>4, <2>1, OlderFacts DEF Tick, Drift
    <2>2. CASE SetBack
      BY <1>1, <1>3, <1>4, <2>2 DEF SetBack, Drift
    <2>3. CASE SetForward
      BY <1>1, <1>3, <1>4, <2>3, OlderFacts DEF SetForward, Drift
    <2> QED BY <2>1, <2>2, <2>3
  <1>6. DOMAIN age' = Calls /\ DOMAIN elapsed' = Calls
        /\ age' = [c \in Calls |-> age'[c]] /\ elapsed' = [c \in Calls |-> elapsed'[c]]
    BY <1>1 DEF TypeOK, Tick, SetBack, SetForward
  <1>7. TypeOK'
    <2>1. \A c \in Calls : age'[c] \in -MaxSets..Horizon
      BY <1>4, <1>5, FrontDoorAssumption DEF Horizon
    <2> QED BY <1>1, <1>2, <1>4, <1>5, <1>6, <2>1 DEF TypeOK
  <1>8. Drift'
    BY <1>5 DEF Drift
  <1>9. RecentKept'
    BY <1>2, <1>3, <1>4, <1>5, FrontDoorAssumption DEF IInv, RecentKept
  <1>10. WithinLimit' /\ OwnWindow'
    BY <1>2 DEF IInv, WithinLimit, OwnWindow
  <1> QED BY <1>7, <1>8, <1>9, <1>10 DEF IInv
-----------------------------------------------------------------------------
LEMMA InitInv == Init => IInv
  <1> SUFFICES ASSUME Init PROVE IInv
    OBVIOUS
  <1>1. TypeOK /\ Drift /\ RecentKept /\ OwnWindow
    BY FrontDoorAssumption
       DEF Init, TypeOK, Layers, Horizon, Drift, RecentKept, OwnWindow
  <1>2. WithinLimit
    BY FS_EmptySet, FrontDoorAssumption DEF Init, WithinLimit
  <1> QED BY <1>1, <1>2 DEF IInv

LEMMA NextInv == IInv /\ [Next]_vars => IInv'
  <1> SUFFICES ASSUME IInv, [Next]_vars PROVE IInv'
    OBVIOUS
  <1>1. CASE UNCHANGED vars
    BY <1>1 DEF vars, callVars, timeVars, IInv, TypeOK, Drift, RecentKept, WithinLimit,
                OwnWindow
  <1> QED BY <1>1, LayersKeep, AdmitKeeps, RejectKeeps, TimeKeeps DEF Next, Goes

LEMMA AlwaysIInv == Spec => []IInv
  BY InitInv, NextInv, PTL DEF Spec

\* The variables of the front door keep their types.
THEOREM WellTyped == Spec => []TypeOK
  <1>1. IInv => TypeOK
    BY DEF IInv
  <1> QED BY <1>1, AlwaysIInv, PTL

\* The limit holds for every window, not only those that begin where the limiter
\* looks: however the calls of a client interleave, no more than Limit of them
\* are let through in any stretch of time as long as the window, less what the
\* clock was set forward.
THEOREM LimitHolds == Spec => []WindowBound
  <1>1. IInv => WindowBound
    <2> SUFFICES ASSUME IInv, NEW k \in Clients
                 PROVE  Cardinality(Recent(k, Window - ahead)) <= Limit
      BY DEF WindowBound
    <2>1. Recent(k, Window - ahead) \subseteq window[k]
      BY DEF Recent, IInv, RecentKept
    <2>2. Cardinality(window[k]) \in Nat
      BY WindowFinite DEF IInv
    <2> QED BY <2>1, <2>2, WindowFinite, FrontDoorAssumption DEF IInv, WithinLimit
  <1> QED BY <1>1, AlwaysIInv, PTL

\* A 429 is deserved: the client has had its limit of calls in the last window,
\* lengthened by no more than the clock was set back.
THEOREM RejectionsDeserved == Spec => NoFalseRejection
  <1> DEFINE Step == \A c \in Calls : Rejected(c) =>
                       Cardinality(Recent(client[c], Window + behind)) >= Limit
  <1>1. IInv /\ [Next]_vars => [Step]_vars
    <2> SUFFICES ASSUME IInv, [Next]_vars, NEW c \in Calls, Rejected(c)
                 PROVE  Cardinality(Recent(client[c], Window + behind)) >= Limit
      OBVIOUS
    <2> DEFINE k == client[c]
    <2>1. TypeOK
      BY DEF IInv
    <2>2. Reject(c)
      BY <2>1 DEF Rejected, Next, Goes, Arrive, Cors, SizeLimit, Authenticate, Uncounted,
                  Admit, Reject, Handle, Retry, Tick, SetBack, SetForward, Pass, Answer,
                  callVars, vars, TypeOK
    <2>3. Cardinality(Kept(k)) >= Limit /\ k \in Clients
      BY <2>1, <2>2 DEF Reject, TypeOK
    <2>4. Kept(k) \subseteq Recent(k, Window + behind)
      BY <2>1, <2>3, FrontDoorAssumption
         DEF Kept, Recent, IInv, OwnWindow, Drift, TypeOK, Horizon
    <2>5. Recent(k, Window + behind) \subseteq Calls
      BY DEF Recent
    <2>6. IsFiniteSet(Recent(k, Window + behind))
      BY <2>5, FS_Subset, FrontDoorAssumption
    <2>7. /\ IsFiniteSet(Kept(k)) /\ Cardinality(Kept(k)) \in Nat
          /\ Cardinality(Recent(k, Window + behind)) \in Nat
          /\ Cardinality(Kept(k)) <= Cardinality(Recent(k, Window + behind))
      BY <2>4, <2>6, FS_Subset, FS_CardinalityType
    <2> QED BY <2>3, <2>7, FrontDoorAssumption
  <1> QED BY <1>1, AlwaysIInv, PTL DEF Spec, NoFalseRejection
=============================================================================
