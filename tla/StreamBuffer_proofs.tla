------------------------ MODULE StreamBuffer_proofs ------------------------
(***************************************************************************)
(* What the rolling buffer guarantees for every answer, every division of   *)
(* it into deltas and every window.  A first invariant says where the       *)
(* buffer stands in the answer; a second one, what was delivered.  The      *)
(* restored pieces are made with FlattenSeq, which is defined by recursion; *)
(* that it is defined, and of what, is proved by an induction over sets.    *)
(***************************************************************************)
EXTENDS StreamBuffer, SequenceTheorems, WellFoundedInduction, TLAPS

Shape ==
  /\ answer \in Seq(Units)
  /\ received \in 0..Len(answer)
  /\ buffer \in Seq(Units)
  /\ passed \in Seq(Units)
  /\ pc \in {"open", "done", "broken"}

\* What has arrived is what was passed on, followed by the buffer.
Placed ==
  /\ Len(passed) <= received
  /\ passed = SubSeq(answer, 1, Len(passed))
  /\ buffer = SubSeq(answer, Len(passed) + 1, received)

\* The last cut is where the buffer begins, and everything cut had arrived.
CutsKept ==
  /\ \A cut \in cuts : cut.seen \in Nat /\ cut.seen <= received
  /\ Len(passed) > 0 => \E cut \in cuts : cut.at = Len(passed)

\* While the answer is open these hold together; afterwards nothing is cut.
IInv ==
  /\ Shape
  /\ pc # "done" => Placed /\ CutsKept
  /\ pc = "done" => passed = answer
  /\ NoneCutWhileArriving

\* A stretch of a text, unit by unit.
LEMMA Stretch ==
  ASSUME NEW a \in Seq(Units), NEW p \in Nat, NEW m \in Nat, p <= m, m <= Len(a)
  PROVE  /\ SubSeq(a, p + 1, m) \in Seq(Units)
         /\ Len(SubSeq(a, p + 1, m)) = m - p
         /\ \A k \in 1..m - p : SubSeq(a, p + 1, m)[k] = a[p + k]
  OBVIOUS

\* Two adjacent stretches make up one.
LEMMA Joined ==
  ASSUME NEW a \in Seq(Units), NEW p \in Nat, NEW m \in Nat, NEW n \in Nat,
         p <= m, m <= n, n <= Len(a)
  PROVE  SubSeq(a, p + 1, m) \o SubSeq(a, m + 1, n) = SubSeq(a, p + 1, n)
  OBVIOUS

LEMMA JoinedPrefix ==
  ASSUME NEW a \in Seq(Units), NEW m \in Nat, NEW n \in Nat, m <= n, n <= Len(a)
  PROVE  SubSeq(a, 1, m) \o SubSeq(a, m + 1, n) = SubSeq(a, 1, n)
  OBVIOUS

LEMMA WholePrefix ==
  ASSUME NEW a \in Seq(Units)
  PROVE  SubSeq(a, 1, Len(a)) = a
  OBVIOUS

LEMMA ThreeUnits ==
  ASSUME NEW a \in Seq(Units), NEW i \in Nat \ {0}, i + 3 <= Len(a)
  PROVE  /\ SubSeq(a, i, i + 3)[1] = a[i]
         /\ SubSeq(a, i, i + 3)[2] = a[i + 1]
         /\ SubSeq(a, i, i + 3)[3] = a[i + 2]
  OBVIOUS

\* A buffer that holds a stretch of a text, divided TailWindow before its end.
LEMMA Divided ==
  ASSUME NEW a \in Seq(Units), NEW p \in Nat, NEW m \in Nat, m <= Len(a),
         NEW b, b = SubSeq(a, p + 1, m), TailWindow < m - p
  PROVE  /\ Kept(b) = SubSeq(a, m - TailWindow + 1, m)
         /\ SubSeq(a, 1, p) \o Flushable(b) = SubSeq(a, 1, m - TailWindow)
         /\ Len(SubSeq(a, 1, m - TailWindow)) = m - TailWindow
  <1>1. TailWindow \in Nat
    BY StreamAssumption
  <1>2. Len(b) = m - p
    BY <1>1, Stretch
  <1>3. SubSeq(b, 1, m - p - TailWindow) = SubSeq(a, p + 1, m - TailWindow)
    BY <1>1
  <1>4. SubSeq(b, m - p - TailWindow + 1, m - p) = SubSeq(a, m - TailWindow + 1, m)
    BY <1>1
  <1>5. SubSeq(a, 1, p) \o SubSeq(a, p + 1, m - TailWindow) = SubSeq(a, 1, m - TailWindow)
    BY <1>1
  <1>6. Len(SubSeq(a, 1, m - TailWindow)) = m - TailWindow
    BY <1>1
  <1> QED BY <1>2, <1>3, <1>4, <1>5, <1>6 DEF Kept, Flushable

\* The buffer with the new delta is the answer from the last cut to what has arrived.
LEMMA ArrivesFacts ==
  ASSUME Shape, Placed, NEW n \in 1..Len(answer) - received
  PROVE  /\ received \in Nat /\ n \in Nat \ {0} /\ Len(passed) \in Nat
         /\ received + n \in Nat /\ received + n <= Len(answer)
         /\ Arrives(n) = SubSeq(answer, Len(passed) + 1, received + n)
  <1>1. /\ received \in Nat /\ n \in Nat \ {0} /\ Len(passed) \in Nat
        /\ received + n \in Nat /\ received + n <= Len(answer)
    BY DEF Shape
  <1>2. /\ answer \in Seq(Units) /\ Len(passed) <= received /\ received <= received + n
        /\ buffer = SubSeq(answer, Len(passed) + 1, received)
    BY <1>1 DEF Shape, Placed
  <1>3. SubSeq(answer, Len(passed) + 1, received) \o SubSeq(answer, received + 1, received + n)
          = SubSeq(answer, Len(passed) + 1, received + n)
    BY <1>1, <1>2, Joined
  <1> QED BY <1>1, <1>2, <1>3 DEF Arrives

\* A flush moves the beginning of the buffer to TailWindow before its end.
LEMMA FlushFacts ==
  ASSUME Shape, Placed, NEW n \in 1..Len(answer) - received, ~Held(Arrives(n)),
         NEW m, m = received + n, NEW c, c = m - TailWindow
  PROVE  /\ c \in Nat /\ Len(passed) < c /\ c < m
         /\ Kept(Arrives(n)) = SubSeq(answer, c + 1, m)
         /\ passed \o Flushable(Arrives(n)) = SubSeq(answer, 1, c)
         /\ Len(passed \o Flushable(Arrives(n))) = c
  <1>1. PICK p : p = Len(passed)
    OBVIOUS
  <1>2. /\ p \in Nat /\ m \in Nat /\ m <= Len(answer) /\ p <= m
        /\ Arrives(n) = SubSeq(answer, p + 1, m)
        /\ passed = SubSeq(answer, 1, p) /\ answer \in Seq(Units)
    BY <1>1, ArrivesFacts DEF Placed, Shape
  <1>3. Len(Arrives(n)) = m - p
    BY <1>2, Stretch
  <1>4. TailWindow \in Nat \ {0} /\ TailWindow < m - p
    BY <1>2, <1>3, StreamAssumption DEF Held
  <1>5. /\ Kept(Arrives(n)) = SubSeq(answer, m - TailWindow + 1, m)
        /\ SubSeq(answer, 1, p) \o Flushable(Arrives(n)) = SubSeq(answer, 1, m - TailWindow)
        /\ Len(SubSeq(answer, 1, m - TailWindow)) = m - TailWindow
    <2>1. /\ p \in Nat /\ m \in Nat /\ m <= Len(answer) /\ answer \in Seq(Units)
          /\ TailWindow < m - p
      BY <1>2, <1>4
    <2>2. ASSUME NEW b, b = SubSeq(answer, p + 1, m)
          PROVE  /\ Kept(b) = SubSeq(answer, m - TailWindow + 1, m)
                 /\ SubSeq(answer, 1, p) \o Flushable(b) = SubSeq(answer, 1, m - TailWindow)
                 /\ Len(SubSeq(answer, 1, m - TailWindow)) = m - TailWindow
      BY ONLY <2>1, <2>2, Divided
    <2> QED BY <1>2, <2>2
  <1>6. c \in Nat /\ p < c /\ c < m
    BY <1>2, <1>4
  <1> QED BY <1>1, <1>2, <1>5, <1>6

\* A token as it was sent, unit by unit.
LEMMA TokenUnits ==
  ASSUME answer \in Seq(Units), NEW i \in WholeTokens
  PROVE  /\ i \in Nat \ {0} /\ i + 3 <= Len(answer)
         /\ answer[i] = "{{" /\ answer[i + 1] = "SG_" /\ answer[i + 2] # "}}"
  <1>1. PICK t \in Names : SubSeq(answer, i, i + 3) = Token(t)
    BY DEF WholeTokens
  <1>2. i \in Nat \ {0} /\ i + 3 <= Len(answer) /\ Len(answer) \in Nat
    BY DEF WholeTokens
  <1>3. answer[i] = "{{" /\ answer[i + 1] = "SG_" /\ answer[i + 2] = t
    <2>1. /\ SubSeq(answer, i, i + 3)[1] = answer[i]
          /\ SubSeq(answer, i, i + 3)[2] = answer[i + 1]
          /\ SubSeq(answer, i, i + 3)[3] = answer[i + 2]
      BY <1>2, ThreeUnits
    <2>2. Token(t)[1] = "{{" /\ Token(t)[2] = "SG_" /\ Token(t)[3] = t
      BY DEF Token
    <2> QED BY <1>1, <2>1, <2>2
  <1> QED BY <1>2, <1>3, NamesAssumption DEF Closing

\* If no part of a token was cut before, a flush that would cut it before all
\* of it has arrived finds its opener in the buffer and nothing that closes it.
LEMMA FlushWaits ==
  ASSUME Shape, Placed, NEW n \in 1..Len(answer) - received, ~Held(Arrives(n)),
         NEW m, m = received + n, NEW c, c = m - TailWindow,
         NEW i \in WholeTokens, c \in i .. i + 2, Len(passed) < i
  PROVE  m >= i + 3
  <1>0. SUFFICES ASSUME m < i + 3 PROVE PendingToken(Arrives(n))
    <2>1. m \in Nat /\ i \in Nat
      BY ArrivesFacts, TokenUnits DEF Shape
    <2> QED BY <2>1 DEF Held
  <1>1. PICK p : p = Len(passed)
    OBVIOUS
  <1>2. PICK b : b = Arrives(n)
    OBVIOUS
  <1>3. /\ p \in Nat /\ m \in Nat /\ p <= m /\ m <= Len(answer) /\ answer \in Seq(Units)
        /\ b = SubSeq(answer, p + 1, m)
    BY <1>1, <1>2, ArrivesFacts DEF Placed, Shape
  <1>4. Len(b) = m - p /\ \A k \in 1..m - p : b[k] = answer[p + k]
    BY <1>3, Stretch
  <1>5. c \in Nat /\ c < m
    BY FlushFacts
  <1>6. /\ i \in Nat \ {0}
        /\ answer[i] = "{{" /\ answer[i + 1] = "SG_" /\ answer[i + 2] # "}}"
    BY <1>3, TokenUnits
  <1>7. /\ c \in i .. i + 2 /\ p < i /\ m < i + 3
        /\ p \in Nat /\ i \in Nat /\ m \in Nat
    BY <1>0, <1>1, <1>3, <1>6
  <1>8. /\ p < i /\ i <= c /\ c < m /\ m <= i + 2
        /\ p \in Nat /\ i \in Nat /\ c \in Nat /\ m \in Nat
    BY ONLY <1>5, <1>7
  <1>9. i - p \in 1..Len(b) - 1 /\ b[i - p] = "{{" /\ b[(i - p) + 1] = "SG_"
    <2>1. i - p \in 1..m - p /\ (i - p) + 1 \in 1..m - p /\ p + (i - p) = i
          /\ p + ((i - p) + 1) = i + 1
      BY ONLY <1>8
    <2>2. i - p \in 1..Len(b) - 1
      BY ONLY <1>8, <1>4
    <2> QED BY ONLY <1>4, <1>6, <2>1, <2>2
  <1>10. ASSUME NEW j \in (i - p) + 1 .. Len(b) PROVE b[j] # "}}"
    <2>0. j \in Int /\ j >= (i - p) + 1 /\ j <= m - p
      BY <1>10, <1>8, <1>4
    <2>1. j \in 1..m - p /\ (p + j = i + 1 \/ p + j = i + 2)
      BY ONLY <1>8, <2>0
    <2> QED BY ONLY <1>4, <1>6, <2>1
  <1> QED BY <1>2, <1>9, <1>10 DEF PendingToken

LEMMA InitInv == Init => IInv
  <1> SUFFICES ASSUME Init PROVE IInv
    OBVIOUS
  <1>1. answer \in Seq(Units)
    BY StreamAssumption DEF Init
  <1>2. Shape
    BY <1>1 DEF Init, Shape
  <1>3. Placed /\ CutsKept /\ NoneCutWhileArriving
    BY <1>1 DEF Init, Placed, CutsKept, NoneCutWhileArriving
  <1> QED BY <1>2, <1>3 DEF Init, IInv

LEMMA BuffersInv ==
  ASSUME IInv, Buffers
  PROVE  IInv'
  <1>1. Shape /\ Placed /\ CutsKept /\ NoneCutWhileArriving /\ pc = "open"
    BY DEF IInv, Buffers
  <1>2. PICK n \in 1..Len(answer) - received :
          buffer' = Arrives(n) /\ received' = received + n
    BY DEF Buffers
  <1>3. UNCHANGED <<answer, pc, passed, cuts>>
    BY DEF Buffers
  <1>4. /\ received \in Nat /\ n \in Nat \ {0} /\ Len(passed) \in Nat
        /\ received + n \in Nat /\ received + n <= Len(answer)
        /\ buffer' = SubSeq(answer, Len(passed) + 1, received + n)
    BY <1>1, <1>2, ArrivesFacts
  <1>5. Placed'
    BY <1>1, <1>2, <1>3, <1>4 DEF Placed
  <1>6. buffer' \in Seq(Units)
    <2>1. answer \in Seq(Units) /\ Len(passed) <= received + n
      BY <1>1, <1>4 DEF Shape, Placed
    <2> QED BY <1>4, <2>1, Stretch
  <1>7. Shape'
    BY <1>1, <1>2, <1>3, <1>4, <1>6 DEF Shape
  <1>8. CutsKept'
    BY <1>1, <1>2, <1>3, <1>4 DEF CutsKept
  <1>9. NoneCutWhileArriving'
    BY <1>1, <1>3 DEF NoneCutWhileArriving, WholeTokens
  <1> QED BY <1>1, <1>3, <1>5, <1>7, <1>8, <1>9 DEF IInv

LEMMA FlushesInv ==
  ASSUME IInv, Flushes
  PROVE  IInv'
  <1>1. Shape /\ Placed /\ CutsKept /\ NoneCutWhileArriving /\ pc = "open"
    BY DEF IInv, Flushes
  <1>2. PICK n \in 1..Len(answer) - received :
          /\ ~Held(Arrives(n))
          /\ buffer' = Kept(Arrives(n))
          /\ passed' = passed \o Flushable(Arrives(n))
          /\ received' = received + n
    BY DEF Flushes
  <1>3. UNCHANGED <<answer, pc>> /\ cuts' = cuts \cup {[at |-> Len(passed'), seen |-> received']}
    BY DEF Flushes
  <1>4. PICK m, c : m = received + n /\ c = m - TailWindow
    OBVIOUS
  <1>5. /\ c \in Nat /\ Len(passed) < c /\ c < m
        /\ buffer' = SubSeq(answer, c + 1, m)
        /\ passed' = SubSeq(answer, 1, c)
        /\ Len(passed') = c
    BY <1>1, <1>2, <1>4, FlushFacts
  <1>6. /\ received \in Nat /\ Len(passed) \in Nat /\ m \in Nat /\ received < m
        /\ m <= Len(answer) /\ received' = m /\ answer \in Seq(Units)
    BY <1>1, <1>2, <1>4, ArrivesFacts DEF Shape
  <1>7. Placed'
    BY <1>3, <1>5, <1>6 DEF Placed
  <1>8. Shape'
    <2>1. buffer' \in Seq(Units)
      BY <1>5, <1>6, Stretch
    <2>2. passed' \in Seq(Units)
      BY <1>5, <1>6
    <2> QED BY <1>1, <1>3, <1>6, <2>1, <2>2 DEF Shape
  <1>9. cuts' = cuts \cup {[at |-> c, seen |-> m]}
    BY <1>3, <1>5, <1>6
  <1>10. CutsKept'
    <2>1. ASSUME NEW cut \in cuts' PROVE cut.seen \in Nat /\ cut.seen <= m
      BY <1>1, <1>6, <1>9, <2>1 DEF CutsKept
    <2>2. [at |-> c, seen |-> m] \in cuts'
      BY <1>9
    <2> QED BY <1>5, <1>6, <2>1, <2>2 DEF CutsKept
  <1>11. ASSUME NEW cut \in cuts', NEW i \in WholeTokens, cut.at \in i .. i + 2
         PROVE  cut.seen >= i + 3
    <2>1. CASE cut \in cuts
      BY <1>1, <1>11, <2>1 DEF NoneCutWhileArriving
    <2>2. CASE cut = [at |-> c, seen |-> m]
      <3>1. c \in i .. i + 2 /\ i \in Nat \ {0}
        BY <1>6, <1>11, <2>2, TokenUnits
      <3>2. CASE Len(passed) < i
        BY <1>1, <1>2, <1>4, <2>2, <3>1, <3>2, FlushWaits
      <3>3. CASE ~(Len(passed) < i)
        <4>1. Len(passed) > 0 /\ Len(passed) \in i .. i + 2
          BY <1>5, <1>6, <3>1, <3>3
        <4>2. PICK last \in cuts : last.at = Len(passed)
          BY <1>1, <4>1 DEF CutsKept
        <4>3. last.seen >= i + 3 /\ last.seen \in Nat /\ last.seen <= received
          BY <1>1, <4>1, <4>2 DEF CutsKept, NoneCutWhileArriving
        <4> QED BY <1>6, <2>2, <3>1, <4>3
      <3> QED BY <3>2, <3>3
    <2> QED BY <1>9, <2>1, <2>2
  <1>12. NoneCutWhileArriving'
    BY <1>3, <1>11 DEF NoneCutWhileArriving, WholeTokens
  <1> QED BY <1>1, <1>3, <1>7, <1>8, <1>10, <1>12 DEF IInv

LEMMA DoneInv ==
  ASSUME IInv, Done
  PROVE  IInv'
  <1>1. Shape /\ Placed /\ NoneCutWhileArriving
    BY DEF IInv, Done
  <1>2. /\ received = Len(answer) /\ passed' = passed \o buffer /\ pc' = "done"
        /\ UNCHANGED <<answer, received, buffer, cuts>>
    BY DEF Done
  <1>3. PICK p, e : p = Len(passed) /\ e = Len(answer)
    OBVIOUS
  <1>4. /\ p \in Nat /\ e \in Nat /\ p <= e /\ e <= Len(answer) /\ answer \in Seq(Units)
        /\ passed = SubSeq(answer, 1, p) /\ buffer = SubSeq(answer, p + 1, e)
    BY <1>1, <1>2, <1>3 DEF Shape, Placed
  <1>5. SubSeq(answer, 1, p) \o SubSeq(answer, p + 1, e) = SubSeq(answer, 1, e)
    BY ONLY <1>4, JoinedPrefix
  <1>6. passed' = answer
    <2>1. SubSeq(answer, 1, e) = answer
      BY <1>3, <1>4, WholePrefix
    <2> QED BY <1>2, <1>4, <1>5, <2>1
  <1>7. Shape'
    BY <1>1, <1>2, <1>6 DEF Shape
  <1>8. NoneCutWhileArriving'
    BY <1>1, <1>2 DEF NoneCutWhileArriving, WholeTokens
  <1> QED BY <1>2, <1>6, <1>7, <1>8 DEF IInv

LEMMA NextInv == IInv /\ [Next]_vars => IInv'
  <1> SUFFICES ASSUME IInv, [Next]_vars PROVE IInv'
    OBVIOUS
  <1>1. CASE Buffers
    BY <1>1, BuffersInv
  <1>2. CASE Flushes
    BY <1>2, FlushesInv
  <1>3. CASE Done
    BY <1>3, DoneInv
  <1>4. CASE Breaks \/ UNCHANGED vars
    <2>1. /\ UNCHANGED <<answer, received, buffer, passed, cuts>>
          /\ pc' = pc \/ (pc = "open" /\ pc' = "broken")
      BY <1>4 DEF Breaks, vars
    <2> QED BY <2>1 DEF IInv, Shape, Placed, CutsKept, NoneCutWhileArriving, WholeTokens
  <1> QED BY <1>1, <1>2, <1>3, <1>4 DEF Next

LEMMA AlwaysIInv == Spec => []IInv
  BY InitInv, NextInv, PTL DEF Spec

\* Whatever the deltas, what left the buffer and what is in it are what arrived.
THEOREM Complete == Spec => []NothingLost
  <1>1. IInv => NothingLost
    <2> SUFFICES ASSUME IInv, pc # "done"
                 PROVE  passed \o buffer = SubSeq(answer, 1, received)
      BY DEF IInv, NothingLost
    <2>1. PICK p : p = Len(passed)
      OBVIOUS
    <2>2. /\ p \in Nat /\ received \in Nat /\ p <= received /\ received <= Len(answer)
          /\ answer \in Seq(Units)
          /\ passed = SubSeq(answer, 1, p) /\ buffer = SubSeq(answer, p + 1, received)
      BY <2>1 DEF IInv, Shape, Placed
    <2>3. SubSeq(answer, 1, p) \o SubSeq(answer, p + 1, received) = SubSeq(answer, 1, received)
      BY ONLY <2>2, JoinedPrefix
    <2> QED BY <2>2, <2>3
  <1> QED BY <1>1, AlwaysIInv, PTL

\* Whatever the deltas and however small the window, no token is cut while a
\* part of it is still to come.
THEOREM CutsComeLate == Spec => []NoneCutWhileArriving
  <1>1. IInv => NoneCutWhileArriving
    BY DEF IInv
  <1> QED BY <1>1, AlwaysIInv, PTL

-----------------------------------------------------------------------------
(* FlattenSeq, which is defined by recursion.                               *)

LEMMA LeastNatural ==
  ASSUME NEW S \in SUBSET Nat, S # {}
  PROVE  \E m \in S : \A k \in S : m <= k
  <1>1. PICK m \in S : \A k \in S : ~(<<k, m>> \in OpToRel(<, Nat))
    BY NatLessThanWellFounded, WFMin
  <1>2. ASSUME NEW k \in S, k < m
        PROVE  FALSE
    <2>1. <<k, m>> \in Nat \X Nat /\ <<k, m>>[1] < <<k, m>>[2]
      BY <1>2
    <2>2. <<k, m>> \in OpToRel(<, Nat)
      BY <2>1, Zenon DEF OpToRel
    <2> QED BY <1>1, <2>2
  <1> QED BY <1>2

\* A set that has the first number of an interval and with each number the next
\* has them all.
LEMMA IntervalInduction ==
  ASSUME NEW a \in Nat, NEW b \in Nat, NEW P, a \in P,
         \A n \in a..b : n > a /\ n - 1 \in P => n \in P
  PROVE  \A n \in a..b : n \in P
  <1> SUFFICES ASSUME NEW x \in a..b, x \notin P PROVE FALSE
    OBVIOUS
  <1>1. PICK S : S = {n \in a..b : n \notin P}
    OBVIOUS
  <1>2. PICK m \in S : \A k \in S : m <= k
    <2>1. S \in SUBSET Nat /\ S # {}
      BY <1>1
    <2> QED BY <2>1, LeastNatural
  <1>3. m \in a..b /\ m # a /\ m - 1 \in a..b /\ m - 1 \notin S
    BY <1>1, <1>2
  <1> QED BY <1>1, <1>2, <1>3

\* The concatenations that FlattenSeq makes one after the other.
Growing(f, s, n) == f[1] = s[1] /\ \A i \in 2..n : f[i] = f[i - 1] \o s[i]

LEMMA Concatenations ==
  ASSUME NEW T, NEW n \in Nat \ {0}, NEW s \in [1..n -> Seq(T)]
  PROVE  \E f \in [1..n -> Seq(T)] : Growing(f, s, n)
  <1>0. PICK V : V = Seq(T)
    OBVIOUS
  <1>1. s \in [1..n -> V] /\ \A x, y \in V : x \o y \in V
    BY <1>0
  <1> DEFINE P == {m \in 1..n : \E f \in [1..m -> V] : Growing(f, s, m)}
  <1>2. 1 \in P
    <2>1. [i \in 1..1 |-> s[1]] \in [1..1 -> V] /\ Growing([i \in 1..1 |-> s[1]], s, 1)
      BY <1>1 DEF Growing
    <2> QED BY <2>1
  <1>3. ASSUME NEW m \in 1..n, m > 1, m - 1 \in P
        PROVE  m \in P
    <2>1. PICK f \in [1..(m - 1) -> V] : Growing(f, s, m - 1)
      BY <1>3
    <2>2. PICK v \in V : v = f[m - 1] \o s[m]
      <3>1. f[m - 1] \in V /\ s[m] \in V
        BY <1>1, <1>3
      <3> QED BY <1>1, <3>1
    <2>3. PICK g : g = [i \in 1..m |-> IF i = m THEN v ELSE f[i]]
      OBVIOUS
    <2>4. g \in [1..m -> V] /\ g[m] = v /\ \A i \in 1..m - 1 : g[i] = f[i]
      BY <1>3, <2>3
    <2>5. Growing(g, s, m)
      <3>1. g[1] = s[1]
        BY <1>3, <2>1, <2>4 DEF Growing
      <3>2. ASSUME NEW i \in 2..m PROVE g[i] = g[i - 1] \o s[i]
        <4>1. i - 1 \in 1..m - 1 /\ g[i - 1] = f[i - 1]
          BY <1>3, <2>4
        <4>2. CASE i = m
          BY <2>2, <2>4, <4>1, <4>2
        <4>3. CASE i # m
          <5>1. i \in 2..m - 1 /\ i \in 1..m - 1
            BY <1>3, <4>3
          <5> QED BY <2>1, <2>4, <4>1, <5>1 DEF Growing
        <4> QED BY <4>2, <4>3
      <3> QED BY <3>1, <3>2 DEF Growing
    <2> QED BY <2>4, <2>5
  <1> HIDE DEF P
  <1>4. n \in P
    <2>1. \A m \in 1..n : m \in P
      BY <1>2, <1>3, IntervalInduction
    <2> QED BY <2>1
  <1> QED BY <1>0, <1>4 DEF P

LEMMA FlattenType ==
  ASSUME NEW T, NEW n \in Nat, NEW s \in [1..n -> Seq(T)]
  PROVE  FlattenSeq(s) \in Seq(T)
  <1>1. Len(s) = n
    OBVIOUS
  <1>2. CASE n = 0
    <2>1. FlattenSeq(s) = s /\ s = <<>>
      BY <1>1, <1>2 DEF FlattenSeq
    <2> QED BY <2>1
  <1>3. CASE n # 0
    <2> DEFINE F(f) == [i \in 1..n |-> IF i = 1 THEN s[i] ELSE f[i - 1] \o s[i]]
               flatten == CHOOSE f : f = F(f)
    <2>1. PICK g \in [1..n -> Seq(T)] : Growing(g, s, n)
      BY <1>3, Concatenations
    <2>2. g = F(g)
      <3>1. ASSUME NEW i \in 1..n
            PROVE  g[i] = IF i = 1 THEN s[i] ELSE g[i - 1] \o s[i]
        <4>1. i = 1 \/ i \in 2..n
          OBVIOUS
        <4> QED BY <2>1, <4>1 DEF Growing
      <3> QED BY <3>1
    <2>3. flatten = F(flatten)
      BY <2>2
    <2>4. FlattenSeq(s) = flatten[n]
      BY <1>1, <1>3 DEF FlattenSeq
    <2> HIDE DEF flatten
    <2>5. /\ flatten[1] = s[1] /\ 1 \in 1..n
          /\ \A i \in 1..n : i > 1 => flatten[i] = flatten[i - 1] \o s[i]
      <3>1. \A i \in 1..n : flatten[i] = IF i = 1 THEN s[i] ELSE flatten[i - 1] \o s[i]
        BY <2>3, Zenon
      <3>2. 1 \in 1..n /\ \A i \in 1..n : i > 1 => i # 1
        BY <1>3
      <3> QED BY ONLY <3>1, <3>2, Zenon
    <2>6. PICK P : P = {i \in 1..n : flatten[i] \in Seq(T)}
      OBVIOUS
    <2>7. 1 \in P
      BY <2>5, <2>6
    <2>8. ASSUME NEW i \in 1..n, i > 1 /\ i - 1 \in P
          PROVE  i \in P
      <3>1. flatten[i - 1] \in Seq(T) /\ s[i] \in Seq(T)
        BY <2>6, <2>8
      <3>2. \A x, y \in Seq(T) : x \o y \in Seq(T)
        BY ConcatProperties, Zenon
      <3>3. flatten[i] \in Seq(T)
        BY ONLY <2>5, <2>8, <3>1, <3>2, Zenon
      <3> QED BY <2>6, <3>3
    <2>9. n \in P
      <3>1. \A i \in 1..n : i \in P
        BY <2>7, <2>8, IntervalInduction
      <3> QED BY <1>3, <3>1
    <2> QED BY <2>4, <2>6, <2>9
  <1> QED BY <1>2, <1>3

-----------------------------------------------------------------------------
(* What restoring a text puts in the place of each of its units.            *)

InPlaceOf(s, i) ==
  IF Replaced(s, i) THEN <<Original[s[i + 1]]>>
  ELSE IF \E j \in Mentions(s) : Replaced(s, j) /\ i \in Span(s, j)
       THEN <<>> ELSE <<s[i]>>

\* A unit is kept, left out, or gives way to a value of the mapping.
LEMMA UnitRestored ==
  ASSUME NEW s \in Seq(Units), NEW i \in 1..Len(s)
  PROVE  \/ InPlaceOf(s, i) = <<s[i]>>
         \/ InPlaceOf(s, i) = <<>>
         \/ \E v \in Originals : InPlaceOf(s, i) = <<v>>
  <1>1. Replaced(s, i) => Original[s[i + 1]] \in Originals
    BY DEF Replaced, Originals
  <1> QED BY <1>1 DEF InPlaceOf

\* A restored text is made of what its units become.
LEMMA RestoredType ==
  ASSUME NEW s \in Seq(Units), NEW T,
         \A i \in 1..Len(s) : InPlaceOf(s, i) \in Seq(T)
  PROVE  Restored(s) \in Seq(T)
  <1>1. PICK f : f = [i \in DOMAIN s |-> InPlaceOf(s, i)]
    OBVIOUS
  <1>2. Restored(s) = FlattenSeq(f)
    BY <1>1 DEF Restored, InPlaceOf
  <1>3. Len(s) \in Nat /\ f \in [1..Len(s) -> Seq(T)]
    BY <1>1
  <1> QED BY <1>2, <1>3, FlattenType

\* Restoring makes up nothing: what a restored text contains was in the text or
\* is a value of the mapping.
LEMMA RestoredFrom ==
  ASSUME NEW s \in Seq(Units), NEW T, Originals \subseteq T,
         \A i \in 1..Len(s) : s[i] \in T
  PROVE  Restored(s) \in Seq(T)
  <1>1. \A x \in T : <<x>> \in Seq(T)
    OBVIOUS
  <1>2. <<>> \in Seq(T)
    OBVIOUS
  <1>3. ASSUME NEW i \in 1..Len(s) PROVE InPlaceOf(s, i) \in Seq(T)
    BY <1>1, <1>2, UnitRestored
  <1> QED BY <1>3, RestoredType

\* Every mention of t in s has the form t was sent in.
AsSent(s, t) == \A k \in 1..Len(s) : s[k] = t =>
  /\ k >= 3 /\ k < Len(s)
  /\ SubSeq(s, k - 2, k + 1) = Token(t)

LEMMA SentMention ==
  ASSUME NEW s \in Seq(Units), NEW t \in Names, AsSent(s, t), NEW j \in Mentions(s),
         s[j + 1] = t
  PROVE  Wrapped(s, j) /\ Literal(s, j) = Token(t) /\ Tier(s, j) = 1
  <1>1. /\ Len(s) \in Nat /\ j \in 1..Len(s) - 1 /\ j + 1 \in 1..Len(s)
    BY DEF Mentions
  <1>2. /\ j >= 2 /\ j + 2 <= Len(s) /\ SubSeq(s, j - 1, j + 2) = Token(t)
    <2>1. /\ j + 1 >= 3 /\ j + 1 < Len(s)
          /\ SubSeq(s, (j + 1) - 2, (j + 1) + 1) = Token(t)
      BY <1>1 DEF AsSent
    <2>2. (j + 1) - 2 = j - 1 /\ (j + 1) + 1 = j + 2
      BY <1>1
    <2> QED BY <1>1, <2>1, <2>2
  <1>3. s[j - 1] = "{{" /\ s[j + 2] = "}}"
    <2>1. SubSeq(s, j - 1, j + 2)[1] = s[j - 1] /\ SubSeq(s, j - 1, j + 2)[4] = s[j + 2]
      BY <1>1, <1>2
    <2>2. Token(t)[1] = "{{" /\ Token(t)[4] = "}}"
      BY DEF Token
    <2> QED BY <1>2, <2>1, <2>2
  <1>4. Wrapped(s, j)
    <2>1. "{{" \in Opening /\ "}}" \in Closing
      BY DEF Opening, Closing
    <2>2. j > 1 /\ j + 2 <= Len(s)
      BY <1>1, <1>2
    <2> QED BY <1>3, <2>1, <2>2 DEF Wrapped
  <1>5. Literal(s, j) = Token(t)
    BY <1>2, <1>4 DEF Literal
  <1> QED BY <1>4, <1>5 DEF Tier

LEMMA SentFirst ==
  ASSUME NEW s \in Seq(Units), NEW t \in Names, AsSent(s, t), NEW i \in Mentions(s),
         s[i + 1] = t
  PROVE  FirstFound(s, i) \in Mentions(s) /\ s[FirstFound(s, i) + 1] = t
  <1>1. PICK S : S = {j \in Mentions(s) : s[j + 1] = t}
    OBVIOUS
  <1>2. PICK m \in S : \A k \in S : m <= k
    <2>1. S \in SUBSET Nat /\ i \in S
      BY <1>1 DEF Mentions
    <2> QED BY <2>1, LeastNatural
  <1>3. \A j \in S : Tier(s, j) = 1
    BY <1>1, SentMention
  <1>4. /\ m \in Mentions(s) /\ s[m + 1] = s[i + 1]
        /\ \A k \in Mentions(s) : s[k + 1] = s[i + 1] =>
             \/ Tier(s, m) < Tier(s, k)
             \/ Tier(s, m) = Tier(s, k) /\ m <= k
    BY <1>1, <1>2, <1>3
  <1>5. FirstFound(s, i) \in Mentions(s) /\ s[FirstFound(s, i) + 1] = s[i + 1]
    BY <1>4 DEF FirstFound
  <1> QED BY <1>5

\* A token of the mapping that occurs only in the form it was sent in is gone.
LEMMA SentIsRestored ==
  ASSUME NEW s \in Seq(Units), NEW t \in DOMAIN Original \ Originals, AsSent(s, t)
  PROVE  Restored(s) \in Seq((Units \cup Originals) \ {t})
  <1>1. PICK T : T = (Units \cup Originals) \ {t}
    OBVIOUS
  <1>2. \A x \in T : <<x>> \in Seq(T)
    OBVIOUS
  <1>3. <<>> \in Seq(T)
    OBVIOUS
  <1>4. Originals \subseteq T
    BY <1>1
  <1>5. t \in Names /\ t # "SG_"
    BY NamesAssumption
  <1>6. ASSUME NEW i \in 1..Len(s) PROVE InPlaceOf(s, i) \in Seq(T)
    <2>1. CASE s[i] # t
      <3>1. s[i] \in T
        BY <1>1, <2>1
      <3> QED BY <1>2, <1>3, <1>4, <3>1, UnitRestored
    <2>2. CASE s[i] = t
      <3>1. i \notin Mentions(s)
        BY <1>5, <2>2 DEF Mentions
      <3>2. /\ i >= 3 /\ i < Len(s) /\ SubSeq(s, i - 2, i + 1) = Token(t)
        BY <2>2 DEF AsSent
      <3>3. s[i - 1] = "SG_"
        <4>1. SubSeq(s, i - 2, i + 1)[2] = s[i - 1]
          BY <3>2
        <4>2. Token(t)[2] = "SG_"
          BY DEF Token
        <4> QED BY <3>2, <4>1, <4>2
      <3>4. PICK j : j = i - 1
        OBVIOUS
      <3>5. j \in Mentions(s) /\ s[j + 1] = t /\ i = j + 1
        BY <1>5, <2>2, <3>2, <3>3, <3>4 DEF Mentions
      <3>6. Replaced(s, j)
        <4>1. Literal(s, j) = Token(t)
          BY <1>5, <3>5, SentMention
        <4>2. Literal(s, FirstFound(s, j)) = Token(t)
          <5>1. FirstFound(s, j) \in Mentions(s) /\ s[FirstFound(s, j) + 1] = t
            BY <1>5, <3>5, SentFirst
          <5> QED BY <1>5, <5>1, SentMention
        <4> QED BY <3>5, <4>1, <4>2 DEF Replaced
      <3>7. i \in Span(s, j)
        BY <3>5 DEF Span, Mentions
      <3>8. InPlaceOf(s, i) = <<>>
        BY <3>1, <3>5, <3>6, <3>7 DEF InPlaceOf, Replaced
      <3> QED BY <1>3, <3>8
    <2> QED BY <2>1, <2>2
  <1> QED BY <1>1, <1>6, RestoredType

LEMMA ContainsJoined ==
  ASSUME NEW T, NEW x \in Seq(T), NEW y \in Seq(T), NEW u,
         Contains(x, u) \/ Contains(y, u)
  PROVE  Contains(x \o y, u)
  <1>1. CASE Contains(x, u)
    <2>1. PICK i \in 1..Len(x) : x[i] = u
      BY <1>1 DEF Contains
    <2>2. i \in 1..Len(x \o y) /\ (x \o y)[i] = u
      BY <2>1
    <2> QED BY <2>2 DEF Contains
  <1>2. CASE Contains(y, u)
    <2>1. PICK i \in 1..Len(y) : y[i] = u
      BY <1>2 DEF Contains
    <2>2. Len(x) + i \in 1..Len(x \o y) /\ (x \o y)[Len(x) + i] = u
      BY <2>1
    <2> QED BY <2>2 DEF Contains
  <1> QED BY <1>1, <1>2

LEMMA ContainsEither ==
  ASSUME NEW T, NEW x \in Seq(T), NEW y \in Seq(T), NEW u, Contains(x \o y, u)
  PROVE  Contains(x, u) \/ Contains(y, u)
  <1>1. PICK i \in 1..Len(x \o y) : (x \o y)[i] = u
    BY DEF Contains
  <1>2. i \in 1..Len(x) + Len(y) /\ u = IF i <= Len(x) THEN x[i] ELSE y[i - Len(x)]
    BY <1>1
  <1>3. i \in 1..Len(x) \/ i - Len(x) \in 1..Len(y)
    BY <1>2
  <1> QED BY <1>2, <1>3 DEF Contains

-----------------------------------------------------------------------------
(* What was delivered.                                                      *)

\* A flush leaves the window in the buffer, and it only grows from there.
WindowKept == Len(passed) > 0 => Len(passed) + TailWindow <= received

\* The client gets nothing that did not pass, but for the values of the mapping.
FromPassed ==
  \A u \in Units \ Originals : Contains(delivered, u) => Contains(passed, u)

Restoring ==
  /\ TypeOK
  /\ pc = "open" => WindowKept /\ FromPassed
  /\ EndIsRestored

LEMMA StretchOfStretch ==
  ASSUME NEW a \in Seq(Units), NEW p \in Nat, NEW e \in Nat, p <= e, e <= Len(a),
         NEW b, b = SubSeq(a, p + 1, e),
         NEW k \in Nat \ {0, 1, 2}, k < e - p
  PROVE  SubSeq(b, k - 2, k + 1) = SubSeq(a, (p + k) - 2, (p + k) + 1)
  OBVIOUS

LEMMA InitRestoring == Init => Restoring
  <1> SUFFICES ASSUME Init PROVE Restoring
    OBVIOUS
  <1>1. answer \in Seq(Units) /\ Len(answer) \in Nat
    BY StreamAssumption DEF Init
  <1>2. TypeOK
    BY <1>1 DEF Init, TypeOK
  <1>3. WindowKept /\ FromPassed
    BY DEF Init, WindowKept, FromPassed, Contains
  <1> QED BY <1>2, <1>3 DEF Init, Restoring, EndIsRestored

\* What is delivered with a piece is in the piece, or a value of the mapping.
LEMMA PieceRestored ==
  ASSUME NEW s \in Seq(Units), NEW d \in Seq(Units \cup Originals)
  PROVE  /\ d \o Restored(s) \in Seq(Units \cup Originals)
         /\ \A u \in Units \ Originals :
              Contains(d \o Restored(s), u) => Contains(d, u) \/ Contains(s, u)
  <1>1. PICK r : r = Restored(s)
    OBVIOUS
  <1>2. r \in Seq(Units \cup Originals)
    BY <1>1, RestoredFrom
  <1>3. ASSUME NEW u \in Units \ Originals, Contains(d \o r, u), ~Contains(s, u)
        PROVE  Contains(d, u)
    <2>1. r \in Seq((Units \cup Originals) \ {u})
      <3>1. \A i \in 1..Len(s) : s[i] \in (Units \cup Originals) \ {u}
        BY <1>3 DEF Contains
      <3> QED BY <1>1, <3>1, RestoredFrom
    <2>2. ~Contains(r, u)
      BY <2>1 DEF Contains
    <2> QED BY <1>2, <1>3, <2>2, ContainsEither
  <1>4. d \o r \in Seq(Units \cup Originals)
    BY <1>2
  <1> QED BY <1>1, <1>3, <1>4

LEMMA BuffersRestoring ==
  ASSUME IInv, IInv', Restoring, Buffers
  PROVE  Restoring'
  <1>1. /\ TypeOK /\ pc = "open" /\ WindowKept /\ FromPassed
        /\ UNCHANGED <<answer, delivered, pc, passed, cuts>>
    BY DEF Restoring, Buffers
  <1>2. received \in Nat /\ received' \in Nat /\ received <= received'
    BY <1>1 DEF Buffers, TypeOK
  <1>3. TypeOK'
    BY <1>1 DEF IInv, Shape, TypeOK
  <1>4. WindowKept'
    BY <1>1, <1>2, StreamAssumption DEF WindowKept, IInv, Shape
  <1>5. FromPassed'
    BY <1>1 DEF FromPassed
  <1> QED BY <1>1, <1>3, <1>4, <1>5 DEF Restoring, EndIsRestored

LEMMA FlushesRestoring ==
  ASSUME IInv, IInv', Restoring, Flushes
  PROVE  Restoring'
  <1>1. /\ TypeOK /\ pc = "open" /\ FromPassed /\ Shape /\ Placed
        /\ UNCHANGED <<answer, pc>>
        /\ cuts' = cuts \cup {[at |-> Len(passed'), seen |-> received']}
    BY DEF Restoring, Flushes, IInv
  <1>2. PICK n \in 1..Len(answer) - received :
          /\ ~Held(Arrives(n))
          /\ delivered' = delivered \o Restored(Flushable(Arrives(n)))
          /\ passed' = passed \o Flushable(Arrives(n))
          /\ received' = received + n
    BY DEF Flushes
  <1>3. PICK f : f = Flushable(Arrives(n))
    OBVIOUS
  <1>4. PICK c : c = received' - TailWindow
    OBVIOUS
  <1>5. c \in Nat /\ c < received' /\ Len(passed') = c
    BY <1>1, <1>2, <1>4, FlushFacts
  <1>6. received' \in 0..Len(answer) /\ TailWindow \in Nat
    BY <1>1, StreamAssumption DEF IInv, Shape
  <1>7. f \in Seq(Units)
    <2>1. answer \in Seq(Units) /\ buffer \in Seq(Units) /\ received \in Nat
          /\ Len(answer) \in Nat
      BY <1>1 DEF Shape
    <2>2. Arrives(n) \in Seq(Units)
      <3>1. SubSeq(answer, received + 1, received + n) \in Seq(Units)
        BY <2>1
      <3> QED BY <2>1, <3>1, ConcatProperties DEF Arrives
    <2>3. Len(Arrives(n)) - TailWindow \in 0..Len(Arrives(n))
      BY <1>2, <2>2, StreamAssumption DEF Held
    <2> QED BY <1>3, <2>2, <2>3 DEF Flushable
  <1>8. /\ delivered' \in Seq(Units \cup Originals)
        /\ \A u \in Units \ Originals :
             Contains(delivered', u) => Contains(delivered, u) \/ Contains(f, u)
    BY <1>1, <1>2, <1>3, <1>7, PieceRestored DEF TypeOK
  <1>9. TypeOK'
    <2>1. [at |-> Len(passed'), seen |-> received']
            \in [at : 0..Len(answer), seen : 0..Len(answer)]
      BY <1>5, <1>6
    <2> QED BY <1>1, <1>8, <2>1 DEF IInv, Shape, TypeOK
  <1>10. WindowKept'
    <2>1. PICK m : m = received'
      OBVIOUS
    <2>2. m \in Nat /\ c = m - TailWindow
      BY <1>1, <1>4, <1>6, <2>1 DEF Shape
    <2>3. c + TailWindow <= m
      BY ONLY <1>6, <2>2
    <2> QED BY <1>5, <2>1, <2>3 DEF WindowKept
  <1>11. FromPassed'
    <2>1. passed \in Seq(Units) /\ passed' = passed \o f
      BY <1>1, <1>2, <1>3 DEF Shape
    <2>2. \A u : Contains(passed, u) \/ Contains(f, u) => Contains(passed', u)
      BY <1>7, <2>1, ContainsJoined
    <2> QED BY <1>1, <1>8, <2>2 DEF FromPassed
  <1> QED BY <1>1, <1>9, <1>10, <1>11 DEF Restoring, EndIsRestored

LEMMA DoneRestoring ==
  ASSUME IInv, IInv', Restoring, Done
  PROVE  Restoring'
  <1>1. /\ TypeOK /\ WindowKept /\ FromPassed /\ Shape /\ Placed
        /\ pc' = "done" /\ received = Len(answer)
        /\ delivered' = delivered \o Restored(buffer)
        /\ UNCHANGED <<answer, received, buffer, cuts>>
    BY DEF Restoring, Done, IInv
  <1>2. delivered' \in Seq(Units \cup Originals)
    BY <1>1, PieceRestored DEF TypeOK
  <1>3. TypeOK'
    BY <1>1, <1>2 DEF IInv, Shape, TypeOK
  <1>4. ASSUME NEW t \in DOMAIN Original \ Originals,
               \A i \in 1..Len(answer) :
                 answer[i] = t => i - 2 \in WholeTokens /\ i - 2 > Len(answer) - TailWindow
        PROVE  ~Contains(delivered', t)
    <2>1. PICK p, e : p = Len(passed) /\ e = Len(answer)
      OBVIOUS
    <2>2. /\ p \in Nat /\ e \in Nat /\ p <= e /\ answer \in Seq(Units)
          /\ TailWindow \in Nat
          /\ passed = SubSeq(answer, 1, p) /\ buffer = SubSeq(answer, p + 1, e)
          /\ p > 0 => p + TailWindow <= e
      BY <1>1, <2>1, StreamAssumption DEF Shape, Placed, WindowKept
    <2>3. /\ buffer \in Seq(Units) /\ Len(buffer) = e - p
          /\ \A k \in 1..e - p : buffer[k] = answer[p + k]
      <3>1. e <= Len(answer)
        BY <2>1, <2>2
      <3> QED BY ONLY <2>2, <3>1, Stretch
    <2>4. ASSUME NEW i \in 1..e, answer[i] = t
          PROVE  /\ i - 2 \in WholeTokens /\ i - 2 > p
                 /\ i + 1 <= e /\ SubSeq(answer, i - 2, i + 1) = Token(t)
      <3>1. i - 2 \in WholeTokens /\ i - 2 > e - TailWindow
        BY <1>4, <2>1, <2>4
      <3>2. i - 2 \in 1..e - 3
        BY <2>1, <3>1 DEF WholeTokens
      <3>3. i - 2 > p
        BY <2>2, <3>1, <3>2
      <3>4. PICK u \in Names : SubSeq(answer, i - 2, (i - 2) + 3) = Token(u)
        BY <3>1 DEF WholeTokens
      <3>5. (i - 2) + 3 = i + 1
        OBVIOUS
      <3>6. u = t
        <4>1. SubSeq(answer, i - 2, i + 1)[3] = answer[i]
          BY <2>1, <2>2, <3>2
        <4>2. Token(u)[3] = u
          BY DEF Token
        <4> QED BY <2>4, <3>4, <3>5, <4>1, <4>2
      <3>7. SubSeq(answer, i - 2, i + 1) = Token(t)
        BY ONLY <3>4, <3>5, <3>6
      <3>8. i + 1 <= e
        BY ONLY <2>2, <3>2
      <3> QED BY ONLY <3>1, <3>3, <3>7, <3>8, Zenon
    <2>5. ~Contains(passed, t)
      <3>1. \A i \in 1..p : i \in 1..e /\ passed[i] = answer[i]
        BY <2>1, <2>2
      <3>2. Len(passed) = p
        BY <2>1
      <3>3. ASSUME NEW i \in 1..p PROVE passed[i] # t
        BY <2>2, <2>4, <3>1
      <3> QED BY <3>2, <3>3 DEF Contains
    <2>6. AsSent(buffer, t)
      <3> SUFFICES ASSUME NEW k \in 1..e - p, buffer[k] = t
                   PROVE  k >= 3 /\ k < e - p /\ SubSeq(buffer, k - 2, k + 1) = Token(t)
        BY <2>3 DEF AsSent
      <3>1. PICK i : i = p + k
        OBVIOUS
      <3>2. i \in 1..e /\ answer[i] = t
        BY <2>2, <2>3, <3>1
      <3>3. i - 2 > p /\ i + 1 <= e /\ SubSeq(answer, i - 2, i + 1) = Token(t)
        BY <2>4, <3>2
      <3>4. k >= 3 /\ k < e - p
        <4>1. p \in Nat /\ e \in Nat
          BY <2>2
        <4> QED BY ONLY <3>1, <3>3, <4>1
      <3>5. SubSeq(buffer, k - 2, k + 1) = SubSeq(answer, i - 2, i + 1)
        <4>1. e <= Len(answer) /\ k \in Nat \ {0, 1, 2}
          BY <2>1, <2>2, <3>4
        <4>2. k < e - p
          BY <3>4
        <4>3. SubSeq(buffer, k - 2, k + 1) = SubSeq(answer, (p + k) - 2, (p + k) + 1)
          <5>1. /\ p \in Nat /\ e \in Nat /\ p <= e /\ answer \in Seq(Units)
                /\ buffer = SubSeq(answer, p + 1, e)
            BY ONLY <2>2
          <5>2. ASSUME NEW b, b = SubSeq(answer, p + 1, e)
                PROVE  SubSeq(b, k - 2, k + 1) = SubSeq(answer, (p + k) - 2, (p + k) + 1)
            BY ONLY <4>1, <4>2, <5>1, <5>2, StretchOfStretch
          <5> QED BY ONLY <5>1, <5>2
        <4>4. (p + k) - 2 = i - 2 /\ (p + k) + 1 = i + 1
          BY <2>2, <3>1
        <4> QED BY ONLY <4>3, <4>4, Zenon
      <3> QED BY <3>3, <3>4, <3>5
    <2>7. PICK r : r = Restored(buffer)
      OBVIOUS
    <2>8. r \in Seq((Units \cup Originals) \ {t})
      BY <2>3, <2>6, <2>7, SentIsRestored
    <2>9. t \in Units \ Originals
      BY NamesAssumption DEF Units
    <2>10. ~Contains(delivered, t)
      BY <1>1, <2>5, <2>9 DEF FromPassed
    <2>11. ~Contains(r, t)
      BY <2>8 DEF Contains
    <2>12. delivered \in Seq(Units \cup Originals) /\ r \in Seq(Units \cup Originals)
      <3>1. \A i \in 1..Len(buffer) : buffer[i] \in Units \cup Originals
        BY <2>3
      <3> QED BY <1>1, <2>3, <2>7, <3>1, RestoredFrom DEF TypeOK
    <2> QED BY <1>1, <2>7, <2>10, <2>11, <2>12, ContainsEither
  <1>5. EndIsRestored'
    BY <1>1, <1>4 DEF EndIsRestored, WholeTokens
  <1> QED BY <1>1, <1>3, <1>5 DEF Restoring

LEMMA NextRestoring == IInv /\ IInv' /\ Restoring /\ [Next]_vars => Restoring'
  <1> SUFFICES ASSUME IInv, IInv', Restoring, [Next]_vars PROVE Restoring'
    OBVIOUS
  <1>1. CASE Buffers
    BY <1>1, BuffersRestoring
  <1>2. CASE Flushes
    BY <1>2, FlushesRestoring
  <1>3. CASE Done
    BY <1>3, DoneRestoring
  <1>4. CASE Breaks
    BY <1>4 DEF Breaks, Restoring, TypeOK, EndIsRestored
  <1>5. CASE UNCHANGED vars
    BY <1>5 DEF vars, Restoring, TypeOK, WindowKept, FromPassed, EndIsRestored, WholeTokens
  <1> QED BY <1>1, <1>2, <1>3, <1>4, <1>5 DEF Next

LEMMA AlwaysRestoring == Spec => []Restoring
  BY AlwaysIInv, InitRestoring, NextRestoring, PTL DEF Spec

\* Whatever the deltas, the client gets units of text and values of the mapping.
THEOREM WellTyped == Spec => []TypeOK
  <1>1. Restoring => TypeOK
    BY DEF Restoring
  <1> QED BY <1>1, AlwaysRestoring, PTL

\* Whatever the deltas, a token in the last TailWindow of the answer is restored.
THEOREM EndRestored == Spec => []EndIsRestored
  <1>1. Restoring => EndIsRestored
    BY DEF Restoring
  <1> QED BY <1>1, AlwaysRestoring, PTL

=============================================================================
