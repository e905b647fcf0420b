---------------------------- MODULE StreamBuffer ----------------------------
(***************************************************************************)
(* The rolling buffer of stream_with_restoration in proxy/handler.py.  The  *)
(* provider's answer comes in pieces of any size; the gateway keeps the end *)
(* of what it has and restores the rest piece by piece.  One unit of text   *)
(* stands for several characters, so TailWindow is the code's 96 in units,  *)
(* and a cut between "SG_" and the name is any cut within a token's name.   *)
(*                                                                         *)
(* The mapping is taken to be there (Gateway models that it is not).  Lines *)
(* that carry no text are passed on or dropped and change nothing here.     *)
(***************************************************************************)
EXTENDS SemanticRestorer

CONSTANTS
  Answers,            \* texts a provider may send
  TailWindow          \* tail_window

ASSUME StreamAssumption ==
  /\ Answers \subseteq Seq(Units)
  /\ TailWindow \in Nat \ {0}

VARIABLES
  answer,             \* the text the provider sends
  received,           \* how much of it has arrived
  buffer,             \* buffer
  delivered,          \* what the client has got
  pc,                 \* "open", "done" ([DONE] passed on) or "broken"
  passed,             \* history: the text that left the buffer, not restored
  cuts                \* history: where it was cut, and how much had arrived

vars == <<answer, received, buffer, delivered, pc, passed, cuts>>

Init ==
  /\ answer \in Answers
  /\ received = 0
  /\ buffer = <<>>
  /\ delivered = <<>>
  /\ pc = "open"
  /\ passed = <<>>
  /\ cuts = {}

\* The last "{{SG_" of the text has no "}}" after it.
PendingToken(b) ==
  \E i \in 1..Len(b) - 1 :
    /\ b[i] = "{{" /\ b[i + 1] = "SG_"
    /\ \A j \in i + 1 .. Len(b) : b[j] # "}}"

\* Mutant: no tail is kept, only an opener that has arrived holds text back.
Flushable_All(b) == b

Flushable(b) == SubSeq(b, 1, Len(b) - TailWindow)

\* Mutant: one character too few is kept.
Kept_OneShort(b) == SubSeq(b, Len(b) - TailWindow + 2, Len(b))

Kept(b) == SubSeq(b, Len(b) - TailWindow + 1, Len(b))

Held(b) == PendingToken(b) \/ Len(b) <= TailWindow

Arrives(n) == buffer \o SubSeq(answer, received + 1, received + n)

\* A delta that is kept for later.
Buffers ==
  /\ pc = "open"
  /\ \E n \in 1..Len(answer) - received :
       /\ Held(Arrives(n))
       /\ buffer' = Arrives(n)
       /\ received' = received + n
  /\ UNCHANGED <<answer, delivered, pc, passed, cuts>>

\* A delta that makes the buffer long enough: all but its tail is restored.
Flushes ==
  /\ pc = "open"
  /\ \E n \in 1..Len(answer) - received :
       /\ ~Held(Arrives(n))
       /\ buffer' = Kept(Arrives(n))
       /\ delivered' = delivered \o Restored(Flushable(Arrives(n)))
       /\ passed' = passed \o Flushable(Arrives(n))
       /\ received' = received + n
  /\ cuts' = cuts \cup {[at |-> Len(passed'), seen |-> received']}
  /\ UNCHANGED <<answer, pc>>

\* Mutant: what is left is passed on as it is.
Done_NotRestored ==
  /\ pc = "open"
  /\ received = Len(answer)
  /\ delivered' = delivered \o buffer
  /\ passed' = passed \o buffer
  /\ pc' = "done"
  /\ UNCHANGED <<answer, received, buffer, cuts>>

\* [DONE]: what is left is restored as one piece.
Done ==
  /\ pc = "open"
  /\ received = Len(answer)
  /\ delivered' = delivered \o Restored(buffer)
  /\ passed' = passed \o buffer
  /\ pc' = "done"
  /\ UNCHANGED <<answer, received, buffer, cuts>>

\* The connection ends without [DONE], a lookup raises, or the client leaves.
Breaks ==
  /\ pc = "open"
  /\ pc' = "broken"
  /\ UNCHANGED <<answer, received, buffer, delivered, passed, cuts>>

Next == Buffers \/ Flushes \/ Done \/ Breaks

Spec == Init /\ [][Next]_vars

-----------------------------------------------------------------------------

TypeOK ==
  /\ answer \in Seq(Units)
  /\ received \in 0..Len(answer)
  /\ buffer \in Seq(Units)
  /\ delivered \in Seq(Units \cup Originals)
  /\ pc \in {"open", "done", "broken"}
  /\ passed \in Seq(Units)
  /\ cuts \subseteq [at : 0..Len(answer), seen : 0..Len(answer)]

\* Where a token stands in the answer as it was sent, with both brackets.
WholeTokens ==
  {i \in 1..Len(answer) - 3 : \E t \in Names : SubSeq(answer, i, i + 3) = Token(t)}

\* Buffering loses, repeats and reorders nothing: what left the buffer and what
\* is still in it make up what has arrived, and after [DONE] all of it has left.
NothingLost ==
  /\ pc # "done" => passed \o buffer = SubSeq(answer, 1, received)
  /\ pc = "done" => passed = answer

\* No token is cut while the rest of it is still to come: whatever the sizes of
\* the deltas, a cut inside a token happens when all of the token has arrived
\* ("Buffers chunks until a complete token is detected", handler.py:160).
NoneCutWhileArriving ==
  \A cut \in cuts, i \in WholeTokens :
    cut.at \in i .. i + 2 => cut.seen >= i + 3

\* A token within the last TailWindow of a finished answer is restored, however
\* the answer was divided; an answer no longer than that is restored throughout.
\* (A value that is a token's own name would put that name back.)
EndIsRestored ==
  pc = "done" =>
    \A t \in DOMAIN Original \ Originals :
      (\A i \in 1..Len(answer) :
         answer[i] = t => i - 2 \in WholeTokens /\ i - 2 > Len(answer) - TailWindow)
      => ~Contains(delivered, t)

\* "Handles token splits across chunk boundaries" (handler.py:161): every token
\* that the answer has in the form it was sent in is restored.
TokensSurvive ==
  pc = "done" =>
    \A t \in DOMAIN Original :
      (\A i \in 1..Len(answer) : answer[i] = t => i - 2 \in WholeTokens)
      => ~Contains(delivered, t)

=============================================================================
