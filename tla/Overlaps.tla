------------------------------ MODULE Overlaps ------------------------------
(***************************************************************************)
(* Detections and what becomes of those that overlap.  A detection is the   *)
(* stretch start..end-1 of a text, what it was taken for, and a score in     *)
(* hundredths.  The text itself is left out but for what a policy can ask    *)
(* of it: the number in it and whether a pattern is found.                   *)
(***************************************************************************)
EXTENDS Integers, Sequences, SequencesExt, FiniteSets

CONSTANT EntityTypes

Scores == 0..100
Unparsable == -1               \* float() of the digits raises

Detections ==
  [type : EntityTypes, start : Nat, end : Nat, score : Scores, local : BOOLEAN,
   number : Nat \cup {Unparsable}, found : BOOLEAN]

Overlap(d, e) == d.start < e.end /\ e.start < d.end

\* sorted() with a key: by key, and in the order of s where keys are equal.
Rank(key, i) ==
  1 + Cardinality({j \in DOMAIN key : key[j] < key[i] \/ (key[j] = key[i] /\ j < i)})

Sorted(s, key) == [k \in DOMAIN s |-> s[CHOOSE i \in DOMAIN s : Rank(key, i) = k]]

\* The key (start, -score), as one number: scores are at most 100.
Place(d) == d.start * 101 + (100 - d.score)

InPlace(s) == Sorted(s, [i \in DOMAIN s |-> Place(s[i])])

\* Mutants: the first of two stays; a stretch ends at its last character.
KeepBetter_FirstStays(kept, d) ==
  IF kept = <<>> \/ d.start >= Last(kept).end THEN Append(kept, d) ELSE kept

KeepBetter_EndsTouch(kept, d) ==
  IF kept = <<>> \/ d.start >= Last(kept).end - 1 THEN Append(kept, d)
  ELSE IF d.score > Last(kept).score THEN [kept EXCEPT ![Len(kept)] = d] ELSE kept

\* One turn of the loop that drops overlaps: the next detection is added,
\* takes the place of the last one, or is dropped.
KeepBetter(kept, d) ==
  IF kept = <<>> \/ d.start >= Last(kept).end THEN Append(kept, d)
  ELSE IF d.score > Last(kept).score THEN [kept EXCEPT ![Len(kept)] = d] ELSE kept

\* _deduplicate(): the same loop over the matches of one recognizer.
Deduplicate(s) ==
  LET sorted == InPlace(s)
      kept[n \in 0..Len(s)] ==
        IF n = 0 THEN <<>> ELSE KeepBetter(kept[n - 1], sorted[n])
  IN  kept[Len(s)]

\* The elements of s that are in S, in their order (SelectSeq by a definition that
\* a proof can unfold).
Among(s, S) ==
  LET chosen[n \in 0..Len(s)] ==
        IF n = 0 THEN <<>>
        ELSE chosen[n - 1] \o IF s[n] \in S THEN <<s[n]>> ELSE <<>>
  IN  chosen[Len(s)]

\* The boost of a recognizer made for one country.
Boosted(d) ==
  IF d.local THEN [d EXCEPT !.score = IF @ > 95 THEN 100 ELSE @ + 5] ELSE d
=============================================================================
