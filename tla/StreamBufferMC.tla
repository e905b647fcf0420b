--------------------------- MODULE StreamBufferMC ---------------------------
(* Small instances of StreamBuffer for TLC: answers of up to MaxBlocks blocks. *)
EXTENDS StreamBuffer

CONSTANTS t1, t2, v1, MaxBlocks

TwoNames == {t1, t2}
OneKnown == [t \in {t1} |-> v1]

\* A word, a token the session knows and one it does not, a token that lost its
\* brackets, and brackets of other text.
Blocks == {<<"word">>, Token(t1), Token(t2), <<"SG_", t1>>, <<"{{", "SG_">>, <<"}}">>}

Made(n) == {FlattenSeq(bs) : bs \in UNION {[1..k -> Blocks] : k \in 0..n}}

\* Some answers go on long enough for a token to move through the whole window.
BlockAnswers ==
  Made(MaxBlocks) \cup
  {a \o [i \in 1..5 |-> "word"] : a \in Made(MaxBlocks - 1)}
=============================================================================
