-------------------------- MODULE SemanticRestorer --------------------------
(***************************************************************************)
(* How engine/semantic_restorer.py puts values back into a text, tier by    *)
(* tier.  A text is a sequence of units: a word, an opening or closing      *)
(* bracket, the "SG_" that starts a token's name, and the rest of its name, *)
(* which is the token's identity.  {{SG_t}} is the form a token was sent    *)
(* in; a model may answer with other brackets or with none.                 *)
(***************************************************************************)
EXTENDS Integers, Sequences, SequencesExt

CONSTANTS
  Names,              \* names of tokens
  Original            \* what the session's mapping holds: from names to values

Opening == {"{{", "["}
Closing == {"}}", "]"}

ASSUME NamesAssumption ==
  /\ DOMAIN Original \subseteq Names
  /\ Names \cap (Opening \cup Closing \cup {"SG_", "word"}) = {}

Units == Names \cup Opening \cup Closing \cup {"SG_", "word"}
Originals == {Original[t] : t \in DOMAIN Original}
Token(t) == <<"{{", "SG_", t, "}}">>

\* Where the text s mentions a token, in whatever form.
Mentions(s) == {i \in 1..Len(s) - 1 : s[i] = "SG_" /\ s[i + 1] \in Names}

Wrapped(s, i) ==
  i > 1 /\ i + 2 <= Len(s) /\ s[i - 1] \in Opening /\ s[i + 2] \in Closing

\* The positions a pattern matches at a mention, and the text it matches.
Span(s, i) == IF Wrapped(s, i) THEN i - 1 .. i + 2 ELSE i .. i + 1
Literal(s, i) == IF Wrapped(s, i) THEN SubSeq(s, i - 1, i + 2) ELSE SubSeq(s, i, i + 1)

Tier(s, i) ==
  CASE Literal(s, i) = Token(s[i + 1]) -> 1
    [] Wrapped(s, i) /\ Literal(s, i) # Token(s[i + 1]) -> 2
    [] OTHER -> 3

\* The mention at which a token is first found; later forms of it are skipped
\* because it is in restored_token_ids, but str.replace takes every copy of
\* the text that was found.
FirstFound(s, i) ==
  CHOOSE j \in Mentions(s) :
    /\ s[j + 1] = s[i + 1]
    /\ \A k \in Mentions(s) : s[k + 1] = s[i + 1] =>
         \/ Tier(s, j) < Tier(s, k)
         \/ Tier(s, j) = Tier(s, k) /\ j <= k

Replaced(s, i) ==
  /\ i \in Mentions(s)
  /\ s[i + 1] \in DOMAIN Original
  /\ Literal(s, i) = Literal(s, FirstFound(s, i))

\* Mutant: the lookup's miss is inserted.
Restored_MissInserted(s) ==
  LET At(i) == IF i \in Mentions(s)
               THEN <<IF s[i + 1] \in DOMAIN Original THEN Original[s[i + 1]] ELSE "None">>
               ELSE IF \E j \in Mentions(s) : i \in Span(s, j) THEN <<>> ELSE <<s[i]>>
  IN  FlattenSeq([i \in DOMAIN s |-> At(i)])

Restored(s) ==
  LET At(i) == IF Replaced(s, i) THEN <<Original[s[i + 1]]>>
               ELSE IF \E j \in Mentions(s) : Replaced(s, j) /\ i \in Span(s, j)
                    THEN <<>> ELSE <<s[i]>>
  IN  FlattenSeq([i \in DOMAIN s |-> At(i)])

=============================================================================
