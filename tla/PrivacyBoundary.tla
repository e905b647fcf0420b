--------------------------- MODULE PrivacyBoundary --------------------------
(***************************************************************************)
(* What the gateway promises, seen from outside: what applications ask,     *)
(* what the provider receives and answers, and what applications get back.  *)
(* Stores, tokens in storage, workers, sessions and faults are not here:    *)
(* Gateway has them and implements this module (Gateway!KeepsBoundary).     *)
(***************************************************************************)
CONSTANTS
  Requests,
  Values,             \* detected values
  Tokens              \* placeholders

VARIABLES
  asked,              \* asked[r]: the values in the body of r, in text order
  out,                \* out[r]: what left for the provider in their place
  answer,             \* answer[r]: the placeholders the provider mentions
  shown               \* shown[r]: what the application reads in their place

vars == <<asked, out, answer, shown>>

Mentioned(text) == {text[i] : i \in DOMAIN text}

\* Every value is behind a placeholder, different values behind different
\* ones, and no placeholder is one that left for another request.
Masks(r, text) ==
  /\ DOMAIN text = DOMAIN asked[r]
  /\ Mentioned(text) \subseteq Tokens
  /\ \A i, j \in DOMAIN text : text[i] = text[j] => asked[r][i] = asked[r][j]
  /\ \A s \in Requests \ {r} : Mentioned(text) \cap Mentioned(out[s]) = {}

\* Each mention reads as the value this request asked with, or as it came.
Unmasks(r, text) ==
  /\ DOMAIN text = DOMAIN answer[r]
  /\ \A i \in DOMAIN text :
       \/ text[i] = answer[r][i]
       \/ \E k \in DOMAIN out[r] : out[r][k] = answer[r][i] /\ text[i] = asked[r][k]

Changes(f, r, value) == [f EXCEPT ![r] = value]

Init ==
  /\ asked = [r \in Requests |-> <<>>]
  /\ out = [r \in Requests |-> <<>>]
  /\ answer = [r \in Requests |-> <<>>]
  /\ shown = [r \in Requests |-> <<>>]

Ask(r) ==
  /\ asked[r] = <<>>
  /\ Mentioned(asked'[r]) \subseteq Values
  /\ asked' = Changes(asked, r, asked'[r])
  /\ UNCHANGED <<out, answer, shown>>

Send(r) ==
  /\ out[r] = <<>>
  /\ Masks(r, out'[r])
  /\ out' = Changes(out, r, out'[r])
  /\ UNCHANGED <<asked, answer, shown>>

\* A provider can mention what it was ever sent.
Answer(r) ==
  /\ answer[r] = <<>>
  /\ Mentioned(answer'[r]) \subseteq UNION {Mentioned(out[s]) : s \in Requests}
  /\ answer' = Changes(answer, r, answer'[r])
  /\ UNCHANGED <<asked, out, shown>>

Deliver(r) ==
  /\ shown[r] = <<>>
  /\ Unmasks(r, shown'[r])
  /\ shown' = Changes(shown, r, shown'[r])
  /\ UNCHANGED <<asked, out, answer>>

Next == \E r \in Requests : Ask(r) \/ Send(r) \/ Answer(r) \/ Deliver(r)

\* Nothing has to happen: a request may be refused, fail or be lost at any
\* point, but whatever crosses the boundary crosses it in these forms.
Spec == Init /\ [][Next]_vars
=============================================================================
