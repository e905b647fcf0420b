----------------------------- MODULE FrontDoorMC ----------------------------
(* Small instances of FrontDoor for TLC: three calls against a limit of two,  *)
(* so that a window can be full with entries of different age.                *)
EXTENDS FrontDoor

CONSTANTS k1, k2, c1, c2, c3

TwoClients == {k1, k2}
ThreeCalls == {c1, c2, c3}

Shape(p, k, l) == [path |-> p, key |-> k, length |-> l]

Good == Shape("api", "good", "fits")

\* One shape for each way through the layers.
AnyWay ==
  {Good, Shape("api", "bad", "fits"), Shape("api", "undecodable", "fits"),
   Shape("api", "good", "big"), Shape("health", "bad", "fits"),
   Shape("public", "bad", "fits"), Shape("preflight", "bad", "fits")}

\* Two plain calls of one client, and a third of either client that goes any way.
TwoGoodCalls ==
  {[client |-> [c \in ThreeCalls |-> IF c = c3 THEN k ELSE k1],
    shape |-> [c \in ThreeCalls |-> IF c = c3 THEN s ELSE Good]] :
      k \in TwoClients, s \in AnyWay}

\* One client that tries keys.
OneGuesser ==
  {[client |-> [c \in ThreeCalls |-> k1],
    shape |-> [c \in ThreeCalls |-> Shape("api", "bad", "fits")]]}

\* A burst: the behaviours of the front door in which no time passes, so that all
\* that happens lies in one window.
Burst == Init /\ [][\E c \in Calls : Arrive(c) \/ Goes(c)]_vars

\* main.py:163, "Authentication (after rate limiting so brute-force is
\* rate-limited)", and docs/architecture.md:55-56: of the calls that a client
\* makes in one window no more than the limit have their key looked at.
KeyGuessesLimited ==
  \A k \in Clients : Cardinality({c \in Calls : client[c] = k /\ status[c] = 401}) <= Limit
=============================================================================
