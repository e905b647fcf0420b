------------------------------ MODULE GatewayMC -----------------------------
(***************************************************************************)
(* Small instances of Gateway for TLC: two requests on two workers, so that *)
(* they may share a loop or race on a shared backend, bodies of one value   *)
(* or of a repeated value around a different one, and one fault.            *)
(***************************************************************************)
EXTENDS Gateway, TLC

CONSTANTS r1, r2, w1, w2, v1, v2

TwoSessions == {r1, r2}
TwoWorkers == {w1, w2}
TwoValues == {v1, v2}

ShortBodies == {<<v1>>}
MixedBody == {<<v1, v2, v1>>}

SharedNothing == {"memory"}
RedisOnly == {"redis"}

RequestWorkerSymmetry == Permutations(TwoSessions) \cup Permutations(TwoWorkers)
=============================================================================
