----------------------------- MODULE SmartRouter ----------------------------
(***************************************************************************)
(* engine/smart_router.py: how sensitive a text is, and whether it goes to    *)
(* the local model.  Numbers are in ten-thousandths and rounded down after    *)
(* each product, where the code computes in floating point.  The handler      *)
(* builds a router, but no endpoint asks it.                                  *)
(***************************************************************************)
EXTENDS Overlaps

CONSTANTS
  SensitivityThreshold, \* settings.SENSITIVITY_THRESHOLD
  LocalAvailable        \* LOCAL_FALLBACK_ENABLED and LOCAL_LLM_URL

ASSUME RouterAssumption == SensitivityThreshold \in Nat /\ LocalAvailable \in BOOLEAN

Whole == 10000

\* SENSITIVITY_WEIGHTS, 0.10 for what it does not list.
Weight(type) ==
  CASE type \in {"TN_NATIONAL_ID", "FR_NIR", "MA_CIN"} -> 4000
    [] type = "CREDIT_CARD" -> 3500
    [] type = "IBAN" -> 3000
    [] type = "DATE_OF_BIRTH" -> 2000
    [] type \in {"PERSON_NAME", "TN_COMPANY_ID", "FR_SIRET", "MA_ICE", "TN_ADDRESS",
                 "FR_ADDRESS"} -> 1500
    [] type = "IP_ADDRESS" -> 800
    [] OTHER -> 1000

\* CORRELATION_GROUPS, with the multipliers in tenths.
CorrelationGroups ==
  <<[types |-> {"PERSON_NAME", "TN_NATIONAL_ID"}, tenths |-> 15],
    [types |-> {"PERSON_NAME", "FR_NIR"}, tenths |-> 15],
    [types |-> {"PERSON_NAME", "MA_CIN"}, tenths |-> 15],
    [types |-> {"PERSON_NAME", "EMAIL", "PHONE"}, tenths |-> 13],
    [types |-> {"PERSON_NAME", "DATE_OF_BIRTH"}, tenths |-> 14],
    [types |-> {"CREDIT_CARD", "PERSON_NAME"}, tenths |-> 14]>>

Times(score, tenths) == (score * tenths) \div 10

\* Mutant: the bonus for four types only.
Diverse_FourOnly(types) == Cardinality(types) = 4

Diverse(types) == Cardinality(types) >= 4

\* calculate_sensitivity(): the weights of all that is detected are added, ...
BaseScore(detections) ==
  LET sum[n \in 0..Len(detections)] ==
        IF n = 0 THEN 0 ELSE sum[n - 1] + Weight(detections[n].type)
  IN  sum[Len(detections)]

\* ... multiplied for each group whose types are all there, ...
Multiplied(score, group, types) ==
  IF group.types \subseteq types THEN Times(score, group.tenths) ELSE score

Correlated(base, types) ==
  LET score[n \in 0..Len(CorrelationGroups)] ==
        IF n = 0 THEN base ELSE Multiplied(score[n - 1], CorrelationGroups[n], types)
  IN  score[Len(CorrelationGroups)]

\* ... and for diversity, and clamped.
Sensitivity(detections) ==
  LET types == {detections[k].type : k \in DOMAIN detections}
      together == Correlated(BaseScore(detections), types)
      score == IF Diverse(types) THEN Times(together, 12) ELSE together
  IN  IF score > Whole THEN Whole ELSE score

Decide(detections) ==
  IF LocalAvailable /\ Sensitivity(detections) >= SensitivityThreshold
  THEN "local" ELSE "external"
=============================================================================
