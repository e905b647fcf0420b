---------------------------- MODULE PolicyEngine ----------------------------
(***************************************************************************)
(* engine/policy.py: which detections of a text are masked for an API key.   *)
(* The engine is a record of its two dictionaries, and each method an         *)
(* operator.  The handler builds an engine from settings.POLICY_FILE, but no  *)
(* endpoint asks it: the detections it is given here are those that the        *)
(* pipeline collects, which is what its interface takes.  Types are given in   *)
(* upper case, in which matches_entity() compares them.                       *)
(***************************************************************************)
EXTENDS Overlaps

Actions == {"mask", "pass", "redact"}
Fields == {"value_length", "numeric_value", "pattern", "other"}
Comparisons == {"gt", "lt", "eq", "gte", "lte", "matches", "other"}

\* A value that float() does not take, or that is no pattern: a file that has one
\* loads, and the condition raises when it is evaluated.
Unusable == -1

Conditions == [field : Fields, operator : Comparisons, value : Nat \cup {Unusable}]
Always == [field |-> "none"]

Rules == [types : SUBSET (EntityTypes \cup {"*"}), action : Actions,
          condition : Conditions \cup {Always}]

Policies == [rules : Seq(Rules), default : Actions]

\* What a policy file says, in the order in which it says it.
Files == [policies : Seq([name : STRING, policy : Policies]),
          bindings : Seq([key : STRING, policy : STRING])]

DefaultPolicy == [rules |-> <<>>, default |-> "mask"]

\* matches_entity()
MatchesEntity(rule, d) == rule.types \cap {"*", d.type} # {}

\* The comparison, or another operator, which counts as met.
Compares(operator, actual, value) ==
  CASE operator = "gt"  -> actual > value
    [] operator = "lt"  -> actual < value
    [] operator = "eq"  -> actual = value
    [] operator = "gte" -> actual >= value
    [] operator = "lte" -> actual <= value
    [] OTHER            -> TRUE

\* evaluate_condition() has no comparison to make: a number it cannot parse, a
\* field or an operator it does not know.  The rule then applies, whatever it says.
NotCompared(condition, d) ==
  \/ condition.field \notin {"value_length", "numeric_value", "pattern"}
  \/ condition.field = "numeric_value" /\ d.number = Unparsable
  \/ condition.field = "pattern" /\ condition.operator # "matches"
  \/ condition.field # "pattern" /\ condition.operator \in {"matches", "other"}

EvaluateCondition(condition, d) ==
  LET met == CASE condition.field = "value_length"  -> Compares(condition.operator, d.end - d.start, condition.value)
               [] condition.field = "numeric_value" -> Compares(condition.operator, d.number, condition.value)
               [] OTHER                             -> d.found
  IN  CASE NotCompared(condition, d)   -> "met"
        [] condition.value = Unusable  -> "raises"
        [] met                         -> "met"
        [] OTHER                       -> "unmet"

\* The rules that are for the type of d and whose condition does not fail.
Deciding(policy, d) ==
  {k \in DOMAIN policy.rules :
     MatchesEntity(policy.rules[k], d) /\ EvaluateCondition(policy.rules[k].condition, d) # "unmet"}

\* get_action(): the first of them decides, if only by raising.
GetAction(policy, d) ==
  IF Deciding(policy, d) = {} THEN policy.default
  ELSE LET rule == policy.rules[CHOOSE k \in Deciding(policy, d) :
                                  \A l \in Deciding(policy, d) : k <= l]
       IN  IF EvaluateCondition(rule.condition, d) = "raises" THEN "raises" ELSE rule.action

Redacted(d) == [d EXCEPT !.type = "REDACTED_" \o @]

\* filter_results(): a redacted detection stays, under another type.
Treated(policy, kept, d) ==
  CASE GetAction(policy, d) = "pass"   -> kept
    [] GetAction(policy, d) = "redact" -> Append(kept, Redacted(d))
    [] OTHER                           -> Append(kept, d)

\* What it returns, unless a condition raises.
FilterResults(results, policy) ==
  LET filtered[n \in 0..Len(results)] ==
        IF n = 0 THEN <<>> ELSE Treated(policy, filtered[n - 1], results[n])
  IN  filtered[Len(results)]

Raising(results, policy) == {n \in DOMAIN results : GetAction(policy, results[n]) = "raises"}

\* Mutant: what cannot be judged is redacted before the exception goes on.
ResultsAfter_FailsSafe(results, policy) ==
  [n \in DOMAIN results |->
     IF /\ GetAction(policy, results[n]) \in {"redact", "raises"}
        /\ \A m \in Raising(results, policy) : n <= m
     THEN Redacted(results[n]) ELSE results[n]]

\* The list of the caller after the call: filter_results() renames the detections
\* themselves, those before the first that raises.
ResultsAfter(results, policy) ==
  [n \in DOMAIN results |->
     IF /\ GetAction(policy, results[n]) = "redact"
        /\ \A m \in Raising(results, policy) : n < m
     THEN Redacted(results[n]) ELSE results[n]]

\* An engine: policies by name, and the policy each bound key names.
\* get_policy_for_key(): what is not bound or not loaded masks everything.
GetPolicyForKey(engine, key) ==
  IF key \in DOMAIN engine.bindings /\ engine.bindings[key] \in DOMAIN engine.policies
  THEN engine.policies[engine.bindings[key]]
  ELSE DefaultPolicy

\* load_policies_from_file(), add_policy(), add_role_binding(): one entry after
\* the other, a later one of the same name in place of the earlier.
With(f, x, y) == [z \in DOMAIN f \cup {x} |-> IF z = x THEN y ELSE f[z]]

NewEngine == [policies |-> <<>>, bindings |-> <<>>]

AddPolicy(engine, entry) == [engine EXCEPT !.policies = With(@, entry.name, entry.policy)]

AddRoleBinding(engine, entry) == [engine EXCEPT !.bindings = With(@, entry.key, entry.policy)]

Loaded(file) ==
  LET added[n \in 0..Len(file.policies)] ==
        IF n = 0 THEN NewEngine ELSE AddPolicy(added[n - 1], file.policies[n])
      bound[n \in 0..Len(file.bindings)] ==
        IF n = 0 THEN added[Len(file.policies)]
        ELSE AddRoleBinding(bound[n - 1], file.bindings[n])
  IN  bound[Len(file.bindings)]
=============================================================================
