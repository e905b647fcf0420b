----------------------------- MODULE Detection ------------------------------
(***************************************************************************)
(* The detections a call of mask or mask_async has collected, and what the    *)
(* policy engine and the smart router make of them.  Both take exactly this    *)
(* list, before overlaps are resolved.                                        *)
(***************************************************************************)
EXTENDS Pipeline, PolicyEngine, SmartRouter

CONSTANT
  PolicyFiles         \* files the policy engine may be configured with

ASSUME DetectionAssumption == PolicyFiles \subseteq Files

Keys == UNION {{f.bindings[k].key : k \in DOMAIN f.bindings} : f \in PolicyFiles}

\* Where the listed detections of c are still as the recognizers left them.
Collected(c) == pc[c] = "sort"

\* policy.py:229-238: filter_results() renames the detections of its caller while
\* it goes, and a condition may raise in the middle.  Filtering the same list again
\* then raises again, although some of it has other types now: no detection gets
\* past a policy file because a call before failed on it half way.
FailureRepeats ==
  \A c \in Calls : Collected(c) =>
    \A f \in PolicyFiles : \A key \in Keys :
      LET policy == GetPolicyForKey(Loaded(f), key)
      IN  Raising(listed[c], policy) # {} =>
            Raising(ResultsAfter(listed[c], policy), policy) # {}

\* smart_router.py:95-130: one finding more never makes a text less sensitive or
\* takes it from the local model to the external one, whichever groups and
\* bonuses it completes, and whatever policy has filtered the findings before
\* (one whose conditions raise leaves nothing to route).
MoreFindingsMoreSensitive ==
  \A c \in Calls : Collected(c) =>
    \A f \in PolicyFiles : \A key \in Keys : \A n \in DOMAIN listed[c] :
      LET policy == GetPolicyForKey(Loaded(f), key)
          all == FilterResults(listed[c], policy)
          fewer == FilterResults(RemoveAt(listed[c], n), policy)
      IN  Raising(listed[c], policy) = {} =>
            /\ Sensitivity(fewer) <= Sensitivity(all)
            /\ Decide(fewer) = "local" => Decide(all) = "local"
=============================================================================
