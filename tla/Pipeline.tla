------------------------------ MODULE Pipeline ------------------------------
(***************************************************************************)
(* Masking of one text at a time by MaskingEngine.mask, and by mask_async    *)
(* with the two-tier pipeline: the fast recognizers run on the event loop,   *)
(* the heavy ones in a thread pool that all calls share and that is made      *)
(* when first needed.  A call holds the event loop (loop) from one await to   *)
(* the next; the only await is the one for the pool.                          *)
(*                                                                           *)
(* Which stretches a recognizer matches is given by the text; tokens are      *)
(* named by what they stand for, as their minting is Gateway's subject.       *)
(***************************************************************************)
EXTENDS Overlaps

CONSTANTS
  Calls,              \* calls of mask and mask_async
  Registry,           \* the recognizers in the order they were loaded
  Scenarios,          \* which call masks which text
  Threshold,          \* settings.CONFIDENCE_THRESHOLD, in hundredths
  PoolSize,           \* min(4, settings.WORKERS)
  MaxFaults,          \* how many recognizers raise (a bound)
  MaxShutdowns,       \* how often shutdown_pipeline is called (a bound)
  Nobody              \* no call: the loop is free

Recognizers == DOMAIN Registry

\* What a recognizer matches in a text; a call of NoText is never made.
Texts == [length : Nat, matches : [Recognizers -> Seq(Detections)]]
NoText == [length |-> 0, matches |-> [i \in Recognizers |-> <<>>]]

ASSUME PipelineAssumption ==
  /\ Registry \in Seq([types : SUBSET EntityTypes, priority : Nat])
  /\ Scenarios \subseteq [Calls -> Texts]
  /\ \A s \in Scenarios : \A c \in Calls : \A i \in Recognizers :
       \A k \in DOMAIN s[c].matches[i] :
         LET d == s[c].matches[i][k] IN d.start < d.end /\ d.end <= s[c].length
  /\ Threshold \in Scores /\ PoolSize \in Nat \ {0}
  /\ MaxFaults \in Nat /\ MaxShutdowns \in Nat
  /\ Nobody \notin Calls

Pools == 1..MaxShutdowns + 1

VARIABLES
  text,               \* text[c]: what c is to mask
  bypass,             \* settings.BYPASS_MASKING
  mode, pc,           \* which method a call is of, and its next step
  listed,             \* all_results, later sorted_results
  answered,           \* heavy recognizers whose future is done
  raised,             \* those among them that raised
  executor,           \* _nlp_executor: the number of the pool, 0 for None
  made,               \* how many pools were made
  queue,              \* queue[e]: the jobs of pool e that wait for a thread
  busy,               \* busy[e]: the jobs its threads are at
  cursor,             \* the loops' position
  kept,               \* `resolved`
  masked,             \* masked_text
  loop,               \* the call that holds the event loop
  faults, shutdowns

given == <<text, bypass>>
poolVars == <<executor, made, queue, busy>>
loopVars == <<cursor, kept, masked>>
vars == <<given, mode, pc, listed, answered, raised, poolVars, loopVars, loop, faults,
          shutdowns>>

Heavy == {i \in Recognizers : Registry[i].types \cap {"PERSON_NAME", "DATE_OF_BIRTH"} # {}}

\* get_sorted_recognizers(), and the two tiers in the same order.
Ranked == Sorted([i \in Recognizers |-> i], [i \in Recognizers |-> -Registry[i].priority])
FastOnes == Among(Ranked, Recognizers \ Heavy)
HeavyOnes == Among(Ranked, Heavy)

\* analyze(), and of its results those that reach the threshold.
Findings(t, i) == Among(Deduplicate(t.matches[i]), {d \in Detections : d.score >= Threshold})

FindingsOf(t, order) == FlattenSeq([k \in DOMAIN order |-> Findings(t, order[k])])

\* A text is the sequence of its characters, and, once masked, of tokens.
Character(k) == <<"character", k, k + 1>>
Token(d) == <<d.type, d.start, d.end>>
Characters(t) == [k \in 1..t.length |-> Character(k - 1)]

Init ==
  /\ text \in Scenarios
  /\ bypass \in BOOLEAN
  /\ mode = [c \in Calls |-> "none"]
  /\ pc = [c \in Calls |-> "idle"]
  /\ listed = [c \in Calls |-> <<>>]
  /\ answered = [c \in Calls |-> {}]
  /\ raised = [c \in Calls |-> {}]
  /\ executor = 0 /\ made = 0
  /\ queue = [e \in Pools |-> <<>>]
  /\ busy = [e \in Pools |-> {}]
  /\ cursor = [c \in Calls |-> 0]
  /\ kept = [c \in Calls |-> <<>>]
  /\ masked = [c \in Calls |-> <<>>]
  /\ loop = Nobody
  /\ faults = 0 /\ shutdowns = 0
-----------------------------------------------------------------------------
Goto(c, label) == pc' = [pc EXCEPT ![c] = label]

Called(c, m) ==
  /\ pc[c] = "idle" /\ text[c] # NoText /\ loop = Nobody
  /\ mode' = [mode EXCEPT ![c] = m]

\* With the bypass on, both methods return the text as it is.
Bypass(c) ==
  /\ bypass
  /\ \E m \in {"mask", "mask_async"} : Called(c, m)
  /\ masked' = [masked EXCEPT ![c] = Characters(text[c])]
  /\ Goto(c, "done")
  /\ UNCHANGED <<given, listed, answered, raised, poolVars, cursor, kept, loop, faults, shutdowns>>

Asked(c, m) == ~bypass /\ Called(c, m)

\* mask(): every recognizer runs on the loop.
Mask(c) ==
  /\ Asked(c, "mask")
  /\ listed' = [listed EXCEPT ![c] = FindingsOf(text[c], Ranked)]
  /\ Goto(c, "sort")
  /\ loop' = c
  /\ UNCHANGED <<given, answered, raised, poolVars, loopVars, faults, shutdowns>>

\* Mutant: the pool that was made is not remembered.
Submit_NotKept(c) ==
  /\ made' = made + 1
  /\ queue' = [queue EXCEPT ![made + 1] = @ \o [k \in DOMAIN HeavyOnes |-> <<c, HeavyOnes[k]>>]]
  /\ UNCHANGED <<executor, busy>>

\* A job for each heavy recognizer, in the pool there is or in a new one.
Submit(c) ==
  LET e == IF executor = 0 THEN made + 1 ELSE executor
  IN  /\ executor' = e
      /\ made' = IF executor = 0 THEN made + 1 ELSE made
      /\ queue' = [queue EXCEPT ![e] = @ \o [k \in DOMAIN HeavyOnes |-> <<c, HeavyOnes[k]>>]]
      /\ UNCHANGED busy

\* mask_async() and run_pipeline() up to gather().
MaskAsync(c) ==
  /\ Asked(c, "mask_async")
  /\ listed' = [listed EXCEPT ![c] = FindingsOf(text[c], FastOnes)]
  /\ IF HeavyOnes = <<>>
     THEN Goto(c, "sort") /\ loop' = c /\ UNCHANGED poolVars
     ELSE Goto(c, "gather") /\ Submit(c) /\ UNCHANGED loop
  /\ UNCHANGED <<given, answered, raised, loopVars, faults, shutdowns>>

\* A recognizer raises on the loop: so does the call.
MaskRaises(c) ==
  /\ \E m \in {"mask", "mask_async"} : Asked(c, m)
  /\ faults < MaxFaults /\ faults' = faults + 1
  /\ Goto(c, "failed")
  /\ UNCHANGED <<given, listed, answered, raised, poolVars, loopVars, loop, shutdowns>>

\* A thread of the pool takes the next job.
StartJob(e) ==
  /\ queue[e] # <<>> /\ Cardinality(busy[e]) < PoolSize
  /\ busy' = [busy EXCEPT ![e] = @ \cup {Head(queue[e])}]
  /\ queue' = [queue EXCEPT ![e] = Tail(@)]
  /\ UNCHANGED <<given, mode, pc, listed, answered, raised, executor, made, loopVars, loop,
                 faults, shutdowns>>

\* Mutant: an exception leaves the future without a result.
FinishJob_LostOnRaise(e, c, i) ==
  /\ <<c, i>> \in busy[e]
  /\ busy' = [busy EXCEPT ![e] = @ \ {<<c, i>>}]
  /\ \/ answered' = [answered EXCEPT ![c] = @ \cup {i}] /\ UNCHANGED faults
     \/ faults < MaxFaults /\ faults' = faults + 1 /\ UNCHANGED answered
  /\ UNCHANGED <<given, mode, pc, listed, raised, executor, made, queue, loopVars, loop,
                 shutdowns>>

\* run_recognizer_sync(): what a recognizer raises is logged, and it found nothing.
FinishJob(e, c, i) ==
  /\ <<c, i>> \in busy[e]
  /\ busy' = [busy EXCEPT ![e] = @ \ {<<c, i>>}]
  /\ answered' = [answered EXCEPT ![c] = @ \cup {i}]
  /\ \/ UNCHANGED <<raised, faults>>
     \/ /\ faults < MaxFaults /\ faults' = faults + 1
        /\ raised' = [raised EXCEPT ![c] = @ \cup {i}]
  /\ UNCHANGED <<given, mode, pc, listed, executor, made, queue, loopVars, loop, shutdowns>>

\* Mutant: gather() returns with the first future that is done.
Gather_First(c) ==
  LET heard == Among(HeavyOnes, answered[c] \ raised[c])
  IN  /\ pc[c] = "gather" /\ loop = Nobody
      /\ answered[c] # {}
      /\ listed' = [listed EXCEPT ![c] = @ \o FindingsOf(text[c], heard)]
      /\ Goto(c, "sort")
      /\ loop' = c
      /\ UNCHANGED <<given, mode, answered, raised, poolVars, loopVars, faults, shutdowns>>

\* gather() has all futures; their results follow in the order of the futures.
Gather(c) ==
  LET heard == Among(HeavyOnes, Recognizers \ raised[c])
  IN  /\ pc[c] = "gather" /\ loop = Nobody
      /\ answered[c] = {HeavyOnes[k] : k \in DOMAIN HeavyOnes}
      /\ listed' = [listed EXCEPT ![c] = @ \o FindingsOf(text[c], heard)]
      /\ Goto(c, "sort")
      /\ loop' = c
      /\ UNCHANGED <<given, mode, answered, raised, poolVars, loopVars, faults, shutdowns>>

\* shutdown_pipeline(): the next call makes a pool, the old one ends its jobs.
Shutdown ==
  /\ executor # 0 /\ shutdowns < MaxShutdowns
  /\ executor' = 0
  /\ shutdowns' = shutdowns + 1
  /\ UNCHANGED <<given, mode, pc, listed, answered, raised, made, queue, busy, loopVars, loop,
                 faults>>
-----------------------------------------------------------------------------
(* _resolve_overlaps() and the replacement of what it kept.                 *)

Sort(c) ==
  /\ pc[c] = "sort"
  /\ listed' = [listed EXCEPT ![c] = InPlace([k \in DOMAIN @ |-> Boosted(@[k])])]
  /\ cursor' = [cursor EXCEPT ![c] = 1]
  /\ Goto(c, "resolve")
  /\ UNCHANGED <<given, mode, answered, raised, poolVars, kept, masked, loop, faults, shutdowns>>

Resolve(c) ==
  /\ pc[c] = "resolve" /\ cursor[c] <= Len(listed[c])
  /\ kept' = [kept EXCEPT ![c] = KeepBetter(@, listed[c][cursor[c]])]
  /\ cursor' = [cursor EXCEPT ![c] = @ + 1]
  /\ UNCHANGED <<given, mode, pc, listed, answered, raised, poolVars, masked, loop, faults,
                 shutdowns>>

Resolved(c) ==
  /\ pc[c] = "resolve" /\ cursor[c] > Len(listed[c])
  /\ masked' = [masked EXCEPT ![c] = Characters(text[c])]
  /\ cursor' = [cursor EXCEPT ![c] = Len(kept[c])]
  /\ Goto(c, "splice")
  /\ UNCHANGED <<given, mode, listed, answered, raised, poolVars, kept, loop, faults, shutdowns>>

\* Mutant: the end of a detection taken for its last character.
Spliced_EndIncluded(s, d) == SubSeq(s, 1, d.start) \o <<Token(d)>> \o SubSeq(s, d.end + 2, Len(s))

Spliced(s, d) == SubSeq(s, 1, d.start) \o <<Token(d)>> \o SubSeq(s, d.end + 1, Len(s))

\* From the last one to the first, so that the places of the others stay.
Splice(c) ==
  /\ pc[c] = "splice" /\ cursor[c] > 0
  /\ masked' = [masked EXCEPT ![c] = Spliced(@, kept[c][cursor[c]])]
  /\ cursor' = [cursor EXCEPT ![c] = @ - 1]
  /\ UNCHANGED <<given, mode, pc, listed, answered, raised, poolVars, kept, loop, faults,
                 shutdowns>>

Return(c) ==
  /\ pc[c] = "splice" /\ cursor[c] = 0
  /\ Goto(c, "done")
  /\ loop' = Nobody
  /\ UNCHANGED <<given, mode, listed, answered, raised, poolVars, loopVars, faults, shutdowns>>
-----------------------------------------------------------------------------
Goes(c) == Gather(c) \/ Sort(c) \/ Resolve(c) \/ Resolved(c) \/ Splice(c) \/ Return(c)

Works(e) == StartJob(e) \/ \E c \in Calls, i \in Recognizers : FinishJob(e, c, i)

Next ==
  \/ \E c \in Calls : Bypass(c) \/ Mask(c) \/ MaskAsync(c) \/ MaskRaises(c) \/ Goes(c)
  \/ \E e \in Pools : Works(e)
  \/ Shutdown

Spec == Init /\ [][Next]_vars

\* The loop runs what is ready, the pools' threads run and recognizers end.
Fairness ==
  /\ \A c \in Calls : WF_vars(Goes(c))
  /\ \A e \in Pools : WF_vars(Works(e))

FairSpec == Spec /\ Fairness
-----------------------------------------------------------------------------
Labels == {"idle", "gather", "sort", "resolve", "splice", "done", "failed"}

\* The type invariant of the calls and the pools.
TypeOK ==
  /\ text \in Scenarios /\ bypass \in BOOLEAN
  /\ mode \in [Calls -> {"none", "mask", "mask_async"}]
  /\ pc \in [Calls -> Labels]
  /\ listed \in [Calls -> Seq(Detections)]
  /\ answered \in [Calls -> SUBSET Recognizers]
  /\ raised \in [Calls -> SUBSET Recognizers]
  /\ executor \in 0..MaxShutdowns + 1 /\ made \in 0..MaxShutdowns + 1
  /\ queue \in [Pools -> Seq(Calls \X Recognizers)]
  /\ busy \in [Pools -> SUBSET (Calls \X Recognizers)]
  /\ cursor \in [Calls -> Nat]
  /\ kept \in [Calls -> Seq(Detections)]
  /\ loop \in Calls \cup {Nobody}
  /\ faults \in 0..MaxFaults /\ shutdowns \in 0..MaxShutdowns

\* masker.py:144-173: what is to be replaced does not overlap, so each place in
\* the original text is still the place in the text replaced from its end.
KeptDisjoint ==
  \A c \in Calls : \A i, j \in DOMAIN kept[c] : i < j => kept[c][i].end <= kept[c][j].start

Best(c, d) == \A e \in ToSet(listed[c]) : Overlap(d, e) => e = d \/ e.score < d.score

\* masker.py:293, "keep the detection with highest confidence": a detection that
\* beats everything it overlaps with is replaced, whatever chain of others
\* overlaps on either side.
BestIsKept ==
  \A c \in Calls : pc[c] \in {"splice", "done"} =>
    \A d \in ToSet(listed[c]) : Best(c, d) => d \in ToSet(kept[c])

\* The masked text is the text with each kept stretch, and nothing else,
\* replaced by its token.
SplicedInPlace ==
  \A c \in Calls : pc[c] = "done" =>
    LET all == ToSet(kept[c])
        At(k) == IF \E d \in all : d.start <= k /\ k < d.end
                 THEN {Token(d) : d \in {e \in all : e.start = k}}
                 ELSE {Character(k)}
    IN  masked[c] = FlattenSeq([k \in 1..text[c].length |-> SetToSeq(At(k - 1))])

\* What mask() keeps of the text of c.
Reference(c) ==
  LET all == FindingsOf(text[c], Ranked)
  IN  Deduplicate([k \in DOMAIN all |-> Boosted(all[k])])

NoTies(s) == \A i, j \in DOMAIN s : i # j => Place(s[i]) # Place(s[j])

\* masker.py:194, "Async version of mask() using the two-tier pipeline": the two
\* mask the same stretches, however the pool's threads interleave the calls,
\* unless a recognizer raised in the pool (pipeline.py:86-94) or two detections
\* tie, when the first in the list wins and the lists differ in order.
AgreesWithMask ==
  \A c \in Calls :
    pc[c] \in {"splice", "done"} /\ ~bypass /\ raised[c] = {} /\ NoTies(listed[c]) =>
      kept[c] = Reference(c)

\* Every call ends: a recognizer that raises, a pool that is shut down under it
\* or a queue behind other calls does not leave it waiting (pipeline.py:130-148).
EveryCallEnds ==
  \A c \in Calls : pc[c] = "gather" ~> pc[c] = "done"
=============================================================================
