# SovereignGuard in TLA+

SovereignGuard is a gateway between applications and an LLM provider. It finds
personal data in a request, replaces each value by a token, sends the masked
text to the provider, and puts the values back into the answer. This directory
holds TLA+ models of the parts of it that carry that promise, TLC
configurations that check them on small instances, and proofs that TLAPS checks
for every instance.

    tlc -config breaker.cfg CircuitBreakerMC      # one run
    tlapm Gateway_proofs.tla                      # one module of proofs

`PROJECT.json` lists the runs, what each checks, which source lines each
definition stands for, the hazards of the code and the theorems.
Source paths below are relative to `src/sovereignguard/`.

## 1. The system

A deployment is one or more uvicorn worker processes (`WORKERS`), each with one
asyncio event loop, the module-level objects `engine`, `handler`,
`circuit_breaker`, `metrics` and the audit loggers, and a mapping store that is
private (memory) or shared (a SQLite file, Redis, Vault).

| Part | State | Operations | Talks to |
|---|---|---|---|
| endpoints, `proxy/router.py` | none of their own | chat, completions, embeddings, models, status, admin | handler, engine, breaker, metrics |
| request handler, `proxy/handler.py` | an HTTP client | `mask_request_body`, `forward_request`, `restore_response_body`, `stream_with_restoration` | engine, breaker, audit, upstream |
| masking engine, `engine/masker.py` | `_session_tokens` | `new_session`, `mask`, `restore`, `end_session`, `_resolve_overlaps` | recognizers, mapping store, restorer |
| mapping store, `engine/mapping.py` | per backend: markers, entries, value index | `create_session`, `store`, `retrieve`, `get_token_for_value`, `destroy_session`, `purge_expired` | SQLite, Redis, Vault |
| circuit breaker, `engine/circuit_breaker.py` | state, failure count, time of the last change | `check`, `record_success`, `record_failure`, `force_*`, `get_status`, the `state` property | handler, admin |
| semantic restorer, `engine/semantic_restorer.py` | none | `restore` in three tiers | mapping store |
| cleanup task, `main.py` | a mapping store of its own | `purge_expired` every 300 s | mapping store |
| immutable audit log, `audit/immutable_logger.py` | the file; `_sequence`, `_prev_hash`, `_initialized` per process | `initialize`, `log`, `verify_chain` | the file |
| plain audit log, `audit/logger.py` | the same file | `audit_log` | the file |
| metrics, `audit/metrics.py` | counters, the active gauge, one `_request_start` | `request_started`, `request_completed`, `update_mapping_entries` | endpoints |
| middleware, `middleware/*.py`, `main.py` | the window of each client (rate limiter) | CORS, size limit, authentication, rate limit: pass a call on or answer it | endpoints |
| recognizers, `recognizers/**` | compiled patterns | `analyze`, checksum validation | masking engine |
| policy engine, smart router, async pipeline, session manager, `engine/` | rules; a pool; a dictionary | `filter_results`, `decide`, `mask_async` | nothing calls them from a request |
| provider adapters, `proxy/providers.py` | none | build and parse payloads | handler |
| audit report, `audit/report.py` | none | a count over the log file | the file |

### What is hard, and what makes each part correct

* **Request path.** Handlers give up the loop only while they await the
  upstream, so on one worker everything else is atomic; on a shared backend other
  workers get between any two calls. Streams are the exception to the shape of a
  request: the endpoint returns before the generator it built has run, and the
  generator gives up the loop between the parts of the answer. Anything
  can raise, a remote call after it was carried out as well as before, a worker can die,
  an admin can delete a session, a TTL can go by.
  Correct means: no detected value leaves through an endpoint that masks; a
  token in an answer becomes the value *this* request replaced by it and never
  another session's; an answer that repeats the request restores to it; equal
  values share a token; a finished session leaves nothing behind; every request
  ends.
* **Mapping store.** Four backends with different atomicity: memory under a
  lock, SQLite one statement, Redis one `MULTI` per write but a read and a
  separate write-back per lookup, Vault several independent writes and swallowed
  errors. Correct means that these differences do not show, except where a finding
  says they do.
* **Circuit breaker.** OPEN becomes HALF_OPEN lazily, when somebody looks, and a
  request whose audit entry fails reports a success and then a failure. Correct means: it
  fails closed, recovers neither early nor by a stray report, and never stays OPEN for good.
* **Audit chain.** State in memory mirrors the end of a file; the process may
  die, and a write may leave nothing, a piece or everything behind. Correct means:
  an undisturbed chain verifies, entries are numbered by place, an acknowledged entry is
  in the file, and a modification shows. The last is true only up to the end of the file: a hash
  takes no key and nothing else tells where the file ended, so cutting it off, or
  rewriting its last line with a hash to match, shows only once a process that remembers the
  old end has logged again.
* **Metrics.** Paired increments and decrements over many ways to end.
* **Stream buffer.** The provider decides where its deltas end; a cut may fall
  anywhere. Correct means: nothing is lost or sent twice, and a token is restored
  however it was divided.
* **Middleware.** Every layer awaits the next, so calls interleave between any two;
  the limiter trusts a clock that can be set. Correct means: no more than the limit in
  any window, nobody turned away for what others did or for having been turned away. What
  the documentation says besides, that guesses of keys are limited, the order of the
  layers does not give.
* **Detection.** Several recognizers match overlapping stretches; one path runs them
  in order, the other spreads them over a pool that all calls share. Correct means:
  what is replaced does not overlap, the best of every overlap is kept, the
  replacements hit their places, both paths agree, and every call ends.
* **Policy engine, smart router.** Rules with conditions that may raise when a text meets
  them, in a filter that renames the detections of its caller while it goes; weights with
  multipliers. Correct means that no detection gets past a policy because an
  earlier call failed half way, and that more findings never make a text less sensitive.

The full list of hazards, each at its line with the properties that cover it,
is in `PROJECT.json`.

## 2. Modules

    Breaker  <-------- CircuitBreaker <-- CircuitBreakerMC <-- ConsecutiveFailures
       ^                     ^
       |                     +------- CircuitBreaker_proofs --> Breaker_proofs
       |
    Gateway  <-------- GatewayMC
       |  ^
       |  +-- Gateway_proofs --> Breaker_proofs
       |        ^----- Sessions_proofs
       v
    MappingStore

    AuditChain <------ AuditChainMC
       ^-------------- AuditChain_proofs

    SemanticRestorer <-- StreamBuffer <-- StreamBufferMC
                             ^------- StreamBuffer_proofs

    FrontDoor <-- FrontDoorMC
       ^--------- FrontDoor_proofs

    Overlaps <-- Pipeline, PolicyEngine, SmartRouter <-- Detection <-- DetectionMC
                                                       ^------ Detection_proofs

`Gateway` also instantiates `PrivacyBoundary`, which it implements.

### `Breaker`, `CircuitBreaker`

`Breaker` holds the breaker as a record `[state, failures, age]` and each method as an
operator from record to record, so that the request path can have one
per worker. `age` is the time since `_last_state_change`, counted up to
`ResetTimeout` and only while it matters (OPEN); `failures` stops at
`CountBound`. `Observe` is the `state` property, the only place where OPEN becomes
HALF_OPEN; `Checked`/`Admits` are the two outcomes of `check()`.

`CircuitBreaker` runs it under `Callers` that check, mask for a while and report as
`mask_request_body` does: a failure if masking raised (`Fail`), else a success (`Succeed`), after
which the audit entry is written (`Audited`) or cannot be, which is reported as a failure on top
(`AuditFails`). The module lets a report come after any number of other reports, operator
interventions and clock ticks, because the class is written for threads and ties no
report to an admission. The gateway does not do that: there is no `await` between `check()` and the
reports, and every worker has a breaker of its own, so at most one call is under way and no
report is late. The module is more general than its only user there, what holds of it holds of the
gateway, and `Gateway` has the breaker as it is used. `ConsecutiveFailures` adds the number of
calls that failed in a row, for one caller. `streak`, `sinceTrip` and `trials` are history variables for the
properties and influence nothing; `trials` is the set of callers let through in the
current HALF_OPEN episode that have not reported.

### `MappingStore`

One store is a record `[live, rows, index]`: markers, entries, and the index
from value to token. Every method of the four backends is one operator that
takes the backend's name first (`StoreEntry(b, h, s, t, v)`), so what a backend does
differently is in one place. It has no state of its own; `Gateway` keeps
`store[h]` for each shelf `h`: one per worker, one for the cleanup task (memory),
and `"shared"`.

### `Gateway`

A request `r` walks through `pc[r]`:

    new -> check -> mask <-> index -> send -> await -> restore <-> touch -> ending -> done
                      |                 stream: mask -> ending -> open -> await -> restore -> done

| Label | Code that comes next | Actions |
|---|---|---|
| `new` | endpoint up to the first await, `new_session`, `request_started` | `Arrive`, `ArriveRaises` |
| `check` | `circuit_breaker.check()` in `mask_request_body` | `Check` |
| `mask` | one replacement of `mask()`: lookup, mint, store | `ReuseToken`, `MintToken`, `MaskRaises`; at the end `MaskDone`, `AuditRaises` |
| `index` | Vault's second write | `IndexToken` |
| `send`, `open` | `client.post`; the start of the stream's generator | `Forward`, `OpenStream` |
| `await` | the upstream | `UpstreamReply`, `UpstreamFails` |
| `restore`, `touch` | one lookup; its write-back (Redis, Vault) | `Retrieve`, `Touch`, `RetrieveFails`, `Restored` |
| `ending` | the `finally`: `end_session` | `EndSession`, `EndSessionFails` |

`running[w]` is the request that holds the loop of worker `w` between two awaits. A
streamed answer comes in parts, so a stream holds its loop for one lookup (and its write-back) at
a time, and others run in between (`Resumes`). A call of a remote backend that raises may
have been carried out, as after a timeout: `ArriveRaises`, `MaskRaises`, `RetrieveFails` and
`EndSessionFails` have both outcomes.
Around the requests: `AdminDelete`, `Cleanup`, `TtlElapses`, `RedisExpires`,
`Crash`, `Tick`. `disturbed` and `forgotten` are history variables.

The state corresponds to the code as follows: `store` to the dictionaries, table,
keys and documents of `engine/mapping.py`; `tracked` to the keys of
`_session_tokens`; `breaker[w]`, `metrics[w]` to the module-level singletons of a
worker; `text`, `body`, `minted`, `looked`, `found` to the locals of `mask` and
`restore`; `sent` and `reply` to what crosses the wire; `stale` to the sessions
whose last write is older than the TTL.

### `PrivacyBoundary`

What the gateway promises, in four actions: a client asks (`Ask`), the provider is
sent what stands for its text with every value that is to be masked replaced by a
token no other value of any request has (`Send`), the provider answers
(`Answer`), and the client is shown the answer in which tokens of its own request may be
replaced by their values (`Deliver`). There are no stores, workers, faults or breakers in it.
`Gateway` maps its state onto this one with `Sent`, `Answered` and `Delivered`, and
`KeepsBoundary` (`Boundary!Spec`) is a property of the run `gateway`: every step of the
request path, on every backend and under every fault, is a step of the promise or
changes nothing in it.

### `FrontDoor`

A call passes `cors`, `size`, `auth` and `limit` before the endpoint, one action per
layer (`Inner` is the order), and each layer may answer it; a call answered 429
comes again (`Retry`). Starlette runs the layer added last first, so the order is the reverse of that in
`main.py`. `window[k]` is `_requests[k]`: the calls whose time stamp is kept.
`age` is what the limiter computes, `now - ts`, and `elapsed` the time that really
passed; `SetBack` and `SetForward` drive them apart by one tick, `Tick` keeps the
difference. `Admit` and `Reject` are the two ways through `is_allowed`, which has no await in it.

### `Overlaps`, `Pipeline`, `PolicyEngine`, `SmartRouter`, `Detection`

`Overlaps` has the detections, Python's stable sort, and the loop of
`_resolve_overlaps` and `_deduplicate` as a turn from one list to the next
(`KeepBetter`). `Pipeline` runs calls of `mask` and `mask_async` over it: a call holds
the event loop except while it waits for the pool, threads take jobs from a queue
(`StartJob`, `FinishJob`), recognizers raise on the loop (`MaskRaises`, the call fails) or in
the pool (`FinishJob`, they found nothing), `Shutdown` drops the pool while its
jobs run on. The loops of resolving and replacing are one action per turn
(`Resolve`, `Splice`).
`PolicyEngine` and `SmartRouter` are their classes as operators over the same detections, and
`Detection` applies them to the list that a call has collected, as their interfaces take it.
A policy file loads with any value in a condition. `EvaluateCondition` says whether the condition is
met, unmet or raises (`float()` of something else than a number, a pattern that is none), and
`ResultsAfter` is the list of the caller after `filter_results()`, which sets the type of a
redacted detection in place. Types are given in upper case, in which they are compared.
The handler builds both, but no endpoint asks them, though the docstring of
`handler.py` says "Uses circuit breaker and policy engine when configured.": the
composition is the one they were written for and not one that runs.

### `AuditChain`

The file is a sequence of lines (`chained`, `plain`, `junk`) and a flag for a
fragment at its end. A hash is the number of the entry it belongs to, which is
SHA-256 taken as injective. `Load` is `initialize()`, `Log` and `LogRaises` are
`log()`, `PlainLog` is `audit_log()`, `Restart` a process that dies and comes back,
`Alter` and `TakeOut` are somebody with an editor, who may give a line other contents with or without
the hash of these, or take out any stretch of lines, the end of the file included. `unseen` is a
history: only the end was tampered with, and no process that knew that end has logged since.
`verify_chain` is the predicate
`Valid` over the file. The file exists from the start, because the file
handler of `audit/logger.py` creates it, so an empty one counts as valid.

### `SemanticRestorer`, `StreamBuffer`

A text is a sequence of units: `"word"`, an opening or closing bracket, `"SG_"`, and
the rest of a token's name. A unit stands for several characters, so a cut between
`"SG_"` and the name is any cut inside the name; brackets are not cut in half.
`Restored` is `SemanticRestorer.restore` over such texts with its three tiers: a
token is replaced in the form in which it is found first (the exact form before
other brackets before none), wherever that same text stands, and its other forms are
left, because `restored_token_ids` makes the later tiers skip it.

`StreamBuffer` is `stream_with_restoration` after the stream is open: `Buffers` and `Flushes`
are one `data:` line with text, `Done` is `[DONE]`, `Breaks` every other end.
`passed` and `cuts` are histories. The model takes the session's mapping to be
there, so what it shows is independent of the finding that it is not.

## 3. What the runs check

| Run | Checks | Result |
|---|---|---|
| `breaker` | fail-closed, no early and no stray recovery, the count below the threshold when CLOSED, HALF_OPEN lasts until the first report, OPEN ends | holds |
| `gateway` | masked before sent, faithful and isolated restoration, round trip, one token per value, nothing left behind, the gauge of chats, chat sends only when CLOSED, refinement of `PrivacyBoundary` | holds on all four backends |
| `gateway_live` | every request ends; traces of a finished, failed or crashed session go away | holds under fairness |
| `audit` | undisturbed chains verify and are numbered in order, one modification shows, at once or, where it left a sound file, with the next entry of a process that was running; acknowledged entries are in the file | holds |
| `stream` | buffering loses nothing, cuts no token that is still arriving, restores the last window | holds |
| `frontdoor` | at most the limit in any window, a 429 only for a full window, every call gets through in the end | holds, the first two up to what the clock was set by |
| `detection` | kept stretches are disjoint, the best of each overlap is kept, replacements hit their places, both paths agree, every pooled call ends; a filtering that failed half way fails again; more findings are more sensitive | holds |
| `gateway_stream` | a streamed answer is restored | violated |
| `gateway_delete` | a deleted session's entries stay deleted | violated |
| `stream_cut` | every token of a finished stream is restored | violated |
| `breaker_consecutive` | as many failed calls in a row as the threshold open the breaker | violated |
| `frontdoor_guesses` | no more keys than the limit are tried in a window | violated |

Each violated run states one sentence of the repository's documentation and shows
the shortest behaviour of the code that disagrees:

1. *Streams are not restored.* The `finally` of the endpoint ends the session when
   the `StreamingResponse` is returned, before its generator starts; the lookups of
   the generator find nothing and the client gets the tokens. With the session's entries
   gone from every backend but Vault, this happens on every stream.
2. *Deleted entries return.* A Redis lookup is a read and a later write-back; an
   admin delete in between is undone.
3. *Cut tokens.* A flush takes everything but the last 96 characters, wherever
   that boundary is. A token that is complete passes no check, so it is cut when
   the boundary meets it, and neither half is recognised. With short deltas every
   token that is followed by more than 96 characters meets the boundary.
4. *Failures in a row.* "Consecutive failures before breaker opens" (`DOCUMENTATION.md:325`):
   `mask_request_body` reports the success before it writes the audit entry, and the failure when
   that raises. The success resets the count, so while the audit log cannot be written every
   call fails and the breaker stays CLOSED, at any threshold above one.
5. *Guessed keys.* "Authentication (after rate limiting so brute-force is rate-limited)"
   (`main.py:163`, and the order of the layers in `docs/architecture.md:51-57`): the layer added last
   is met first, so a wrong key is answered 401 before the limiter sees the call, however
   many a client sends.

More sentences of the repository disagree with its code in a way that one look at the lines
shows; the models follow the code:

* `masker.py:264-265` say that fuzzy and bare forms of a token are restored. A token that was
  found in one form is in `restored_token_ids`, and its later forms are skipped: of
  `{{SG_NAME_x}}, SG_NAME_x` the second stays (`FirstFound`).
* `semantic_restorer.py:40` says of `restoration_completeness` "0.0 to 1.0"; a repeated exact token
  is counted at each mention and once as sent, so two mentions of the only token give 2.0.
* `circuit_breaker.py:10`, "One test request is allowed through": `check()` raises only in
  OPEN, so in HALF_OPEN every caller passes until the first report. What bounds them is
  `TrialsInFlight`.
* `circuit_breaker.py:9`, "No data leaves the gateway." while OPEN: completions and
  embeddings never ask the breaker, and a stream leaves after the check was made.
* `metrics.py:34`, "Currently active masking sessions": `request_started` counts a stream
  up and nothing counts a successful one down.
* `router.py:121`, "Input text is masked; embedding vectors are safe to send externally.": only an
  input that is a `str` is (`:127`, and `:93` for a prompt); the lists that the API also takes are
  forwarded as they came, as the kind `"list"` of `Gateway` is.
* `handler.py:62-87` masks the string contents and the text parts of messages and a system prompt that
  is a string. A system prompt that is a list of parts, and the arguments of tool calls in the
  history of a conversation, are sent as they came. `MaskedBeforeSent` is about the text that
  this code looks at.
* `masker.py:315-321`: in a chain of overlaps A < B < C, where each has a better score than the
  one before and A does not touch C, A gives way to B and B to C. Nothing that is kept overlaps A, and
  its value is sent. `BestIsKept` says what the loop does guarantee.
* `immutable_logger.py:46-48`, "Modifying any entry causes a chain break detectable by
  verify_chain()": not that of the last entry by somebody who computes its hash, nor removing the
  last entries (`TamperingShows` says how far it holds).
* `README.md:312`, "verify immutable audit chain integrity": `audit/logger.py:37` opens the
  same `AUDIT_LOG_PATH` as the chain, and `verify_chain` reports each of its plain lines.
* `main.py:133`: the request id is the innermost of the layers, not the outermost. A call refused
  with 413, 401 or 429 has no `X-Request-ID`, where `tests/test_middleware.py:37` says "Every
  response should have" one.
* `policy.py:79`, "Can't parse → apply default action": the condition then counts as met, so the
  rule's own action is applied. `policy.py:42`, "no reversible token": a redacted
  detection only gets another type, and the masker mints a token for it. It gets the type on the
  caller's own object (`:236`), so a second filtering of the same list sees `REDACTED_...`,
  which the rule for the type does not match any more, and may let it pass. `FailureRepeats` is what is left: a
  list that a failed filtering has half renamed cannot be filtered at all.

Every property of a passing run has a mutant in `PROJECT.json`, a plausible
bug in one mapped definition, under which TLC finds the property violated.

### Bounds

* `breaker`: two callers (a report can overtake another), threshold 2 (a count
  that is neither zero nor at the limit), timeout 2, two interventions. Counters
  saturate just above the values the code compares them with.
* `gateway*`: two requests and two workers, so that two requests share a loop or
  race on a shared store, with symmetry between requests and between workers where
  no liveness is checked; one body `<<v1, v2, v1>>`, which has a repeated value, a
  different one between, and both orders of lookup and store; chats, streams, completions and
  embeddings; one fault, crash or
  admin delete at any point; all four backends. Threshold 1 and timeout 1 make the
  breaker move with a single fault. The liveness run has bodies of one value and
  adds a kind of request that masks nothing.
* `audit`: four lines, one act of tampering (a second can hide the first), three kinds of failing write, any
  number of restarts between them. Every property relates neighbouring lines or
  a line and the memory of the process.

* `stream`: every answer of up to five blocks (word, known and unknown token, a token
  without brackets, a loose opener or closer), some followed by enough words to
  push a token through the window, in every division. The window is five units,
  one more than a token, as 96 characters are more than the longest token (40, of a TN_MATRICULE_FISCALE).

* `breaker_consecutive`: one caller, as one worker's loop has, and the clock. `frontdoor_guesses`: three
  calls of one client, all with wrong keys, while no time passes.
* `frontdoor`: limit 2 and window 2 with three calls, so that a window can be full
  with entries of different age; one setting of the clock; two calls of one client and
  a third of either client on each way through the layers.
* `detection`: three families of texts. One call on four characters where the matches of a phone, a name and an
  identity card recognizer take every position and order of scores, with and
  without the boost and the threshold (chains of three, containment, equal stretches, ties); one call on every subset of
  seven entity types, for the router and for policies one of which has conditions that raise; and three calls at once with
  five jobs, two threads, one exception and one shutdown. With `BYPASS_MASKING` on and off.

### Fairness

* `breaker`: the clock ticks, `mask()` returns or raises, requests keep arriving.
  The last is needed because the code leaves OPEN only when somebody looks.
* `gateway_live`: the loop runs what is ready (asyncio), the upstream answers or
  `REQUEST_TIMEOUT_SECONDS` passes, a TTL passes, the cleanup task of some live
  process keeps being woken every 300 s, and Redis drops expired keys. No fault, admin
  action, crash or arrival is fair.
* `frontdoor`: the loop runs every layer, an endpoint ends, a client that got a 429
  comes again, time passes. Weak fairness is enough: a call at a layer can always go on.
* `detection`: the loop runs what is ready and the threads of every pool run, those of a pool that was
  shut down (`wait=False`) as well.

## 4. What is proved

All proofs are for every value of the constants that the modules' assumptions
allow: any set of workers and sessions, any texts, any number of faults, any
threshold and timeout.

* `Breaker_proofs`: what each operation of the breaker returns.
* `CircuitBreaker_proofs`: `TypeCorrect`, `Cooldown` (`TrialAfterCooldown`),
  `BelowThreshold` (`ClosedBelowThreshold`), `FailsClosed` (`FailClosed`),
  `NoReportRecovers` (`NoStrayRecovery`) and `EpisodeEndsWithReport` (`TrialsInFlight`). The
  inductive invariant adds two facts that relate the breaker to the histories:
  an OPEN breaker's age is at most the time since the trip (`ClockBehindTrip`),
  and the count is the number of failures reported since the last success that
  counted (`CountIsStreak`). Without the first an OPEN breaker could half-open too
  early; without the second a count behind the reports could stay below the
  threshold.
* `Gateway_proofs`: `WellTyped` (`TypeOK`), `Isolation` (`FaithfulRestoration`),
  `NothingRawLeaves` (`MaskedBeforeSent`). The inductive invariant `IInv` has one
  global part, *every entry and index record in any store is a token as it was
  generated* (`StoresHoldMinted`), and one part per request (`RequestInv`): each
  position of the text is the original value or the session's own token for it
  (`TextFromBody`); what was sent is the text and no longer changes
  (`SentIsText`); a text at `send` or `open` has nothing left to mask
  (`ReadyIsMasked`); a token of this session that comes back was sent by it
  (`EchoesOwn`); what was found was minted here for that value (`FoundWasSent`);
  and two facts about the steps between two backend calls (`TouchHasFound`,
  `IndexHasMinted`). A step of one request leaves the `RequestInv` of all others
  alone, whatever it does to a shared store, so each action is examined for its own
  request only (lemma `OneRequest`). The store operations enter only through the lemmas at
  the head of the module: every operation returns a store, and holds nothing it did not hold
  before except the entry it was given; a lookup answers only with the session's own entries.
* `Sessions_proofs`: what a request may rely on between its steps, in three invariants.
  `LoopIInv` says that a handler holds its worker's loop from the breaker's check to the send,
  and that in between nobody else moves that breaker: it is CLOSED or HALF_OPEN while the
  handler masks, and CLOSED once its success is recorded; hence `ChatsSentWhenClosed`
  (`ChatSendsWhenClosed`). `GaugeIInv` counts the chats in flight of a worker without streams;
  hence `GaugeIsExact` (`GaugeCountsChats`). `SessionIInv` gives `ValuesKeepTokens`
  (`OneTokenPerValue`), `EndedSessionsAreGone` (`EndedLeavesNothing`) and `AnswersAreRestored`
  (`RestoresWhatItMasked`). Its argument: the entries, index records and marker of a
  session in a store are its cells, and a step of any other session leaves them as they are
  (`Left`, from one lemma for each store operation), as do cleanup and time unless they disturb
  the session. So only its own steps count. For those the invariant says
  that a session the engine does not track has no cells (`EndedIsClean`), that what was
  minted is stored, and indexed except between Vault's two writes (`Stored`, `Indexed`,
  `HalfIndexed`), that equal values stand for one token (`SameToken`), and that each token
  of an answer that was looked at was found (`FoundAll`). The properties alone say
  nothing of the kind: that a lookup finds a token depends on the write of an
  earlier step and on all steps of others in between.
* `Gateway_proofs` also has `Implements`, the refinement `Spec => KeepsBoundary`. Its invariant
  `BInv` adds three facts that isolation alone does not need: a request that has not
  arrived has nothing (`NewIsEmpty`), an answer comes after its request was sent
  (`ReplyComesLate`), and a list is never touched (`ListAsItCame`). A step whose text, answer
  and findings stay as they are can at most deliver (`QuietStep`), and delivers what
  `Unmasks` allows because of isolation (`ShownUnmasks`); `Forward` and `OpenStream` are `Send`
  because a token tells the session and the value it was generated for (`TextMasks`);
  `UpstreamReply` is `Answer` because every token outside left with a masked text
  (`OutsideWasSent`); all that the cleanup, the operator, time and crashes do is invisible.
* `AuditChain_proofs`: `ChainTyped` (`TypeOK`, any number of processes), and,
  with the hypothesis `OneWriter`, `Verifies` (`ChainVerifies`) and `Numbered`
  (`NumberedInOrder`). The invariant `ChainInv` says that, while nobody disturbed
  the file, no fragment ends it, every line is linked to the one before, and the memory of
  a process that has loaded the chain mirrors the end of the file. The last part is what
  the two properties lack: without it nothing is known of the link that the next
  append writes. Also with one writer, `Shows` (`TamperingShows`): one act of tampering
  leaves a line that is altered or names another hash than that of the line above it, and later
  appends do not reach it (`TamperInv`); a line taken out or hashed again leaves such a break because
  the hashes around it differ, so the invariant also keeps which hash stands where. If only the
  end of the file was touched there is no such line. Then the break is still to come: the process that
  knew the old end has another hash in memory than the file ends with (`Waiting`), and its
  next entry names it. If it restarts first it continues the new end and nothing ever shows,
  which the property excludes (`unseen`). `OneWriter` is needed for these
  three: two processes that start together write two first entries, and one of them can be
  taken out unseen. `Acknowledged` (`AcknowledgedIsLogged`) holds for any number of processes.

* `StreamBuffer_proofs`: `Complete` (`NothingLost`) and `CutsComeLate`
  (`NoneCutWhileArriving`), for every answer, division and window of at least one
  unit. The invariant says that the buffer is the stretch of the answer between
  the last cut and what has arrived (`Placed`), and that the place where the
  buffer begins is a recorded cut whose `seen` is not ahead of the stream
  (`CutsKept`). The second part is what the property lacks: a cut can meet a token whose
  beginning has left the buffer already, and only the earlier cut says that all of it had
  arrived.
  `WellTyped` (`TypeOK`) and `EndRestored` (`EndIsRestored`) are about what was delivered and have
  an invariant of their own (`Restoring`). A cut leaves at least the window in the buffer or comes
  at `[DONE]` (`WindowKept`), so a token within the last window of the answer is whole in the
  buffer when the answer ends, and the last restoration sees it. What was delivered before came
  from the part of the answer that has left the buffer, where that token is not, or from a value
  (`FromPassed`). The property is about tokens that are not the value of another: such a value
  puts the name of a token into the answer, and nothing looks at it again. That the elements of a
  concatenation are those of its parts is an induction over intervals (`FlattenType`,
  `IntervalInduction`).

* `FrontDoor_proofs`: `WellTyped` (`TypeOK`), `LimitHolds` (`WindowBound`) and `RejectionsDeserved`
  (`NoFalseRejection`), for any finite set of calls, any
  clients, any limit and window. The properties are about real time and the limiter goes by its own;
  the invariant is the bridge: `age` differs from `elapsed` by no more than the clock was set, in
  either direction (`Drift`), and a call recent enough to count is still in the window of its
  client (`RecentKept`).
* `Detection_proofs`: `WellTyped` (`TypeOK`), `Disjointness` (`KeptDisjoint`), `BestKept`
  (`BestIsKept`), for any recognizers, matches and priorities, any number of calls, exceptions and
  shutdowns. The
  invariant is that of the loop over the sorted list (`CallHolds`): what it keeps comes from
  what it has seen, does not overlap, and has each detection so far that beats all others of the
  list. A detection takes the place of the last one only if it has the better score, so the one it
  displaces did not beat all; and it displaces only one because the list is in order of the starts.
  That `sorted()` sorts is proved from the definition of rank (`SortedFacts`: each place is the
  rank of one element, by counting). `_deduplicate`, the filters and the loading of a policy file
  are recursive functions over an interval in the model, because a proof can unfold them: that
  such a function exists and stays in its set is proved from the least element of a set of numbers
  (`LeastNatural`, `Recursion`), which replaces induction over an operator.
  `Splicing` (`SplicedInPlace`) has an invariant of its own on top of that one (`Shows`): what a
  call collects lies within its text, and before the replacement of detection `m` the masked text
  is the text with all later ones replaced, place by place (`Cells`). One replacement
  (`SpliceStep`) then only touches places before every token already put in, because what is
  kept does not overlap and is in order; that is why the loop may use the places of the original
  text. `FlattenPrefixes` gives the concatenation of the places as one sequence of prefixes, and
  `PutInCells` compares the two prefix by prefix.
  `Agreement` (`AgreesWithMask`) compares what a call of `mask_async()` has, at every point, with
  what `mask()` would have there (`AllAgree`). The pool delivers what the slow recognizers find
  after what the fast ones have found, so the two lists have the same detections in another order:
  the same elements and as many of each (`ChainSplit`). Where nothing ties, the rank of a detection is
  the number of detections before it, which does not depend on the order of the list
  (`RankWithoutTies`), so `sorted()` returns one and the same list (`SameSorted`); from there on the
  loop of the code is the recursive function of the reference, one turn at a time (`KeptOf`). With a
  tie the two really differ, and the property says nothing.
  `Sensitive` (`MoreFindingsMoreSensitive`) needs no invariant but the type: it holds of every list
  and every policy. Without one of the findings `filter_results()` returns a list with no other
  types and no greater sum of weights (`FewerSayNoMore`, compared turn by turn from the place
  where the lists part). Each multiplier is at least 1 and a group that is complete for
  fewer types is for more, so every factor keeps the order (`CorrelatedSaysMore`), as do the bonus
  for diversity and the clamp (`SensitivitySaysMore`).
  `FailsAgain` (`FailureRepeats`) holds of every list and every policy file too: the first detection
  whose condition raises has not been renamed, since the renaming ends before it, so it raises
  again (`LeastNatural` gives the first).

Only model-checked, and why:

* Liveness (`OpenEnds`, `EveryRequestEnds`, `BoundedCleanup`, `EveryCallAnswered`, `EveryCallEnds`) is beyond the
  prover, like everything that needs `ENABLED`.
* That sensitivities in floating point, as in the code, are monotone: the model rounds down to
  ten-thousandths. Every operation of the code is a sum or a product of numbers that are not
  negative, and rounding keeps the order there too, but no theorem says it.

Every invariant and every action property of a passing run is stated by a theorem; of the
properties of passing runs only the liveness properties are not.

## 5. Abstractions

* In `Gateway` a detected value is an atom; which text is detected is given by the body
  (`Bodies`), and how it is found by `Pipeline`. There a text is a sequence of places,
  which stretches a recognizer matches is given, and a token is named by what it stands for.
* Scores are hundredths and sensitivities ten-thousandths, rounded down, where the code has
  floating point. What a policy can ask of a text is the number in it and whether a pattern is found.
* Time is counted in ticks, and only up to where no comparison of the code tells
  two times apart.
* A token is `<<session, number>>`: the 48 random bits of a token are taken as
  never drawn twice. The same for `uuid4` and SHA-256.
* Encryption is an inverse pair under one key and is left out. Access counters are
  left out, the write-backs they cause are not.
* One lookup stands for the three tiers of the restorer: a missed token is looked
  up again under looser patterns, and nothing puts it back in between.
* The upstream answers with what it was sent, or with any single token that any
  request has sent it.
* Masking and restoring take less than a TTL, so a TTL passes only while a
  session waits for the upstream (a stream also between two parts of its answer) or is over.
* A streamed answer comes in parts of one mention each, with the loop free in between. How its parts
  are buffered is `StreamBuffer`.
* A remote call that raises has been carried out or not, whole either way.
* In `Gateway` `BYPASS_MASKING` is off. Request validation and provider formats are left out; the
  middleware (`FrontDoor`) comes before `Arrive` and changes nothing it reads.
* A write of the audit log that lacks only its final newline counts as torn.

## 6. Plan

Done: the request path with its store and breaker and the promise it implements, the audit
chain, the stream buffer, the middleware, detection with its two paths, policies and
router, and the theorems above. Next, in this order:

1. The checksums (Luhn, IBAN mod 97, NIR, SIRET) as algorithms against reference definitions.
2. The completeness number of the semantic restorer, over the texts of `SemanticRestorer`.

## 7. Not modelled, and why

* Regular expressions and checksums of the recognizers: data, no state.
* `proxy/providers.py`, `proxy/passthrough.py`: formats of payloads, no state.
* `config.py`, `utils/crypto.py`: library calls and settings; those that matter are constants.
* `engine/session.py`: a dictionary nothing in the program uses.
* `audit/report.py`: a stateless count over the log file.
* Layers that only add headers to an answer (request id, security headers, timing).
* Policy files that do not load (no JSON, a missing key, an unknown action), which fail the start of the
  process. Values that a condition cannot use do not: they are modelled (`EvaluateCondition`).
* The limiters of several worker processes: each counts on its own and shares nothing, so a
  deployment admits up to `WORKERS` times the limit. `FrontDoor` is one process.
