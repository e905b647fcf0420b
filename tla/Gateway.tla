------------------------------- MODULE Gateway ------------------------------
(***************************************************************************)
(* The request path of the gateway: the endpoints of proxy/router.py, the   *)
(* RequestHandler and MaskingEngine they call, the mapping store, the       *)
(* breaker and the metrics of each worker process, the cleanup task, the    *)
(* admin delete, worker crashes and the passing of time.                    *)
(*                                                                         *)
(* A worker process runs one asyncio event loop.  A handler gives up the    *)
(* loop only where it awaits something that has to wait: the upstream call, *)
(* and for a stream each next part of the answer.  Between two such points  *)
(* it holds its worker's loop (running[w]), and only other workers get      *)
(* between its calls to a shared mapping backend.  So a step is one backend *)
(* call, or the code between two.                                           *)
(***************************************************************************)
EXTENDS Breaker, MappingStore, Integers, Sequences

CONSTANTS
  Workers,            \* worker processes (settings.WORKERS)
  Backends,           \* the mapping backends a deployment may be configured with
  Kinds,              \* the kinds of request clients send
  Bodies,             \* request bodies: the detected values, in text order
  MaxFaults,          \* how many faults, crashes and admin deletes (a bound)
  Nobody              \* no request, no worker: a free loop, no timestamp

\* "list": a completions prompt or an embeddings input that is a JSON list,
\* which neither endpoint masks; restoring its answer finds an empty session.
AllKinds == {"chat", "stream", "completions", "embeddings", "list"}

ASSUME GatewayAssumption ==
  /\ Backends \subseteq AllBackends
  /\ Kinds \subseteq AllKinds
  /\ Bodies \subseteq Seq(Values)
  /\ MaxFaults \in Nat
  /\ Nobody \notin Sessions \cup Workers
  /\ "shared" \notin Workers /\ "daemon" \notin Workers
  /\ Values \cap Tokens = {}

Requests == Sessions            \* every request has the session it creates

\* The endpoint that goes through mask_request_body: breaker, audit, metrics.
Guarded == {"chat", "stream"}

\* The endpoints that restore the answer.
Restoring == {"chat", "stream", "completions"}

VARIABLES
  backend,            \* settings.MAPPING_BACKEND / VAULT_ENABLED, read at import
  store,              \* store[h]: a mapping store (see Shelf)
  stale,              \* sessions whose newest entry is older than the TTL
  worker, kind, body, \* where a request runs, what it is, what it carried
  pc,                 \* the next step of a request
  text,               \* the body as masked so far
  minted,             \* minted[r][n]: the value token <<r, n>> was generated for
  sent,               \* sent[r]: the text that left the gateway, <<>> before
  reply,              \* the upstream's answer: the tokens it mentions
  looked,             \* how many mentions of the answer were looked up
  found,              \* what the lookups found: <<token, value>> pairs
  outcome,            \* what the client got: "none" yet, "ok" or "error"
  running,            \* running[w]: the request that holds w's event loop
  tracked,            \* keys of _session_tokens of the session's worker
  breaker,            \* breaker[w]
  metrics,            \* metrics[w]: the ACTIVE_SESSIONS gauge and _request_start
  faults,             \* how many faults happened
  disturbed,          \* history: sessions hit by a fault, a delete or the TTL
  forgotten           \* history: tokens whose entry an admin delete removed

reqVars == <<worker, kind, body>>
workerVars == <<running, tracked, breaker, metrics>>
answerVars == <<reply, looked, found>>
vars == <<backend, store, stale, worker, kind, body, pc, text, minted, sent, reply,
          looked, found, outcome, running, tracked, breaker, metrics, faults,
          disturbed, forgotten>>

\* Memory backends are per process; the others are shared.  The cleanup task
\* makes a MappingStore of its own, which for memory is one nobody else uses.
Shelf(w) == IF backend = "memory" THEN w ELSE "shared"
DaemonShelf == IF backend = "memory" THEN "daemon" ELSE "shared"

ShelfOf(r) == Shelf(worker[r])

Remote == backend \in {"redis", "vault"}

\* A backend call can raise anywhere but in memory.
CanFail == backend # "memory" /\ faults < MaxFaults

FaultOn(r) == faults' = faults + 1 /\ disturbed' = disturbed \cup {r}
NoFault == UNCHANGED <<faults, disturbed>>

Raw(r) == {i \in DOMAIN text[r] : text[r][i] \in Values}

\* mask() replaces from the end of the text: the last mention left, if any.
NextMention(r) == {k \in Raw(r) : \A i \in Raw(r) : i <= k}

NewMetrics == [active |-> 0, start |-> Nobody]

RequestStarted(m, r) == [active |-> m.active + 1, start |-> r]

RequestCompleted_NoDecrement(m) == [m EXCEPT !.start = Nobody]

RequestCompleted(m) == [active |-> m.active - 1, start |-> Nobody]

Init ==
  /\ backend \in Backends
  /\ store = [h \in Workers \cup {"shared", "daemon"} |-> NewStore]
  /\ stale = {}
  /\ worker = [r \in Requests |-> Nobody]
  /\ kind = [r \in Requests |-> "none"]
  /\ body = [r \in Requests |-> <<>>]
  /\ pc = [r \in Requests |-> "new"]
  /\ text = [r \in Requests |-> <<>>]
  /\ minted = [r \in Requests |-> <<>>]
  /\ sent = [r \in Requests |-> <<>>]
  /\ reply = [r \in Requests |-> <<>>]
  /\ looked = [r \in Requests |-> 0]
  /\ found = [r \in Requests |-> {}]
  /\ outcome = [r \in Requests |-> "none"]
  /\ running = [w \in Workers |-> Nobody]
  /\ tracked = {}
  /\ breaker = [w \in Workers |-> NewBreaker]
  /\ metrics = [w \in Workers |-> NewMetrics]
  /\ faults = 0
  /\ disturbed = {}
  /\ forgotten = {}
-----------------------------------------------------------------------------
(* Arrival, masking and sending.                                            *)

Goto(r, label) == pc' = [pc EXCEPT ![r] = label]

Hold(r) == running' = [running EXCEPT ![worker[r]] = r]
Release(r) == running' = [running EXCEPT ![worker[r]] = Nobody]

\* new_session() and request_started(), with the body parsed before.
Arrive(r, w, k, b) ==
  /\ pc[r] = "new" /\ running[w] = Nobody
  /\ worker' = [worker EXCEPT ![r] = w]
  /\ kind' = [kind EXCEPT ![r] = k]
  /\ body' = [body EXCEPT ![r] = b]
  /\ text' = [text EXCEPT ![r] = b]
  /\ store' = [store EXCEPT ![Shelf(w)] = CreateSession(backend, @, r)]
  /\ tracked' = tracked \cup {r}
  /\ running' = [running EXCEPT ![w] = r]
  /\ metrics' = [metrics EXCEPT ![w] = IF k \in Guarded THEN RequestStarted(@, r) ELSE @]
  /\ Goto(r, IF k \in Guarded THEN "check" ELSE IF k = "list" THEN "send" ELSE "mask")
  /\ NoFault
  /\ UNCHANGED <<backend, stale, minted, sent, answerVars, outcome, breaker, forgotten>>

\* create_session raises: outside the try, so the request just ends.  A call
\* that raised, a time-out for one, may have been carried out all the same.
ArriveRaises(r, w, k) ==
  /\ pc[r] = "new" /\ running[w] = Nobody /\ Remote /\ CanFail
  /\ worker' = [worker EXCEPT ![r] = w]
  /\ kind' = [kind EXCEPT ![r] = k]
  /\ outcome' = [outcome EXCEPT ![r] = "error"]
  /\ Goto(r, "done")
  /\ FaultOn(r)
  /\ \/ UNCHANGED store
     \/ store' = [store EXCEPT ![Shelf(w)] = CreateSession(backend, @, r)]
  /\ UNCHANGED <<backend, stale, body, text, minted, sent, answerVars,
                 workerVars, forgotten>>

\* The exception handler of an endpoint, on its way to its finally.
Raise(r) ==
  /\ outcome' = [outcome EXCEPT ![r] = "error"]
  /\ metrics' = [metrics EXCEPT ![worker[r]] =
                   IF kind[r] \in Guarded THEN RequestCompleted(@) ELSE @]
  /\ Goto(r, "ending")

\* circuit_breaker.check() at the head of mask_request_body.
Check(r) ==
  /\ pc[r] = "check"
  /\ breaker' = [breaker EXCEPT ![worker[r]] = Checked(@)]
  /\ IF Admits(breaker[worker[r]])
     THEN Goto(r, "mask") /\ UNCHANGED <<outcome, metrics>>
     ELSE Raise(r)
  /\ NoFault
  /\ UNCHANGED <<backend, store, stale, reqVars, text, minted, sent, answerVars,
                 running, tracked, forgotten>>

Replace(r, k, t) == text' = [text EXCEPT ![r][k] = t]

Known(r, k) == TokensForValue(backend, store[ShelfOf(r)], r, text[r][k])

\* The session has a token for the next mention.
ReuseToken(r) ==
  /\ pc[r] = "mask"
  /\ \E k \in NextMention(r) : \E t \in Known(r, k) : Replace(r, k, t)
  /\ NoFault
  /\ UNCHANGED <<backend, store, stale, reqVars, pc, minted, sent, answerVars, outcome,
                 workerVars, forgotten>>

FreshToken_SameForAll(r) == <<r, 1>>

FreshToken(r) == <<r, Len(minted[r]) + 1>>

\* A new token is generated and stored.
Mint(r, k) ==
  /\ minted' = [minted EXCEPT ![r] = Append(@, text[r][k])]
  /\ store' = [store EXCEPT ![ShelfOf(r)] =
                 StoreEntry(backend, @, r, FreshToken(r), text[r][k])]
  /\ stale' = stale \ {r}

\* The lookup finds no token, or Vault's swallowed a read error and said so.
\* Nothing another worker does between a lookup that found nothing and the
\* store can matter, so the two calls are one step.
MintToken(r) ==
  /\ pc[r] = "mask"
  /\ \E k \in NextMention(r) :
       /\ \/ Known(r, k) = {} /\ NoFault
          \/ Known(r, k) # {} /\ backend = "vault" /\ CanFail /\ FaultOn(r)
       /\ Mint(r, k)
       /\ IF backend = "vault"
          THEN Goto(r, "index") /\ UNCHANGED text
          ELSE Replace(r, k, FreshToken(r)) /\ UNCHANGED pc
  /\ UNCHANGED <<backend, reqVars, sent, answerVars, outcome, workerVars, forgotten>>

LastMinted(r) == <<r, Len(minted[r])>>

PutIndex(r, k) ==
  store' = [store EXCEPT ![ShelfOf(r)] = StoreIndex(@, r, LastMinted(r), text[r][k])]

\* Vault's second write.
IndexToken(r) ==
  /\ pc[r] = "index"
  /\ \E k \in NextMention(r) : PutIndex(r, k) /\ Replace(r, k, LastMinted(r))
  /\ Goto(r, "mask")
  /\ NoFault
  /\ UNCHANGED <<backend, stale, reqVars, minted, sent, answerVars, outcome, workerVars,
                 forgotten>>

Report(r, b) == breaker' = [breaker EXCEPT ![worker[r]] = IF kind[r] \in Guarded THEN b ELSE @]

\* Without the except arm of mask_request_body the rest would go out unmasked.
MaskRaises_SwallowedAndSent(r) ==
  /\ pc[r] \in {"mask", "index"} /\ Raw(r) # {} /\ faults < MaxFaults
  /\ FaultOn(r)
  /\ Goto(r, "send")
  /\ UNCHANGED <<backend, store, stale, reqVars, text, minted, sent, answerVars, outcome,
                 workerVars, forgotten>>

\* A recognizer, a lookup or a store raises; a store outside the process may
\* have been carried out all the same.  Only a guarded endpoint tells the breaker.
MaskRaises(r) ==
  /\ pc[r] \in {"mask", "index"} /\ faults < MaxFaults
  /\ FaultOn(r)
  /\ \/ UNCHANGED <<store, stale, minted>>
     \/ /\ pc[r] = "mask" /\ backend # "memory"
        /\ \E k \in NextMention(r) : Known(r, k) = {} /\ Mint(r, k)
     \/ /\ pc[r] = "index"
        /\ \E k \in NextMention(r) : PutIndex(r, k)
        /\ UNCHANGED <<stale, minted>>
  /\ Report(r, RecordFailure(breaker[worker[r]]))
  /\ Raise(r)
  /\ UNCHANGED <<backend, reqVars, text, sent, answerVars, running, tracked, forgotten>>

\* All text is masked: record_success and the immutable audit entry.  A chat
\* or a plain request goes on to send; the stream's handler returns first.
MaskDone(r) ==
  /\ pc[r] = "mask" /\ Raw(r) = {}
  /\ Report(r, RecordSuccess(breaker[worker[r]]))
  /\ Goto(r, IF kind[r] = "stream" THEN "ending" ELSE "send")
  /\ NoFault
  /\ UNCHANGED <<backend, store, stale, reqVars, text, minted, sent, answerVars, outcome,
                 running, tracked, metrics, forgotten>>

\* The audit entry cannot be written: success is on record, then the failure.
AuditRaises(r) ==
  /\ pc[r] = "mask" /\ Raw(r) = {} /\ kind[r] \in Guarded /\ faults < MaxFaults
  /\ FaultOn(r)
  /\ Report(r, RecordFailure(RecordSuccess(breaker[worker[r]])))
  /\ Raise(r)
  /\ UNCHANGED <<backend, store, stale, reqVars, text, minted, sent, answerVars, running,
                 tracked, forgotten>>

\* client.post(): the text leaves and the loop is free until the answer.
Forward(r) ==
  /\ pc[r] = "send"
  /\ sent' = [sent EXCEPT ![r] = text[r]]
  /\ Goto(r, "await")
  /\ Release(r)
  /\ NoFault
  /\ UNCHANGED <<backend, store, stale, reqVars, text, minted, answerVars, outcome,
                 tracked, breaker, metrics, forgotten>>

\* The streaming generator starts once the response object is being sent,
\* after the endpoint returned.
OpenStream(r) ==
  /\ pc[r] = "open" /\ running[worker[r]] = Nobody
  /\ sent' = [sent EXCEPT ![r] = text[r]]
  /\ Goto(r, "await")
  /\ NoFault
  /\ UNCHANGED <<backend, store, stale, reqVars, text, minted, answerVars, outcome,
                 workerVars, forgotten>>
-----------------------------------------------------------------------------
(* The answer, its restoration, and the end of the request.                 *)

\* Every token the upstream was ever sent.
Outside == UNION {{sent[r][i] : i \in DOMAIN sent[r]} \ Values : r \in Requests}

\* The upstream answers with what it was sent or with any one token it knows.
\* A stream's answer comes in parts, and the loop is free until the next part.
UpstreamReply(r) ==
  /\ pc[r] = "await" /\ running[worker[r]] = Nobody
  /\ \E a \in {sent[r]} \cup {<<t>> : t \in Outside} :
       reply' = [reply EXCEPT ![r] = a]
  /\ IF kind[r] = "stream" THEN UNCHANGED running ELSE Hold(r)
  /\ Goto(r, IF kind[r] \in Restoring THEN "restore" ELSE "ending")
  /\ outcome' = [outcome EXCEPT ![r] = IF kind[r] \in Restoring THEN @ ELSE "ok"]
  /\ NoFault
  /\ UNCHANGED <<backend, store, stale, reqVars, text, minted, sent, looked, found,
                 tracked, breaker, metrics, forgotten>>

\* The generator ends, by itself or by an exception: the session and the
\* metrics were dealt with when the endpoint returned.
StreamEnds(r, result) ==
  /\ outcome' = [outcome EXCEPT ![r] = result]
  /\ Goto(r, "done")
  /\ Release(r)
  /\ UNCHANGED metrics

\* A status other than 200, a timeout or a lost connection.  The stream does
\* not look at the status: the client gets an empty stream and no error.
UpstreamFails(r) ==
  /\ pc[r] = "await" /\ running[worker[r]] = Nobody
  /\ IF kind[r] = "stream"
     THEN \E result \in {"ok", "error"} : StreamEnds(r, result)
     ELSE Raise(r) /\ Hold(r)
  /\ NoFault
  /\ UNCHANGED <<backend, store, stale, reqVars, text, minted, sent, answerVars, tracked,
                 breaker, forgotten>>

Mention(r) == reply[r][looked[r] + 1]

LookedUp_RetriesMiss(r) ==
  looked' = [looked EXCEPT ![r] =
    IF RetrieveRows(store[ShelfOf(r)], r, Mention(r)) = {} THEN @ ELSE @ + 1]

LookedUp(r) == looked' = [looked EXCEPT ![r] = @ + 1]

\* What is left of an answer is at hand, or a stream's next part has come.
Resumes(r) ==
  /\ pc[r] = "restore"
  /\ kind[r] = "stream" => running[worker[r]] = Nobody

\* retrieve(): the entry is read.  Redis and Vault still have to write it back.
Retrieve(r) ==
  LET rows == RetrieveRows(store[ShelfOf(r)], r, Mention(r))
  IN  /\ Resumes(r) /\ looked[r] < Len(reply[r])
      /\ found' = [found EXCEPT ![r] = @ \cup {<<x.token, x.value>> : x \in rows}]
      /\ LookedUp(r)
      /\ IF Remote /\ rows # {}
         THEN Goto(r, "touch") /\ Hold(r)
         ELSE UNCHANGED <<pc, running>>
      /\ NoFault
      /\ UNCHANGED <<backend, store, stale, reqVars, text, minted, sent, reply, outcome,
                     tracked, breaker, metrics, forgotten>>

\* The entry read a moment ago is written back.
PutBack(r) ==
  LET t == reply[r][looked[r]]
      x == Row(r, t, CHOOSE v \in Values : <<t, v>> \in found[r])
  IN  /\ store' = [store EXCEPT ![ShelfOf(r)] = WriteBack(backend, @, x)]
      /\ stale' = IF backend = "redis" THEN stale \ {r} ELSE stale

\* The write-back that ends a lookup; a stream then waits for its next part.
Touch(r) ==
  /\ pc[r] = "touch"
  /\ PutBack(r)
  /\ Goto(r, "restore")
  /\ IF kind[r] = "stream" THEN Release(r) ELSE UNCHANGED running
  /\ NoFault
  /\ UNCHANGED <<backend, reqVars, text, minted, sent, answerVars, outcome, tracked,
                 breaker, metrics, forgotten>>

\* Vault's read error is a miss; any other error of a lookup is an exception,
\* and a write-back that raised may have been carried out.
\* (A missed token is looked up again under the looser patterns.  Nothing puts
\* an entry back in between, so here one miss, or one fault, stands for all.)
RetrieveFails(r) ==
  /\ \/ Resumes(r) /\ looked[r] < Len(reply[r])
     \/ pc[r] = "touch"
  /\ CanFail
  /\ FaultOn(r)
  /\ \/ UNCHANGED <<store, stale>>
     \/ pc[r] = "touch" /\ PutBack(r)
  /\ IF backend = "vault" /\ pc[r] = "restore"
     THEN LookedUp(r) /\ UNCHANGED <<pc, outcome, running, metrics>>
     ELSE /\ IF kind[r] = "stream" THEN StreamEnds(r, "error")
             ELSE Raise(r) /\ UNCHANGED running
          /\ UNCHANGED looked
  /\ UNCHANGED <<backend, reqVars, text, minted, sent, reply, found, tracked, breaker,
                 forgotten>>

\* The answer is complete: request_completed(success), or the end of a stream.
Restored(r) ==
  /\ Resumes(r) /\ looked[r] = Len(reply[r])
  /\ IF kind[r] = "stream"
     THEN StreamEnds(r, "ok")
     ELSE /\ outcome' = [outcome EXCEPT ![r] = "ok"]
          /\ metrics' = [metrics EXCEPT ![worker[r]] =
                           IF kind[r] = "chat" THEN RequestCompleted(@) ELSE @]
          /\ Goto(r, "ending")
          /\ UNCHANGED running
  /\ NoFault
  /\ UNCHANGED <<backend, store, stale, reqVars, text, minted, sent, answerVars, tracked,
                 breaker, forgotten>>

\* The finally of every endpoint.  A stream has not been sent anywhere yet.
EndSession(r) ==
  /\ pc[r] = "ending"
  /\ store' = [store EXCEPT ![ShelfOf(r)] = DestroySession(backend, @, r)]
  /\ tracked' = tracked \ {r}
  /\ Goto(r, IF kind[r] = "stream" /\ outcome[r] = "none" THEN "open" ELSE "done")
  /\ Release(r)
  /\ NoFault
  /\ UNCHANGED <<backend, stale, reqVars, text, minted, sent, answerVars, outcome, breaker,
                 metrics, forgotten>>

\* destroy_session fails, carried out or not.  It raises, and whatever the
\* endpoint was about to return is lost, and so is the stream; Vault's does
\* not raise.
EndSessionFails(r) ==
  /\ pc[r] = "ending" /\ CanFail
  /\ FaultOn(r)
  /\ \/ UNCHANGED store
     \/ store' = [store EXCEPT ![ShelfOf(r)] = DestroySession(backend, @, r)]
  /\ Release(r)
  /\ IF backend = "vault"
     THEN /\ tracked' = tracked \ {r}
          /\ Goto(r, IF kind[r] = "stream" /\ outcome[r] = "none" THEN "open" ELSE "done")
          /\ UNCHANGED outcome
     ELSE /\ outcome' = [outcome EXCEPT ![r] = "error"]
          /\ Goto(r, "done")
          /\ UNCHANGED tracked
  /\ UNCHANGED <<backend, stale, reqVars, text, minted, sent, answerVars, breaker,
                 metrics, forgotten>>
-----------------------------------------------------------------------------
(* The operator, the cleanup task, time, and crashes.                       *)

\* DELETE /admin/sessions/{s}, served by any worker.
AdminDelete(w, s) ==
  LET before == store[Shelf(w)].rows
      after  == DestroySession(backend, store[Shelf(w)], s)
  IN  /\ running[w] = Nobody /\ pc[s] # "new" /\ faults < MaxFaults
      /\ store' = [store EXCEPT ![Shelf(w)] = after]
      /\ tracked' = IF worker[s] = w THEN tracked \ {s} ELSE tracked
      /\ forgotten' = forgotten \cup {x.token : x \in before \ after.rows}
      /\ FaultOn(s)
      /\ UNCHANGED <<backend, stale, reqVars, pc, text, minted, sent, answerVars, outcome,
                     running, breaker, metrics>>

\* One round of _session_cleanup_loop.
Cleanup(w) ==
  /\ running[w] = Nobody
  /\ store' = [store EXCEPT ![DaemonShelf] = PurgeExpired(backend, @, stale)]
  /\ NoFault
  /\ UNCHANGED <<backend, stale, reqVars, pc, text, minted, sent, answerVars, outcome,
                 workerVars, forgotten>>

\* Something of session s is in some store.
HasTrace(s) ==
  \E h \in DOMAIN store :
    s \in store[h].live \/ \E x \in store[h].rows \cup store[h].index : x.session = s

\* A TTL goes by.  Masking and restoring are far shorter than a TTL, so this
\* happens only to a session that waits for the upstream or is over.
TtlElapses(s) ==
  /\ \/ pc[s] \in {"await", "open", "done", "lost"}
     \/ pc[s] = "restore" /\ kind[s] = "stream"
  /\ s \notin stale
  /\ HasTrace(s)
  /\ stale' = stale \cup {s}
  /\ disturbed' = disturbed \cup {s}
  /\ UNCHANGED <<backend, store, reqVars, pc, text, minted, sent, answerVars, outcome,
                 workerVars, faults, forgotten>>

\* Redis drops the three keys of a session when their EXPIRE is over.
RedisExpires(s) ==
  /\ backend = "redis" /\ s \in stale
  /\ store' = [store EXCEPT !["shared"] = DestroySession(backend, @, s)]
  /\ NoFault
  /\ UNCHANGED <<backend, stale, reqVars, pc, text, minted, sent, answerVars, outcome,
                 workerVars, forgotten>>

\* A worker process dies and its successor starts with everything it kept in
\* memory gone; its requests never end.
Crash(w) ==
  LET gone == {r \in Requests : worker[r] = w /\ pc[r] \notin {"new", "done"}}
  IN  /\ faults < MaxFaults
      /\ gone # {}
      /\ faults' = faults + 1
      /\ disturbed' = disturbed \cup gone
      /\ pc' = [r \in Requests |-> IF r \in gone THEN "lost" ELSE pc[r]]
      /\ store' = [store EXCEPT ![w] = NewStore]
      /\ tracked' = {r \in tracked : worker[r] # w}
      /\ running' = [running EXCEPT ![w] = Nobody]
      /\ breaker' = [breaker EXCEPT ![w] = NewBreaker]
      /\ metrics' = [metrics EXCEPT ![w] = NewMetrics]
      /\ UNCHANGED <<backend, stale, reqVars, text, minted, sent, answerVars, outcome,
                     forgotten>>

Tick ==
  /\ breaker' = [w \in Workers |-> Aged(breaker[w])]
  /\ NoFault
  /\ UNCHANGED <<backend, store, stale, reqVars, pc, text, minted, sent, answerVars,
                 outcome, running, tracked, metrics, forgotten>>
-----------------------------------------------------------------------------
\* What a request does by itself once it has arrived, faults aside.
Progress(r) ==
  \/ Check(r) \/ ReuseToken(r) \/ MintToken(r) \/ IndexToken(r) \/ MaskDone(r)
  \/ Forward(r) \/ OpenStream(r) \/ UpstreamReply(r) \/ UpstreamFails(r)
  \/ Retrieve(r) \/ Touch(r) \/ Restored(r) \/ EndSession(r)

Goes(r) ==
  \/ \E w \in Workers, k \in Kinds : ArriveRaises(r, w, k)
  \/ \E w \in Workers, k \in Kinds, b \in Bodies : Arrive(r, w, k, b)
  \/ Check(r) \/ ReuseToken(r) \/ MintToken(r) \/ IndexToken(r) \/ MaskRaises(r)
  \/ MaskDone(r) \/ AuditRaises(r) \/ Forward(r) \/ OpenStream(r)
  \/ UpstreamReply(r) \/ UpstreamFails(r)
  \/ Retrieve(r) \/ Touch(r) \/ RetrieveFails(r) \/ Restored(r)
  \/ EndSession(r) \/ EndSessionFails(r)
  \/ TtlElapses(r) \/ RedisExpires(r)

Next ==
  \/ \E r \in Requests : Goes(r)
  \/ \E w \in Workers, s \in Sessions : AdminDelete(w, s)
  \/ \E w \in Workers : Cleanup(w) \/ Crash(w)
  \/ Tick

Spec == Init /\ [][Next]_vars

\* The loop runs what is ready, the upstream answers or times out, a TTL goes
\* by, the cleanup task keeps being woken, and Redis expires its keys.
Fairness ==
  /\ \A r \in Requests : WF_vars(Progress(r))
  /\ \A r \in Requests : WF_vars(TtlElapses(r)) /\ WF_vars(RedisExpires(r))
  /\ \A w \in Workers : WF_vars(Cleanup(w))

FairSpec == Spec /\ Fairness
-----------------------------------------------------------------------------
Labels == {"new", "check", "mask", "index", "send", "open", "await", "restore", "touch",
           "ending", "done", "lost"}

StoreTypes ==
  /\ backend \in Backends
  /\ store \in [Workers \cup {"shared", "daemon"} -> Stores]
  /\ stale \subseteq Sessions
  /\ faults \in 0..MaxFaults
  /\ disturbed \subseteq Sessions
  /\ forgotten \subseteq Tokens

RequestTypes ==
  /\ worker \in [Requests -> Workers \cup {Nobody}]
  /\ kind \in [Requests -> Kinds \cup {"none"}]
  /\ body \in [Requests -> Seq(Values)]
  /\ pc \in [Requests -> Labels]
  /\ text \in [Requests -> Seq(Values \cup Tokens)]
  /\ minted \in [Requests -> Seq(Values)]
  /\ sent \in [Requests -> Seq(Values \cup Tokens)]
  /\ reply \in [Requests -> Seq(Values \cup Tokens)]
  /\ looked \in [Requests -> Nat]
  /\ found \in [Requests -> SUBSET (Tokens \X Values)]
  /\ outcome \in [Requests -> {"none", "ok", "error"}]

Gauges == [active : Int, start : Requests \cup {Nobody}]

ProcessTypes ==
  /\ running \in [Workers -> Requests \cup {Nobody}]
  /\ tracked \subseteq Requests
  /\ breaker \in [Workers -> Breakers]
  /\ metrics \in [Workers -> Gauges]

\* The type invariant of the whole request path.
TypeOK == StoreTypes /\ RequestTypes /\ ProcessTypes

\* circuit_breaker.py:16, "If masking fails, no data is sent externally", and
\* architecture.md:213: whatever failed on the way, a text that its endpoint
\* masks leaves the gateway with every detected value replaced.  (An embeddings
\* input or a completions prompt that is a list is not masked.)
MaskedBeforeSent ==
  \A r \in Requests : kind[r] # "list" =>
    \A i \in DOMAIN sent[r] : sent[r][i] \notin Values

\* Session isolation (architecture.md:61-65): what a lookup puts in place of a
\* token in the answer to r is the value that this very token replaced in r's
\* own text, whichever sessions' tokens the upstream mentions.
FaithfulRestoration ==
  \A r \in Requests : \A p \in found[r] :
    /\ \E i \in DOMAIN sent[r] : sent[r][i] = p[1]
    /\ \A i \in DOMAIN sent[r] : sent[r][i] = p[1] => body[r][i] = p[2]

\* The answer as the client gets it: mentions that were found, replaced.
Shown(r) ==
  [i \in DOMAIN reply[r] |->
     IF \E p \in found[r] : p[1] = reply[r][i]
     THEN (CHOOSE p \in found[r] : p[1] = reply[r][i])[2]
     ELSE reply[r][i]]

\* What crosses the boundary: the lists that go out as they came are apart.
Sent(r) == IF kind[r] = "list" THEN <<>> ELSE sent[r]
Answered(r) == IF kind[r] = "list" THEN <<>> ELSE reply[r]
Delivered(r) ==
  IF kind[r] \in Restoring /\ pc[r] = "done" /\ outcome[r] = "ok" THEN Shown(r) ELSE <<>>

Boundary == INSTANCE PrivacyBoundary WITH
  asked <- body,
  out <- [r \in Requests |-> Sent(r)],
  answer <- [r \in Requests |-> Answered(r)],
  shown <- [r \in Requests |-> Delivered(r)]

\* The request path implements the promise of PrivacyBoundary, whatever is
\* stored, deleted, purged, lost in a crash or raised on the way.
KeepsBoundary == Boundary!Spec

\* An upstream that repeats the masked text gets the original text to the
\* client, as long as nothing hit this very session: other sessions may be
\* ended, deleted, purged, expired or lost in a crash meanwhile.
RoundTrip(kinds) ==
  \A r \in Requests :
    kind[r] \in kinds /\ outcome[r] = "ok" /\ reply[r] = sent[r] /\ r \notin disturbed
      => Shown(r) = body[r]

RestoresWhatItMasked == RoundTrip({"chat", "completions"})

\* README.md:112, "Streaming response restoration with chunk boundary
\* handling": the same promise for a streamed answer.
RestoresStreams == RoundTrip({"stream"})

\* architecture.md:98, a value keeps its token within a session, and no two
\* values share one, unless the session was interfered with.
OneTokenPerValue ==
  \A r \in Requests : \A i, j \in DOMAIN text[r] \ Raw(r) :
    /\ text[r][i] = text[r][j] => body[r][i] = body[r][j]
    /\ body[r][i] = body[r][j] /\ r \notin disturbed => text[r][i] = text[r][j]

\* A session the engine has ended left nothing in any store, and nothing that
\* still runs for it (a stream, a write-back) puts anything back.  Vault keeps
\* the entries (mapping.py:413-416).
EndedLeavesNothing ==
  \A r \in Requests :
    backend # "vault" /\ pc[r] # "new" /\ r \notin tracked \cup disturbed => ~HasTrace(r)

Sends(r) == sent[r] = <<>> /\ sent'[r] # <<>>

\* A chat text leaves its worker only while that worker's breaker is CLOSED:
\* between the check and the send nothing else runs on the loop.
ChatSendsWhenClosed ==
  [][\A r \in Requests : Sends(r) /\ kind[r] = "chat" /\ BreakerEnabled
       => breaker[worker[r]].state = "closed"]_vars

InFlight(w) ==
  {r \in Requests : worker[r] = w /\ kind[r] \in Guarded /\ outcome[r] = "none"
                     /\ pc[r] \notin {"new", "done", "lost"}}

\* metrics.py:32-35, "Currently active masking sessions", where no stream ran.
GaugeCountsChats ==
  \A w \in Workers :
    (\A r \in Requests : worker[r] = w => kind[r] # "stream") =>
      metrics[w].active = Cardinality(InFlight(w))

\* router.py:198, "Force-destroy a specific masking session": no entry that an
\* admin delete removed is in a store again.
DeletedStaysDeleted ==
  \A h \in DOMAIN store : \A x \in store[h].rows : x.token \notin forgotten

\* Every request that arrived ends, or its worker crashes.
EveryRequestEnds ==
  \A r \in Requests : pc[r] # "new" ~> pc[r] \in {"done", "lost"}

\* architecture.md:119-121, "deterministic cleanup for normal requests and
\* bounded cleanup for abnormal flows": whatever crashed or failed, the traces
\* of a finished session are gone in the end (not from Vault).
BoundedCleanup ==
  \A r \in Requests :
    backend # "vault" /\ pc[r] \in {"done", "lost"} ~> ~HasTrace(r)
=============================================================================
