--------------------------- MODULE Gateway_proofs ---------------------------
(***************************************************************************)
(* Theorems about the request path, for every set of workers, sessions and  *)
(* values, every text and any number of faults: the state is well typed, no *)
(* detected value leaves through an endpoint that masks, a token in an      *)
(* answer is replaced by nothing but the value it was sent for, and the     *)
(* whole implements the promise of PrivacyBoundary.                         *)
(*                                                                         *)
(* The inductive invariant says of each request alone how its text, its     *)
(* tokens and its answer hang together, and of the stores that they hold    *)
(* nothing but tokens as they were generated.  So a step of one request     *)
(* leaves the invariant of the others alone, whatever it does to a store.   *)
(***************************************************************************)
EXTENDS Gateway, Breaker_proofs

-----------------------------------------------------------------------------
(* What a store operation returns, for every backend: a store, holding       *)
(* nothing that was not there before but the entry the call was given.       *)

\* Everything a store knows about tokens: its entries and its index.
Held(h) == h.rows \cup h.index

LEMMA NewStoreFacts == NewStore \in Stores /\ Held(NewStore) = {}
  BY DEF NewStore, Stores, Held

LEMMA RowType ==
  ASSUME NEW s \in Sessions, NEW t \in Tokens, NEW v \in Values
  PROVE  /\ Row(s, t, v) \in Rows
         /\ Row(s, t, v).session = s /\ Row(s, t, v).token = t /\ Row(s, t, v).value = v
  BY DEF Row, Rows

LEMMA MarkedFacts ==
  ASSUME NEW h \in Stores, NEW s \in Sessions
  PROVE  Marked(h, s) \in Stores /\ Held(Marked(h, s)) = Held(h)
  BY DEF Marked, Stores, Held

LEMMA EnteredFacts ==
  ASSUME NEW h \in Stores, NEW s \in Sessions, NEW t \in Tokens, NEW v \in Values
  PROVE  /\ Entered(h, s, t, v) \in Stores
         /\ Held(Entered(h, s, t, v)) \subseteq Held(h) \cup {Row(s, t, v)}
  BY RowType DEF Entered, WithoutToken, Stores, Held

LEMMA StoreIndexFacts ==
  ASSUME NEW h \in Stores, NEW s \in Sessions, NEW t \in Tokens, NEW v \in Values
  PROVE  /\ StoreIndex(h, s, t, v) \in Stores
         /\ Held(StoreIndex(h, s, t, v)) \subseteq Held(h) \cup {Row(s, t, v)}
  BY RowType DEF StoreIndex, WithoutValue, Stores, Held

LEMMA CreateSessionFacts ==
  ASSUME NEW b, NEW h \in Stores, NEW s \in Sessions
  PROVE  /\ CreateSession(b, h, s) \in Stores
         /\ Held(CreateSession(b, h, s)) \subseteq Held(h)
  <1>1. CASE b = "memory"
    BY <1>1 DEF CreateSession, Without, Stores, Held
  <1>2. CASE b = "local"
    BY <1>2 DEF CreateSession
  <1>3. CASE b # "memory" /\ b # "local"
    BY <1>3, MarkedFacts DEF CreateSession
  <1> QED BY <1>1, <1>2, <1>3

LEMMA StoreEntryFacts ==
  ASSUME NEW b, NEW h \in Stores, NEW s \in Sessions, NEW t \in Tokens, NEW v \in Values
  PROVE  /\ StoreEntry(b, h, s, t, v) \in Stores
         /\ Held(StoreEntry(b, h, s, t, v)) \subseteq Held(h) \cup {Row(s, t, v)}
  <1> DEFINE e == Entered(h, s, t, v)
  <1>1. e \in Stores /\ Held(e) \subseteq Held(h) \cup {Row(s, t, v)}
    BY EnteredFacts
  <1>2. CASE b \in {"memory", "redis"}
    <2>1. StoreEntry(b, h, s, t, v) = StoreIndex(Marked(e, s), s, t, v)
      BY <1>2 DEF StoreEntry
    <2>2. Marked(e, s) \in Stores /\ Held(Marked(e, s)) = Held(e)
      BY <1>1, MarkedFacts
    <2> HIDE DEF e
    <2> QED BY <1>1, <2>1, <2>2, StoreIndexFacts
  <1>3. CASE b \notin {"memory", "redis"}
    BY <1>1, <1>3 DEF StoreEntry
  <1> QED BY <1>2, <1>3

LEMMA WriteBackFacts ==
  ASSUME NEW b, NEW h \in Stores, NEW x \in Rows
  PROVE  /\ WriteBack(b, h, x) \in Stores
         /\ Held(WriteBack(b, h, x)) \subseteq Held(h) \cup {x}
  <1> DEFINE e == Entered(h, x.session, x.token, x.value)
  <1>1. x.session \in Sessions /\ x.token \in Tokens /\ x.value \in Values
        /\ Row(x.session, x.token, x.value) = x
    BY DEF Rows, Row
  <1>2. e \in Stores /\ Held(e) \subseteq Held(h) \cup {x}
    BY <1>1, EnteredFacts
  <1>3. Marked(e, x.session) \in Stores /\ Held(Marked(e, x.session)) = Held(e)
    BY <1>1, <1>2, MarkedFacts
  <1> QED BY <1>2, <1>3 DEF WriteBack

LEMMA DestroySessionFacts ==
  ASSUME NEW b, NEW h \in Stores, NEW s \in Sessions
  PROVE  /\ DestroySession(b, h, s) \in Stores
         /\ Held(DestroySession(b, h, s)) \subseteq Held(h)
         /\ DestroySession(b, h, s).rows \subseteq h.rows
  BY DEF DestroySession, Without, Stores, Held

LEMMA PurgeExpiredFacts ==
  ASSUME NEW b, NEW h \in Stores, NEW old
  PROVE  /\ PurgeExpired(b, h, old) \in Stores
         /\ Held(PurgeExpired(b, h, old)) \subseteq Held(h)
  BY DEF PurgeExpired, Stores, Held

\* A lookup answers only with what the session itself stored.
LEMMA RetrieveRowsFacts ==
  ASSUME NEW h \in Stores, NEW s, NEW t, NEW x \in RetrieveRows(h, s, t)
  PROVE  x \in Held(h) /\ x \in Rows /\ x.session = s /\ x.token = t
  BY DEF RetrieveRows, Stores, Held

LEMMA TokensForValueFacts ==
  ASSUME NEW b, NEW h \in Stores, NEW s, NEW v, NEW t \in TokensForValue(b, h, s, v)
  PROVE  \E x \in Held(h) : x \in Rows /\ x.session = s /\ x.value = v /\ x.token = t
  BY DEF TokensForValue, Stores, Held
-----------------------------------------------------------------------------
(* The invariant.                                                           *)

\* Token t was generated by session r, and for the value v.
OwnToken(r, t, v) == \E n \in 1..Len(minted[r]) : t = <<r, n>> /\ minted[r][n] = v

StoresHoldMinted ==
  \A h \in DOMAIN store : \A x \in Held(store[h]) : OwnToken(x.session, x.token, x.value)

Placed(r) == pc[r] # "new" => worker[r] \in Workers

\* Whatever was replaced in a text stands for what was there.
TextFromBody(r) ==
  /\ DOMAIN text[r] = DOMAIN body[r]
  /\ \A i \in DOMAIN text[r] :
       text[r][i] = body[r][i] \/ OwnToken(r, text[r][i], body[r][i])

\* What left the gateway is the text, which no later step touches.
SentIsText(r) ==
  sent[r] # <<>> =>
    /\ sent[r] = text[r]
    /\ pc[r] \in {"await", "restore", "touch", "ending", "done", "lost"}
    /\ pc[r] = "ending" => kind[r] # "stream"

\* A text about to be sent, or sent, has nothing left to mask.
ReadyIsMasked(r) ==
  /\ kind[r] # "list"
  /\ \/ pc[r] \in {"send", "open"}
     \/ sent[r] # <<>>
     \/ pc[r] = "ending" /\ outcome[r] = "none"
  => Raw(r) = {}

\* A token of the session itself that comes back has been sent.
EchoesOwn(r) ==
  \A i \in DOMAIN reply[r] : \A n \in Nat :
    reply[r][i] = <<r, n>> => \E j \in DOMAIN sent[r] : sent[r][j] = <<r, n>>

FoundWasSent(r) ==
  \A p \in found[r] :
    OwnToken(r, p[1], p[2]) /\ \E i \in DOMAIN sent[r] : sent[r][i] = p[1]

TouchHasFound(r) ==
  pc[r] = "touch" =>
    /\ looked[r] \in DOMAIN reply[r]
    /\ \E v \in Values : <<reply[r][looked[r]], v>> \in found[r]

\* Between Vault's two writes: the token at hand is for the mention at hand.
IndexHasMinted(r) ==
  pc[r] = "index" =>
    minted[r] # <<>> /\ \A k \in NextMention(r) : minted[r][Len(minted[r])] = text[r][k]

RequestInv(r) ==
  /\ Placed(r) /\ TextFromBody(r) /\ SentIsText(r) /\ ReadyIsMasked(r) /\ EchoesOwn(r)
  /\ FoundWasSent(r) /\ TouchHasFound(r) /\ IndexHasMinted(r)

IInv == TypeOK /\ StoresHoldMinted /\ \A r \in Requests : RequestInv(r)
-----------------------------------------------------------------------------
(* What an action leaves alone.                                             *)

\* Nothing of request q changes.
Same(q) ==
  /\ worker'[q] = worker[q] /\ kind'[q] = kind[q] /\ body'[q] = body[q]
  /\ pc'[q] = pc[q] /\ text'[q] = text[q] /\ minted'[q] = minted[q]
  /\ sent'[q] = sent[q] /\ reply'[q] = reply[q] /\ looked'[q] = looked[q]
  /\ found'[q] = found[q] /\ outcome'[q] = outcome[q]

LEMMA SameKeeps ==
  ASSUME NEW q \in Requests, RequestInv(q), Same(q)
  PROVE  RequestInv(q)'
  <1>1. \A t, v : OwnToken(q, t, v)' <=> OwnToken(q, t, v)
    BY DEF Same, OwnToken
  <1>2. Raw(q)' = Raw(q) /\ NextMention(q)' = NextMention(q)
    BY DEF Same, Raw, NextMention
  <1>3. Placed(q)' /\ SentIsText(q)' /\ ReadyIsMasked(q)'
    BY <1>2 DEF Same, RequestInv, Placed, SentIsText, ReadyIsMasked
  <1>4. TextFromBody(q)'
    BY <1>1 DEF Same, RequestInv, TextFromBody
  <1>5. EchoesOwn(q)' /\ TouchHasFound(q)'
    BY DEF Same, RequestInv, EchoesOwn, TouchHasFound
  <1>6. FoundWasSent(q)'
    BY <1>1 DEF Same, RequestInv, FoundWasSent
  <1>7. IndexHasMinted(q)'
    BY <1>2 DEF Same, RequestInv, IndexHasMinted
  <1> QED BY <1>3, <1>4, <1>5, <1>6, <1>7 DEF RequestInv

\* A step of r that changes nothing of the others has to be looked at for r.
LEMMA OneRequest ==
  ASSUME IInv, NEW r \in Requests, TypeOK', StoresHoldMinted', RequestInv(r)',
         \A q \in Requests \ {r} : Same(q)
  PROVE  IInv'
  BY SameKeeps DEF IInv

Shelves == Workers \cup {"shared", "daemon"}

LEMMA ShelfType ==
  ASSUME TypeOK
  PROVE  /\ DOMAIN store = Shelves
         /\ \A w \in Workers : Shelf(w) \in Shelves
         /\ DaemonShelf \in Shelves
  BY DEF TypeOK, StoreTypes, Shelf, DaemonShelf, Shelves

\* A store changes: what it did not hold before has to be looked at.
LEMMA OneStore ==
  ASSUME TypeOK, StoresHoldMinted,
         NEW h \in Shelves, NEW st \in Stores,
         \A x \in Held(st) \ Held(store[h]) : OwnToken(x.session, x.token, x.value)',
         \A q \in Requests : \A t, v : OwnToken(q, t, v) => OwnToken(q, t, v)',
         store' = [store EXCEPT ![h] = st]
  PROVE  store' \in [Shelves -> Stores] /\ StoresHoldMinted'
  <1>1. store \in [Shelves -> Stores]
    BY DEF TypeOK, StoreTypes, Shelves
  <1>2. store' \in [Shelves -> Stores]
    BY <1>1
  <1>3. ASSUME NEW g \in Shelves, NEW x \in Held(store'[g])
        PROVE  OwnToken(x.session, x.token, x.value)'
    <2>1. CASE x \in Held(store[g])
      <3>1. x.session \in Requests
        BY <1>1, <2>1 DEF Held, Stores, Rows, Requests
      <3>2. OwnToken(x.session, x.token, x.value)
        BY <1>1, <2>1 DEF StoresHoldMinted
      <3> QED BY <3>1, <3>2
    <2>2. CASE x \notin Held(store[g])
      BY <1>1, <1>3, <2>2
    <2> QED BY <2>1, <2>2
  <1>4. DOMAIN store' = Shelves
    BY <1>2
  <1>5. StoresHoldMinted'
    BY <1>3, <1>4 DEF StoresHoldMinted
  <1> QED BY <1>2, <1>5

\* The common case: nothing is added.
LEMMA OneStoreShrinks ==
  ASSUME TypeOK, StoresHoldMinted,
         NEW h \in Shelves, NEW st \in Stores, Held(st) \subseteq Held(store[h]),
         minted' = minted, store' = [store EXCEPT ![h] = st]
  PROVE  store' \in [Shelves -> Stores] /\ StoresHoldMinted'
  <1>1. \A q \in Requests : \A t, v : OwnToken(q, t, v) => OwnToken(q, t, v)'
    BY DEF OwnToken
  <1>2. \A x \in Held(st) \ Held(store[h]) : OwnToken(x.session, x.token, x.value)'
    OBVIOUS
  <1> QED BY <1>1, <1>2, OneStore

LEMMA StoresUntouched ==
  ASSUME StoresHoldMinted, UNCHANGED <<store, minted>>
  PROVE  StoresHoldMinted'
  BY DEF StoresHoldMinted, OwnToken
-----------------------------------------------------------------------------
(* Tokens and texts.                                                        *)

LEMMA OwnTokenType ==
  ASSUME TypeOK, NEW r \in Requests, NEW t, NEW v, OwnToken(r, t, v)
  PROVE  t \in Tokens /\ t \notin Values /\ v \in Values
  BY GatewayAssumption DEF TypeOK, RequestTypes, OwnToken, Tokens, Requests

\* A token generated for v is the session's own, and so are the ones before.
LEMMA MintedGrows ==
  ASSUME TypeOK, NEW r \in Requests, NEW v \in Values, NEW t, t = FreshToken(r),
         minted' = [minted EXCEPT ![r] = Append(@, v)]
  PROVE  /\ minted' \in [Requests -> Seq(Values)]
         /\ t \in Tokens /\ OwnToken(r, t, v)'
         /\ \A q \in Requests : \A x, u : OwnToken(q, x, u) => OwnToken(q, x, u)'
  <1>1. minted \in [Requests -> Seq(Values)] /\ minted[r] \in Seq(Values)
    BY DEF TypeOK, RequestTypes
  <1>2. minted' \in [Requests -> Seq(Values)]
    BY <1>1
  <1>3. minted'[r] = Append(minted[r], v) /\ Len(minted[r]) \in Nat
    BY <1>1
  <1>4. t \in Tokens
    BY <1>3 DEF FreshToken, Tokens, Requests
  <1>5. t = <<r, Len(minted[r]) + 1>> /\ Len(minted'[r]) = Len(minted[r]) + 1
        /\ minted'[r][Len(minted[r]) + 1] = v
    BY <1>1, <1>3 DEF FreshToken
  <1>6. OwnToken(r, t, v)'
    BY <1>3, <1>5 DEF OwnToken
  <1>7. ASSUME NEW q \in Requests, NEW x, NEW u, OwnToken(q, x, u)
        PROVE  OwnToken(q, x, u)'
    <2>1. PICK n \in 1..Len(minted[q]) : x = <<q, n>> /\ minted[q][n] = u
      BY <1>7 DEF OwnToken
    <2>2. n \in 1..Len(minted'[q]) /\ minted'[q][n] = u
      <3>1. CASE q = r
        BY <1>1, <1>3, <1>5, <2>1, <3>1
      <3>2. CASE q # r
        BY <1>1, <2>1, <3>2
      <3> QED BY <3>1, <3>2
    <2> QED BY <2>1, <2>2 DEF OwnToken
  <1> QED BY <1>2, <1>4, <1>6, <1>7

\* A mention is replaced by the session's own token for it.
LEMMA OneMention ==
  ASSUME TypeOK, NEW r \in Requests, TextFromBody(r), NEW k \in NextMention(r),
         NEW t \in Tokens, NEW v, v = text[r][k], OwnToken(r, t, v)',
         \A u, x : OwnToken(r, u, x) => OwnToken(r, u, x)',
         body' = body, Replace(r, k, t)
  PROVE  text' \in [Requests -> Seq(Values \cup Tokens)] /\ TextFromBody(r)'
  <1>1. text \in [Requests -> Seq(Values \cup Tokens)] /\ text[r] \in Seq(Values \cup Tokens)
    BY DEF TypeOK, RequestTypes
  <1>2. k \in DOMAIN text[r] /\ text[r][k] \in Values
    BY DEF NextMention, Raw
  <1>3. text' = [text EXCEPT ![r] = [text[r] EXCEPT ![k] = t]]
    BY DEF Replace
  <1>4. [text[r] EXCEPT ![k] = t] \in Seq(Values \cup Tokens)
    BY <1>1, <1>2
  <1>5. text' \in [Requests -> Seq(Values \cup Tokens)]
    BY <1>1, <1>3, <1>4
  <1>6. v = body[r][k]
    BY <1>2, OwnTokenType DEF TextFromBody
  <1>7. text'[r] = [text[r] EXCEPT ![k] = t]
    BY <1>1, <1>3
  <1>8. ASSUME NEW i \in DOMAIN text[r], NEW old, NEW new,
               old = body[r][i], new = text'[r][i]
        PROVE  new = old \/ OwnToken(r, new, old)'
    <2>1. CASE i = k
      BY <1>2, <1>6, <1>7, <1>8, <2>1
    <2>2. CASE i # k
      <3>1. new = text[r][i]
        BY <1>7, <1>8, <2>2
      <3> QED BY <1>8, <3>1 DEF TextFromBody
    <2> QED BY <2>1, <2>2
  <1>9. DOMAIN text'[r] = DOMAIN body'[r] /\ DOMAIN text'[r] = DOMAIN text[r]
    BY <1>7 DEF TextFromBody
  <1>10. TextFromBody(r)'
    BY <1>8, <1>9 DEF TextFromBody
  <1> QED BY <1>5, <1>10
-----------------------------------------------------------------------------
LEMMA NextMentionFacts ==
  ASSUME TypeOK, NEW r \in Requests, NEW k \in NextMention(r)
  PROVE  /\ k \in DOMAIN text[r] /\ text[r][k] \in Values
         /\ \A i \in NextMention(r) : i = k
  <1>1. text[r] \in Seq(Values \cup Tokens)
    BY DEF TypeOK, RequestTypes
  <1>2. Raw(r) \subseteq Nat
    BY <1>1 DEF Raw
  <1> QED BY <1>2 DEF NextMention, Raw

LEMMA TextUntouched ==
  ASSUME NEW r, TextFromBody(r), UNCHANGED <<text, body, minted>>
  PROVE  TextFromBody(r)'
  BY DEF TextFromBody, OwnToken

LEMMA AnswerUntouched ==
  ASSUME NEW r, EchoesOwn(r), FoundWasSent(r), UNCHANGED <<sent, reply, found, minted>>
  PROVE  EchoesOwn(r)' /\ FoundWasSent(r)'
  BY DEF EchoesOwn, FoundWasSent, OwnToken

\* A new token is stored: every store still holds only tokens as generated.
LEMMA MintFacts ==
  ASSUME TypeOK, StoresHoldMinted, NEW r \in Requests, worker[r] \in Workers,
         NEW k \in NextMention(r), NEW t, t = FreshToken(r), NEW v, v = text[r][k],
         Mint(r, k)
  PROVE  /\ store' \in [Shelves -> Stores] /\ StoresHoldMinted' /\ stale' \subseteq stale
         /\ minted' \in [Requests -> Seq(Values)] /\ minted'[r] = Append(minted[r], v)
         /\ t \in Tokens /\ OwnToken(r, t, v)'
         /\ \A q \in Requests : \A x, u : OwnToken(q, x, u) => OwnToken(q, x, u)'
  <1> DEFINE h == ShelfOf(r)
             st == StoreEntry(backend, store[h], r, t, v)
  <1>1. v \in Values
    BY NextMentionFacts
  <1>2. minted' = [minted EXCEPT ![r] = Append(@, v)] /\ store' = [store EXCEPT ![h] = st]
        /\ stale' \subseteq stale
    BY DEF Mint
  <1>3. /\ minted' \in [Requests -> Seq(Values)]
        /\ t \in Tokens /\ OwnToken(r, t, v)'
        /\ \A q \in Requests : \A x, u : OwnToken(q, x, u) => OwnToken(q, x, u)'
    BY <1>1, <1>2, MintedGrows
  <1>4. minted'[r] = Append(minted[r], v)
    BY <1>2 DEF TypeOK, RequestTypes
  <1>5. h \in Shelves /\ store[h] \in Stores
    BY ShelfType DEF TypeOK, StoreTypes, Shelves, ShelfOf
  <1>6. st \in Stores /\ Held(st) \subseteq Held(store[h]) \cup {Row(r, t, v)}
    BY <1>1, <1>3, <1>5, StoreEntryFacts DEF Requests
  <1>7. Row(r, t, v).session = r /\ Row(r, t, v).token = t /\ Row(r, t, v).value = v
    BY DEF Row
  <1>8. \A x \in Held(st) \ Held(store[h]) : OwnToken(x.session, x.token, x.value)'
    BY <1>3, <1>6, <1>7
  <1> HIDE DEF h, st
  <1>9. store' \in [Shelves -> Stores] /\ StoresHoldMinted'
    BY <1>2, <1>3, <1>5, <1>6, <1>8, OneStore
  <1> QED BY <1>2, <1>3, <1>4, <1>9
-----------------------------------------------------------------------------
(* The parts that handlers share.                                           *)

\* A marker is written, or a session is destroyed: nothing is added.
LEMMA CreateFacts ==
  ASSUME TypeOK, StoresHoldMinted, NEW r \in Requests, NEW w \in Workers,
         store' = [store EXCEPT ![Shelf(w)] = CreateSession(backend, @, r)],
         minted' = minted
  PROVE  store' \in [Shelves -> Stores] /\ StoresHoldMinted'
  <1> DEFINE h == Shelf(w)
             st == CreateSession(backend, store[h], r)
  <1>1. h \in Shelves /\ store[h] \in Stores
    BY ShelfType DEF TypeOK, StoreTypes, Shelves
  <1>2. st \in Stores /\ Held(st) \subseteq Held(store[h])
    BY <1>1, CreateSessionFacts DEF Requests
  <1>3. store' = [store EXCEPT ![h] = st]
    OBVIOUS
  <1> HIDE DEF h, st
  <1> QED BY <1>1, <1>2, <1>3, OneStoreShrinks

LEMMA DestroyFacts ==
  ASSUME TypeOK, StoresHoldMinted, NEW r \in Requests, worker[r] \in Workers,
         store' = [store EXCEPT ![ShelfOf(r)] = DestroySession(backend, @, r)],
         minted' = minted
  PROVE  store' \in [Shelves -> Stores] /\ StoresHoldMinted'
  <1> DEFINE h == ShelfOf(r)
             st == DestroySession(backend, store[h], r)
  <1>1. h \in Shelves /\ store[h] \in Stores
    BY ShelfType DEF TypeOK, StoreTypes, Shelves, ShelfOf
  <1>2. st \in Stores /\ Held(st) \subseteq Held(store[h])
    BY <1>1, DestroySessionFacts DEF Requests
  <1>3. store' = [store EXCEPT ![h] = st]
    OBVIOUS
  <1> HIDE DEF h, st
  <1> QED BY <1>1, <1>2, <1>3, OneStoreShrinks

\* The index entry of the newest token, where it was minted for that value.
LEMMA PutIndexFacts ==
  ASSUME TypeOK, StoresHoldMinted, NEW r \in Requests, worker[r] \in Workers,
         pc[r] = "index", IndexHasMinted(r), NEW k \in NextMention(r),
         PutIndex(r, k), minted' = minted
  PROVE  /\ store' \in [Shelves -> Stores] /\ StoresHoldMinted'
         /\ text[r][k] \in Values /\ LastMinted(r) \in Tokens
         /\ OwnToken(r, LastMinted(r), text[r][k])
  <1>1. PICK t, v : t = LastMinted(r) /\ v = text[r][k]
    OBVIOUS
  <1>2. v \in Values /\ t \in Tokens /\ OwnToken(r, t, v)
    <2>1. minted[r] \in Seq(Values) /\ minted[r] # <<>> /\ minted[r][Len(minted[r])] = v
      BY <1>1 DEF IndexHasMinted, TypeOK, RequestTypes
    <2>2. Len(minted[r]) \in Nat \ {0} /\ Len(minted[r]) \in 1..Len(minted[r])
      BY <2>1
    <2>3. t \in Tokens /\ OwnToken(r, t, v)
      BY <1>1, <2>1, <2>2 DEF LastMinted, OwnToken, Tokens, Requests
    <2> QED BY <1>1, <2>3, NextMentionFacts
  <1>3. OwnToken(r, t, v)' /\ \A q, x, u : OwnToken(q, x, u) => OwnToken(q, x, u)'
    BY <1>2 DEF OwnToken
  <1> DEFINE h == ShelfOf(r)
             st == StoreIndex(store[h], r, t, v)
  <1>4. h \in Shelves /\ store[h] \in Stores
    BY ShelfType DEF TypeOK, StoreTypes, Shelves, ShelfOf
  <1>5. st \in Stores /\ Held(st) \subseteq Held(store[h]) \cup {Row(r, t, v)}
    BY <1>2, <1>4, StoreIndexFacts DEF Requests
  <1>6. \A x \in Held(st) \ Held(store[h]) : OwnToken(x.session, x.token, x.value)'
    BY <1>3, <1>5 DEF Row
  <1>7. store' = [store EXCEPT ![h] = st]
    BY <1>1 DEF PutIndex
  <1> HIDE DEF h, st
  <1>8. store' \in [Shelves -> Stores] /\ StoresHoldMinted'
    BY <1>3, <1>4, <1>5, <1>6, <1>7, OneStore
  <1> QED BY <1>1, <1>2, <1>8

\* What is written back is what was found.
LEMMA PutBackFacts ==
  ASSUME TypeOK, StoresHoldMinted, NEW r \in Requests, worker[r] \in Workers,
         pc[r] = "touch", TouchHasFound(r), FoundWasSent(r), PutBack(r), minted' = minted
  PROVE  store' \in [Shelves -> Stores] /\ StoresHoldMinted' /\ stale' \subseteq stale
  <1> DEFINE t == reply[r][looked[r]]
             x == Row(r, t, CHOOSE v \in Values : <<t, v>> \in found[r])
             h == ShelfOf(r)
             st == WriteBack(backend, store[h], x)
  <1>1. store' = [store EXCEPT ![h] = st] /\ stale' \subseteq stale
    BY DEF PutBack
  <1>2. \E v \in Values : <<t, v>> \in found[r]
    BY DEF TouchHasFound
  <1>3. PICK v \in Values : v = (CHOOSE u \in Values : <<t, u>> \in found[r])
                           /\ <<t, v>> \in found[r]
    BY <1>2
  <1>4. x = Row(r, t, v)
    BY <1>3
  <1>5. t \in Tokens /\ OwnToken(r, t, v)
    <2>1. OwnToken(r, t, v)
      BY <1>3 DEF FoundWasSent
    <2> QED BY <2>1, OwnTokenType
  <1>6. x \in Rows /\ x.session = r /\ x.token = t /\ x.value = v
    BY <1>4, <1>5, RowType DEF Requests
  <1>7. h \in Shelves /\ store[h] \in Stores
    BY ShelfType DEF TypeOK, StoreTypes, Shelves, ShelfOf
  <1> HIDE DEF t, x, h
  <1>8. st \in Stores /\ Held(st) \subseteq Held(store[h]) \cup {x}
    BY <1>6, <1>7, WriteBackFacts
  <1>9. \A q, u, y : OwnToken(q, u, y) => OwnToken(q, u, y)'
    BY DEF OwnToken
  <1>10. \A y \in Held(st) \ Held(store[h]) : OwnToken(y.session, y.token, y.value)'
    <2>1. PICK u : u = t
      OBVIOUS
    <2>2. OwnToken(r, u, v)'
      BY <1>5, <1>9, <2>1
    <2> QED BY <1>6, <1>8, <2>1, <2>2
  <1> HIDE DEF st
  <1>11. store' \in [Shelves -> Stores] /\ StoresHoldMinted'
    BY <1>1, <1>7, <1>8, <1>9, <1>10, OneStore
  <1> QED BY <1>1, <1>11

LEMMA FaultOnType ==
  ASSUME TypeOK, NEW s \in Sessions, faults < MaxFaults, FaultOn(s)
  PROVE  faults' \in 0..MaxFaults /\ disturbed' \subseteq Sessions
  BY GatewayAssumption DEF FaultOn, TypeOK, StoreTypes

LEMMA GaugeType ==
  ASSUME NEW m \in Gauges, NEW r \in Requests
  PROVE  RequestStarted(m, r) \in Gauges /\ RequestCompleted(m) \in Gauges
  BY DEF Gauges, RequestStarted, RequestCompleted

LEMMA RaiseType ==
  ASSUME TypeOK, NEW r \in Requests, worker[r] \in Workers, Raise(r)
  PROVE  /\ outcome' \in [Requests -> {"none", "ok", "error"}]
         /\ metrics' \in [Workers -> Gauges]
         /\ pc' \in [Requests -> Labels]
  BY GaugeType DEF TypeOK, RequestTypes, ProcessTypes, Raise, Goto, Labels

LEMMA ReleaseType ==
  ASSUME TypeOK, NEW r \in Requests, Release(r) \/ Hold(r) \/ UNCHANGED running
  PROVE  running' \in [Workers -> Requests \cup {Nobody}]
  BY DEF TypeOK, ProcessTypes, Release, Hold

LEMMA ReportType ==
  ASSUME TypeOK, NEW r \in Requests, worker[r] \in Workers, NEW b \in Breakers, Report(r, b)
  PROVE  breaker' \in [Workers -> Breakers]
  BY DEF TypeOK, ProcessTypes, Report
-----------------------------------------------------------------------------
(* The steps of a request, in the order of its life.                        *)

\* Nothing of an earlier session is in the marker that create_session writes.
LEMMA ArriveInv ==
  ASSUME IInv, NEW r \in Requests, NEW w \in Workers, NEW k \in Kinds, NEW b \in Bodies,
         Arrive(r, w, k, b)
  PROVE  IInv'
  <1> SUFFICES ASSUME TypeOK, StoresHoldMinted, RequestInv(r) PROVE IInv'
    BY DEF IInv
  <1> USE DEF RequestInv
  <1>4. store' \in [Shelves -> Stores] /\ StoresHoldMinted'
    BY CreateFacts DEF Arrive
  <1>5. TypeOK'
    <2>1. StoreTypes'
      BY <1>4 DEF Arrive, NoFault, TypeOK, StoreTypes, Shelves
    <2>2. RequestTypes'
      <3>1. b \in Seq(Values) /\ b \in Seq(Values \cup Tokens)
        BY GatewayAssumption
      <3> QED BY <3>1 DEF Arrive, Goto, answerVars, TypeOK, RequestTypes, Labels
    <2>3. ProcessTypes'
      BY GaugeType DEF Arrive, TypeOK, ProcessTypes
    <2> QED BY <2>1, <2>2, <2>3 DEF TypeOK
  <1>6. StoresHoldMinted'
    BY <1>4
  <1>7. RequestInv(r)'
    <2>1. Placed(r)' /\ SentIsText(r)' /\ TouchHasFound(r)'
      BY DEF Arrive, Goto, answerVars, TypeOK, RequestTypes, Placed, SentIsText,
             TouchHasFound
    <2>2. ReadyIsMasked(r)' /\ IndexHasMinted(r)'
      BY DEF Arrive, Goto, answerVars, TypeOK, RequestTypes, ReadyIsMasked, SentIsText,
             IndexHasMinted, NextMention, Raw
    <2>3. TextFromBody(r)'
      BY DEF Arrive, Goto, answerVars, TypeOK, RequestTypes, TextFromBody
    <2>4. EchoesOwn(r)' /\ FoundWasSent(r)'
      BY AnswerUntouched DEF Arrive, answerVars
    <2> QED BY <2>1, <2>2, <2>3, <2>4
  <1>8. \A q \in Requests \ {r} : Same(q)
    BY DEF Arrive, Goto, answerVars, TypeOK, RequestTypes, Same
  <1> QED BY <1>5, <1>6, <1>7, <1>8, OneRequest

\* An arrival that fails leaves a request with no text at all.
LEMMA ArriveRaisesInv ==
  ASSUME IInv, NEW r \in Requests, NEW w \in Workers, NEW k \in Kinds,
         ArriveRaises(r, w, k)
  PROVE  IInv'
  <1> SUFFICES ASSUME TypeOK, StoresHoldMinted, RequestInv(r) PROVE IInv'
    BY DEF IInv
  <1> USE DEF RequestInv
  <1>0. store' \in [Shelves -> Stores] /\ StoresHoldMinted'
    <2>1. CASE UNCHANGED store
      BY <2>1, StoresUntouched DEF ArriveRaises, TypeOK, StoreTypes, Shelves
    <2>2. CASE store' = [store EXCEPT ![Shelf(w)] = CreateSession(backend, @, r)]
      BY <2>2, CreateFacts DEF ArriveRaises
    <2> QED BY <2>1, <2>2 DEF ArriveRaises
  <1>1. TypeOK'
    <2>1. StoreTypes'
      BY <1>0, FaultOnType DEF ArriveRaises, CanFail, TypeOK, StoreTypes, Shelves, Requests
    <2>2. RequestTypes'
      BY DEF ArriveRaises, Goto, answerVars, TypeOK, RequestTypes, Labels
    <2>3. ProcessTypes'
      BY DEF ArriveRaises, workerVars, TypeOK, ProcessTypes
    <2> QED BY <2>1, <2>2, <2>3 DEF TypeOK
  <1>2. StoresHoldMinted'
    BY <1>0
  <1>3. RequestInv(r)'
    <2>1. Placed(r)' /\ SentIsText(r)' /\ TouchHasFound(r)'
      BY DEF ArriveRaises, Goto, answerVars, TypeOK, RequestTypes, Placed, SentIsText,
             TouchHasFound
    <2>2. ReadyIsMasked(r)' /\ IndexHasMinted(r)'
      BY DEF ArriveRaises, Goto, answerVars, TypeOK, RequestTypes, ReadyIsMasked,
             SentIsText, IndexHasMinted, NextMention, Raw
    <2>3. TextFromBody(r)'
      BY TextUntouched DEF ArriveRaises
    <2>4. EchoesOwn(r)' /\ FoundWasSent(r)'
      BY AnswerUntouched DEF ArriveRaises, answerVars
    <2> QED BY <2>1, <2>2, <2>3, <2>4
  <1>4. \A q \in Requests \ {r} : Same(q)
    BY DEF ArriveRaises, Goto, answerVars, TypeOK, RequestTypes, Same
  <1> QED BY <1>1, <1>2, <1>3, <1>4, OneRequest

\* A rejected request ends with an error, and so may hold raw text.
LEMMA CheckInv ==
  ASSUME IInv, NEW r \in Requests, Check(r)
  PROVE  IInv'
  <1> SUFFICES ASSUME TypeOK, StoresHoldMinted, RequestInv(r) PROVE IInv'
    BY DEF IInv
  <1> USE DEF RequestInv
  <1>1. worker[r] \in Workers
    BY DEF Check, reqVars, Placed
  <1>2. TypeOK'
    <2>1. StoreTypes'
      BY DEF Check, NoFault, TypeOK, StoreTypes
    <2>2. RequestTypes'
      BY <1>1, RaiseType
         DEF Check, Raise, Goto, reqVars, answerVars, TypeOK, RequestTypes, Labels
    <2>3. ProcessTypes'
      BY <1>1, RaiseType, ObserveFields DEF Check, Raise, TypeOK, ProcessTypes, Checked
    <2> QED BY <2>1, <2>2, <2>3 DEF TypeOK
  <1>3. StoresHoldMinted'
    BY StoresUntouched DEF Check
  <1>4. RequestInv(r)'
    <2>1. Placed(r)' /\ SentIsText(r)' /\ TouchHasFound(r)'
      BY DEF Check, Raise, Goto, reqVars, answerVars, TypeOK, RequestTypes, Placed,
             SentIsText, TouchHasFound
    <2>2. ReadyIsMasked(r)' /\ IndexHasMinted(r)'
      BY DEF Check, Raise, Goto, reqVars, answerVars, TypeOK, RequestTypes, ReadyIsMasked,
             SentIsText, IndexHasMinted, NextMention, Raw
    <2>3. TextFromBody(r)'
      BY TextUntouched DEF Check, reqVars
    <2>4. EchoesOwn(r)' /\ FoundWasSent(r)'
      BY AnswerUntouched DEF Check, answerVars
    <2> QED BY <2>1, <2>2, <2>3, <2>4
  <1>5. \A q \in Requests \ {r} : Same(q)
    BY DEF Check, Raise, Goto, reqVars, answerVars, TypeOK, RequestTypes, Same
  <1> QED BY <1>2, <1>3, <1>4, <1>5, OneRequest

\* The token at hand was looked up in a store, and stores hold what was minted.
LEMMA ReuseTokenInv ==
  ASSUME IInv, NEW r \in Requests, ReuseToken(r)
  PROVE  IInv'
  <1> SUFFICES ASSUME TypeOK, StoresHoldMinted, RequestInv(r) PROVE IInv'
    BY DEF IInv
  <1> USE DEF RequestInv
  <1>1. worker[r] \in Workers /\ UNCHANGED <<body, minted>>
    BY DEF ReuseToken, reqVars, Placed
  <1>0. PICK k \in NextMention(r) : \E t \in Known(r, k) : Replace(r, k, t)
    BY DEF ReuseToken
  <1>2. PICK t : k \in NextMention(r) /\ t \in Known(r, k) /\ Replace(r, k, t)
    BY <1>0
  <1>3. PICK v : v = text[r][k]
    OBVIOUS
  <1>4. t \in Tokens /\ OwnToken(r, t, v)
    <2>1. ShelfOf(r) \in Shelves /\ store[ShelfOf(r)] \in Stores
      BY <1>1, ShelfType DEF TypeOK, StoreTypes, Shelves, ShelfOf
    <2>2. PICK x \in Held(store[ShelfOf(r)]) :
            x \in Rows /\ x.session = r /\ x.value = v /\ x.token = t
      BY <1>2, <1>3, <2>1, TokensForValueFacts DEF Known
    <2>3. OwnToken(r, t, v)
      BY <2>1, <2>2, ShelfType DEF StoresHoldMinted
    <2> QED BY <2>2, <2>3 DEF Rows
  <1>5. text' \in [Requests -> Seq(Values \cup Tokens)] /\ TextFromBody(r)'
    <2>1. OwnToken(r, t, v)' /\ \A u, x : OwnToken(r, u, x) => OwnToken(r, u, x)'
      BY <1>1, <1>4 DEF OwnToken
    <2> QED BY <1>1, <1>2, <1>3, <1>4, <2>1, OneMention
  <1>6. TypeOK'
    <2>1. StoreTypes'
      BY DEF ReuseToken, NoFault, TypeOK, StoreTypes
    <2>2. RequestTypes'
      BY <1>5 DEF ReuseToken, reqVars, answerVars, TypeOK, RequestTypes
    <2>3. ProcessTypes'
      BY DEF ReuseToken, workerVars, TypeOK, ProcessTypes
    <2> QED BY <2>1, <2>2, <2>3 DEF TypeOK
  <1>7. StoresHoldMinted'
    BY StoresUntouched DEF ReuseToken
  <1>8. RequestInv(r)'
    <2>1. Placed(r)' /\ SentIsText(r)' /\ TouchHasFound(r)'
      BY DEF ReuseToken, reqVars, answerVars, TypeOK, RequestTypes, Placed, SentIsText,
             TouchHasFound
    <2>2. ReadyIsMasked(r)' /\ IndexHasMinted(r)'
      BY DEF ReuseToken, reqVars, answerVars, TypeOK, RequestTypes, ReadyIsMasked,
             SentIsText, IndexHasMinted, NextMention, Raw
    <2>3. TextFromBody(r)'
      BY <1>5
    <2>4. EchoesOwn(r)' /\ FoundWasSent(r)'
      BY AnswerUntouched DEF ReuseToken, answerVars
    <2> QED BY <2>1, <2>2, <2>3, <2>4
  <1>9. \A q \in Requests \ {r} : Same(q)
    BY <1>2
       DEF ReuseToken, NoFault, reqVars, workerVars, answerVars, Replace, TypeOK,
           RequestTypes, Same
  <1> QED BY <1>6, <1>7, <1>8, <1>9, OneRequest

\* The token at hand is new, and in Vault the mention waits for the second write.
LEMMA MintTokenInv ==
  ASSUME IInv, NEW r \in Requests, MintToken(r)
  PROVE  IInv'
  <1> SUFFICES ASSUME TypeOK, StoresHoldMinted, RequestInv(r) PROVE IInv'
    BY DEF IInv
  <1> USE DEF RequestInv
  <1>1. worker[r] \in Workers /\ body' = body
    BY DEF MintToken, reqVars, Placed
  <1>2. PICK k \in NextMention(r) :
          /\ NoFault \/ (CanFail /\ FaultOn(r))
          /\ Mint(r, k)
          /\ \/ Goto(r, "index") /\ UNCHANGED text
             \/ Replace(r, k, FreshToken(r)) /\ UNCHANGED pc
    BY DEF MintToken
  <1>3. PICK t, v : t = FreshToken(r) /\ v = text[r][k]
    OBVIOUS
  <1>4. /\ store' \in [Shelves -> Stores] /\ StoresHoldMinted' /\ stale' \subseteq stale
        /\ minted' \in [Requests -> Seq(Values)] /\ minted'[r] = Append(minted[r], v)
        /\ t \in Tokens /\ OwnToken(r, t, v)'
        /\ \A q \in Requests : \A x, u : OwnToken(q, x, u) => OwnToken(q, x, u)'
    BY <1>1, <1>2, <1>3, MintFacts
  <1>5. text' \in [Requests -> Seq(Values \cup Tokens)] /\ TextFromBody(r)'
    <2>1. CASE UNCHANGED text
      BY <1>1, <1>4, <2>1 DEF TypeOK, RequestTypes, TextFromBody
    <2>2. CASE Replace(r, k, t)
      BY <1>1, <1>3, <1>4, <2>2, OneMention
    <2> QED BY <1>2, <1>3, <2>1, <2>2
  <1>6. TypeOK'
    <2>1. StoreTypes'
      BY <1>2, <1>4, FaultOnType
         DEF MintToken, NoFault, CanFail, TypeOK, StoreTypes, Shelves, Requests
    <2>2. RequestTypes'
      BY <1>2, <1>4, <1>5
         DEF MintToken, Goto, reqVars, answerVars, TypeOK, RequestTypes, Labels
    <2>3. ProcessTypes'
      BY DEF MintToken, workerVars, TypeOK, ProcessTypes
    <2> QED BY <2>1, <2>2, <2>3 DEF TypeOK
  <1>7. StoresHoldMinted'
    BY <1>4
  <1>8. RequestInv(r)'
    <2>1. Placed(r)' /\ SentIsText(r)' /\ TouchHasFound(r)'
      BY DEF MintToken, Goto, reqVars, answerVars, TypeOK, RequestTypes, Placed,
             SentIsText, TouchHasFound
    <2>2. ReadyIsMasked(r)' /\ IndexHasMinted(r)'
      <3>1. ReadyIsMasked(r)'
        BY <1>2
           DEF MintToken, Goto, reqVars, answerVars, TypeOK, RequestTypes, ReadyIsMasked,
               SentIsText
      <3>2. CASE Goto(r, "index") /\ UNCHANGED text
        <4>1. \A i \in NextMention(r) : text[r][i] = v
          BY <1>3, NextMentionFacts
        <4>2. NextMention(r)' = NextMention(r)
          BY <3>2 DEF NextMention, Raw
        <4>3. minted[r] \in Seq(Values) /\ v \in Values
          BY <1>3, NextMentionFacts DEF TypeOK, RequestTypes
        <4>4. minted'[r] # <<>> /\ minted'[r][Len(minted'[r])] = v
          BY <1>4, <4>3
        <4> QED BY <3>1, <3>2, <4>1, <4>2, <4>4 DEF IndexHasMinted
      <3>3. CASE UNCHANGED pc
        BY <3>1, <3>3 DEF MintToken, IndexHasMinted
      <3> QED BY <1>2, <3>1, <3>2, <3>3
    <2>3. TextFromBody(r)'
      BY <1>5
    <2>4. EchoesOwn(r)' /\ FoundWasSent(r)'
      BY <1>4 DEF MintToken, answerVars, EchoesOwn, FoundWasSent
    <2> QED BY <2>1, <2>2, <2>3, <2>4
  <1>9. \A q \in Requests \ {r} : Same(q)
    BY <1>2
       DEF MintToken, Goto, NoFault, CanFail, reqVars, workerVars, answerVars, Mint,
           Replace, TypeOK, RequestTypes, Same
  <1> QED BY <1>6, <1>7, <1>8, <1>9, OneRequest

\* Vault's second write: the token is the last one minted, for this mention.
LEMMA IndexTokenInv ==
  ASSUME IInv, NEW r \in Requests, IndexToken(r)
  PROVE  IInv'
  <1> SUFFICES ASSUME TypeOK, StoresHoldMinted, RequestInv(r) PROVE IInv'
    BY DEF IInv
  <1> USE DEF RequestInv
  <1>1. worker[r] \in Workers /\ UNCHANGED <<body, minted>>
    BY DEF IndexToken, reqVars, Placed
  <1>2. PICK k \in NextMention(r) : PutIndex(r, k) /\ Replace(r, k, LastMinted(r))
    BY DEF IndexToken
  <1>3. /\ store' \in [Shelves -> Stores] /\ StoresHoldMinted'
        /\ text[r][k] \in Values /\ LastMinted(r) \in Tokens
        /\ OwnToken(r, LastMinted(r), text[r][k])
    BY <1>1, <1>2, PutIndexFacts DEF IndexToken
  <1>4. PICK t, v : t = LastMinted(r) /\ v = text[r][k]
    OBVIOUS
  <1>5. OwnToken(r, t, v)' /\ \A q, x, u : OwnToken(q, x, u) => OwnToken(q, x, u)'
    BY <1>1, <1>3, <1>4 DEF OwnToken
  <1>7. text' \in [Requests -> Seq(Values \cup Tokens)] /\ TextFromBody(r)'
    BY <1>1, <1>2, <1>3, <1>4, <1>5, OneMention
  <1>9. TypeOK'
    <2>1. StoreTypes'
      BY <1>3 DEF IndexToken, NoFault, TypeOK, StoreTypes, Shelves
    <2>2. RequestTypes'
      BY <1>7 DEF IndexToken, Goto, reqVars, answerVars, TypeOK, RequestTypes, Labels
    <2>3. ProcessTypes'
      BY DEF IndexToken, workerVars, TypeOK, ProcessTypes
    <2> QED BY <2>1, <2>2, <2>3 DEF TypeOK
  <1>10. StoresHoldMinted'
    BY <1>3
  <1>11. RequestInv(r)'
    <2>1. Placed(r)' /\ SentIsText(r)' /\ TouchHasFound(r)'
      BY DEF IndexToken, Goto, reqVars, answerVars, TypeOK, RequestTypes, Placed,
             SentIsText, TouchHasFound
    <2>2. ReadyIsMasked(r)' /\ IndexHasMinted(r)'
      BY DEF IndexToken, Goto, reqVars, answerVars, TypeOK, RequestTypes, ReadyIsMasked,
             SentIsText, IndexHasMinted, NextMention, Raw
    <2>3. TextFromBody(r)'
      BY <1>7
    <2>4. EchoesOwn(r)' /\ FoundWasSent(r)'
      BY AnswerUntouched DEF IndexToken, answerVars
    <2> QED BY <2>1, <2>2, <2>3, <2>4
  <1>12. \A q \in Requests \ {r} : Same(q)
    BY <1>2
       DEF IndexToken, Goto, NoFault, reqVars, workerVars, answerVars, Replace, TypeOK,
           RequestTypes, Same
  <1> QED BY <1>9, <1>10, <1>11, <1>12, OneRequest

\* Masking fails, whether or not the store was carried out.
LEMMA MaskRaisesInv ==
  ASSUME IInv, NEW r \in Requests, MaskRaises(r)
  PROVE  IInv'
  <1> SUFFICES ASSUME TypeOK, StoresHoldMinted, RequestInv(r) PROVE IInv'
    BY DEF IInv
  <1> USE DEF RequestInv
  <1>1. worker[r] \in Workers /\ UNCHANGED <<body, text>>
    BY DEF MaskRaises, reqVars, Placed
  <1>2. /\ store' \in [Shelves -> Stores] /\ StoresHoldMinted' /\ stale' \subseteq stale
        /\ minted' \in [Requests -> Seq(Values)]
        /\ \A q \in Requests \ {r} : minted'[q] = minted[q]
        /\ \A q \in Requests : \A x, u : OwnToken(q, x, u) => OwnToken(q, x, u)'
    <2>1. CASE UNCHANGED <<store, stale, minted>>
      BY <2>1, StoresUntouched DEF TypeOK, StoreTypes, RequestTypes, Shelves, OwnToken
    <2>2. CASE \E k \in NextMention(r) : Mint(r, k)
      <3>1. PICK k \in NextMention(r) : Mint(r, k)
        BY <2>2
      <3>2. PICK t, v : t = FreshToken(r) /\ v = text[r][k]
        OBVIOUS
      <3>3. \A q \in Requests \ {r} : minted'[q] = minted[q]
        BY <3>1 DEF Mint, TypeOK, RequestTypes
      <3> QED BY <1>1, <3>1, <3>2, <3>3, MintFacts
    <2>3. CASE pc[r] = "index" /\ UNCHANGED <<stale, minted>>
                 /\ \E k \in NextMention(r) : PutIndex(r, k)
      <3>1. PICK k \in NextMention(r) : PutIndex(r, k)
        BY <2>3
      <3>2. store' \in [Shelves -> Stores] /\ StoresHoldMinted'
        BY <1>1, <2>3, <3>1, PutIndexFacts
      <3> QED BY <2>3, <3>2 DEF TypeOK, RequestTypes, OwnToken
    <2> QED BY <2>1, <2>2, <2>3 DEF MaskRaises
  <1>3. TypeOK'
    <2>1. StoreTypes'
      BY <1>2, FaultOnType DEF MaskRaises, TypeOK, StoreTypes, Shelves, Requests
    <2>2. RequestTypes'
      BY <1>1, <1>2, RaiseType
         DEF MaskRaises, Raise, Goto, reqVars, answerVars, TypeOK, RequestTypes
    <2>3. ProcessTypes'
      BY <1>1, ReportType, RaiseType, FailureFields
         DEF MaskRaises, Raise, TypeOK, ProcessTypes
    <2> QED BY <2>1, <2>2, <2>3 DEF TypeOK
  <1>4. StoresHoldMinted'
    BY <1>2
  <1>5. RequestInv(r)'
    <2>1. Placed(r)' /\ SentIsText(r)' /\ TouchHasFound(r)'
      BY DEF MaskRaises, Raise, Goto, reqVars, answerVars, TypeOK, RequestTypes, Placed,
             SentIsText, TouchHasFound
    <2>2. ReadyIsMasked(r)' /\ IndexHasMinted(r)'
      BY DEF MaskRaises, Raise, Goto, reqVars, answerVars, TypeOK, RequestTypes,
             ReadyIsMasked, SentIsText, IndexHasMinted, NextMention, Raw
    <2>3. TextFromBody(r)'
      BY <1>1, <1>2 DEF TextFromBody
    <2>4. EchoesOwn(r)' /\ FoundWasSent(r)'
      BY <1>2 DEF MaskRaises, answerVars, EchoesOwn, FoundWasSent
    <2> QED BY <2>1, <2>2, <2>3, <2>4
  <1>6. \A q \in Requests \ {r} : Same(q)
    BY <1>2 DEF MaskRaises, Raise, Goto, reqVars, answerVars, TypeOK, RequestTypes, Same
  <1> QED BY <1>3, <1>4, <1>5, <1>6, OneRequest

\* The one way to `send` and `open` for a masked endpoint: nothing raw is left.
LEMMA MaskDoneInv ==
  ASSUME IInv, NEW r \in Requests, MaskDone(r)
  PROVE  IInv'
  <1> SUFFICES ASSUME TypeOK, StoresHoldMinted, RequestInv(r) PROVE IInv'
    BY DEF IInv
  <1> USE DEF RequestInv
  <1>1. worker[r] \in Workers
    BY DEF MaskDone, reqVars, Placed
  <1>2. TypeOK'
    <2>1. StoreTypes'
      BY DEF MaskDone, NoFault, TypeOK, StoreTypes
    <2>2. RequestTypes'
      BY DEF MaskDone, Goto, reqVars, answerVars, TypeOK, RequestTypes, Labels
    <2>3. ProcessTypes'
      BY <1>1, ReportType, SuccessFields DEF MaskDone, TypeOK, ProcessTypes
    <2> QED BY <2>1, <2>2, <2>3 DEF TypeOK
  <1>3. StoresHoldMinted'
    BY StoresUntouched DEF MaskDone
  <1>4. RequestInv(r)'
    <2>1. Placed(r)' /\ SentIsText(r)' /\ TouchHasFound(r)'
      BY DEF MaskDone, Goto, reqVars, answerVars, TypeOK, RequestTypes, Placed, SentIsText,
             TouchHasFound
    <2>2. ReadyIsMasked(r)' /\ IndexHasMinted(r)'
      BY DEF MaskDone, Goto, reqVars, answerVars, TypeOK, RequestTypes, ReadyIsMasked,
             SentIsText, IndexHasMinted, NextMention, Raw
    <2>3. TextFromBody(r)'
      BY TextUntouched DEF MaskDone, reqVars
    <2>4. EchoesOwn(r)' /\ FoundWasSent(r)'
      BY AnswerUntouched DEF MaskDone, answerVars
    <2> QED BY <2>1, <2>2, <2>3, <2>4
  <1>5. \A q \in Requests \ {r} : Same(q)
    BY DEF MaskDone, Goto, reqVars, answerVars, TypeOK, RequestTypes, Same
  <1> QED BY <1>2, <1>3, <1>4, <1>5, OneRequest

LEMMA AuditRaisesInv ==
  ASSUME IInv, NEW r \in Requests, AuditRaises(r)
  PROVE  IInv'
  <1> SUFFICES ASSUME TypeOK, StoresHoldMinted, RequestInv(r) PROVE IInv'
    BY DEF IInv
  <1> USE DEF RequestInv
  <1>1. worker[r] \in Workers
    BY DEF AuditRaises, reqVars, Placed
  <1>2. TypeOK'
    <2>1. StoreTypes'
      BY FaultOnType DEF AuditRaises, TypeOK, StoreTypes, Requests
    <2>2. RequestTypes'
      BY DEF AuditRaises, Raise, Goto, reqVars, answerVars, TypeOK, RequestTypes, Labels
    <2>3. ProcessTypes'
      BY <1>1, ReportType, RaiseType, SuccessFields, FailureFields
         DEF AuditRaises, Raise, TypeOK, ProcessTypes
    <2> QED BY <2>1, <2>2, <2>3 DEF TypeOK
  <1>3. StoresHoldMinted'
    BY StoresUntouched DEF AuditRaises
  <1>4. RequestInv(r)'
    <2>1. Placed(r)' /\ SentIsText(r)' /\ TouchHasFound(r)'
      BY DEF AuditRaises, Raise, Goto, reqVars, answerVars, TypeOK, RequestTypes, Placed,
             SentIsText, TouchHasFound
    <2>2. ReadyIsMasked(r)' /\ IndexHasMinted(r)'
      BY DEF AuditRaises, Raise, Goto, reqVars, answerVars, TypeOK, RequestTypes,
             ReadyIsMasked, SentIsText, IndexHasMinted, NextMention, Raw
    <2>3. TextFromBody(r)'
      BY TextUntouched DEF AuditRaises, reqVars
    <2>4. EchoesOwn(r)' /\ FoundWasSent(r)'
      BY AnswerUntouched DEF AuditRaises, answerVars
    <2> QED BY <2>1, <2>2, <2>3, <2>4
  <1>5. \A q \in Requests \ {r} : Same(q)
    BY DEF AuditRaises, Raise, Goto, reqVars, answerVars, TypeOK, RequestTypes, Same
  <1> QED BY <1>2, <1>3, <1>4, <1>5, OneRequest

\* The text leaves.  No answer was there before, so none can mention a token.
LEMMA ForwardInv ==
  ASSUME IInv, NEW r \in Requests, Forward(r)
  PROVE  IInv'
  <1> SUFFICES ASSUME TypeOK, StoresHoldMinted, RequestInv(r) PROVE IInv'
    BY DEF IInv
  <1> USE DEF RequestInv
  <1>1. TypeOK'
    <2>1. StoreTypes'
      BY DEF Forward, NoFault, TypeOK, StoreTypes
    <2>2. RequestTypes'
      BY DEF Forward, Goto, reqVars, answerVars, TypeOK, RequestTypes, Labels
    <2>3. ProcessTypes'
      BY ReleaseType DEF Forward, TypeOK, ProcessTypes
    <2> QED BY <2>1, <2>2, <2>3 DEF TypeOK
  <1>2. StoresHoldMinted'
    BY StoresUntouched DEF Forward
  <1>3. RequestInv(r)'
    <2>1. Placed(r)' /\ SentIsText(r)' /\ TouchHasFound(r)'
      BY DEF Forward, Goto, reqVars, answerVars, TypeOK, RequestTypes, Placed, SentIsText,
             TouchHasFound
    <2>2. ReadyIsMasked(r)' /\ IndexHasMinted(r)'
      BY DEF Forward, Goto, reqVars, answerVars, TypeOK, RequestTypes, ReadyIsMasked,
             SentIsText, IndexHasMinted, NextMention, Raw
    <2>3. TextFromBody(r)'
      BY TextUntouched DEF Forward, reqVars
    <2>4. EchoesOwn(r)' /\ FoundWasSent(r)'
      <3>1. sent[r] = <<>>
        BY DEF Forward, SentIsText
      <3>2. found[r] = {} /\ \A i \in DOMAIN reply[r], n \in Nat : reply[r][i] # <<r, n>>
        BY <3>1 DEF FoundWasSent, EchoesOwn
      <3> QED BY <3>2 DEF Forward, answerVars, EchoesOwn, FoundWasSent
    <2> QED BY <2>1, <2>2, <2>3, <2>4
  <1>4. \A q \in Requests \ {r} : Same(q)
    BY DEF Forward, Goto, reqVars, answerVars, TypeOK, RequestTypes, Same
  <1> QED BY <1>1, <1>2, <1>3, <1>4, OneRequest

LEMMA OpenStreamInv ==
  ASSUME IInv, NEW r \in Requests, OpenStream(r)
  PROVE  IInv'
  <1> SUFFICES ASSUME TypeOK, StoresHoldMinted, RequestInv(r) PROVE IInv'
    BY DEF IInv
  <1> USE DEF RequestInv
  <1>1. TypeOK'
    <2>1. StoreTypes'
      BY DEF OpenStream, NoFault, TypeOK, StoreTypes
    <2>2. RequestTypes'
      BY DEF OpenStream, Goto, reqVars, answerVars, TypeOK, RequestTypes, Labels
    <2>3. ProcessTypes'
      BY DEF OpenStream, workerVars, TypeOK, ProcessTypes
    <2> QED BY <2>1, <2>2, <2>3 DEF TypeOK
  <1>2. StoresHoldMinted'
    BY StoresUntouched DEF OpenStream
  <1>3. RequestInv(r)'
    <2>1. Placed(r)' /\ SentIsText(r)' /\ TouchHasFound(r)'
      BY DEF OpenStream, Goto, reqVars, answerVars, TypeOK, RequestTypes, Placed,
             SentIsText, TouchHasFound
    <2>2. ReadyIsMasked(r)' /\ IndexHasMinted(r)'
      BY DEF OpenStream, Goto, reqVars, answerVars, TypeOK, RequestTypes, ReadyIsMasked,
             SentIsText, IndexHasMinted, NextMention, Raw
    <2>3. TextFromBody(r)'
      BY TextUntouched DEF OpenStream, reqVars
    <2>4. EchoesOwn(r)' /\ FoundWasSent(r)'
      <3>1. sent[r] = <<>>
        BY DEF OpenStream, SentIsText
      <3>2. found[r] = {} /\ \A i \in DOMAIN reply[r], n \in Nat : reply[r][i] # <<r, n>>
        BY <3>1 DEF FoundWasSent, EchoesOwn
      <3> QED BY <3>2 DEF OpenStream, answerVars, EchoesOwn, FoundWasSent
    <2> QED BY <2>1, <2>2, <2>3, <2>4
  <1>4. \A q \in Requests \ {r} : Same(q)
    BY DEF OpenStream, Goto, reqVars, answerVars, TypeOK, RequestTypes, Same
  <1> QED BY <1>1, <1>2, <1>3, <1>4, OneRequest

\* A token of r that is anywhere outside was sent by r itself.
LEMMA UpstreamReplyInv ==
  ASSUME IInv, NEW r \in Requests, UpstreamReply(r)
  PROVE  IInv'
  <1> SUFFICES ASSUME TypeOK, StoresHoldMinted, RequestInv(r) PROVE IInv'
    BY DEF IInv
  <1> USE DEF RequestInv
  <1>1. Outside \subseteq Tokens
    BY DEF Outside, TypeOK, RequestTypes
  <1>2. PICK a : /\ a = sent[r] \/ \E t \in Outside : a = <<t>>
                 /\ reply' = [reply EXCEPT ![r] = a]
    BY DEF UpstreamReply
  <1>3. ASSUME NEW t \in Outside, NEW n \in Nat, t = <<r, n>>
        PROVE  \E j \in DOMAIN sent[r] : sent[r][j] = t
    <2>0. PICK q \in Requests : \E j \in DOMAIN sent[q] : sent[q][j] = t /\ t \notin Values
      BY DEF Outside
    <2>1. PICK j : j \in DOMAIN sent[q] /\ sent[q][j] = t /\ t \notin Values
      BY <2>0
    <2>2. RequestInv(q)
      BY DEF IInv
    <2>3. sent[q] = text[q] /\ j \in DOMAIN text[q]
      BY <2>1, <2>2 DEF SentIsText, TypeOK, RequestTypes
    <2>4. body[q][j] \in Values
      BY <2>2, <2>3 DEF TextFromBody, TypeOK, RequestTypes
    <2>5. OwnToken(q, t, body[q][j])
      BY <2>1, <2>2, <2>3, <2>4 DEF TextFromBody
    <2>6. q = r
      BY <1>3, <2>5 DEF OwnToken
    <2> QED BY <2>1, <2>6
  <1>4. TypeOK'
    <2>1. StoreTypes'
      BY DEF UpstreamReply, NoFault, TypeOK, StoreTypes
    <2>2. RequestTypes'
      <3>1. a \in Seq(Values \cup Tokens)
        <4>1. CASE a = sent[r]
          BY <4>1 DEF TypeOK, RequestTypes
        <4>2. ASSUME NEW t \in Outside, a = <<t>> PROVE a \in Seq(Values \cup Tokens)
          BY <1>1, <4>2
        <4> QED BY <1>2, <4>1, <4>2
      <3> QED BY <1>2, <3>1
         DEF UpstreamReply, Goto, Restoring, reqVars, TypeOK, RequestTypes, Labels
    <2>3. ProcessTypes'
      BY ReleaseType DEF UpstreamReply, TypeOK, ProcessTypes
    <2> QED BY <2>1, <2>2, <2>3 DEF TypeOK
  <1>5. StoresHoldMinted'
    BY StoresUntouched DEF UpstreamReply
  <1>6. RequestInv(r)'
    <2>1. Placed(r)' /\ SentIsText(r)' /\ TouchHasFound(r)'
      BY DEF UpstreamReply, Goto, Restoring, reqVars, TypeOK, RequestTypes, Placed,
             SentIsText, TouchHasFound
    <2>2. ReadyIsMasked(r)' /\ IndexHasMinted(r)'
      BY DEF UpstreamReply, Goto, Restoring, reqVars, TypeOK, RequestTypes, ReadyIsMasked,
             SentIsText, IndexHasMinted, NextMention, Raw
    <2>3. TextFromBody(r)'
      BY TextUntouched DEF UpstreamReply, reqVars
    <2>4. EchoesOwn(r)' /\ FoundWasSent(r)'
      <3>1. reply'[r] = a /\ UNCHANGED <<sent, found, minted>>
        BY <1>2 DEF UpstreamReply, Goto, Restoring, reqVars, TypeOK, RequestTypes
      <3>2. ASSUME NEW i \in DOMAIN a, NEW n \in Nat, a[i] = <<r, n>>
            PROVE  \E j \in DOMAIN sent[r] : sent[r][j] = <<r, n>>
        BY <1>2, <1>3, <3>2
      <3> QED BY <3>1, <3>2 DEF EchoesOwn, FoundWasSent, OwnToken
    <2> QED BY <2>1, <2>2, <2>3, <2>4
  <1>7. \A q \in Requests \ {r} : Same(q)
    BY <1>2 DEF UpstreamReply, Goto, Restoring, reqVars, TypeOK, RequestTypes, Same
  <1> QED BY <1>4, <1>5, <1>6, <1>7, OneRequest

LEMMA UpstreamFailsInv ==
  ASSUME IInv, NEW r \in Requests, UpstreamFails(r)
  PROVE  IInv'
  <1> SUFFICES ASSUME TypeOK, StoresHoldMinted, RequestInv(r) PROVE IInv'
    BY DEF IInv
  <1> USE DEF RequestInv
  <1>1. worker[r] \in Workers
    BY DEF UpstreamFails, reqVars, Placed
  <1>2. TypeOK'
    <2>1. StoreTypes'
      BY DEF UpstreamFails, NoFault, TypeOK, StoreTypes
    <2>2. RequestTypes'
      BY <1>1, RaiseType
         DEF UpstreamFails, StreamEnds, Raise, Goto, reqVars, answerVars, TypeOK,
             RequestTypes, Labels
    <2>3. ProcessTypes'
      BY <1>1, RaiseType, ReleaseType
         DEF UpstreamFails, StreamEnds, Raise, TypeOK, ProcessTypes
    <2> QED BY <2>1, <2>2, <2>3 DEF TypeOK
  <1>3. StoresHoldMinted'
    BY StoresUntouched DEF UpstreamFails
  <1>4. RequestInv(r)'
    <2>1. Placed(r)' /\ SentIsText(r)' /\ TouchHasFound(r)'
      BY DEF UpstreamFails, StreamEnds, Raise, Goto, reqVars, answerVars, TypeOK,
             RequestTypes, Placed, SentIsText, TouchHasFound
    <2>2. ReadyIsMasked(r)' /\ IndexHasMinted(r)'
      BY DEF UpstreamFails, StreamEnds, Raise, Goto, reqVars, answerVars, TypeOK,
             RequestTypes, ReadyIsMasked, SentIsText, IndexHasMinted, NextMention, Raw
    <2>3. TextFromBody(r)'
      BY TextUntouched DEF UpstreamFails, reqVars
    <2>4. EchoesOwn(r)' /\ FoundWasSent(r)'
      BY AnswerUntouched DEF UpstreamFails, answerVars
    <2> QED BY <2>1, <2>2, <2>3, <2>4
  <1>5. \A q \in Requests \ {r} : Same(q)
    BY DEF UpstreamFails, StreamEnds, Raise, Goto, reqVars, answerVars, TypeOK,
           RequestTypes, Same
  <1> QED BY <1>2, <1>3, <1>4, <1>5, OneRequest

\* The entries found are r's own, for the token mentioned, so it was sent.
LEMMA RetrieveInv ==
  ASSUME IInv, NEW r \in Requests, Retrieve(r)
  PROVE  IInv'
  <1> SUFFICES ASSUME TypeOK, StoresHoldMinted, RequestInv(r) PROVE IInv'
    BY DEF IInv
  <1> USE DEF RequestInv
  <1> DEFINE rows == RetrieveRows(store[ShelfOf(r)], r, Mention(r))
             pairs == {<<x.token, x.value>> : x \in rows}
  <1>1. /\ pc[r] = "restore" /\ looked[r] + 1 \in DOMAIN reply[r] /\ worker[r] \in Workers
        /\ UNCHANGED <<worker, kind, body, text, minted, sent, reply, outcome>>
        /\ found' = [found EXCEPT ![r] = @ \cup pairs]
        /\ looked' = [looked EXCEPT ![r] = @ + 1]
        /\ \/ rows # {} /\ Goto(r, "touch")
           \/ UNCHANGED pc
    BY DEF Retrieve, Resumes, LookedUp, Goto, NoFault, reqVars, Placed, TypeOK,
           RequestTypes
  <1>2. ASSUME NEW x \in rows
        PROVE  /\ x.token = Mention(r) /\ x.token \in Tokens /\ x.value \in Values
               /\ OwnToken(r, x.token, x.value)
               /\ \E j \in DOMAIN sent[r] : sent[r][j] = x.token
    <2>1. ShelfOf(r) \in Shelves /\ store[ShelfOf(r)] \in Stores
      BY <1>1, ShelfType DEF TypeOK, StoreTypes, Shelves, ShelfOf
    <2>2. x \in Held(store[ShelfOf(r)]) /\ x \in Rows /\ x.session = r
          /\ x.token = Mention(r)
      BY <2>1, RetrieveRowsFacts
    <2>3. OwnToken(r, x.token, x.value)
      BY <2>1, <2>2, ShelfType DEF StoresHoldMinted
    <2>4. \E j \in DOMAIN sent[r] : sent[r][j] = x.token
      <3>1. PICK n \in Nat : x.token = <<r, n>>
        BY <2>3 DEF OwnToken, TypeOK, RequestTypes
      <3> QED BY <1>1, <2>2, <3>1 DEF EchoesOwn, Mention
    <2> QED BY <2>2, <2>3, <2>4 DEF Rows
  <1>3. pairs \subseteq Tokens \X Values
    BY <1>2
  <1>4. found'[r] = found[r] \cup pairs /\ looked'[r] = looked[r] + 1
    BY <1>1 DEF TypeOK, RequestTypes
  <1> HIDE DEF rows, pairs
  <1>5. TypeOK'
    <2>1. StoreTypes'
      BY DEF Retrieve, NoFault, TypeOK, StoreTypes
    <2>2. RequestTypes'
      <3>1. found[r] \cup pairs \in SUBSET (Tokens \X Values)
        BY <1>3 DEF TypeOK, RequestTypes
      <3>2. found' \in [Requests -> SUBSET (Tokens \X Values)]
        <4>1. found \in [Requests -> SUBSET (Tokens \X Values)]
          BY DEF TypeOK, RequestTypes
        <4> QED BY <1>1, <3>1, <4>1
      <3>3. pc' \in [Requests -> Labels]
        BY <1>1 DEF Goto, TypeOK, RequestTypes, Labels
      <3>4. looked' \in [Requests -> Nat]
        <4>1. looked \in [Requests -> Nat]
          BY DEF TypeOK, RequestTypes
        <4> QED BY <1>1, <4>1
      <3> HIDE DEF RequestInv
      <3> QED BY <1>1, <3>2, <3>3, <3>4 DEF TypeOK, RequestTypes
    <2>3. ProcessTypes'
      BY ReleaseType DEF Retrieve, TypeOK, ProcessTypes
    <2> QED BY <2>1, <2>2, <2>3 DEF TypeOK
  <1>6. StoresHoldMinted'
    BY StoresUntouched DEF Retrieve
  <1>7. RequestInv(r)'
    <2>1. Placed(r)' /\ SentIsText(r)' /\ TouchHasFound(r)'
      <3>1. Placed(r)' /\ SentIsText(r)'
        BY <1>1
           DEF Retrieve, LookedUp, Goto, reqVars, TypeOK, RequestTypes, Placed, SentIsText
      <3>2. CASE rows # {} /\ Goto(r, "touch")
        <4>1. PICK x \in rows : TRUE
          BY <3>2
        <4>2. <<x.token, x.value>> \in pairs
          BY DEF pairs
        <4>3. x.value \in Values /\ <<reply[r][looked[r] + 1], x.value>> \in found'[r]
          BY <1>2, <1>4, <4>2 DEF Mention
        <4> QED BY <1>1, <1>4, <3>1, <4>3 DEF TouchHasFound
      <3>3. CASE UNCHANGED pc
        BY <1>1, <3>1, <3>3 DEF TouchHasFound
      <3> QED BY <1>1, <3>1, <3>2, <3>3
    <2>2. ReadyIsMasked(r)' /\ IndexHasMinted(r)'
      BY DEF Retrieve, LookedUp, Goto, reqVars, TypeOK, RequestTypes, ReadyIsMasked,
             SentIsText, IndexHasMinted, NextMention, Raw
    <2>3. TextFromBody(r)'
      BY TextUntouched DEF Retrieve, reqVars
    <2>4. EchoesOwn(r)' /\ FoundWasSent(r)'
      <3>1. EchoesOwn(r)'
        BY <1>1 DEF EchoesOwn
      <3>2. ASSUME NEW p \in found'[r]
            PROVE  OwnToken(r, p[1], p[2]) /\ \E i \in DOMAIN sent[r] : sent[r][i] = p[1]
        BY <1>2, <1>4, <3>2 DEF FoundWasSent, pairs
      <3> QED BY <1>1, <3>1, <3>2 DEF FoundWasSent, OwnToken
    <2> QED BY <2>1, <2>2, <2>3, <2>4
  <1>8. \A q \in Requests \ {r} : Same(q)
    BY <1>1 DEF Retrieve, LookedUp, Goto, reqVars, TypeOK, RequestTypes, Same
  <1> QED BY <1>5, <1>6, <1>7, <1>8, OneRequest

LEMMA TouchInv ==
  ASSUME IInv, NEW r \in Requests, Touch(r)
  PROVE  IInv'
  <1> SUFFICES ASSUME TypeOK, StoresHoldMinted, RequestInv(r) PROVE IInv'
    BY DEF IInv
  <1> USE DEF RequestInv
  <1>1. worker[r] \in Workers /\ minted' = minted
    BY DEF Touch, reqVars, Placed
  <1>2. store' \in [Shelves -> Stores] /\ StoresHoldMinted' /\ stale' \subseteq stale
    BY <1>1, PutBackFacts DEF Touch
  <1>3. TypeOK'
    <2>1. StoreTypes'
      BY <1>2 DEF Touch, NoFault, TypeOK, StoreTypes, Shelves
    <2>2. RequestTypes'
      BY DEF Touch, Goto, reqVars, answerVars, TypeOK, RequestTypes, Labels
    <2>3. ProcessTypes'
      BY ReleaseType DEF Touch, TypeOK, ProcessTypes
    <2> QED BY <2>1, <2>2, <2>3 DEF TypeOK
  <1>4. StoresHoldMinted'
    BY <1>2
  <1>5. RequestInv(r)'
    <2>1. Placed(r)' /\ SentIsText(r)' /\ TouchHasFound(r)'
      BY DEF Touch, Goto, reqVars, answerVars, TypeOK, RequestTypes, Placed, SentIsText,
             TouchHasFound
    <2>2. ReadyIsMasked(r)' /\ IndexHasMinted(r)'
      BY DEF Touch, Goto, reqVars, answerVars, TypeOK, RequestTypes, ReadyIsMasked,
             SentIsText, IndexHasMinted, NextMention, Raw
    <2>3. TextFromBody(r)'
      BY TextUntouched DEF Touch, reqVars
    <2>4. EchoesOwn(r)' /\ FoundWasSent(r)'
      BY AnswerUntouched DEF Touch, answerVars
    <2> QED BY <2>1, <2>2, <2>3, <2>4
  <1>6. \A q \in Requests \ {r} : Same(q)
    BY DEF Touch, Goto, reqVars, answerVars, TypeOK, RequestTypes, Same
  <1> QED BY <1>3, <1>4, <1>5, <1>6, OneRequest

LEMMA RetrieveFailsInv ==
  ASSUME IInv, NEW r \in Requests, RetrieveFails(r)
  PROVE  IInv'
  <1> SUFFICES ASSUME TypeOK, StoresHoldMinted, RequestInv(r) PROVE IInv'
    BY DEF IInv
  <1> USE DEF RequestInv
  <1>1. worker[r] \in Workers
    BY DEF RetrieveFails, Resumes, reqVars, Placed
  <1>0. store' \in [Shelves -> Stores] /\ StoresHoldMinted' /\ stale' \subseteq stale
    <2>1. CASE UNCHANGED <<store, stale>>
      BY <2>1, StoresUntouched DEF RetrieveFails, TypeOK, StoreTypes, Shelves
    <2>2. CASE pc[r] = "touch" /\ PutBack(r)
      BY <1>1, <2>2, PutBackFacts DEF RetrieveFails
    <2> QED BY <2>1, <2>2 DEF RetrieveFails
  <1>2. /\ looked' = looked \/ LookedUp(r)
        /\ \/ UNCHANGED <<pc, outcome, running, metrics>>
           \/ StreamEnds(r, "error")
           \/ Raise(r) /\ UNCHANGED running
    BY DEF RetrieveFails
  <1>3. TypeOK'
    <2>1. StoreTypes'
      BY <1>0, FaultOnType
         DEF RetrieveFails, CanFail, TypeOK, StoreTypes, Shelves, Requests
    <2>2. RequestTypes'
      <3>1. looked' \in [Requests -> Nat]
        <4>1. looked \in [Requests -> Nat]
          BY DEF TypeOK, RequestTypes
        <4> QED BY <1>2, <4>1 DEF LookedUp
      <3>2. /\ pc' \in [Requests -> Labels]
            /\ outcome' \in [Requests -> {"none", "ok", "error"}]
        BY <1>1, <1>2, RaiseType DEF StreamEnds, Goto, TypeOK, RequestTypes, Labels
      <3> QED BY <3>1, <3>2 DEF RetrieveFails, reqVars, TypeOK, RequestTypes
    <2>3. ProcessTypes'
      BY <1>1, <1>2, RaiseType, ReleaseType
         DEF RetrieveFails, StreamEnds, TypeOK, ProcessTypes
    <2> QED BY <2>1, <2>2, <2>3 DEF TypeOK
  <1>4. StoresHoldMinted'
    BY <1>0
  <1>5. RequestInv(r)'
    <2>1. Placed(r)' /\ SentIsText(r)' /\ TouchHasFound(r)'
      BY DEF RetrieveFails, Resumes, LookedUp, StreamEnds, Raise, Goto, reqVars, TypeOK,
             RequestTypes, Placed, SentIsText, TouchHasFound
    <2>2. ReadyIsMasked(r)' /\ IndexHasMinted(r)'
      BY DEF RetrieveFails, LookedUp, StreamEnds, Raise, Goto, reqVars, TypeOK,
             RequestTypes, ReadyIsMasked, SentIsText, IndexHasMinted, NextMention, Raw
    <2>3. TextFromBody(r)'
      BY TextUntouched DEF RetrieveFails, reqVars
    <2>4. EchoesOwn(r)' /\ FoundWasSent(r)'
      BY AnswerUntouched DEF RetrieveFails
    <2> QED BY <2>1, <2>2, <2>3, <2>4
  <1>6. \A q \in Requests \ {r} : Same(q)
    BY DEF RetrieveFails, LookedUp, StreamEnds, Raise, Goto, reqVars, TypeOK, RequestTypes,
           Same
  <1> QED BY <1>3, <1>4, <1>5, <1>6, OneRequest

LEMMA RestoredInv ==
  ASSUME IInv, NEW r \in Requests, Restored(r)
  PROVE  IInv'
  <1> SUFFICES ASSUME TypeOK, StoresHoldMinted, RequestInv(r) PROVE IInv'
    BY DEF IInv
  <1> USE DEF RequestInv
  <1>1. worker[r] \in Workers
    BY DEF Restored, Resumes, reqVars, Placed
  <1>2. TypeOK'
    <2>1. StoreTypes'
      BY DEF Restored, NoFault, TypeOK, StoreTypes
    <2>2. RequestTypes'
      BY DEF Restored, StreamEnds, Goto, reqVars, answerVars, TypeOK, RequestTypes, Labels
    <2>3. ProcessTypes'
      BY <1>1, GaugeType, ReleaseType DEF Restored, StreamEnds, TypeOK, ProcessTypes
    <2> QED BY <2>1, <2>2, <2>3 DEF TypeOK
  <1>3. StoresHoldMinted'
    BY StoresUntouched DEF Restored
  <1>4. RequestInv(r)'
    <2>1. Placed(r)' /\ SentIsText(r)' /\ TouchHasFound(r)'
      BY DEF Restored, Resumes, StreamEnds, Goto, reqVars, answerVars, TypeOK, RequestTypes,
             Placed, SentIsText, TouchHasFound
    <2>2. ReadyIsMasked(r)' /\ IndexHasMinted(r)'
      BY DEF Restored, StreamEnds, Goto, reqVars, answerVars, TypeOK, RequestTypes,
             ReadyIsMasked, SentIsText, IndexHasMinted, NextMention, Raw
    <2>3. TextFromBody(r)'
      BY TextUntouched DEF Restored, reqVars
    <2>4. EchoesOwn(r)' /\ FoundWasSent(r)'
      BY AnswerUntouched DEF Restored, answerVars
    <2> QED BY <2>1, <2>2, <2>3, <2>4
  <1>5. \A q \in Requests \ {r} : Same(q)
    BY DEF Restored, StreamEnds, Goto, reqVars, answerVars, TypeOK, RequestTypes, Same
  <1> QED BY <1>2, <1>3, <1>4, <1>5, OneRequest

LEMMA EndSessionInv ==
  ASSUME IInv, NEW r \in Requests, EndSession(r)
  PROVE  IInv'
  <1> SUFFICES ASSUME TypeOK, StoresHoldMinted, RequestInv(r) PROVE IInv'
    BY DEF IInv
  <1> USE DEF RequestInv
  <1>4. store' \in [Shelves -> Stores] /\ StoresHoldMinted'
    BY DestroyFacts DEF EndSession, reqVars, Placed
  <1>5. TypeOK'
    <2>1. StoreTypes'
      BY <1>4 DEF EndSession, NoFault, TypeOK, StoreTypes, Shelves
    <2>2. RequestTypes'
      BY DEF EndSession, Goto, reqVars, answerVars, TypeOK, RequestTypes, Labels
    <2>3. ProcessTypes'
      BY ReleaseType DEF EndSession, TypeOK, ProcessTypes
    <2> QED BY <2>1, <2>2, <2>3 DEF TypeOK
  <1>6. StoresHoldMinted'
    BY <1>4
  <1>7. RequestInv(r)'
    <2>1. Placed(r)' /\ SentIsText(r)' /\ TouchHasFound(r)'
      BY DEF EndSession, Goto, reqVars, answerVars, TypeOK, RequestTypes, Placed,
             SentIsText, TouchHasFound
    <2>2. ReadyIsMasked(r)' /\ IndexHasMinted(r)'
      BY DEF EndSession, Goto, reqVars, answerVars, TypeOK, RequestTypes, ReadyIsMasked,
             SentIsText, IndexHasMinted, NextMention, Raw
    <2>3. TextFromBody(r)'
      BY TextUntouched DEF EndSession, reqVars
    <2>4. EchoesOwn(r)' /\ FoundWasSent(r)'
      BY AnswerUntouched DEF EndSession, answerVars
    <2> QED BY <2>1, <2>2, <2>3, <2>4
  <1>8. \A q \in Requests \ {r} : Same(q)
    BY DEF EndSession, Goto, reqVars, answerVars, TypeOK, RequestTypes, Same
  <1> QED BY <1>5, <1>6, <1>7, <1>8, OneRequest

LEMMA EndSessionFailsInv ==
  ASSUME IInv, NEW r \in Requests, EndSessionFails(r)
  PROVE  IInv'
  <1> SUFFICES ASSUME TypeOK, StoresHoldMinted, RequestInv(r) PROVE IInv'
    BY DEF IInv
  <1> USE DEF RequestInv
  <1>0. store' \in [Shelves -> Stores] /\ StoresHoldMinted'
    <2>1. CASE UNCHANGED store
      BY <2>1, StoresUntouched DEF EndSessionFails, TypeOK, StoreTypes, Shelves
    <2>2. CASE store' = [store EXCEPT ![ShelfOf(r)] = DestroySession(backend, @, r)]
      BY <2>2, DestroyFacts DEF EndSessionFails, reqVars, Placed
    <2> QED BY <2>1, <2>2 DEF EndSessionFails
  <1>1. TypeOK'
    <2>1. StoreTypes'
      BY <1>0, FaultOnType
         DEF EndSessionFails, CanFail, TypeOK, StoreTypes, Shelves, Requests
    <2>2. RequestTypes'
      BY DEF EndSessionFails, Goto, reqVars, answerVars, TypeOK, RequestTypes, Labels
    <2>3. ProcessTypes'
      BY ReleaseType DEF EndSessionFails, TypeOK, ProcessTypes
    <2> QED BY <2>1, <2>2, <2>3 DEF TypeOK
  <1>2. StoresHoldMinted'
    BY <1>0
  <1>3. RequestInv(r)'
    <2>1. Placed(r)' /\ SentIsText(r)' /\ TouchHasFound(r)'
      BY DEF EndSessionFails, Goto, reqVars, answerVars, TypeOK, RequestTypes, Placed,
             SentIsText, TouchHasFound
    <2>2. ReadyIsMasked(r)' /\ IndexHasMinted(r)'
      BY DEF EndSessionFails, Goto, reqVars, answerVars, TypeOK, RequestTypes,
             ReadyIsMasked, SentIsText, IndexHasMinted, NextMention, Raw
    <2>3. TextFromBody(r)'
      BY TextUntouched DEF EndSessionFails, reqVars
    <2>4. EchoesOwn(r)' /\ FoundWasSent(r)'
      BY AnswerUntouched DEF EndSessionFails, answerVars
    <2> QED BY <2>1, <2>2, <2>3, <2>4
  <1>4. \A q \in Requests \ {r} : Same(q)
    BY DEF EndSessionFails, Goto, reqVars, answerVars, TypeOK, RequestTypes, Same
  <1> QED BY <1>1, <1>2, <1>3, <1>4, OneRequest
-----------------------------------------------------------------------------
(* Steps of nobody's request.                                               *)

LEMMA NoRequest ==
  ASSUME IInv, TypeOK', StoresHoldMinted', \A q \in Requests : Same(q)
  PROVE  IInv'
  BY SameKeeps DEF IInv

LEMMA AdminDeleteInv ==
  ASSUME IInv, NEW w \in Workers, NEW s \in Sessions, AdminDelete(w, s)
  PROVE  IInv'
  <1> DEFINE h == Shelf(w)
             st == DestroySession(backend, store[h], s)
  <1>1. TypeOK /\ StoresHoldMinted
    BY DEF IInv
  <1>2. h \in Shelves /\ store[h] \in Stores
    BY <1>1, ShelfType DEF TypeOK, StoreTypes, Shelves
  <1>3. st \in Stores /\ Held(st) \subseteq Held(store[h])
    BY <1>2, DestroySessionFacts
  <1>4. store' = [store EXCEPT ![h] = st] /\ minted' = minted
        /\ forgotten' = forgotten \cup {x.token : x \in store[h].rows \ st.rows}
    BY DEF AdminDelete
  <1>5. forgotten' \subseteq Tokens
    BY <1>1, <1>2, <1>4 DEF TypeOK, StoreTypes, Stores, Rows
  <1> HIDE DEF h, st
  <1>6. store' \in [Shelves -> Stores] /\ StoresHoldMinted'
    BY <1>1, <1>2, <1>3, <1>4, OneStoreShrinks
  <1>7. StoreTypes'
    BY <1>1, <1>5, <1>6, FaultOnType DEF AdminDelete, TypeOK, StoreTypes, Shelves
  <1>8. RequestTypes' /\ ProcessTypes'
    BY <1>1 DEF AdminDelete, reqVars, answerVars, TypeOK, RequestTypes, ProcessTypes
  <1>9. \A q \in Requests : Same(q)
    BY DEF AdminDelete, reqVars, answerVars, Same
  <1> QED BY <1>6, <1>7, <1>8, <1>9, NoRequest DEF TypeOK

LEMMA CleanupInv ==
  ASSUME IInv, NEW w \in Workers, Cleanup(w)
  PROVE  IInv'
  <1> DEFINE st == PurgeExpired(backend, store[DaemonShelf], stale)
  <1>1. TypeOK /\ StoresHoldMinted
    BY DEF IInv
  <1>2. DaemonShelf \in Shelves /\ store[DaemonShelf] \in Stores
    BY <1>1, ShelfType DEF TypeOK, StoreTypes, Shelves
  <1>3. st \in Stores /\ Held(st) \subseteq Held(store[DaemonShelf])
    BY <1>2, PurgeExpiredFacts
  <1>4. store' = [store EXCEPT ![DaemonShelf] = st] /\ minted' = minted
    BY DEF Cleanup
  <1> HIDE DEF st
  <1>5. store' \in [Shelves -> Stores] /\ StoresHoldMinted'
    BY <1>1, <1>2, <1>3, <1>4, OneStoreShrinks
  <1>6. TypeOK'
    BY <1>1, <1>5 DEF Cleanup, NoFault, reqVars, answerVars, workerVars, TypeOK, StoreTypes,
                      Shelves, RequestTypes, ProcessTypes
  <1>7. \A q \in Requests : Same(q)
    BY DEF Cleanup, reqVars, answerVars, Same
  <1> QED BY <1>5, <1>6, <1>7, NoRequest

LEMMA TtlElapsesInv ==
  ASSUME IInv, NEW s \in Sessions, TtlElapses(s)
  PROVE  IInv'
  <1>1. TypeOK'
    BY DEF IInv, TtlElapses, reqVars, answerVars, workerVars, TypeOK, StoreTypes,
           RequestTypes, ProcessTypes
  <1>2. StoresHoldMinted'
    BY StoresUntouched DEF IInv, TtlElapses
  <1>3. \A q \in Requests : Same(q)
    BY DEF TtlElapses, reqVars, answerVars, Same
  <1> QED BY <1>1, <1>2, <1>3, NoRequest

LEMMA RedisExpiresInv ==
  ASSUME IInv, NEW s \in Sessions, RedisExpires(s)
  PROVE  IInv'
  <1> DEFINE st == DestroySession(backend, store["shared"], s)
  <1>1. TypeOK /\ StoresHoldMinted
    BY DEF IInv
  <1>2. "shared" \in Shelves /\ store["shared"] \in Stores
    BY <1>1 DEF TypeOK, StoreTypes, Shelves
  <1>3. st \in Stores /\ Held(st) \subseteq Held(store["shared"])
    BY <1>2, DestroySessionFacts
  <1>4. store' = [store EXCEPT !["shared"] = st] /\ minted' = minted
    BY DEF RedisExpires
  <1> HIDE DEF st
  <1>5. store' \in [Shelves -> Stores] /\ StoresHoldMinted'
    BY <1>1, <1>2, <1>3, <1>4, OneStoreShrinks
  <1>6. TypeOK'
    BY <1>1, <1>5 DEF RedisExpires, NoFault, reqVars, answerVars, workerVars, TypeOK,
                      StoreTypes, Shelves, RequestTypes, ProcessTypes
  <1>7. \A q \in Requests : Same(q)
    BY DEF RedisExpires, reqVars, answerVars, Same
  <1> QED BY <1>5, <1>6, <1>7, NoRequest

\* A request that is lost keeps what was true of its text and its answer.
LEMMA CrashInv ==
  ASSUME IInv, NEW w \in Workers, Crash(w)
  PROVE  IInv'
  <1> DEFINE gone == {r \in Requests : worker[r] = w /\ pc[r] \notin {"new", "done"}}
  <1>1. TypeOK /\ StoresHoldMinted
    BY DEF IInv
  <1>2. NewStore \in Stores /\ Held(NewStore) \subseteq Held(store[w]) /\ w \in Shelves
    BY NewStoreFacts DEF Shelves
  <1>3. store' = [store EXCEPT ![w] = NewStore] /\ minted' = minted
    BY DEF Crash
  <1>4. store' \in [Shelves -> Stores] /\ StoresHoldMinted'
    BY <1>1, <1>2, <1>3, OneStoreShrinks
  <1>5. NewBreaker \in Breakers /\ NewMetrics \in Gauges
    BY BreakerAssumption DEF NewBreaker, Breakers, CircuitStates, NewMetrics, Gauges
  <1>6. TypeOK'
    <2>1. StoreTypes'
      BY <1>1, <1>4, GatewayAssumption DEF Crash, TypeOK, StoreTypes, Shelves, Requests
    <2>2. RequestTypes'
      BY <1>1 DEF Crash, reqVars, answerVars, TypeOK, RequestTypes, Labels
    <2>3. ProcessTypes'
      BY <1>1, <1>5 DEF Crash, TypeOK, ProcessTypes
    <2> QED BY <2>1, <2>2, <2>3 DEF TypeOK
  <1>7. ASSUME NEW q \in Requests
        PROVE  RequestInv(q)'
    <2>1. RequestInv(q)
      BY DEF IInv
    <2>2. CASE q \notin gone
      <3>1. Same(q)
        BY <1>1, <2>2 DEF Crash, reqVars, answerVars, Same, TypeOK, RequestTypes
      <3> QED BY <2>1, <3>1, SameKeeps
    <2>3. CASE q \in gone
      <3>1. pc[q] # "new" /\ pc'[q] = "lost"
        BY <2>3 DEF Crash
      <3>2. Placed(q)' /\ SentIsText(q)' /\ ReadyIsMasked(q)' /\ TouchHasFound(q)'
            /\ IndexHasMinted(q)'
        BY <2>1, <3>1 DEF Crash, reqVars, answerVars, RequestInv, Placed, SentIsText,
                          ReadyIsMasked, TouchHasFound, IndexHasMinted, Raw
      <3>3. TextFromBody(q)' /\ EchoesOwn(q)' /\ FoundWasSent(q)'
        BY <2>1, TextUntouched, AnswerUntouched DEF Crash, reqVars, answerVars, RequestInv
      <3> QED BY <3>2, <3>3 DEF RequestInv
    <2> QED BY <2>2, <2>3
  <1> QED BY <1>4, <1>6, <1>7 DEF IInv

LEMMA TickInv ==
  ASSUME IInv, Tick
  PROVE  IInv'
  <1>1. TypeOK'
    <2>1. StoreTypes' /\ RequestTypes'
      BY DEF IInv, Tick, NoFault, reqVars, answerVars, TypeOK, StoreTypes, RequestTypes
    <2>2. ProcessTypes'
      BY AgedFields DEF IInv, Tick, TypeOK, ProcessTypes
    <2> QED BY <2>1, <2>2 DEF TypeOK
  <1>2. StoresHoldMinted'
    BY StoresUntouched DEF IInv, Tick
  <1>3. \A q \in Requests : Same(q)
    BY DEF Tick, reqVars, answerVars, Same
  <1> QED BY <1>1, <1>2, <1>3, NoRequest

LEMMA StutterInv ==
  ASSUME IInv, UNCHANGED vars
  PROVE  IInv'
  <1>1. TypeOK'
    BY DEF IInv, vars, answerVars, TypeOK, StoreTypes, RequestTypes, ProcessTypes
  <1>2. StoresHoldMinted'
    BY StoresUntouched DEF IInv, vars
  <1>3. \A q \in Requests : Same(q)
    BY DEF vars, answerVars, Same
  <1> QED BY <1>1, <1>2, <1>3, NoRequest
-----------------------------------------------------------------------------
LEMMA InitInv == Init => IInv
  <1> SUFFICES ASSUME Init PROVE IInv
    OBVIOUS
  <1>1. NewBreaker \in Breakers /\ NewMetrics \in Gauges
    BY BreakerAssumption DEF NewBreaker, Breakers, CircuitStates, NewMetrics, Gauges
  <1>2. TypeOK
    BY <1>1, NewStoreFacts, GatewayAssumption
       DEF Init, TypeOK, StoreTypes, RequestTypes, ProcessTypes, Labels
  <1>3. StoresHoldMinted
    BY NewStoreFacts DEF Init, StoresHoldMinted
  <1>4. \A r \in Requests : RequestInv(r)
    BY DEF Init, RequestInv, Placed, TextFromBody, SentIsText, ReadyIsMasked, EchoesOwn,
           FoundWasSent, TouchHasFound, IndexHasMinted
  <1> QED BY <1>2, <1>3, <1>4 DEF IInv

LEMMA NextInv == IInv /\ [Next]_vars => IInv'
  <1> SUFFICES ASSUME IInv, [Next]_vars PROVE IInv'
    OBVIOUS
  <1>1. ASSUME NEW r \in Requests, Goes(r)
        PROVE  IInv'
    BY <1>1, ArriveRaisesInv, ArriveInv, CheckInv, ReuseTokenInv, MintTokenInv,
       IndexTokenInv,
       MaskRaisesInv, MaskDoneInv, AuditRaisesInv, ForwardInv, OpenStreamInv,
       UpstreamReplyInv, UpstreamFailsInv, RetrieveInv, TouchInv, RetrieveFailsInv,
       RestoredInv, EndSessionInv, EndSessionFailsInv, TtlElapsesInv, RedisExpiresInv
       DEF Goes, Requests
  <1> QED BY <1>1, AdminDeleteInv, CleanupInv, CrashInv, TickInv, StutterInv DEF Next

LEMMA AlwaysIInv == Spec => []IInv
  BY InitInv, NextInv, PTL DEF Spec

\* Whatever the handlers, the faults, the operator and time do, every variable
\* of the request path keeps its type.
THEOREM WellTyped == Spec => []TypeOK
  <1>1. IInv => TypeOK
    BY DEF IInv
  <1> QED BY <1>1, AlwaysIInv, PTL

LEMMA InvIsolates == IInv => FaithfulRestoration
  <1> SUFFICES ASSUME IInv, NEW r \in Requests, NEW p \in found[r]
               PROVE  /\ \E i \in DOMAIN sent[r] : sent[r][i] = p[1]
                      /\ \A i \in DOMAIN sent[r] : sent[r][i] = p[1] => body[r][i] = p[2]
    BY DEF FaithfulRestoration
  <1>1. TypeOK /\ RequestInv(r)
    BY DEF IInv
  <1>2. OwnToken(r, p[1], p[2]) /\ \E i \in DOMAIN sent[r] : sent[r][i] = p[1]
    BY <1>1 DEF RequestInv, FoundWasSent
  <1>3. ASSUME NEW i \in DOMAIN sent[r], sent[r][i] = p[1]
        PROVE  body[r][i] = p[2]
    <2>1. sent[r] = text[r] /\ i \in DOMAIN text[r] /\ i \in DOMAIN body[r]
      BY <1>1, <1>3 DEF RequestInv, SentIsText, TextFromBody, TypeOK, RequestTypes
    <2>2. text[r][i] = body[r][i] \/ OwnToken(r, p[1], body[r][i])
      BY <1>1, <1>3, <2>1 DEF RequestInv, TextFromBody
    <2>3. text[r][i] # body[r][i]
      <3>1. p[1] \notin Values
        BY <1>1, <1>2, OwnTokenType
      <3>2. body[r][i] \in Values
        BY <1>1, <2>1 DEF TypeOK, RequestTypes
      <3> QED BY <1>3, <2>1, <3>1, <3>2
    <2> QED BY <1>2, <2>2, <2>3 DEF OwnToken
  <1> QED BY <1>2, <1>3

\* Session isolation, for any number of sessions, workers and faults and on
\* every backend: a lookup for the answer to a request finds nothing but a token
\* of this request's own text and the very value it replaced there.
THEOREM Isolation == Spec => []FaithfulRestoration
  BY AlwaysIInv, InvIsolates, PTL

LEMMA InvMasks == IInv => MaskedBeforeSent
  <1> SUFFICES ASSUME IInv, NEW r \in Requests, kind[r] # "list", NEW i \in DOMAIN sent[r]
               PROVE  sent[r][i] \notin Values
    BY DEF MaskedBeforeSent
  <1>1. sent[r] = text[r] /\ Raw(r) = {}
    BY DEF IInv, RequestInv, SentIsText, ReadyIsMasked, TypeOK, RequestTypes
  <1> QED BY <1>1 DEF Raw

\* Fail closed: whatever raises, fails, crashes or is cut short, no detected
\* value leaves through an endpoint that masks.
THEOREM NothingRawLeaves == Spec => []MaskedBeforeSent
  BY AlwaysIInv, InvMasks, PTL
-----------------------------------------------------------------------------
(* The request path implements the promise of PrivacyBoundary: a step of the *)
(* gateway asks, sends, answers or delivers for one request as the promise    *)
(* allows, or changes nothing that can be seen from outside.                  *)

\* What IInv does not say: a request that has not arrived has nothing, an
\* answer does not come before its request is sent, and lists are not touched.
NewIsEmpty(r) == pc[r] = "new" => body[r] = <<>> /\ text[r] = <<>>

ReplyComesLate(r) ==
  reply[r] # <<>> =>
    /\ pc[r] \in {"restore", "touch", "ending", "done", "lost"}
    /\ pc[r] = "ending" => kind[r] # "stream"

ListAsItCame(r) ==
  kind[r] = "list" => pc[r] \notin {"check", "mask", "index"} /\ text[r] = body[r]

OuterInv(r) == NewIsEmpty(r) /\ ReplyComesLate(r) /\ ListAsItCame(r)

BInv == IInv /\ \A r \in Requests : OuterInv(r)

\* Nothing of r that can be seen from outside changes.
Calm(r) ==
  /\ body'[r] = body[r] /\ Sent(r)' = Sent(r)
  /\ Answered(r)' = Answered(r) /\ Delivered(r)' = Delivered(r)

LEMMA SameIsCalm ==
  ASSUME NEW q \in Requests, Same(q)
  PROVE  Calm(q) /\ (OuterInv(q) => OuterInv(q)')
  <1>1. Shown(q)' = Shown(q)
    BY DEF Same, Shown
  <1>2. Calm(q)
    BY <1>1 DEF Same, Calm, Sent, Answered, Delivered
  <1>3. OuterInv(q) => OuterInv(q)'
    BY DEF Same, OuterInv, NewIsEmpty, ReplyComesLate, ListAsItCame
  <1> QED BY <1>2, <1>3
-----------------------------------------------------------------------------
(* The four steps of the promise, from what changes for one request.        *)

LEMMA AllCalm ==
  ASSUME TypeOK, TypeOK', \A q \in Requests : Calm(q)
  PROVE  UNCHANGED Boundary!vars
  <1>1. body' = body
    BY DEF TypeOK, RequestTypes, Calm
  <1>2. [q \in Requests |-> Sent(q)]' = [q \in Requests |-> Sent(q)]
    BY DEF Calm
  <1>3. [q \in Requests |-> Answered(q)]' = [q \in Requests |-> Answered(q)]
    BY DEF Calm
  <1>4. [q \in Requests |-> Delivered(q)]' = [q \in Requests |-> Delivered(q)]
    BY DEF Calm
  <1> QED BY <1>1, <1>2, <1>3, <1>4 DEF Boundary!vars

LEMMA Asks ==
  ASSUME TypeOK, TypeOK', NEW r \in Requests, \A q \in Requests \ {r} : Calm(q),
         body[r] = <<>>, Sent(r)' = Sent(r), Answered(r)' = Answered(r),
         Delivered(r)' = Delivered(r)
  PROVE  Boundary!Ask(r)
  <1>1. body' = [body EXCEPT ![r] = body'[r]]
    BY DEF TypeOK, RequestTypes, Calm
  <1>2. {body'[r][i] : i \in DOMAIN body'[r]} \subseteq Values
    BY DEF TypeOK, RequestTypes
  <1>3. [q \in Requests |-> Sent(q)]' = [q \in Requests |-> Sent(q)]
    BY DEF Calm
  <1>4. [q \in Requests |-> Answered(q)]' = [q \in Requests |-> Answered(q)]
    BY DEF Calm
  <1>5. [q \in Requests |-> Delivered(q)]' = [q \in Requests |-> Delivered(q)]
    BY DEF Calm
  <1> QED BY <1>1, <1>2, <1>3, <1>4, <1>5
     DEF Boundary!Ask, Boundary!Changes, Boundary!Mentioned

LEMMA SendsMasked ==
  ASSUME TypeOK, TypeOK', NEW r \in Requests, \A q \in Requests \ {r} : Calm(q),
         body'[r] = body[r], Sent(r) = <<>>, Boundary!Masks(r, Sent(r)'),
         Answered(r)' = Answered(r), Delivered(r)' = Delivered(r)
  PROVE  Boundary!Send(r)
  <1> DEFINE out == [q \in Requests |-> Sent(q)]
  <1>1. body' = body
    BY DEF TypeOK, RequestTypes, Calm
  <1>2. out' = [out EXCEPT ![r] = out'[r]] /\ out[r] = <<>> /\ out'[r] = Sent(r)'
    BY DEF Calm
  <1>3. [q \in Requests |-> Answered(q)]' = [q \in Requests |-> Answered(q)]
    BY DEF Calm
  <1>4. [q \in Requests |-> Delivered(q)]' = [q \in Requests |-> Delivered(q)]
    BY DEF Calm
  <1> QED BY <1>1, <1>2, <1>3, <1>4 DEF Boundary!Send, Boundary!Changes

LEMMA AnswersKnown ==
  ASSUME TypeOK, TypeOK', NEW r \in Requests, \A q \in Requests \ {r} : Calm(q),
         body'[r] = body[r], Sent(r)' = Sent(r), Answered(r) = <<>>,
         \A i \in DOMAIN Answered(r)' :
           \E s \in Requests : \E j \in DOMAIN Sent(s) : Answered(r)'[i] = Sent(s)[j],
         Delivered(r)' = Delivered(r)
  PROVE  Boundary!Answer(r)
  <1> DEFINE out == [q \in Requests |-> Sent(q)]
             answer == [q \in Requests |-> Answered(q)]
  <1>1. body' = body
    BY DEF TypeOK, RequestTypes, Calm
  <1>2. out' = out
    BY DEF Calm
  <1>3. answer' = [answer EXCEPT ![r] = answer'[r]] /\ answer[r] = <<>>
        /\ answer'[r] = Answered(r)'
    BY DEF Calm
  <1>4. [q \in Requests |-> Delivered(q)]' = [q \in Requests |-> Delivered(q)]
    BY DEF Calm
  <1>5. {answer'[r][i] : i \in DOMAIN answer'[r]} \subseteq
          UNION {{out[s][j] : j \in DOMAIN out[s]} : s \in Requests}
    BY <1>3
  <1> QED BY <1>1, <1>2, <1>3, <1>4, <1>5
     DEF Boundary!Answer, Boundary!Changes, Boundary!Mentioned

LEMMA DeliversRestored ==
  ASSUME TypeOK, TypeOK', NEW r \in Requests, \A q \in Requests \ {r} : Calm(q),
         body'[r] = body[r], Sent(r)' = Sent(r), Answered(r)' = Answered(r),
         Delivered(r) = <<>>, Boundary!Unmasks(r, Delivered(r)')
  PROVE  Boundary!Deliver(r)
  <1> DEFINE shown == [q \in Requests |-> Delivered(q)]
  <1>1. body' = body
    BY DEF TypeOK, RequestTypes, Calm
  <1>2. [q \in Requests |-> Sent(q)]' = [q \in Requests |-> Sent(q)]
    BY DEF Calm
  <1>3. [q \in Requests |-> Answered(q)]' = [q \in Requests |-> Answered(q)]
    BY DEF Calm
  <1>4. shown' = [shown EXCEPT ![r] = shown'[r]] /\ shown[r] = <<>>
        /\ shown'[r] = Delivered(r)'
    BY DEF Calm
  <1> QED BY <1>1, <1>2, <1>3, <1>4 DEF Boundary!Deliver, Boundary!Changes
-----------------------------------------------------------------------------
(* What a step of the gateway comes to outside, and the invariant with it.  *)

Promised == [Boundary!Next]_(Boundary!vars) /\ \A q \in Requests : OuterInv(q)'

\* A step that is the whole of request r as far as anyone outside can tell.
Alone(r) == TypeOK' /\ OuterInv(r)' /\ \A q \in Requests \ {r} : Same(q)

LEMMA OthersCalm ==
  ASSUME BInv, NEW r \in Requests, Alone(r)
  PROVE  /\ TypeOK /\ TypeOK' /\ \A q \in Requests \ {r} : Calm(q)
         /\ \A q \in Requests : OuterInv(q)'
  BY SameIsCalm DEF BInv, IInv, Alone

\* What is delivered has a value of this request at most where the answer
\* mentions the token that stands for it.
LEMMA ShownUnmasks ==
  ASSUME IInv, NEW r \in Requests, kind[r] # "list"
  PROVE  Boundary!Unmasks(r, Shown(r))
  <1>1. Sent(r) = sent[r] /\ Answered(r) = reply[r]
    BY DEF Sent, Answered
  <1>2. ASSUME NEW i \in DOMAIN reply[r]
        PROVE  \/ Shown(r)[i] = reply[r][i]
               \/ \E k \in DOMAIN sent[r] :
                    sent[r][k] = reply[r][i] /\ Shown(r)[i] = body[r][k]
    <2>1. CASE \E p \in found[r] : p[1] = reply[r][i]
      <3>1. PICK p \in found[r] : p[1] = reply[r][i] /\ Shown(r)[i] = p[2]
        <4> DEFINE p == CHOOSE p \in found[r] : p[1] = reply[r][i]
        <4>1. p \in found[r] /\ p[1] = reply[r][i]
          BY <2>1
        <4>2. Shown(r)[i] = p[2]
          BY <2>1 DEF Shown
        <4> QED BY <4>1, <4>2
      <3> QED BY <3>1, InvIsolates DEF FaithfulRestoration
    <2>2. CASE ~ \E p \in found[r] : p[1] = reply[r][i]
      BY <2>2 DEF Shown
    <2> QED BY <2>1, <2>2
  <1>3. DOMAIN Shown(r) = DOMAIN reply[r]
    BY DEF Shown
  <1> QED BY <1>1, <1>2, <1>3 DEF Boundary!Unmasks

\* A request whose text and answer stay as they are delivers, if anything.
LEMMA QuietStep ==
  ASSUME BInv, NEW r \in Requests, Alone(r), pc[r] # "done",
         kind'[r] = kind[r], body'[r] = body[r], sent'[r] = sent[r],
         reply'[r] = reply[r], found'[r] = found[r]
  PROVE  Promised
  <1>1. Sent(r)' = Sent(r) /\ Answered(r)' = Answered(r) /\ Shown(r)' = Shown(r)
    BY DEF Sent, Answered, Shown
  <1>2. Delivered(r) = <<>>
    BY DEF Delivered
  <1>3. CASE Delivered(r)' = <<>>
    <2>1. Calm(r)
      BY <1>1, <1>2, <1>3 DEF Calm
    <2> QED BY <2>1, OthersCalm, AllCalm DEF Promised
  <1>4. CASE Delivered(r)' # <<>>
    <2>1. kind[r] # "list" /\ Delivered(r)' = Shown(r)
      BY <1>1, <1>4 DEF Delivered, Restoring
    <2>2. Boundary!Unmasks(r, Delivered(r)')
      BY <2>1, ShownUnmasks DEF BInv
    <2>3. Boundary!Deliver(r)
      BY <1>1, <1>2, <2>2, OthersCalm, DeliversRestored
    <2> QED BY <2>3, OthersCalm DEF Promised, Boundary!Next
  <1> QED BY <1>3, <1>4

LEMMA CalmStep ==
  ASSUME BInv, NEW r \in Requests, Alone(r), Calm(r)
  PROVE  Promised
  BY OthersCalm, AllCalm DEF Promised
-----------------------------------------------------------------------------
(* The actions, one after the other.                                        *)

LEMMA OuterTypes ==
  ASSUME BInv, NEW r \in Requests
  PROVE  TypeOK /\ RequestTypes /\ RequestInv(r) /\ OuterInv(r)
  BY DEF BInv, IInv, TypeOK

LEMMA CheckKeeps ==
  ASSUME BInv, TypeOK', NEW r \in Requests, Check(r)
  PROVE  Promised
  <1>1. TypeOK /\ RequestTypes /\ OuterInv(r)
    BY OuterTypes
  <1>2. \A q \in Requests \ {r} : Same(q)
    BY <1>1 DEF Check, Raise, Goto, reqVars, answerVars, RequestTypes, Same
  <1>3. OuterInv(r)'
    BY <1>1
       DEF Check, Raise, Goto, reqVars, answerVars, RequestTypes, OuterInv, NewIsEmpty,
           ReplyComesLate, ListAsItCame
  <1>4. pc[r] # "done" /\ UNCHANGED <<kind, body, sent, reply, found>>
    BY DEF Check, reqVars, answerVars
  <1> QED BY <1>2, <1>3, <1>4, QuietStep DEF Alone

LEMMA ReuseTokenKeeps ==
  ASSUME BInv, TypeOK', NEW r \in Requests, ReuseToken(r)
  PROVE  Promised
  <1>1. TypeOK /\ RequestTypes /\ OuterInv(r)
    BY OuterTypes
  <1>2. \A q \in Requests \ {r} : Same(q)
    BY <1>1 DEF ReuseToken, Replace, reqVars, answerVars, RequestTypes, Same
  <1>3. OuterInv(r)'
    BY <1>1
       DEF ReuseToken, Replace, reqVars, answerVars, RequestTypes, OuterInv, NewIsEmpty,
           ReplyComesLate, ListAsItCame
  <1>4. pc[r] # "done" /\ UNCHANGED <<kind, body, sent, reply, found>>
    BY DEF ReuseToken, reqVars, answerVars
  <1> QED BY <1>2, <1>3, <1>4, QuietStep DEF Alone

LEMMA MintTokenKeeps ==
  ASSUME BInv, TypeOK', NEW r \in Requests, MintToken(r)
  PROVE  Promised
  <1>1. TypeOK /\ RequestTypes /\ OuterInv(r)
    BY OuterTypes
  <1>2. \A q \in Requests \ {r} : Same(q)
    BY <1>1 DEF MintToken, Mint, Replace, Goto, reqVars, answerVars, RequestTypes, Same
  <1>3. OuterInv(r)'
    BY <1>1
       DEF MintToken, Mint, Replace, Goto, reqVars, answerVars, RequestTypes, OuterInv,
           NewIsEmpty, ReplyComesLate, ListAsItCame
  <1>4. pc[r] # "done" /\ UNCHANGED <<kind, body, sent, reply, found>>
    BY DEF MintToken, reqVars, answerVars
  <1> QED BY <1>2, <1>3, <1>4, QuietStep DEF Alone

LEMMA IndexTokenKeeps ==
  ASSUME BInv, TypeOK', NEW r \in Requests, IndexToken(r)
  PROVE  Promised
  <1>1. TypeOK /\ RequestTypes /\ OuterInv(r)
    BY OuterTypes
  <1>2. \A q \in Requests \ {r} : Same(q)
    BY <1>1 DEF IndexToken, Replace, Goto, reqVars, answerVars, RequestTypes, Same
  <1>3. OuterInv(r)'
    BY <1>1
       DEF IndexToken, Replace, Goto, reqVars, answerVars, RequestTypes, OuterInv,
           NewIsEmpty, ReplyComesLate, ListAsItCame
  <1>4. pc[r] # "done" /\ UNCHANGED <<kind, body, sent, reply, found>>
    BY DEF IndexToken, reqVars, answerVars
  <1> QED BY <1>2, <1>3, <1>4, QuietStep DEF Alone

LEMMA MaskRaisesKeeps ==
  ASSUME BInv, TypeOK', NEW r \in Requests, MaskRaises(r)
  PROVE  Promised
  <1>1. TypeOK /\ RequestTypes /\ OuterInv(r)
    BY OuterTypes
  <1>2. \A q \in Requests \ {r} : Same(q)
    BY <1>1 DEF MaskRaises, Mint, Raise, Goto, reqVars, answerVars, RequestTypes, Same
  <1>3. OuterInv(r)'
    BY <1>1
       DEF MaskRaises, Mint, Raise, Goto, reqVars, answerVars, RequestTypes, OuterInv,
           NewIsEmpty, ReplyComesLate, ListAsItCame
  <1>4. pc[r] # "done" /\ UNCHANGED <<kind, body, sent, reply, found>>
    BY DEF MaskRaises, reqVars, answerVars
  <1> QED BY <1>2, <1>3, <1>4, QuietStep DEF Alone

LEMMA MaskDoneKeeps ==
  ASSUME BInv, TypeOK', NEW r \in Requests, MaskDone(r)
  PROVE  Promised
  <1>1. TypeOK /\ RequestTypes /\ OuterInv(r)
    BY OuterTypes
  <1>2. \A q \in Requests \ {r} : Same(q)
    BY <1>1 DEF MaskDone, Goto, reqVars, answerVars, RequestTypes, Same
  <1>3. OuterInv(r)'
    BY <1>1 DEF MaskDone, Goto, reqVars, answerVars, RequestTypes, OuterInv, NewIsEmpty,
                ReplyComesLate, ListAsItCame
  <1>4. pc[r] # "done" /\ UNCHANGED <<kind, body, sent, reply, found>>
    BY DEF MaskDone, reqVars, answerVars
  <1> QED BY <1>2, <1>3, <1>4, QuietStep DEF Alone

LEMMA AuditRaisesKeeps ==
  ASSUME BInv, TypeOK', NEW r \in Requests, AuditRaises(r)
  PROVE  Promised
  <1>1. TypeOK /\ RequestTypes /\ OuterInv(r)
    BY OuterTypes
  <1>2. \A q \in Requests \ {r} : Same(q)
    BY <1>1 DEF AuditRaises, Raise, Goto, reqVars, answerVars, RequestTypes, Same
  <1>3. OuterInv(r)'
    BY <1>1
       DEF AuditRaises, Raise, Goto, reqVars, answerVars, RequestTypes, OuterInv,
           NewIsEmpty, ReplyComesLate, ListAsItCame
  <1>4. pc[r] # "done" /\ UNCHANGED <<kind, body, sent, reply, found>>
    BY DEF AuditRaises, reqVars, answerVars
  <1> QED BY <1>2, <1>3, <1>4, QuietStep DEF Alone

LEMMA UpstreamFailsKeeps ==
  ASSUME BInv, TypeOK', NEW r \in Requests, UpstreamFails(r)
  PROVE  Promised
  <1>1. TypeOK /\ RequestTypes /\ OuterInv(r)
    BY OuterTypes
  <1>2. \A q \in Requests \ {r} : Same(q)
    BY <1>1
       DEF UpstreamFails, StreamEnds, Raise, Goto, reqVars, answerVars, RequestTypes,
           Same
  <1>3. OuterInv(r)'
    BY <1>1
       DEF UpstreamFails, StreamEnds, Raise, Goto, reqVars, answerVars, RequestTypes,
           OuterInv, NewIsEmpty, ReplyComesLate, ListAsItCame
  <1>4. pc[r] # "done" /\ UNCHANGED <<kind, body, sent, reply, found>>
    BY DEF UpstreamFails, reqVars, answerVars
  <1> QED BY <1>2, <1>3, <1>4, QuietStep DEF Alone

LEMMA TouchKeeps ==
  ASSUME BInv, TypeOK', NEW r \in Requests, Touch(r)
  PROVE  Promised
  <1>1. TypeOK /\ RequestTypes /\ OuterInv(r)
    BY OuterTypes
  <1>2. \A q \in Requests \ {r} : Same(q)
    BY <1>1 DEF Touch, Goto, reqVars, answerVars, RequestTypes, Same
  <1>3. OuterInv(r)'
    BY <1>1 DEF Touch, Goto, reqVars, answerVars, RequestTypes, OuterInv, NewIsEmpty,
                ReplyComesLate, ListAsItCame
  <1>4. pc[r] # "done" /\ UNCHANGED <<kind, body, sent, reply, found>>
    BY DEF Touch, reqVars, answerVars
  <1> QED BY <1>2, <1>3, <1>4, QuietStep DEF Alone

LEMMA RetrieveFailsKeeps ==
  ASSUME BInv, TypeOK', NEW r \in Requests, RetrieveFails(r)
  PROVE  Promised
  <1>1. TypeOK /\ RequestTypes /\ OuterInv(r)
    BY OuterTypes
  <1>2. \A q \in Requests \ {r} : Same(q)
    BY <1>1
       DEF RetrieveFails, LookedUp, StreamEnds, Raise, Goto, reqVars, answerVars,
           RequestTypes, Same
  <1>3. OuterInv(r)'
    BY <1>1
       DEF RetrieveFails, LookedUp, StreamEnds, Raise, Goto, reqVars, answerVars,
           RequestTypes, OuterInv, NewIsEmpty, ReplyComesLate, ListAsItCame
  <1>4. pc[r] # "done" /\ UNCHANGED <<kind, body, sent, reply, found>>
    BY DEF RetrieveFails, Resumes, reqVars, answerVars
  <1> QED BY <1>2, <1>3, <1>4, QuietStep DEF Alone

LEMMA RestoredKeeps ==
  ASSUME BInv, TypeOK', NEW r \in Requests, Restored(r)
  PROVE  Promised
  <1>1. TypeOK /\ RequestTypes /\ OuterInv(r)
    BY OuterTypes
  <1>2. \A q \in Requests \ {r} : Same(q)
    BY <1>1 DEF Restored, StreamEnds, Goto, reqVars, answerVars, RequestTypes, Same
  <1>3. OuterInv(r)'
    BY <1>1
       DEF Restored, Resumes, StreamEnds, Goto, reqVars, answerVars, RequestTypes,
           OuterInv, NewIsEmpty, ReplyComesLate, ListAsItCame
  <1>4. pc[r] # "done" /\ UNCHANGED <<kind, body, sent, reply, found>>
    BY DEF Restored, Resumes, reqVars, answerVars
  <1> QED BY <1>2, <1>3, <1>4, QuietStep DEF Alone

LEMMA EndSessionKeeps ==
  ASSUME BInv, TypeOK', NEW r \in Requests, EndSession(r)
  PROVE  Promised
  <1>1. TypeOK /\ RequestTypes /\ OuterInv(r)
    BY OuterTypes
  <1>2. \A q \in Requests \ {r} : Same(q)
    BY <1>1 DEF EndSession, Goto, reqVars, answerVars, RequestTypes, Same
  <1>3. OuterInv(r)'
    BY <1>1 DEF EndSession, Goto, reqVars, answerVars, RequestTypes, OuterInv, NewIsEmpty,
                ReplyComesLate, ListAsItCame
  <1>4. pc[r] # "done" /\ UNCHANGED <<kind, body, sent, reply, found>>
    BY DEF EndSession, reqVars, answerVars
  <1> QED BY <1>2, <1>3, <1>4, QuietStep DEF Alone

LEMMA EndSessionFailsKeeps ==
  ASSUME BInv, TypeOK', NEW r \in Requests, EndSessionFails(r)
  PROVE  Promised
  <1>1. TypeOK /\ RequestTypes /\ OuterInv(r)
    BY OuterTypes
  <1>2. \A q \in Requests \ {r} : Same(q)
    BY <1>1 DEF EndSessionFails, Goto, reqVars, answerVars, RequestTypes, Same
  <1>3. OuterInv(r)'
    BY <1>1
       DEF EndSessionFails, Goto, reqVars, answerVars, RequestTypes, OuterInv,
           NewIsEmpty, ReplyComesLate, ListAsItCame
  <1>4. pc[r] # "done" /\ UNCHANGED <<kind, body, sent, reply, found>>
    BY DEF EndSessionFails, reqVars, answerVars
  <1> QED BY <1>2, <1>3, <1>4, QuietStep DEF Alone

LEMMA ArriveKeeps ==
  ASSUME BInv, TypeOK', NEW r \in Requests, NEW w \in Workers, NEW k \in Kinds,
         NEW b \in Bodies, Arrive(r, w, k, b)
  PROVE  Promised
  <1>1. TypeOK /\ RequestTypes /\ RequestInv(r) /\ OuterInv(r)
    BY OuterTypes
  <1>2. \A q \in Requests \ {r} : Same(q)
    BY <1>1 DEF Arrive, Goto, answerVars, RequestTypes, Same
  <1>3. sent[r] = <<>> /\ reply[r] = <<>> /\ body[r] = <<>>
    BY <1>1 DEF Arrive, RequestInv, SentIsText, OuterInv, NewIsEmpty, ReplyComesLate
  <1>4. OuterInv(r)'
    BY <1>1, <1>3 DEF Arrive, Goto, Guarded, answerVars, RequestTypes, OuterInv,
                      NewIsEmpty, ReplyComesLate, ListAsItCame
  <1>5. Sent(r)' = Sent(r) /\ Answered(r)' = Answered(r) /\ Delivered(r)' = Delivered(r)
    BY <1>1, <1>3 DEF Arrive, Goto, answerVars, RequestTypes, Sent, Answered, Delivered
  <1>6. Alone(r)
    BY <1>2, <1>4 DEF Alone
  <1>7. Boundary!Ask(r)
    BY <1>3, <1>5, <1>6, OthersCalm, Asks
  <1> QED BY <1>6, <1>7, OthersCalm DEF Promised, Boundary!Next

LEMMA ArriveRaisesKeeps ==
  ASSUME BInv, TypeOK', NEW r \in Requests, NEW w \in Workers, NEW k \in Kinds,
         ArriveRaises(r, w, k)
  PROVE  Promised
  <1>1. TypeOK /\ RequestTypes /\ RequestInv(r) /\ OuterInv(r)
    BY OuterTypes
  <1>2. \A q \in Requests \ {r} : Same(q)
    BY <1>1 DEF ArriveRaises, Goto, answerVars, RequestTypes, Same
  <1>3. sent[r] = <<>> /\ reply[r] = <<>>
    BY <1>1 DEF ArriveRaises, RequestInv, SentIsText, OuterInv, ReplyComesLate
  <1>4. OuterInv(r)'
    BY <1>1, <1>3 DEF ArriveRaises, Goto, answerVars, RequestTypes, OuterInv,
                      NewIsEmpty, ReplyComesLate, ListAsItCame
  <1>5. Calm(r)
    BY <1>1, <1>3 DEF ArriveRaises, Goto, answerVars, RequestTypes, Calm, Sent, Answered,
                      Delivered
  <1> QED BY <1>2, <1>4, <1>5, CalmStep DEF Alone

\* A masked text shows what is equal in it, and nothing that another sent.
LEMMA TextMasks ==
  ASSUME BInv, NEW r \in Requests, kind[r] # "list", Raw(r) = {}
  PROVE  Boundary!Masks(r, text[r])
  <1>1. TypeOK /\ RequestTypes /\ RequestInv(r)
    BY OuterTypes
  <1>2. ASSUME NEW i \in DOMAIN text[r]
        PROVE  OwnToken(r, text[r][i], body[r][i]) /\ text[r][i] \in Tokens
    <2>1. text[r][i] \notin Values /\ text[r][i] \in Values \cup Tokens
      BY <1>1 DEF Raw, RequestTypes
    <2>2. body[r][i] \in Values
      BY <1>1 DEF RequestInv, TextFromBody, RequestTypes
    <2> QED BY <1>1, <2>1, <2>2 DEF RequestInv, TextFromBody
  <1>3. ASSUME NEW i \in DOMAIN text[r], NEW j \in DOMAIN text[r], text[r][i] = text[r][j]
        PROVE  body[r][i] = body[r][j]
    BY <1>2, <1>3 DEF OwnToken
  <1>4. ASSUME NEW s \in Requests \ {r}, NEW i \in DOMAIN text[r],
               NEW j \in DOMAIN Sent(s), text[r][i] = Sent(s)[j]
        PROVE  FALSE
    <2>1. RequestInv(s)
      BY OuterTypes
    <2>2. j \in DOMAIN sent[s] /\ sent[s][j] = text[r][i]
      BY <1>4 DEF Sent
    <2>3. sent[s] = text[s] /\ j \in DOMAIN text[s]
      BY <1>1, <2>1, <2>2 DEF RequestInv, SentIsText, RequestTypes
    <2>4. body[s][j] \in Values
      BY <1>1, <2>1, <2>3 DEF RequestInv, TextFromBody, RequestTypes
    <2>5. text[s][j] \notin Values
      BY <1>1, <1>2, <2>2, <2>3, GatewayAssumption
    <2>6. OwnToken(s, text[s][j], body[s][j])
      BY <2>1, <2>3, <2>4, <2>5 DEF RequestInv, TextFromBody
    <2> QED BY <1>2, <2>2, <2>3, <2>6 DEF OwnToken
  <1>5. DOMAIN text[r] = DOMAIN body[r]
    BY <1>1 DEF RequestInv, TextFromBody
  <1> QED BY <1>2, <1>3, <1>4, <1>5 DEF Boundary!Masks, Boundary!Mentioned

\* The two ways out.
LEMMA SendsText ==
  ASSUME BInv, NEW r \in Requests, Alone(r), pc[r] \in {"send", "open"},
         kind'[r] = kind[r], body'[r] = body[r], reply'[r] = reply[r],
         outcome'[r] = outcome[r], found'[r] = found[r],
         sent'[r] = text[r], pc'[r] = "await"
  PROVE  Promised
  <1>1. TypeOK /\ RequestTypes /\ RequestInv(r) /\ OuterInv(r)
    BY OuterTypes
  <1>2. Answered(r)' = Answered(r) /\ Delivered(r)' = Delivered(r)
    BY DEF Answered, Delivered
  <1>3. CASE kind[r] = "list"
    <2>1. Calm(r)
      BY <1>2, <1>3 DEF Calm, Sent
    <2> QED BY <2>1, CalmStep
  <1>4. CASE kind[r] # "list"
    <2>1. Sent(r) = <<>> /\ Sent(r)' = text[r]
      BY <1>1, <1>4 DEF Sent, RequestInv, SentIsText
    <2>2. Raw(r) = {}
      BY <1>1, <1>4 DEF RequestInv, ReadyIsMasked
    <2>3. Boundary!Masks(r, Sent(r)')
      BY <1>4, <2>1, <2>2, TextMasks
    <2>4. Boundary!Send(r)
      BY <1>2, <2>1, <2>3, OthersCalm, SendsMasked
    <2> QED BY <2>4, OthersCalm DEF Promised, Boundary!Next
  <1> QED BY <1>3, <1>4

LEMMA ForwardKeeps ==
  ASSUME BInv, TypeOK', NEW r \in Requests, Forward(r)
  PROVE  Promised
  <1>1. TypeOK /\ RequestTypes /\ OuterInv(r)
    BY OuterTypes
  <1>2. \A q \in Requests \ {r} : Same(q)
    BY <1>1 DEF Forward, Goto, reqVars, answerVars, RequestTypes, Same
  <1>3. OuterInv(r)'
    BY <1>1 DEF Forward, Goto, reqVars, answerVars, RequestTypes, OuterInv, NewIsEmpty,
                ReplyComesLate, ListAsItCame
  <1>4. sent'[r] = text[r] /\ pc'[r] = "await"
    BY <1>1 DEF Forward, Goto, RequestTypes
  <1>5. pc[r] = "send" /\ UNCHANGED <<kind, body, reply, found, outcome>>
    BY DEF Forward, reqVars, answerVars
  <1> QED BY <1>2, <1>3, <1>4, <1>5, SendsText DEF Alone

LEMMA OpenStreamKeeps ==
  ASSUME BInv, TypeOK', NEW r \in Requests, OpenStream(r)
  PROVE  Promised
  <1>1. TypeOK /\ RequestTypes /\ OuterInv(r)
    BY OuterTypes
  <1>2. \A q \in Requests \ {r} : Same(q)
    BY <1>1 DEF OpenStream, Goto, reqVars, answerVars, RequestTypes, Same
  <1>3. OuterInv(r)'
    BY <1>1 DEF OpenStream, Goto, reqVars, answerVars, RequestTypes, OuterInv, NewIsEmpty,
                ReplyComesLate, ListAsItCame
  <1>4. sent'[r] = text[r] /\ pc'[r] = "await"
    BY <1>1 DEF OpenStream, Goto, RequestTypes
  <1>5. pc[r] = "open" /\ UNCHANGED <<kind, body, reply, found, outcome>>
    BY DEF OpenStream, reqVars, answerVars
  <1> QED BY <1>2, <1>3, <1>4, <1>5, SendsText DEF Alone

\* The provider knows nothing but tokens that were sent for masked requests.
LEMMA OutsideWasSent ==
  ASSUME BInv, NEW t \in Outside
  PROVE  \E s \in Requests : \E j \in DOMAIN Sent(s) : t = Sent(s)[j]
  <1>1. PICK s \in Requests : \E j \in DOMAIN sent[s] : sent[s][j] = t /\ t \notin Values
    BY DEF Outside
  <1>2. PICK j \in DOMAIN sent[s] : sent[s][j] = t /\ t \notin Values
    BY <1>1
  <1>3. RequestTypes /\ RequestInv(s) /\ OuterInv(s)
    BY OuterTypes
  <1>4. sent[s] = text[s] /\ j \in DOMAIN text[s]
    BY <1>2, <1>3 DEF RequestInv, SentIsText, RequestTypes
  <1>5. kind[s] # "list"
    BY <1>2, <1>3, <1>4 DEF OuterInv, ListAsItCame, RequestTypes
  <1> QED BY <1>2, <1>5 DEF Sent

LEMMA UpstreamReplyKeeps ==
  ASSUME BInv, TypeOK', NEW r \in Requests, UpstreamReply(r)
  PROVE  Promised
  <1>1. TypeOK /\ RequestTypes /\ OuterInv(r)
    BY OuterTypes
  <1>2. PICK a : /\ a = sent[r] \/ \E t \in Outside : a = <<t>>
                 /\ reply' = [reply EXCEPT ![r] = a]
    BY DEF UpstreamReply
  <1>3. \A q \in Requests \ {r} : Same(q)
    BY <1>1, <1>2 DEF UpstreamReply, Goto, reqVars, RequestTypes, Same
  <1>4. /\ pc[r] = "await" /\ reply[r] = <<>> /\ reply'[r] = a
        /\ pc'[r] = IF kind[r] \in Restoring THEN "restore" ELSE "ending"
        /\ UNCHANGED <<kind, body, text, sent, found>>
    BY <1>1, <1>2 DEF UpstreamReply, Goto, reqVars, RequestTypes, OuterInv, ReplyComesLate
  <1>5. OuterInv(r)'
    BY <1>1, <1>4 DEF Restoring, OuterInv, NewIsEmpty, ReplyComesLate, ListAsItCame
  <1>6. Sent(r)' = Sent(r) /\ Delivered(r) = <<>> /\ Delivered(r)' = <<>>
    BY <1>4 DEF Sent, Delivered
  <1>7. Alone(r)
    BY <1>3, <1>5 DEF Alone
  <1>8. CASE kind[r] = "list"
    <2>1. Calm(r)
      BY <1>4, <1>6, <1>8 DEF Calm, Answered
    <2> QED BY <1>7, <2>1, CalmStep
  <1>9. CASE kind[r] # "list"
    <2>1. Answered(r) = <<>> /\ Answered(r)' = a /\ Sent(r) = sent[r]
      BY <1>4, <1>9 DEF Answered, Sent
    <2>2. ASSUME NEW i \in DOMAIN a
          PROVE  \E s \in Requests : \E j \in DOMAIN Sent(s) : a[i] = Sent(s)[j]
      <3>1. CASE a = sent[r]
        BY <2>1, <3>1
      <3>2. ASSUME NEW t \in Outside, a = <<t>>
            PROVE  \E s \in Requests : \E j \in DOMAIN Sent(s) : a[i] = Sent(s)[j]
        <4>1. a[i] = t
          BY <3>2
        <4> QED BY <4>1, OutsideWasSent
      <3> QED BY <1>2, <3>1, <3>2
    <2>3. Boundary!Answer(r)
      BY <1>4, <1>6, <1>7, <2>1, <2>2, OthersCalm, AnswersKnown
    <2> QED BY <1>7, <2>3, OthersCalm DEF Promised, Boundary!Next
  <1> QED BY <1>8, <1>9

\* A lookup: nothing is delivered before the last one.
LEMMA RetrieveKeeps ==
  ASSUME BInv, TypeOK', NEW r \in Requests, Retrieve(r)
  PROVE  Promised
  <1>1. TypeOK /\ RequestTypes /\ OuterInv(r)
    BY OuterTypes
  <1>2. \A q \in Requests \ {r} : Same(q)
    BY <1>1 DEF Retrieve, LookedUp, Goto, reqVars, RequestTypes, Same
  <1>3. /\ pc[r] = "restore" /\ pc'[r] \in {"restore", "touch"}
        /\ UNCHANGED <<kind, body, text, sent, reply>>
    BY <1>1 DEF Retrieve, Resumes, Goto, reqVars, RequestTypes
  <1>4. OuterInv(r)'
    BY <1>1, <1>3 DEF OuterInv, NewIsEmpty, ReplyComesLate, ListAsItCame
  <1>5. Calm(r)
    BY <1>3 DEF Calm, Sent, Answered, Delivered
  <1> QED BY <1>2, <1>4, <1>5, CalmStep DEF Alone

\* Steps that are no request's.
LEMMA NobodysStep ==
  ASSUME BInv, TypeOK', \A q \in Requests : Same(q)
  PROVE  Promised
  <1>1. \A q \in Requests : Calm(q) /\ OuterInv(q)'
    BY SameIsCalm DEF BInv
  <1> QED BY <1>1, AllCalm DEF BInv, IInv, Promised

LEMMA OthersKeep ==
  ASSUME BInv, TypeOK',
         \/ \E s \in Sessions : TtlElapses(s) \/ RedisExpires(s)
         \/ \E w \in Workers, s \in Sessions : AdminDelete(w, s)
         \/ \E w \in Workers : Cleanup(w)
         \/ Tick
         \/ UNCHANGED vars
  PROVE  Promised
  <1>1. UNCHANGED <<worker, kind, body, pc, text, minted, sent, reply, looked, found, outcome>>
    BY DEF TtlElapses, RedisExpires, AdminDelete, Cleanup, Tick, reqVars, answerVars, vars
  <1> QED BY <1>1, NobodysStep DEF Same

LEMMA CrashKeeps ==
  ASSUME BInv, TypeOK', NEW w \in Workers, Crash(w)
  PROVE  Promised
  <1>1. TypeOK /\ RequestTypes
    BY DEF BInv, IInv, TypeOK
  <1>2. ASSUME NEW q \in Requests
        PROVE  Calm(q) /\ OuterInv(q)'
    <2>1. /\ UNCHANGED <<kind, body, text, sent, reply, found, outcome>>
          /\ \/ pc'[q] = pc[q]
             \/ pc[q] \notin {"new", "done"} /\ pc'[q] = "lost"
      BY <1>1 DEF Crash, reqVars, answerVars, RequestTypes
    <2>2. Shown(q)' = Shown(q)
      BY <2>1 DEF Shown
    <2>3. Calm(q)
      BY <2>1, <2>2 DEF Calm, Sent, Answered, Delivered
    <2>4. OuterInv(q)
      BY DEF BInv
    <2>5. OuterInv(q)'
      BY <2>1, <2>4 DEF OuterInv, NewIsEmpty, ReplyComesLate, ListAsItCame
    <2> QED BY <2>3, <2>5
  <1> QED BY <1>1, <1>2, AllCalm DEF Promised
-----------------------------------------------------------------------------
LEMMA StartsAsPromised == Init => BInv /\ Boundary!Init
  <1> SUFFICES ASSUME Init PROVE BInv /\ Boundary!Init
    OBVIOUS
  <1>1. \A r \in Requests : OuterInv(r)
    BY DEF Init, OuterInv, NewIsEmpty, ReplyComesLate, ListAsItCame
  <1>2. body = [r \in Requests |-> <<>>]
    BY DEF Init
  <1>3. \A r \in Requests : Sent(r) = <<>> /\ Answered(r) = <<>> /\ Delivered(r) = <<>>
    BY DEF Init, Sent, Answered, Delivered
  <1>4. Boundary!Init
    BY <1>2, <1>3 DEF Boundary!Init
  <1> QED BY <1>1, <1>4, InitInv DEF BInv

LEMMA StepsAsPromised == BInv /\ [Next]_vars => BInv' /\ [Boundary!Next]_(Boundary!vars)
  <1> SUFFICES ASSUME BInv, [Next]_vars PROVE BInv' /\ [Boundary!Next]_(Boundary!vars)
    OBVIOUS
  <1>1. IInv' /\ TypeOK'
    BY NextInv DEF BInv, IInv
  <1>2. ASSUME NEW r \in Requests, Goes(r)
        PROVE  Promised
    BY <1>1, <1>2, ArriveRaisesKeeps, ArriveKeeps, CheckKeeps, ReuseTokenKeeps,
       MintTokenKeeps, IndexTokenKeeps, MaskRaisesKeeps, MaskDoneKeeps, AuditRaisesKeeps,
       ForwardKeeps, OpenStreamKeeps, UpstreamReplyKeeps, UpstreamFailsKeeps,
       RetrieveKeeps, TouchKeeps, RetrieveFailsKeeps, RestoredKeeps, EndSessionKeeps,
       EndSessionFailsKeeps, OthersKeep DEF Goes, Requests
  <1>3. Promised
    BY <1>1, <1>2, CrashKeeps, OthersKeep DEF Next
  <1> QED BY <1>1, <1>3 DEF Promised, BInv

\* The gateway implements the promise: whatever is stored, purged, deleted, lost
\* or raised on the way, a value leaves only behind a token of its own request,
\* equal tokens stand for equal values, no token leaves for two requests, and an
\* application reads at a token nothing but the value that it sent there.
THEOREM Implements == Spec => KeepsBoundary
  <1>1. Spec => Boundary!Init /\ [][Boundary!Next]_(Boundary!vars)
    BY StartsAsPromised, StepsAsPromised, PTL DEF Spec
  <1> QED BY <1>1 DEF KeepsBoundary, Boundary!Spec
=============================================================================
