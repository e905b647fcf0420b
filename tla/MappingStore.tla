---------------------------- MODULE MappingStore ----------------------------
(***************************************************************************)
(* The token <-> value mapping of engine/mapping.py.  One store (a dict, a  *)
(* SQLite table, a Redis database, a Vault mount) is a record              *)
(*                                                                         *)
(*   live    the sessions with a marker: keys of _sessions (memory), the    *)
(*           `active` key (Redis), the `meta` document (Vault)              *)
(*   rows    the entries: which token stands for which value in a session   *)
(*   index   the value -> token index, keyed by a hash of the value, which   *)
(*           is taken as injective; SQLite has none and searches its rows   *)
(*                                                                         *)
(* and each backend method is an operator over it, named by the backend b.  *)
(* Encryption (an inverse pair under one key) and the access counters are   *)
(* left out; that Redis and Vault write a counter back is not.              *)
(***************************************************************************)
EXTENDS Naturals, FiniteSets

CONSTANTS
  Sessions,           \* session ids, a fresh uuid4 for each request
  Values              \* detected values, each with its entity type

AllBackends == {"memory", "local", "redis", "vault"}

\* A token is named by the session that minted it and a serial number: 48
\* random bits are taken as never drawn twice.
Tokens == Sessions \X (Nat \ {0})

Rows  == [session : Sessions, token : Tokens, value : Values]

Stores == [live : SUBSET Sessions, rows : SUBSET Rows, index : SUBSET Rows]

NewStore == [live |-> {}, rows |-> {}, index |-> {}]

Row(s, t, v) == [session |-> s, token |-> t, value |-> v]

\* Everything but session s, and everything but one key of session s.
Without(rows, s) == {x \in rows : x.session # s}
WithoutToken(rows, s, t) == {x \in rows : x.session # s \/ x.token # t}
WithoutValue(rows, s, v) == {x \in rows : x.session # s \/ x.value # v}

\* A marker is written; an entry is written.
Marked(h, s) == [h EXCEPT !.live = @ \cup {s}]

Entered(h, s, t, v) ==
  [h EXCEPT !.rows = WithoutToken(@, s, t) \cup {Row(s, t, v)}]

\* create_session: memory starts the session empty, Redis and Vault write a
\* marker, SQLite does nothing.
CreateSession(b, h, s) ==
  CASE b = "memory" -> [live  |-> h.live \cup {s},
                        rows  |-> Without(h.rows, s),
                        index |-> Without(h.index, s)]
    [] b = "local"  -> h
    [] OTHER        -> Marked(h, s)

\* The value index entry of `store`, a write of its own in Vault.
StoreIndex(h, s, t, v) ==
  [h EXCEPT !.index = WithoutValue(@, s, v) \cup {Row(s, t, v)}]

\* `store` as one indivisible write: under the lock (memory), in one statement
\* (SQLite), in one MULTI (Redis).  Vault's first write stores the entry only.
StoreEntry(b, h, s, t, v) ==
  CASE b \in {"memory", "redis"} -> StoreIndex(Marked(Entered(h, s, t, v), s), s, t, v)
    [] OTHER                     -> Entered(h, s, t, v)

RetrieveRows_AnySession(h, s, t) == {x \in h.rows : x.token = t}

\* retrieve: the entry under (session, token), none or one.
RetrieveRows(h, s, t) == {x \in h.rows : x.session = s /\ x.token = t}

\* The write-back that ends retrieve in Redis and Vault: the entry read
\* before, written as it was read, and in Redis the marker with it.
WriteBack(b, h, x) ==
  LET back == Entered(h, x.session, x.token, x.value)
  IN  IF b = "redis" THEN Marked(back, x.session) ELSE back

TokensForValue_AnyValue(b, h, s, v) ==
  LET searched == IF b = "local" THEN h.rows ELSE h.index
  IN  {x.token : x \in {y \in searched : y.session = s}}

\* get_token_for_value: the tokens the search may answer with, none or, where
\* the index is the rows themselves, any of those that match (LIMIT 1).
TokensForValue(b, h, s, v) ==
  LET searched == IF b = "local" THEN h.rows ELSE h.index
  IN  {x.token : x \in {y \in searched : y.session = s /\ y.value = v}}

DestroySession_KeepsRows(b, h, s) == [h EXCEPT !.live = @ \ {s}]

DestroySession_EverySession(b, h, s) == NewStore

\* destroy_session: Vault removes the session's marker and nothing else.
DestroySession(b, h, s) ==
  IF b = "vault"
  THEN [h EXCEPT !.live = @ \ {s}]
  ELSE [live  |-> h.live \ {s},
        rows  |-> Without(h.rows, s),
        index |-> Without(h.index, s)]

PurgeExpired_Nothing(b, h, stale) == h

\* purge_expired: memory also drops the sessions that hold no entry yet;
\* Redis and Vault have no such method and MappingStore answers 0.
PurgeExpired(b, h, stale) ==
  LET empty == {s \in h.live : \A x \in h.rows : x.session # s}
      gone  == CASE b = "local"  -> stale
                 [] b = "memory" -> stale \cup empty
                 [] OTHER        -> {}
  IN  [live  |-> h.live \ gone,
       rows  |-> {x \in h.rows : x.session \notin gone},
       index |-> {x \in h.index : x.session \notin gone}]
=============================================================================
