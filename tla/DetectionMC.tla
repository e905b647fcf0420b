---------------------------- MODULE DetectionMC -----------------------------
(***************************************************************************)
(* Small instances of Detection for TLC.  Three families of texts: one call    *)
(* on a text where three recognizers overlap in every way, with every order    *)
(* of scores; one call on a text with every combination of entity types, for   *)
(* the policies and the router; and three calls at once, for the pool.         *)
(***************************************************************************)
EXTENDS Detection

CONSTANTS c1, c2, c3

ThreeCalls == {c1, c2, c3}

MCTypes == {"EMAIL", "PHONE", "CREDIT_CARD", "IP_ADDRESS", "PERSON_NAME",
            "DATE_OF_BIRTH", "TN_NATIONAL_ID"}

Recognizer(type, priority) == [types |-> {type}, priority |-> priority]

\* Seven of the eighteen recognizers, in the order of registry.py.
MCRegistry ==
  <<Recognizer("EMAIL", 40), Recognizer("PHONE", 30), Recognizer("CREDIT_CARD", 45),
    Recognizer("IP_ADDRESS", 35), Recognizer("PERSON_NAME", 40),
    Recognizer("DATE_OF_BIRTH", 45), Recognizer("TN_NATIONAL_ID", 75)>>

TypeOf(i) == CHOOSE type \in MCRegistry[i].types : TRUE

Match(i, start, end, score) ==
  [type |-> TypeOf(i), start |-> start, end |-> end, score |-> score,
   local |-> TypeOf(i) = "TN_NATIONAL_ID",
   number |-> IF TypeOf(i) = "IP_ADDRESS" THEN Unparsable ELSE i, found |-> i % 2 = 0]

TextOf(length, matches) ==
  [length |-> length,
   matches |-> [i \in DOMAIN MCRegistry |-> IF i \in DOMAIN matches THEN matches[i] ELSE <<>>]]

OnlyC1(t) == [c \in ThreeCalls |-> IF c = c1 THEN t ELSE TextOf(0, <<>>)]

Stretches == {<<0, 2>>, <<1, 3>>, <<2, 4>>, <<0, 4>>}
ScoresTried == {65, 75, 80}

\* A phone number, a name and an identity card number (with its boost) that
\* overlap or not; the phone recognizer has two patterns.
Overlapping ==
  {OnlyC1(TextOf(4, (2 :> <<Match(2, 1, 2, 75), Match(2, p[1], p[2], x)>>) @@
                    (5 :> <<Match(5, q[1], q[2], y)>>) @@
                    (7 :> <<Match(7, r[1], r[2], z)>>))) :
     p \in Stretches, q \in Stretches, r \in Stretches,
     x \in ScoresTried, y \in ScoresTried, z \in {65, 75}}

Apart(types) == [i \in types |-> <<Match(i, 2 * i, 2 * i + 1 + (i % 2), IF i = 7 THEN 99 ELSE 75)>>]

Combined == {OnlyC1(TextOf(16, Apart(types))) : types \in SUBSET DOMAIN MCRegistry}

Concurrent == {(c1 :> TextOf(16, Apart({1, 5, 6}))) @@ (c2 :> TextOf(16, Apart({5}))) @@
               (c3 :> TextOf(16, Apart({2, 6})))}

MCScenarios == Overlapping \cup Combined \cup Concurrent

Rule(types, action, condition) == [types |-> types, action |-> action, condition |-> condition]
If(field, operator, value) == [field |-> field, operator |-> operator, value |-> value]

PassAll == Rule({"*"}, "pass", Always)
PassEmails == Rule({"EMAIL", "PHONE"}, "pass", If("value_length", "lt", 2))
PassNumbers == Rule({"*"}, "pass", If("numeric_value", "gte", 4))
RedactNames == Rule({"PERSON_NAME"}, "redact", If("pattern", "matches", 0))

RedactLate == Rule({"*"}, "redact", If("numeric_value", "gte", 5))
PassShort == Rule({"EMAIL", "CREDIT_CARD"}, "pass", If("value_length", "lt", Unusable))
RedactLike == Rule({"PHONE"}, "redact", If("pattern", "matches", Unusable))

File(policies, bindings) == [policies |-> policies, bindings |-> bindings]
Policy(name, rules, default) ==
  [name |-> name, policy |-> [rules |-> rules, default |-> default]]
Bind(key, policy) == [key |-> key, policy |-> policy]

MCPolicyFiles ==
  {File(<<Policy("open", <<PassEmails, RedactNames, PassNumbers>>, "mask"),
          Policy("closed", <<RedactNames, PassAll>>, "redact")>>,
        <<Bind("key1", "open"), Bind("key2", "closed"), Bind("key3", "misspelt")>>),
   File(<<Policy("open", <<PassAll>>, "pass"), Policy("open", <<RedactNames>>, "pass")>>,
        <<Bind("key1", "open")>>),
   File(<<Policy("broken", <<RedactLate, PassShort, RedactLike>>, "mask")>>,
        <<Bind("key2", "broken")>>)}
=============================================================================
