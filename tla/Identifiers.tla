------------------------------ MODULE Identifiers ------------------------------
\* A number without or behind a label, and the network addresses: what the rules take it
\* for, and what the merge accepts from a model (src/seif/detector.py).  The text in front
\* of a number is made of the tokens of Contexts, "regional" for the field of a CIS
\* identifier among them; a number is a record of what the patterns and checks say of it:
\*   n       how many digits               bare, plus   digits only, a plus in front
\*   ru, local, card   the form of a Russian phone, a local one, a bank card
\*   luhn, inn         the check digits of a card, of a tax number
EXTENDS Contexts, Spans

Types == {"INN", "CARD", "PHONE", "PASSPORT", "DRIVER_LICENSE"}
LabelOf(type) ==
  CASE type = "INN" -> "inn" [] type = "CARD" -> "card" [] type = "PHONE" -> "phone"
    [] type = "PASSPORT" -> "passport" [] OTHER -> "licence"

PublicInn(p, v) == v.n = 10 /\ IsPublicInn(p)

\* --- the rules: a label right in front, or check digits and a form of its own ---
LabelRule(type, p, v) ==
  CASE type = "INN" -> /\ EndsWith(p, "inn") \/ (EndsWith(p, "bank") /\ Len(p) > 1 /\ p[Len(p) - 1] = "inn")
                       /\ v.bare /\ v.n \in {10, 12} /\ ~PublicInn(p, v)
    [] type = "CARD" -> EndsWith(p, "card") /\ v.n \in 13..19 /\ ~v.plus
    [] type = "PHONE" -> EndsWith(p, "phone") /\ v.n \in 9..15
    [] type = "PASSPORT" -> EndsWith(p, "passport") /\ v.bare /\ v.n = 10
    [] OTHER -> FALSE

FormRule(type, p, v) ==
  /\ ~IsNonpersonalNumberField(p)
  /\ CASE type = "INN" -> v.bare /\ v.n \in {10, 12} /\ v.inn /\ ~PublicInn(p, v)
       [] type = "CARD" -> v.card /\ v.luhn
       [] type = "PHONE" -> v.ru \/ (v.plus /\ v.n \in 8..15)
       [] OTHER -> FALSE

RegionalReason == "cis-personal-id"
RegionalRule(p, v) == EndsWith(p, "regional") /\ v.bare /\ v.n \in {10, 12, 13, 14}

Whole(type, confidence, reason) ==
  [start |-> 0, end |-> 1, type |-> type, confidence |-> confidence, reason |-> reason]
Rules(p, v) ==
  {Whole(t, 98, "context") : t \in {t \in Types : LabelRule(t, p, v)}}
  \cup {Whole(t, 96, "format") : t \in {t \in Types : FormRule(t, p, v)}}
  \cup (IF RegionalRule(p, v) THEN {Whole("INN", 98, RegionalReason)} ELSE {})

\* --- the model: its number is accepted with its own label, or with a form of its own ---
NumericOnly(p, after) == \A i \in 1..Len(p \o after) : (p \o after)[i] \in {"9", ";", "nl", ".", "!", "para"}

PhoneDigits(owner) == IF owner = "none" THEN 8 ELSE 7

ValidNerPhone(owner, v, p, after) ==
  /\ v.n \in PhoneDigits(owner)..15
  /\ owner = "phone" \/ v.plus \/ v.ru \/ v.local \/ (v.bare /\ v.n = 10 /\ ~NumericOnly(p, after))

ValidNerNumber(type, owner, v, p, after) ==
  CASE type = "INN" -> /\ v.n \in IF owner = "inn" THEN 1..14 ELSE {10, 12}
                       /\ owner = "inn" \/ v.inn \/ ~NumericOnly(p, after)
                       /\ ~PublicInn(p, v)
    [] type = "CARD" -> v.n \in 13..19 /\ (owner = "card" \/ v.luhn \/ ~NumericOnly(p, after))
    [] OTHER -> ValidNerPhone(owner, v, p, after)

AcceptNerStructured(type, p, v, after) ==
  LET owner == NerNumberOwner(p)
  IN  /\ ~IsNonpersonalNumberField(p)
      /\ owner \in {"none", LabelOf(type)}
      /\ IF type \in {"PASSPORT", "DRIVER_LICENSE"} THEN v.n \in 1..14
         ELSE ValidNerNumber(type, owner, v, p, after)

\* --- network addresses: "h" up to four hexadecimal digits, ":" "." " ", "x" anything else ---
IPv4(s) == s = <<"h", ".", "h", ".", "h", ".", "h">>
IPv6(s) ==
  LET n == Len(s)
      double == {i \in 1..(n - 1) : s[i] = ":" /\ s[i + 1] = ":"}
      groups == Cardinality({i \in 1..n : s[i] = "h"})
      open(i) == i \in double
  IN  /\ n > 0 /\ \A i \in 1..n : s[i] \in {"h", ":"}
      /\ \A i \in 1..(n - 1) : ~(s[i] = "h" /\ s[i + 1] = "h")
      /\ Cardinality(double) <= 1 /\ IF double = {} THEN groups = 8 ELSE groups <= 7
      /\ s[1] = ":" => open(1)
      /\ s[n] = ":" => n > 1 /\ open(n - 1)
ValidNerIpValue(s) == IPv4(s) \/ IPv6(s)

Compact(s) == SelectSeq(s, LAMBDA c : c # " ")
StripDots(s) ==
  LET kept == {i \in 1..Len(s) : s[i] # "."}
  IN  IF kept = {} THEN <<>> ELSE SubSeq(s, Smallest(kept), Biggest(kept))
\* a colon in front is the label's, unless it is half of a double one
WithoutLabel(s) == IF Len(s) > 1 /\ s[1] = ":" /\ s[2] # ":" THEN Tail(s) ELSE s

\* the view of an address around the component that the model returned
ValidNerIp(text, start, end) ==
  LET stops == {i \in 1..Len(text) : text[i] = "x"}
      begin == Biggest({0} \cup {i \in stops : i <= start})
      finish == Smallest({Len(text) + 1} \cup {i \in stops : i > end}) - 1
      view == StripDots(Compact(SubSeq(text, begin + 1, finish)))
  IN  \/ ValidNerIpValue(Compact(SubSeq(text, start + 1, end)))
      \/ ValidNerIpValue(view) \/ ValidNerIpValue(WithoutLabel(view))

-----------------------------------------------------------------------------
\* Bounds: up to two tokens in front; digits around every limit of the code.
NumberValues ==
  {v \in [n : {6, 7, 8, 9, 10, 11, 12, 13, 14, 15, 16, 19, 20}, bare : BOOLEAN, plus : BOOLEAN, ru : BOOLEAN,
          local : BOOLEAN, card : BOOLEAN, luhn : BOOLEAN, inn : BOOLEAN] :
     /\ v.inn => v.bare /\ v.n \in {10, 12}
     /\ v.luhn => v.n \in 13..19
     /\ v.card => v.n \in 12..19 /\ ~v.plus
     /\ v.ru => v.n = 11 /\ ~v.card
     /\ v.local => v.n = 10 /\ ~v.bare /\ ~v.plus
     /\ v.plus => ~v.bare}
NumberPrefixes == UpTo({"order", "inn", "card", "phone", "passport", "regional", "bank", "client", "9", "w", ";", "."}, 2)
NumberCases == {[alg |-> "number", prefix |-> p, after |-> a] : p \in NumberPrefixes, a \in {<<>>, <<"9">>, <<"w">>}}
TryNumber == Try(NumberCases)

Addresses == {<<"h", ".", "h", ".", "h", ".", "h">>, <<"h", ":", ":", "h">>, <<"h", ":", "h", ":", ":", "h">>,
              <<"h", ":", "h", ":", ":">>, [i \in 1..15 |-> IF i % 2 = 1 THEN "h" ELSE ":"],
              <<"h", " ", ":", " ", ":", " ", "h">>,
              <<"h", ":", "h">>, <<"h", ".", "h">>, <<"h", ":", ":", "h", ":", ":", "h">>, <<"h", ":", ":", ":", "h">>}
IpCases == {[alg |-> "ip", left |-> l, address |-> a, right |-> r] :
              l \in {<<>>, <<"x">>, <<"x", " ">>, <<"x", ":">>, <<"x", ":", " ">>, <<"x", " ", ":", " ">>, <<"x", ".", " ">>},
              a \in Addresses, r \in {<<>>, <<".">>, <<" ", ".", " ">>, <<".", "x", "h">>, <<"x", ":", "h">>, <<" ", "x">>}}
TryIp == Try(IpCases)

\* A business number is nobody's: neither a rule nor the model's word masks it, whatever it
\* looks like and however far back a personal label is (_is_nonpersonal_number_field).
BusinessNumbersStay ==
  Given("number") /\ IsNonpersonalNumberField(input.prefix) =>
    \A v \in NumberValues : /\ Rules(input.prefix, v) = {}
                            /\ \A t \in Types : ~AcceptNerStructured(t, input.prefix, v, input.after)

\* What a rule finds by label or form the merge accepts from a model too, if no label of
\* another type owns it: the two layers cannot contradict each other (_accept_ner_structured).
ModelSeesWhatRulesSee ==
  Given("number") =>
    LET p == input.prefix IN
    \A v \in NumberValues, t \in Types :
      /\ LabelRule(t, p, v) \/ FormRule(t, p, v)
      /\ NerNumberOwner(p) \in {"none", LabelOf(t)}
      => AcceptNerStructured(t, p, v, input.after)

\* A label of the number's own type is evidence for it, never against (_valid_ner_number).
OwnLabelHelps ==
  Given("number") =>
    LET p == input.prefix IN
    \A v \in NumberValues, t \in Types :
      AcceptNerStructured(t, p, v, input.after) => AcceptNerStructured(t, Append(p, LabelOf(t)), v, input.after)

\* "its field meaning takes precedence": the label of a tax number, a card, a passport or a
\* CIS identifier right in front of a number decides its type, whatever else its digits pass
\* for.  The label of a phone does not: a phone ranks below both, so that digits that pass as
\* a card's or a tax number's are taken for one behind it too (_PRIORITY, _cluster_priority).
LabelDecidesType ==
  Given("number") /\ input.prefix # <<>> =>
    LET p == input.prefix
        label == p[Len(p)]
        named == CASE label \in {"inn", "regional"} -> "INN" [] label = "card" -> "CARD"
                   [] label = "passport" -> "PASSPORT" [] OTHER -> "none"
        chosen(v) == {s.type : s \in SelectCluster(Rules(p, v))}
    IN  \A v \in NumberValues :
          /\ named # "none" /\ (LabelRule(named, p, v) \/ RegionalRule(p, v)) => chosen(v) = {named}
          /\ label = "phone" /\ LabelRule("PHONE", p, v) =>
               chosen(v) = {IF FormRule("CARD", p, v) THEN "CARD" ELSE IF FormRule("INN", p, v) THEN "INN" ELSE "PHONE"}

\* The decoder returns the components of an address one by one: each of them is accepted
\* exactly when the address around it is one, whatever stands next to it (_valid_ner_ip).
ComponentsShareTheirAddress ==
  Given("ip") =>
    LET text == input.left \o input.address \o input.right
        groups == {i \in 1..Len(input.address) : input.address[i] = "h"}
    IN  \A i \in groups : ValidNerIp(text, Len(input.left) + i - 1, Len(input.left) + i)
                            = ValidNerIpValue(Compact(input.address))
=============================================================================
