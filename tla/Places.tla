------------------------------- MODULE Places -------------------------------
\* Issuers of passports, and the addresses and dates that a field introduces
\* (src/seif/location_fields.py).  A text is a sequence of tokens, offsets count them:
\*   "." ";" "nl" "para"       the end of a sentence, a separator, a line end, a blank line
\*   "L" "R"                   a label of the issuer, the label of a reissued passport
\*   "A"                       an authority
\*   "issued" "passport" "cheque"    the verb, the personal and a business document
\*   "equipment" "missing"     a passport of a thing, an authority that is not known
\*   "post"                    the words behind an authority that issued a client's passport
\*   "next" "prose"            the separator before another field, the prose behind a value
\*   "lastyear"                a relative year
\*   "home" "house" "street"   a private label of registration, the parts of an address
\*   "flat"                    a residential address, complete
\*   "firm" "client"           a public and a private owner
\*   " " "w"                   a blank, any other word
EXTENDS Cases

Ends == {".", ";", "nl", "para"}
OffsetsOf(text, from, to, S) == {i \in from..(to - 1) : CharAt(text, i) \in S}
FirstOr(offsets, none) == IF offsets = {} THEN none ELSE Smallest(offsets)
LastOr(offsets, none) == IF offsets = {} THEN none ELSE Biggest(offsets)
FirstIn(text, from, to, S) == FirstOr(OffsetsOf(text, from, to, S), -1)
LastIn(text, from, to, S) == LastOr(OffsetsOf(text, from, to, S), -1)
Has(text, from, to, S) == OffsetsOf(text, from, to, S) # {}
UpToFirst(text, from, to, S) == FirstOr(OffsetsOf(text, from, to, S), to)

\* the longest value of a field
FieldLimit == 4
FieldEnd(text, start, limit) == UpToFirst(text, start, Smallest({Len(text), start + limit}), Ends)

\* an authority ends before a clause behind it
IssuerValueEnd(text, start, end) == UpToFirst(text, start, end, Ends \cup {"prose", "post"})

\* the value of an issuer's field: none when its end is not in sight or its authority unknown
KnownAuthority(text, value, authority) == authority # -1 /\ ~Has(text, value[1], authority, {"missing"})
WithAuthority(text, value) ==
  IF KnownAuthority(text, value, FirstIn(text, value[1], value[2], {"A"})) THEN {value} ELSE {}
IssuerUpTo(text, start, end) ==
  IF end = start + FieldLimit /\ end < Len(text) THEN {}
  ELSE WithAuthority(text, TrimEnds(text, start, end, {" "}))
IssuerValue(text, start) ==
  LET limit == FieldEnd(text, start, FieldLimit)
  IN  IssuerUpTo(text, start, IssuerValueEnd(text, start, UpToFirst(text, start, limit, {"next"})))

PersonalPassport(text, to) ==
  \E i \in 0..(to - 2) : CharAt(text, i) = "passport" /\ CharAt(text, i + 1) = "issued"
LabelledIssuers(text) ==
  LET labels == {i \in 0..(Len(text) - 1) : \/ CharAt(text, i) = "L"
                                            \/ CharAt(text, i) = "R" /\ PersonalPassport(text, i)}
      posts == {i \in 0..(Len(text) - 1) : CharAt(text, i) = "post"}
      heads(i) == OffsetsOf(text, LastIn(text, 0, i, {";", "nl", "para", "post"}) + 1, i, {"A"})
      upTo(i, offsets) == IF offsets = {} THEN {} ELSE {TrimEnds(text, Smallest(offsets), i, {" "})}
  IN  UNION ({IssuerValue(text, i + 1) : i \in labels} \cup {upTo(i, heads(i)) : i \in posts})

LineStart(text, i) == LastIn(text, 0, i, {";", "nl", "para"}) + 1
BusinessIssueContext(text, from, to) ==
  LET owner == LastIn(text, from, to, {"passport", "post", "cheque"})
  IN  owner # -1 /\ CharAt(text, owner) = "cheque"

\* an authority that the record before it makes the issuer of a personal document
IssuedSince(text, context, i) ==
  context # -1 /\ ~Has(text, context + 1, i, Ends \cup {"missing"})
IssuedOnLine(text, from, i) ==
  /\ IssuedSince(text, LastIn(text, from, i, {"issued", "L", "R", "post"}), i)
  /\ ~Has(text, from, i, {"equipment"}) /\ ~BusinessIssueContext(text, from, i)
IssuedBefore(text, i) == IssuedOnLine(text, LineStart(text, i), i)

\* The authorities in order, and the labelled values by their start, each looked at once.
Passed(interval, authority) == interval[1] <= authority
Take(s, passed) ==
  [s EXCEPT !.waiting = @ \ passed, !.covered = Biggest({@} \cup {v[2] : v \in passed})]
FoundAt(s, values) ==
  [s EXCEPT !.found = @ \cup values, !.covered = LastOr({v[2] : v \in values}, @)]
LookAt(text, s, a) ==
  IF a >= s.covered /\ IssuedBefore(text, a) THEN FoundAt(s, IssuerValue(text, a)) ELSE s
Scanned(text, labelled) ==
  FoldLeft(LAMBDA s, a : LookAt(text, Take(s, {v \in s.waiting : Passed(v, a[1])}), a[1]),
           [waiting |-> labelled, covered |-> -1, found |-> {}],
           SortedBy({<<i>> : i \in OffsetsOf(text, 0, Len(text), {"A"})}, LAMBDA a : a)).found
Both(text, labelled) == [labelled |-> labelled, scanned |-> Scanned(text, labelled)]
IssuerCandidates(text) == Both(text, LabelledIssuers(text))

\* --- the other fields ---
PrivateRegistration(text) ==
  LET Whole(value) ==
        IF Has(text, value[1], value[2], {"house"}) /\ Has(text, value[1], value[2], {"street"})
        THEN {value} ELSE {}
      UpTo(start, end) == IF end = start + FieldLimit /\ end < Len(text) THEN {}
                          ELSE Whole(TrimEnds(text, start, end, {" "}))
  IN  UNION {UpTo(i + 1, FieldEnd(text, i + 1, FieldLimit)) : i \in OffsetsOf(text, 0, Len(text), {"home"})}

\* the first passport in sight that is issued decides, up to the last "issued" of its record
RelativeIssueDates(text) ==
  {i \in 0..(Len(text) - 1) :
     /\ CharAt(text, i) = "lastyear" /\ ~Has(text, 0, i, {"equipment"})
     /\ LET issued(p) == LastIn(text, p, UpToFirst(text, p, i, {";", "nl", "para"}), {"issued"})
            passports == {p \in 0..(i - 1) : CharAt(text, p) = "passport" /\ issued(p) # -1}
        IN  passports # {} /\ ~Has(text, issued(Smallest(passports)) + 1, i, Ends)}

\* a public owner on an earlier line still owns the address, up to a blank line
PublicAddressContext(text, i) ==
  LET from == LastIn(text, 0, i, {";", "para"}) + 1
  IN  LastIn(text, from, i, {"firm"}) > LastIn(text, from, i, {"client"})
ResidentialAddresses(text) ==
  {i \in 0..(Len(text) - 1) :
     /\ CharAt(text, i) = "flat" /\ (i = 0 \/ CharAt(text, i - 1) \in {"nl", "para"})
     /\ i = Len(text) - 1 \/ CharAt(text, i + 1) \in {".", ";", "nl", "para"}
     /\ ~PublicAddressContext(text, i)}

-----------------------------------------------------------------------------
\* Bounds: two or three tokens, a break, three tokens more.
EarlierIssue == {"L", "R", "A", "issued", "passport", "cheque", "equipment", "w", "."}
LaterIssue == {"L", "A", "issued", "missing", "post", "next", "prose", "w"}
IssuerCases ==
  {[alg |-> "issuer", earlier |-> e, between |-> b, local |-> l] :
     e \in [1..2 -> EarlierIssue], b \in Ends \cup {"w"}, l \in [1..3 -> LaterIssue]}
TryIssuer == Try(IssuerCases)

PlaceTokens == {"passport", "issued", "firm", "client", "w", "nl", "."}
PlaceCases ==
  {[alg |-> "place", earlier |-> e, between |-> b, local |-> l] :
     e \in [1..3 -> PlaceTokens], b \in Ends,
     l \in {<<"home", "street", "house">>, <<"home", "w", "house">>, <<"home", "street", ".", "house">>,
            <<"passport", "issued", "lastyear">>, <<"passport", "w", "lastyear">>,
            <<"flat">>, <<"client", "nl", "flat">>, <<"firm", "nl", "flat", ";", "w">>}}
TryPlace == Try(PlaceCases)

IssuerText == input.earlier \o <<input.between>> \o input.local
Shifted(values, n) == {<<v[1] + n, v[2] + n>> : v \in values}

\* An issuer's value is an authority and what belongs to it: it never runs into another
\* field, a clause or another record, and no authority starts two values
\* (_issuer_value, _issuer_candidates).
IssuersStayInField ==
  Given("issuer") =>
    LET text == IssuerText
        InField(out) ==
          /\ \A v \in out.scanned :
               /\ CharAt(text, v[1]) = "A"
               /\ ~Has(text, v[1], v[2], {";", "nl", "para", ".", "next", "prose", "post"})
          /\ \A v \in out.labelled :
               /\ Has(text, v[1], v[2], {"A"}) /\ ~Has(text, v[1], v[2], {";", "nl", "para"})
               /\ (v[1] > 0 /\ CharAt(text, v[1] - 1) = "L") =>
                    \E w \in out.labelled : w[1] = v[1] /\ ~Has(text, w[1], w[2], {".", "next", "prose"})
          /\ \A v \in out.scanned, w \in out.labelled \cup out.scanned :
               v # w => ~(w[1] <= v[1] /\ v[1] < w[2])
    IN  InField(IssuerCandidates(text))

\* No document is issued across the end of a sentence or a record: an authority behind one
\* is an issuer only if its own record says so; a separator or a line end makes the two
\* records independent (_issuer_candidates).
IssuerContextIsLocal ==
  Given("issuer") /\ input.between \in Ends =>
    LET n == Len(input.earlier) + 1
        Local(behind, alone) ==
          /\ behind \subseteq alone
          /\ input.between \in {";", "nl", "para"} => behind = alone
    IN  Local({v \in IssuerCandidates(IssuerText).scanned : v[1] >= n},
              Shifted(IssuerCandidates(input.local).scanned, n))

\* What a private field or a line of its own says is protected whatever precedes it, but
\* for a company named in the same record with no private owner after it; a relative date
\* needs a document of its own sentence (_residential_addresses, _relative_issue_dates).
AddressOwnerIsLocal ==
  Given("place") =>
    LET text == IssuerText
        n == Len(input.earlier) + 1
        behind(S) == {i - n : i \in {i \in S : i >= n}}
    IN  /\ {v \in PrivateRegistration(text) : v[1] >= n} = Shifted(PrivateRegistration(input.local), n)
        /\ behind(RelativeIssueDates(text)) \subseteq RelativeIssueDates(input.local)
        /\ input.between = "para" => behind(ResidentialAddresses(text)) = ResidentialAddresses(input.local)
        /\ input.between = "nl" =>
             \A i \in ResidentialAddresses(input.local) \ behind(ResidentialAddresses(text)) :
               LastIn(text, 0, n + i, {"firm"}) > LastIn(text, 0, n + i, {"client"})
=============================================================================
