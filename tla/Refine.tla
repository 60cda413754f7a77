------------------------------- MODULE Refine -------------------------------
\* What is left of a candidate once its field names, the prose behind it and the values of
\* organisations are taken away (src/seif/context_filters.py).  A text is a sequence of
\* tokens as in Places, and of
\*   "no" "9" ","              the name of a number's field, digits, a comma
\*   "verb" "none"             the verb behind a name, "not given" in the place of one
\*   "at" "reg" "town" "1." "cut"    an address's prefix, words of a field's name, the word
\*                             of a locality, an enumeration, the label of a second address
\*   "inn" "address" "office" "abbr"     fields and an institution, an abbreviation's dot
EXTENDS Places

Part(span, start, end) == [span EXCEPT !.start = start, !.end = end]
SpaceTokens == {" ", "nl", "para"}

\* a part without blanks at its ends and punctuation behind it
UpToCore(span, from, core) == IF core = {} THEN <<>> ELSE <<Part(span, from, Biggest(core) + 1)>>
FromValue(text, span, from, end) ==
  UpToCore(span, from, {i \in from..(end - 1) : CharAt(text, i) \notin SpaceTokens \cup {".", ",", ":", ";"}})
ValueStart(text, start, end) == TrimEnds(text, start, end, SpaceTokens)[1]
Segment(text, span, start, end) == FromValue(text, span, ValueStart(text, start, end), end)

\* the series and the number of a document around the field name between them
DigitsOnly(text, v) == v[1] < v[2] /\ \A i \in v[1]..(v[2] - 1) : CharAt(text, i) \in {"9", " "}
PartsAround(text, span, no) ==
  IF /\ no # -1
     /\ DigitsOnly(text, TrimEnds(text, span.start, no, {" ", ",", ";", "nl"}))
     /\ DigitsOnly(text, TrimEnds(text, no + 1, span.end, SpaceTokens))
  THEN Segment(text, span, span.start, no) \o Segment(text, span, no + 1, span.end)
  ELSE <<span>>
DocumentParts(text, span) == PartsAround(text, span, FirstIn(text, span.start, span.end, {"no"}))

\* a name ends before the verb behind it; a name that looks like one is none
BeforeVerb(text, span, verb) ==
  IF verb = -1 \/ (verb = span.start /\ span.type # "CARDHOLDER") THEN <<span>>
  ELSE Segment(text, span, span.start, verb)
NameSpan(text, span) ==
  IF span.type = "CARDHOLDER" /\ CharAt(text, span.start) = "none" THEN <<>>
  ELSE BeforeVerb(text, span, FirstIn(text, span.start, span.end, {"verb"}))

\* where the value of an address starts: behind its prefix, or behind a field name
Is(text, i, end, token) == i < end /\ CharAt(text, i) = token
BehindPrefix(text, i, end) == IF Is(text, i, end, ":") THEN i + 1 ELSE i
BehindField(text, start, colon) ==
  IF colon # -1 /\ Has(text, start, colon, {"reg"}) /\ ~Has(text, start, colon, {"town"})
  THEN colon + 1 ELSE start
BehindLabel(text, span, first) ==
  IF Is(text, first, span.end, "at") THEN BehindPrefix(text, ValueStart(text, first + 1, span.end), span.end)
  ELSE BehindField(text, span.start, FirstIn(text, span.start, span.end, {":"}))
BehindItem(text, start, item, end) == IF Is(text, item, end, "1.") THEN item + 1 ELSE start
AfterLabel(text, span, start) == BehindItem(text, start, ValueStart(text, start, span.end), span.end)
PlaceStart(text, span) ==
  AfterLabel(text, span, BehindLabel(text, span, ValueStart(text, span.start, span.end)))

\* the addresses between the labels of further ones
CutAt(text, span, start, ends) ==
  LET from(i) == Biggest({start} \cup {j + 1 : j \in {j \in ends : j < i}})
  IN  FoldLeft(LAMBDA parts, b : parts \o Segment(text, span, from(b[1]), b[1]), <<>>,
               SortedBy({<<i>> : i \in ends}, LAMBDA b : b))
PartsFrom(text, span, start, end) ==
  CutAt(text, span, start, {end} \cup IF span.type = "ADDRESS" THEN OffsetsOf(text, start, end, {"cut"}) ELSE {})
UpToProse(text, span, start) == PartsFrom(text, span, start, UpToFirst(text, start, span.end, {"prose"}))
PlaceParts(text, span) == UpToProse(text, span, PlaceStart(text, span))

RefinedParts(text, span) ==
  CASE span.type = "PASSPORT" -> DocumentParts(text, span)
    [] span.type \in {"ADDRESS", "BIRTH_PLACE"} -> PlaceParts(text, span)
    [] span.type \in {"PERSON", "CARDHOLDER"} -> NameSpan(text, span)
    [] span.type = "PASSPORT_ISSUER" ->
         Segment(text, span, span.start, IssuerValueEnd(text, span.start, span.end))
    [] OTHER -> <<span>>

\* --- values that belong to an organisation, or to nobody ---
RecordPrefix(text, i) == SubSeq(text, LastIn(text, 0, i, {".", ";", "para"}) + 2, i)
FirmIsLast(p) == LastIn(p, 0, Len(p), {"firm"}) > LastIn(p, 0, Len(p), {"client"})
FirmOwns(text, i) == FirmIsLast(RecordPrefix(text, i))
StandsBehind(text, i, token) == RecordPrefix(text, i) # <<>> /\ CharAt(text, i - 1) = token

CorporateInn(text, span) == StandsBehind(text, span.start, "inn") /\ FirmOwns(text, span.start)
OfficeGeography(text, span, personal) ==
  "office" \in ToSet(RecordPrefix(text, span.start)) /\ ~personal
GeographicScaffolding(text, span) ==
  \/ CharAt(text, span.start) = "russia" /\ StandsBehind(text, span.start, "passport")
  \/ StandsBehind(text, span.start, "address") /\ FirmOwns(text, span.start)

Personal == {"passport", "issued", "client", "address"}
Excluded(text, span, personal) ==
  CASE span.type = "INN" -> CorporateInn(text, span)
    [] span.type = "CITY" -> OfficeGeography(text, span, personal) \/ GeographicScaffolding(text, span)
    [] OTHER -> FALSE

\* the context of the whole text is looked at once, for the places
RefineCandidates(text, candidates) ==
  LET personal == /\ \E i \in DOMAIN candidates : candidates[i].type = "CITY"
                  /\ Has(text, 0, Len(text), Personal)
      Refined(s) == IF s.custom THEN <<s>> ELSE IF Excluded(text, s, personal) THEN <<>> ELSE RefinedParts(text, s)
  IN  FlattenSeq([i \in DOMAIN candidates |-> Refined(candidates[i])])

\* --- numbers: runs of digits with a dot or a comma between two of them ---
\* a run is [n |-> how many digits, zeros |-> all of them zeros], a candidate two of its ends
NumericTail(runs, c) == IF c[2] < Len(runs) /\ runs[c[2] + 1].n <= 13 THEN {runs[c[2] + 1]} ELSE {}
NumericHead(runs, c) == IF c[1] > 1 /\ runs[c[1] - 1].n <= 13 THEN {runs[c[1] - 1]} ELSE {}

DecimalInn(runs, c) == \E r \in NumericTail(runs, c) \cup NumericHead(runs, c) : r.n \notin {10, 12}

FloatPhone(runs, c) == c[2] = c[1] + 1 /\ runs[c[1]].n \in 7..15 /\ runs[c[2]].zeros
DecimalPhone(runs, c) ==
  \/ c[2] = c[1] + 1 /\ runs[c[1]].n \in 8..15 /\ runs[c[2]].n \in 1..8 /\ ~FloatPhone(runs, c)
  \/ \E r \in NumericTail(runs, c) : ~r.zeros /\ r.n \notin 7..13
  \/ \E r \in NumericHead(runs, c) : r.n \notin 7..13
PhoneSpan(runs, c) == IF FloatPhone(runs, c) THEN <<c[1], c[1]>> ELSE c
RefinePhone(runs, c) == IF DecimalPhone(runs, c) THEN {} ELSE {PhoneSpan(runs, c)}

-----------------------------------------------------------------------------
\* Bounds: one candidate in a text of six tokens; three runs of digits.
SpanOf(start, end, type) == [start |-> start, end |-> end, type |-> type, custom |-> FALSE]
RefineTokens == [PASSPORT        |-> {"9", " ", "no", ",", "w"},
                 ADDRESS         |-> {"at", "reg", ":", "town", "1.", "w", "prose", "cut", " "},
                 BIRTH_PLACE     |-> {"at", "w", "prose", "cut", ","},
                 CARDHOLDER      |-> {"none", "verb", "w", " ", ","},
                 PERSON          |-> {"verb", "w", " ", ","},
                 PASSPORT_ISSUER |-> {"A", "w", "prose", ".", ","}]
TryRefine == \E k \in DOMAIN RefineTokens :
               Try({[alg |-> "refine", type |-> k, text |-> t] : t \in [1..5 -> RefineTokens[k]]})

OwnerTokens == {"firm", "client", "office", "inn", "address", "passport", "w"}
OwnerCases == {[alg |-> "owner", earlier |-> e, between |-> b, local |-> l] :
                 e \in [1..2 -> OwnerTokens], b \in {".", ";", "para", "abbr", "nl"},
                 l \in [1..2 -> OwnerTokens]}
TryOwner == Try(OwnerCases)

Runs == {[n |-> n, zeros |-> z] : n \in {1, 2, 7, 8, 10, 11, 12, 14}, z \in BOOLEAN}
TryRuns == Try({[alg |-> "runs", runs |-> r] : r \in UNION {[1..k -> Runs] : k \in 1..3}})

\* A refinement uncovers field names, blanks and punctuation, and what prose follows, but
\* no word of the value: a second address, a name like a verb and both numbers of a
\* document stay; the parts stay apart and in order (_refined_parts).
RefineKeepsValues ==
  Given("refine") =>
    LET text == input.text
        span == SpanOf(0, 5, input.type)
        ends == CASE span.type = "PERSON" -> {i \in 1..4 : CharAt(text, i) = "verb" /\ CharAt(text, 0) # "verb"}
                  [] span.type = "CARDHOLDER" -> {i \in 0..4 : CharAt(text, i) \in {"verb"} \/ (i = 0 /\ CharAt(text, i) = "none")}
                  [] OTHER -> {i \in 0..4 : CharAt(text, i) \in {"prose", "."}}
        named(i) == \E j \in i..4 : /\ CharAt(text, j) = ":" /\ \A k \in 0..(j - 1) : CharAt(text, k) # "town"
                                    /\ \E k \in 0..(j - 1) : CharAt(text, k) = "reg"
        ValuesKept(out) ==
          LET kept(i) == \E k \in DOMAIN out : Covers(out[k], i)
          IN  /\ \A i \in 0..4 : CharAt(text, i) \in {"w", "9", "town", "A"} =>
                   kept(i) \/ (\E j \in ends : j < i) \/ (span.type = "ADDRESS" /\ named(i))
              /\ \A i \in 0..4 : kept(i) /\ span.type = "ADDRESS" => CharAt(text, i) \notin {"prose", "cut"}
              /\ \A k \in DOMAIN out : /\ 0 <= out[k].start /\ out[k].start < out[k].end /\ out[k].end <= 5
                                       /\ k > 1 => out[k - 1].end <= out[k].start
    IN  ValuesKept(RefineCandidates(text, <<span>>))

\* Whose value it is, its own record says: the owner named in an earlier one neither takes
\* a tax number nor a place away, and an abbreviation ends no record (_excluded_context).
ExclusionIsLocal ==
  Given("owner") =>
    LET text == input.earlier \o <<input.between>> \o input.local
        whole(t, k) == RefineCandidates(t, <<SpanOf(Len(t) - 1, Len(t), k)>>) = <<>>
        value(t) == Append(t, "russia")
        joined == input.earlier \o input.local
        personal == Has(text, 0, Len(text), Personal) = Has(input.local, 0, Len(input.local), Personal)
        Alike(other, types) == \A k \in types : whole(value(text), k) = whole(value(other), k)
    IN  /\ input.between \in {".", ";", "para"} =>
             Alike(input.local, {"INN"} \cup IF personal THEN {"CITY"} ELSE {})
        /\ input.between = "abbr" => Alike(joined, {"INN", "CITY"})

\* Neighbours with a dot or a comma between them are a list when each is complete, and
\* otherwise a decimal, whichever of its two sides was taken for a number; a phone that was
\* exported with a fraction of zeros keeps its digits either way (_decimal_inn_fragment).
ListsAreNotDecimals ==
  Given("runs") =>
    LET runs == input.runs
        n == Len(runs)
        complete(S) == \A i \in 1..n : runs[i].n \in S
    IN  /\ complete({10, 12}) => \A i \in 1..n : ~DecimalInn(runs, <<i, i>>)
        /\ complete({10, 11, 12}) => \A i \in 1..n : RefinePhone(runs, <<i, i>>) = {<<i, i>>}
        /\ n = 2 /\ runs[1].n \notin {10, 12, 14} => DecimalInn(runs, <<2, 2>>)
        /\ n = 2 /\ runs[2].n \notin {10, 12, 14} => DecimalInn(runs, <<1, 1>>)
        /\ n = 2 /\ runs[1].n \in 8..12 /\ runs[2].n <= 2 =>
             RefinePhone(runs, <<1, 1>>) = RefinePhone(runs, <<1, 2>>)
=============================================================================
