------------------------------ MODULE Addresses ------------------------------
\* Addresses put together from adjacent parts, and the value of an address field
\* (src/seif/detector.py).  A text is a sequence of tokens, offsets count them; two tokens
\* are joined by a blank, or by "," between them:
\*   "head" "name" "dom" "num"  "ul.", a word, "dom", a number
\*   "extra"                    a building or a flat with its number
\*   "digit"                    the rest of a number, which a window may cut off
\*   "loc" "post" "reg"         a locality with its designator, a postcode, a region
\*   "."  ";"                   the end of a sentence or of a field
\*   "g" "i"                    an abbreviation and an initial, whose dot ends no sentence
\*   "part"                     a part of a labelled address, complete
\*   "bank" "order"             a public owner, the label of a business number
EXTENDS Places

WindowSize == 8        \* tokens of an address looked at behind its street's head
Boundary == {",", ".", ";"}

Token(text, i) == IF i < Len(text) THEN text[i + 1] ELSE "end"
\* the offset behind a joint
Join(text, i) == IF Token(text, i) = "," THEN i + 1 ELSE i
NumberEnd(text, i) == Smallest({j \in i..Len(text) : Token(text, j) # "digit"})
AtBoundary(text, i) == Token(text, i) \in Boundary \cup {"end"}

\* one to four words, a joint, the house: <<end, labelled>>, or nothing
StreetHouse(window) ==
  LET words == Smallest({i \in 0..Len(window) : Token(window, i) # "name"})
      at == Join(window, words)
      labelled == Token(window, at) = "dom"
      house == IF labelled THEN at + 1 ELSE at
  IN  IF words \in 1..4 /\ Token(window, house) = "num" THEN {<<NumberEnd(window, house + 1), labelled>>} ELSE {}

Matches(window, stop, token) == Token(window, Join(window, stop)) = token

\* up to six buildings and flats behind the house
Extended(window, stop) ==
  FoldLeft(LAMBDA end, k : IF Matches(window, end, "extra") THEN NumberEnd(window, Join(window, end) + 1) ELSE end,
           stop, [k \in 1..6 |-> k])

\* a suffix that ends its field: its end, or where it would start
Suffix(window, stop, token) ==
  IF Matches(window, stop, token) /\ AtBoundary(window, Join(window, stop) + 1) THEN Join(window, stop) + 1 ELSE stop

\* Mutant: the locality is the first of the two.
AttachSuffixes_locality(window, stop) == Suffix(window, Suffix(window, stop, "loc"), "post")

\* a locality and a postcode in either order
AttachSuffixes(window, stop) ==
  LET loc == Suffix(window, stop, "loc")
      post == Suffix(window, stop, "post")
  IN  IF loc # stop THEN Suffix(window, loc, "post")
      ELSE IF post # stop THEN Suffix(window, post, "loc") ELSE stop

\* the offset of the part that ends in front of i, with the joint between them
PartBefore(text, i) == IF i > 0 /\ Token(text, i - 1) = "," THEN i - 2 ELSE i - 1
Stands(text, i, token) == PartBefore(text, i) >= 0 /\ Token(text, PartBefore(text, i)) = token

\* a locality with its postcode, or a postcode with up to two words
Preceding(text, i) ==
  LET loc == PartBefore(text, i)
      from(k) == IF k = 0 THEN i ELSE PartBefore(text, i) - (k - 1)
  IN  IF Stands(text, i, "loc") THEN IF Stands(text, loc, "post") THEN PartBefore(text, loc) ELSE loc
      ELSE LET posts == {k \in 0..2 : /\ from(k) >= 0 /\ Stands(text, from(k), "post")
                                      /\ \A j \in from(k)..(from(k) + k - 1) : Token(text, j) = "name"}
           IN  IF posts = {} THEN i ELSE PartBefore(text, from(Biggest(posts)))

RegionsBefore(text, i) ==
  LET one == IF Stands(text, i, "reg") THEN PartBefore(text, i) ELSE i
      two == IF Stands(text, one, "reg") THEN PartBefore(text, one) ELSE one
  IN  IF Stands(text, two, "reg") THEN PartBefore(text, two) ELSE two

AddressStart(text, i) ==
  LET start == Preceding(text, i)
  IN  RegionsBefore(text, IF start > 0 /\ Token(text, start - 1) = "order" THEN i ELSE start)

PublicPlace(text, i) == Has(text, LastIn(text, 0, i, {";"}) + 1, i, {"bank"})

AtWindowEdge(text, anchor, window, stop) == stop = Len(window) /\ anchor + 1 + stop < Len(text)

StructuredAddress(text, anchor) ==
  LET window == SubSeq(text, anchor + 2, Smallest({anchor + 1 + WindowSize, Len(text)}))
      start == AddressStart(text, anchor)
      house(core) == Extended(window, core[1])
      stop(core) == AttachSuffixes(window, house(core))
  IN  {<<start, anchor + 1 + stop(core)>> : core \in {core \in StreetHouse(window) :
         /\ core[2] \/ house(core) # core[1] \/ AtBoundary(window, house(core))
         /\ ~AtWindowEdge(text, anchor, window, stop(core))
         /\ ~PublicPlace(text, start) /\ ~PublicPlace(text, anchor)}}
StructuredAddresses(text) ==
  UNION {StructuredAddress(text, i) : i \in {i \in 0..(Len(text) - 1) : Token(text, i) = "head"}}

\* --- the value of an address field ---
AddressSentenceEnd(text, start, end) ==
  LET ends == {i \in start..(end - 1) : Token(text, i) = "." /\ (i = start \/ Token(text, i - 1) \notin {"g", "i"})}
  IN  IF ends = {} THEN end ELSE Smallest(ends)

\* up to the last part that a rule knows
LabelledAddress(text, start) ==
  LET field == UpToFirst(text, start, Len(text), {";"})
      end == AddressSentenceEnd(text, start, field)
      last == LastIn(text, start, end, {"part"})
  IN  IF last = -1 \/ Has(text, start, end, {"bank"}) \/ PublicPlace(text, start) THEN {} ELSE {<<start, last + 1>>}

-----------------------------------------------------------------------------
\* Bounds: addresses of up to sixteen tokens, their parts joined by commas and by blanks,
\* what stands around them, and field values of up to six tokens.
Fronts == {<<>>, <<"reg">>, <<"reg", ",", "post", ",", "loc", ",">>, <<"post", ",", "loc">>, <<"post", "name">>, <<"post", ",">>,
           <<"loc", ",">>, <<"reg", ",", "reg", "loc", ",">>, <<"loc", ",", "post", ",">>}
Houses == {<<"num">>, <<"dom", "num">>, <<"num", "extra", "digit">>, <<"dom", "num", "digit", "digit">>,
           <<"dom", "num", ",", "extra", "digit", ",", "extra", "digit">>}
Backs == {<<>>, <<"post">>, <<"loc">>, <<",", "loc">>, <<",", "loc", ",", "post">>, <<",", "post", ",", "loc">>,
          <<",", "loc", "post">>, <<"post", ",", "loc">>, <<"loc", "post">>}
Streets == {<<"head", "name">> \o n \o c : n \in {<<>>, <<"name">>}, c \in {<<>>, <<",">>}}
AddressCases ==
  [alg : {"address"}, before : {<<>>, <<"name", ".">>, <<"bank", ";">>, <<"bank">>, <<"order">>}, front : Fronts,
   street : Streets, house : Houses, back : Backs,
   after : {<<>>, <<".">>, <<"name">>, <<",", "name", "num">>, <<";", "post">>}]
TryAddress == Try(AddressCases)

ValueCases == [alg : {"addressfield"}, value : SeqOf({"part", "g", "i", "name"}, 3),
               rest : SeqOf({"part", ".", ";", "name"}, 3)]
TryAddressField == Try(ValueCases)

Text(c) == c.before \o c.front \o c.street \o c.house \o c.back \o c.after
Core(c) == c.street \o c.house \o c.back
WindowShows(c) == Len(Core(c)) - 1 < WindowSize \/ (Len(Core(c)) - 1 = WindowSize /\ c.after = <<>>)

\* where the address starts: a locality stands behind its postcode, or stays outside
SpanStart(c) ==
  LET posts == {i \in 1..Len(c.front) : c.front[i] = "post" /\ \E j \in 1..(i - 1) : c.front[j] = "loc"}
  IN  Len(c.before) + IF posts = {} THEN 0 ELSE Smallest(posts) - 1

\* where it ends: a part behind the house that only a blank separates from more words or
\* digits stays outside, and every part behind it
SpanStop(c) ==
  LET loose == {i \in 1..Len(c.back) : c.back[i] # "," /\ ~AtBoundary(c.back \o c.after, i)}
      kept == IF loose = {} THEN Len(c.back) ELSE PartBefore(c.back, Smallest(loose) - 1) + 1
  IN  Len(c.before \o c.front \o c.street \o c.house) + kept

\* a house without a label and a flat is one only in front of a comma or an end
HouseIsPlain(c) == c.house # <<"num">> \/ AtBoundary(c.back \o c.after, 0)

\* "Locality/postcode may trail the street record, in either order": an address that fits
\* into the window is one span and takes nothing of the text around it.  It reaches over
\* every part that a comma, the end of a sentence or of a field follows, joined by commas
\* or by blanks; but a locality or a postcode that more words follow, a locality in front of
\* its postcode, and an address whose bare house number more words follow are left out
\* (_structured_addresses, _attach_suffixes, _resolve_address_start).
WholeAddressOneSpan ==
  Given("address") /\ WindowShows(input) /\ Token(input.before, 0) \notin {"bank", "order"} =>
    StructuredAddresses(Text(input)) = IF HouseIsPlain(input) THEN {<<SpanStart(input), SpanStop(input)>>} ELSE {}

\* "Never accept a partial house/apartment value at the window edge": whatever the window
\* cuts off, no span ends inside the number of a house or a flat (_structured_addresses).
NoPartialAddress ==
  Given("address") => \A span \in StructuredAddresses(Text(input)) : Token(Text(input), span[2]) # "digit"

\* A number that an order owns is never masked as the postcode of the address behind it,
\* and the address behind it still is (_resolve_address_start).
OrdersAreNoPostcodes ==
  Given("address") /\ Token(input.before, 0) = "order" /\ Token(input.front, 0) = "post"
    /\ WindowShows(input) /\ HouseIsPlain(input) =>
    LET spans == StructuredAddresses(Text(input)) IN
    /\ Cardinality(spans) = 1
    /\ \A span \in spans : 1 < span[1] /\ span[1] <= Len(input.before \o input.front) /\ span[2] = SpanStop(input)

\* The value of an address field reaches over abbreviations and initials to its last part,
\* and never into the next sentence or field (_address_sentence_end, _detect_addresses).
FieldAddressIsWhole ==
  Given("addressfield") =>
    LET text == Append(input.value, "part") \o <<".">> \o input.rest
        value == [i \in 1..(2 * Len(input.value)) |->
                    IF i % 2 = 1 THEN input.value[(i + 1) \div 2]
                    ELSE IF input.value[i \div 2] \in {"g", "i"} THEN "." ELSE ","]
        dotted == Append(value, "part") \o <<".">> \o input.rest
    IN  /\ LabelledAddress(text, 0) = {<<0, Len(input.value) + 1>>}
        /\ LabelledAddress(dotted, 0) = {<<0, 2 * Len(input.value) + 1>>}
=============================================================================
