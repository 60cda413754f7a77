------------------------------ MODULE Transform ------------------------------
\* Masking and its two ways back on the text itself (src/seif/transform.py).  A text is a
\* sequence of symbols, offsets count them: "a" "b" letters, "." punctuation, "t1" to "t4"
\* strings of the form of a token, which a client may have written too; in masked texts
\* also "*", "#" (the shape of a token), "p1" to "p3" and "c" (synthetic values).
\* Draws of a token that is in use already (one in 2^64) are left out.
EXTENDS Spans

Tokens == <<"t1", "t2", "t3", "t4">>
IsToken(symbol) == symbol \in {Tokens[i] : i \in DOMAIN Tokens}
Width(text) == FoldLeft(LAMBDA n, c : n + IF IsToken(c) THEN 3 ELSE 1, 0, text)
Piece(text, start, end) == SubSeq(text, start + 1, end)

shape_mask(value) ==
  [i \in DOMAIN value |-> IF IsToken(value[i]) THEN "#"
                          ELSE IF value[i] \in {"a", "b"} THEN "*" ELSE value[i]]

\* PERSON and a few others carry their ordinal, CITY and most do not, CODE is not listed
synthetic_value(type, value, ordinal) ==
  CASE type = "PERSON" -> << <<"p1", "p2", "p3">>[ordinal] >>
    [] type = "CITY" -> <<"c">>
    [] OTHER -> shape_mask(value)

\* the n-th token drawn for a text that does not contain it
Drawn(text, n) == SelectSeq(Tokens, LAMBDA t : t \notin {text[i] : i \in DOMAIN text})[n]

Value(text, span) == Piece(text, span.start, span.end)

\* what takes the place of the i-th span: one token or synthetic value per type and value,
\* numbered as they are first seen
replacement_of(text, spans, mode, i) ==
  LET identity(j) == <<spans[j].type, Value(text, spans[j])>>
      first == Smallest({j \in 1..i : identity(j) = identity(i)})
      ordinal == Cardinality({identity(j) : j \in 1..first})
  IN  CASE mode = "mask" -> shape_mask(Value(text, spans[i]))
        [] mode = "token" -> <<Drawn(text, ordinal)>>
        [] OTHER -> synthetic_value(spans[i].type, Value(text, spans[i]), ordinal)

\* where the text goes on in front of the i-th span
LeftOff(spans, i) == IF i = 1 THEN 0 ELSE spans[i - 1].end

\* one turn of the loop of mask
ReplaceSpan(text, spans, mode, done, i) ==
  LET shown == done.masked \o Piece(text, LeftOff(spans, i), spans[i].start)
      replacement == replacement_of(text, spans, mode, i)
  IN  [masked |-> shown \o replacement,
       replacements |-> Append(done.replacements,
         [start |-> Len(shown), end |-> Len(shown \o replacement),
          original |-> Value(text, spans[i]), replacement |-> replacement])]

mask(text, spans, mode) ==
  LET after[i \in 0..Len(spans)] ==
        IF i = 0 THEN [masked |-> <<>>, replacements |-> <<>>]
        ELSE ReplaceSpan(text, spans, mode, after[i - 1], i)
      all == after[Len(spans)]
  IN  [all EXCEPT !.masked = @ \o Piece(text, LeftOff(spans, Len(spans) + 1), Len(text))]

Invalid == <<"invalid">>

LastEnd(item, i) == IF i = 0 THEN 0 ELSE item[i].end
Fits(record, i) ==
  LET item == record.replacements
  IN  /\ LastEnd(item, i - 1) <= item[i].start /\ item[i].start < item[i].end
      /\ item[i].end <= Len(record.masked)
      /\ Piece(record.masked, item[i].start, item[i].end) = item[i].replacement

restore_exact(record) ==
  LET item == record.replacements
      upto[i \in 0..Len(item)] ==
        IF i = 0 THEN <<>>
        ELSE upto[i - 1] \o Piece(record.masked, LastEnd(item, i - 1), item[i].start) \o item[i].original
  IN  IF \E i \in DOMAIN item : ~Fits(record, i) THEN Invalid
      ELSE upto[Len(item)] \o Piece(record.masked, LastEnd(item, Len(item)), Len(record.masked))

\* the length is counted before anything is substituted; what is put back is not read again
restore_tokens(text, record, limit) ==
  LET known == {<<r.replacement, r.original>> : r \in {record.replacements[i] : i \in DOMAIN record.replacements}}
      original(t) == (CHOOSE pair \in known : pair[1] = <<t>>)[2]
      found == SelectSeq(text, IsToken)
      chars == FoldLeft(LAMBDA n, t : n + Width(original(t)) - 3, Width(text), found)
  IN  IF found = <<>> \/ \E i \in DOMAIN found : \A pair \in known : pair[1] # <<found[i]>> THEN <<"unknown">>
      ELSE IF chars > limit THEN <<"too_large">>
      ELSE FlattenSeq([i \in DOMAIN text |-> IF IsToken(text[i]) THEN original(text[i]) ELSE <<text[i]>>])

SpanTypes == {"PERSON", "CITY", "CODE"}
Disjoint(S) == \A p, q \in S : p = q \/ p[2] <= q[1] \/ q[2] <= p[1]
SpanLists(n) ==
  LET InOrder(S) == SortedBy(S, LAMBDA p : p)
  IN  UNION {{[i \in 1..Len(order) |-> [start |-> order[i][1], end |-> order[i][2], type |-> types[i]]] :
                types \in [1..Len(order) -> SpanTypes]} :
             order \in {InOrder(S) : S \in {T \in SUBSET Intervals(n) : Disjoint(T)}}}

TryMask ==
  \E text \in [1..3 -> {"a", "b", ".", "t1"}] :
    Try([alg : {"mask"}, text : {text}, spans : SpanLists(3), mode : {"mask", "token", "synthetic"}])

Masked == mask(input.text, input.spans, input.mode)
Foreign(text, spans) ==
  \E i \in DOMAIN text : IsToken(text[i]) /\ \A j \in DOMAIN spans : ~Covers(spans[j], i - 1)

\* The stored replacements put the text back, whatever the mode, however alike the values.
MaskedComesBack == Given("mask") => restore_exact(Masked) = input.text

\* The mask's own tokens put the text back, values that look like tokens among it; a token
\* that the text brought along is refused and never read as one of the record.
TokensComeBack ==
  Given("mask") /\ input.mode = "token" /\ input.spans # <<>> =>
    restore_tokens(Masked.masked, Masked, Width(input.text)) =
      IF Foreign(input.text, input.spans) THEN <<"unknown">> ELSE input.text

\* A text around the tokens is restored up to the limit and refused beyond it, also when
\* an answer repeats tokens or leaves some out.
RestoredWithinLimit ==
  Given("mask") /\ input.mode = "token" =>
    LET record == Masked IN
    \A quoted \in {"a", "t1", "t2"} \X {"a", "t1", "t2", "t3"}, limit \in {2, 3, 4} :
      LET restored == restore_tokens(quoted, record, limit)
          whole == restore_tokens(quoted, record, 100)
      IN  restored = IF whole = <<"unknown">> THEN whole
                     ELSE IF Width(whole) <= limit THEN whole ELSE <<"too_large">>

\* A value of a type reads alike wherever it stands; two values never share a token, nor
\* two persons a synthetic name.
ReplacedAlike ==
  Given("mask") =>
    LET record == Masked IN
    \A i, j \in DOMAIN input.spans :
      LET same == /\ input.spans[i].type = input.spans[j].type
                  /\ Value(input.text, input.spans[i]) = Value(input.text, input.spans[j])
          alike == record.replacements[i].replacement = record.replacements[j].replacement
      IN  /\ same => alike
          /\ alike => \/ same \/ input.mode = "mask"
                      \/ input.mode = "synthetic" /\ "PERSON" \notin {input.spans[i].type, input.spans[j].type}

\* Spans, Transform: the layers' spans come out apart, ranked, and none loses its letters;
\* what is replaced at them comes back.
SpansSound ==
  /\ ResolvedByRank /\ AddressTailsKept /\ BoundariesKeepCoverage /\ RulesOutrankModels
  /\ MaskedComesBack
=============================================================================
