------------------------------- MODULE Entities -------------------------------
\* From labelled words to entities of the text (src/seif/rubert_decoder.py) and to the
\* types of the gateway (src/seif/rubert_ner.py).  A text is a sequence of characters:
\* "a" a letter or digit, "." a dot, "," other punctuation, " " a blank.  A label stands
\* for both its tags, B- and I-: nothing below tells them apart.
EXTENDS Cases

Unbridged == {"LAST_NAME", "CITY"}
Bridge == {".", ","}

\* --- words with their offsets: dots at the ends of a run of characters are words ---
WordsWithOffsets(text) ==
  LET run(i) == {j \in 1..Len(text) : \A k \in (IF i < j THEN i..j ELSE j..i) : text[k] \in {"a", "."}}
      inner(i) == /\ text[i] \in {"a", "."}
                  /\ \E j \in run(i) : j <= i /\ text[j] = "a"
                  /\ \E j \in run(i) : i <= j /\ text[j] = "a"
      core(i) == {j \in run(i) : inner(j)}
      words == {<<i - 1, i>> : i \in {i \in 1..Len(text) : text[i] # " " /\ ~inner(i)}}
               \cup {<<Smallest(core(i)) - 1, Biggest(core(i))>> : i \in {i \in 1..Len(text) : inner(i)}}
  IN  SortedBy(words, LAMBDA w : w)

Punctuation(text, w) == \A i \in w[1]..(w[2] - 1) : CharAt(text, i) \in Bridge

\* a punctuation mark between two words of one label gets the label, except in names and places
BridgePunctuation(text, words, labels) ==
  [i \in DOMAIN labels |->
     IF /\ 1 < i /\ i < Len(labels) /\ labels[i] = "O" /\ Punctuation(text, words[i])
        /\ labels[i - 1] = labels[i + 1] /\ labels[i - 1] \notin Unbridged
     THEN labels[i - 1] ELSE labels[i]]

\* neighbouring words of one label are one entity
NativeEntities(words, labels) ==
  LET runs == {r \in (1..Len(words)) \X (1..Len(words)) :
                 /\ r[1] <= r[2] /\ labels[r[1]] # "O"
                 /\ \A i \in r[1]..r[2] : labels[i] = labels[r[1]]
                 /\ r[1] = 1 \/ labels[r[1] - 1] # labels[r[1]]
                 /\ r[2] = Len(words) \/ labels[r[2] + 1] # labels[r[1]]}
  IN  {[start |-> words[r[1]][1], end |-> words[r[2]][2], label |-> labels[r[1]]] : r \in runs}

WordPredict(text, labels) ==
  LET words == WordsWithOffsets(text)
      own == [i \in 1..Len(words) |-> labels[i]]
  IN  SortedBy(NativeEntities(words, BridgePunctuation(text, words, own)), LAMBDA e : <<e.start, e.end>>)

ValidNative(entities) == \A i \in 2..Len(entities) : entities[i].start >= entities[i - 1].end

\* --- the profile of persons and locations: neighbours of one kind become one ---
GatewayKind(label) == CASE label = "LAST_NAME" -> "PERSON" [] label = "CITY" -> "LOCATION" [] OTHER -> "none"

Joins(text, previous, e) ==
  /\ previous.kind = e.kind
  /\ \A i \in previous.end..(e.start - 1) : CharAt(text, i) = " "

LegacyGateway(text, native) ==
  LET known == SelectSeq(native, LAMBDA e : GatewayKind(e.label) # "none")
      items == [i \in 1..Len(known) |->
                  [start |-> known[i].start, end |-> known[i].end, kind |-> GatewayKind(known[i].label)]]
  IN  FoldLeft(LAMBDA result, e :
                 IF result # <<>> /\ Joins(text, result[Len(result)], e)
                 THEN [result EXCEPT ![Len(result)].end = e.end] ELSE Append(result, e),
               <<>>, items)

-----------------------------------------------------------------------------
\* Bounds: texts of five characters, every labelling of their words.
Labels == {"O", "SNILS", "INN", "LAST_NAME", "CITY"}
LabelledTexts == {<<"a", ",", "a", " ", "a">>, <<"a", ".", "a", ".", "a">>, <<".", "a", ".", " ", "a">>,
                  <<"a", " ", "a", ".", ".">>, <<",", "a", " ", " ", "a">>, <<"a", "a", ".", ",", "a">>}
EntityCases == {[alg |-> "entities", text |-> t, labels |-> l] : t \in LabelledTexts, l \in [1..5 -> Labels]}
TryEntities == Try({c \in EntityCases : \A i \in (Len(WordsWithOffsets(c.text)) + 1)..5 : c.labels[i] = "O"})

\* Every labelled word lies in exactly one entity of its label, no entity reaches past its
\* words but over one punctuation mark, and never in a name or a place; the words cover the
\* text, so the validation of the native output refuses nothing (word_predict).
EntitiesFollowLabels ==
  Given("entities") =>
    LET text == input.text
        words == WordsWithOffsets(text)
        out == WordPredict(text, input.labels)
        in(i, e) == e.start <= words[i][1] /\ words[i][2] <= e.end
    IN  /\ ValidNative(out)
        /\ \A i \in 0..(Len(text) - 1) : CharAt(text, i) # " " =>
             Cardinality({j \in DOMAIN words : words[j][1] <= i /\ i < words[j][2]}) = 1
        /\ \A i \in DOMAIN words : input.labels[i] # "O" =>
             \E k \in DOMAIN out : in(i, out[k]) /\ out[k].label = input.labels[i]
        /\ \A i \in DOMAIN words, k \in DOMAIN out : in(i, out[k]) /\ input.labels[i] = "O" =>
             /\ out[k].label \notin Unbridged /\ Punctuation(text, words[i])
             /\ words[i][1] > out[k].start /\ words[i][2] < out[k].end

\* The older profile joins the components of a name or a place over blanks and nothing
\* else: every letter keeps the kind its label has (_legacy_gateway).
ProfileJoinsOverBlanks ==
  Given("entities") =>
    LET text == input.text
        native == WordPredict(text, input.labels)
        out == LegacyGateway(text, native)
        kinds(s, i) == {s[k] : k \in {k \in DOMAIN s : s[k].start <= i /\ i < s[k].end}}
    IN  /\ \A i \in 0..(Len(text) - 1) : CharAt(text, i) # " " =>
             {e.kind : e \in kinds(out, i)} = {GatewayKind(e.label) : e \in kinds(native, i)} \ {"none"}
        /\ \A k \in 2..Len(out) : ~Joins(text, out[k - 1], out[k]) /\ out[k - 1].end <= out[k].start
=============================================================================
