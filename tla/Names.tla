-------------------------------- MODULE Names --------------------------------
\* The grammar of personal names: which words in a row are one name, behind a field label
\* or in running text, and the name of a cardholder (src/seif/person_fields.py,
\* src/seif/cardholder_fields.py, the name rules of src/seif/detector.py).
\* A text is a sequence of words, offsets count words:
\*   "g" a given name of the dictionary, "h" one that also looks like a surname
\*   "s" a surname, "p" a patronymic that looks like a surname, "f" one that does not
\*   "i" an initial, "x" any other word, "n" a word known to be no name, "." a sentence end
EXTENDS Spans

GivenName(w) == w \in {"g", "h"}
Surname(w) == w \in {"h", "s", "p"}
Patronymic(w) == w \in {"p", "f"}

PairSequence(a, b) ==
  \/ GivenName(a) /\ (Surname(b) \/ Patronymic(b))
  \/ GivenName(b) /\ (Surname(a) \/ Patronymic(a))
  \/ Surname(a) /\ Patronymic(b)
  \/ Surname(b) /\ Patronymic(a)

\* some order makes it a given name, a surname and a patronymic
TripleSequence(w) ==
  \E o \in {o \in [1..3 -> 1..3] : {o[1], o[2], o[3]} = 1..3} :
    GivenName(w[o[1]]) /\ Surname(w[o[2]]) /\ Patronymic(w[o[3]])

NameSequence(words, field) ==
  LET full == SelectSeq(words, LAMBDA w : w # "i")
      initials == Len(words) - Len(full)
  IN  /\ \A i \in 1..Len(words) : words[i] # "n"
      /\ CASE Len(full) = 1 -> /\ field \/ initials > 0
                               /\ GivenName(full[1]) \/ Surname(full[1]) \/ Patronymic(full[1])
           [] Len(full) = 2 -> PairSequence(full[1], full[2])
           [] Len(full) = 3 -> initials = 0 /\ TripleSequence(full)
           [] OTHER -> FALSE

Slice(text, a, b) == SubSeq(text, a + 1, b)
Person(a, b, confidence) ==
  [start |-> a, end |-> b, type |-> "PERSON", confidence |-> confidence, reason |-> "context"]
Windows(text, n) == {<<a, a + n>> : a \in 0..(Len(text) - n)}

\* a run of words is read four at a time, from its first word on
Chunk(text, a) ==
  LET starts == {i \in 0..a : i = 0 \/ text[i] = "."}
  IN  <<Biggest(starts), (a - Biggest(starts)) \div 4>>
InOneChunk(text, w) == Chunk(text, w[1]) = Chunk(text, w[2] - 1) /\ \A i \in w[1]..(w[2] - 1) : text[i + 1] # "."

SurnamePatronymicPair(text) ==
  {Person(w[1], w[2], 95) : w \in {w \in Windows(text, 2) :
     /\ InOneChunk(text, w)
     /\ Surname(text[w[1] + 1]) /\ ~Patronymic(text[w[1] + 1]) /\ Patronymic(text[w[2]])}}

TriplePermutation(text) ==
  {Person(w[1], w[2], 97) : w \in {w \in Windows(text, 3) :
     /\ InOneChunk(text, w) /\ \A i \in (w[1] + 1)..w[2] : text[i] # "i"
     /\ NameSequence(Slice(text, w[1], w[2]), FALSE)}}

\* one or two words in front of a run of initials or behind it
InitialCandidates(text) ==
  LET runs == {w \in Windows(text, 1) \cup Windows(text, 2) : \A i \in (w[1] + 1)..w[2] : text[i] = "i"}
      spans == UNION {{<<r[1] - c, r[2]>> : c \in {1, 2}} \cup {<<r[1], r[2] + c>> : c \in {1, 2}} : r \in runs}
  IN  {Person(w[1], w[2], 96) : w \in {w \in spans :
         /\ 0 <= w[1] /\ w[2] <= Len(text) /\ \A i \in (w[1] + 1)..w[2] : text[i] # "."
         /\ NameSequence(Slice(text, w[1], w[2]), FALSE)}}

\* the patterns of the detector: with a patronymic last or in the middle, and sliding pairs
DetectNames(text) ==
  LET word(i) == text[i] \notin {"i", "."}
  IN  {Person(w[1], w[2], 97) : w \in {w \in Windows(text, 3) :
         LET a == w[1] + 1 IN
         /\ \A i \in a..(a + 2) : word(i)
         /\ \/ Surname(text[a]) /\ Patronymic(text[a + 2])
            \/ Patronymic(text[a + 1]) /\ Surname(text[a + 2])}}
      \cup {Person(w[1], w[2], 92) : w \in {w \in Windows(text, 2) :
         LET a == text[w[1] + 1] b == text[w[2]] IN
         (GivenName(a) /\ Surname(b)) \/ (Surname(a) /\ GivenName(b))}}

PersonSpans(text) ==
  Resolve(SurnamePatronymicPair(text) \cup TriplePermutation(text) \cup InitialCandidates(text) \cup DetectNames(text))

\* --- a value behind a personal field label: the longest prefix that is a name ---
FieldValueValid(label, words, count) ==
  LET parts == SubSeq(words, 1, count)
      alone == count = 1 /\ label = "patronymic" /\ Patronymic(parts[1])
  IN  /\ alone \/ NameSequence(parts, TRUE)
      /\ count = 1 /\ Len(words) > 1 => GivenName(parts[1]) \/ Patronymic(parts[1])

\* how many words of the value are masked
FieldName(label, words) ==
  LET valid == {c \in 1..Len(words) : FieldValueValid(label, words, c)}
  IN  IF valid = {} THEN 0 ELSE Biggest(valid)

\* --- cardholders: "k" a given name known for such fields only, "l" a latin patronymic ---
KnownGiven(w) == GivenName(w) \/ w = "k"
ValidParts(parts) ==
  /\ Len(parts) \in {2, 3} /\ \A i \in 1..Len(parts) : parts[i] # "n"
  /\ CASE NameSequence(parts, FALSE) -> TRUE
       [] ~NameSequence(parts, FALSE) /\ Len(parts) = 3 /\ NameSequence(SubSeq(parts, 1, 2), FALSE) -> parts[3] = "l"
       [] OTHER -> /\ \A i \in 1..Len(parts) : parts[i] # "i"
                   /\ Cardinality({i \in 1..Len(parts) : KnownGiven(parts[i])}) >= Len(parts) - 1

\* owned: the label or a delimiter establishes the field; closed: the value ends there
CardholderName(words, owned, closed) ==
  LET foreign == /\ Len(words) = 2 /\ owned /\ closed
                 /\ \A i \in 1..2 : words[i] \notin {"n", "i"}
      valid == {c \in {2, 3} : c <= Len(words) /\ ValidParts(SubSeq(words, 1, c))}
  IN  IF foreign THEN 2 ELSE IF valid = {} THEN 0 ELSE Biggest(valid)

\* --- joined names: the lengths of the three parts, in any order ---
MinGiven == 2
MinSurname == 4
MinPatronymic == 6
\* where the rest of the word may be cut in two
Cuts3(length) == 3..(length - 4)

\* is the word built of these parts split where they meet?  at: the place of the given name
JoinedSplit(given, first, second, at) ==
  LET length == given + first + second
      start == CASE at = 1 -> 0 [] at = 2 -> first [] at = 3 -> first + second
      end == start + given
  IN  /\ start \in 0..(length - 2) /\ given >= 2
      /\ (start > 0 /\ end < length) \/ first \in Cuts3(first + second)

-----------------------------------------------------------------------------
\* Bounds: a name of two or three words between at most two other words on each side.
Blocks == {b \in [1..3 -> {"g", "h", "s", "p", "f"}] : TripleSequence(b)}
          \cup {<<"g", "s">>, <<"s", "g">>, <<"s", "f">>, <<"s", "i">>, <<"i", "s">>, <<"s", "i", "i">>,
                <<"i", "i", "s">>, <<"i", "g", "p">>, <<"g", "f", "i">>}
NameCasesIn == {[alg |-> "name", before |-> a, name |-> b, after |-> c] :
                  a \in UNION {[1..k -> {"x", "n", "."}] : k \in 0..2}, b \in Blocks,
                  c \in UNION {[1..k -> {"x", "n", "."}] : k \in 0..1}}
TryPerson == Try(NameCasesIn)

FieldCases == {[alg |-> "field", label |-> l, words |-> w, owned |-> d, closed |-> e] :
                 l \in {"patronymic", "role"}, d \in BOOLEAN, e \in BOOLEAN,
                 w \in UNION {[1..k -> {"g", "s", "f", "i", "x", "n", "k"}] : k \in 1..3}}
TryField == Try(FieldCases)

JoinedCases == {[alg |-> "joined", given |-> g, surname |-> s, patronymic |-> p, at |-> a, first |-> f] :
                  g \in MinGiven..5, s \in MinSurname..8, p \in MinPatronymic..9, a \in 1..3,
                  f \in {"surname", "patronymic"}}
TryJoined == Try(JoinedCases)

\* A name in running text comes out as one person that covers all of it and nothing else,
\* if its order is a usual one or it lies inside one of the runs of four words that the
\* recogniser reads; a form with the patronymic first has to begin the text or a sentence,
\* else the word in front passes for its given name (_all_candidates, _detect_names, _resolve).
WholeNameOneSpan ==
  Given("name") =>
    LET text == input.before \o input.name \o input.after
        w == <<Len(input.before), Len(input.before) + Len(input.name)>>
        usual == \/ Len(input.name) = 2 /\ "f" \notin ToSet(input.name)
                 \/ "i" \in ToSet(input.name)
                 \/ Surname(input.name[1]) /\ Patronymic(input.name[Len(input.name)]) /\ Len(input.name) = 3
                 \/ Patronymic(input.name[2]) /\ Surname(input.name[Len(input.name)]) /\ Len(input.name) = 3
        out == PersonSpans(text)
        taken == /\ Len(input.name) > 1 /\ Patronymic(input.name[1]) /\ Surname(input.name[2])
                 /\ w[1] > 0 /\ text[w[1]] # "."
    IN  (usual \/ InOneChunk(text, w)) /\ ~taken =>
          {<<s.start, s.end>> : s \in out} = {w}

\* A field value is cut only behind a complete name: a role word or a word known to be no
\* name is never masked, and one of several words is taken alone only if it is no surname
\* that may begin the name of an organisation (_field_candidates, cardholder_candidates).
FieldMasksNamesOnly ==
  Given("field") =>
    LET n == FieldName(input.label, input.words)
        c == CardholderName(input.words, input.owned, input.closed)
        unknown(k) == Cardinality({i \in 1..k : input.words[i] = "x"})
    IN  /\ \A i \in 1..n : input.words[i] \notin {"n", "x", "k"}
        /\ \A i \in 1..c : input.words[i] # "n"
        /\ n = 1 /\ Len(input.words) > 1 => input.words[1] # "s"
        /\ ~(input.owned /\ input.closed /\ Len(input.words) = 2) => unknown(c) <= 1
        /\ c = 3 => unknown(3) = 0 \/ Cardinality({i \in 1..3 : KnownGiven(input.words[i])}) = 2

\* A name written as one word is split where its parts meet, down to the shortest surname
\* and patronymic there are (_joined_split).
EveryJointIsTried ==
  Given("joined") =>
    IF input.first = "surname" THEN JoinedSplit(input.given, input.surname, input.patronymic, input.at)
    ELSE JoinedSplit(input.given, input.patronymic, input.surname, input.at)
=============================================================================
