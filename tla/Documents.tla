------------------------------ MODULE Documents ------------------------------
\* Three layers name the document a number belongs to: the passport pattern of the
\* detector, the parts behind a document label, and the parts and groups found by
\* ownership alone (src/seif/detector.py, structured_fields.py, document_fields.py).
\* A text is a sequence of tokens:
\*   "S" "N" "G"   a labelled series with its value, a labelled number, a grouped value
\*   "passport" "licence" "drivercard" "identity" "device" "order"      possible owners
\*   "." "!" "nl" "para" ";"     sentence ends, a line end, a blank line, a semicolon
\*   "end" "cont" "present" "switch"   "was checked", "on page 2 is given", "data:",
\*                                     "next record"
\*   "purpose" "need"            "for the conclusion of", "are required the data:"
\*   "," "w" "unknown"           a joint, any other word, "is not given"
EXTENDS Cases

Owners == {"passport", "licence", "drivercard", "identity", "device", "order"}
Business == {"device", "order"}
HardEnds == {"!", "para"}
RecordEnds == HardEnds \cup {".", "nl", ";"}

Where(p, S) == {i \in 1..Len(p) : p[i] \in S}

\* may an owner still own what follows its tail?
OwnerContinues(tail, paired, personal) ==
  LET ends == Where(tail, RecordEnds)
      clause == SubSeq(tail, 1, Smallest(ends) - 1)
      rest == SubSeq(tail, Biggest(ends) + 1, Len(tail))
  IN  IF ends = {} THEN Where(tail, {"switch"}) = {}
      ELSE /\ Where(tail, {"switch"} \cup HardEnds) = {}
           /\ \A i \in Smallest(ends)..Biggest(ends) : i \in ends
           /\ IF personal /\ rest = <<"present">>
              THEN clause \in {<<>>, <<"end">>} \/ (clause # <<>> /\ clause[1] = "purpose")
              ELSE paired /\ clause \in {<<>>, <<"end">>} /\ rest \in {<<>>, <<"cont">>}

\* what a purpose phrase is about owns none of the fields requested after it
IsPurposeObject(p, i) ==
  /\ p[i] \in Business
  /\ SubSeq(p, i + 1, Len(p)) = <<"need">>
  /\ \E j \in 1..(i - 1) : p[j] = "purpose" /\ i - j <= 5 /\ \A k \in (j + 1)..(i - 1) : p[k] = "w"

\* the kind of a number behind the text p: "none" leaves it alone
NumberKind(p, paired) ==
  LET owners == {i \in Where(p, Owners) : ~IsPurposeObject(p, i)}
      owner == p[Biggest(owners)]
      tail == SubSeq(p, Biggest(owners) + 1, Len(p))
      default == IF paired THEN "PASSPORT" ELSE "none"
  IN  CASE owners = {} -> default
        [] owners # {} /\ ~OwnerContinues(tail, paired, owner \notin Business) -> default
        [] OTHER -> CASE owner \in Business -> "none"
                      [] owner = "identity" -> default
                      [] owner = "passport" -> "PASSPORT"
                      [] OTHER -> "DRIVER_LICENSE"

Before(text, i) == SubSeq(text, 1, i - 1)

\* --- layer 1: the passport pattern takes a series directly followed by its number ---
LegacyPassport(text, i) ==
  /\ text[i] = "S" /\ i < Len(text) /\ text[i + 1] = "N"
  /\ NumberKind(Before(text, i), TRUE) = "PASSPORT"

\* --- layer 2: parts and values behind the label of a document ---
DocumentStops == RecordEnds \cup {"passport", "licence", "order"}

\* the label that reaches part i, unless its qualifier says whose document it is not
LabelledKind(text, i) ==
  LET labels == Where(Before(text, i), {"passport", "licence"})
      label == Biggest(labels)
      parts == {j \in (label + 1)..i : text[j] \in {"S", "N", "G"}}
      qualifier == SubSeq(text, label + 1, Smallest(parts) - 1)
  IN  IF \/ labels = {}
         \/ \E j \in (label + 1)..(i - 1) : text[j] \in DocumentStops
         \/ Where(qualifier, {"device", "unknown"}) # {}
         \/ text[i] = "G" /\ qualifier # <<>>
      THEN "none"
      ELSE IF text[label] = "licence" THEN "DRIVER_LICENSE" ELSE "PASSPORT"

\* --- layer 3: a series and a number side by side, and grouped values ---
Joined(text, i, j) ==
  /\ i < j /\ {text[i], text[j]} = {"S", "N"}
  /\ \A k \in (i + 1)..(j - 1) : text[k] \in {",", "nl"}
  /\ j = Len(text) \/ text[j + 1] \notin Business

OwnedKinds(text, i) ==
  {NumberKind(Before(text, pair[1]), TRUE) :
     pair \in {p \in (1..Len(text)) \X (1..Len(text)) : i \in {p[1], p[2]} /\ Joined(text, p[1], p[2])}}
  \cup (IF text[i] = "G" /\ (i = Len(text) \/ text[i + 1] \notin Business)
        THEN {NumberKind(Before(text, i), FALSE)} ELSE {})

\* all that the layers say of part i; the resolution prefers a passport
Kinds(text, i) ==
  (OwnedKinds(text, i) \cup {LabelledKind(text, i)}
   \cup IF \E j \in {i - 1, i} : j > 0 /\ LegacyPassport(text, j) THEN {"PASSPORT"} ELSE {}) \ {"none"}
FinalKind(text, i) ==
  IF Kinds(text, i) = {} THEN "none" ELSE IF "PASSPORT" \in Kinds(text, i) THEN "PASSPORT" ELSE "DRIVER_LICENSE"

-----------------------------------------------------------------------------
\* Bounds: up to three tokens in front of a pair or a grouped value.
TokensUpTo(S, n) == UNION {[1..k -> S] : k \in 0..n}
Values == {<<"S", "N">>, <<"S", ",", "N">>, <<"N", "nl", "S">>, <<"G">>}
OwnerTexts == TokensUpTo({"passport", "licence", "device", "order", "w", ".", "!", "nl", "end", "cont",
                          "present", "purpose", "need", "unknown"}, 3)
DocumentCases == {[alg |-> "document", prefix |-> p, value |-> v] : p \in OwnerTexts, v \in Values}
TryDocument == Try(DocumentCases)

RecordCases == {[alg |-> "record", earlier |-> q, between |-> b, local |-> r, paired |-> d] :
                  q \in TokensUpTo({"passport", "licence", "order", "drivercard", "w"}, 2),
                  b \in {<<"!">>, <<"para">>, <<"switch">>, <<".", "w", ".">>},
                  r \in TokensUpTo({"passport", "order", "identity", "cont", "present", "w", "."}, 2),
                  d \in BOOLEAN}
TryRecord == Try(RecordCases)

\* The layers agree with the owner named last in the clause: a number of a licence is never
\* taken for a passport, one of a device or an order is left alone, and a series and its
\* number get the same kind (document_kind_at_value).
LayersAgreeOnOwner ==
  Given("document") =>
    LET text == input.prefix \o input.value
        n == Len(input.prefix)
        parts == {i \in (n + 1)..Len(text) : text[i] \in {"S", "N", "G"}}
        owners == Where(input.prefix, Owners)
        owner == input.prefix[Biggest(owners)]
        direct == /\ owners # {} /\ ~IsPurposeObject(input.prefix, Biggest(owners))
                  /\ \A i \in Biggest(owners)..n : text[i] \notin RecordEnds
    IN  /\ \A i, j \in parts : FinalKind(text, i) = FinalKind(text, j)
        /\ direct /\ owner = "licence" => \A i \in parts : FinalKind(text, i) = "DRIVER_LICENSE"
        /\ direct /\ owner \in Business => \A i \in parts : Kinds(text, i) = {}

\* Neither an exclamation, a blank line, a new record nor a sentence in between hands a
\* document on to a number that follows (_owner_continues).
OwnerStaysInRecord ==
  Given("record") =>
    NumberKind(input.earlier \o input.between \o input.local, input.paired)
      = NumberKind(input.local, input.paired)
=============================================================================
