------------------------------- MODULE Contexts -------------------------------
\* The words in front of a value decide whose it is: the owner of a number, a document or
\* an address, and the public person a name belongs to (src/seif/detector.py).  A text is
\* a sequence of tokens, each standing for the words one pattern knows:
\*   "." "!" "para"            the end of a sentence, a blank line
\*   "abbr"                    an abbreviation with its dot
\*   "nl" ";"                  a line end, a semicolon
\*   "passport" "licence" "ticket" "issued"    documents, and the field of an issue date
\*   "order" "phone" "inn" "card"              a business number, the labels of personal ones
\*   "bank" "client" "poet" "cited"            public and private owners, a work's author
\*   "g" "p" "s" "w"           a given name, a patronymic, a surname, any other word
\*   "9"                       a number
EXTENDS Cases

Breaks == {".", "!", "para"}
FieldEnds == {";", "nl"}

\* position of the last token of p in S, 0 when there is none
LastOf(p, S) == LET at == {i \in 1..Len(p) : p[i] \in S} IN IF at = {} THEN 0 ELSE Biggest(at)
After(p, S) == SubSeq(p, LastOf(p, S) + 1, Len(p))
EndsWith(p, token) == p # <<>> /\ p[Len(p)] = token

LocalRecordPrefix(p) == After(p, Breaks)

DocumentOwners == {"passport", "licence", "ticket"}
LastOwner(p) == LET i == LastOf(p, DocumentOwners) IN IF i = 0 THEN "none" ELSE p[i]

\* an issue date without an owner in its sentence is a passport's, unless a licence came before
HasPassportContext(p) ==
  LET owner == LastOwner(LocalRecordPrefix(p))
  IN  IF owner # "none" THEN owner = "passport"
      ELSE EndsWith(LocalRecordPrefix(p), "issued") /\ LastOwner(p) # "licence"

\* a business number, unless a personal label governs the same clause
PersonalLabels == {"phone", "inn", "card"}
IsNonpersonalNumberField(p) ==
  LET local == LocalRecordPrefix(p)
      clause == After(local, {";", "nl", "9", "abbr"})
  IN  EndsWith(local, "order") /\ \A i \in 1..Len(clause) : clause[i] \notin PersonalLabels

\* the label that owns the number to come; a number in between has used it up
NerNumberOwner(p) ==
  LET clause == After(LocalRecordPrefix(p), FieldEnds)
      i == LastOf(clause, PersonalLabels \cup {"passport", "licence"})
  IN  IF i = 0 \/ LastOf(clause, {"9"}) > i THEN "none" ELSE clause[i]

\* the tax number of an organisation: its label, the owner, up to three more words
IsPublicInn(p) ==
  LET i == LastOf(p, {"inn"})
      owner == SubSeq(p, i + 1, Len(p))
  IN  /\ i > 0 /\ Len(owner) \in 1..4 /\ owner[1] = "bank"
      /\ \A j \in 2..Len(owner) : owner[j] = "w"

\* a public address until a private owner is named in the same record
IsPublicAddress(p) ==
  LET record == After(p, {";", "nl", "para", "!"})
  IN  LastOf(record, {"bank"}) > LastOf(record, {"client"})

IsPublicRecord(p) ==
  LET record == After(p, {";", "nl", "para", "!"})
  IN  LastOf(record, {"client"}) = 0 /\ LastOf(record, {"poet", "cited"}) > 0

\* --- public names: offsets of a name count tokens from 0 ---
PublicNameShape(values) == values \in {<<"g", "s">>, <<"s", "g">>, <<"g", "p", "s">>, <<"s", "g", "p">>}

HasPublicNameContext(text, start, end) ==
  LET before == After(LocalRecordPrefix(SubSeq(text, 1, start)), FieldEnds)
      next(i) == IF i < Len(text) THEN text[i + 1] ELSE "."
  IN  /\ LastOf(before, {"client"}) = 0
      /\ \/ EndsWith(before, "poet")
         \/ next(end) = "cited"
         \/ next(end) = "s" /\ next(end + 1) = "cited"

\* the complete names around a component, from its first word on
PublicNameBounds(text, start, end) ==
  {b \in {<<i, i + n>> : i \in 0..start, n \in {2, 3}} :
     /\ b[2] >= end /\ b[2] <= Len(text)
     /\ PublicNameShape(SubSeq(text, b[1] + 1, b[2]))}

IsPublicName(text, start, end) ==
  LET longer == {b \in PublicNameBounds(text, start, end) : b[2] - b[1] > end - start}
      longest == {b \in longer : \A c \in longer : b[2] - b[1] >= c[2] - c[1]}
      name == CHOOSE b \in longest : \A c \in longest : b[1] <= c[1]
  IN  IF longer = {} THEN HasPublicNameContext(text, start, end)
      ELSE HasPublicNameContext(text, name[1], name[2])

-----------------------------------------------------------------------------
\* Bounds: what precedes a break has at most two tokens, what follows it as well.
UpTo(S, n) == UNION {[1..k -> S] : k \in 0..n}
PrefixCases ==
  {[alg |-> "prefix", earlier |-> q, between |-> b, local |-> r] :
     b \in Breaks \cup FieldEnds \cup {"abbr", "9"},
     q \in UpTo({"passport", "licence", "phone", "order", "bank", "client", "poet", "."}, 2),
     r \in UpTo({"passport", "licence", "issued", "inn", "order", "9", "w", "bank", "client", "poet"}, 2)}
TryPrefix == Try(PrefixCases)

NameTexts == {t \in [1..5 -> {"g", "p", "s", "w", "poet", "cited", "client", ";"}] :
                \E i \in 1..4 : PublicNameShape(SubSeq(t, i, i + 1)) \/ (i < 4 /\ PublicNameShape(SubSeq(t, i, i + 2)))}
\* the only complete name of a text: no other overlaps it
LoneNames(t) ==
  LET all == {b \in {<<i, i + n>> : i \in 0..(Len(t) - 2), n \in {2, 3}} :
                b[2] <= Len(t) /\ PublicNameShape(SubSeq(t, b[1] + 1, b[2]))}
      within(a, b) == b[1] <= a[1] /\ a[2] <= b[2]
  IN  {b \in all : \A a \in all : within(a, b)}
NameCases == {[alg |-> "public_name", text |-> t] : t \in {t \in NameTexts : LoneNames(t) # {}}}
TryName == Try(NameCases)

\* A completed sentence or a blank line hands no owner of a document or a number on to the
\* next value, but for the licence whose record an issue date continues; a number, a line
\* end or a semicolon uses the label of a number up, and an abbreviation changes nothing
\* (_local_record_prefix, _is_public_inn).
SentenceEndsOwnership ==
  Given("prefix") =>
    LET b == input.between
        r == input.local
        p == input.earlier \o <<b>> \o r
    IN  /\ b \in Breaks /\ LastOf(input.earlier, {"licence"}) = 0 =>
             HasPassportContext(p) = HasPassportContext(r)
        /\ b \in Breaks => IsNonpersonalNumberField(p) = IsNonpersonalNumberField(r)
        /\ b \in Breaks \cup FieldEnds \cup {"9"} =>
             NerNumberOwner(p) = NerNumberOwner(r) /\ IsPublicInn(p) = IsPublicInn(r)
        /\ b = "abbr" =>
             <<HasPassportContext(p), NerNumberOwner(p)>> =
               <<HasPassportContext(input.earlier \o r), NerNumberOwner(input.earlier \o r)>>

\* The owner of a place or a birth date, public or private, reaches to the next semicolon,
\* line end or exclamation mark, and no further: but a dot does not end it, so that a bank of
\* the sentence before exempts a place of this one (_is_public_address, _is_public_record).
PlaceOwnershipCrossesDots ==
  Given("prefix") =>
    LET b == input.between
        r == input.local
        p == input.earlier \o <<b>> \o r
        Owners(q) == <<IsPublicAddress(q), IsPublicRecord(q)>>
    IN  Owners(p) = IF b \in {".", "abbr", "9"} THEN Owners(input.earlier \o r) ELSE Owners(r)

\* The numbers of one line have different owners: no number takes over the label of
\* another, and what a bank owns is exempt only until a client is named
\* (_ner_number_owner, _is_public_address).
OwnersAreLocal ==
  Given("prefix") =>
    LET p == input.earlier \o <<input.between>> \o input.local
    IN  /\ NerNumberOwner(p) # "none" => NerNumberOwner(p \o <<"9">>) = "none"
        /\ ~IsPublicAddress(p \o <<"client">>) /\ ~IsPublicRecord(p \o <<"client">>)
        /\ ~IsPublicInn(p \o <<"client">>)

\* A model may return any part of a full name: every part is public exactly when the whole
\* name is, so a split name neither escapes its title nor its owner (_is_public_name).
SplitNameSharesContext ==
  Given("public_name") =>
    \A name \in LoneNames(input.text) :
      \A part \in (name[1]..(name[2] - 1)) \X ((name[1] + 1)..name[2]) : part[1] < part[2] =>
        IsPublicName(input.text, part[1], part[2]) = HasPublicNameContext(input.text, name[1], name[2])
=============================================================================
