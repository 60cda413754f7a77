-------------------------------- MODULE Spans --------------------------------
\* What becomes of the candidates of all recognizers: overlaps are resolved by rank,
\* the findings of the model are merged into those of the rules, address tails are
\* kept and model boundaries respected (src/seif/detector.py, src/seif/ner_boundaries.py).
\* A confidence is a number of hundredths; a text is a sequence of character classes.
EXTENDS Cases

\* overlap priority of a type; every type without one of its own has 85
Priority(type) ==
  CASE type = "PASSPORT" -> 105
    [] type = "DRIVER_LICENSE" -> 104
    [] type = "ADDRESS" -> 99
    [] type = "CARD" -> 95
    [] type = "INN" -> 94
    [] type = "PHONE" -> 90
    [] type = "PERSON" -> 80
    [] type = "LOCATION" -> 70
    [] OTHER -> 85

ClusterPriority(s) ==
  IF s.reason = "ner-structured" THEN 65
  ELSE IF s.reason = "cis-personal-id" /\ Priority(s.type) < 96 THEN 96
  ELSE Priority(s.type)

\* names in alphabetical order, the last tie-breakers
Alphabet == <<"CARD", "CITY", "CUSTOM", "DRIVER_LICENSE", "INN", "LOCATION", "PASSPORT", "PERSON", "PHONE",
              "cis-personal-id", "context", "custom-rule", "format", "ner-document-kind",
              "ner-location", "ner-person", "ner-structured">>
Letter(name) == CHOOSE i \in 1..Len(Alphabet) : Alphabet[i] = name

Rank(s) == <<-ClusterPriority(s), s.start - s.end, -s.confidence, s.start,
             Letter(s.type), Letter(s.reason)>>

Overlap(s, t) == s.start < t.end /\ t.start < s.end

\* accepted spans lie apart: only the neighbours of the insertion point can overlap
NoRoom(accepted, s) ==
  LET before == {t \in accepted : t.start < s.start}
      after == accepted \ before
  IN  \/ \E t \in before : t.start = Biggest({u.start : u \in before}) /\ t.end > s.start
      \/ \E t \in after : t.start = Smallest({u.start : u \in after}) /\ s.end > t.start

SelectCluster(cluster) ==
  LET ranked == SortedBy(cluster, Rank)
      accepted[i \in 0..Len(ranked)] ==
        IF i = 0 THEN {}
        ELSE accepted[i - 1] \cup (IF NoRoom(accepted[i - 1], ranked[i]) THEN {} ELSE {ranked[i]})
  IN  accepted[Len(ranked)]

\* where a cluster begins: every earlier candidate has ended
\* (mutant) only the last earlier candidate has
Cuts_last(candidates) ==
  {s.start : s \in {s \in candidates :
     LET earlier == {t \in candidates : t.start < s.start}
     IN  \A t \in earlier : (\A u \in earlier : LexLess(<<u.start, u.end>>, <<t.start, t.end>>) \/ u = t)
                              => t.end <= s.start}}
Cuts(candidates) ==
  {s.start : s \in {s \in candidates :
     \A t \in candidates : t.start < s.start => t.end <= s.start}}

Resolve(candidates) ==
  LET cuts == Cuts(candidates)
      cluster(p) == {s \in candidates : Biggest({q \in cuts : q <= s.start}) = p}
  IN  UNION {SelectCluster(cluster(p)) : p \in cuts}

\* --- tails of model addresses next to the address parts of the rules ---
AddressComponents == {"ADDRESS", "CITY"}
Space == {" "}
Separators == {" ", ","}

\* a designator on its own, or a number with at most one letter
LooksLikeAddress(text, start, end) ==
  LET char(i) == CharAt(text, i)
      inside(i) == start <= i /\ i < end
  IN  \/ \E i \in start..(end - 1) :
           /\ char(i) = "k"
           /\ \A j \in {i - 1, i + 1} : inside(j) => char(j) \notin Alnum
      \/ /\ char(start) = "n"
         /\ \A i \in start..(end - 1) : char(i) = "n" \/ (i = end - 1 /\ char(i) \in Alnum)

AddressFragment(text, s, start, end) ==
  LET cut == TrimEnds(text, start, end, Separators)
  IN  IF cut[1] = cut[2] \/ ~LooksLikeAddress(text, cut[1], cut[2]) THEN {}
      ELSE {[start |-> cut[1], end |-> cut[2], type |-> "LOCATION",
             confidence |-> s.confidence, reason |-> "ner-location"]}

AddressTailOverlaps(candidate, resolved) ==
  LET overlaps == {s \in resolved : Overlap(s, candidate)}
  IN  IF /\ candidate.type = "LOCATION"
         /\ \A s \in overlaps : s.type \in AddressComponents /\ s.reason # "custom-rule"
      THEN SortedBy(overlaps, LAMBDA s : <<s.start>>) ELSE <<>>

\* the gaps of a candidate between the spans of parts, as <<start, end>>
Gaps(candidate, parts) ==
  {g \in {<<IF i = 1 THEN candidate.start ELSE parts[i - 1].end,
            IF i = Len(parts) + 1 THEN candidate.end ELSE parts[i].start>> : i \in 1..(Len(parts) + 1)} :
     g[1] < g[2]}

AddressTailFragments(text, candidate, overlaps) ==
  UNION {AddressFragment(text, candidate, g[1], g[2]) : g \in Gaps(candidate, overlaps)}

PreserveAddressTails(text, resolved, candidates) ==
  LET tails(c) == LET overlaps == AddressTailOverlaps(c, resolved)
                  IN  IF overlaps = <<>> THEN {} ELSE AddressTailFragments(text, c, overlaps)
  IN  Resolve(resolved \cup UNION {tails(c) : c \in candidates})

\* --- the boundaries of the model inside a span of the rules ---
Family(type) == IF type \in {"ADDRESS", "LOCATION", "CITY"} THEN "ADDRESS" ELSE type
Atomic == {"PERSON", "CARDHOLDER", "ADDRESS"}

WordBoundary(text, offset) ==
  \/ offset \in {0, Len(text)}
  \/ \E i \in {offset - 1, offset} : CharAt(text, i) \notin Alnum \cup {"m"}

CompatibleParts(text, original, parts) ==
  \A i \in 1..Len(parts) :
    /\ parts[i].start >= (IF i = 1 THEN original.start ELSE parts[i - 1].end)
    /\ parts[i].start < parts[i].end /\ parts[i].end <= original.end
    /\ Family(parts[i].type) = Family(original.type)
    /\ WordBoundary(text, parts[i].start) /\ WordBoundary(text, parts[i].end)

Remainder(text, original, start, end) ==
  LET cut == TrimEnds(text, start, end, Space)
  IN  IF \A i \in start..(end - 1) : CharAt(text, i) \notin Alnum THEN {}
      ELSE {[original EXCEPT !.start = cut[1], !.end = cut[2]]}

Partition(text, original, parts) ==
  {[original EXCEPT !.start = p.start, !.end = p.end] : p \in ToSet(parts)}
  \cup UNION {Remainder(text, original, g[1], g[2]) : g \in Gaps(original, parts)}

\* alike up to the type, the order does not matter
ModelOrder(s) == <<s.start, s.end, Letter(s.type), Letter(s.reason), s.confidence>>

\* the models that reach into the span, found between two binary searches
PartsOf(original, models) ==
  LET sorted == SortedBy(models, ModelOrder)
      cover(i) == Biggest({sorted[j].end : j \in 1..i})
      first == Cardinality({i \in 1..Len(sorted) : cover(i) <= original.start})
      last == Cardinality({i \in 1..Len(sorted) : sorted[i].start < original.end})
      reaching == {i \in (first + 1)..last : sorted[i].end > original.start}
  IN  SortedBy({sorted[i] : i \in reaching}, ModelOrder)

PreserveModelBoundaries(text, resolved, models) ==
  UNION {LET parts == PartsOf(o, models)
         IN  IF \/ parts = <<>>
                \/ Len(parts) = 1 /\ parts[1].start = o.start /\ parts[1].end = o.end
                \/ o.type \in Atomic \/ o.reason = "custom-rule"
                \/ ~CompatibleParts(text, o, parts)
             THEN {o} ELSE Partition(text, o, parts) : o \in resolved}

\* --- the merge ---
Identity(s) == <<s.type, s.start, s.end>>

\* a bare series and number counts as a passport until the model says licence;
\* named: the text calls the number a passport
PreferDocumentKind(candidates, named) ==
  LET kinds(s) == {t.type : t \in {t \in candidates : /\ t.reason = "ner-structured"
                                                      /\ t.type \in {"PASSPORT", "DRIVER_LICENSE"}
                                                      /\ t.start = s.start /\ t.end = s.end}}
      refines(s) == /\ s.type = "PASSPORT" /\ s.reason \notin {"custom-rule", "ner-structured"}
                    /\ kinds(s) = {"DRIVER_LICENSE"} /\ ~named
  IN  {IF refines(s) THEN [s EXCEPT !.type = "DRIVER_LICENSE", !.reason = "ner-document-kind"] ELSE s :
         s \in candidates}

ModelReasons == {"ner-person", "ner-location", "ner-structured"}

MergeNerCandidates(text, base, candidates, named) ==
  LET accepted == {s \in candidates : Identity(s) \notin {Identity(b) : b \in base}}
      refined == PreferDocumentKind(base \cup accepted, named)
      located == {s \in refined : s.reason = "ner-location"}
      resolved == PreserveAddressTails(text, Resolve(refined), located)
  IN  PreserveModelBoundaries(text, resolved, {s \in refined : s.reason \in ModelReasons})

-----------------------------------------------------------------------------
\* Bounds: four characters, three candidates of three kinds; one or two base spans.
Kind(type, reason, confidence) == [type |-> type, reason |-> reason, confidence |-> confidence]
SpansOf(n, kinds) == {[start |-> p[1], end |-> p[2], type |-> k.type, confidence |-> k.confidence,
                       reason |-> k.reason] : p \in Intervals(n), k \in kinds}
Apart(S) == \A s, t \in S : s # t => ~Overlap(s, t)

ResolveCases ==
  {[alg |-> "resolve", candidates |-> C] :
     C \in SubsetsUpTo(SpansOf(4, {Kind("CARD", "format", 96), Kind("PERSON", "context", 98),
                                   Kind("INN", "cis-personal-id", 96)}), 3)}
TryResolve == Try(ResolveCases)

\* texts of address parts: designators, numbers and prose between separators
TailTexts == {<<"k", " ", "a", ",", "n">>, <<"a", ",", "k", " ", "n">>, <<"n", "a", " ", "a", "k">>}
TailCases ==
  {[alg |-> "tails", text |-> t, resolved |-> R, candidates |-> C] :
     t \in TailTexts,
     R \in {R \in SubsetsUpTo(SpansOf(5, {Kind("CITY", "context", 98)}), 2)
                    \cup {{s} : s \in SpansOf(5, {Kind("CARD", "format", 96)})} : Apart(R)},
     C \in {C \in SubsetsUpTo(SpansOf(5, {Kind("LOCATION", "ner-location", 90)}), 2) : Apart(C)}}
TryTails == Try(TailCases)

BoundaryTexts == {<<"a", " ", "a", "m", "a">>, <<"a", "a", " ", " ", "n">>}
BoundaryCases ==
  {[alg |-> "boundaries", text |-> t, resolved |-> {o}, models |-> M] :
     t \in BoundaryTexts,
     o \in SpansOf(5, {Kind("CITY", "context", 98), Kind("PERSON", "context", 98)}),
     M \in SubsetsUpTo(SpansOf(5, {Kind("LOCATION", "ner-location", 90)}), 2)
           \cup {{s, t2} : s \in SpansOf(5, {Kind("LOCATION", "ner-location", 90)}),
                           t2 \in SpansOf(5, {Kind("PERSON", "ner-person", 90)})}}
TryBoundaries == Try(BoundaryCases)

MergeTexts == {<<"k", " ", "a", "n">>}
MergeCases ==
  {[alg |-> "merge", text |-> t, base |-> B, candidates |-> C, named |-> d] :
     t \in MergeTexts, d \in BOOLEAN,
     B \in {{s} : s \in SpansOf(4, {Kind("CITY", "context", 98), Kind("PASSPORT", "context", 98),
                                     Kind("PERSON", "context", 98)})},
     C \in SubsetsUpTo(SpansOf(4, {Kind("PERSON", "ner-person", 90), Kind("LOCATION", "ner-location", 90),
                                   Kind("DRIVER_LICENSE", "ner-structured", 90)}), 2)}
TryMerge == Try(MergeCases)

\* Candidates of any recognizers come out apart, and one is dropped only for a better
\* one that is kept and overlaps it: cutting into clusters and looking at neighbours
\* only loses and adds nothing (_resolve).
ResolvedByRank ==
  Given("resolve") =>
    LET out == Resolve(input.candidates)
        better(t, s) == LexLess(Rank(t), Rank(s))
    IN  /\ Apart(out)
        /\ \A s \in input.candidates :
             s \in out <=> ~\E t \in out : Overlap(s, t) /\ better(t, s)

\* A short address part of a rule does not erase the designator or the number that the
\* model found around it, and the prose there stays unmasked (_preserve_address_tails).
AddressTailsKept ==
  Given("tails") =>
    LET out == PreserveAddressTails(input.text, input.resolved, input.candidates)
        added == out \ input.resolved
        gaps(c) == Gaps(c, AddressTailOverlaps(c, input.resolved))
    IN  /\ input.resolved \subseteq out /\ Apart(out)
        /\ \A s \in added : /\ LooksLikeAddress(input.text, s.start, s.end)
                            /\ \E c \in input.candidates : c.start <= s.start /\ s.end <= c.end
        /\ \A c \in input.candidates : AddressTailOverlaps(c, input.resolved) # <<>> =>
             \A g \in gaps(c) : LET cut == TrimEnds(input.text, g[1], g[2], Separators)
                                IN  cut[1] < cut[2] /\ LooksLikeAddress(input.text, cut[1], cut[2])
                                      => \E s \in added : s.start = cut[1] /\ s.end = cut[2]

\* Cutting the spans of the rules at the model's boundaries keeps every letter and digit
\* covered exactly once, by a span of the same type and provenance inside the old one; it
\* cuts no word and no name (preserve_model_boundaries).
BoundariesKeepCoverage ==
  Given("boundaries") =>
    LET out == PreserveModelBoundaries(input.text, input.resolved, input.models)
    IN  /\ Apart(out)
        /\ UNION {Letters(input.text, o) : o \in input.resolved} = UNION {Letters(input.text, s) : s \in out}
        /\ \A s \in out : \E o \in input.resolved :
             /\ o.start <= s.start /\ s.end <= o.end
             /\ s.type = o.type /\ s.reason = o.reason /\ s.confidence = o.confidence
             /\ o.type \in Atomic => s = o
             /\ \A e \in {s.start, s.end} \ {o.start, o.end} : WordBoundary(input.text, e)

\* A span of the rules that outranks the findings of the model around it loses no letter to
\* any of them and keeps its kind, but for a number that the text leaves unnamed; nothing
\* comes out twice (_merge_ner_candidates).
RulesOutrankModels ==
  Given("merge") =>
    LET out == MergeNerCandidates(input.text, input.base, input.candidates, input.named)
        outranks(b) == \A c \in input.candidates : Overlap(b, c) => ClusterPriority(c) < ClusterPriority(b)
    IN  /\ Apart(out)
        /\ \A b \in input.base : outranks(b) =>
             \A i \in Letters(input.text, b) :
               \E s \in out : /\ Covers(s, i)
                              /\ \/ s.type = b.type
                                 \/ s.reason = "ner-document-kind" /\ b.type = "PASSPORT" /\ ~input.named
=============================================================================
