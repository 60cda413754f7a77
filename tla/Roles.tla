-------------------------------- MODULE Roles --------------------------------
\* Which of the model's names are accepted, and how much of them: a leading role word
\* ("client") is cut off, a name that a rule or a name field owns stays whole
\* (src/seif/detector.py).  A text is a sequence of tokens, offsets count tokens:
\* "R" a role word, "N" any other name word, ":" a label delimiter, "_" a blank,
\* "F" a name field with its delimiter, "." other punctuation.
EXTENDS Cases

Words == {"R", "N"}
At(text, i) == IF 0 <= i /\ i < Len(text) THEN text[i + 1] ELSE "."
RoleAt(text, i) == At(text, i) = "R" /\ At(text, i - 1) \notin Words /\ At(text, i + 1) \notin Words

SkipBlanks(text, i) == Smallest({j \in i..Len(text) : At(text, j) # "_"})

\* what separates a role from its value: a label delimiter or blanks alone
Separator(text, i) ==
  LET j == SkipBlanks(text, i)
  IN  CASE At(text, j) = ":" -> [end |-> SkipBlanks(text, j + 1), label |-> TRUE]
        [] At(text, j) # ":" /\ j > i -> [end |-> j, label |-> FALSE]
        [] OTHER -> [end |-> -1, label |-> FALSE]

Dropped == -1

\* repeated labels are cut, a repeated bare word may be a surname
TrimRepeatedRoles(text, span, start) ==
  LET trim[i \in 0..Len(text)] ==
        LET sep == Separator(text, i + 1)
        IN  IF ~RoleAt(text, i) \/ i + 1 > span.end \/ ~sep.label THEN i
            ELSE IF sep.end >= span.end THEN Dropped ELSE trim[sep.end]
  IN  trim[start]

\* a name field whose value may still be running: the field, then at most four words
NameField(text, start) ==
  \E i \in 0..(start - 1) :
    /\ At(text, i) = "F"
    /\ \A j \in (i + 1)..(start - 1) : At(text, j) \in Words \cup {"_"}
    /\ Cardinality({j \in (i + 1)..(start - 1) : At(text, j) \in Words}) <= 4
    /\ start = i + 1 \/ At(text, start - 1) = "_"

\* core: the names of the rules; starts: where the model's names begin
TrimPersonRole(text, span, core, starts) ==
  LET sep == Separator(text, span.start + 1)
      start == TrimRepeatedRoles(text, span, sep.end)
  IN  IF \/ ~RoleAt(text, span.start) \/ \E c \in core : Covers(c, span.start)
         \/ NameField(text, span.start) \/ sep.end = -1
      THEN {span}
      ELSE IF sep.end >= span.end THEN (IF sep.label \/ sep.end \in starts THEN {} ELSE {span})
      ELSE IF start = Dropped THEN {} ELSE {[span EXCEPT !.start = start]}

\* candidates arrive in the model's order; of equal names the best score counts
Better(new, old) == new.confidence > old.confidence

AcceptNerCandidates(text, candidates, core) ==
  LET starts == {s.start : s \in ToSet(candidates)}
      same(s, t) == s.start = t.start /\ s.end = t.end
      accept(accepted, s) ==
        LET old == {t \in accepted : same(s, t)}
        IN  IF \E c \in core : same(c, s) THEN accepted
            ELSE IF \A t \in old : Better(s, t) THEN (accepted \ old) \cup {s} ELSE accepted
  IN  FoldLeft(LAMBDA accepted, span :
                 IF \E c \in core : same(c, span) THEN accepted
                 ELSE FoldLeft(accept, accepted, SetToSeq(TrimPersonRole(text, span, core, starts))),
               {}, candidates)

-----------------------------------------------------------------------------
\* Bounds: texts of five tokens without touching words, one candidate for the trimming;
\* two candidates with two scores on shorter texts for the acceptance.
RoleTexts(n) == {t \in [1..n -> {"R", "N", ":", "_", "F"}] :
                   /\ \A i \in 1..(n - 1) : ~(t[i] \in Words /\ t[i + 1] \in Words)
                   /\ \A i \in 2..n : t[i] # "F"}
NameSpans(t, scores) == {s \in [start : 0..(Len(t) - 1), end : 1..Len(t), confidence : scores] :
                    s.start < s.end /\ At(t, s.start) \in Words /\ At(t, s.end - 1) \in Words}
TrimCases == UNION {{[alg |-> "trim", text |-> t, span |-> s, core |-> C] :
                       s \in NameSpans(t, {90}), C \in SubsetsUpTo(NameSpans(t, {98}), 1)} :
                      t \in RoleTexts(5)}
TryTrim == Try(TrimCases)

AcceptTexts == {<<"R", ":", "_", "N">>, <<"R", "_", "R", ":", "N">>, <<"F", "R", "_", "N">>}
AcceptCases == UNION {{[alg |-> "accept", text |-> t, candidates |-> c] :
                         c \in [1..2 -> NameSpans(t, {80, 90})]} : t \in AcceptTexts}
TryAccept == Try(AcceptCases)

\* Only role words and what separates them are cut from the model's name; a bare role
\* word behind a label stays, and so does every name of a rule or of a name field
\* (_trim_ner_person_role).
TrimKeepsNames ==
  Given("trim") =>
    LET text == input.text
        span == input.span
        out == TrimPersonRole(text, span, input.core, {span.start})
        rest == IF out = {} THEN span.end ELSE (CHOOSE s \in out : TRUE).start
        cut == span.start..(rest - 1)
    IN  /\ \A s \in out : s.end = span.end /\ span.start <= s.start /\ s.start < s.end
        /\ \A i \in cut : At(text, i) # "N"
        /\ \A i \in cut \ {span.start} : At(text, i) = "R" => At(text, SkipBlanks(text, i + 1)) = ":"
        /\ out # {span} => /\ ~NameField(text, span.start)
                           /\ \A c \in input.core : ~Covers(c, span.start)
        /\ out # {} /\ out # {span} /\ RoleAt(text, rest) => ~Separator(text, rest + 1).label

\* The order in which the model lists its names decides nothing: each accepted name has
\* the best score given to it (_accept_ner_candidates).
BestScoreKept ==
  Given("accept") =>
    LET c == input.candidates
        out == AcceptNerCandidates(input.text, c, {})
        offered == UNION {TrimPersonRole(input.text, s, {}, {t.start : t \in ToSet(c)}) : s \in ToSet(c)}
    IN  /\ out = AcceptNerCandidates(input.text, <<c[2], c[1]>>, {})
        /\ \A s \in offered : \E t \in out : /\ s.start = t.start /\ s.end = t.end
                                             /\ s.confidence <= t.confidence
=============================================================================
