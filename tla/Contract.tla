------------------------------- MODULE Contract -------------------------------
\* What one part checks and another relies on.  The contract between the gateway and its
\* private NER service: their settings when they start, the shared token, the entities on
\* the wire (src/seif/ner.py, src/seif/ner_contract.py, src/seif/rubert_ner.py,
\* src/scripts/ner_service.py); and the custom rules of a policy, which create_app and
\* detect both look at (src/seif/app.py, src/seif/detector.py).  What the model finds in a chunk is a sequence of items;
\* scores are 0, 1 and 2, which is out of range.
EXTENDS Cases

MaxEntities == 2                   \* 2048 in the code
Legacy == <<"PERSON", "LOCATION">>
NerTypes == {"PERSON", "LOCATION", "EMAIL", "URL"}
\* 2048, 320 and 200 in the code
MaxEntityChars(kind) == CASE kind = "URL" -> 4 [] kind = "EMAIL" -> 3 [] OTHER -> 2

\* --- the settings of the service, its analyzer and its executor ---
BatchSizes == {1, 2, 4, 8, 16, 32}

ValidAnalyzer(s) ==
  CASE s.backend = "rubert" -> s.batch \in BatchSizes /\ (s.batch > 1 => s.decoder = "word")
    [] OTHER -> s.backend \in {"gliner", "presidio"}

SupportedEntities(s) == IF s.backend = "rubert" /\ s.profile = "native" THEN SetToSeq(NerTypes) ELSE Legacy
ValidCapabilities(kinds) == kinds # <<>> /\ ToSet(kinds) \subseteq NerTypes /\ IsInjective(kinds)

ValidCapacity(s) ==
  s.http >= 1 /\ s.jobs \in 1..s.http /\ s.batch \in BatchSizes /\ s.batch <= s.jobs /\ s.wait \in 0..20

\* lifespan up to the executor
Admits(s) ==
  /\ s.demo \/ s.token # ""
  /\ ValidCapacity(s)
  /\ ValidAnalyzer(s) /\ ValidCapabilities(SupportedEntities(s))
  /\ s.batch > 1 => s.backend = "rubert"     \* the only one with analyze_batch

BatchExecutorAccepts(s) == s.batch \in 2..32 /\ s.jobs >= s.batch /\ s.wait \in 0..20
AnalyzeBatchAccepts(s, n) == s.backend = "rubert" /\ s.decoder = "word" /\ n \in 1..s.batch

\* --- authentication: a probe may be anonymous, a credential is always looked at ---
Authenticated(s, path, header) ==
  (path = "health" /\ header = "none") \/ s.demo \/ (s.token # "" /\ header = s.token)

\* --- entities: what the service sends, what the gateway takes ---
InText(e, length) == 0 <= e.start /\ e.start < e.end /\ e.end <= length /\ e.score \in 0..1
ValidateEntity(e, length) ==
  e.kind \in NerTypes /\ InText(e, length) /\ e.end - e.start <= MaxEntityChars(e.kind)

\* the requested types, every item of them valid; or an error
FormatResults(results, kinds, length) ==
  LET items == SelectSeq(results, LAMBDA e : e.kind \in ToSet(kinds)) IN
  IF Len(results) <= MaxEntities /\ \A i \in DOMAIN items : ValidateEntity(items[i], length)
  THEN {SortSeq(items, LAMBDA a, b : a.start < b.start \/ (a.start = b.start /\ a.end < b.end))} ELSE {}

\* one bad text of a batch fails them all
InferBatch(texts, kinds, length) ==
  LET each == [i \in DOMAIN texts |-> FormatResults(texts[i], kinds, length)] IN
  IF \A i \in DOMAIN each : each[i] # {} THEN {[i \in DOMAIN each |-> CHOOSE r \in each[i] : TRUE]} ELSE {}

\* what _parse_entities requires of an answer
AcceptsBody(body, length) ==
  Len(body) <= MaxEntities /\ \A i \in DOMAIN body : ValidateEntity(body[i], length)

\* --- the profiles of RuBERT: their own limits, before the service looks at the result ---
ProfileAccepts(items) ==
  Len(items) <= MaxEntities /\ \A i \in DOMAIN items : items[i].end - items[i].start <= MaxEntityChars(items[i].kind)

\* --- custom rules: type well named, characters of the pattern, compiled, matches "" ---
CustomPattern(rule) == rule.length \in 1..512 /\ rule.compiles /\ ~rule.empty
ValidRule(rule) == rule.named /\ CustomPattern(rule)

MaxRules == 1                      \* 32 in the code
Modes == {"mask", "token", "synthetic"}
ValidatePolicy(p) ==
  /\ p.mode \in p.allowed /\ p.allowed \subseteq Modes
  /\ Len(p.rules) <= MaxRules /\ \A i \in DOMAIN p.rules : ValidRule(p.rules[i])
  /\ p.types \subseteq NerTypes \cup (IF p.rules = <<>> THEN {} ELSE {"CUSTOM"})

\* found[i]: the sizes of the matches of rule i, Late for a deadline that passed among
\* them; the sizes of the candidates, or an error that ends the detection
Late == -1
DetectCustom(rules, found) ==
  IF /\ Len(rules) <= MaxRules
     /\ \A i \in DOMAIN rules : ValidRule(rules[i]) /\ ToSet(found[i]) \subseteq 1..4096
  THEN {FlattenSeq([i \in DOMAIN rules |-> found[i]])} ELSE {}

-----------------------------------------------------------------------------
\* Bounds: chunks of five characters, up to three items in one.
ServiceSettings ==
  [token : {"", "a", "b"}, demo : BOOLEAN, http : {0, 2, 4}, jobs : {0, 1, 2, 4, 8}, batch : {1, 2, 3, 4}, wait : {-1, 0, 20, 21},
   backend : {"rubert", "gliner", "presidio", "spacy"}, decoder : {"word", "published"}, profile : {"native", "person-location"}]
StartCases == {[alg |-> "start", http |-> h, jobs |-> j, batch |-> b] : h \in {0, 2, 4}, j \in {0, 1, 2, 4, 8}, b \in 1..4}
TryStart == Try(StartCases)
Starting == {s \in ServiceSettings : s.http = input.http /\ s.jobs = input.jobs /\ s.batch = input.batch}

Found == {e \in [kind : {"PERSON", "URL", "ORGANIZATION"}, start : {0, 1, 3}, end : {2, 4, 5, 6}, score : {1, 2}] :
            e.score = 2 => e.start = 1 /\ e.end = 2}
WireCases == {[alg |-> "wire", items |-> i, kinds |-> k] :
                i \in BoundedSeq(Found, 2) \cup {<<a, a, a>> : a \in Found}, k \in {Legacy, SetToSeq(NerTypes)}}
TryWire == Try(WireCases)

CustomRules == [named : BOOLEAN, length : {0, 1, 512, 513}, compiles : BOOLEAN, empty : BOOLEAN]
PolicyCases == {[alg |-> "policy", rules |-> r, mode |-> m, allowed |-> a, types |-> t] :
                  r \in BoundedSeq(CustomRules, 1) \cup {<<a, a>> : a \in CustomRules}, m \in {"mask", "guess"},
                  a \in {{"mask"}, Modes, {"mask", "guess"}, {}}, t \in {{}, {"URL"}, {"CUSTOM"}, {"OTHER"}}}
TryPolicy == Try(PolicyCases)

\* lifespan against BatchExecutor.__init__ and predict_native_batch: settings the service
\* admits never fail later, in the executor or with the first full batch.
AdmittedSettingsWork ==
  Given("start") =>
    \A s \in Starting : Admits(s) /\ s.batch > 1 =>
      BatchExecutorAccepts(s) /\ \A n \in 1..s.batch : AnalyzeBatchAccepts(s, n)

\* "a gateway's supplied credential must still be validated so readiness detects a
\* mismatched shared secret" (ner_service.py 87): a gateway whose probe is answered can
\* also send texts, and the other way round.
ReadinessSeesTheToken ==
  Given("start") =>
    \A s \in Starting, token \in {"a", "b"} :
      Admits(s) => Authenticated(s, "health", token) = Authenticated(s, "analyze", token)

\* Whatever the model returns, an answer of the service is one the gateway accepts, alone
\* and in a batch; and what a profile of RuBERT lets pass with offsets in the text never
\* fails in the service (validate_entity, shared by both).
AnswersAreAccepted ==
  Given("wire") =>
    LET length == 5
        answers == FormatResults(input.items, input.kinds, length)
    IN  /\ \A body \in answers : AcceptsBody(body, length)
        /\ InferBatch(<<input.items, <<>> >>, input.kinds, length) = {<<body, <<>> >> : body \in answers}
        /\ /\ ProfileAccepts(input.items)
           /\ \A i \in DOMAIN input.items : InText(input.items[i], length) /\ input.items[i].kind \in NerTypes
           => answers # {}

\* "callers must fail closed, never forward plaintext" (detect): of a policy that
\* create_app admits, detection is ended by a match that is empty, too long or late, behind
\* whatever good ones, and by nothing else; otherwise every match is a candidate.
CustomRulesFailClosed ==
  Given("policy") /\ ValidatePolicy(input) =>
    \A first, second \in BoundedSeq({0, 1, 4096, 4097, Late}, 2) :
      LET found == SubSeq(<<first, second>>, 1, Len(input.rules))
          sizes == FlattenSeq(found)
      IN  DetectCustom(input.rules, found) =
            IF ToSet(sizes) \cap {0, 4097, Late} # {} THEN {} ELSE {sizes}
=============================================================================
