------------------------------- MODULE Windows -------------------------------
\* Long texts reach the models in windows: the chunks of the client
\* (src/seif/ner.py), the subword windows of the RuBERT decoder, read one by one
\* (src/seif/rubert_decoder.py) or in batches (src/seif/rubert_batch.py).
EXTENDS Cases, FiniteSetsExt

\* --- chunks of characters, as <<offset, end>> ---
Chunks(length, size, overlap) ==
  LET from[start \in 0..length] ==
        IF start >= length THEN <<>>
        ELSE IF start + size >= length THEN << <<start, length>> >>
        ELSE << <<start, start + size>> >> \o from[start + size - overlap]
  IN  from[0]

\* how much two chunks share, given the longest entity the service may report (the code's
\* 32 spare characters stand here for one)
ChunkOverlap(longest) == longest + 1

\* what the model says of an entity in a chunk: the part it can see
SeenIn(chunk, entity) ==
  LET start == IF entity[1] < chunk[1] THEN chunk[1] ELSE entity[1]
      end == IF entity[2] > chunk[2] THEN chunk[2] ELSE entity[2]
  IN  IF start < end THEN {<<start, end>>} ELSE {}

\* what touches an edge that is not the text's is dropped
ParseEntities(chunk, entities, length) ==
  {e \in entities : ~(chunk[1] > 0 /\ e[1] = chunk[1]) /\ ~(chunk[2] < length /\ e[2] = chunk[2])}

DetectEntity(length, size, longest, entity) ==
  UNION {ParseEntities(c, SeenIn(c, entity), length) :
           c \in ToSet(Chunks(length, size, ChunkOverlap(longest)))}

\* --- windows of words: counts[i] subwords of word i, at most budget in a window ---
Sum(s) ==
  LET upto[i \in 0..Len(s)] == IF i = 0 THEN 0 ELSE upto[i - 1] + s[i]
  IN  upto[Len(s)]
Least(a, b) == IF a < b THEN a ELSE b
Most(a, b) == IF a > b THEN a ELSE b

WindowEnd(counts, start, budget) ==
  Biggest({e \in start..Len(counts) : Sum(SubSeq(counts, start + 1, e)) <= budget})

\* the first words that have threshold subwords together
MarginWords(counts, threshold) ==
  LET enough == {n \in 1..Len(counts) : Sum(SubSeq(counts, 1, n)) >= threshold}
  IN  IF enough = {} THEN Len(counts) ELSE Smallest(enough)

\* the words of a window that it may label: those with context around them
\* (mutant) its margin on the left although nobody else has labelled it
Ownership_strict(counts, start, end, nextUnwritten, overlap) ==
  LET window == SubSeq(counts, start + 1, end)
      left == IF start = 0 THEN 0 ELSE MarginWords(window, overlap \div 2)
      right == IF end = Len(counts) THEN Len(window)
               ELSE Len(window) - MarginWords(Reverse(window), overlap \div 2) + 1
  IN  <<left, right>>
Ownership(counts, start, end, nextUnwritten, overlap) ==
  LET window == SubSeq(counts, start + 1, end)
      left == IF start = 0 THEN 0 ELSE MarginWords(window, overlap \div 2)
      right == IF end = Len(counts) THEN Len(window)
               ELSE Len(window) - MarginWords(Reverse(window), overlap \div 2) + 1
  IN  <<Most(0, Least(left, nextUnwritten - start)), right>>

WindowOf(start, end, owned) == [start |-> start, end |-> end, left |-> owned[1], right |-> owned[2]]

\* the window from start on; the next one begins before its last overlap subwords
WindowFrom(counts, start, end, unwritten, overlap) ==
  WindowOf(start, end, Ownership(counts, start, end, unwritten, overlap))
NextStart(counts, w, overlap) ==
  Most(w.end - MarginWords(Reverse(SubSeq(counts, w.start + 1, w.end)), overlap), w.start + 1)

\* one turn of the loop, until the text is read
ReadWindow(counts, done, budget, overlap) ==
  LET w == WindowFrom(counts, done.start, WindowEnd(counts, done.start, budget), done.unwritten, overlap)
  IN  IF done.start = Len(counts) THEN done
      ELSE [start |-> IF w.end = Len(counts) THEN w.end ELSE NextStart(counts, w, overlap),
            unwritten |-> Most(done.unwritten, w.start + w.right),
            windows |-> Append(done.windows, w)]

DocumentWindows(counts, budget, overlap) ==
  LET after[i \in 0..Len(counts)] ==
        IF i = 0 THEN [start |-> 0, unwritten |-> 0, windows |-> <<>>]
        ELSE ReadWindow(counts, after[i - 1], budget, overlap)
  IN  after[Len(counts)].windows

\* the subword whose label word i of a window gets: the window starts with a special token
PredictWindow(counts, w, i) ==
  LET boundary(k) == Sum(SubSeq(counts, 1, k))
      offset == boundary(w.start)
      tokens == <<"cls">> \o [t \in 1..(boundary(w.end) - offset) |-> offset + t] \o <<"sep">>
  IN  tokens[boundary(w.start + i - 1) - offset + 2]

Unlabelled == [token |-> 0, start |-> 0, end |-> 0]
Unwritten(counts) == [k \in DOMAIN counts |-> Unlabelled]
WriteWindow(counts, output, w) ==
  [k \in DOMAIN output |->
     IF w.start + w.left < k /\ k <= w.start + w.right
     THEN [token |-> PredictWindow(counts, w, k - w.start), start |-> w.start, end |-> w.end]
     ELSE output[k]]

\* words the tokenizer ignores have no subword and keep the label "O"
Place(i) == <<i>>
Visible(counts) ==
  LET active == SortedBy({i \in DOMAIN counts : counts[i] > 0}, Place)
  IN  [n \in DOMAIN active |-> counts[active[n]]]
PredictWords(counts, windows) ==
  LET after[i \in 0..Len(windows)] ==
        IF i = 0 THEN Unwritten(counts) ELSE WriteWindow(counts, after[i - 1], windows[i])
  IN  after[Len(windows)]

\* --- batches of the windows of several documents ---
LengthBuckets == {4, 6, 8}         \* up to 512 in the code
TokensOf(counts, w) == Sum(SubSeq(counts, w.start + 1, w.end)) + 2
BucketOf(counts, w) == Smallest({b \in LengthBuckets : b >= TokensOf(counts, w)})

\* windows of one bucket, in the order they were prepared, at most maxBatch at a time
Batches(buckets, maxBatch) ==
  LET group(b) == SortedBy({i \in DOMAIN buckets : buckets[i] = b}, Place)
      starts(g) == {k * maxBatch : k \in 0..Len(g)} \cap 0..(Len(g) - 1)
      slice(g, first) == SubSeq(g, first + 1, Least(first + maxBatch, Len(g)))
  IN  UNION {{slice(group(b), first) : first \in starts(group(b))} : b \in ToSet(buckets)}

Of(d, windows) == [i \in DOMAIN windows |-> [document |-> d, window |-> windows[i]]]
Prepared(documents, budget, overlap) ==
  LET upto[d \in 0..Len(documents)] ==
        IF d = 0 THEN <<>> ELSE upto[d - 1] \o Of(d, DocumentWindows(documents[d], budget, overlap))
  IN  upto[Len(documents)]
BucketsOf(documents, prepared) ==
  [i \in DOMAIN prepared |-> BucketOf(documents[prepared[i].document], prepared[i].window)]

\* the windows are written as they were prepared, not as they were predicted
WritePrepared(documents, visible, p) ==
  [visible EXCEPT ![p.document] = WriteWindow(documents[p.document], @, p.window)]
Written(documents, prepared) ==
  LET after[i \in 0..Len(prepared)] ==
        IF i = 0 THEN [d \in DOMAIN documents |-> Unwritten(documents[d])]
        ELSE WritePrepared(documents, after[i - 1], prepared[i])
  IN  after[Len(prepared)]

\* the labels of each document; or an error, if a window has no predictions
WordPredictBatch(documents, budget, overlap, maxBatch) ==
  LET prepared == Prepared(documents, budget, overlap)
      batches == Batches(BucketsOf(documents, prepared), maxBatch)
  IN  IF \A i \in DOMAIN prepared : \E b \in batches : i \in ToSet(b)
      THEN {Written(documents, prepared)} ELSE {}

\* --- contexts of captured graphs: one per shape <<rows, length>>, up to a cap ---
BatchBuckets == {1, 2, 4, 8, 16, 32}
GraphLengths == {32, 64, 128, 256, 512}
MaxContexts == 12
RunBatch(contexts, shape) ==
  IF shape[1] = 1 \/ Cardinality(contexts) >= MaxContexts THEN contexts ELSE contexts \cup {shape}
RunBatches(contexts, shapes) ==
  LET after[i \in 0..Len(shapes)] == IF i = 0 THEN contexts ELSE RunBatch(after[i - 1], shapes[i])
  IN  after[Len(shapes)]

\* the shapes of short documents, before the service is ready
WarmSizes == <<2, 4, 8, 16, 32>>
WarmShapes(maxBatch) == {s \in ToSet(WarmSizes) \X {32, 64} : s[1] <= maxBatch}
WarmupBatches(maxBatch) ==
  LET after[i \in 0..Len(WarmSizes)] ==
        IF i = 0 THEN {}
        ELSE IF WarmSizes[i] > maxBatch THEN after[i - 1]
        ELSE RunBatches(after[i - 1], << <<WarmSizes[i], 32>>, <<WarmSizes[i], 64>> >>)
  IN  after[Len(WarmSizes)]

-----------------------------------------------------------------------------
\* Bounds: texts of ten characters; six words of up to four subwords, windows of six.
ChunkCases == {[alg |-> "chunks", length |-> n, size |-> s, longest |-> l, entity |-> e] :
                 n \in 1..10, s \in 4..6, l \in 1..2, e \in Intervals(10)}
TryChunks == Try({c \in ChunkCases : c.entity[2] <= c.length /\ c.entity[2] - c.entity[1] <= c.longest})

Budget == 6
WindowCases == {[alg |-> "windows", counts |-> c, budget |-> Budget, overlap |-> o] :
                  c \in UNION {[1..n -> {0, 1, 2, 4, 6}] : n \in 1..6}, o \in {2, 4}}
TryWindows == Try({c \in WindowCases : Visible(c.counts) # <<>>})

BatchCases == {[alg |-> "batch", documents |-> <<c, d>>, budget |-> Budget, overlap |-> 2, maxBatch |-> m] :
                 c \in [1..5 -> 1..3], d \in UNION {[1..n -> 1..2] : n \in 0..2}, m \in {1, 2}}
TryBatch == Try(BatchCases)

GraphCases == {[alg |-> "graphs", shapes |-> s] : s \in [1..3 -> BatchBuckets \X GraphLengths]}
TryGraphs == Try(GraphCases)

\* An entity no longer than the service may report is found whole, and only whole, wherever
\* the chunks cut the text (_parse_entities).
ChunksFindWhole ==
  Given("chunks") =>
    DetectEntity(input.length, input.size, input.longest, input.entity) = {input.entity}

\* Every word the tokenizer knows is labelled by its own first subword, in a window that fits
\* the model and has half the overlap on both sides of the word; only a word wider than the
\* rest of a window can take that context from its neighbours (_ownership).
LabelledInContext ==
  Given("windows") =>
    LET counts == Visible(input.counts)
        half == input.overlap \div 2
        out == PredictWords(counts, DocumentWindows(counts, input.budget, input.overlap))
        width(a, b) == Sum(SubSeq(counts, a, b))
        narrow == \A i \in DOMAIN counts : 2 * counts[i] <= input.budget - input.overlap
    IN  \A k \in DOMAIN counts :
          LET w == out[k]
          IN  /\ w.token = width(1, k - 1) + 1
              /\ width(w.start + 1, w.end) <= input.budget
              /\ \/ w.end = Len(counts) \/ width(k, w.end) >= half
                 \/ counts[w.end + 1] > input.budget - half
              /\ narrow /\ w.start > 0 => width(w.start + 1, k - 1) >= half

\* Batching changes no label: every window is predicted once, in a batch of windows that
\* fit one length of the model, and a document gets what it gets alone (word_predict_batch).
BatchingChangesNothing ==
  Given("batch") =>
    LET documents == input.documents
        Alone(c) == PredictWords(c, DocumentWindows(c, input.budget, input.overlap))
        prepared == Prepared(documents, input.budget, input.overlap)
        buckets == BucketsOf(documents, prepared)
        batches == Batches(buckets, input.maxBatch)
        FitsIn(i, size) ==
          buckets[i] = size /\ TokensOf(documents[prepared[i].document], prepared[i].window) <= size
    IN  /\ WordPredictBatch(documents, input.budget, input.overlap, input.maxBatch) =
             {[d \in DOMAIN documents |-> Alone(documents[d])]}
        /\ \A i \in DOMAIN prepared : Cardinality({b \in batches : i \in ToSet(b)}) = 1
        /\ \A b \in batches : /\ Len(b) \in 1..input.maxBatch
                              /\ \E size \in LengthBuckets : \A i \in ToSet(b) : FitsIn(i, size)

\* No traffic takes the captured graphs of short documents away that the warmup made, and
\* the graphs stay bounded (BatchGraphBackend.run, _warmup_batches).
WarmGraphsStay ==
  Given("graphs") =>
    LET contexts == RunBatches(WarmupBatches(32), input.shapes)
    IN  /\ WarmShapes(32) \subseteq contexts
        /\ Cardinality(contexts) <= MaxContexts

\* Cutting a text into chunks and windows, batching them, and running the batches on cached
\* graphs changes no entity and no label.
WindowsSound ==
  ChunksFindWhole /\ LabelledInContext /\ BatchingChangesNothing /\ WarmGraphsStay
=============================================================================
