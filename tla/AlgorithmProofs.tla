---------------------------- MODULE AlgorithmProofs ----------------------------
(***************************************************************************)
(* Proofs about the pure functions of Spans, Transform and Windows, for    *)
(* inputs of any size: candidates are resolved by rank, address tails are  *)
(* kept, the models' boundaries and the merge lose no letter, what masking *)
(* replaces comes back, and however a text is cut into chunks, windows and *)
(* batches, it gets the entities and labels it would get whole.            *)
(***************************************************************************)
EXTENDS Transform, Spans, Windows, FiniteSetTheorems, NaturalsInduction,
        WellFoundedInduction, SequenceTheorems, TLAPS

-----------------------------------------------------------------------------
(* Induction over numbers, without an operator as a parameter.             *)

\* Every set of numbers has a least one.
LEMMA LeastOf ==
  ASSUME NEW S, S \subseteq Nat, S # {}
  PROVE  \E x \in S : \A y \in S : x <= y
<1>1. PICK x \in S : \A y \in S : ~(<<y, x>> \in OpToRel(<, Nat))
  <2> DEFINE R == OpToRel(<, Nat)
  <2>1. IsWellFoundedOn(R, Nat)
    BY NatLessThanWellFounded
  <2> HIDE DEF R
  <2>2. \E x \in S : \A y \in S : ~(<<y, x>> \in R)
    BY <2>1, WFMin, Zenon
  <2>3. QED  BY <2>2 DEF R
<1>2. ASSUME NEW y \in S PROVE x <= y
  <2>1. x \in Nat /\ y \in Nat
    OBVIOUS
  <2>2. y < x => <<y, x>> \in OpToRel(<, Nat)
    BY <2>1 DEF OpToRel
  <2>3. ~(<<y, x>> \in OpToRel(<, Nat))
    BY <1>1, Zenon
  <2>4. ~(y < x)
    BY <2>2, <2>3, Zenon
  <2>5. QED  BY <2>1, <2>4
<1>3. QED  BY <1>2

\* What holds of 0 and passes from each number to the next holds up to n.
LEMMA InductionTo ==
  ASSUME NEW n \in Nat, NEW S, 0 \in S, \A i \in 0..(n - 1) : i \in S => i + 1 \in S
  PROVE  \A i \in 0..n : i \in S
<1> DEFINE Bad == (0..n) \ S
<1>1. SUFFICES ASSUME Bad # {} PROVE FALSE
  OBVIOUS
<1>2. PICK k \in Bad : \A j \in Bad : k <= j
  <2>1. Bad \subseteq Nat
    OBVIOUS
  <2> HIDE DEF Bad
  <2>2. QED  BY <1>1, <2>1, LeastOf
<1>3. k \in 0..n /\ k \notin S /\ k # 0
  OBVIOUS
<1>4. k - 1 \in 0..(n - 1) /\ k - 1 \in 0..n /\ ~(k <= k - 1) /\ (k - 1) + 1 = k
  BY <1>3
<1>5. k - 1 \in S
  <2>1. k - 1 \notin Bad
    <3> HIDE DEF Bad
    <3>1. QED  BY <1>2, <1>4
  <2>2. QED  BY <1>4, <2>1
<1>6. QED  BY <1>3, <1>4, <1>5

\* A step can be repeated n times.
StepOn(n, D, step) == step \in [(1..n) \X D -> D]
Repeats(n, D, base, step) ==
  \E f \in [0..n -> D] : f[0] = base /\ \A i \in 1..n : f[i] = step[<<i, f[i - 1]>>]

LEMMA Iterated ==
  ASSUME NEW n \in Nat, NEW D, NEW base \in D, NEW step, StepOn(n, D, step)
  PROVE  Repeats(n, D, base, step)
<1> DEFINE S == {k \in 0..n : \E f \in [0..k -> D] :
                   f[0] = base /\ \A i \in 1..k : f[i] = step[<<i, f[i - 1]>>]}
<1>1. 0 \in S
  <2> DEFINE f == [i \in 0..0 |-> base]
  <2>1. f \in [0..0 -> D] /\ f[0] = base /\ \A i \in 1..0 : f[i] = step[<<i, f[i - 1]>>]
    OBVIOUS
  <2> HIDE DEF f
  <2>2. QED  BY <2>1
<1>2. ASSUME NEW k \in 0..(n - 1), k \in S PROVE k + 1 \in S
  <2>1. PICK f \in [0..k -> D] : f[0] = base /\ \A i \in 1..k : f[i] = step[<<i, f[i - 1]>>]
    BY <1>2
  <2> DEFINE g == [i \in 0..(k + 1) |-> IF i <= k THEN f[i] ELSE step[<<k + 1, f[k]>>]]
  <2>2. step[<<k + 1, f[k]>>] \in D
    <3>1. <<k + 1, f[k]>> \in (1..n) \X D
      OBVIOUS
    <3>2. QED  BY <3>1 DEF StepOn
  <2>3. g \in [0..(k + 1) -> D] /\ g[0] = base
    BY <2>1, <2>2
  <2>4. ASSUME NEW i \in 1..(k + 1) PROVE g[i] = step[<<i, g[i - 1]>>]
    <3>1. CASE i <= k
      <4>1. i \in 1..k /\ g[i] = f[i] /\ g[i - 1] = f[i - 1]
        BY <3>1
      <4>2. QED  BY <2>1, <4>1
    <3>2. CASE ~(i <= k)
      <4>1. i = k + 1 /\ g[i - 1] = f[k] /\ g[i] = step[<<k + 1, f[k]>>]
        BY <3>2
      <4>2. QED  BY <4>1
    <3>3. QED  BY <3>1, <3>2
  <2> HIDE DEF g
  <2>5. k + 1 \in 0..n
    OBVIOUS
  <2>6. QED  BY <2>3, <2>4, <2>5
<1> HIDE DEF S
<1>3. n \in S
  <2>1. n \in 0..n
    OBVIOUS
  <2>2. QED  BY <1>1, <1>2, <2>1, InductionTo
<1>4. QED  BY <1>3 DEF S, Repeats

-----------------------------------------------------------------------------
(* Pieces of a text.                                                       *)

LEMMA PieceIs ==
  ASSUME NEW A, NEW s \in Seq(A), NEW a \in Nat, NEW b \in Nat, a <= b, b <= Len(s)
  PROVE  /\ Piece(s, a, b) \in Seq(A) /\ Len(Piece(s, a, b)) = b - a
         /\ \A k \in 1..(b - a) : Piece(s, a, b)[k] = s[a + k]
<1>1. PICK n \in Nat : n = Len(s)
  OBVIOUS
<1>2. Piece(s, a, b) = SubSeq(s, a + 1, b)
  BY DEF Piece
<1>3. Len(SubSeq(s, a + 1, b)) = b - a /\ \A k \in 1..(b - a) : SubSeq(s, a + 1, b)[k] = s[a + k]
  BY <1>1
<1>4. SubSeq(s, a + 1, b) \in Seq(A)
  BY <1>1
<1>5. QED  BY <1>2, <1>3, <1>4

LEMMA PieceOfJoin ==
  ASSUME NEW A, NEW u \in Seq(A), NEW v \in Seq(A), NEW w \in Seq(A)
  PROVE  Piece((u \o v) \o w, Len(u), Len(u) + Len(v)) = v
<1>1. PICK a \in Nat, b \in Nat, c \in Nat : a = Len(u) /\ b = Len(v) /\ c = Len(w)
  OBVIOUS
<1>2. PICK t : t = u \o v
  OBVIOUS
<1>3. t \in Seq(A) /\ Len(t) = a + b /\ \A k \in 1..b : t[a + k] = v[k]
  <2>1. ASSUME NEW k \in 1..b PROVE t[a + k] = v[k]
    <3>1. a + k \in 1..(a + b) /\ ~(a + k <= a) /\ (a + k) - a = k
      OBVIOUS
    <3>2. QED  BY <1>1, <1>2, <3>1, ConcatProperties
  <2>2. QED  BY <1>1, <1>2, <2>1, ConcatProperties
<1>4. PICK s : s = t \o w
  OBVIOUS
<1>5. s \in Seq(A) /\ Len(s) = a + b + c /\ \A k \in 1..b : s[a + k] = v[k]
  <2>1. ASSUME NEW k \in 1..b PROVE s[a + k] = t[a + k]
    <3>1. a + k \in 1..((a + b) + c) /\ a + k <= a + b
      OBVIOUS
    <3>2. QED  BY <1>1, <1>3, <1>4, <3>1, ConcatProperties
  <2>2. s \in Seq(A) /\ Len(s) = Len(t) + Len(w)
    BY <1>3, <1>4, ConcatProperties
  <2>3. QED  BY <1>1, <1>3, <2>1, <2>2
<1>6. Piece(s, a, a + b) \in Seq(A) /\ Len(Piece(s, a, a + b)) = b /\ \A k \in 1..b : Piece(s, a, a + b)[k] = s[a + k]
  <2>1. PICK e \in Nat : e = a + b
    OBVIOUS
  <2>2. s \in Seq(A) /\ a <= e /\ e <= Len(s) /\ e - a = b
    BY <1>5, <2>1
  <2>3. /\ Piece(s, a, e) \in Seq(A) /\ Len(Piece(s, a, e)) = e - a
        /\ \A k \in 1..(e - a) : Piece(s, a, e)[k] = s[a + k]
    BY <2>2, PieceIs, ZenonT(40)
  <2>4. QED  BY <2>1, <2>2, <2>3
<1>7. Piece(s, a, a + b) = v
  <2>1. Len(Piece(s, a, a + b)) = Len(v) /\ \A k \in 1..Len(v) : Piece(s, a, a + b)[k] = v[k]
    BY <1>1, <1>5, <1>6
  <2>2. \A k \in 1..Len(Piece(s, a, a + b)) : Piece(s, a, a + b)[k] = v[k]
    BY <2>1
  <2>3. QED  BY <1>6, <2>1, <2>2, SeqEqual
<1>8. QED  BY <1>1, <1>2, <1>4, <1>7

LEMMA PiecesJoin ==
  ASSUME NEW A, NEW s \in Seq(A), NEW a \in Nat, NEW b \in Nat, NEW c \in Nat, a <= b, b <= c, c <= Len(s)
  PROVE  Piece(s, a, b) \o Piece(s, b, c) = Piece(s, a, c)
<1>1. PICK n \in Nat : n = Len(s)
  OBVIOUS
<1>2. a + 1 \in 1..(n + 1) /\ b \in ((a + 1) - 1)..n /\ c \in b..n
  BY <1>1
<1>3. SubSeq(s, a + 1, b) \o SubSeq(s, b + 1, c) = SubSeq(s, a + 1, c)
  BY <1>1, <1>2, ConcatAdjacentSubSeq
<1>4. QED  BY <1>3 DEF Piece

\* The same from the start of the text, up to a stop that lies in it.
Stops(A, s, a, b) == s \in Seq(A) /\ a \in Nat /\ b \in Nat /\ a <= b /\ b <= Len(s)

LEMMA PieceGrows ==
  ASSUME NEW A, NEW s, NEW a, NEW b, Stops(A, s, a, b)
  PROVE  Piece(s, 0, a) \o Piece(s, a, b) = Piece(s, 0, b)
<1>1. s \in Seq(A) /\ 0 \in Nat /\ a \in Nat /\ b \in Nat /\ 0 <= a /\ a <= b /\ b <= Len(s)
  BY DEF Stops
<1>2. QED  BY <1>1, PiecesJoin

LEMMA WholePiece ==
  ASSUME NEW A, NEW s \in Seq(A)
  PROVE  Piece(s, 0, Len(s)) = s /\ Piece(s, 0, 0) = <<>>
<1>1. SubSeq(s, 1, Len(s)) = s
  BY SubSeqFull
<1>2. SubSeq(s, 1, 0) = <<>>
  BY SubSeqEmpty
<1>3. QED  BY <1>1, <1>2 DEF Piece

-----------------------------------------------------------------------------
(* Masking and restoring.                                                  *)

\* The spans that detect returns: in the text, in order, apart and not empty.
SpansInOrder(text, spans) ==
  /\ \A i \in 1..Len(spans) : /\ spans[i].start \in Nat /\ spans[i].end \in Nat
                              /\ spans[i].start < spans[i].end /\ spans[i].end <= Len(text)
  /\ \A i \in 2..Len(spans) : spans[i - 1].end <= spans[i].start

\* Whatever the mode, a value is replaced by something that is not empty.
LEMMA ReplacementIs ==
  ASSUME NEW A, NEW text, NEW spans, NEW mode, NEW i,
         Value(text, spans[i]) \in Seq(A), Value(text, spans[i]) # <<>>
  PROVE  \E B : replacement_of(text, spans, mode, i) \in Seq(B) \ {<<>>}
<1>1. shape_mask(Value(text, spans[i])) \in Seq(A \cup {"#", "*"}) \ {<<>>}
  <2> DEFINE v == Value(text, spans[i])
             shape == [j \in DOMAIN v |-> IF IsToken(v[j]) THEN "#" ELSE IF v[j] \in {"a", "b"} THEN "*" ELSE v[j]]
  <2>1. PICK n \in Nat : n = Len(v)
    OBVIOUS
  <2>2. n # 0 /\ DOMAIN v = 1..n /\ \A j \in 1..n : v[j] \in A
    BY <2>1
  <2> HIDE DEF v
  <2>3. \A j \in 1..n : shape[j] \in A \cup {"#", "*"}
    BY <2>2
  <2>4. DOMAIN shape = 1..n /\ shape = [j \in 1..n |-> shape[j]]
    BY <2>2
  <2> HIDE DEF shape
  <2>5. shape \in [1..n -> A \cup {"#", "*"}]
    BY <2>3, <2>4
  <2>6. shape \in Seq(A \cup {"#", "*"}) /\ Len(shape) = n
    BY <2>5
  <2>7. shape # <<>>
    BY <2>2, <2>6
  <2>8. QED  BY <2>6, <2>7 DEF shape_mask, shape, v
<1>2. CASE replacement_of(text, spans, mode, i) = shape_mask(Value(text, spans[i]))
  BY <1>1, <1>2
<1>3. CASE \E x : replacement_of(text, spans, mode, i) = <<x>>
  <2>1. PICK x : replacement_of(text, spans, mode, i) = <<x>>
    BY <1>3
  <2>2. <<x>> \in Seq({x}) \ {<<>>}
    OBVIOUS
  <2>3. QED  BY <2>1, <2>2
<1>4. \/ replacement_of(text, spans, mode, i) = shape_mask(Value(text, spans[i]))
      \/ \E x : replacement_of(text, spans, mode, i) = <<x>>
  <2> DEFINE identity(j) == <<spans[j].type, Value(text, spans[j])>>
             first == Smallest({j \in 1..i : identity(j) = identity(i)})
             ordinal == Cardinality({identity(j) : j \in 1..first})
  <2>1. CASE mode = "mask"
    BY <2>1 DEF replacement_of
  <2>2. CASE mode = "token"
    <3>1. replacement_of(text, spans, mode, i) = <<Drawn(text, ordinal)>>
      BY <2>2 DEF replacement_of
    <3>2. QED  BY <3>1
  <2>3. CASE mode # "mask" /\ mode # "token"
    <3>1. replacement_of(text, spans, mode, i) = synthetic_value(spans[i].type, Value(text, spans[i]), ordinal)
      BY <2>3 DEF replacement_of
    <3> HIDE DEF ordinal
    <3>2. CASE spans[i].type = "PERSON"
      BY <3>1, <3>2 DEF synthetic_value
    <3>3. CASE spans[i].type = "CITY"
      BY <3>1, <3>3 DEF synthetic_value
    <3>4. CASE spans[i].type # "PERSON" /\ spans[i].type # "CITY"
      BY <3>1, <3>4 DEF synthetic_value
    <3>5. QED  BY <3>2, <3>3, <3>4
  <2>4. QED  BY <2>1, <2>2, <2>3
<1>5. QED  BY <1>2, <1>3, <1>4

\* What is shown in front of the i-th span.
Shown(text, spans, i) == Piece(text, LeftOff(spans, i), spans[i].start)

LEMMA ShownIs ==
  ASSUME NEW A, NEW text \in Seq(A), NEW S, NEW spans \in Seq(S), SpansInOrder(text, spans),
         NEW i \in 1..Len(spans)
  PROVE  /\ LeftOff(spans, i) \in Nat /\ LeftOff(spans, i) <= spans[i].start
         /\ Shown(text, spans, i) \in Seq(A)
         /\ Value(text, spans[i]) \in Seq(A) /\ Value(text, spans[i]) # <<>>
<1>1. PICK n \in Nat : n = Len(spans)
  OBVIOUS
<1>2. PICK a \in Nat, b \in Nat, t \in Nat : a = spans[i].start /\ b = spans[i].end /\ t = Len(text) /\ a < b /\ b <= t
  BY DEF SpansInOrder
<1>3. LeftOff(spans, i) \in Nat /\ LeftOff(spans, i) <= a
  <2>1. CASE i = 1
    BY <1>2, <2>1 DEF LeftOff
  <2>2. CASE i # 1
    <3>1. i \in 2..n /\ i - 1 \in 1..n
      BY <1>1, <2>2
    <3>2. spans[i - 1].end \in Nat /\ spans[i - 1].end <= spans[i].start
      BY <1>1, <3>1 DEF SpansInOrder
    <3>3. QED  BY <1>2, <2>2, <3>2 DEF LeftOff
  <2>3. QED  BY <2>1, <2>2
<1>4. PICK o \in Nat : o = LeftOff(spans, i)
  BY <1>3
<1>5. o <= a /\ a <= Len(text) /\ a <= b /\ b <= Len(text)
  BY <1>2, <1>3, <1>4
<1>6. Piece(text, o, a) \in Seq(A)
  BY <1>5, PieceIs
<1>7. Piece(text, a, b) \in Seq(A) /\ Len(Piece(text, a, b)) = b - a
  BY <1>5, PieceIs
<1>8. Piece(text, a, b) # <<>>
  BY <1>2, <1>7
<1>9. QED  BY <1>2, <1>3, <1>4, <1>6, <1>7, <1>8 DEF Shown, Value

\* The record of mask: m[i] is the mask up to the i-th span, r[i] what takes its place.
ItemsOf(text, spans, m, r) ==
  [i \in 1..Len(spans) |->
     [start |-> Len(m[i - 1] \o Shown(text, spans, i)), end |-> Len(m[i]),
      original |-> Value(text, spans[i]), replacement |-> r[i]]]
MaskedBy(text, spans, m, r, record) ==
  /\ m[0] = <<>> /\ \A i \in 1..Len(spans) : m[i] = (m[i - 1] \o Shown(text, spans, i)) \o r[i]
  /\ record = [masked |-> m[Len(spans)] \o Piece(text, LeftOff(spans, Len(spans) + 1), Len(text)),
               replacements |-> ItemsOf(text, spans, m, r)]

LEMMA CommonLetters ==
  ASSUME NEW A, NEW n \in Nat, NEW r, \A i \in 1..n : \E B : r[i] \in Seq(B) \ {<<>>}
  PROVE  \E B : A \subseteq B /\ \A i \in 1..n : r[i] \in Seq(B) \ {<<>>}
<1> DEFINE of(i) == CHOOSE B : r[i] \in Seq(B) \ {<<>>}
           B == A \cup UNION {of(i) : i \in 1..n}
<1>1. ASSUME NEW i \in 1..n PROVE r[i] \in Seq(B) \ {<<>>}
  <2>1. r[i] \in Seq(of(i)) \ {<<>>}
    <3>1. \E C : r[i] \in Seq(C) \ {<<>>}
      OBVIOUS
    <3>2. QED  BY <3>1
  <2>2. of(i) \subseteq B
    OBVIOUS
  <2> HIDE DEF of, B
  <2>3. r[i] \in Seq(B)
    BY <2>1, <2>2, SeqMonotonic
  <2>4. QED  BY <2>1, <2>3
<1>2. A \subseteq B
  OBVIOUS
<1> HIDE DEF B
<1>3. QED  BY <1>1, <1>2

\* One turn of the loop appends what is shown, what replaces the span, and its item.
LEMMA ReplaceIs ==
  ASSUME NEW text, NEW spans, NEW mode, NEW i, NEW done
  PROVE  ReplaceSpan(text, spans, mode, done, i) =
           [masked |-> (done.masked \o Shown(text, spans, i)) \o replacement_of(text, spans, mode, i),
            replacements |-> Append(done.replacements,
              [start |-> Len(done.masked \o Shown(text, spans, i)),
               end |-> Len((done.masked \o Shown(text, spans, i)) \o replacement_of(text, spans, mode, i)),
               original |-> Value(text, spans[i]), replacement |-> replacement_of(text, spans, mode, i)])]
BY DEF ReplaceSpan, Shown

\* What mask returns, in one piece.
LEMMA MaskIs ==
  ASSUME NEW A, NEW text \in Seq(A), NEW S, NEW spans \in Seq(S), SpansInOrder(text, spans), NEW mode
  PROVE  \E B : A \subseteq B /\
           \E m \in [0..Len(spans) -> Seq(B)], r \in [1..Len(spans) -> Seq(B) \ {<<>>}] :
             MaskedBy(text, spans, m, r, mask(text, spans, mode))
<1>1. PICK n \in Nat : n = Len(spans)
  OBVIOUS
<1>2. PICK q : q = [i \in 1..n |-> replacement_of(text, spans, mode, i)]
  OBVIOUS
<1>3. \A i \in 1..n : q[i] = replacement_of(text, spans, mode, i)
  BY <1>2
<1>4. \A i \in 1..n : \E B : q[i] \in Seq(B) \ {<<>>}
  <2> TAKE i \in 1..n
  <2>1. Value(text, spans[i]) \in Seq(A) /\ Value(text, spans[i]) # <<>>
    BY <1>1, ShownIs
  <2>2. \E B : replacement_of(text, spans, mode, i) \in Seq(B) \ {<<>>}
    BY <2>1, ReplacementIs
  <2>3. QED  BY <1>3, <2>2
<1>5. PICK B : A \subseteq B /\ \A i \in 1..n : q[i] \in Seq(B) \ {<<>>}
  BY <1>4, CommonLetters
<1>6. text \in Seq(B) /\ q \in [1..n -> Seq(B) \ {<<>>}]
  BY <1>2, <1>5, SeqMonotonic
<1>7. \A i \in 1..n : Shown(text, spans, i) \in Seq(B) /\ Value(text, spans[i]) \in Seq(B)
  BY <1>1, <1>6, ShownIs
<1> DEFINE I == [start : Nat, end : Nat, original : Seq(B), replacement : Seq(B)]
           D == [masked : Seq(B), replacements : Seq(I)]
           base == [masked |-> <<>>, replacements |-> <<>>]
           step == [w \in (1..n) \X D |-> ReplaceSpan(text, spans, mode, w[2], w[1])]
<1>8. base \in D
  OBVIOUS
<1>9. ASSUME NEW i \in 1..n, NEW d \in D
      PROVE  /\ ReplaceSpan(text, spans, mode, d, i) \in D
             /\ ReplaceSpan(text, spans, mode, d, i).masked = (d.masked \o Shown(text, spans, i)) \o q[i]
             /\ ReplaceSpan(text, spans, mode, d, i).replacements =
                  Append(d.replacements,
                    [start |-> Len(d.masked \o Shown(text, spans, i)),
                     end |-> Len((d.masked \o Shown(text, spans, i)) \o q[i]),
                     original |-> Value(text, spans[i]), replacement |-> q[i]])
  <2>1. PICK x \in Seq(B), s \in Seq(B), v \in Seq(B), y \in Seq(B), l \in Seq(I) :
          x = d.masked /\ s = Shown(text, spans, i) /\ v = Value(text, spans[i]) /\ y = q[i] /\ l = d.replacements
    <3>1. d.masked \in Seq(B) /\ d.replacements \in Seq(I)
      OBVIOUS
    <3>2. Shown(text, spans, i) \in Seq(B) /\ Value(text, spans[i]) \in Seq(B) /\ q[i] \in Seq(B)
      BY <1>6, <1>7
    <3> HIDE DEF I, D
    <3>3. QED  BY <3>1, <3>2
  <2>2. ReplaceSpan(text, spans, mode, d, i) =
          [masked |-> (x \o s) \o y,
           replacements |-> Append(l, [start |-> Len(x \o s), end |-> Len((x \o s) \o y), original |-> v, replacement |-> y])]
    BY <1>3, <2>1, ReplaceIs, Zenon
  <2>3. x \o s \in Seq(B) /\ (x \o s) \o y \in Seq(B)
    OBVIOUS
  <2>4. [start |-> Len(x \o s), end |-> Len((x \o s) \o y), original |-> v, replacement |-> y] \in I
    BY <2>3
  <2> HIDE DEF I
  <2>5. Append(l, [start |-> Len(x \o s), end |-> Len((x \o s) \o y), original |-> v, replacement |-> y]) \in Seq(I)
    BY <2>4
  <2>6. PICK w \in Seq(B), z \in Seq(I) :
          /\ w = (x \o s) \o y
          /\ z = Append(l, [start |-> Len(x \o s), end |-> Len((x \o s) \o y), original |-> v, replacement |-> y])
    BY <2>3, <2>5
  <2>7. ReplaceSpan(text, spans, mode, d, i) = [masked |-> w, replacements |-> z]
    BY <2>2, <2>6, Zenon
  <2>8. /\ ReplaceSpan(text, spans, mode, d, i) \in D
        /\ ReplaceSpan(text, spans, mode, d, i).masked = w
        /\ ReplaceSpan(text, spans, mode, d, i).replacements = z
    BY <2>7
  <2>9. QED  BY <2>1, <2>6, <2>8, Zenon
<1>10. StepOn(n, D, step)
  BY <1>9 DEF StepOn
<1> HIDE DEF D
<1>11. PICK f \in [0..n -> D] : f[0] = base /\ \A i \in 1..n : f[i] = step[<<i, f[i - 1]>>]
  <2> HIDE DEF base, step
  <2>1. Repeats(n, D, base, step)
    BY <1>8, <1>10, Iterated
  <2>2. QED  BY <2>1 DEF Repeats
<1> DEFINE Turns(g) == [i \in 0..n |-> IF i = 0 THEN base ELSE ReplaceSpan(text, spans, mode, g[i - 1], i)]
           after == CHOOSE g : g = Turns(g)
<1>12. f = Turns(f)
  <2>1. ASSUME NEW i \in 0..n
        PROVE  f[i] = IF i = 0 THEN base ELSE ReplaceSpan(text, spans, mode, f[i - 1], i)
    <3>1. CASE i # 0
      <4>1. <<i, f[i - 1]>> \in (1..n) \X D /\ i \in 1..n
        BY <3>1
      <4>2. step[<<i, f[i - 1]>>] = ReplaceSpan(text, spans, mode, f[i - 1], i)
        BY <4>1
      <4> HIDE DEF base, step
      <4>3. QED  BY <1>11, <3>1, <4>1, <4>2
    <3>2. CASE i = 0
      BY <1>11, <3>2
    <3>3. QED  BY <3>1, <3>2
  <2> HIDE DEF base
  <2>2. QED  BY <2>1
<1>13. after = Turns(after)
  <2>1. \E g : g = Turns(g)
    BY <1>12
  <2> HIDE DEF Turns
  <2>2. QED  BY <2>1
<1>14. /\ after[0] = base
       /\ \A i \in 1..n : after[i] = ReplaceSpan(text, spans, mode, after[i - 1], i)
  <2>1. \A i \in 0..n : after[i] = IF i = 0 THEN base ELSE ReplaceSpan(text, spans, mode, after[i - 1], i)
    <3> HIDE DEF after, base
    <3>1. QED  BY <1>13
  <2> HIDE DEF after, base
  <2>2. QED  BY <2>1
<1>15. mask(text, spans, mode) = [after[n] EXCEPT !.masked = @ \o Piece(text, LeftOff(spans, n + 1), Len(text))]
  BY <1>1 DEF mask
<1> HIDE DEF after
<1>16. \A i \in 0..n : after[i] \in D
  <2> DEFINE T == {i \in 0..n : after[i] \in D}
  <2>1. 0 \in T
    BY <1>8, <1>14
  <2>2. ASSUME NEW i \in 0..(n - 1), i \in T PROVE i + 1 \in T
    <3>1. i + 1 \in 1..n /\ (i + 1) - 1 = i
      OBVIOUS
    <3>2. after[i + 1] \in D
      BY <1>9, <1>14, <2>2, <3>1
    <3>3. QED  BY <3>1, <3>2
  <2> HIDE DEF T
  <2>3. \A i \in 0..n : i \in T
    BY <2>1, <2>2, InductionTo
  <2>4. QED  BY <2>3 DEF T
<1> DEFINE m == [i \in 0..n |-> after[i].masked]
           Item(i) == [start |-> Len(m[i - 1] \o Shown(text, spans, i)), end |-> Len(m[i]),
                       original |-> Value(text, spans[i]), replacement |-> q[i]]
<1>17. m \in [0..n -> Seq(B)] /\ m[0] = <<>>
  BY <1>14, <1>16 DEF D
<1>18. ASSUME NEW i \in 1..n
       PROVE  /\ m[i] = (m[i - 1] \o Shown(text, spans, i)) \o q[i]
              /\ after[i].replacements = Append(after[i - 1].replacements, Item(i))
  <2>1. i - 1 \in 0..n /\ i \in 0..n
    OBVIOUS
  <2>2. m[i - 1] = after[i - 1].masked /\ m[i] = after[i].masked /\ after[i - 1] \in D
    BY <1>16, <2>1
  <2>3. after[i] = ReplaceSpan(text, spans, mode, after[i - 1], i)
    BY <1>14
  <2>4. PICK d \in D : d = after[i - 1]
    BY <2>2
  <2> HIDE DEF m
  <2>5. /\ ReplaceSpan(text, spans, mode, d, i).masked = (d.masked \o Shown(text, spans, i)) \o q[i]
        /\ ReplaceSpan(text, spans, mode, d, i).replacements =
             Append(d.replacements,
               [start |-> Len(d.masked \o Shown(text, spans, i)),
                end |-> Len((d.masked \o Shown(text, spans, i)) \o q[i]),
                original |-> Value(text, spans[i]), replacement |-> q[i]])
    BY <1>9
  <2>6. m[i] = (m[i - 1] \o Shown(text, spans, i)) \o q[i]
    BY <2>2, <2>3, <2>4, <2>5, Zenon
  <2>7. QED  BY <2>2, <2>3, <2>4, <2>5, <2>6, Zenon
<1> HIDE DEF m
<1>19. \A i \in 0..n : after[i].replacements = [j \in 1..i |-> Item(j)]
  <2> DEFINE T == {i \in 0..n : after[i].replacements = [j \in 1..i |-> Item(j)]}
  <2>1. 0 \in T
    <3>1. after[0].replacements = <<>>
      BY <1>14
    <3>2. QED  BY <3>1
  <2>2. ASSUME NEW i \in 0..(n - 1), i \in T PROVE i + 1 \in T
    <3>1. i + 1 \in 1..n /\ (i + 1) - 1 = i
      OBVIOUS
    <3>2. after[i + 1].replacements = Append(after[i].replacements, Item(i + 1))
      BY <1>18, <3>1
    <3>3. after[i].replacements = [j \in 1..i |-> Item(j)]
      BY <2>2
    <3> HIDE DEF Item
    <3>4. Append([j \in 1..i |-> Item(j)], Item(i + 1)) = [j \in 1..(i + 1) |-> Item(j)]
      OBVIOUS
    <3>5. after[i + 1].replacements = [j \in 1..(i + 1) |-> Item(j)]
      BY <3>2, <3>3, <3>4, Zenon
    <3>6. i + 1 \in 0..n
      OBVIOUS
    <3>7. QED  BY <3>5, <3>6, Zenon
  <2> HIDE DEF T
  <2>3. \A i \in 0..n : i \in T
    BY <2>1, <2>2, InductionTo
  <2>4. QED  BY <2>3 DEF T
<1>20. MaskedBy(text, spans, m, q, mask(text, spans, mode))
  <2>1. ItemsOf(text, spans, m, q) = [j \in 1..n |-> Item(j)]
    BY <1>1 DEF ItemsOf
  <2>2. after[n].replacements = [j \in 1..n |-> Item(j)] /\ after[n] \in D /\ m[n] = after[n].masked
    <3>1. n \in 0..n
      OBVIOUS
    <3> HIDE DEF Item
    <3>2. QED  BY <1>16, <1>19, <3>1 DEF m
  <2> HIDE DEF Item
  <2>3. mask(text, spans, mode) = [masked |-> m[n] \o Piece(text, LeftOff(spans, n + 1), Len(text)),
                                   replacements |-> ItemsOf(text, spans, m, q)]
    BY <1>15, <2>1, <2>2 DEF D
  <2>4. QED  BY <1>1, <1>17, <1>18, <2>3 DEF MaskedBy
<1>21. QED  BY <1>1, <1>5, <1>6, <1>17, <1>20

\* The masks and replacements consist of letters of B.
SequencesOver(B, n, m, r) == m \in [0..n -> Seq(B)] /\ r \in [1..n -> Seq(B) \ {<<>>}]

LEMMA SequencesIn ==
  ASSUME NEW B, NEW text \in Seq(B), NEW S, NEW spans \in Seq(S), SpansInOrder(text, spans),
         NEW m, NEW r, SequencesOver(B, Len(spans), m, r), NEW i \in 1..Len(spans)
  PROVE  /\ m[i - 1] \in Seq(B) /\ m[i] \in Seq(B) /\ r[i] \in Seq(B) /\ r[i] # <<>>
         /\ Shown(text, spans, i) \in Seq(B)
<1>1. PICK n \in Nat : n = Len(spans)
  OBVIOUS
<1>2. i \in 1..n /\ i - 1 \in 0..n /\ i \in 0..n
  BY <1>1
<1>3. m[i - 1] \in Seq(B) /\ m[i] \in Seq(B) /\ r[i] \in Seq(B) /\ r[i] # <<>>
  BY <1>1, <1>2 DEF SequencesOver
<1>4. Shown(text, spans, i) \in Seq(B)
  BY ShownIs
<1>5. QED  BY <1>3, <1>4

\* Four pieces in a row, and where the second and the third stand.
FourIn(B, x, s, y, w) == x \in Seq(B) /\ s \in Seq(B) /\ y \in Seq(B) /\ w \in Seq(B)

FourAssociated(x, s, y, w) ==
  /\ ((x \o s) \o y) \o w = x \o ((s \o y) \o w)
  /\ ((x \o s) \o y) \o w = (x \o s) \o (y \o w)

LEMMA FourAssociate ==
  ASSUME NEW B, NEW x, NEW s, NEW y, NEW w, FourIn(B, x, s, y, w)
  PROVE  FourAssociated(x, s, y, w)
<1>1. x \in Seq(B) /\ s \in Seq(B) /\ y \in Seq(B) /\ w \in Seq(B)
  BY DEF FourIn
<1>2. (x \o s) \o y = x \o (s \o y)
  BY <1>1, ConcatAssociative, SMTT(30)
<1>3. s \o y \in Seq(B) /\ x \o s \in Seq(B)
  BY <1>1
<1>4. (x \o (s \o y)) \o w = x \o ((s \o y) \o w)
  BY <1>1, <1>3, ConcatAssociative, SMTT(30)
<1>5. ((x \o s) \o y) \o w = (x \o s) \o (y \o w)
  BY <1>1, <1>3, ConcatAssociative, SMTT(30)
<1>6. QED  BY <1>2, <1>4, <1>5, Zenon DEF FourAssociated

LEMMA FourLengths ==
  ASSUME NEW B, NEW x, NEW s, NEW y, NEW w, FourIn(B, x, s, y, w)
  PROVE  /\ x \o s \in Seq(B) /\ (x \o s) \o y \in Seq(B) /\ (s \o y) \o w \in Seq(B)
         /\ Len(x \o s) = Len(x) + Len(s) /\ Len((x \o s) \o y) = Len(x \o s) + Len(y)
         /\ Len(((x \o s) \o y) \o w) = Len((x \o s) \o y) + Len(w)
<1>1. x \in Seq(B) /\ s \in Seq(B) /\ y \in Seq(B) /\ w \in Seq(B)
  BY DEF FourIn
<1>2. s \o y \in Seq(B) /\ x \o s \in Seq(B) /\ Len(x \o s) = Len(x) + Len(s)
  BY <1>1
<1>3. (x \o s) \o y \in Seq(B) /\ Len((x \o s) \o y) = Len(x \o s) + Len(y)
  BY <1>1, <1>2
<1>4. Len(((x \o s) \o y) \o w) = Len((x \o s) \o y) + Len(w)
  BY <1>1, <1>3
<1>5. (s \o y) \o w \in Seq(B)
  BY <1>1, <1>2
<1>6. QED  BY <1>2, <1>3, <1>4, <1>5

FourJoined(B, x, s, y, w) ==
  /\ (s \o y) \o w \in Seq(B) /\ ((x \o s) \o y) \o w = x \o ((s \o y) \o w)
  /\ Len(x) \in Nat /\ Len(x \o s) \in Nat /\ Len((x \o s) \o y) \in Nat
  /\ Len(x) <= Len(x \o s) /\ Len(x \o s) + Len(y) = Len((x \o s) \o y)
  /\ Len((x \o s) \o y) <= Len(((x \o s) \o y) \o w)
  /\ Piece(((x \o s) \o y) \o w, Len(x), Len(x \o s)) = s
  /\ Piece(((x \o s) \o y) \o w, Len(x \o s), Len((x \o s) \o y)) = y

LEMMA FourInARow ==
  ASSUME NEW B, NEW x, NEW s, NEW y, NEW w, FourIn(B, x, s, y, w)
  PROVE  FourJoined(B, x, s, y, w)
<1>1. x \in Seq(B) /\ s \in Seq(B) /\ y \in Seq(B) /\ w \in Seq(B)
  BY DEF FourIn
<1>2. /\ ((x \o s) \o y) \o w = x \o ((s \o y) \o w)
      /\ ((x \o s) \o y) \o w = (x \o s) \o (y \o w)
  <2>1. FourAssociated(x, s, y, w)
    BY FourAssociate
  <2>2. QED  BY <2>1, Zenon DEF FourAssociated
<1>3. /\ x \o s \in Seq(B) /\ (x \o s) \o y \in Seq(B) /\ (s \o y) \o w \in Seq(B)
      /\ Len(x \o s) = Len(x) + Len(s) /\ Len((x \o s) \o y) = Len(x \o s) + Len(y)
      /\ Len(((x \o s) \o y) \o w) = Len((x \o s) \o y) + Len(w)
  BY FourLengths
<1>4. Piece(((x \o s) \o y) \o w, Len(x \o s), Len(x \o s) + Len(y)) = y
  BY <1>1, <1>3, PieceOfJoin
<1>5. Piece((x \o s) \o (y \o w), Len(x), Len(x) + Len(s)) = s
  <2>1. y \o w \in Seq(B)
    BY <1>1
  <2>2. QED  BY <1>1, <2>1, PieceOfJoin
<1>6. Len(x) \in Nat /\ Len(s) \in Nat /\ Len(y) \in Nat /\ Len(w) \in Nat
  BY <1>1
<1>7. /\ Len(x) <= Len(x \o s) /\ Len(x \o s) \in Nat /\ Len((x \o s) \o y) \in Nat
      /\ Len((x \o s) \o y) <= Len(((x \o s) \o y) \o w)
  BY <1>3, <1>6
<1>8. QED  BY <1>2, <1>3, <1>4, <1>5, <1>6, <1>7, Zenon DEF FourJoined

\* What masking the text at the spans has left, by letters of B.
MaskRecord(B, text, spans, m, r, record) ==
  /\ text \in Seq(B) /\ Len(spans) \in Nat /\ SpansInOrder(text, spans)
  /\ SequencesOver(B, Len(spans), m, r) /\ MaskedBy(text, spans, m, r, record)
  /\ \A i \in 1..Len(spans) :
       /\ m[i - 1] \in Seq(B) /\ m[i] \in Seq(B) /\ r[i] \in Seq(B) /\ r[i] # <<>>
       /\ Shown(text, spans, i) \in Seq(B)
  /\ Piece(text, LeftOff(spans, Len(spans) + 1), Len(text)) \in Seq(B)

\* Every mask on the way is a prefix of the whole.
LEMMA MaskGrows ==
  ASSUME NEW B, NEW text, NEW spans, NEW m, NEW r, NEW record, MaskRecord(B, text, spans, m, r, record)
  PROVE  \A i \in 0..Len(spans) : \E w \in Seq(B) : record.masked = m[i] \o w
<1>1. PICK n \in Nat : n = Len(spans)
  BY DEF MaskRecord
<1>2. PICK tail \in Seq(B) : tail = Piece(text, LeftOff(spans, n + 1), Len(text))
  BY <1>1 DEF MaskRecord
<1>3. record.masked = m[n] \o tail /\ \A i \in 1..n : m[i] = (m[i - 1] \o Shown(text, spans, i)) \o r[i]
  BY <1>1, <1>2 DEF MaskedBy, MaskRecord
<1>4. \A i \in 1..n : m[i - 1] \in Seq(B) /\ r[i] \in Seq(B) /\ Shown(text, spans, i) \in Seq(B)
  BY <1>1 DEF MaskRecord
<1>5. PICK M : M = record.masked
  OBVIOUS
<1> DEFINE T == {k \in 0..n : \E w \in Seq(B) : M = m[n - k] \o w}
<1>6. 0 \in T
  <2>1. n - 0 = n /\ 0 \in 0..n
    OBVIOUS
  <2>2. QED  BY <1>3, <1>5, <2>1
<1>7. ASSUME NEW k \in 0..(n - 1), k \in T PROVE k + 1 \in T
  <2>1. PICK i \in 1..n : i = n - k
    OBVIOUS
  <2>2. PICK w \in Seq(B) : M = m[i] \o w
    BY <1>7, <2>1
  <2>3. m[i] = (m[i - 1] \o Shown(text, spans, i)) \o r[i]
    BY <1>3
  <2>4. PICK x, s, y : x = m[i - 1] /\ s = Shown(text, spans, i) /\ y = r[i]
    OBVIOUS
  <2>5. M = ((x \o s) \o y) \o w
    BY <2>2, <2>3, <2>4, Zenon
  <2>6. FourIn(B, x, s, y, w)
    BY <1>4, <2>4 DEF FourIn
  <2>7. ((x \o s) \o y) \o w = x \o ((s \o y) \o w) /\ (s \o y) \o w \in Seq(B)
    <3>1. FourJoined(B, x, s, y, w)
      BY <2>6, FourInARow
    <3>2. QED  BY <3>1, Zenon DEF FourJoined
  <2>8. n - (k + 1) = i - 1 /\ k + 1 \in 0..n
    BY <2>1
  <2>9. M = m[n - (k + 1)] \o ((s \o y) \o w)
    BY <2>4, <2>5, <2>7, <2>8, Zenon
  <2>10. QED  BY <2>7, <2>8, <2>9
<1> HIDE DEF T
<1>8. \A k \in 0..n : k \in T
  BY <1>6, <1>7, InductionTo
<1>9. ASSUME NEW i \in 0..n PROVE \E w \in Seq(B) : M = m[i] \o w
  <2>1. PICK k \in 0..n : k = n - i
    OBVIOUS
  <2>2. n - k = i /\ k \in T
    BY <1>8, <2>1
  <2>3. QED  BY <2>2 DEF T
<1>10. QED  BY <1>1, <1>5, <1>9

\* Each item stands where the record says, behind what is shown in front of it.
LEMMA ItemFits ==
  ASSUME NEW B, NEW text, NEW spans, NEW m, NEW r, NEW record, MaskRecord(B, text, spans, m, r, record), NEW i \in 1..Len(spans)
  PROVE  /\ Fits(record, i)
         /\ Piece(record.masked, LastEnd(record.replacements, i - 1), record.replacements[i].start)
              = Shown(text, spans, i)
         /\ record.replacements[i].original = Value(text, spans[i])
<1>1. PICK n \in Nat : n = Len(spans) /\ i \in 1..n
  BY DEF MaskRecord
<1>2. PICK w \in Seq(B) : record.masked = m[i] \o w
  <2>1. i \in 0..Len(spans)
    BY <1>1
  <2>2. QED  BY <2>1, MaskGrows
<1>3. PICK x, s, y : x = m[i - 1] /\ s = Shown(text, spans, i) /\ y = r[i] /\ FourIn(B, x, s, y, w) /\ y # <<>>
  BY DEF MaskRecord, FourIn
<1>4. m[i] = (x \o s) \o y
  BY <1>1, <1>3 DEF MaskedBy, MaskRecord
<1>5. record.masked = ((x \o s) \o y) \o w
  BY <1>2, <1>4, Zenon
<1>6. PICK M : M = ((x \o s) \o y) \o w
  OBVIOUS
<1>7. FourJoined(B, x, s, y, w)
  BY <1>3, FourInARow
<1>8. PICK a \in Nat, b \in Nat, c \in Nat : a = Len(x) /\ b = Len(x \o s) /\ c = Len((x \o s) \o y)
  BY <1>7, Zenon DEF FourJoined
<1>9. a <= b /\ b < c /\ c <= Len(M)
  <2>1. /\ Len(x) <= Len(x \o s) /\ Len(x \o s) + Len(y) = Len((x \o s) \o y)
        /\ Len((x \o s) \o y) <= Len(((x \o s) \o y) \o w)
    BY <1>7, Zenon DEF FourJoined
  <2>2. PICK d \in Nat : d = Len(y) /\ d # 0
    BY <1>3 DEF FourIn
  <2>3. a <= b /\ b + d = c /\ c <= Len(M)
    BY <1>6, <1>8, <2>1, <2>2, Zenon
  <2>4. QED  BY <2>2, <2>3
<1>10. Piece(M, a, b) = s /\ Piece(M, b, c) = y
  <2>1. /\ Piece(((x \o s) \o y) \o w, Len(x), Len(x \o s)) = s
        /\ Piece(((x \o s) \o y) \o w, Len(x \o s), Len((x \o s) \o y)) = y
    BY <1>7, Zenon DEF FourJoined
  <2>2. QED  BY <1>6, <1>8, <2>1, Zenon
<1>11. record.masked = M
  BY <1>5, <1>6, Zenon
<1>12. record.replacements = ItemsOf(text, spans, m, r)
  BY DEF MaskedBy, MaskRecord
<1>13. record.replacements[i] = [start |-> Len(m[i - 1] \o Shown(text, spans, i)), end |-> Len(m[i]),
                                 original |-> Value(text, spans[i]), replacement |-> r[i]]
  BY <1>1, <1>12 DEF ItemsOf
<1>14. record.replacements[i].start = b /\ record.replacements[i].end = c
  <2>1. m[i - 1] \o Shown(text, spans, i) = x \o s
    BY <1>3, Zenon
  <2>2. record.replacements[i].start = Len(x \o s) /\ record.replacements[i].end = Len((x \o s) \o y)
    BY <1>4, <1>13, <2>1
  <2>3. QED  BY <1>8, <2>2, Zenon
<1>15. record.replacements[i].original = Value(text, spans[i]) /\ record.replacements[i].replacement = y
  BY <1>3, <1>13
<1>16. LastEnd(record.replacements, i - 1) = a
  <2>1. CASE i = 1
    <3>1. m[0] = <<>> /\ x = m[0]
      BY <1>3, <2>1 DEF MaskedBy, MaskRecord
    <3>2. a = 0
      BY <1>8, <3>1
    <3>3. QED  BY <2>1, <3>2 DEF LastEnd
  <2>2. CASE i # 1
    <3>1. i - 1 \in 1..n /\ i - 1 # 0
      BY <1>1, <2>2
    <3>2. record.replacements[i - 1].end = Len(m[i - 1])
      BY <1>1, <1>12, <3>1 DEF ItemsOf
    <3>3. QED  BY <1>3, <1>8, <3>1, <3>2 DEF LastEnd
  <2>3. QED  BY <2>1, <2>2
<1>17. Fits(record, i)
  BY <1>9, <1>10, <1>11, <1>14, <1>15, <1>16 DEF Fits
<1>18. QED  BY <1>3, <1>10, <1>11, <1>14, <1>15, <1>16, <1>17, Zenon

\* From such a record the text comes back.
LEMMA RestoredIs ==
  ASSUME NEW B, NEW text, NEW spans, NEW m, NEW r, NEW record, MaskRecord(B, text, spans, m, r, record)
  PROVE  restore_exact(record) = text
<1>1. PICK n \in Nat : n = Len(spans) /\ SpansInOrder(text, spans) /\ text \in Seq(B)
  BY DEF MaskRecord
<1>2. PICK M, item : M = record.masked /\ item = record.replacements
  OBVIOUS
<1>3. item = ItemsOf(text, spans, m, r) /\ M = m[n] \o Piece(text, LeftOff(spans, n + 1), Len(text))
  BY <1>1, <1>2 DEF MaskedBy, MaskRecord
<1>4. Len(item) = n /\ DOMAIN item = 1..n
  <2>1. DOMAIN item = 1..n
    BY <1>1, <1>3 DEF ItemsOf
  <2>2. PICK I : I = {item[i] : i \in 1..n}
    OBVIOUS
  <2>3. item \in [1..n -> I]
    <3>1. item = [i \in 1..n |-> item[i]]
      BY <1>1, <1>3 DEF ItemsOf
    <3>2. QED  BY <2>2, <3>1
  <2>4. QED  BY <2>1, <2>3
<1>5. \A i \in 0..n : LeftOff(spans, i + 1) \in Nat /\ LeftOff(spans, i + 1) <= Len(text)
  <2>1. ASSUME NEW i \in 0..n PROVE LeftOff(spans, i + 1) \in Nat /\ LeftOff(spans, i + 1) <= Len(text)
    <3>1. CASE i = 0
      BY <3>1 DEF LeftOff
    <3>2. CASE i # 0
      <4>1. i \in 1..n /\ i + 1 # 1 /\ (i + 1) - 1 = i
        BY <3>2
      <4>2. spans[i].end \in Nat /\ spans[i].end <= Len(text)
        BY <1>1, <4>1 DEF SpansInOrder
      <4>3. QED  BY <4>1, <4>2 DEF LeftOff
    <3>3. QED  BY <3>1, <3>2
  <2>2. QED  BY <2>1
<1>6. PICK L \in [0..n -> Nat] : \A i \in 0..n : L[i] = LeftOff(spans, i + 1) /\ L[i] <= Len(text)
  <2> DEFINE L == [i \in 0..n |-> LeftOff(spans, i + 1)]
  <2>1. L \in [0..n -> Nat] /\ \A i \in 0..n : L[i] = LeftOff(spans, i + 1) /\ L[i] <= Len(text)
    BY <1>5
  <2> HIDE DEF L
  <2>2. QED  BY <2>1
<1>7. n \in 0..n /\ 0 \in 0..n
  OBVIOUS
<1>8. PICK tail \in Seq(B) : tail = Piece(text, L[n], Len(text)) /\ tail = Piece(text, LeftOff(spans, n + 1), Len(text))
  <2>1. L[n] = LeftOff(spans, n + 1)
    BY <1>6, <1>7
  <2>2. QED  BY <1>1, <2>1 DEF MaskRecord
<1>9. \A i \in 1..n : L[i - 1] = LeftOff(spans, i) /\ L[i - 1] <= spans[i].start
  <2> TAKE i \in 1..n
  <2>1. i - 1 \in 0..n /\ (i - 1) + 1 = i
    OBVIOUS
  <2>2. L[i - 1] = LeftOff(spans, i)
    BY <1>6, <2>1
  <2>3. LeftOff(spans, i) <= spans[i].start
    <3>1. CASE i = 1
      BY <1>1, <3>1 DEF LeftOff, SpansInOrder
    <3>2. CASE i # 1
      <4>1. i \in 2..n
        BY <3>2
      <4>2. QED  BY <1>1, <3>2, <4>1 DEF LeftOff, SpansInOrder
    <3>3. QED  BY <3>1, <3>2
  <2>4. QED  BY <2>2, <2>3
<1>10. \A i \in 1..n : /\ Fits(record, i)
                       /\ Piece(M, LastEnd(item, i - 1), item[i].start) = Shown(text, spans, i)
                       /\ item[i].original = Value(text, spans[i])
  <2>1. ASSUME NEW i \in 1..Len(spans)
        PROVE  /\ Fits(record, i)
               /\ Piece(record.masked, LastEnd(record.replacements, i - 1), record.replacements[i].start)
                    = Shown(text, spans, i)
               /\ record.replacements[i].original = Value(text, spans[i])
    BY ItemFits
  <2>2. QED  BY <1>1, <1>2, <2>1, Zenon
<1> DEFINE Turns(g) == [i \in 0..n |-> IF i = 0 THEN <<>>
                          ELSE g[i - 1] \o Piece(M, LastEnd(item, i - 1), item[i].start) \o item[i].original]
           upto == CHOOSE g : g = Turns(g)
           back == [i \in 0..n |-> Piece(text, 0, L[i])]
<1>11. back[0] = <<>>
  <2>1. L[0] = 0
    BY <1>6, <1>7 DEF LeftOff
  <2>2. QED  BY <1>1, <1>7, <2>1, WholePiece
<1>12. ASSUME NEW i \in 1..n
       PROVE  back[i] = back[i - 1] \o Piece(M, LastEnd(item, i - 1), item[i].start) \o item[i].original
  <2>1. i \in 0..n /\ i - 1 \in 0..n /\ (i - 1) + 1 = i /\ i + 1 # 1 /\ (i + 1) - 1 = i
    OBVIOUS
  <2>2. L[i - 1] = LeftOff(spans, i) /\ L[i] = spans[i].end
    BY <1>6, <2>1 DEF LeftOff
  <2>3. PICK o \in Nat, a \in Nat, b \in Nat, t \in Nat :
          o = L[i - 1] /\ a = spans[i].start /\ b = L[i] /\ t = Len(text) /\ o <= a /\ a <= b /\ b <= t
    <3>1. L[i - 1] <= spans[i].start
      BY <1>9
    <3>2. spans[i].start \in Nat /\ spans[i].start < spans[i].end
      BY <1>1 DEF SpansInOrder
    <3>3. L[i - 1] \in Nat /\ L[i] \in Nat /\ L[i] <= Len(text) /\ Len(text) \in Nat
      BY <1>6, <2>1
    <3>4. QED  BY <2>2, <3>1, <3>2, <3>3
  <2>4. back[i] = Piece(text, 0, b) /\ back[i - 1] = Piece(text, 0, o)
    BY <2>1, <2>3
  <2>5. Shown(text, spans, i) = Piece(text, o, a) /\ Value(text, spans[i]) = Piece(text, a, b)
    BY <2>2, <2>3 DEF Shown, Value
  <2>6. Piece(text, 0, o) \o Piece(text, o, a) = Piece(text, 0, a)
    <3>1. Stops(B, text, o, a)
      BY <1>1, <2>3 DEF Stops
    <3>2. QED  BY <3>1, PieceGrows
  <2>7. Piece(text, 0, a) \o Piece(text, a, b) = Piece(text, 0, b)
    <3>1. Stops(B, text, a, b)
      BY <1>1, <2>3 DEF Stops
    <3>2. QED  BY <3>1, PieceGrows
  <2> HIDE DEF back
  <2>8. QED  BY <1>10, <2>4, <2>5, <2>6, <2>7, Zenon
<1>13. back = Turns(back)
  <2>1. ASSUME NEW i \in 0..n
        PROVE  back[i] = IF i = 0 THEN <<>>
                         ELSE back[i - 1] \o Piece(M, LastEnd(item, i - 1), item[i].start) \o item[i].original
    <3> HIDE DEF back
    <3>1. CASE i = 0
      BY <1>11, <3>1
    <3>2. CASE i # 0
      <4>1. i \in 1..n
        BY <3>2
      <4>2. QED  BY <1>12, <3>2, <4>1, Zenon
    <3>3. QED  BY <3>1, <3>2
  <2>2. back = [i \in 0..n |-> back[i]]
    OBVIOUS
  <2> HIDE DEF back
  <2>3. QED  BY <2>1, <2>2
<1>14. upto = Turns(upto)
  <2>1. \E g : g = Turns(g)
    BY <1>13
  <2> HIDE DEF Turns
  <2>2. QED  BY <2>1
<1>15. \A i \in 0..n : upto[i] = back[i]
  <2>1. \A i \in 0..n : upto[i] = IF i = 0 THEN <<>>
          ELSE upto[i - 1] \o Piece(M, LastEnd(item, i - 1), item[i].start) \o item[i].original
    <3> HIDE DEF upto
    <3>1. QED  BY <1>14
  <2> HIDE DEF upto, back
  <2> DEFINE T == {i \in 0..n : upto[i] = back[i]}
  <2>2. 0 \in T
    BY <1>7, <1>11, <2>1
  <2>3. ASSUME NEW i \in 0..(n - 1), i \in T PROVE i + 1 \in T
    <3>1. i + 1 \in 1..n /\ i + 1 \in 0..n /\ (i + 1) - 1 = i /\ i + 1 # 0
      OBVIOUS
    <3>2. upto[i] = back[i]
      BY <2>3
    <3>3. upto[i + 1] = upto[i] \o Piece(M, LastEnd(item, i), item[i + 1].start) \o item[i + 1].original
      BY <2>1, <3>1
    <3>4. back[i + 1] = back[i] \o Piece(M, LastEnd(item, i), item[i + 1].start) \o item[i + 1].original
      BY <1>12, <3>1
    <3>5. upto[i + 1] = back[i + 1]
      BY <3>2, <3>3, <3>4, Zenon
    <3>6. QED  BY <3>1, <3>5
  <2> HIDE DEF T
  <2>4. \A i \in 0..n : i \in T
    BY <2>2, <2>3, InductionTo
  <2>5. QED  BY <2>4 DEF T
<1>16. restore_exact(record) = upto[n] \o Piece(M, LastEnd(item, n), Len(M))
  <2>1. ~\E i \in DOMAIN item : ~Fits(record, i)
    BY <1>4, <1>10
  <2>2. restore_exact(record) =
          IF \E i \in DOMAIN item : ~Fits(record, i) THEN Invalid
          ELSE upto[n] \o Piece(M, LastEnd(item, n), Len(M))
    BY <1>2, <1>4 DEF restore_exact
  <2> HIDE DEF upto
  <2>3. QED  BY <2>1, <2>2
<1>17. Piece(M, LastEnd(item, n), Len(M)) = tail
  <2>1. PICK x \in Seq(B) : x = m[n]
    BY <1>1, <1>7 DEF SequencesOver, MaskRecord
  <2>2. M = x \o tail /\ M \in Seq(B) /\ Len(M) = Len(x) + Len(tail)
    BY <1>3, <1>8, <2>1, ConcatProperties
  <2>3. LastEnd(item, n) = Len(x)
    <3>1. CASE n = 0
      <4>1. x = <<>>
        BY <2>1, <3>1 DEF MaskedBy, MaskRecord
      <4>2. QED  BY <3>1, <4>1 DEF LastEnd
    <3>2. CASE n # 0
      <4>1. n \in 1..n
        BY <3>2
      <4>2. item[n].end = Len(m[n])
        BY <1>1, <1>3, <4>1 DEF ItemsOf
      <4>3. QED  BY <2>1, <3>2, <4>2 DEF LastEnd
    <3>3. QED  BY <3>1, <3>2
  <2>4. Piece((x \o tail) \o <<>>, Len(x), Len(x) + Len(tail)) = tail
    <3>1. <<>> \in Seq(B)
      OBVIOUS
    <3>2. QED  BY <3>1, PieceOfJoin
  <2>5. (x \o tail) \o <<>> = x \o tail
    <3>1. x \o tail \in Seq(B)
      OBVIOUS
    <3>2. QED  BY <3>1, ConcatEmptySeq
  <2>6. QED  BY <2>2, <2>3, <2>4, <2>5, Zenon
<1>18. Piece(text, 0, L[n]) \o tail = text
  <2>1. PICK l \in Nat, t \in Nat : l = L[n] /\ t = Len(text) /\ l <= t
    BY <1>6, <1>7
  <2>2. Piece(text, 0, l) \o Piece(text, l, t) = Piece(text, 0, t)
    <3>1. Stops(B, text, l, t)
      BY <1>1, <2>1 DEF Stops
    <3>2. QED  BY <3>1, PieceGrows
  <2>3. Piece(text, 0, t) = text
    BY <1>1, <2>1, WholePiece
  <2>4. QED  BY <1>8, <2>1, <2>2, <2>3, Zenon
<1>19. upto[n] = Piece(text, 0, L[n])
  <2>1. back[n] = Piece(text, 0, L[n])
    BY <1>7
  <2> HIDE DEF upto, back
  <2>2. QED  BY <1>7, <1>15, <2>1
<1> HIDE DEF upto
<1>20. QED  BY <1>16, <1>17, <1>18, <1>19, Zenon

\* Whatever text is masked at whatever spans in order, in whatever mode, the stored
\* replacements put it back (mask and restore_exact).
THEOREM TextComesBack ==
  ASSUME NEW A, NEW S, input.text \in Seq(A), input.spans \in Seq(S),
         SpansInOrder(input.text, input.spans)
  PROVE  MaskedComesBack
<1>1. PICK text \in Seq(A), spans \in Seq(S) : text = input.text /\ spans = input.spans
  OBVIOUS
<1>2. SpansInOrder(text, spans)
  BY <1>1
<1>3. PICK mode : mode = input.mode
  OBVIOUS
<1>4. PICK B : A \subseteq B /\
        \E m \in [0..Len(spans) -> Seq(B)], r \in [1..Len(spans) -> Seq(B) \ {<<>>}] :
          MaskedBy(text, spans, m, r, mask(text, spans, mode))
  BY <1>2, MaskIs
<1>5. PICK m, r : SequencesOver(B, Len(spans), m, r) /\ MaskedBy(text, spans, m, r, mask(text, spans, mode))
  BY <1>4 DEF SequencesOver
<1>6. text \in Seq(B)
  BY <1>4, SeqMonotonic
<1>7. MaskRecord(B, text, spans, m, r, mask(text, spans, mode))
  <2>1. \A i \in 1..Len(spans) :
          /\ m[i - 1] \in Seq(B) /\ m[i] \in Seq(B) /\ r[i] \in Seq(B) /\ r[i] # <<>>
          /\ Shown(text, spans, i) \in Seq(B)
    BY <1>2, <1>5, <1>6, SequencesIn
  <2>2. Piece(text, LeftOff(spans, Len(spans) + 1), Len(text)) \in Seq(B)
    <3>1. PICK n \in Nat, l \in Nat, t \in Nat :
            n = Len(spans) /\ t = Len(text) /\ l = LeftOff(spans, Len(spans) + 1) /\ l <= t
      <4>1. CASE Len(spans) = 0
        <5>1. LeftOff(spans, Len(spans) + 1) = 0
          BY <4>1 DEF LeftOff
        <5>2. QED  BY <5>1
      <4>2. CASE Len(spans) # 0
        <5>1. PICK n \in Nat : n = Len(spans) /\ n # 0
          BY <4>2
        <5>2. LeftOff(spans, n + 1) = spans[n].end
          BY <5>1 DEF LeftOff
        <5>3. spans[n].end \in Nat /\ spans[n].end <= Len(text)
          BY <1>2, <5>1 DEF SpansInOrder
        <5>4. QED  BY <5>1, <5>2, <5>3, SMTT(30)
      <4>3. QED  BY <4>1, <4>2
    <3>2. QED  BY <1>6, <3>1, PieceIs
  <2>3. QED  BY <1>2, <1>5, <1>6, <2>1, <2>2 DEF MaskRecord
<1>8. restore_exact(mask(text, spans, mode)) = text
  BY <1>7, RestoredIs
<1>9. QED  BY <1>1, <1>3, <1>8, Zenon DEF MaskedComesBack, Masked

-----------------------------------------------------------------------------
(* Sorting.                                                                *)

\* L orders the members of S strictly and totally.
StrictOrder(S, L) ==
  /\ \A x \in S : <<x, x>> \notin L
  /\ \A x, y, z \in S : <<x, y>> \in L /\ <<y, z>> \in L => <<x, z>> \in L
  /\ \A x, y \in S : x # y => <<x, y>> \in L \/ <<y, x>> \in L

\* r lists the members by how many come before them.
Ahead(S, L, x) == Cardinality({y \in S : <<y, x>> \in L})
SortsBy(S, L, r) ==
  /\ r = [i \in 1..Cardinality(S) |-> r[i]]
  /\ \A i \in 1..Cardinality(S) :
       (\E x \in S : Ahead(S, L, x) = i - 1) => r[i] \in S /\ Ahead(S, L, r[i]) = i - 1

\* Then it lists each of them once, in order.
Listed(S, L, n, r) ==
  /\ n = Cardinality(S) /\ n \in Nat /\ r \in [1..n -> S]
  /\ \A i, j \in 1..n : i < j => <<r[i], r[j]>> \in L
  /\ \A x \in S : \E i \in 1..n : r[i] = x

LEMMA ListedIs ==
  ASSUME NEW S, IsFiniteSet(S), NEW L, StrictOrder(S, L), NEW r, SortsBy(S, L, r)
  PROVE  Listed(S, L, Cardinality(S), r)
<1>1. PICK n \in Nat : n = Cardinality(S)
  BY FS_CardinalityType
<1>2. \A x \in S : IsFiniteSet({y \in S : <<y, x>> \in L}) /\ Ahead(S, L, x) \in Nat
  <2> TAKE x \in S
  <2> DEFINE Y == {y \in S : <<y, x>> \in L}
  <2>1. Y \in SUBSET S
    OBVIOUS
  <2> HIDE DEF Y
  <2>2. IsFiniteSet(Y)
    BY <2>1, FS_Subset
  <2>3. Cardinality(Y) \in Nat
    BY <2>2, FS_CardinalityType
  <2>4. QED  BY <2>2, <2>3 DEF Y, Ahead
<1>3. ASSUME NEW x \in S PROVE Ahead(S, L, x) < n
  <2> DEFINE Y == {y \in S : <<y, x>> \in L}
             Z == S \ {x}
  <2>1. IsFiniteSet(Z) /\ Cardinality(Z) = n - 1
    BY <1>1, FS_RemoveElement
  <2>2. Y \in SUBSET Z
    BY DEF StrictOrder
  <2> HIDE DEF Y, Z
  <2>3. Cardinality(Y) <= Cardinality(Z)
    BY <2>1, <2>2, FS_Subset
  <2>4. Cardinality(Y) \in Nat /\ Ahead(S, L, x) = Cardinality(Y)
    BY <1>2 DEF Y, Ahead
  <2>5. QED  BY <2>1, <2>3, <2>4
<1>4. ASSUME NEW x \in S, NEW y \in S, <<x, y>> \in L PROVE Ahead(S, L, x) < Ahead(S, L, y)
  <2> DEFINE X == {z \in S : <<z, x>> \in L}
             Y == {z \in S : <<z, y>> \in L}
             Z == Y \ {x}
  <2>1. IsFiniteSet(Y) /\ x \in Y
    BY <1>2, <1>4
  <2>2. X \in SUBSET Z
    <3>1. ASSUME NEW z \in X PROVE z \in Z
      <4>1. z \in S /\ <<z, x>> \in L
        OBVIOUS
      <4>2. <<z, y>> \in L /\ z # x
        BY <1>4, <4>1 DEF StrictOrder
      <4>3. QED  BY <4>1, <4>2
    <3>2. QED  BY <3>1
  <2>3. Ahead(S, L, x) = Cardinality(X) /\ Ahead(S, L, y) = Cardinality(Y) /\ Ahead(S, L, x) \in Nat /\ Ahead(S, L, y) \in Nat
    BY <1>2 DEF Ahead
  <2> HIDE DEF X, Y
  <2>4. IsFiniteSet(Z) /\ Cardinality(Z) = Cardinality(Y) - 1
    BY <2>1, FS_RemoveElement
  <2> HIDE DEF Z
  <2>5. Cardinality(X) <= Cardinality(Z)
    BY <2>2, <2>4, FS_Subset
  <2>6. QED  BY <2>3, <2>4, <2>5
<1>5. \A x, y \in S : Ahead(S, L, x) = Ahead(S, L, y) => x = y
  <2> TAKE x, y \in S
  <2>1. x # y => <<x, y>> \in L \/ <<y, x>> \in L
    BY DEF StrictOrder
  <2>2. Ahead(S, L, x) \in Nat /\ Ahead(S, L, y) \in Nat
    BY <1>2
  <2>3. (<<x, y>> \in L => Ahead(S, L, x) < Ahead(S, L, y)) /\ (<<y, x>> \in L => Ahead(S, L, y) < Ahead(S, L, x))
    BY <1>4
  <2>4. QED  BY <2>1, <2>2, <2>3
<1> DEFINE f == [x \in S |-> Ahead(S, L, x) + 1]
<1>6. \A i \in 1..n : \E x \in S : Ahead(S, L, x) = i - 1
  <2>1. IsFiniteSet(1..n) /\ Cardinality(1..n) = n
    BY FS_Interval
  <2>2. f \in [S -> 1..n]
    <3>1. \A x \in S : Ahead(S, L, x) \in Nat /\ Ahead(S, L, x) < n
      BY <1>2, <1>3
    <3>2. \A x \in S : Ahead(S, L, x) + 1 \in 1..n
      BY <3>1
    <3>3. QED  BY <3>2
  <2>3. \A x, y \in S : f[x] = f[y] => x = y
    <3> TAKE x, y \in S
    <3>1. f[x] = Ahead(S, L, x) + 1 /\ f[y] = Ahead(S, L, y) + 1
      OBVIOUS
    <3>2. Ahead(S, L, x) \in Nat /\ Ahead(S, L, y) \in Nat
      BY <1>2
    <3>3. Ahead(S, L, x) = Ahead(S, L, y) => x = y
      BY <1>5
    <3> HIDE DEF f
    <3>4. QED  BY <3>1, <3>2, <3>3
  <2> HIDE DEF f
  <2>4. f \in Injection(S, 1..n)
    BY <2>2, <2>3 DEF Injection, IsInjective
  <2>5. f \in Surjection(S, 1..n)
    BY <1>1, <2>1, <2>4, FS_Injection
  <2>6. \A i \in 1..n : \E x \in S : f[x] = i
    BY <2>5 DEF Surjection
  <2>7. QED
    <3> TAKE i \in 1..n
    <3>1. PICK x \in S : f[x] = i
      BY <2>6
    <3>2. f[x] = Ahead(S, L, x) + 1
      BY DEF f
    <3>3. Ahead(S, L, x) \in Nat
      BY <1>2
    <3>4. Ahead(S, L, x) = i - 1
      BY <3>1, <3>2, <3>3
    <3>5. QED  BY <3>4
<1> HIDE DEF f
<1>7. \A i \in 1..n : r[i] \in S /\ Ahead(S, L, r[i]) = i - 1
  BY <1>1, <1>6 DEF SortsBy
<1>8. r \in [1..n -> S]
  BY <1>1, <1>7 DEF SortsBy
<1>9. ASSUME NEW i \in 1..n, NEW j \in 1..n, i < j PROVE <<r[i], r[j]>> \in L
  <2>1. r[i] \in S /\ r[j] \in S /\ Ahead(S, L, r[i]) = i - 1 /\ Ahead(S, L, r[j]) = j - 1
    BY <1>7
  <2>2. <<r[j], r[i]>> \in L => Ahead(S, L, r[j]) < Ahead(S, L, r[i])
    BY <1>4, <2>1
  <2>3. r[i] # r[j]
    BY <1>9, <2>1
  <2>4. <<r[i], r[j]>> \in L \/ <<r[j], r[i]>> \in L
    BY <2>1, <2>3 DEF StrictOrder
  <2>5. ~(j - 1 < i - 1)
    BY <1>9
  <2>6. QED  BY <2>1, <2>2, <2>4, <2>5
<1>10. ASSUME NEW x \in S PROVE \E i \in 1..n : r[i] = x
  <2>1. PICK k \in Nat : k = Ahead(S, L, x) /\ k < n
    BY <1>2, <1>3
  <2>2. k + 1 \in 1..n /\ (k + 1) - 1 = k
    BY <2>1
  <2>3. r[k + 1] \in S /\ Ahead(S, L, r[k + 1]) = k
    BY <1>7, <2>2
  <2>4. r[k + 1] = x
    BY <1>5, <2>1, <2>3
  <2>5. QED  BY <2>2, <2>4
<1>11. QED  BY <1>1, <1>8, <1>9, <1>10 DEF Listed

\* Lists of n numbers are ordered strictly and totally by their first difference.
Row(n, x) == x \in [1..n -> Int]

LEMMA LexStrict ==
  ASSUME NEW n \in Nat, NEW x, NEW y, NEW z, Row(n, x), Row(n, y), Row(n, z)
  PROVE  ~LexLess(x, x) /\ (LexLess(x, y) /\ LexLess(y, z) => LexLess(x, z))
<1>1. Len(x) = n /\ Len(y) = n /\ \A i \in 1..n : x[i] \in Int /\ y[i] \in Int /\ z[i] \in Int
  BY DEF Row
<1>2. ~LexLess(x, x)
  BY <1>1 DEF LexLess
<1>3. ASSUME LexLess(x, y), LexLess(y, z) PROVE LexLess(x, z)
  <2>1. PICK i \in 1..n : x[i] < y[i] /\ \A j \in 1..(i - 1) : x[j] = y[j]
    BY <1>1, <1>3 DEF LexLess
  <2>2. PICK k \in 1..n : y[k] < z[k] /\ \A j \in 1..(k - 1) : y[j] = z[j]
    BY <1>1, <1>3 DEF LexLess
  <2>3. PICK l \in 1..n : l <= i /\ l <= k /\ (l = i \/ l = k)
    <3>1. CASE i <= k
      BY <3>1
    <3>2. CASE ~(i <= k)
      BY <3>2
    <3>3. QED  BY <3>1, <3>2
  <2>4. \A j \in 1..(l - 1) : x[j] = z[j]
    <3> TAKE j \in 1..(l - 1)
    <3>1. j \in 1..(i - 1) /\ j \in 1..(k - 1)
      BY <2>3
    <3>2. QED  BY <2>1, <2>2, <3>1
  <2>5. x[l] < z[l]
    <3>1. PICK a \in Int, b \in Int, c \in Int : a = x[l] /\ b = y[l] /\ c = z[l]
      BY <1>1
    <3>2. a <= b
      <4>1. CASE l = i
        BY <2>1, <3>1, <4>1
      <4>2. CASE l # i
        <5>1. l \in 1..(i - 1)
          BY <2>3, <4>2
        <5>2. QED  BY <2>1, <3>1, <5>1
      <4>3. QED  BY <4>1, <4>2
    <3>3. b <= c
      <4>1. CASE l = k
        BY <2>2, <3>1, <4>1
      <4>2. CASE l # k
        <5>1. l \in 1..(k - 1)
          BY <2>3, <4>2
        <5>2. QED  BY <2>2, <3>1, <5>1
      <4>3. QED  BY <4>1, <4>2
    <3>4. a < b \/ b < c
      BY <2>1, <2>2, <2>3, <3>1
    <3>5. QED  BY <3>1, <3>2, <3>3, <3>4
  <2>6. QED  BY <1>1, <2>4, <2>5 DEF LexLess
<1>4. QED  BY <1>2, <1>3

LEMMA LexTotal ==
  ASSUME NEW n \in Nat, NEW x, NEW y, Row(n, x), Row(n, y), x # y
  PROVE  LexLess(x, y) \/ LexLess(y, x)
<1>1. Len(x) = n /\ Len(y) = n /\ \A i \in 1..n : x[i] \in Int /\ y[i] \in Int
  BY DEF Row
<1> DEFINE D == {i \in 1..n : x[i] # y[i]}
<1>2. D # {}
  BY DEF Row
<1>3. PICK i \in D : \A j \in D : i <= j
  <2>1. D \subseteq Nat
    OBVIOUS
  <2> HIDE DEF D
  <2>2. QED  BY <1>2, <2>1, LeastOf
<1>4. i \in 1..n /\ x[i] # y[i] /\ \A j \in 1..(i - 1) : x[j] = y[j]
  <2>1. ASSUME NEW j \in 1..(i - 1) PROVE x[j] = y[j]
    <3>1. j \in 1..n /\ ~(i <= j)
      BY <1>3
    <3>2. QED  BY <1>3, <3>1
  <2>2. QED  BY <1>3, <2>1
<1>5. PICK a \in Int, b \in Int : a = x[i] /\ b = y[i] /\ a # b
  BY <1>1, <1>4
<1>6. CASE a < b
  BY <1>1, <1>4, <1>5, <1>6 DEF LexLess
<1>7. CASE b < a
  BY <1>1, <1>4, <1>5, <1>7 DEF LexLess
<1>8. QED  BY <1>5, <1>6, <1>7

\* Members with a key of n numbers each, which tells them apart, in the order of their keys.
Keyed(S, n, key) ==
  /\ n \in Nat /\ \A x \in S : Row(n, key[x])
  /\ \A x, y \in S : key[x] = key[y] => x = y
ByKey(S, key) == {w \in S \X S : LexLess(key[w[1]], key[w[2]])}

LEMMA KeyOrders ==
  ASSUME NEW S, NEW n, NEW key, Keyed(S, n, key)
  PROVE  StrictOrder(S, ByKey(S, key))
<1>1. \A x, y \in S : <<x, y>> \in ByKey(S, key) <=> LexLess(key[x], key[y])
  BY DEF ByKey
<1>2. ASSUME NEW x \in S, NEW y \in S, NEW z \in S
      PROVE  /\ ~LexLess(key[x], key[x])
             /\ LexLess(key[x], key[y]) /\ LexLess(key[y], key[z]) => LexLess(key[x], key[z])
             /\ x # y => LexLess(key[x], key[y]) \/ LexLess(key[y], key[x])
  <2>1. n \in Nat /\ Row(n, key[x]) /\ Row(n, key[y]) /\ Row(n, key[z]) /\ (x # y => key[x] # key[y])
    BY DEF Keyed
  <2>2. ~LexLess(key[x], key[x]) /\ (LexLess(key[x], key[y]) /\ LexLess(key[y], key[z]) => LexLess(key[x], key[z]))
    BY <2>1, LexStrict
  <2>3. x # y => LexLess(key[x], key[y]) \/ LexLess(key[y], key[x])
    BY <2>1, LexTotal
  <2>4. QED  BY <2>2, <2>3
<1>3. QED  BY <1>1, <1>2 DEF StrictOrder

-----------------------------------------------------------------------------
(* Candidates and their rank.                                              *)

Names == {Alphabet[i] : i \in 1..Len(Alphabet)}
Candidate == {s \in [start : Nat, end : Nat, type : Names, confidence : Int, reason : Names] : s.start < s.end}
Better(s, t) == LexLess(Rank(s), Rank(t))

\* Names differ in their place in the alphabet, candidates in their rank.
LEMMA LetterIs ==
  ASSUME NEW a \in Names
  PROVE  Letter(a) \in Int /\ Alphabet[Letter(a)] = a
<1>1. Len(Alphabet) \in Nat
  BY DEF Alphabet
<1>2. \E i \in 1..Len(Alphabet) : Alphabet[i] = a
  BY DEF Names
<1>3. Letter(a) \in 1..Len(Alphabet) /\ Alphabet[Letter(a)] = a
  BY <1>2 DEF Letter
<1>4. QED  BY <1>1, <1>3

LEMMA RankIs ==
  ASSUME NEW s \in Candidate
  PROVE  /\ Row(6, Rank(s))
         /\ Rank(s)[2] = s.start - s.end /\ Rank(s)[3] = -s.confidence /\ Rank(s)[4] = s.start
         /\ Rank(s)[5] = Letter(s.type) /\ Rank(s)[6] = Letter(s.reason)
<1>1. /\ s.start \in Nat /\ s.end \in Nat /\ s.confidence \in Int /\ s.type \in Names /\ s.reason \in Names
  BY DEF Candidate
<1>2. Letter(s.type) \in Int /\ Letter(s.reason) \in Int
  BY <1>1, LetterIs
<1>3. ClusterPriority(s) \in Int
  <2>1. Priority(s.type) \in Int
    BY DEF Priority
  <2>2. QED  BY <2>1 DEF ClusterPriority
<1>4. -ClusterPriority(s) \in Int /\ s.start - s.end \in Int /\ -s.confidence \in Int /\ s.start \in Int
  BY <1>1, <1>3
<1>5. <<-ClusterPriority(s), s.start - s.end, -s.confidence, s.start, Letter(s.type), Letter(s.reason)>> \in [1..6 -> Int]
  BY <1>2, <1>4
<1>6. QED  BY <1>5 DEF Rank, Row

LEMMA RankTells ==
  ASSUME NEW s \in Candidate, NEW t \in Candidate, Rank(s) = Rank(t)
  PROVE  s = t
<1>1. /\ s.start - s.end = t.start - t.end /\ -s.confidence = -t.confidence /\ s.start = t.start
      /\ Letter(s.type) = Letter(t.type) /\ Letter(s.reason) = Letter(t.reason)
  BY RankIs
<1>2. /\ s.start \in Nat /\ s.end \in Nat /\ s.confidence \in Int /\ s.type \in Names /\ s.reason \in Names
      /\ t.start \in Nat /\ t.end \in Nat /\ t.confidence \in Int /\ t.type \in Names /\ t.reason \in Names
  BY DEF Candidate
<1>3. s.end = t.end /\ s.confidence = t.confidence
  BY <1>1, <1>2
<1>4. s.type = t.type /\ s.reason = t.reason
  BY <1>1, <1>2, LetterIs
<1>5. QED  BY <1>1, <1>3, <1>4 DEF Candidate

LEMMA BetterIs ==
  ASSUME NEW s \in Candidate, NEW t \in Candidate, NEW u \in Candidate
  PROVE  /\ ~Better(s, s) /\ ~(Better(s, t) /\ Better(t, s))
         /\ Better(s, t) /\ Better(t, u) => Better(s, u)
         /\ s # t => Better(s, t) \/ Better(t, s)
<1>1. Row(6, Rank(s)) /\ Row(6, Rank(t)) /\ Row(6, Rank(u))
  BY RankIs
<1>2. ~LexLess(Rank(s), Rank(s)) /\ (LexLess(Rank(s), Rank(t)) /\ LexLess(Rank(t), Rank(s)) => LexLess(Rank(s), Rank(s)))
  BY <1>1, LexStrict
<1>3. LexLess(Rank(s), Rank(t)) /\ LexLess(Rank(t), Rank(u)) => LexLess(Rank(s), Rank(u))
  BY <1>1, LexStrict
<1>4. s # t => LexLess(Rank(s), Rank(t)) \/ LexLess(Rank(t), Rank(s))
  BY <1>1, LexTotal, RankTells
<1>5. QED  BY <1>2, <1>3, <1>4 DEF Better

\* Sorting finite candidates by rank lists each of them once, better ones first.
Ranked(S, n, r) ==
  /\ n = Cardinality(S) /\ n \in Nat /\ r \in [1..n -> S]
  /\ \A i, j \in 1..n : i < j => Better(r[i], r[j])
  /\ \A x \in S : \E i \in 1..n : r[i] = x

LEMMA SortedIs ==
  ASSUME NEW S, IsFiniteSet(S), S \subseteq Candidate
  PROVE  Ranked(S, Cardinality(S), SortedBy(S, Rank))
<1> DEFINE key == [x \in S |-> Rank(x)]
<1>1. Keyed(S, 6, key)
  BY RankIs, RankTells DEF Keyed
<1>2. \A x, y \in S : <<x, y>> \in ByKey(S, key) <=> Better(x, y)
  BY DEF ByKey, Better
<1>3. PICK L : L = ByKey(S, key) /\ StrictOrder(S, L) /\ \A x, y \in S : <<x, y>> \in L <=> Better(x, y)
  <2> HIDE DEF key
  <2>1. QED  BY <1>1, <1>2, KeyOrders
<1> HIDE DEF key
<1>4. PICK r : r = SortedBy(S, Rank)
  OBVIOUS
<1>5. SortsBy(S, L, r)
  <2> DEFINE n == Cardinality(S)
             v(i) == CHOOSE x \in S : Cardinality({y \in S : Better(y, x)}) = i - 1
  <2>1. r = [i \in 1..n |-> v(i)]
    BY <1>4 DEF SortedBy, Better
  <2>2. \A x \in S : Ahead(S, L, x) = Cardinality({y \in S : Better(y, x)})
    <3> TAKE x \in S
    <3>1. {y \in S : <<y, x>> \in L} = {y \in S : Better(y, x)}
      BY <1>3
    <3>2. QED  BY <3>1 DEF Ahead
  <2>3. ASSUME NEW i \in 1..n, \E x \in S : Ahead(S, L, x) = i - 1
        PROVE  v(i) \in S /\ Ahead(S, L, v(i)) = i - 1
    <3>1. \E x \in S : Cardinality({y \in S : Better(y, x)}) = i - 1
      BY <2>2, <2>3
    <3>2. v(i) \in S /\ Cardinality({y \in S : Better(y, v(i))}) = i - 1
      BY <3>1
    <3> HIDE DEF v
    <3>3. QED  BY <2>2, <3>2
  <2> HIDE DEF v
  <2>4. QED  BY <2>1, <2>3 DEF SortsBy
<1>6. Listed(S, L, Cardinality(S), r)
  BY <1>3, <1>5, ListedIs
<1>7. QED  BY <1>3, <1>4, <1>6 DEF Listed, Ranked

-----------------------------------------------------------------------------
(* Resolving overlaps.                                                     *)

LEMMA SmallestIs ==
  ASSUME NEW S, S \subseteq Nat, S # {}
  PROVE  Smallest(S) \in S /\ \A y \in S : Smallest(S) <= y
BY LeastOf DEF Smallest

LEMMA BiggestIs ==
  ASSUME NEW S, S \subseteq Nat, S # {}, NEW b \in Nat, \A x \in S : x <= b
  PROVE  Biggest(S) \in S /\ \A y \in S : y <= Biggest(S)
<1> DEFINE T == {b - x : x \in S}
<1>1. T \subseteq Nat /\ T # {}
  <2>1. \A x \in S : b - x \in Nat
    <3> TAKE x \in S
    <3>1. x \in Nat /\ x <= b
      OBVIOUS
    <3>2. QED  BY <3>1
  <2>2. QED  BY <2>1
<1>2. PICK t \in T : \A u \in T : t <= u
  <2> HIDE DEF T
  <2>1. QED  BY <1>1, LeastOf
<1>3. PICK x \in S : t = b - x
  OBVIOUS
<1>4. ASSUME NEW y \in S PROVE x >= y
  <2>1. b - x <= b - y
    BY <1>2, <1>3
  <2>2. x \in Nat /\ y \in Nat
    OBVIOUS
  <2> HIDE DEF T
  <2>3. QED  BY <2>1, <2>2
<1>5. Biggest(S) \in S /\ \A y \in S : Biggest(S) >= y
  <2>1. \E z \in S : \A y \in S : z >= y
    BY <1>4
  <2>2. QED  BY <2>1 DEF Biggest
<1>6. QED  BY <1>5

\* Among spans that lie apart, looking at the neighbours finds every overlap.
LEMMA NoRoomIs ==
  ASSUME NEW X, X \subseteq Candidate, NEW A, A \subseteq X, Apart(A), NEW s \in X
  PROVE  NoRoom(A, s) <=> \E t \in A : Overlap(s, t)
<1> DEFINE before == {t \in A : t.start < s.start}
           after == A \ before
<1>1. s.start \in Nat /\ s.end \in Nat /\ s.start < s.end
  BY DEF Candidate
<1>2. \A t \in A : t.start \in Nat /\ t.end \in Nat /\ t.start < t.end
  BY DEF Candidate
<1>3. \A t, u \in A : t # u => t.end <= u.start \/ u.end <= t.start
  <2> TAKE t, u \in A
  <2>1. t # u => ~Overlap(t, u)
    BY DEF Apart
  <2>2. QED  BY <1>2, <2>1 DEF Overlap
<1>4. NoRoom(A, s) <=>
        \/ \E t \in before : t.start = Biggest({u.start : u \in before}) /\ t.end > s.start
        \/ \E t \in after : t.start = Smallest({u.start : u \in after}) /\ s.end > t.start
  BY DEF NoRoom
<1>5. ASSUME NEW t \in before, t.end > s.start PROVE Overlap(s, t)
  BY <1>1, <1>2, <1>5 DEF Overlap
<1>6. ASSUME NEW t \in after, s.end > t.start PROVE Overlap(s, t)
  BY <1>1, <1>2, <1>6 DEF Overlap
<1>7. ASSUME NEW t \in before, Overlap(s, t)
      PROVE  t.start = Biggest({u.start : u \in before}) /\ t.end > s.start
  <2> DEFINE starts == {u.start : u \in before}
  <2>1. starts \subseteq Nat /\ t.start \in starts /\ \A x \in starts : x <= s.start
    BY <1>1, <1>2
  <2>2. Biggest(starts) \in starts /\ \A y \in starts : y <= Biggest(starts)
    <3> HIDE DEF starts
    <3>1. QED  BY <1>1, <2>1, BiggestIs
  <2>3. PICK u \in before : Biggest(starts) = u.start
    BY <2>2
  <2>4. u.start \in Nat /\ u.end \in Nat /\ u.start < u.end /\ u.start < s.start
    BY <1>2
  <2>5. t.start \in Nat /\ t.end \in Nat /\ t.start <= u.start /\ s.start < t.end
    <3> HIDE DEF starts
    <3>1. t.start <= Biggest(starts)
      BY <2>1, <2>2
    <3>2. t.start \in Nat /\ t.end \in Nat
      BY <1>2
    <3>3. QED  BY <1>7, <2>3, <3>1, <3>2 DEF Overlap
  <2>6. t = u
    <3>1. t # u => t.end <= u.start \/ u.end <= t.start
      BY <1>3
    <3> HIDE DEF starts, before
    <3>2. QED  BY <1>1, <2>4, <2>5, <3>1
  <2> HIDE DEF before
  <2>7. QED  BY <1>1, <2>3, <2>5, <2>6
<1>8. ASSUME NEW t \in after, Overlap(s, t)
      PROVE  \E u \in after : u.start = Smallest({v.start : v \in after}) /\ s.end > u.start
  <2> DEFINE starts == {u.start : u \in after}
  <2>1. starts \subseteq Nat /\ t.start \in starts
    BY <1>2
  <2>2. Smallest(starts) \in starts /\ \A y \in starts : Smallest(starts) <= y
    <3> HIDE DEF starts
    <3>1. QED  BY <2>1, SmallestIs
  <2>3. PICK u \in after : Smallest(starts) = u.start
    BY <2>2
  <2>4. u.start \in Nat /\ t.start \in Nat /\ u.start <= t.start /\ t.start < s.end
    <3>1. u.start \in Nat /\ t.start \in Nat
      BY <1>2
    <3> HIDE DEF starts
    <3>2. QED  BY <1>8, <2>1, <2>2, <2>3, <3>1 DEF Overlap
  <2>5. s.end > u.start
    BY <1>1, <2>4
  <2>6. QED  BY <2>3, <2>5
<1>9. A = before \cup after
  OBVIOUS
<1> HIDE DEF before, after
<1>10. QED  BY <1>4, <1>5, <1>6, <1>7, <1>8, <1>9

\* What the greedy selection keeps, and why it drops the rest.
ByRank(X, out) ==
  /\ out \subseteq X /\ Apart(out)
  /\ \A s \in X : s \in out <=> ~\E t \in out : Overlap(s, t) /\ Better(t, s)

\* Overlap is mutual, and a span overlaps itself.
LEMMA OverlapIs ==
  ASSUME NEW s \in Candidate, NEW t \in Candidate
  PROVE  (Overlap(s, t) <=> Overlap(t, s)) /\ Overlap(s, s)
BY DEF Overlap, Candidate

\* One more turn: the next best candidate is kept if there is room.
LEMMA KeepIs ==
  ASSUME NEW X, X \subseteq Candidate, NEW Seen, Seen \subseteq X, NEW A, ByRank(Seen, A),
         NEW s \in X, \A t \in Seen : Better(t, s)
  PROVE  ByRank(Seen \cup {s}, A \cup (IF NoRoom(A, s) THEN {} ELSE {s}))
<1>1. A \subseteq Seen /\ A \subseteq X /\ Apart(A)
  BY DEF ByRank
<1>2. \A t \in Seen : t \in A <=> ~\E u \in A : Overlap(t, u) /\ Better(u, t)
  BY DEF ByRank
<1>3. NoRoom(A, s) <=> \E t \in A : Overlap(s, t)
  BY <1>1, NoRoomIs
<1>4. s \notin Seen /\ ~Better(s, s) /\ \A t \in Seen : ~Better(s, t)
  <2>1. ~Better(s, s)
    BY BetterIs
  <2>2. ASSUME NEW t \in Seen PROVE ~Better(s, t)
    <3>1. s \in Candidate /\ t \in Candidate /\ Better(t, s)
      OBVIOUS
    <3>2. QED  BY <3>1, BetterIs
  <2>3. QED  BY <2>1, <2>2
<1>5. CASE NoRoom(A, s)
  <2>1. PICK t \in A : Overlap(s, t)
    BY <1>3, <1>5
  <2>2. Better(t, s) /\ s \notin A
    BY <1>1, <1>4
  <2>3. \A v \in Seen \cup {s} : v \in A <=> ~\E u \in A : Overlap(v, u) /\ Better(u, v)
    BY <1>2, <2>1, <2>2
  <2>4. ByRank(Seen \cup {s}, A)
    BY <1>1, <2>3 DEF ByRank
  <2>5. A \cup (IF NoRoom(A, s) THEN {} ELSE {s}) = A
    BY <1>5
  <2>6. QED  BY <2>4, <2>5
<1>6. CASE ~NoRoom(A, s)
  <2> DEFINE B == A \cup {s}
  <2>1. \A t \in A : ~Overlap(s, t) /\ ~Overlap(t, s)
    BY <1>1, <1>3, <1>6, OverlapIs
  <2>2. Apart(B)
    BY <1>1, <2>1 DEF Apart
  <2>3. \A v \in Seen : v \in B <=> ~\E u \in B : Overlap(v, u) /\ Better(u, v)
    BY <1>2, <1>4
  <2>4. s \in B /\ ~\E u \in B : Overlap(s, u) /\ Better(u, s)
    BY <1>4, <2>1
  <2>5. B \subseteq Seen \cup {s}
    BY <1>1
  <2>6. A \cup (IF NoRoom(A, s) THEN {} ELSE {s}) = B
    BY <1>6
  <2> HIDE DEF B
  <2>7. ByRank(Seen \cup {s}, B)
    BY <2>2, <2>3, <2>4, <2>5 DEF ByRank
  <2>8. QED  BY <2>6, <2>7
<1>7. QED  BY <1>5, <1>6

LEMMA SelectClusterIs ==
  ASSUME NEW X, IsFiniteSet(X), X \subseteq Candidate
  PROVE  ByRank(X, SelectCluster(X))
<1>1. PICK n, r : Ranked(X, n, r) /\ r = SortedBy(X, Rank)
  BY SortedIs
<1>2. n \in Nat /\ r \in [1..n -> X] /\ Len(r) = n
  BY <1>1 DEF Ranked
<1> DEFINE D == SUBSET X
           Keep(A, i) == A \cup (IF NoRoom(A, r[i]) THEN {} ELSE {r[i]})
           step == [w \in (1..n) \X D |-> Keep(w[2], w[1])]
<1>3. StepOn(n, D, step)
  <2>1. \A A \in D, i \in 1..n : Keep(A, i) \in D
    BY <1>2
  <2> HIDE DEF D, Keep
  <2>2. QED  BY <2>1 DEF StepOn
<1>4. PICK f \in [0..n -> D] : f[0] = {} /\ \A i \in 1..n : f[i] = step[<<i, f[i - 1]>>]
  <2>1. {} \in D
    OBVIOUS
  <2> HIDE DEF D, step
  <2>2. Repeats(n, D, {}, step)
    BY <1>2, <1>3, <2>1, Iterated
  <2>3. QED  BY <2>2 DEF Repeats
<1> DEFINE Turns(g) == [i \in 0..n |-> IF i = 0 THEN {} ELSE Keep(g[i - 1], i)]
           accepted == CHOOSE g : g = Turns(g)
<1>5. f = Turns(f)
  <2>1. ASSUME NEW i \in 0..n
        PROVE  f[i] = IF i = 0 THEN {} ELSE Keep(f[i - 1], i)
    <3>1. CASE i # 0
      <4>1. <<i, f[i - 1]>> \in (1..n) \X D /\ i \in 1..n
        <5> HIDE DEF D
        <5>1. QED  BY <1>2, <3>1
      <4>2. step[<<i, f[i - 1]>>] = Keep(f[i - 1], i)
        <5> HIDE DEF D, Keep
        <5>1. QED  BY <4>1
      <4> HIDE DEF Keep, step
      <4>3. QED  BY <1>4, <3>1, <4>1, <4>2
    <3>2. CASE i = 0
      BY <1>4, <3>2
    <3>3. QED  BY <3>1, <3>2
  <2> HIDE DEF D, Keep
  <2>2. QED  BY <2>1
<1>6. accepted = Turns(accepted)
  <2>1. \E g : g = Turns(g)
    BY <1>5
  <2> HIDE DEF Turns
  <2>2. QED  BY <2>1
<1>7. accepted[0] = {} /\ \A i \in 1..n : accepted[i] = Keep(accepted[i - 1], i)
  <2>1. \A i \in 0..n : accepted[i] = IF i = 0 THEN {} ELSE Keep(accepted[i - 1], i)
    <3> HIDE DEF accepted, Keep
    <3>1. QED  BY <1>6
  <2> HIDE DEF accepted, Keep
  <2>2. QED  BY <1>2, <2>1
<1>8. SelectCluster(X) = accepted[n]
  BY <1>1, <1>2 DEF SelectCluster
<1> HIDE DEF accepted
<1> DEFINE Seen(i) == {r[j] : j \in 1..i}
           T == {i \in 0..n : ByRank(Seen(i), accepted[i])}
<1>9. 0 \in T
  <2>1. Seen(0) = {}
    OBVIOUS
  <2>2. ByRank({}, {})
    BY DEF ByRank, Apart
  <2>3. ByRank(Seen(0), accepted[0])
    BY <1>7, <2>1, <2>2, Zenon
  <2>4. 0 \in 0..n
    BY <1>2
  <2> HIDE DEF Seen
  <2>5. QED  BY <2>3, <2>4
<1>10. ASSUME NEW i \in 0..(n - 1), i \in T PROVE i + 1 \in T
  <2>1. i \in 0..n /\ i + 1 \in 0..n /\ i + 1 \in 1..n /\ (i + 1) - 1 = i
    BY <1>2
  <2>2. PICK s \in X : s = r[i + 1]
    BY <1>2, <2>1
  <2>3. Seen(i + 1) = Seen(i) \cup {s}
    <3>1. 1..(i + 1) = (1..i) \cup {i + 1}
      BY <2>1
    <3>2. QED  BY <2>2, <3>1
  <2>4. Seen(i) \subseteq X
    BY <1>2, <2>1
  <2>5. ASSUME NEW t \in Seen(i) PROVE Better(t, s)
    <3>1. PICK j \in 1..i : t = r[j]
      OBVIOUS
    <3>2. j \in 1..n /\ j < i + 1
      <4>1. i \in Nat /\ i + 1 <= n
        BY <1>2
      <4>2. QED  BY <1>2, <4>1
    <3>3. QED  BY <1>1, <2>1, <2>2, <3>1, <3>2 DEF Ranked
  <2>6. ByRank(Seen(i), accepted[i])
    BY <1>10
  <2>7. accepted[i + 1] = accepted[i] \cup (IF NoRoom(accepted[i], s) THEN {} ELSE {s})
    BY <1>7, <2>1, <2>2
  <2> HIDE DEF Seen
  <2>8. ByRank(Seen(i) \cup {s}, accepted[i] \cup (IF NoRoom(accepted[i], s) THEN {} ELSE {s}))
    BY <2>4, <2>5, <2>6, KeepIs
  <2>9. QED  BY <2>1, <2>3, <2>7, <2>8, Zenon
<1> HIDE DEF T
<1>11. \A i \in 0..n : i \in T
  BY <1>2, <1>9, <1>10, InductionTo
<1>12. ByRank(Seen(n), accepted[n])
  <2>1. n \in 0..n
    BY <1>2
  <2>2. QED  BY <1>11, <2>1 DEF T
<1>13. Seen(n) = X
  <2>1. \A x \in X : \E i \in 1..n : r[i] = x
    BY <1>1 DEF Ranked
  <2>2. QED  BY <1>2, <2>1
<1> HIDE DEF Seen
<1>14. QED  BY <1>8, <1>12, <1>13, Zenon

\* The cluster of a candidate begins at the last cut in front of it.
ClusterAt(C, s) == Biggest({q \in Cuts(C) : q <= s.start})

LEMMA ClusterIs ==
  ASSUME NEW C, C \subseteq Candidate, NEW s \in C
  PROVE  /\ ClusterAt(C, s) \in Cuts(C) /\ ClusterAt(C, s) \in Nat /\ ClusterAt(C, s) <= s.start
         /\ \A q \in Cuts(C) : q <= s.start => q <= ClusterAt(C, s)
<1> DEFINE starts == {t.start : t \in C}
           Q == {q \in Cuts(C) : q <= s.start}
<1>1. \A t \in C : t.start \in Nat
  BY DEF Candidate
<1>2. PICK t \in C : \A u \in C : t.start <= u.start
  <2>1. starts \subseteq Nat /\ starts # {}
    BY <1>1
  <2>2. PICK x \in starts : \A y \in starts : x <= y
    <3> HIDE DEF starts
    <3>1. QED  BY <2>1, LeastOf
  <2>3. QED  BY <2>2
<1>3. t.start \in Cuts(C)
  <2>1. \A u \in C : ~(u.start < t.start)
    BY <1>1, <1>2
  <2>2. QED  BY <2>1 DEF Cuts
<1>4. Q \subseteq Nat /\ Q # {} /\ \A q \in Q : q <= s.start
  BY <1>1, <1>2, <1>3 DEF Cuts
<1>5. Biggest(Q) \in Q /\ \A q \in Q : q <= Biggest(Q)
  <2> HIDE DEF Q
  <2>1. QED  BY <1>1, <1>4, BiggestIs
<1>6. ClusterAt(C, s) = Biggest(Q)
  BY DEF ClusterAt
<1>7. QED  BY <1>4, <1>5, <1>6

\* Candidates of different clusters do not overlap.
LEMMA ClustersApart ==
  ASSUME NEW C, C \subseteq Candidate, NEW s \in C, NEW t \in C, Overlap(s, t)
  PROVE  ClusterAt(C, s) = ClusterAt(C, t)
<1>1. ASSUME NEW u \in C, NEW v \in C, ClusterAt(C, u) < ClusterAt(C, v) PROVE ~Overlap(u, v)
  <2>1. PICK p \in Nat, q \in Nat : p = ClusterAt(C, u) /\ q = ClusterAt(C, v) /\ p < q
    BY <1>1, ClusterIs
  <2>2. q \in Cuts(C) /\ q <= v.start /\ (q <= u.start => q <= p)
    BY <2>1, ClusterIs
  <2>3. \A w \in C : w.start < q => w.end <= q
    BY <2>2 DEF Cuts
  <2>4. u.start \in Nat /\ u.end \in Nat /\ v.start \in Nat
    BY DEF Candidate
  <2>5. u.end <= v.start
    BY <2>1, <2>2, <2>3, <2>4
  <2>6. QED  BY <2>4, <2>5 DEF Overlap
<1>2. ClusterAt(C, s) \in Nat /\ ClusterAt(C, t) \in Nat
  BY ClusterIs
<1>3. ~(ClusterAt(C, s) < ClusterAt(C, t)) /\ ~(ClusterAt(C, t) < ClusterAt(C, s))
  BY <1>1, OverlapIs
<1>4. QED  BY <1>2, <1>3

\* Cutting into clusters changes nothing of what rank decides.
LEMMA ResolveIs ==
  ASSUME NEW C, IsFiniteSet(C), C \subseteq Candidate
  PROVE  ByRank(C, Resolve(C))
<1> DEFINE cluster(p) == {s \in C : ClusterAt(C, s) = p}
           out == UNION {SelectCluster(cluster(p)) : p \in Cuts(C)}
<1>1. Resolve(C) = out
  BY DEF Resolve, ClusterAt
<1>2. \A p \in Cuts(C) : ByRank(cluster(p), SelectCluster(cluster(p)))
  <2> TAKE p \in Cuts(C)
  <2>1. cluster(p) \in SUBSET C
    OBVIOUS
  <2> HIDE DEF cluster
  <2>2. IsFiniteSet(cluster(p)) /\ cluster(p) \subseteq Candidate
    BY <2>1, FS_Subset
  <2>3. QED  BY <2>2, SelectClusterIs
<1>3. ASSUME NEW s \in C
      PROVE  s \in out <=> s \in SelectCluster(cluster(ClusterAt(C, s)))
  <2>1. ClusterAt(C, s) \in Cuts(C)
    BY ClusterIs
  <2>2. ASSUME NEW p \in Cuts(C), s \in SelectCluster(cluster(p)) PROVE p = ClusterAt(C, s)
    <3>1. SelectCluster(cluster(p)) \subseteq cluster(p)
      BY <1>2 DEF ByRank
    <3>2. s \in cluster(p)
      BY <2>2, <3>1
    <3>3. QED  BY <3>2
  <2> HIDE DEF cluster
  <2>3. QED  BY <2>1, <2>2
<1>4. out \subseteq C
  <2>1. \A p \in Cuts(C) : SelectCluster(cluster(p)) \subseteq cluster(p)
    BY <1>2 DEF ByRank
  <2>2. \A p \in Cuts(C) : cluster(p) \subseteq C
    OBVIOUS
  <2> HIDE DEF cluster
  <2>3. QED  BY <2>1, <2>2
<1>5. ASSUME NEW s \in C, NEW t \in out, Overlap(s, t)
      PROVE  t \in SelectCluster(cluster(ClusterAt(C, s)))
  <2>1. t \in C
    BY <1>4
  <2>2. ClusterAt(C, s) = ClusterAt(C, t)
    BY <1>5, <2>1, ClustersApart
  <2> HIDE DEF cluster, out
  <2>3. QED  BY <1>3, <2>1, <2>2
<1>6. Apart(out)
  <2>1. ASSUME NEW s \in out, NEW t \in out, s # t PROVE ~Overlap(s, t)
    <3>1. SUFFICES ASSUME Overlap(s, t) PROVE FALSE
      OBVIOUS
    <3>2. s \in C /\ t \in C
      BY <1>4
    <3>3. t \in SelectCluster(cluster(ClusterAt(C, s))) /\ s \in SelectCluster(cluster(ClusterAt(C, s)))
      <4> HIDE DEF cluster, out
      <4>1. QED  BY <1>3, <1>5, <3>1, <3>2
    <3>4. Apart(SelectCluster(cluster(ClusterAt(C, s))))
      BY <1>2, <3>2, ClusterIs DEF ByRank
    <3> HIDE DEF cluster, out
    <3>5. QED  BY <2>1, <3>1, <3>3, <3>4 DEF Apart
  <2> HIDE DEF out
  <2>2. QED  BY <2>1 DEF Apart
<1>7. ASSUME NEW s \in C
      PROVE  s \in out <=> ~\E t \in out : Overlap(s, t) /\ Better(t, s)
  <2> DEFINE kept == SelectCluster(cluster(ClusterAt(C, s)))
  <2>1. ByRank(cluster(ClusterAt(C, s)), kept) /\ s \in cluster(ClusterAt(C, s))
    BY <1>2, ClusterIs
  <2>2. s \in kept <=> ~\E t \in kept : Overlap(s, t) /\ Better(t, s)
    <3> HIDE DEF cluster, kept
    <3>1. QED  BY <2>1 DEF ByRank
  <2>3. kept \subseteq out
    BY ClusterIs
  <2>4. (s \in out <=> s \in kept) /\ \A t \in out : Overlap(s, t) => t \in kept
    BY <1>3, <1>5
  <2> HIDE DEF kept, out
  <2>5. QED  BY <2>2, <2>3, <2>4
<1> HIDE DEF out
<1>8. QED  BY <1>1, <1>4, <1>6, <1>7 DEF ByRank

\* However many candidates overlap however they may, what is kept lies apart, and a
\* candidate is dropped exactly for a better one that is kept (_resolve).
THEOREM RankDecides ==
  ASSUME IsFiniteSet(input.candidates), input.candidates \subseteq Candidate
  PROVE  ResolvedByRank
<1>1. PICK C : C = input.candidates
  OBVIOUS
<1>2. ByRank(C, Resolve(C))
  BY <1>1, ResolveIs
<1>3. /\ Apart(Resolve(C))
      /\ \A s \in C : s \in Resolve(C) <=> ~\E t \in Resolve(C) : Overlap(s, t) /\ LexLess(Rank(t), Rank(s))
  BY <1>2 DEF ByRank, Better
<1>4. QED  BY <1>1, <1>3, Zenon DEF ResolvedByRank

-----------------------------------------------------------------------------
(* Gaps between parts, and trimming.                                       *)

\* Parts in order, each of which touches the span c; what lies between them in c.
PartsIn(c, P) ==
  /\ c.start \in Nat /\ c.end \in Nat /\ c.start < c.end /\ Len(P) \in Nat
  /\ \A i \in 1..Len(P) : /\ P[i].start \in Nat /\ P[i].end \in Nat /\ P[i].start < P[i].end
                          /\ c.start <= P[i].end /\ P[i].start <= c.end
  /\ \A i, j \in 1..Len(P) : i < j => P[i].end <= P[j].start
GapLeft(c, P, i) == IF i = 1 THEN c.start ELSE P[i - 1].end
GapRight(c, P, i) == IF i = Len(P) + 1 THEN c.end ELSE P[i].start

LEMMA GapLeftIs ==
  ASSUME NEW c, NEW P, PartsIn(c, P), NEW n \in Nat, n = Len(P), NEW i \in 1..(n + 1)
  PROVE  /\ GapLeft(c, P, i) \in Nat /\ c.start <= GapLeft(c, P, i)
         /\ \A k \in 1..n : k < i => P[k].end <= GapLeft(c, P, i)
         /\ GapLeft(c, P, i) = c.start \/ \E k \in 1..n : GapLeft(c, P, i) = P[k].end
<1>1. CASE i = 1
  BY <1>1 DEF GapLeft, PartsIn
<1>2. CASE i # 1
  <2>1. PICK j \in 1..n : j = i - 1
    BY <1>2
  <2>2. GapLeft(c, P, i) = P[j].end /\ P[j].end \in Nat /\ c.start <= P[j].end /\ P[j].start < P[j].end /\ P[j].start \in Nat
    BY <1>2, <2>1 DEF GapLeft, PartsIn
  <2>3. ASSUME NEW k \in 1..n, k < i PROVE P[k].end <= P[j].end
    <3>1. k = j \/ k < j
      BY <2>1, <2>3
    <3>2. k < j => P[k].end <= P[j].start
      BY DEF PartsIn
    <3>3. P[k].end \in Nat
      BY DEF PartsIn
    <3>4. QED  BY <2>2, <3>1, <3>2, <3>3
  <2>4. QED  BY <2>1, <2>2, <2>3
<1>3. QED  BY <1>1, <1>2

LEMMA GapRightIs ==
  ASSUME NEW c, NEW P, PartsIn(c, P), NEW n \in Nat, n = Len(P), NEW i \in 1..(n + 1)
  PROVE  /\ GapRight(c, P, i) \in Nat /\ GapRight(c, P, i) <= c.end
         /\ \A k \in 1..n : i <= k => GapRight(c, P, i) <= P[k].start
         /\ GapRight(c, P, i) = c.end \/ \E k \in 1..n : GapRight(c, P, i) = P[k].start
<1>1. CASE i = n + 1
  BY <1>1 DEF GapRight, PartsIn
<1>2. CASE i # n + 1
  <2>1. i \in 1..n
    BY <1>2
  <2>2. GapRight(c, P, i) = P[i].start /\ P[i].start \in Nat /\ P[i].start <= c.end /\ P[i].start < P[i].end /\ P[i].end \in Nat
    BY <1>2, <2>1 DEF GapRight, PartsIn
  <2>3. ASSUME NEW k \in 1..n, i <= k PROVE P[i].start <= P[k].start
    <3>1. k = i \/ i < k
      BY <2>3
    <3>2. i < k => P[i].end <= P[k].start
      BY <2>1 DEF PartsIn
    <3>3. P[k].start \in Nat
      BY DEF PartsIn
    <3>4. QED  BY <2>2, <3>1, <3>2, <3>3
  <2>4. QED  BY <2>1, <2>2, <2>3
<1>3. QED  BY <1>1, <1>2

\* A gap lies in c, touches no part and no other gap.
GapOf(c, P, g) ==
  /\ g[1] \in Nat /\ g[2] \in Nat /\ g[1] < g[2] /\ c.start <= g[1] /\ g[2] <= c.end
  /\ \A k \in 1..Len(P) : P[k].end <= g[1] \/ g[2] <= P[k].start
  /\ g[1] = c.start \/ \E k \in 1..Len(P) : g[1] = P[k].end
  /\ g[2] = c.end \/ \E k \in 1..Len(P) : g[2] = P[k].start

LEMMA GapsAre ==
  ASSUME NEW c, NEW P, PartsIn(c, P)
  PROVE  \A g \in Gaps(c, P) : GapOf(c, P, g) /\ \A h \in Gaps(c, P) : g = h \/ g[2] <= h[1] \/ h[2] <= g[1]
<1>1. PICK n \in Nat : n = Len(P)
  BY DEF PartsIn
<1>2. \A g \in Gaps(c, P) : g[1] < g[2] /\ \E i \in 1..(n + 1) : g = <<GapLeft(c, P, i), GapRight(c, P, i)>>
  BY <1>1 DEF Gaps, GapLeft, GapRight
<1>3. ASSUME NEW g \in Gaps(c, P) PROVE GapOf(c, P, g)
  <2>1. PICK i \in 1..(n + 1) : g[1] = GapLeft(c, P, i) /\ g[2] = GapRight(c, P, i) /\ g[1] < g[2]
    BY <1>2
  <2>2. /\ g[1] \in Nat /\ c.start <= g[1] /\ \A k \in 1..n : k < i => P[k].end <= g[1]
        /\ g[1] = c.start \/ \E k \in 1..n : g[1] = P[k].end
    <3>1. /\ GapLeft(c, P, i) \in Nat /\ c.start <= GapLeft(c, P, i)
          /\ \A k \in 1..n : k < i => P[k].end <= GapLeft(c, P, i)
          /\ GapLeft(c, P, i) = c.start \/ \E k \in 1..n : GapLeft(c, P, i) = P[k].end
      BY <1>1, GapLeftIs
    <3>2. QED  BY <2>1, <3>1
  <2>3. /\ g[2] \in Nat /\ g[2] <= c.end /\ \A k \in 1..n : i <= k => g[2] <= P[k].start
        /\ g[2] = c.end \/ \E k \in 1..n : g[2] = P[k].start
    BY <1>1, <2>1, GapRightIs
  <2>4. \A k \in 1..n : k < i \/ i <= k
    OBVIOUS
  <2>5. QED  BY <1>1, <2>1, <2>2, <2>3, <2>4 DEF GapOf
<1>4. ASSUME NEW i \in 1..(n + 1), NEW j \in 1..(n + 1), i < j
      PROVE  GapRight(c, P, i) <= GapLeft(c, P, j)
  <2>1. i \in 1..n /\ i \in 1..(n + 1)
    BY <1>4
  <2>2. GapRight(c, P, i) \in Nat /\ GapRight(c, P, i) <= P[i].start
    BY <1>1, <2>1, GapRightIs
  <2>3. GapLeft(c, P, j) \in Nat /\ P[i].end <= GapLeft(c, P, j)
    BY <1>1, <1>4, <2>1, GapLeftIs
  <2>4. P[i].start \in Nat /\ P[i].end \in Nat /\ P[i].start < P[i].end
    BY <1>1, <2>1 DEF PartsIn
  <2>5. QED  BY <2>2, <2>3, <2>4
<1>5. ASSUME NEW g \in Gaps(c, P), NEW h \in Gaps(c, P) PROVE g = h \/ g[2] <= h[1] \/ h[2] <= g[1]
  <2>1. PICK i \in 1..(n + 1) : g = <<GapLeft(c, P, i), GapRight(c, P, i)>>
    BY <1>2
  <2>2. PICK j \in 1..(n + 1) : h = <<GapLeft(c, P, j), GapRight(c, P, j)>>
    BY <1>2
  <2>3. i = j \/ i < j \/ j < i
    OBVIOUS
  <2>4. QED  BY <1>4, <2>1, <2>2, <2>3
<1>6. QED  BY <1>3, <1>5

\* Parts and gaps leave out no offset of c.
LEMMA GapsCover ==
  ASSUME NEW c, NEW P, PartsIn(c, P), NEW x \in Nat, c.start <= x, x < c.end
  PROVE  \/ \E k \in 1..Len(P) : P[k].start <= x /\ x < P[k].end
         \/ \E g \in Gaps(c, P) : g[1] <= x /\ x < g[2]
<1>1. PICK n \in Nat : n = Len(P)
  BY DEF PartsIn
<1> DEFINE S == {i \in 1..(n + 1) : x < GapRight(c, P, i)}
<1>2. n + 1 \in S
  <2>1. GapRight(c, P, n + 1) = c.end
    BY <1>1 DEF GapRight
  <2>2. QED  BY <2>1
<1>3. PICK i \in S : \A j \in S : i <= j
  <2>1. S \subseteq Nat /\ S # {}
    BY <1>2
  <2> HIDE DEF S
  <2>2. QED  BY <2>1, LeastOf
<1>4. i \in 1..(n + 1) /\ x < GapRight(c, P, i)
  OBVIOUS
<1>5. GapLeft(c, P, i) \in Nat /\ GapRight(c, P, i) \in Nat
  BY <1>1, <1>4, GapLeftIs, GapRightIs
<1>6. CASE GapLeft(c, P, i) <= x
  <2> DEFINE g == <<GapLeft(c, P, i), GapRight(c, P, i)>>
  <2>1. g[1] <= x /\ x < g[2] /\ g[1] < g[2]
    BY <1>4, <1>5, <1>6
  <2>2. g \in Gaps(c, P)
    BY <1>1, <1>4, <2>1 DEF Gaps, GapLeft, GapRight
  <2>3. QED  BY <2>1, <2>2
<1>7. CASE ~(GapLeft(c, P, i) <= x)
  <2>1. i # 1
    BY <1>7 DEF GapLeft
  <2>2. PICK k \in 1..n : k = i - 1
    BY <1>4, <2>1
  <2>3. x < P[k].end
    <3>1. GapLeft(c, P, i) = P[k].end
      BY <2>1, <2>2 DEF GapLeft
    <3>2. QED  BY <1>5, <1>7, <3>1
  <2>4. P[k].start <= x
    <3>1. k \in 1..(n + 1) /\ ~(i <= k)
      BY <1>4, <2>2
    <3>2. k \notin S
      <4> HIDE DEF S
      <4>1. QED  BY <1>3, <3>1
    <3>3. ~(x < GapRight(c, P, k))
      BY <3>1, <3>2
    <3>4. GapRight(c, P, k) = P[k].start /\ P[k].start \in Nat
      BY <1>1, <2>2 DEF GapRight, PartsIn
    <3>5. QED  BY <3>3, <3>4
  <2>5. QED  BY <1>1, <2>3, <2>4
<1>8. QED  BY <1>6, <1>7

\* Trimming stops at the first and the last character that is not dropped.
TrimmedTo(text, a, b, Drop, lo, hi) ==
  /\ lo \in Nat /\ hi \in Nat /\ a <= lo /\ lo < hi /\ hi <= b
  /\ \A i \in a..(lo - 1) : CharAt(text, i) \in Drop
  /\ \A i \in hi..(b - 1) : CharAt(text, i) \in Drop

LEMMA TrimIs ==
  ASSUME NEW text, NEW a \in Nat, NEW b \in Nat, NEW Drop
  PROVE  \/ /\ TrimEnds(text, a, b, Drop) = <<b, b>>
            /\ \A i \in a..(b - 1) : CharAt(text, i) \in Drop
         \/ \E lo, hi \in Nat : /\ TrimEnds(text, a, b, Drop) = <<lo, hi>>
                                /\ TrimmedTo(text, a, b, Drop, lo, hi)
<1> DEFINE S == {i \in a..(b - 1) : CharAt(text, i) \notin Drop}
<1>1. TrimEnds(text, a, b, Drop) = Hull(S, b)
  BY DEF TrimEnds
<1>2. CASE S = {}
  <2>1. Hull(S, b) = <<b, b>>
    BY <1>2 DEF Hull
  <2>2. \A i \in a..(b - 1) : CharAt(text, i) \in Drop
    BY <1>2
  <2>3. QED  BY <1>1, <2>1, <2>2
<1>3. CASE S # {}
  <2>1. S \subseteq Nat /\ \A x \in S : x <= b
    OBVIOUS
  <2>2. Smallest(S) \in S /\ (\A y \in S : Smallest(S) <= y) /\ Biggest(S) \in S /\ (\A y \in S : y <= Biggest(S))
    <3> HIDE DEF S
    <3>1. QED  BY <1>3, <2>1, SmallestIs, BiggestIs
  <2>3. PICK lo \in Nat, k \in Nat : lo = Smallest(S) /\ k = Biggest(S)
    <3> HIDE DEF S
    <3>1. QED  BY <2>1, <2>2
  <2>4. Hull(S, b) = <<lo, k + 1>>
    BY <1>3, <2>3 DEF Hull
  <2>5. a <= lo /\ lo <= k /\ k + 1 <= b
    BY <2>2, <2>3
  <2>6. \A i \in a..(lo - 1) : CharAt(text, i) \in Drop
    <3> TAKE i \in a..(lo - 1)
    <3>1. i \in a..(b - 1) /\ ~(lo <= i)
      BY <2>5
    <3>2. i \notin S
      BY <2>2, <2>3, <3>1
    <3>3. QED  BY <3>1, <3>2
  <2>7. \A i \in (k + 1)..(b - 1) : CharAt(text, i) \in Drop
    <3> TAKE i \in (k + 1)..(b - 1)
    <3>1. i \in a..(b - 1) /\ ~(i <= k)
      BY <2>5
    <3>2. i \notin S
      BY <2>2, <2>3, <3>1
    <3>3. QED  BY <3>1, <3>2
  <2>8. k + 1 \in Nat /\ lo < k + 1
    BY <2>5
  <2> HIDE DEF S
  <2>9. QED  BY <1>1, <2>4, <2>5, <2>6, <2>7, <2>8 DEF TrimmedTo
<1>4. QED  BY <1>2, <1>3

-----------------------------------------------------------------------------
(* Address tails.                                                          *)

\* The union of finitely many finite sets is finite.
LEMMA FiniteUnion ==
  ASSUME NEW I, IsFiniteSet(I), NEW f, \A i \in I : IsFiniteSet(f[i])
  PROVE  IsFiniteSet(UNION {f[i] : i \in I})
<1> DEFINE T == {f[i] : i \in I}
           g == [i \in I |-> f[i]]
<1>1. g \in Surjection(I, T)
  BY DEF Surjection
<1> HIDE DEF g
<1>2. IsFiniteSet(T) /\ \A t \in T : IsFiniteSet(t)
  <2>1. \A t \in T : IsFiniteSet(t)
    OBVIOUS
  <2> HIDE DEF T
  <2>2. QED  BY <1>1, <2>1, FS_Surjection
<1> HIDE DEF T
<1>3. IsFiniteSet(UNION T)
  BY <1>2, FS_UNION
<1>4. QED  BY <1>3 DEF T

\* Spans that lie apart start at different offsets, one behind the end of the other.
LEMMA ApartIs ==
  ASSUME NEW S, S \subseteq Candidate, Apart(S), NEW s \in S, NEW t \in S
  PROVE  /\ s.start \in Nat /\ s.end \in Nat /\ s.start < s.end
         /\ s.start = t.start => s = t
         /\ s.start < t.start => s.end <= t.start
         /\ s = t \/ s.end <= t.start \/ t.end <= s.start
<1>1. /\ s.start \in Nat /\ s.end \in Nat /\ s.start < s.end
      /\ t.start \in Nat /\ t.end \in Nat /\ t.start < t.end
  BY DEF Candidate
<1>2. s # t => ~(s.start < t.end /\ t.start < s.end)
  BY DEF Apart, Overlap
<1>3. QED  BY <1>1, <1>2

\* The rules' spans that a candidate overlaps, in order.
LEMMA TailParts ==
  ASSUME NEW R, IsFiniteSet(R), R \subseteq Candidate, Apart(R), NEW c \in Candidate,
         NEW P, P = AddressTailOverlaps(c, R), P # <<>>
  PROVE  /\ PartsIn(c, P) /\ \A k \in 1..Len(P) : P[k] \in R
         /\ \A r \in R : Overlap(r, c) => \E k \in 1..Len(P) : P[k] = r
<1> DEFINE O == {s \in R : Overlap(s, c)}
           key == [s \in O |-> <<s.start>>]
<1>1. IsFiniteSet(O) /\ O \subseteq R /\ O \subseteq Candidate
  <2>1. O \in SUBSET R
    OBVIOUS
  <2> HIDE DEF O
  <2>2. QED  BY <2>1, FS_Subset
<1>2. P = SortedBy(O, LAMBDA s : <<s.start>>)
  BY DEF AddressTailOverlaps
<1>3. Keyed(O, 1, key)
  <2>1. ASSUME NEW s \in O PROVE Row(1, key[s]) /\ key[s] = <<s.start>>
    <3>1. s.start \in Int
      BY <1>1 DEF Candidate
    <3>2. key[s] = <<s.start>>
      OBVIOUS
    <3>3. QED  BY <3>1, <3>2 DEF Row
  <2>2. ASSUME NEW s \in O, NEW t \in O, key[s] = key[t] PROVE s = t
    <3>1. <<s.start>> = <<t.start>>
      BY <2>1, <2>2
    <3>2. s.start = t.start /\ s \in R /\ t \in R
      BY <1>1, <3>1
    <3>3. QED  BY <3>2, ApartIs
  <2> HIDE DEF key
  <2>3. QED  BY <2>1, <2>2 DEF Keyed
<1>4. \A x, y \in O : <<x, y>> \in ByKey(O, key) <=> LexLess(<<x.start>>, <<y.start>>)
  BY DEF ByKey
<1>5. PICK L : /\ StrictOrder(O, L)
               /\ \A x, y \in O : <<x, y>> \in L <=> LexLess(<<x.start>>, <<y.start>>)
  <2> HIDE DEF key
  <2>1. QED  BY <1>3, <1>4, KeyOrders
<1> HIDE DEF key
<1>6. SortsBy(O, L, P)
  <2> DEFINE v(i) == CHOOSE x \in O : Cardinality({y \in O : LexLess(<<y.start>>, <<x.start>>)}) = i - 1
  <2>1. P = [i \in 1..Cardinality(O) |-> v(i)]
    BY <1>2 DEF SortedBy
  <2>2. \A x \in O : Ahead(O, L, x) = Cardinality({y \in O : LexLess(<<y.start>>, <<x.start>>)})
    <3> TAKE x \in O
    <3>1. {y \in O : <<y, x>> \in L} = {y \in O : LexLess(<<y.start>>, <<x.start>>)}
      <4> HIDE DEF O
      <4>1. QED  BY <1>5
    <3>2. QED  BY <3>1 DEF Ahead
  <2> HIDE DEF O
  <2>3. ASSUME NEW i \in 1..Cardinality(O), \E x \in O : Ahead(O, L, x) = i - 1
        PROVE  v(i) \in O /\ Ahead(O, L, v(i)) = i - 1
    <3>1. \E x \in O : Cardinality({y \in O : LexLess(<<y.start>>, <<x.start>>)}) = i - 1
      BY <2>2, <2>3
    <3>2. v(i) \in O /\ Cardinality({y \in O : LexLess(<<y.start>>, <<v(i).start>>)}) = i - 1
      BY <3>1
    <3> HIDE DEF v
    <3>3. QED  BY <2>2, <3>2
  <2> HIDE DEF v
  <2>4. QED  BY <2>1, <2>3 DEF SortsBy
<1>7. PICK n \in Nat : Listed(O, L, n, P)
  <2> HIDE DEF O
  <2>1. Listed(O, L, Cardinality(O), P)
    BY <1>1, <1>5, <1>6, ListedIs
  <2>2. Cardinality(O) \in Nat
    BY <1>1, FS_CardinalityType
  <2>3. QED  BY <2>1, <2>2
<1>8. P \in [1..n -> O] /\ Len(P) = n /\ \A x \in O : \E i \in 1..n : P[i] = x
  BY <1>7 DEF Listed
<1>9. ASSUME NEW i \in 1..n, NEW j \in 1..n, i < j PROVE P[i].end <= P[j].start
  <2>1. P[i] \in O /\ P[j] \in O /\ <<P[i], P[j]>> \in L
    BY <1>7, <1>8, <1>9 DEF Listed
  <2>2. LexLess(<<P[i].start>>, <<P[j].start>>)
    BY <1>5, <2>1
  <2>3. P[i].start < P[j].start
    BY <2>2 DEF LexLess
  <2>4. P[i] \in R /\ P[j] \in R
    BY <1>1, <2>1
  <2>5. QED  BY <2>3, <2>4, ApartIs
<1>10. ASSUME NEW i \in 1..n
       PROVE  /\ P[i].start \in Nat /\ P[i].end \in Nat /\ P[i].start < P[i].end
              /\ c.start <= P[i].end /\ P[i].start <= c.end /\ P[i] \in R
  <2>1. P[i] \in R /\ Overlap(P[i], c) /\ P[i] \in Candidate
    BY <1>8
  <2>2. c.start \in Nat /\ c.end \in Nat /\ P[i].start \in Nat /\ P[i].end \in Nat /\ P[i].start < P[i].end
    BY <2>1 DEF Candidate
  <2>3. QED  BY <2>1, <2>2 DEF Overlap
<1>11. c.start \in Nat /\ c.end \in Nat /\ c.start < c.end
  BY DEF Candidate
<1>12. \A r \in R : Overlap(r, c) => \E k \in 1..n : P[k] = r
  BY <1>8
<1> HIDE DEF O
<1>13. PartsIn(c, P)
  BY <1>8, <1>9, <1>10, <1>11 DEF PartsIn
<1>14. QED  BY <1>8, <1>10, <1>12, <1>13

\* A fragment lies in its gap and looks like an address; a gap that holds one yields it.
LEMMA FragmentIs ==
  ASSUME NEW text, NEW c \in Candidate, NEW a \in Nat, NEW b \in Nat
  PROVE  /\ \A s \in AddressFragment(text, c, a, b) :
              /\ s \in Candidate /\ a <= s.start /\ s.end <= b
              /\ LooksLikeAddress(text, s.start, s.end)
              /\ \A t \in AddressFragment(text, c, a, b) : s = t
         /\ LET cut == TrimEnds(text, a, b, Separators)
            IN  cut[1] < cut[2] /\ LooksLikeAddress(text, cut[1], cut[2]) =>
                  \E s \in AddressFragment(text, c, a, b) : s.start = cut[1] /\ s.end = cut[2]
         /\ IsFiniteSet(AddressFragment(text, c, a, b))
<1>1. PICK cut : cut = TrimEnds(text, a, b, Separators)
  OBVIOUS
<1> DEFINE new == [start |-> cut[1], end |-> cut[2], type |-> "LOCATION",
                   confidence |-> c.confidence, reason |-> "ner-location"]
<1>2. AddressFragment(text, c, a, b) =
        IF cut[1] = cut[2] \/ ~LooksLikeAddress(text, cut[1], cut[2]) THEN {} ELSE {new}
  BY <1>1 DEF AddressFragment
<1>3. \/ cut = <<b, b>>
      \/ \E lo, hi \in Nat : cut = <<lo, hi>> /\ TrimmedTo(text, a, b, Separators, lo, hi)
  BY <1>1, TrimIs
<1>4. cut[1] # cut[2] => new \in Candidate /\ a <= cut[1] /\ cut[2] <= b
  <2>1. SUFFICES ASSUME cut[1] # cut[2] PROVE new \in Candidate /\ a <= cut[1] /\ cut[2] <= b
    OBVIOUS
  <2>2. PICK lo \in Nat, hi \in Nat : cut = <<lo, hi>> /\ TrimmedTo(text, a, b, Separators, lo, hi)
    BY <1>3, <2>1
  <2>3. cut[1] = lo /\ cut[2] = hi /\ lo < hi /\ a <= lo /\ hi <= b
    BY <2>2 DEF TrimmedTo
  <2>4. "LOCATION" \in Names /\ "ner-location" \in Names
    <3>1. Len(Alphabet) = 17 /\ Alphabet[6] = "LOCATION" /\ Alphabet[15] = "ner-location"
      BY DEF Alphabet
    <3>2. 6 \in 1..Len(Alphabet) /\ 15 \in 1..Len(Alphabet)
      BY <3>1
    <3>3. QED  BY <3>1, <3>2 DEF Names
  <2>5. c.confidence \in Int
    BY DEF Candidate
  <2>6. QED  BY <2>3, <2>4, <2>5 DEF Candidate
<1>5. new.start = cut[1] /\ new.end = cut[2]
  OBVIOUS
<1> HIDE DEF new
<1>6. CASE cut[1] = cut[2] \/ ~LooksLikeAddress(text, cut[1], cut[2])
  <2>1. AddressFragment(text, c, a, b) = {}
    BY <1>2, <1>6
  <2>2. IsFiniteSet({}) /\ ~(cut[1] < cut[2] /\ LooksLikeAddress(text, cut[1], cut[2]))
    <3>1. cut[1] = cut[2] => cut[1] \in Int
      BY <1>3
    <3>2. QED  BY <1>6, <3>1, FS_EmptySet
  <2>3. QED  BY <1>1, <2>1, <2>2
<1>7. CASE ~(cut[1] = cut[2] \/ ~LooksLikeAddress(text, cut[1], cut[2]))
  <2>1. AddressFragment(text, c, a, b) = {new}
    BY <1>2, <1>7
  <2>2. IsFiniteSet({new})
    BY FS_Singleton
  <2>3. QED  BY <1>1, <1>4, <1>5, <1>7, <2>1, <2>2
<1>8. QED  BY <1>6, <1>7

\* The fragments that one candidate leaves beside the spans R.
Tails(text, R, c) ==
  LET overlaps == AddressTailOverlaps(c, R)
  IN  IF overlaps = <<>> THEN {} ELSE AddressTailFragments(text, c, overlaps)
TailIn(text, R, c, s) ==
  /\ s \in Candidate /\ c.start <= s.start /\ s.end <= c.end
  /\ LooksLikeAddress(text, s.start, s.end)
  /\ \A r \in R : ~Overlap(s, r)
Settled(R) == IsFiniteSet(R) /\ R \subseteq Candidate /\ Apart(R)

\* There are finitely many gaps.
LEMMA GapsFinite ==
  ASSUME NEW c, NEW P, PartsIn(c, P)
  PROVE  IsFiniteSet(Gaps(c, P))
<1>1. PICK n \in Nat : n = Len(P)
  BY DEF PartsIn
<1> DEFINE I == 1..(n + 1)
           f == [i \in I |-> {<<GapLeft(c, P, i), GapRight(c, P, i)>>}]
<1>2. IsFiniteSet(I) /\ \A i \in I : IsFiniteSet(f[i])
  <2>1. IsFiniteSet(I)
    BY FS_Interval
  <2>2. QED  BY <2>1, FS_Singleton
<1>3. Gaps(c, P) \in SUBSET UNION {f[i] : i \in I}
  <2>1. ASSUME NEW g \in Gaps(c, P) PROVE \E i \in I : g \in f[i]
    <3>1. PICK i \in I : g = <<GapLeft(c, P, i), GapRight(c, P, i)>>
      BY <1>1 DEF Gaps, GapLeft, GapRight
    <3>2. QED  BY <3>1
  <2> HIDE DEF f, I
  <2>2. QED  BY <2>1
<1> HIDE DEF f, I
<1>4. IsFiniteSet(UNION {f[i] : i \in I})
  BY <1>2, FiniteUnion
<1>5. QED  BY <1>3, <1>4, FS_Subset

\* They lie in the candidate, beside all of R and beside each other.
LEMMA TailsAre ==
  ASSUME NEW text, NEW R, Settled(R), NEW c \in Candidate
  PROVE  /\ IsFiniteSet(Tails(text, R, c))
         /\ \A s \in Tails(text, R, c) : TailIn(text, R, c, s)
         /\ \A s, t \in Tails(text, R, c) : s # t => ~Overlap(s, t)
         /\ AddressTailOverlaps(c, R) # <<>> =>
              \A g \in Gaps(c, AddressTailOverlaps(c, R)) :
                LET cut == TrimEnds(text, g[1], g[2], Separators)
                IN  cut[1] < cut[2] /\ LooksLikeAddress(text, cut[1], cut[2]) =>
                      \E s \in Tails(text, R, c) : s.start = cut[1] /\ s.end = cut[2]
<1>1. PICK P : P = AddressTailOverlaps(c, R)
  OBVIOUS
<1>2. CASE P = <<>>
  <2>1. Tails(text, R, c) = {}
    BY <1>1, <1>2 DEF Tails
  <2>2. QED  BY <1>1, <1>2, <2>1, FS_EmptySet
<1>3. CASE P # <<>>
  <2>1. /\ PartsIn(c, P)
        /\ \A k \in 1..Len(P) : P[k] \in R
        /\ \A r \in R : Overlap(r, c) => \E k \in 1..Len(P) : P[k] = r
    BY <1>1, <1>3, TailParts DEF Settled
  <2> DEFINE G == Gaps(c, P)
             frag(g) == AddressFragment(text, c, g[1], g[2])
  <2>2. Tails(text, R, c) = UNION {frag(g) : g \in G}
    BY <1>1, <1>3 DEF Tails, AddressTailFragments
  <2>3. \A g \in G : GapOf(c, P, g) /\ \A h \in G : g = h \/ g[2] <= h[1] \/ h[2] <= g[1]
    BY <2>1, GapsAre
  <2>4. \A g \in G : g[1] \in Nat /\ g[2] \in Nat /\ c.start <= g[1] /\ g[2] <= c.end
                     /\ \A k \in 1..Len(P) : P[k].end <= g[1] \/ g[2] <= P[k].start
    BY <2>3 DEF GapOf
  <2> HIDE DEF G
  <2>5. \A g \in G : IsFiniteSet(frag(g))
    BY <2>4, FragmentIs
  <2>6. IsFiniteSet(Tails(text, R, c))
    <3> DEFINE f == [g \in G |-> frag(g)]
    <3>1. IsFiniteSet(G) /\ \A g \in G : IsFiniteSet(f[g])
      <4>1. IsFiniteSet(G)
        BY <2>1, GapsFinite DEF G
      <4>2. QED  BY <2>5, <4>1
    <3>2. UNION {f[g] : g \in G} = UNION {frag(g) : g \in G}
      OBVIOUS
    <3> HIDE DEF f, frag
    <3>3. IsFiniteSet(UNION {f[g] : g \in G})
      BY <3>1, FiniteUnion
    <3>4. QED  BY <2>2, <3>2, <3>3, Zenon
  <2>7. ASSUME NEW g \in G, NEW s \in frag(g)
        PROVE  /\ s \in Candidate /\ g[1] <= s.start /\ s.end <= g[2]
               /\ LooksLikeAddress(text, s.start, s.end) /\ \A t \in frag(g) : s = t
    BY <2>4, FragmentIs
  <2>8. ASSUME NEW g \in G, NEW s \in frag(g) PROVE TailIn(text, R, c, s)
    <3>1. /\ s \in Candidate /\ g[1] <= s.start /\ s.end <= g[2]
          /\ LooksLikeAddress(text, s.start, s.end)
      BY <2>7
    <3>2. /\ g[1] \in Nat /\ g[2] \in Nat /\ c.start <= g[1] /\ g[2] <= c.end
          /\ s.start \in Nat /\ s.end \in Nat /\ c.start \in Nat /\ c.end \in Nat
      BY <2>4, <3>1 DEF Candidate
    <3>3. c.start <= s.start /\ s.end <= c.end
      BY <3>1, <3>2
    <3>4. ASSUME NEW r \in R, Overlap(s, r) PROVE FALSE
      <4>1. r.start \in Nat /\ r.end \in Nat /\ s.start < r.end /\ r.start < s.end
        BY <3>4 DEF Settled, Candidate, Overlap
      <4>2. Overlap(r, c)
        BY <3>2, <3>3, <4>1 DEF Overlap
      <4>3. PICK k \in 1..Len(P) : P[k] = r
        BY <2>1, <4>2
      <4>4. r.end <= g[1] \/ g[2] <= r.start
        BY <2>4, <4>3
      <4>5. QED  BY <3>1, <3>2, <4>1, <4>4
    <3>5. QED  BY <3>1, <3>3, <3>4 DEF TailIn
  <2>9. ASSUME NEW g \in G, NEW s \in frag(g), NEW h \in G, NEW t \in frag(h), s # t
        PROVE  ~Overlap(s, t)
    <3>1. g # h
      BY <2>7, <2>9
    <3>2. g[2] <= h[1] \/ h[2] <= g[1]
      BY <2>3, <3>1
    <3>3. /\ g[1] <= s.start /\ s.end <= g[2] /\ h[1] <= t.start /\ t.end <= h[2]
          /\ s \in Candidate /\ t \in Candidate
      BY <2>7
    <3>4. /\ g[1] \in Nat /\ g[2] \in Nat /\ h[1] \in Nat /\ h[2] \in Nat
          /\ s.start \in Nat /\ s.end \in Nat /\ t.start \in Nat /\ t.end \in Nat
      BY <2>4, <3>3 DEF Candidate
    <3>5. QED  BY <3>2, <3>3, <3>4 DEF Overlap
  <2>10. ASSUME NEW g \in G, NEW cut, cut = TrimEnds(text, g[1], g[2], Separators),
                cut[1] < cut[2], LooksLikeAddress(text, cut[1], cut[2])
         PROVE  \E s \in frag(g) : s.start = cut[1] /\ s.end = cut[2]
    <3>1. PICK from \in Nat, to \in Nat : from = g[1] /\ to = g[2]
      BY <2>4
    <3>2. cut = TrimEnds(text, from, to, Separators)
      BY <2>10, <3>1, Zenon
    <3>3. \E s \in AddressFragment(text, c, from, to) : s.start = cut[1] /\ s.end = cut[2]
      <4>1. LET shown == TrimEnds(text, from, to, Separators)
            IN  shown[1] < shown[2] /\ LooksLikeAddress(text, shown[1], shown[2]) =>
                  \E s \in AddressFragment(text, c, from, to) : s.start = shown[1] /\ s.end = shown[2]
        BY FragmentIs
      <4>2. QED  BY <2>10, <3>2, <4>1
    <3>4. QED  BY <3>1, <3>3, Zenon
  <2>11. \A s \in Tails(text, R, c) : \E g \in G : s \in frag(g)
    BY <2>2
  <2>12. \A g \in G : frag(g) \subseteq Tails(text, R, c)
    BY <2>2
  <2> HIDE DEF frag
  <2>13. \A s \in Tails(text, R, c) : TailIn(text, R, c, s)
    BY <2>8, <2>11
  <2>14. \A s, t \in Tails(text, R, c) : s # t => ~Overlap(s, t)
    BY <2>9, <2>11
  <2>15. \A g \in G : LET cut == TrimEnds(text, g[1], g[2], Separators)
                      IN  cut[1] < cut[2] /\ LooksLikeAddress(text, cut[1], cut[2]) =>
                            \E s \in Tails(text, R, c) : s.start = cut[1] /\ s.end = cut[2]
    BY <2>10, <2>12
  <2>16. QED  BY <1>1, <2>6, <2>13, <2>14, <2>15 DEF G
<1>4. QED  BY <1>2, <1>3

\* Nothing is dropped of what lies apart already.
LEMMA ApartStays ==
  ASSUME NEW S, Settled(S)
  PROVE  Resolve(S) = S
<1>1. ByRank(S, Resolve(S))
  BY ResolveIs DEF Settled
<1>2. ASSUME NEW s \in S, s \notin Resolve(S) PROVE FALSE
  <2>1. PICK t \in Resolve(S) : Overlap(s, t) /\ Better(t, s)
    BY <1>1, <1>2 DEF ByRank
  <2>2. t \in S /\ s \in Candidate /\ t \in Candidate
    BY <1>1 DEF ByRank, Settled
  <2>3. s # t
    BY <2>1, <2>2, BetterIs
  <2>4. QED  BY <2>1, <2>2, <2>3 DEF Settled, Apart
<1>3. Resolve(S) \subseteq S
  BY <1>1 DEF ByRank
<1>4. QED  BY <1>2, <1>3

\* The rules' spans and all tails lie apart, so that all of them are kept.
LEMMA TailsStay ==
  ASSUME NEW text, NEW R, Settled(R), NEW C, Settled(C)
  PROVE  /\ PreserveAddressTails(text, R, C) = R \cup UNION {Tails(text, R, c) : c \in C}
         /\ Settled(PreserveAddressTails(text, R, C))
<1> DEFINE T == UNION {Tails(text, R, c) : c \in C}
<1>1. PreserveAddressTails(text, R, C) = Resolve(R \cup T)
  BY DEF PreserveAddressTails, Tails
<1>2. IsFiniteSet(T)
  <2> DEFINE f == [c \in C |-> Tails(text, R, c)]
  <2>1. \A c \in C : IsFiniteSet(f[c])
    BY TailsAre DEF Settled
  <2>2. UNION {f[c] : c \in C} = T
    OBVIOUS
  <2> HIDE DEF f, T
  <2>3. QED  BY <2>1, <2>2, FiniteUnion DEF Settled
<1>3. \A t \in T : \E c \in C : t \in Tails(text, R, c)
  OBVIOUS
<1> HIDE DEF T
<1>4. \A t \in T : t \in Candidate /\ \A r \in R : ~Overlap(t, r)
  BY <1>3, TailsAre DEF TailIn, Settled
<1>5. ASSUME NEW s \in T, NEW t \in T, s # t PROVE ~Overlap(s, t)
  <2>1. PICK c \in C, d \in C : s \in Tails(text, R, c) /\ t \in Tails(text, R, d)
    BY <1>3
  <2>2. CASE c = d
    BY <1>5, <2>1, <2>2, TailsAre DEF Settled
  <2>3. CASE c # d
    <3>1. c.end <= d.start \/ d.end <= c.start
      BY <2>3, ApartIs DEF Settled
    <3>2. /\ s \in Candidate /\ c.start <= s.start /\ s.end <= c.end
          /\ t \in Candidate /\ d.start <= t.start /\ t.end <= d.end
      BY <2>1, TailsAre DEF TailIn, Settled
    <3>3. /\ s.start \in Nat /\ s.end \in Nat /\ t.start \in Nat /\ t.end \in Nat
          /\ c.start \in Nat /\ c.end \in Nat /\ d.start \in Nat /\ d.end \in Nat
      BY <3>2 DEF Candidate, Settled
    <3>4. QED  BY <3>1, <3>2, <3>3 DEF Overlap
  <2>4. QED  BY <2>2, <2>3
<1>6. Settled(R \cup T)
  <2>1. IsFiniteSet(R \cup T)
    BY <1>2, FS_Union DEF Settled
  <2>2. R \cup T \subseteq Candidate
    BY <1>4 DEF Settled
  <2>3. ASSUME NEW s \in R \cup T, NEW t \in R \cup T, s # t PROVE ~Overlap(s, t)
    <3>1. CASE s \in R /\ t \in R
      BY <2>3, <3>1 DEF Settled, Apart
    <3>2. CASE s \in T /\ t \in T
      BY <1>5, <2>3, <3>2
    <3>3. CASE s \in T /\ t \in R
      BY <1>4, <3>3
    <3>4. CASE s \in R /\ t \in T
      <4>1. s \in Candidate /\ t \in Candidate
        BY <2>2
      <4>2. QED  BY <1>4, <3>4, <4>1, OverlapIs
    <3>5. QED  BY <3>1, <3>2, <3>3, <3>4
  <2>4. QED  BY <2>1, <2>2, <2>3 DEF Settled, Apart
<1>7. Resolve(R \cup T) = R \cup T
  BY <1>6, ApartStays
<1>8. QED  BY <1>1, <1>6, <1>7 DEF T

\* However many address parts of the rules lie inside how many findings of the model, the
\* designators and numbers around them are kept beside them, and nothing else of them
\* (_preserve_address_tails).
THEOREM TailsAreKept ==
  ASSUME Settled(input.resolved), Settled(input.candidates)
  PROVE  AddressTailsKept
<1>1. PICK text, R, C : text = input.text /\ R = input.resolved /\ C = input.candidates
  OBVIOUS
<1>2. PICK out : out = PreserveAddressTails(text, R, C)
  OBVIOUS
<1>3. Settled(R) /\ Settled(C)
  BY <1>1
<1>4. out = R \cup UNION {Tails(text, R, c) : c \in C}
  <2>1. PreserveAddressTails(text, R, C) = R \cup UNION {Tails(text, R, c) : c \in C}
    BY <1>3, TailsStay
  <2>2. QED  BY <1>2, <2>1, Zenon
<1>5. R \subseteq out /\ Apart(out)
  <2>1. Settled(out)
    BY <1>2, <1>3, TailsStay
  <2>2. QED  BY <1>4, <2>1 DEF Settled
<1>6. \A s \in out \ R : \E c \in C : s \in Tails(text, R, c)
  BY <1>4
<1>7. \A c \in C : Tails(text, R, c) \subseteq out
  BY <1>4
<1>8. ASSUME NEW s \in out \ R
      PROVE  /\ LooksLikeAddress(text, s.start, s.end)
             /\ \E c \in C : c.start <= s.start /\ s.end <= c.end
  <2>1. PICK c \in C : s \in Tails(text, R, c)
    BY <1>6
  <2>2. TailIn(text, R, c, s)
    BY <1>3, <2>1, TailsAre DEF Settled
  <2>3. QED  BY <2>2 DEF TailIn
<1>9. ASSUME NEW c \in C, AddressTailOverlaps(c, R) # <<>>, NEW g \in Gaps(c, AddressTailOverlaps(c, R)),
             NEW cut, cut = TrimEnds(text, g[1], g[2], Separators),
             cut[1] < cut[2], LooksLikeAddress(text, cut[1], cut[2])
      PROVE  \E s \in out \ R : s.start = cut[1] /\ s.end = cut[2]
  <2>1. c \in Candidate
    BY <1>3 DEF Settled
  <2>2. PICK s \in Tails(text, R, c) : s.start = cut[1] /\ s.end = cut[2]
    BY <1>3, <1>9, <2>1, TailsAre
  <2>3. TailIn(text, R, c, s)
    BY <1>3, <2>1, TailsAre
  <2>4. s \notin R
    <3>1. s \in Candidate /\ \A r \in R : ~Overlap(s, r)
      BY <2>3 DEF TailIn
    <3>2. QED  BY <3>1, OverlapIs
  <2>5. QED  BY <1>7, <2>2, <2>4
<1>10. \A c \in C : AddressTailOverlaps(c, R) # <<>> =>
         \A g \in Gaps(c, AddressTailOverlaps(c, R)) :
           LET cut == TrimEnds(text, g[1], g[2], Separators)
           IN  cut[1] < cut[2] /\ LooksLikeAddress(text, cut[1], cut[2])
                 => \E s \in out \ R : s.start = cut[1] /\ s.end = cut[2]
  BY <1>9
<1>11. QED  BY <1>1, <1>2, <1>5, <1>8, <1>10, ZenonT(60) DEF AddressTailsKept

-----------------------------------------------------------------------------
(* The boundaries of the model.                                            *)

\* Sorting in the order of the model loses nothing and adds nothing.
LEMMA ModelsListed ==
  ASSUME NEW S, IsFiniteSet(S), S \subseteq Candidate
  PROVE  \E n \in Nat : SortedBy(S, ModelOrder) \in [1..n -> S]
<1> DEFINE key == [x \in S |-> ModelOrder(x)]
           n == Cardinality(S)
           v(i) == CHOOSE x \in S : Cardinality({y \in S : LexLess(ModelOrder(y), ModelOrder(x))}) = i - 1
<1>1. ASSUME NEW s \in S
      PROVE  /\ Row(5, ModelOrder(s))
             /\ ModelOrder(s)[1] = s.start /\ ModelOrder(s)[2] = s.end /\ ModelOrder(s)[3] = Letter(s.type)
             /\ ModelOrder(s)[4] = Letter(s.reason) /\ ModelOrder(s)[5] = s.confidence
  <2>1. /\ s.start \in Nat /\ s.end \in Nat /\ s.confidence \in Int /\ s.type \in Names /\ s.reason \in Names
    BY DEF Candidate
  <2>2. Letter(s.type) \in Int /\ Letter(s.reason) \in Int
    BY <2>1, LetterIs
  <2>3. <<s.start, s.end, Letter(s.type), Letter(s.reason), s.confidence>> \in [1..5 -> Int]
    BY <2>1, <2>2
  <2>4. QED  BY <2>3 DEF ModelOrder, Row
<1>2. ASSUME NEW s \in S, NEW t \in S, ModelOrder(s) = ModelOrder(t) PROVE s = t
  <2>1. /\ s.start = t.start /\ s.end = t.end /\ s.confidence = t.confidence
        /\ Letter(s.type) = Letter(t.type) /\ Letter(s.reason) = Letter(t.reason)
    BY <1>1, <1>2
  <2>2. s.type \in Names /\ s.reason \in Names /\ t.type \in Names /\ t.reason \in Names
    BY DEF Candidate
  <2>3. s.type = t.type /\ s.reason = t.reason
    BY <2>1, <2>2, LetterIs
  <2>4. QED  BY <2>1, <2>3 DEF Candidate
<1>3. Keyed(S, 5, key)
  BY <1>1, <1>2 DEF Keyed
<1>4. \A x, y \in S : <<x, y>> \in ByKey(S, key) <=> LexLess(ModelOrder(x), ModelOrder(y))
  BY DEF ByKey
<1>5. PICK L : /\ StrictOrder(S, L)
               /\ \A x, y \in S : <<x, y>> \in L <=> LexLess(ModelOrder(x), ModelOrder(y))
  <2> HIDE DEF key
  <2>1. QED  BY <1>3, <1>4, KeyOrders
<1> HIDE DEF key
<1>6. PICK r : r = SortedBy(S, ModelOrder)
  OBVIOUS
<1>7. r = [i \in 1..n |-> v(i)]
  BY <1>6 DEF SortedBy
<1>8. \A x \in S : Ahead(S, L, x) = Cardinality({y \in S : LexLess(ModelOrder(y), ModelOrder(x))})
  <2> TAKE x \in S
  <2>1. {y \in S : <<y, x>> \in L} = {y \in S : LexLess(ModelOrder(y), ModelOrder(x))}
    BY <1>5
  <2>2. QED  BY <2>1 DEF Ahead
<1>9. ASSUME NEW i \in 1..n, \E x \in S : Ahead(S, L, x) = i - 1
      PROVE  v(i) \in S /\ Ahead(S, L, v(i)) = i - 1
  <2>1. \E x \in S : Cardinality({y \in S : LexLess(ModelOrder(y), ModelOrder(x))}) = i - 1
    BY <1>8, <1>9
  <2>2. v(i) \in S /\ Cardinality({y \in S : LexLess(ModelOrder(y), ModelOrder(v(i)))}) = i - 1
    BY <2>1
  <2> HIDE DEF v
  <2>3. QED  BY <1>8, <2>2
<1> HIDE DEF v
<1>10. SortsBy(S, L, r)
  BY <1>7, <1>9 DEF SortsBy
<1>11. Listed(S, L, n, r)
  BY <1>5, <1>10, ListedIs
<1>12. n \in Nat
  BY FS_CardinalityType
<1>13. r \in [1..n -> S]
  BY <1>11 DEF Listed
<1> HIDE DEF n
<1>14. QED  BY <1>6, <1>12, <1>13

LEMMA PartsOfIs ==
  ASSUME NEW o \in Candidate, NEW M, IsFiniteSet(M), M \subseteq Candidate
  PROVE  /\ Len(PartsOf(o, M)) \in Nat
         /\ \A i \in 1..Len(PartsOf(o, M)) : PartsOf(o, M)[i] \in M
<1>0. PICK n \in Nat : SortedBy(M, ModelOrder) \in [1..n -> M]
  BY ModelsListed
<1>1. PICK r : r = SortedBy(M, ModelOrder) /\ r \in [1..n -> M]
  BY <1>0
<1>2. Len(r) = n
  BY <1>1
<1> DEFINE cover(i) == Biggest({r[j].end : j \in 1..i})
           before == {i \in 1..Len(r) : cover(i) <= o.start}
           until == {i \in 1..Len(r) : r[i].start < o.end}
           first == Cardinality(before)
           last == Cardinality(until)
           reaching == {i \in (first + 1)..last : r[i].end > o.start}
           T == {r[i] : i \in reaching}
<1>3. PartsOf(o, M) = SortedBy(T, ModelOrder)
  BY <1>1 DEF PartsOf
<1>4. IsFiniteSet(1..n) /\ Cardinality(1..n) = n
  BY FS_Interval
<1>5. before \in SUBSET (1..n) /\ until \in SUBSET (1..n)
  BY <1>2
<1>6. first \in Nat /\ last \in Nat /\ last <= n
  <2> HIDE DEF before, until
  <2>1. IsFiniteSet(before) /\ IsFiniteSet(until) /\ Cardinality(until) <= Cardinality(1..n)
    BY <1>4, <1>5, FS_Subset
  <2>2. QED  BY <1>4, <2>1, FS_CardinalityType
<1>7. T \in SUBSET M
  <2> HIDE DEF first, last
  <2>1. reaching \subseteq 1..n
    BY <1>6
  <2> HIDE DEF reaching
  <2>2. QED  BY <1>1, <2>1
<1> HIDE DEF T
<1>8. IsFiniteSet(T) /\ T \subseteq Candidate
  BY <1>7, FS_Subset
<1>9. PICK m \in Nat : SortedBy(T, ModelOrder) \in [1..m -> T]
  BY <1>8, ModelsListed
<1>10. PICK P : P = PartsOf(o, M) /\ P \in [1..m -> T]
  BY <1>3, <1>9
<1>11. Len(P) = m /\ \A i \in 1..m : P[i] \in M
  BY <1>7, <1>10
<1>12. QED  BY <1>10, <1>11

\* The parts that pass the check lie in the span, one behind the other.
LEMMA CompatibleAre ==
  ASSUME NEW text, NEW o \in Candidate, NEW P, Len(P) \in Nat, \A i \in 1..Len(P) : P[i] \in Candidate,
         CompatibleParts(text, o, P)
  PROVE  /\ PartsIn(o, P)
         /\ \A i \in 1..Len(P) : /\ o.start <= P[i].start /\ P[i].end <= o.end
                                 /\ WordBoundary(text, P[i].start) /\ WordBoundary(text, P[i].end)
<1>1. PICK n \in Nat : n = Len(P)
  OBVIOUS
<1>2. /\ o.start \in Nat /\ o.end \in Nat /\ o.start < o.end
      /\ \A i \in 1..n : P[i].start \in Nat /\ P[i].end \in Nat /\ P[i].start < P[i].end
  BY <1>1 DEF Candidate
<1>3. ASSUME NEW i \in 1..n
      PROVE  /\ P[i].start >= (IF i = 1 THEN o.start ELSE P[i - 1].end) /\ P[i].end <= o.end
             /\ WordBoundary(text, P[i].start) /\ WordBoundary(text, P[i].end)
  BY <1>1 DEF CompatibleParts
<1>4. ASSUME NEW i \in 1..n PROVE \A j \in 1..n : i < j => P[i].end <= P[j].start
  <2> DEFINE Bad == {j \in 1..n : i < j /\ ~(P[i].end <= P[j].start)}
  <2>1. SUFFICES ASSUME Bad # {} PROVE FALSE
    OBVIOUS
  <2>2. PICK j \in Bad : \A k \in Bad : j <= k
    <3>1. Bad \subseteq Nat
      OBVIOUS
    <3> HIDE DEF Bad
    <3>2. QED  BY <2>1, <3>1, LeastOf
  <2>3. j \in 1..n /\ i < j /\ ~(P[i].end <= P[j].start)
    OBVIOUS
  <2>4. PICK k \in 1..n : k = j - 1
    BY <2>3
  <2>5. P[j].start >= P[k].end
    <3>1. j # 1
      BY <2>3
    <3>2. QED  BY <1>3, <2>3, <2>4, <3>1
  <2>6. k # i
    BY <1>2, <2>3, <2>5
  <2>7. P[i].end <= P[k].start
    <3>1. i < k /\ ~(j <= k)
      BY <2>3, <2>4, <2>6
    <3>2. k \notin Bad
      <4> HIDE DEF Bad
      <4>1. QED  BY <2>2, <3>1
    <3>3. QED  BY <3>1, <3>2
  <2>8. /\ P[i].end \in Nat /\ P[k].start \in Nat /\ P[k].end \in Nat /\ P[k].start < P[k].end
        /\ P[j].start \in Nat
    BY <1>2, <2>3
  <2>9. QED  BY <2>3, <2>5, <2>7, <2>8
<1>5. ASSUME NEW i \in 1..n PROVE o.start <= P[i].start
  <2>1. CASE i = 1
    BY <1>2, <1>3, <2>1
  <2>2. CASE i # 1
    <3>1. 1 \in 1..n /\ 1 < i
      BY <2>2
    <3>2. P[1].end <= P[i].start /\ P[1].start >= o.start
      BY <1>3, <1>4, <3>1
    <3>3. P[1].start \in Nat /\ P[1].end \in Nat /\ P[1].start < P[1].end /\ P[i].start \in Nat
      BY <1>2, <3>1
    <3>4. QED  BY <1>2, <3>2, <3>3
  <2>3. QED  BY <2>1, <2>2
<1>6. ASSUME NEW i \in 1..n PROVE o.start <= P[i].end /\ P[i].start <= o.end
  <2>1. /\ o.start <= P[i].start /\ P[i].end <= o.end
        /\ P[i].start \in Nat /\ P[i].end \in Nat /\ P[i].start < P[i].end
    BY <1>2, <1>3, <1>5
  <2>2. QED  BY <1>2, <2>1
<1>7. PartsIn(o, P)
  BY <1>1, <1>2, <1>4, <1>6 DEF PartsIn
<1>8. QED  BY <1>1, <1>3, <1>5, <1>7

\* Another piece of the same finding.
Alike(s, o) == s.type = o.type /\ s.reason = o.reason /\ s.confidence = o.confidence

\* What is left of a gap starts and ends beside a blank or at the gap's own ends.
Left(text, o, a, b, s) ==
  /\ s \in Candidate /\ a <= s.start /\ s.end <= b /\ Alike(s, o)
  /\ s.start = a \/ CharAt(text, s.start - 1) = " "
  /\ s.end = b \/ CharAt(text, s.end) = " "

LEMMA RemainderIs ==
  ASSUME NEW text, NEW o \in Candidate, NEW a \in Nat, NEW b \in Nat
  PROVE  /\ \A s \in Remainder(text, o, a, b) : /\ Left(text, o, a, b, s)
                                                /\ \A t \in Remainder(text, o, a, b) : s = t
         /\ \A i \in a..(b - 1) : CharAt(text, i) \in Alnum =>
              \E s \in Remainder(text, o, a, b) : Covers(s, i)
<1>1. PICK cut : cut = TrimEnds(text, a, b, Space)
  OBVIOUS
<1>2. CASE \A i \in a..(b - 1) : CharAt(text, i) \notin Alnum
  <2>1. Remainder(text, o, a, b) = {}
    BY <1>2 DEF Remainder
  <2>2. QED  BY <1>2, <2>1
<1>3. CASE \E i \in a..(b - 1) : CharAt(text, i) \in Alnum
  <2> DEFINE new == [o EXCEPT !.start = cut[1], !.end = cut[2]]
  <2>1. Remainder(text, o, a, b) = {new}
    BY <1>1, <1>3 DEF Remainder
  <2>2. \A i \in a..(b - 1) : CharAt(text, i) \in Alnum => CharAt(text, i) \notin Space
    BY DEF Alnum, Space
  <2>3. PICK lo \in Nat, hi \in Nat : cut = <<lo, hi>> /\ TrimmedTo(text, a, b, Space, lo, hi)
    BY <1>1, <1>3, <2>2, TrimIs
  <2>4. /\ cut[1] = lo /\ cut[2] = hi /\ a <= lo /\ lo < hi /\ hi <= b
        /\ \A i \in a..(lo - 1) : CharAt(text, i) \in Space
        /\ \A i \in hi..(b - 1) : CharAt(text, i) \in Space
    BY <2>3 DEF TrimmedTo
  <2>5. new \in Candidate /\ new.start = lo /\ new.end = hi /\ Alike(new, o)
    BY <2>4 DEF Candidate, Alike
  <2>6. lo = a \/ CharAt(text, lo - 1) = " "
    <3>1. lo # a => lo - 1 \in a..(lo - 1)
      BY <2>4
    <3>2. QED  BY <2>4, <3>1 DEF Space
  <2>7. hi = b \/ CharAt(text, hi) = " "
    <3>1. hi # b => hi \in hi..(b - 1)
      BY <2>4
    <3>2. QED  BY <2>4, <3>1 DEF Space
  <2> HIDE DEF new
  <2>8. Left(text, o, a, b, new)
    BY <2>4, <2>5, <2>6, <2>7 DEF Left
  <2>9. ASSUME NEW i \in a..(b - 1), CharAt(text, i) \in Alnum PROVE Covers(new, i)
    <3>1. ~(i \in a..(lo - 1)) /\ ~(i \in hi..(b - 1))
      BY <2>2, <2>4, <2>9
    <3>2. lo <= i /\ i < hi
      BY <2>4, <3>1
    <3>3. QED  BY <2>5, <3>2 DEF Covers
  <2>10. QED  BY <2>1, <2>8, <2>9
<1>4. QED  BY <1>2, <1>3

\* A piece of the span o, cut where words end.
PieceOfSpan(text, o, s) ==
  /\ s \in Candidate /\ o.start <= s.start /\ s.end <= o.end /\ Alike(s, o)
  /\ s.start = o.start \/ WordBoundary(text, s.start)
  /\ s.end = o.end \/ WordBoundary(text, s.end)
\* Pieces of o, apart, that hold every letter of it.
PiecesOf(text, o, X) ==
  /\ \A s \in X : PieceOfSpan(text, o, s)
  /\ \A s, t \in X : s # t => ~Overlap(s, t)
  /\ \A i \in o.start..(o.end - 1) : CharAt(text, i) \in Alnum => \E s \in X : Covers(s, i)

LEMMA BlankEndsWord ==
  ASSUME NEW text, NEW i \in Nat
  PROVE  /\ CharAt(text, i - 1) = " " => WordBoundary(text, i)
         /\ CharAt(text, i) = " " => WordBoundary(text, i)
<1>1. " " \notin Alnum \cup {"m"}
  BY DEF Alnum
<1>2. QED  BY <1>1 DEF WordBoundary

LEMMA PartitionIs ==
  ASSUME NEW text, NEW o \in Candidate, NEW P, Len(P) \in Nat, \A i \in 1..Len(P) : P[i] \in Candidate,
         CompatibleParts(text, o, P)
  PROVE  PiecesOf(text, o, Partition(text, o, P))
<1>1. PICK n \in Nat : n = Len(P)
  OBVIOUS
<1>2. /\ PartsIn(o, P)
      /\ \A i \in 1..n : /\ o.start <= P[i].start /\ P[i].end <= o.end
                         /\ WordBoundary(text, P[i].start) /\ WordBoundary(text, P[i].end)
  BY <1>1, CompatibleAre
<1>3. /\ o.start \in Nat /\ o.end \in Nat /\ o.start < o.end
      /\ \A i \in 1..n : P[i].start \in Nat /\ P[i].end \in Nat /\ P[i].start < P[i].end
  BY <1>1 DEF Candidate
<1> DEFINE at(p) == [o EXCEPT !.start = p.start, !.end = p.end]
           part(i) == at(P[i])
           G == Gaps(o, P)
           rest(g) == Remainder(text, o, g[1], g[2])
<1>4. ASSUME NEW i \in 1..n
      PROVE  part(i) \in Candidate /\ part(i).start = P[i].start /\ part(i).end = P[i].end /\ Alike(part(i), o)
  BY <1>3 DEF Candidate, Alike
<1>5. \A s : s \in Partition(text, o, P) <=> (\E i \in 1..n : s = part(i)) \/ \E g \in G : s \in rest(g)
  <2>1. Partition(text, o, P) = {at(p) : p \in ToSet(P)} \cup UNION {rest(g) : g \in G}
    BY DEF Partition
  <2>2. \A p : p \in ToSet(P) <=> \E i \in 1..n : p = P[i]
    BY <1>1 DEF ToSet, PartsIn
  <2> HIDE DEF G, rest, at
  <2>3. ASSUME NEW s PROVE s \in {at(p) : p \in ToSet(P)} <=> \E i \in 1..n : s = at(P[i])
    BY <2>2, Zenon
  <2>4. ASSUME NEW s PROVE s \in UNION {rest(g) : g \in G} <=> \E g \in G : s \in rest(g)
    BY Zenon
  <2>5. QED  BY <2>1, <2>3, <2>4, Zenon
<1>6. \A g \in G : GapOf(o, P, g) /\ \A h \in G : g = h \/ g[2] <= h[1] \/ h[2] <= g[1]
  BY <1>2, GapsAre
<1>7. ASSUME NEW x \in Nat, o.start <= x, x < o.end
      PROVE  \/ \E k \in 1..n : P[k].start <= x /\ x < P[k].end
             \/ \E g \in G : g[1] <= x /\ x < g[2]
  BY <1>1, <1>2, <1>7, GapsCover
<1> HIDE DEF G
<1>8. ASSUME NEW g \in G
      PROVE  /\ g[1] \in Nat /\ g[2] \in Nat /\ o.start <= g[1] /\ g[2] <= o.end
             /\ \A k \in 1..n : P[k].end <= g[1] \/ g[2] <= P[k].start
             /\ g[1] = o.start \/ \E k \in 1..n : g[1] = P[k].end
             /\ g[2] = o.end \/ \E k \in 1..n : g[2] = P[k].start
  BY <1>1, <1>6 DEF GapOf
<1>9. ASSUME NEW g \in G, NEW s \in rest(g)
      PROVE  Left(text, o, g[1], g[2], s) /\ \A t \in rest(g) : s = t
  <2>1. PICK a \in Nat, b \in Nat : a = g[1] /\ b = g[2]
    BY <1>8
  <2>2. s \in Remainder(text, o, a, b)
    BY <2>1
  <2>3. Left(text, o, a, b, s) /\ \A t \in Remainder(text, o, a, b) : s = t
    BY <2>2, RemainderIs
  <2>4. QED  BY <2>1, <2>3, Zenon
<1>10. ASSUME NEW g \in G, NEW i \in g[1]..(g[2] - 1), CharAt(text, i) \in Alnum
       PROVE  \E s \in rest(g) : Covers(s, i)
  BY <1>8, <1>10, RemainderIs
<1> HIDE DEF part, rest
<1>11. ASSUME NEW i \in 1..n PROVE PieceOfSpan(text, o, part(i))
  BY <1>2, <1>4 DEF PieceOfSpan
<1>12. ASSUME NEW g \in G, NEW s \in rest(g) PROVE PieceOfSpan(text, o, s)
  <2>1. /\ s \in Candidate /\ g[1] <= s.start /\ s.end <= g[2] /\ Alike(s, o)
        /\ s.start = g[1] \/ CharAt(text, s.start - 1) = " "
        /\ s.end = g[2] \/ CharAt(text, s.end) = " "
    BY <1>9 DEF Left
  <2>2. s.start \in Nat /\ s.end \in Nat
    BY <2>1 DEF Candidate
  <2>3. o.start <= s.start /\ s.end <= o.end
    <3>1. PICK a \in Nat, b \in Nat : a = g[1] /\ b = g[2] /\ o.start <= a /\ b <= o.end
      BY <1>8
    <3>2. a <= s.start /\ s.end <= b
      BY <2>1, <3>1
    <3>3. QED  BY <1>3, <2>2, <3>1, <3>2
  <2>4. s.start = o.start \/ WordBoundary(text, s.start)
    <3>1. CASE s.start = g[1]
      BY <1>2, <1>8, <3>1
    <3>2. CASE CharAt(text, s.start - 1) = " "
      BY <2>2, <3>2, BlankEndsWord
    <3>3. QED  BY <2>1, <3>1, <3>2
  <2>5. s.end = o.end \/ WordBoundary(text, s.end)
    <3>1. CASE s.end = g[2]
      BY <1>2, <1>8, <3>1
    <3>2. CASE CharAt(text, s.end) = " "
      BY <2>2, <3>2, BlankEndsWord
    <3>3. QED  BY <2>1, <3>1, <3>2
  <2>6. QED  BY <2>1, <2>3, <2>4, <2>5 DEF PieceOfSpan
<1>13. ASSUME NEW i \in 1..n, NEW j \in 1..n, part(i) # part(j) PROVE ~Overlap(part(i), part(j))
  <2>1. i # j
    BY <1>13
  <2>2. i < j \/ j < i
    BY <2>1
  <2>3. P[i].end <= P[j].start \/ P[j].end <= P[i].start
    BY <1>1, <1>2, <2>2 DEF PartsIn
  <2>4. QED  BY <1>3, <1>4, <2>3 DEF Overlap
<1>14. ASSUME NEW i \in 1..n, NEW g \in G, NEW s \in rest(g)
       PROVE  ~Overlap(part(i), s) /\ ~Overlap(s, part(i))
  <2>1. s \in Candidate /\ g[1] <= s.start /\ s.end <= g[2]
    BY <1>9 DEF Left
  <2>2. s.start \in Nat /\ s.end \in Nat
    BY <2>1 DEF Candidate
  <2>3. P[i].end <= g[1] \/ g[2] <= P[i].start
    BY <1>8
  <2>4. part(i).start = P[i].start /\ part(i).end = P[i].end
    BY <1>4
  <2>5. P[i].start \in Nat /\ P[i].end \in Nat /\ g[1] \in Nat /\ g[2] \in Nat
    BY <1>3, <1>8
  <2>6. QED  BY <2>1, <2>2, <2>3, <2>4, <2>5 DEF Overlap
<1>15. ASSUME NEW g \in G, NEW s \in rest(g), NEW h \in G, NEW t \in rest(h), s # t
       PROVE  ~Overlap(s, t)
  <2>1. /\ s \in Candidate /\ g[1] <= s.start /\ s.end <= g[2]
        /\ t \in Candidate /\ h[1] <= t.start /\ t.end <= h[2]
    BY <1>9 DEF Left
  <2>2. s.start \in Nat /\ s.end \in Nat /\ t.start \in Nat /\ t.end \in Nat
    BY <2>1 DEF Candidate
  <2>3. g # h
    BY <1>9, <1>15
  <2>4. g[2] <= h[1] \/ h[2] <= g[1]
    BY <1>6, <2>3
  <2>5. g[1] \in Nat /\ g[2] \in Nat /\ h[1] \in Nat /\ h[2] \in Nat
    BY <1>8
  <2>6. QED  BY <2>1, <2>2, <2>4, <2>5, SMTT(30) DEF Overlap
<1>16. ASSUME NEW s \in Partition(text, o, P) PROVE PieceOfSpan(text, o, s)
  BY <1>5, <1>11, <1>12
<1>17. ASSUME NEW s \in Partition(text, o, P), NEW t \in Partition(text, o, P), s # t PROVE ~Overlap(s, t)
  BY <1>5, <1>13, <1>14, <1>15, <1>17
<1>18. ASSUME NEW i \in o.start..(o.end - 1), CharAt(text, i) \in Alnum
       PROVE  \E s \in Partition(text, o, P) : Covers(s, i)
  <2>1. i \in Nat /\ o.start <= i /\ i < o.end
    BY <1>3
  <2>2. CASE \E k \in 1..n : P[k].start <= i /\ i < P[k].end
    <3>1. PICK k \in 1..n : P[k].start <= i /\ i < P[k].end
      BY <2>2
    <3>2. Covers(part(k), i)
      BY <1>4, <3>1 DEF Covers
    <3>3. QED  BY <1>5, <3>2
  <2>3. CASE \E g \in G : g[1] <= i /\ i < g[2]
    <3>1. PICK g \in G : g[1] <= i /\ i < g[2]
      BY <2>3
    <3>2. i \in g[1]..(g[2] - 1)
      BY <1>8, <2>1, <3>1
    <3>3. PICK s \in rest(g) : Covers(s, i)
      BY <1>10, <1>18, <3>2
    <3>4. QED  BY <1>5, <3>3
  <2>4. QED  BY <1>7, <2>1, <2>2, <2>3
<1>19. QED  BY <1>16, <1>17, <1>18 DEF PiecesOf

\* What becomes of one span of the rules.
CutAt(text, o, M) ==
  LET parts == PartsOf(o, M)
  IN  IF \/ parts = <<>>
         \/ Len(parts) = 1 /\ parts[1].start = o.start /\ parts[1].end = o.end
         \/ o.type \in Atomic \/ o.reason = "custom-rule"
         \/ ~CompatibleParts(text, o, parts)
      THEN {o} ELSE Partition(text, o, parts)

LEMMA CutIs ==
  ASSUME NEW text, NEW o \in Candidate, NEW M, IsFiniteSet(M), M \subseteq Candidate
  PROVE  /\ PiecesOf(text, o, CutAt(text, o, M))
         /\ o.type \in Atomic => \A s \in CutAt(text, o, M) : s = o
<1>1. PICK P : P = PartsOf(o, M)
  OBVIOUS
<1>2. Len(P) \in Nat /\ \A i \in 1..Len(P) : P[i] \in Candidate
  BY <1>1, PartsOfIs
<1>3. CASE CutAt(text, o, M) = {o}
  <2>1. PieceOfSpan(text, o, o)
    BY DEF PieceOfSpan, Candidate, Alike
  <2>2. \A i \in o.start..(o.end - 1) : Covers(o, i)
    BY DEF Covers, Candidate
  <2>3. QED  BY <1>3, <2>1, <2>2 DEF PiecesOf
<1>4. CASE CutAt(text, o, M) # {o}
  <2>1. /\ CutAt(text, o, M) = Partition(text, o, P)
        /\ CompatibleParts(text, o, P) /\ o.type \notin Atomic
    BY <1>1, <1>4 DEF CutAt
  <2>2. QED  BY <1>2, <2>1, PartitionIs
<1>5. QED  BY <1>3, <1>4

\* What BoundariesKeepCoverage says of the spans R and what became of them.
Recut(text, R, out) ==
  /\ Apart(out)
  /\ UNION {Letters(text, o) : o \in R} = UNION {Letters(text, s) : s \in out}
  /\ \A s \in out : \E o \in R :
       /\ o.start <= s.start /\ s.end <= o.end
       /\ s.type = o.type /\ s.reason = o.reason /\ s.confidence = o.confidence
       /\ o.type \in Atomic => s = o
       /\ \A e \in {s.start, s.end} \ {o.start, o.end} : WordBoundary(text, e)

LEMMA RecutIs ==
  ASSUME NEW text, NEW R, Settled(R), NEW M, IsFiniteSet(M), M \subseteq Candidate
  PROVE  /\ Recut(text, R, PreserveModelBoundaries(text, R, M))
         /\ PreserveModelBoundaries(text, R, M) \subseteq Candidate
<1>2. PICK out : out = PreserveModelBoundaries(text, R, M)
  OBVIOUS
<1>4. out = UNION {CutAt(text, o, M) : o \in R}
  BY <1>2, Zenon DEF PreserveModelBoundaries, CutAt
<1>5. (\A s \in out : \E o \in R : s \in CutAt(text, o, M)) /\ \A o \in R : CutAt(text, o, M) \subseteq out
  BY <1>4
<1>6. ASSUME NEW o \in R
      PROVE  /\ o \in Candidate /\ PiecesOf(text, o, CutAt(text, o, M))
             /\ o.type \in Atomic => \A s \in CutAt(text, o, M) : s = o
  <2>1. o \in Candidate
    BY DEF Settled
  <2>2. QED  BY <2>1, CutIs
<1>7. ASSUME NEW o \in R, NEW s \in CutAt(text, o, M) PROVE PieceOfSpan(text, o, s)
  BY <1>6 DEF PiecesOf
<1>8. Apart(out)
  <2>1. ASSUME NEW s \in out, NEW t \in out, s # t PROVE ~Overlap(s, t)
    <3>1. PICK o \in R, p \in R : s \in CutAt(text, o, M) /\ t \in CutAt(text, p, M)
      BY <1>5
    <3>2. CASE o = p
      BY <1>6, <2>1, <3>1, <3>2 DEF PiecesOf
    <3>3. CASE o # p
      <4>1. o.end <= p.start \/ p.end <= o.start
        BY <3>3, ApartIs DEF Settled
      <4>2. /\ s \in Candidate /\ o.start <= s.start /\ s.end <= o.end
            /\ t \in Candidate /\ p.start <= t.start /\ t.end <= p.end
        BY <1>7, <3>1 DEF PieceOfSpan
      <4>3. /\ s.start \in Nat /\ s.end \in Nat /\ t.start \in Nat /\ t.end \in Nat
            /\ o.start \in Nat /\ o.end \in Nat /\ p.start \in Nat /\ p.end \in Nat
        BY <1>6, <4>2 DEF Candidate
      <4>4. QED  BY <4>1, <4>2, <4>3 DEF Overlap
    <3>4. QED  BY <3>2, <3>3
  <2>2. QED  BY <2>1 DEF Apart
<1>9. UNION {Letters(text, o) : o \in R} = UNION {Letters(text, s) : s \in out}
  <2>1. ASSUME NEW o \in R, NEW i \in Letters(text, o) PROVE \E s \in out : i \in Letters(text, s)
    <3>1. i \in o.start..(o.end - 1) /\ CharAt(text, i) \in Alnum
      BY DEF Letters
    <3>2. PICK s \in CutAt(text, o, M) : Covers(s, i)
      BY <1>6, <3>1 DEF PiecesOf
    <3>3. s.start \in Nat /\ s.end \in Nat /\ o.start \in Nat /\ o.end \in Nat
      BY <1>6, <1>7 DEF PieceOfSpan, Candidate
    <3>4. i \in s.start..(s.end - 1)
      BY <3>1, <3>2, <3>3 DEF Covers
    <3>5. QED  BY <1>5, <3>1, <3>4 DEF Letters
  <2>2. ASSUME NEW s \in out, NEW i \in Letters(text, s) PROVE \E o \in R : i \in Letters(text, o)
    <3>1. i \in s.start..(s.end - 1) /\ CharAt(text, i) \in Alnum
      BY DEF Letters
    <3>2. PICK o \in R : s \in CutAt(text, o, M)
      BY <1>5
    <3>3. s \in Candidate /\ o \in Candidate /\ o.start <= s.start /\ s.end <= o.end
      BY <1>6, <1>7, <3>2 DEF PieceOfSpan
    <3>4. s.start \in Nat /\ s.end \in Nat /\ o.start \in Nat /\ o.end \in Nat
      BY <3>3 DEF Candidate
    <3>5. i \in o.start..(o.end - 1)
      BY <3>1, <3>3, <3>4
    <3>6. QED  BY <3>1, <3>5 DEF Letters
  <2>3. QED  BY <2>1, <2>2
<1>10. ASSUME NEW s \in out
       PROVE  \E o \in R : /\ o.start <= s.start /\ s.end <= o.end
                           /\ s.type = o.type /\ s.reason = o.reason /\ s.confidence = o.confidence
                           /\ o.type \in Atomic => s = o
                           /\ \A e \in {s.start, s.end} \ {o.start, o.end} : WordBoundary(text, e)
  <2>1. PICK o \in R : s \in CutAt(text, o, M)
    BY <1>5
  <2>2. PieceOfSpan(text, o, s) /\ (o.type \in Atomic => s = o)
    BY <1>6, <1>7, <2>1
  <2>3. QED  BY <2>2 DEF PieceOfSpan, Alike
<1>11. Recut(text, R, out)
  BY <1>8, <1>9, <1>10, Zenon DEF Recut
<1>12. out \subseteq Candidate
  BY <1>5, <1>7 DEF PieceOfSpan
<1>13. QED  BY <1>2, <1>11, <1>12

\* Whatever boundaries the models report: letters and digits stay covered once, by a span
\* of the rule's type; words, names and whole addresses are not cut
\* (preserve_model_boundaries).
THEOREM CoverageIsKept ==
  ASSUME Settled(input.resolved), IsFiniteSet(input.models), input.models \subseteq Candidate
  PROVE  BoundariesKeepCoverage
<1>1. Recut(input.text, input.resolved, PreserveModelBoundaries(input.text, input.resolved, input.models))
  BY RecutIs
<1>2. QED  BY <1>1, Zenon DEF BoundariesKeepCoverage, Recut

-----------------------------------------------------------------------------
(* The merge.                                                              *)

\* Whatever tails there are, the rules' spans stay.
LEMMA TailsCostNothing ==
  ASSUME NEW text, NEW R, Settled(R), NEW C, IsFiniteSet(C), C \subseteq Candidate
  PROVE  Settled(PreserveAddressTails(text, R, C)) /\ R \subseteq PreserveAddressTails(text, R, C)
<1> DEFINE T == UNION {Tails(text, R, c) : c \in C}
<1>1. PreserveAddressTails(text, R, C) = Resolve(R \cup T)
  BY DEF PreserveAddressTails, Tails
<1>2. IsFiniteSet(T)
  <2> DEFINE f == [c \in C |-> Tails(text, R, c)]
  <2>1. \A c \in C : IsFiniteSet(f[c])
    BY TailsAre
  <2>2. UNION {f[c] : c \in C} = T
    OBVIOUS
  <2> HIDE DEF f, T
  <2>3. QED  BY <2>1, <2>2, FiniteUnion
<1>3. \A t \in T : t \in Candidate /\ \A r \in R : ~Overlap(t, r)
  <2>1. \A t \in T : \E c \in C : t \in Tails(text, R, c)
    OBVIOUS
  <2> HIDE DEF T
  <2>2. QED  BY <2>1, TailsAre DEF TailIn
<1> HIDE DEF T
<1>4. IsFiniteSet(R \cup T) /\ R \cup T \subseteq Candidate
  BY <1>2, <1>3, FS_Union DEF Settled
<1>5. PICK out : out = Resolve(R \cup T) /\ ByRank(R \cup T, out)
  BY <1>4, ResolveIs
<1>6. Settled(out)
  <2>1. out \in SUBSET (R \cup T) /\ Apart(out)
    BY <1>5 DEF ByRank
  <2>2. QED  BY <1>4, <2>1, FS_Subset DEF Settled
<1>7. ASSUME NEW r \in R, r \notin out PROVE FALSE
  <2>1. PICK t \in out : Overlap(r, t) /\ Better(t, r)
    BY <1>5, <1>7 DEF ByRank
  <2>2. t \in R \cup T /\ r \in Candidate /\ t \in Candidate
    BY <1>4, <1>5 DEF ByRank
  <2>3. Overlap(t, r)
    BY <2>1, <2>2, OverlapIs
  <2>4. t \in R
    BY <1>3, <2>2, <2>3
  <2>5. t # r
    BY <2>1, <2>2, BetterIs
  <2>6. QED  BY <2>1, <2>4, <2>5 DEF Settled, Apart
<1>8. QED  BY <1>1, <1>5, <1>6, <1>7

\* A finding of a model, by its reason; the best of them come behind most rules.
ModelFinding(c) ==
  \/ c.type = "PERSON" /\ c.reason = "ner-person"
  \/ c.type = "LOCATION" /\ c.reason = "ner-location"
  \/ c.reason = "ner-structured"

LEMMA ModelsRankLow ==
  ASSUME NEW c \in Candidate, ModelFinding(c)
  PROVE  ClusterPriority(c) \in Int /\ ClusterPriority(c) <= 80
<1>1. CASE c.reason = "ner-structured"
  BY <1>1 DEF ClusterPriority
<1>2. CASE c.type = "PERSON" /\ c.reason = "ner-person"
  BY <1>2 DEF ClusterPriority, Priority
<1>3. CASE c.type = "LOCATION" /\ c.reason = "ner-location"
  BY <1>3 DEF ClusterPriority, Priority
<1>4. QED  BY <1>1, <1>2, <1>3 DEF ModelFinding

\* One candidate as the models' word on its kind leaves it.
Renamed(s, r) ==
  /\ r \in Candidate /\ r.start = s.start /\ r.end = s.end
  /\ r.type = "DRIVER_LICENSE" /\ r.reason = "ner-document-kind" /\ s.type = "PASSPORT"
KindsBy(X, named, f, out) ==
  /\ f \in [X -> Candidate] /\ out = {f[s] : s \in X}
  /\ \A s \in X : f[s] = s \/ (~named /\ ~ModelFinding(s) /\ Renamed(s, f[s]))

LEMMA KindsAre ==
  ASSUME NEW X, IsFiniteSet(X), X \subseteq Candidate, NEW named \in BOOLEAN
  PROVE  /\ IsFiniteSet(PreferDocumentKind(X, named)) /\ PreferDocumentKind(X, named) \subseteq Candidate
         /\ \E f : KindsBy(X, named, f, PreferDocumentKind(X, named))
<1> DEFINE kinds(s) == {t.type : t \in {t \in X : /\ t.reason = "ner-structured"
                                                  /\ t.type \in {"PASSPORT", "DRIVER_LICENSE"}
                                                  /\ t.start = s.start /\ t.end = s.end}}
           refines(s) == /\ s.type = "PASSPORT" /\ s.reason \notin {"custom-rule", "ner-structured"}
                         /\ kinds(s) = {"DRIVER_LICENSE"} /\ ~named
           new(s) == [s EXCEPT !.type = "DRIVER_LICENSE", !.reason = "ner-document-kind"]
           f == [s \in X |-> IF refines(s) THEN new(s) ELSE s]
<1>1. PreferDocumentKind(X, named) = {IF refines(s) THEN new(s) ELSE s : s \in X}
  BY DEF PreferDocumentKind
<1>2. ASSUME NEW s \in X, refines(s) PROVE Renamed(s, new(s)) /\ ~named /\ ~ModelFinding(s)
  <2>1. s.type = "PASSPORT" /\ s.reason # "ner-structured" /\ ~named
    BY <1>2
  <2>2. "DRIVER_LICENSE" \in Names /\ "ner-document-kind" \in Names
    <3>1. Len(Alphabet) = 17 /\ Alphabet[4] = "DRIVER_LICENSE" /\ Alphabet[14] = "ner-document-kind"
      BY DEF Alphabet
    <3>2. 4 \in 1..Len(Alphabet) /\ 14 \in 1..Len(Alphabet)
      BY <3>1
    <3>3. QED  BY <3>1, <3>2 DEF Names
  <2>3. s \in Candidate
    OBVIOUS
  <2>4. Renamed(s, new(s))
    BY <2>1, <2>2, <2>3 DEF Renamed, Candidate
  <2>5. QED  BY <2>1, <2>4 DEF ModelFinding
<1> HIDE DEF refines, new
<1>3. \A s \in X : f[s] = s \/ (refines(s) /\ f[s] = new(s))
  OBVIOUS
<1>4. PreferDocumentKind(X, named) = {f[s] : s \in X}
  BY <1>1
<1>9. f \in [X -> {f[s] : s \in X}]
  OBVIOUS
<1> HIDE DEF f
<1>5. \A s \in X : f[s] = s \/ (~named /\ ~ModelFinding(s) /\ Renamed(s, f[s]))
  BY <1>2, <1>3
<1>6. \A s \in X : f[s] \in Candidate
  BY <1>5 DEF Renamed
<1>7. IsFiniteSet({f[s] : s \in X})
  <2> DEFINE g == [s \in X |-> {f[s]}]
  <2>1. \A s \in X : IsFiniteSet(g[s])
    BY FS_Singleton
  <2>2. UNION {g[s] : s \in X} = {f[s] : s \in X}
    OBVIOUS
  <2> HIDE DEF g
  <2>3. QED  BY <2>1, <2>2, FiniteUnion
<1>8. KindsBy(X, named, f, PreferDocumentKind(X, named))
  BY <1>4, <1>5, <1>6, <1>9 DEF KindsBy
<1>10. PreferDocumentKind(X, named) \subseteq Candidate
  BY <1>4, <1>6
<1>11. QED  BY <1>4, <1>7, <1>8, <1>10, Zenon

\* Nothing with a lower priority is better.
LEMMA PriorityDecides ==
  ASSUME NEW s \in Candidate, NEW t \in Candidate, ClusterPriority(s) \in Int, ClusterPriority(t) \in Int,
         ClusterPriority(t) < ClusterPriority(s)
  PROVE  ~Better(t, s)
<1>1. /\ Rank(t)[1] = -ClusterPriority(t) /\ Rank(s)[1] = -ClusterPriority(s)
      /\ Len(Rank(t)) = 6
  BY DEF Rank
<1>2. ASSUME NEW i \in 1..6, Rank(t)[i] < Rank(s)[i], \A j \in 1..(i - 1) : Rank(t)[j] = Rank(s)[j] PROVE FALSE
  <2>1. CASE i = 1
    BY <1>1, <1>2, <2>1
  <2>2. CASE i # 1
    <3>1. 1 \in 1..(i - 1)
      BY <2>2
    <3>2. Rank(t)[1] = Rank(s)[1]
      BY <1>2, <3>1
    <3>3. QED  BY <1>1, <3>2
  <2>3. QED  BY <2>1, <2>2
<1>3. QED  BY <1>1, <1>2 DEF Better, LexLess

LEMMA PriorityType ==
  ASSUME NEW s \in Candidate
  PROVE  /\ ClusterPriority(s) \in Int
         /\ s.type = "DRIVER_LICENSE" /\ s.reason = "ner-document-kind" => ClusterPriority(s) = 104
<1>1. Priority(s.type) \in Int /\ (s.type = "DRIVER_LICENSE" => Priority(s.type) = 104)
  BY DEF Priority
<1>2. QED  BY <1>1 DEF ClusterPriority

\* What the merge is given: the rules' spans apart, and findings of models.
Merging(base, candidates) ==
  /\ Settled(base)
  /\ IsFiniteSet(candidates) /\ candidates \subseteq Candidate /\ \A c \in candidates : ModelFinding(c)
Outranks(b, candidates) == \A c \in candidates : Overlap(b, c) => ClusterPriority(c) < ClusterPriority(b)
KeptIn(R, named, b) == \E r \in R : r = b \/ (~named /\ Renamed(b, r))

\* A span of the rules that outranks the findings of the models wins its cluster.
LEMMA OutrankingStays ==
  ASSUME NEW B, NEW C, Merging(B, C), NEW A, A \subseteq C, NEW named \in BOOLEAN,
         NEW b \in B, Outranks(b, C)
  PROVE  KeptIn(Resolve(PreferDocumentKind(B \cup A, named)), named, b)
<1>1. IsFiniteSet(B \cup A) /\ B \cup A \subseteq Candidate /\ Settled(B)
  <2>1. A \in SUBSET C /\ IsFiniteSet(C)
    BY DEF Merging
  <2>2. IsFiniteSet(A)
    BY <2>1, FS_Subset
  <2>3. QED  BY <2>2, FS_Union DEF Merging, Settled
<1>2. PICK X : X = PreferDocumentKind(B \cup A, named)
  OBVIOUS
<1>3. IsFiniteSet(X) /\ X \subseteq Candidate
  BY <1>1, <1>2, KindsAre
<1>4. PICK f : KindsBy(B \cup A, named, f, X)
  BY <1>1, <1>2, KindsAre
<1>5. PICK r : r = f[b]
  OBVIOUS
<1>9. /\ r \in X /\ (r = b \/ (~named /\ Renamed(b, r)))
      /\ r \in Candidate /\ b \in Candidate /\ r.start = b.start /\ r.end = b.end
  BY <1>1, <1>3, <1>4, <1>5 DEF KindsBy, Renamed
<1>6. ByRank(X, Resolve(X))
  BY <1>3, ResolveIs
<1>7. ASSUME r \notin Resolve(X) PROVE FALSE
  <2>1. PICK t \in Resolve(X) : Overlap(r, t) /\ Better(t, r)
    BY <1>6, <1>7, <1>9 DEF ByRank
  <2>2. t \in X /\ t \in Candidate
    BY <1>3, <1>6 DEF ByRank
  <2>3. PICK s \in B \cup A : t = f[s]
    BY <1>4, <2>2 DEF KindsBy
  <2>4. /\ t = s \/ (~ModelFinding(s) /\ Renamed(s, t))
        /\ s \in Candidate /\ t.start = s.start /\ t.end = s.end
    BY <1>1, <1>4, <2>3 DEF KindsBy, Renamed
  <2>5. Overlap(b, s)
    BY <1>9, <2>1, <2>4 DEF Overlap
  <2>6. CASE s \in B
    <3>1. s = b
      BY <1>1, <2>5, <2>6 DEF Settled, Apart
    <3>2. t = r
      BY <1>5, <2>3, <3>1
    <3>3. QED  BY <1>9, <2>1, <3>2, BetterIs
  <2>7. CASE s \in A
    <3>1. ModelFinding(s) /\ t = s /\ s \in C
      BY <2>4, <2>7 DEF Merging
    <3>2. ClusterPriority(s) < ClusterPriority(b) /\ ClusterPriority(s) <= 80 /\ ClusterPriority(s) \in Int
      BY <2>4, <2>5, <3>1, ModelsRankLow DEF Outranks
    <3>3. ClusterPriority(r) \in Int /\ (r = b \/ ClusterPriority(r) = 104)
      BY <1>9, PriorityType DEF Renamed
    <3>4. ClusterPriority(t) < ClusterPriority(r) /\ ClusterPriority(t) \in Int
      BY <3>1, <3>2, <3>3
    <3>5. QED  BY <1>9, <2>1, <2>2, <3>3, <3>4, PriorityDecides
  <2>8. QED  BY <2>6, <2>7
<1>8. QED  BY <1>2, <1>9, <1>7 DEF KeptIn

\* The merge keeps what outranks the models, letter by letter.
LEMMA MergeIs ==
  ASSUME NEW text, NEW B, NEW C, Merging(B, C), NEW named \in BOOLEAN
  PROVE  /\ Apart(MergeNerCandidates(text, B, C, named))
         /\ \A b \in B : Outranks(b, C) =>
              \A i \in Letters(text, b) :
                \E s \in MergeNerCandidates(text, B, C, named) :
                  /\ Covers(s, i)
                  /\ s.type = b.type \/ (s.reason = "ner-document-kind" /\ b.type = "PASSPORT" /\ ~named)
<1> DEFINE A == {s \in C : Identity(s) \notin {Identity(b) : b \in B}}
           X == PreferDocumentKind(B \cup A, named)
           R == Resolve(X)
           located == {s \in X : s.reason = "ner-location"}
           models == {s \in X : s.reason \in ModelReasons}
           kept == PreserveAddressTails(text, R, located)
           out == PreserveModelBoundaries(text, kept, models)
<1>1. MergeNerCandidates(text, B, C, named) = out
  BY Zenon DEF MergeNerCandidates
<1>2. A \subseteq C
  OBVIOUS
<1> HIDE DEF A
<1>3. IsFiniteSet(X) /\ X \subseteq Candidate
  <2>1. A \in SUBSET C /\ IsFiniteSet(C) /\ C \subseteq Candidate
    BY <1>2 DEF Merging
  <2>2. IsFiniteSet(B \cup A) /\ B \cup A \subseteq Candidate
    BY <2>1, FS_Subset, FS_Union DEF Merging, Settled
  <2>3. QED  BY <2>2, KindsAre
<1>4. ASSUME NEW b \in B, Outranks(b, C) PROVE KeptIn(R, named, b)
  BY <1>2, <1>4, OutrankingStays, Zenon
<1>5. located \in SUBSET X /\ models \in SUBSET X
  OBVIOUS
<1> HIDE DEF X
<1>6. ByRank(X, R)
  BY <1>3, ResolveIs
<1> HIDE DEF R
<1>7. Settled(R)
  <2>1. R \in SUBSET X /\ Apart(R)
    BY <1>6 DEF ByRank
  <2>2. QED  BY <1>3, <2>1, FS_Subset DEF Settled
<1> HIDE DEF located, models
<1>8. /\ IsFiniteSet(located) /\ located \subseteq Candidate
      /\ IsFiniteSet(models) /\ models \subseteq Candidate
  BY <1>3, <1>5, FS_Subset
<1>9. Settled(kept) /\ R \subseteq kept
  BY <1>7, <1>8, TailsCostNothing
<1> HIDE DEF kept
<1>10. Recut(text, kept, out) /\ out \subseteq Candidate
  BY <1>8, <1>9, RecutIs
<1> HIDE DEF out
<1>11. Apart(out)
  BY <1>10 DEF Recut
<1>12. ASSUME NEW b \in B, Outranks(b, C), NEW i \in Letters(text, b)
       PROVE  \E s \in out : /\ Covers(s, i)
                             /\ s.type = b.type \/ (s.reason = "ner-document-kind" /\ b.type = "PASSPORT" /\ ~named)
  <2>1. PICK r \in R : r = b \/ (~named /\ Renamed(b, r))
    BY <1>4, <1>12 DEF KeptIn
  <2>2. r \in kept /\ r \in Candidate /\ r.start = b.start /\ r.end = b.end
    BY <1>9, <2>1 DEF Renamed, Settled
  <2>3. i \in Letters(text, r)
    BY <2>2 DEF Letters
  <2>4. PICK s \in out : i \in Letters(text, s)
    BY <1>10, <2>2, <2>3 DEF Recut
  <2>5. PICK o \in kept : o.start <= s.start /\ s.end <= o.end /\ s.type = o.type /\ s.reason = o.reason
    BY <1>10 DEF Recut
  <2>6. /\ s.start \in Nat /\ s.end \in Nat /\ o \in Candidate /\ o.start \in Nat /\ o.end \in Nat
        /\ r.start \in Nat /\ r.end \in Nat
    BY <1>9, <1>10, <2>2 DEF Settled, Candidate
  <2>7. i \in Nat /\ s.start <= i /\ i < s.end /\ r.start <= i /\ i < r.end
    <3>1. i \in s.start..(s.end - 1) /\ i \in r.start..(r.end - 1)
      BY <2>3, <2>4 DEF Letters
    <3>2. QED  BY <2>6, <3>1
  <2>9. Overlap(o, r)
    BY <2>5, <2>6, <2>7 DEF Overlap
  <2>10. o = r
    BY <1>9, <2>2, <2>9 DEF Settled, Apart
  <2>11. QED  BY <2>1, <2>5, <2>7, <2>10 DEF Covers, Renamed
<1>13. QED  BY <1>1, <1>11, <1>12

\* However many findings of however many models there are, none takes a letter from a span
\* of the rules that outranks it, and nothing comes out twice (_merge_ner_candidates).
THEOREM RulesAreKept ==
  ASSUME Merging(input.base, input.candidates), input.named \in BOOLEAN
  PROVE  RulesOutrankModels
<1>1. /\ Apart(MergeNerCandidates(input.text, input.base, input.candidates, input.named))
      /\ \A b \in input.base : Outranks(b, input.candidates) =>
           \A i \in Letters(input.text, b) :
             \E s \in MergeNerCandidates(input.text, input.base, input.candidates, input.named) :
               /\ Covers(s, i)
               /\ s.type = b.type \/ (s.reason = "ner-document-kind" /\ b.type = "PASSPORT" /\ ~input.named)
  BY MergeIs
<1>2. QED  BY <1>1, Zenon DEF RulesOutrankModels, Outranks

-----------------------------------------------------------------------------
(* All of them at once.                                                    *)

\* Inputs that the detector and the masking are given: finitely many candidates, the spans
\* of the rules apart, those of one model apart, the spans to be masked in order.
WellFormed ==
  /\ Given("resolve") => IsFiniteSet(input.candidates) /\ input.candidates \subseteq Candidate
  /\ Given("tails") => Settled(input.resolved) /\ Settled(input.candidates)
  /\ Given("boundaries") => Settled(input.resolved) /\ IsFiniteSet(input.models) /\ input.models \subseteq Candidate
  /\ Given("merge") => Merging(input.base, input.candidates) /\ input.named \in BOOLEAN
  /\ Given("mask") => \E A, S : /\ input.text \in Seq(A) /\ input.spans \in Seq(S)
                                /\ SpansInOrder(input.text, input.spans)

\* On every text and with any number of spans, what the layers find comes out apart, ranked
\* and with every letter of theirs, and what is replaced at it comes back.
THEOREM SpansAreSound ==
  ASSUME WellFormed
  PROVE  SpansSound
<1>1. ResolvedByRank
  <2>1. CASE Given("resolve")
    BY <2>1, RankDecides DEF WellFormed
  <2>2. CASE ~Given("resolve")
    BY <2>2, Zenon DEF ResolvedByRank
  <2>3. QED  BY <2>1, <2>2
<1>2. AddressTailsKept
  <2>1. CASE Given("tails")
    BY <2>1, TailsAreKept DEF WellFormed
  <2>2. CASE ~Given("tails")
    BY <2>2, Zenon DEF AddressTailsKept
  <2>3. QED  BY <2>1, <2>2
<1>3. BoundariesKeepCoverage
  <2>1. CASE Given("boundaries")
    BY <2>1, CoverageIsKept DEF WellFormed
  <2>2. CASE ~Given("boundaries")
    BY <2>2, Zenon DEF BoundariesKeepCoverage
  <2>3. QED  BY <2>1, <2>2
<1>4. MaskedComesBack
  <2>1. CASE Given("mask")
    <3>1. PICK A, S : /\ input.text \in Seq(A) /\ input.spans \in Seq(S)
                      /\ SpansInOrder(input.text, input.spans)
      BY <2>1, Zenon DEF WellFormed
    <3>2. QED  BY <3>1, TextComesBack
  <2>2. CASE ~Given("mask")
    BY <2>2, Zenon DEF MaskedComesBack
  <2>3. QED  BY <2>1, <2>2
<1>5. RulesOutrankModels
  <2>1. CASE Given("merge")
    BY <2>1, RulesAreKept DEF WellFormed
  <2>2. CASE ~Given("merge")
    BY <2>2, Zenon DEF RulesOutrankModels
  <2>3. QED  BY <2>1, <2>2
<1>6. QED  BY <1>1, <1>2, <1>3, <1>4, <1>5, Zenon DEF SpansSound

-----------------------------------------------------------------------------
(* Chunks of the NER client.                                               *)

\* What chunks yields from the place start on, if it yields f from the later places on.
ChunkAt(f, length, width, overlap, start) ==
  IF start >= length THEN <<>>
  ELSE IF start + width >= length THEN << <<start, length>> >>
  ELSE << <<start, start + width>> >> \o f[start + width - overlap]

ChunksFrom(f, length, width, overlap, first) ==
  \A start \in first..length : f[start] = ChunkAt(f, length, width, overlap, start)

\* chunks ends: each place is followed by one that lies behind it.
LEMMA ChunksExist ==
  ASSUME NEW length \in Nat, NEW width \in Nat, NEW overlap \in Nat, overlap < width
  PROVE  \E f : ChunksFrom(f, length, width, overlap, 0)
<1> DEFINE Bad == {k \in 0..length : \A f : ~ChunksFrom(f, length, width, overlap, length - k)}
<1>1. SUFFICES ASSUME Bad # {} PROVE FALSE
  <2>1. length \in 0..length /\ length - length = 0
    OBVIOUS
  <2>2. length \notin Bad => \E f : ChunksFrom(f, length, width, overlap, 0)
    BY <2>1
  <2> HIDE DEF Bad
  <2>3. QED  BY <2>2
<1>2. PICK k \in Bad : \A j \in Bad : k <= j
  <2>1. Bad \subseteq Nat
    OBVIOUS
  <2> HIDE DEF Bad
  <2>2. QED  BY <1>1, <2>1, LeastOf
<1>3. k \in 0..length /\ \A f : ~ChunksFrom(f, length, width, overlap, length - k)
  OBVIOUS
<1>4. k # 0
  <2>1. SUFFICES ASSUME k = 0 PROVE FALSE
    OBVIOUS
  <2> DEFINE f == [start \in {length} |-> <<>>]
  <2>2. \A start \in (length - k)..length : f[start] = <<>> /\ start >= length
    BY <2>1
  <2> HIDE DEF f
  <2>3. ChunksFrom(f, length, width, overlap, length - k)
    BY <2>2 DEF ChunksFrom, ChunkAt
  <2>4. QED  BY <1>3, <2>3
<1>5. k - 1 \in 0..length /\ ~(k <= k - 1)
  BY <1>3, <1>4
<1>6. PICK f : ChunksFrom(f, length, width, overlap, length - (k - 1))
  BY <1>2, <1>5
<1> DEFINE first == length - k
           g == [start \in first..length |->
                   IF start = first THEN ChunkAt(f, length, width, overlap, start) ELSE f[start]]
<1>7. first \in Nat /\ first < length /\ length - (k - 1) = first + 1
  BY <1>3, <1>4
<1>8. \A start \in (first + 1)..length : g[start] = f[start]
  BY <1>7
<1>9. g[first] = ChunkAt(f, length, width, overlap, first)
  BY <1>7
<1> HIDE DEF g, first
<1>10. ASSUME NEW start \in first..length PROVE g[start] = ChunkAt(g, length, width, overlap, start)
  <2>1. g[start] = ChunkAt(f, length, width, overlap, start)
    <3>1. CASE start = first
      BY <1>9, <3>1
    <3>2. CASE start # first
      <4>1. start \in (first + 1)..length
        BY <1>7, <3>2
      <4>2. QED  BY <1>6, <1>7, <1>8, <4>1 DEF ChunksFrom
    <3>3. QED  BY <3>1, <3>2
  <2>2. CASE start + width >= length
    BY <2>1, <2>2 DEF ChunkAt
  <2>3. CASE start + width < length
    <3>1. start + width - overlap \in (first + 1)..length
      BY <1>7, <2>3
    <3>2. g[start + width - overlap] = f[start + width - overlap]
      BY <1>8, <3>1
    <3>3. QED  BY <2>1, <3>2 DEF ChunkAt
  <2>4. QED  BY <1>7, <2>2, <2>3
<1>11. ChunksFrom(g, length, width, overlap, length - k)
  BY <1>10 DEF ChunksFrom, first
<1>12. QED  BY <1>3, <1>11

LEMMA ChunksAre ==
  ASSUME NEW length \in Nat, NEW width \in Nat, NEW overlap \in Nat, overlap < width
  PROVE  \E f : ChunksFrom(f, length, width, overlap, 0) /\ Chunks(length, width, overlap) = f[0]
<1> DEFINE step(f) == [start \in 0..length |->
                         IF start >= length THEN <<>>
                         ELSE IF start + width >= length THEN << <<start, length>> >>
                         ELSE << <<start, start + width>> >> \o f[start + width - overlap]]
           from == CHOOSE f : f = step(f)
<1>1. PICK h : ChunksFrom(h, length, width, overlap, 0)
  BY ChunksExist
<1> DEFINE f0 == [start \in 0..length |-> h[start]]
<1>2. f0 = step(f0)
  <2>1. ASSUME NEW start \in 0..length
        PROVE  f0[start] = IF start >= length THEN <<>>
                           ELSE IF start + width >= length THEN << <<start, length>> >>
                           ELSE << <<start, start + width>> >> \o f0[start + width - overlap]
    <3>1. f0[start] = ChunkAt(h, length, width, overlap, start)
      BY <1>1 DEF ChunksFrom
    <3>2. CASE start + width >= length
      BY <3>1, <3>2 DEF ChunkAt
    <3>3. CASE start + width < length
      <4>1. start + width - overlap \in 0..length
        BY <3>3
      <4>2. f0[start + width - overlap] = h[start + width - overlap]
        BY <4>1
      <4> HIDE DEF f0
      <4>3. QED  BY <3>1, <4>2 DEF ChunkAt
    <3>4. QED  BY <3>2, <3>3
  <2>2. QED  BY <2>1
<1>3. from = step(from)
  <2>1. \E f : f = step(f)
    BY <1>2
  <2> HIDE DEF step
  <2>2. QED  BY <2>1
<1>4. Chunks(length, width, overlap) = from[0]
  BY DEF Chunks
<1> HIDE DEF from
<1>5. ASSUME NEW start \in 0..length PROVE from[start] = ChunkAt(from, length, width, overlap, start)
  BY <1>3 DEF ChunkAt
<1>6. ChunksFrom(from, length, width, overlap, 0)
  BY <1>5 DEF ChunksFrom
<1>7. QED  BY <1>4, <1>6

\* Of what a chunk shows, only a whole entity is kept.
LEMMA OnlyWhole ==
  ASSUME NEW length \in Nat, NEW a \in Nat, NEW b \in Nat, a < b, b <= length,
         NEW c1 \in Nat, NEW c2 \in Nat, c1 < c2, c2 <= length
  PROVE  /\ ParseEntities(<<c1, c2>>, SeenIn(<<c1, c2>>, <<a, b>>), length) \subseteq {<<a, b>>}
         /\ c1 <= a /\ b <= c2 /\ (c1 = 0 \/ c1 < a) /\ (c2 = length \/ b < c2) =>
              <<a, b>> \in ParseEntities(<<c1, c2>>, SeenIn(<<c1, c2>>, <<a, b>>), length)
<1> DEFINE s == IF a < c1 THEN c1 ELSE a
           e == IF b > c2 THEN c2 ELSE b
<1>1. SeenIn(<<c1, c2>>, <<a, b>>) = IF s < e THEN {<<s, e>>} ELSE {}
  BY DEF SeenIn
<1>2. ParseEntities(<<c1, c2>>, SeenIn(<<c1, c2>>, <<a, b>>), length) =
        {x \in SeenIn(<<c1, c2>>, <<a, b>>) : ~(c1 > 0 /\ x[1] = c1) /\ ~(c2 < length /\ x[2] = c2)}
  BY DEF ParseEntities
<1>3. ASSUME NEW x \in SeenIn(<<c1, c2>>, <<a, b>>), ~(c1 > 0 /\ x[1] = c1), ~(c2 < length /\ x[2] = c2)
      PROVE  x = <<a, b>>
  <2>1. x = <<s, e>> /\ s < e
    BY <1>1
  <2>2. s # c1 \/ c1 = 0
    BY <1>3, <2>1
  <2>3. e # c2 \/ c2 = length
    BY <1>3, <2>1
  <2>4. s = a /\ e = b
    BY <2>2, <2>3
  <2>5. QED  BY <2>1, <2>4
<1>4. ASSUME c1 <= a, b <= c2, c1 = 0 \/ c1 < a, c2 = length \/ b < c2
      PROVE  <<a, b>> \in ParseEntities(<<c1, c2>>, SeenIn(<<c1, c2>>, <<a, b>>), length)
  <2>1. s = a /\ e = b
    BY <1>4
  <2>2. <<a, b>> \in SeenIn(<<c1, c2>>, <<a, b>>)
    BY <1>1, <2>1
  <2>3. ~(c1 > 0 /\ a = c1) /\ ~(c2 < length /\ b = c2)
    BY <1>4
  <2> HIDE DEF s, e
  <2>4. QED  BY <1>2, <2>2, <2>3
<1> HIDE DEF s, e
<1>5. QED  BY <1>2, <1>3, <1>4

\* The chunks s lie in the text, and one of them has the entity <<a, b>> and a character of
\* context on both sides, where the text has any.
InText(s, length) == s \in Seq(Nat \X Nat) /\ \A c \in ToSet(s) : c[1] < c[2] /\ c[2] <= length
ShowsWhole(c, a, b, length) ==
  c[1] <= a /\ b <= c[2] /\ (c[1] = 0 \/ c[1] < a) /\ (c[2] = length \/ b < c[2])
OneShowsWhole(s, a, b, length) == \E c \in ToSet(s) : ShowsWhole(c, a, b, length)

LEMMA MembersOfJoin ==
  ASSUME NEW x \in Nat \X Nat, NEW s \in Seq(Nat \X Nat)
  PROVE  ToSet(<<x>> \o s) = {x} \cup ToSet(s)
<1>1. PICK n \in Nat : n = Len(s)
  OBVIOUS
<1>2. DOMAIN s = 1..n
  BY <1>1
<1>3. PICK whole : whole = <<x>> \o s
  OBVIOUS
<1>4. DOMAIN whole = 1..(n + 1) /\ whole[1] = x
  BY <1>1, <1>3
<1>5. ASSUME NEW i \in 1..n PROVE whole[i + 1] = s[i]
  BY <1>1, <1>3
<1>6. ASSUME NEW i \in 1..(n + 1) PROVE whole[i] \in {x} \cup ToSet(s)
  <2>1. CASE i = 1
    BY <1>4, <2>1
  <2>2. CASE i # 1
    <3>1. PICK j \in 1..n : j + 1 = i
      BY <2>2
    <3>2. QED  BY <1>2, <1>5, <3>1 DEF ToSet
  <2>3. QED  BY <2>1, <2>2
<1>7. ASSUME NEW i \in 1..n PROVE s[i] \in ToSet(whole)
  <2>1. i + 1 \in 1..(n + 1)
    OBVIOUS
  <2>2. QED  BY <1>4, <1>5, <2>1 DEF ToSet
<1>8. x \in ToSet(whole)
  <2>1. 1 \in 1..(n + 1)
    OBVIOUS
  <2>2. QED  BY <1>4, <2>1 DEF ToSet
<1>9. ToSet(whole) \subseteq {x} \cup ToSet(s)
  BY <1>4, <1>6 DEF ToSet
<1>10. ToSet(s) \subseteq ToSet(whole)
  BY <1>2, <1>7 DEF ToSet
<1>11. QED  BY <1>3, <1>8, <1>9, <1>10

\* From each place on the chunks lie in the text, and one of them has the entity whole that
\* begins behind the place.
LEMMA ChunksCover ==
  ASSUME NEW length \in Nat, NEW width \in Nat, NEW longest \in Nat, longest + 1 < width,
         NEW f, ChunksFrom(f, length, width, longest + 1, 0),
         NEW a \in Nat, NEW b \in Nat, a < b, b <= length, b - a <= longest,
         NEW first \in 0..length
  PROVE  /\ InText(f[first], length)
         /\ first = 0 \/ first < a => OneShowsWhole(f[first], a, b, length)
<1> DEFINE Within(start) == InText(f[start], length)
           Found(start) == start = 0 \/ start < a => OneShowsWhole(f[start], a, b, length)
           Bad == {k \in 0..length : ~(Within(length - k) /\ Found(length - k))}
<1>1. SUFFICES ASSUME Bad # {} PROVE FALSE
  <2>1. length - first \in 0..length /\ length - (length - first) = first
    OBVIOUS
  <2>2. length - first \notin Bad => Within(first) /\ Found(first)
    <3> HIDE DEF Within, Found
    <3>1. QED  BY <2>1
  <2> HIDE DEF Bad
  <2>3. QED  BY <2>2
<1>2. PICK k \in Bad : \A j \in Bad : k <= j
  <2>1. Bad \subseteq Nat
    OBVIOUS
  <2> HIDE DEF Bad
  <2>2. QED  BY <1>1, <2>1, LeastOf
<1> DEFINE start == length - k
           next == start + width - (longest + 1)
<1>3. start \in 0..length /\ ~(Within(start) /\ Found(start))
  BY <1>2
<1>4. f[start] = ChunkAt(f, length, width, longest + 1, start)
  BY <1>3 DEF ChunksFrom
<1>5. start + width < length => next \in 0..length /\ Within(next) /\ Found(next)
  <2> HAVE start + width < length
  <2>1. /\ next \in 0..length /\ length - next \in 0..length
        /\ ~(k <= length - next) /\ length - (length - next) = next
    BY <1>3
  <2>2. length - next \notin Bad
    <3> HIDE DEF Bad
    <3>1. QED  BY <1>2, <2>1
  <2> HIDE DEF Within, Found, next
  <2>3. QED  BY <2>1, <2>2
<1> HIDE DEF Bad, start, Within, Found
<1>6. CASE start >= length
  <2>1. start = length /\ f[start] = <<>>
    BY <1>3, <1>4, <1>6 DEF ChunkAt
  <2>2. ToSet(<<>>) = {}
    BY DEF ToSet
  <2>3. <<>> \in Seq(Nat \X Nat)
    OBVIOUS
  <2>4. Within(start)
    BY <2>1, <2>2, <2>3 DEF Within, InText
  <2>5. Found(start)
    BY <2>1 DEF Found
  <2>6. QED  BY <1>3, <2>4, <2>5
<1>7. CASE start < length /\ start + width >= length
  <2>1. f[start] = << <<start, length>> >>
    BY <1>3, <1>4, <1>7 DEF ChunkAt
  <2>2. ToSet(f[start]) = {<<start, length>>}
    BY <2>1 DEF ToSet
  <2>3. f[start] \in Seq(Nat \X Nat)
    BY <1>3, <2>1
  <2>4. Within(start)
    BY <1>7, <2>2, <2>3 DEF Within, InText
  <2>5. Found(start)
    BY <1>3, <1>7, <2>2 DEF Found, OneShowsWhole, ShowsWhole
  <2>6. QED  BY <1>3, <2>4, <2>5
<1>8. CASE start + width < length
  <2>1. f[start] = << <<start, start + width>> >> \o f[next]
    BY <1>3, <1>4, <1>8 DEF ChunkAt
  <2>2. next \in 0..length /\ Within(next) /\ Found(next)
    BY <1>5, <1>8
  <2>3. f[next] \in Seq(Nat \X Nat) /\ << <<start, start + width>> >> \in Seq(Nat \X Nat)
    BY <1>3, <2>2 DEF Within, InText
  <2>4. f[start] \in Seq(Nat \X Nat)
    BY <2>1, <2>3
  <2>5. ToSet(f[start]) = {<<start, start + width>>} \cup ToSet(f[next])
    <3>1. <<start, start + width>> \in Nat \X Nat
      BY <1>3
    <3> HIDE DEF next
    <3>2. PICK x \in Nat \X Nat : x = <<start, start + width>>
      BY <3>1
    <3>3. PICK s \in Seq(Nat \X Nat) : s = f[next]
      BY <2>3
    <3>4. ToSet(<<x>> \o s) = {x} \cup ToSet(s)
      BY MembersOfJoin
    <3>5. QED  BY <2>1, <3>2, <3>3, <3>4
  <2>6. Within(start)
    BY <1>3, <1>8, <2>2, <2>4, <2>5 DEF Within, InText
  <2>7. Found(start)
    <3> SUFFICES ASSUME start = 0 \/ start < a
                 PROVE  OneShowsWhole(f[start], a, b, length)
      BY DEF Found
    <3>1. CASE b < start + width
      <4>1. PICK c : c = <<start, start + width>>
        OBVIOUS
      <4>2. c[1] = start /\ c[2] = start + width /\ c \in ToSet(f[start])
        BY <2>5, <4>1
      <4>3. start <= a
        BY <1>3
      <4>4. start \in Nat /\ start + width \in Nat
        BY <1>3
      <4>5. ShowsWhole(c, a, b, length)
        BY <3>1, <4>2, <4>3, <4>4 DEF ShowsWhole
      <4>6. QED  BY <4>2, <4>5 DEF OneShowsWhole
    <3>2. CASE b >= start + width
      <4>1. next < a
        BY <1>3, <3>2
      <4> HIDE DEF next
      <4>2. QED  BY <2>2, <2>5, <4>1 DEF Found, OneShowsWhole
    <3>3. QED  BY <1>3, <3>1, <3>2
  <2>8. QED  BY <1>3, <2>6, <2>7
<1>9. QED  BY <1>3, <1>6, <1>7, <1>8

LEMMA DetectsWhole ==
  ASSUME NEW length \in Nat, NEW width \in Nat, NEW longest \in Nat, ChunkOverlap(longest) < width,
         NEW a \in Nat, NEW b \in Nat, a < b, b <= length, b - a <= longest
  PROVE  DetectEntity(length, width, longest, <<a, b>>) = {<<a, b>>}
<1>1. longest + 1 \in Nat /\ longest + 1 < width /\ ChunkOverlap(longest) = longest + 1
  BY DEF ChunkOverlap
<1>2. PICK f : ChunksFrom(f, length, width, longest + 1, 0) /\ Chunks(length, width, longest + 1) = f[0]
  BY <1>1, ChunksAre
<1>3. PICK C : C = ToSet(f[0])
  OBVIOUS
<1>4. InText(f[0], length) /\ OneShowsWhole(f[0], a, b, length)
  <2>1. 0 \in 0..length
    OBVIOUS
  <2>2. QED  BY <1>1, <1>2, <2>1, ChunksCover
<1>5. /\ C \subseteq Nat \X Nat
      /\ \A c \in C : c[1] < c[2] /\ c[2] <= length
      /\ \E c \in C : ShowsWhole(c, a, b, length)
  BY <1>3, <1>4, SMTT(30) DEF InText, OneShowsWhole, ToSet
<1> DEFINE Kept(c) == ParseEntities(c, SeenIn(c, <<a, b>>), length)
<1>6. DetectEntity(length, width, longest, <<a, b>>) = UNION {Kept(c) : c \in C}
  BY <1>1, <1>2, <1>3 DEF DetectEntity
<1>7. ASSUME NEW c \in C
      PROVE  /\ Kept(c) \subseteq {<<a, b>>}
             /\ ShowsWhole(c, a, b, length) => <<a, b>> \in Kept(c)
  <2>1. PICK c1 \in Nat, c2 \in Nat : c = <<c1, c2>>
    BY <1>5
  <2>2. c[1] = c1 /\ c[2] = c2 /\ c1 < c2 /\ c2 <= length
    BY <1>5, <2>1
  <2>3. QED  BY <2>1, <2>2, OnlyWhole DEF ShowsWhole
<1> HIDE DEF Kept
<1>8. PICK c \in C : <<a, b>> \in Kept(c)
  BY <1>5, <1>7
<1>9. QED  BY <1>6, <1>7, <1>8

\* chunks, _parse_entities: whatever the length of the text and the width of the chunks, an
\* entity no longer than the service may report is found, whole, and nothing else of it.
\* Chunks no longer than what they share the code refuses.
THEOREM EntitiesFoundWhole ==
  ASSUME input.length \in Nat, input.size \in Nat, input.longest \in Nat,
         ChunkOverlap(input.longest) < input.size,
         input.entity \in Nat \X Nat, input.entity[1] < input.entity[2],
         input.entity[2] <= input.length, input.entity[2] - input.entity[1] <= input.longest
  PROVE  ChunksFindWhole
<1>1. PICK a \in Nat, b \in Nat : input.entity = <<a, b>>
  OBVIOUS
<1>2. a < b /\ b <= input.length /\ b - a <= input.longest
  BY <1>1
<1>3. DetectEntity(input.length, input.size, input.longest, <<a, b>>) = {<<a, b>>}
  BY <1>2, DetectsWhole, SMTT(30)
<1>4. QED  BY <1>1, <1>3 DEF ChunksFindWhole

-----------------------------------------------------------------------------
(* Subwords of words, and how many some of them have together.             *)

\* P adds up the numbers of s.
Adds(P, s) ==
  /\ P \in [0..Len(s) -> Nat] /\ P[0] = 0
  /\ \A i \in 1..Len(s) : P[i] = P[i - 1] + s[i]

LEMMA SumIs ==
  ASSUME NEW s \in Seq(Nat)
  PROVE  \E P : Adds(P, s) /\ Sum(s) = P[Len(s)]
<1>1. PICK n \in Nat : n = Len(s)
  OBVIOUS
<1> DEFINE plus == [x \in (1..n) \X Nat |-> x[2] + s[x[1]]]
           step(f) == [i \in 0..n |-> IF i = 0 THEN 0 ELSE f[i - 1] + s[i]]
           upto == CHOOSE f : f = step(f)
<1>2. \A i \in 1..n : s[i] \in Nat
  BY <1>1
<1>3. StepOn(n, Nat, plus)
  BY <1>2 DEF StepOn
<1>4. Repeats(n, Nat, 0, plus)
  <2> HIDE DEF plus
  <2>1. QED  BY <1>3, Iterated
<1>5. PICK f \in [0..n -> Nat] : f[0] = 0 /\ \A i \in 1..n : f[i] = plus[<<i, f[i - 1]>>]
  <2> HIDE DEF plus
  <2>1. QED  BY <1>4 DEF Repeats
<1>6. \A i \in 1..n : f[i] = f[i - 1] + s[i]
  <2> TAKE i \in 1..n
  <2>1. <<i, f[i - 1]>> \in (1..n) \X Nat
    OBVIOUS
  <2>2. plus[<<i, f[i - 1]>>] = f[i - 1] + s[i]
    BY <2>1
  <2> HIDE DEF plus
  <2>3. QED  BY <1>5, <2>2
<1> HIDE DEF plus
<1>7. f = step(f)
  <2>1. \A i \in 0..n : f[i] = IF i = 0 THEN 0 ELSE f[i - 1] + s[i]
    BY <1>5, <1>6
  <2>2. QED  BY <2>1
<1>8. upto = step(upto)
  <2>1. \E g : g = step(g)
    BY <1>7
  <2> HIDE DEF step
  <2>2. QED  BY <2>1
<1>9. Sum(s) = upto[n]
  BY <1>1 DEF Sum
<1> HIDE DEF upto
<1>10. upto[0] = 0 /\ \A i \in 1..n : upto[i] = upto[i - 1] + s[i]
  BY <1>8
<1> HIDE DEF step
<1>11. \A i \in 0..n : i \in {k \in 0..n : upto[k] = f[k]}
  <2> DEFINE S == {k \in 0..n : upto[k] = f[k]}
  <2>1. 0 \in S
    BY <1>5, <1>10
  <2>2. ASSUME NEW i \in 0..(n - 1), i \in S PROVE i + 1 \in S
    <3>1. i + 1 \in 1..n /\ (i + 1) - 1 = i
      OBVIOUS
    <3>2. upto[i + 1] = f[i + 1]
      BY <1>6, <1>10, <2>2, <3>1
    <3>3. QED  BY <3>1, <3>2
  <2> HIDE DEF S
  <2>3. \A i \in 0..n : i \in S
    BY <2>1, <2>2, InductionTo
  <2>4. QED  BY <2>3 DEF S
<1>12. Adds(f, s)
  BY <1>1, <1>5, <1>6 DEF Adds
<1>13. QED  BY <1>1, <1>9, <1>11, <1>12

LEMMA AddsUnique ==
  ASSUME NEW s \in Seq(Nat), NEW P, Adds(P, s)
  PROVE  Sum(s) = P[Len(s)]
<1>1. PICK n \in Nat : n = Len(s)
  OBVIOUS
<1>2. PICK Q : Adds(Q, s) /\ Sum(s) = Q[n]
  BY <1>1, SumIs
<1> DEFINE S == {k \in 0..n : Q[k] = P[k]}
<1>3. 0 \in S
  BY <1>2 DEF Adds
<1>4. ASSUME NEW i \in 0..(n - 1), i \in S PROVE i + 1 \in S
  <2>1. i + 1 \in 1..n /\ (i + 1) - 1 = i
    OBVIOUS
  <2>2. Q[i + 1] = P[i + 1]
    BY <1>1, <1>2, <1>4, <2>1 DEF Adds
  <2>3. QED  BY <2>1, <2>2
<1> HIDE DEF S
<1>5. \A i \in 0..n : i \in S
  BY <1>3, <1>4, InductionTo
<1>6. n \in S
  BY <1>5
<1>7. QED  BY <1>1, <1>2, <1>6 DEF S

\* Sums grow.
LEMMA AddsGrow ==
  ASSUME NEW s \in Seq(Nat), NEW P, Adds(P, s), NEW a \in Nat, NEW b \in Nat, a <= b, b <= Len(s)
  PROVE  P[a] \in Nat /\ P[b] \in Nat /\ P[a] <= P[b]
<1>1. PICK n \in Nat : n = Len(s)
  OBVIOUS
<1>2. \A i \in 0..n : P[i] \in Nat
  BY <1>1 DEF Adds
<1> DEFINE S == {k \in Nat : a + k <= n => P[a] <= P[a + k]}
<1>3. 0 \in S
  BY <1>1, <1>2
<1>4. ASSUME NEW i \in 0..((b - a) - 1), i \in S PROVE i + 1 \in S
  <2>1. a + i \in 0..n /\ a \in 0..n /\ (a + (i + 1)) \in 1..n /\ (a + (i + 1)) - 1 = a + i /\ a + i <= n
    BY <1>1
  <2>2. P[a + (i + 1)] = P[a + i] + s[a + (i + 1)] /\ s[a + (i + 1)] \in Nat
    BY <1>1, <2>1 DEF Adds
  <2>3. P[a] <= P[a + i] /\ P[a] \in Nat /\ P[a + i] \in Nat
    BY <1>2, <1>4, <2>1
  <2>4. P[a] <= P[a + (i + 1)]
    BY <2>2, <2>3
  <2>5. QED  BY <2>4
<1> HIDE DEF S
<1>5. b - a \in Nat /\ b - a \in 0..(b - a)
  OBVIOUS
<1>6. b - a \in S
  BY <1>3, <1>4, <1>5, InductionTo
<1>7. a + (b - a) = b /\ a \in 0..n /\ b \in 0..n
  BY <1>1
<1>8. P[a] <= P[a + (b - a)]
  BY <1>1, <1>6, <1>7 DEF S
<1>9. QED  BY <1>2, <1>7, <1>8

\* The sum of a part is a difference of sums.
PartOf(s, P, a, b) ==
  /\ SubSeq(s, a + 1, b) \in Seq(Nat) /\ Len(SubSeq(s, a + 1, b)) = b - a
  /\ \A i \in 1..(b - a) : SubSeq(s, a + 1, b)[i] = s[a + i]
  /\ Sum(SubSeq(s, a + 1, b)) = P[b] - P[a]

LEMMA PartAdds ==
  ASSUME NEW s \in Seq(Nat), NEW P, Adds(P, s), NEW a \in Nat, NEW b \in Nat, a <= b, b <= Len(s)
  PROVE  PartOf(s, P, a, b)
<1>1. PICK n \in Nat, m \in Nat : n = Len(s) /\ m = b - a
  OBVIOUS
<1>2. PICK w : w = SubSeq(s, a + 1, b)
  OBVIOUS
<1>3. w \in Seq(Nat) /\ Len(w) = m /\ \A i \in 1..m : w[i] = s[a + i]
  <2>1. Piece(s, a, b) = w
    BY <1>2 DEF Piece
  <2>2. /\ Piece(s, a, b) \in Seq(Nat) /\ Len(Piece(s, a, b)) = b - a
        /\ \A i \in 1..(b - a) : Piece(s, a, b)[i] = s[a + i]
    BY PieceIs
  <2>3. w \in Seq(Nat) /\ Len(w) = b - a /\ \A i \in 1..(b - a) : w[i] = s[a + i]
    BY <2>1, <2>2, Zenon
  <2>4. QED  BY <1>1, <2>3
<1> DEFINE Q == [i \in 0..m |-> P[a + i] - P[a]]
<1>4. \A i \in 0..m : a \in Nat /\ a + i \in Nat /\ a <= a + i /\ a + i <= Len(s)
  BY <1>1
<1>5. \A i \in 0..m : P[a + i] \in Nat /\ P[a] \in Nat /\ P[a] <= P[a + i]
  BY <1>4, AddsGrow
<1>6. Q \in [0..m -> Nat] /\ Q[0] = 0
  <2>1. \A i \in 0..m : P[a + i] - P[a] \in Nat
    <3> TAKE i \in 0..m
    <3>1. PICK x \in Nat, y \in Nat : x = P[a + i] /\ y = P[a] /\ y <= x
      BY <1>5
    <3>2. QED  BY <3>1
  <2>2. 0 \in 0..m /\ a + 0 = a /\ P[a] \in Nat
    BY <1>5
  <2>3. P[a + 0] - P[a] = 0
    BY <2>2
  <2>4. QED  BY <2>1, <2>2, <2>3
<1>7. ASSUME NEW i \in 1..m PROVE Q[i] = Q[i - 1] + w[i]
  <2>1. a + i \in 1..n /\ (a + i) - 1 = a + (i - 1) /\ i - 1 \in 0..m /\ i \in 0..m
    BY <1>1
  <2>2. P[a + i] = P[a + (i - 1)] + s[a + i]
    BY <1>1, <2>1 DEF Adds
  <2>3. s[a + i] = w[i] /\ w[i] \in Nat
    BY <1>3
  <2>4. P[a + (i - 1)] \in Nat /\ P[a] \in Nat
    BY <1>5, <2>1
  <2>5. Q[i] = P[a + i] - P[a] /\ Q[i - 1] = P[a + (i - 1)] - P[a]
    BY <2>1
  <2> HIDE DEF Q
  <2>6. QED  BY <2>2, <2>3, <2>4, <2>5
<1>8. Q[m] = P[b] - P[a]
  <2>1. a + m = b /\ m \in 0..m
    BY <1>1
  <2>2. QED  BY <2>1
<1> HIDE DEF Q
<1>9. Adds(Q, w)
  BY <1>3, <1>6, <1>7 DEF Adds
<1>10. Sum(w) = P[b] - P[a]
  BY <1>3, <1>8, <1>9, AddsUnique
<1>11. QED  BY <1>1, <1>2, <1>3, <1>10 DEF PartOf

\* Read backwards, the words before b add up too.
BackOf(s, P, a, b, w, Q) ==
  /\ w \in Seq(Nat) /\ w = Reverse(SubSeq(s, a + 1, b)) /\ Len(w) = b - a
  /\ Adds(Q, w) /\ \A i \in 0..(b - a) : Q[i] = P[b] - P[b - i]

LEMMA BackAdds ==
  ASSUME NEW s \in Seq(Nat), NEW P, Adds(P, s), NEW a \in Nat, NEW b \in Nat, a <= b, b <= Len(s)
  PROVE  \E w, Q : BackOf(s, P, a, b, w, Q)
<1>1. PICK n \in Nat, m \in Nat : n = Len(s) /\ m = b - a
  OBVIOUS
<1>2. PICK u : u = SubSeq(s, a + 1, b)
  OBVIOUS
<1>3. u \in Seq(Nat) /\ Len(u) = m /\ \A i \in 1..m : u[i] = s[a + i]
  <2>1. PartOf(s, P, a, b)
    BY PartAdds
  <2>2. QED  BY <1>1, <1>2, <2>1 DEF PartOf
<1>4. PICK w : w = Reverse(u)
  OBVIOUS
<1>5. w = [i \in 1..m |-> u[m - i + 1]]
  BY <1>3, <1>4 DEF Reverse
<1>6. \A i \in 1..m : w[i] = s[b - i + 1] /\ w[i] \in Nat
  <2> TAKE i \in 1..m
  <2>1. PICK j \in 1..m : j = m - i + 1 /\ a + j = b - i + 1
    <3>1. m - i + 1 \in 1..m /\ a + (m - i + 1) = b - i + 1
      BY <1>1
    <3>2. QED  BY <3>1
  <2>2. w[i] = u[j]
    BY <1>5, <2>1
  <2>3. u[j] = s[a + j] /\ u[j] \in Nat
    BY <1>3
  <2>4. QED  BY <2>1, <2>2, <2>3
<1>7. w \in Seq(Nat) /\ Len(w) = m
  <2>1. w \in [1..m -> Nat]
    BY <1>5, <1>6
  <2>2. QED  BY <2>1
<1> DEFINE Q == [i \in 0..m |-> P[b] - P[b - i]]
<1>8. \A i \in 0..m : P[b] \in Nat /\ P[b - i] \in Nat /\ P[b - i] <= P[b]
  <2> TAKE i \in 0..m
  <2>1. b - i \in Nat /\ b - i <= b
    BY <1>1
  <2>2. QED  BY <2>1, AddsGrow
<1>9. Q \in [0..m -> Nat] /\ Q[0] = 0
  <2>1. \A i \in 0..m : P[b] - P[b - i] \in Nat
    <3> TAKE i \in 0..m
    <3>1. PICK x \in Nat, y \in Nat : x = P[b] /\ y = P[b - i] /\ y <= x
      BY <1>8
    <3>2. QED  BY <3>1
  <2>2. 0 \in 0..m /\ b - 0 = b /\ P[b] \in Nat
    BY <1>8
  <2>3. P[b] - P[b - 0] = 0
    BY <2>2
  <2>4. QED  BY <2>1, <2>2, <2>3
<1>10. ASSUME NEW i \in 1..m PROVE Q[i] = Q[i - 1] + w[i]
  <2>1. b - i + 1 \in 1..n /\ (b - i + 1) - 1 = b - i /\ b - (i - 1) = b - i + 1 /\ i - 1 \in 0..m /\ i \in 0..m
    BY <1>1
  <2>2. P[b - i + 1] = P[b - i] + s[b - i + 1]
    BY <1>1, <2>1 DEF Adds
  <2>3. s[b - i + 1] = w[i] /\ w[i] \in Nat
    BY <1>6
  <2>4. P[b - i] \in Nat /\ P[b] \in Nat
    BY <1>8, <2>1
  <2>5. Q[i] = P[b] - P[b - i] /\ Q[i - 1] = P[b] - P[b - i + 1]
    BY <2>1
  <2> HIDE DEF Q
  <2>6. QED  BY <2>2, <2>3, <2>4, <2>5
<1>11. \A i \in 0..m : Q[i] = P[b] - P[b - i]
  OBVIOUS
<1> HIDE DEF Q
<1>12. Adds(Q, w)
  BY <1>7, <1>9, <1>10 DEF Adds
<1>13. BackOf(s, P, a, b, w, Q)
  BY <1>1, <1>2, <1>4, <1>7, <1>11, <1>12 DEF BackOf
<1>14. QED  BY <1>13

\* The first words with t subwords together, or all of them.
Margin(s, P, n, t, r) ==
  /\ MarginWords(s, t) = r /\ r \in 1..n /\ P[r] \in Nat /\ P[r - 1] \in Nat
  /\ P[r] >= t \/ r = n
  /\ r = 1 \/ P[r - 1] < t

LEMMA MarginIs ==
  ASSUME NEW s \in Seq(Nat), NEW n \in Nat, n = Len(s), n # 0, NEW P, Adds(P, s), NEW t \in Nat
  PROVE  \E r : Margin(s, P, n, t, r)
<1> DEFINE enough == {k \in 1..n : Sum(SubSeq(s, 1, k)) >= t}
<1>1. MarginWords(s, t) = IF enough = {} THEN n ELSE Smallest(enough)
  BY DEF MarginWords
<1>2. ASSUME NEW k \in 1..n PROVE Sum(SubSeq(s, 1, k)) = P[k]
  <2>1. 0 \in Nat /\ k \in Nat /\ 0 <= k /\ k <= Len(s)
    OBVIOUS
  <2>2. Sum(SubSeq(s, 0 + 1, k)) = P[k] - P[0]
    BY <2>1, PartAdds DEF PartOf
  <2>3. P[0] = 0 /\ P[k] \in Nat
    BY DEF Adds
  <2>4. 0 + 1 = 1
    OBVIOUS
  <2>5. QED  BY <2>2, <2>3, <2>4
<1>3. enough = {k \in 1..n : P[k] >= t}
  BY <1>2
<1> HIDE DEF enough
<1>4. \A k \in 0..n : P[k] \in Nat
  BY DEF Adds
<1>5. CASE enough = {}
  <2>1. MarginWords(s, t) = n /\ n \in 1..n /\ n - 1 \in 0..n /\ n \in 0..n
    BY <1>1, <1>5
  <2>2. n = 1 \/ P[n - 1] < t
    <3>1. SUFFICES ASSUME n # 1 PROVE P[n - 1] < t
      OBVIOUS
    <3>2. n - 1 \in 1..n /\ n - 1 \in 0..n
      BY <3>1
    <3>3. ~(P[n - 1] >= t)
      BY <1>3, <1>5, <3>2
    <3>4. QED  BY <1>4, <3>2, <3>3
  <2>3. QED  BY <1>4, <2>1, <2>2 DEF Margin
<1>6. CASE enough # {}
  <2>1. PICK r : r = Smallest(enough)
    OBVIOUS
  <2>2. r \in enough /\ \A k \in enough : r <= k
    <3>1. enough \subseteq Nat
      BY <1>3
    <3>2. QED  BY <1>6, <2>1, <3>1, SmallestIs
  <2>3. r \in 1..n /\ P[r] >= t /\ r \in 0..n /\ r - 1 \in 0..n
    BY <1>3, <2>2
  <2>4. r = 1 \/ P[r - 1] < t
    <3>1. SUFFICES ASSUME r # 1 PROVE P[r - 1] < t
      OBVIOUS
    <3>2. r - 1 \in 1..n /\ ~(r <= r - 1)
      BY <2>3, <3>1
    <3>3. ~(P[r - 1] >= t)
      BY <1>3, <2>2, <3>2
    <3>4. QED  BY <1>4, <2>3, <3>3
  <2>5. QED  BY <1>1, <1>4, <1>6, <2>1, <2>3, <2>4 DEF Margin
<1>7. QED  BY <1>5, <1>6

-----------------------------------------------------------------------------
(* The windows of a text.                                                  *)

\* Words with subwords each, none too wide for a window, and their sums; words so narrow
\* that a window keeps its context beside any of them.
Narrow(c, budget, overlap) == \A i \in 1..Len(c) : 2 * c[i] <= budget - overlap
Words(c, P, budget, overlap) ==
  /\ budget \in Nat /\ overlap \in Nat
  /\ c \in Seq(Nat) /\ \A i \in 1..Len(c) : c[i] \in 1..budget
  /\ Adds(P, c)

LEMMA HalfIs ==
  ASSUME NEW overlap \in Nat
  PROVE  overlap \div 2 \in Nat /\ 2 * (overlap \div 2) <= overlap
OBVIOUS

\* A window has as many words as fit, at least one.
LEMMA WindowEndIs ==
  ASSUME NEW c, NEW P, NEW budget, NEW overlap, Words(c, P, budget, overlap),
         NEW n \in Nat, n = Len(c), NEW start \in 0..(n - 1)
  PROVE  \E e \in (start + 1)..n : /\ WindowEnd(c, start, budget) = e
                                   /\ P[e] - P[start] <= budget
                                   /\ e = n \/ P[e + 1] - P[start] > budget
<1> DEFINE fit == {e \in start..n : Sum(SubSeq(c, start + 1, e)) <= budget}
<1>1. WindowEnd(c, start, budget) = Biggest(fit)
  BY DEF WindowEnd
<1>2. c \in Seq(Nat) /\ Adds(P, c) /\ budget \in Nat /\ start \in Nat /\ start < n
  BY DEF Words
<1>3. ASSUME NEW e \in start..n PROVE Sum(SubSeq(c, start + 1, e)) = P[e] - P[start]
  <2>1. e \in Nat /\ start <= e /\ e <= Len(c)
    OBVIOUS
  <2>2. PartOf(c, P, start, e)
    BY <1>2, <2>1, PartAdds
  <2>3. QED  BY <2>2 DEF PartOf
<1>4. fit = {e \in start..n : P[e] - P[start] <= budget}
  BY <1>3
<1> HIDE DEF fit
<1>5. start + 1 \in fit
  <2>1. start + 1 \in 1..n /\ (start + 1) - 1 = start /\ start + 1 \in start..n /\ start \in 0..n
    BY <1>2
  <2>2. P[start + 1] = P[start] + c[start + 1]
    BY <1>2, <2>1 DEF Adds
  <2>3. PICK x \in 1..budget : x = c[start + 1]
    BY <2>1 DEF Words
  <2>4. PICK y \in Nat : y = P[start]
    BY <1>2, <2>1 DEF Adds
  <2>5. P[start + 1] - P[start] <= budget
    BY <1>2, <2>2, <2>3, <2>4
  <2>6. QED  BY <1>4, <2>1, <2>5
<1>6. PICK e : e = Biggest(fit)
  OBVIOUS
<1>7. e \in fit /\ \A x \in fit : x <= e
  <2>1. fit \subseteq Nat /\ \A x \in fit : x <= n
    BY <1>4
  <2>2. QED  BY <1>5, <1>6, <2>1, BiggestIs
<1>8. e \in start..n /\ P[e] - P[start] <= budget /\ start + 1 <= e
  BY <1>4, <1>5, <1>7
<1>9. e = n \/ P[e + 1] - P[start] > budget
  <2>1. SUFFICES ASSUME e # n PROVE P[e + 1] - P[start] > budget
    OBVIOUS
  <2>2. e + 1 \in start..n /\ ~(e + 1 <= e) /\ e + 1 \in 0..n /\ start \in 0..n
    BY <1>8, <2>1
  <2>3. ~(P[e + 1] - P[start] <= budget)
    BY <1>4, <1>7, <2>2
  <2>4. P[e + 1] \in Nat /\ P[start] \in Nat
    BY <1>2, <2>2 DEF Adds
  <2>5. PICK x \in Nat, y \in Nat : x = P[e + 1] /\ y = P[start]
    BY <2>4
  <2>6. QED  BY <1>2, <2>3, <2>5
<1>10. QED  BY <1>1, <1>6, <1>8, <1>9

\* The words with t subwords at the beginning and at the end of a window.
FrontHas(c, P, a, b, t) ==
  \E r \in 1..(b - a) : /\ MarginWords(SubSeq(c, a + 1, b), t) = r
                        /\ P[a + r] - P[a] >= t \/ r = b - a
BackHas(c, P, a, b, t) ==
  \E r \in 1..(b - a) : /\ MarginWords(Reverse(SubSeq(c, a + 1, b)), t) = r
                        /\ P[b] - P[b - r] >= t \/ r = b - a
                        /\ r = 1 \/ P[b] - P[b - (r - 1)] < t

LEMMA FrontMargin ==
  ASSUME NEW c \in Seq(Nat), NEW P, Adds(P, c), NEW a \in Nat, NEW b \in Nat, a < b, b <= Len(c), NEW t \in Nat
  PROVE  FrontHas(c, P, a, b, t)
<1>1. PICK m \in Nat : m = b - a /\ m # 0
  OBVIOUS
<1>2. PICK w : w = SubSeq(c, a + 1, b)
  OBVIOUS
<1>3. w \in Seq(Nat) /\ Len(w) = m /\ \A i \in 1..m : w[i] = c[a + i]
  <2>1. PartOf(c, P, a, b)
    BY PartAdds
  <2>2. QED  BY <1>1, <1>2, <2>1 DEF PartOf
<1>4. PICK Q : Adds(Q, w)
  BY <1>3, SumIs
<1>5. PICK r : Margin(w, Q, m, t, r)
  BY <1>1, <1>3, <1>4, MarginIs
<1>6. r \in 1..m /\ MarginWords(w, t) = r /\ (Q[r] >= t \/ r = m)
  BY <1>5 DEF Margin
<1>7. \A i \in 0..m : i \in {k \in 0..m : Q[k] = P[a + k] - P[a]}
  <2> DEFINE S == {k \in 0..m : Q[k] = P[a + k] - P[a]}
  <2>1. 0 \in S
    <3>1. Q[0] = 0 /\ 0 \in 0..m
      BY <1>4 DEF Adds
    <3>2. a \in 0..Len(c) /\ a + 0 = a
      OBVIOUS
    <3>3. PICK y \in Nat : y = P[a]
      BY <3>2 DEF Adds
    <3>4. P[a + 0] - P[a] = 0
      BY <3>2, <3>3
    <3>5. QED  BY <3>1, <3>4
  <2>2. ASSUME NEW i \in 0..(m - 1), i \in S PROVE i + 1 \in S
    <3>1. i + 1 \in 1..m /\ i + 1 \in 0..m /\ (i + 1) - 1 = i /\ i \in 0..m
      OBVIOUS
    <3>2. a + (i + 1) \in 1..Len(c) /\ (a + (i + 1)) - 1 = a + i /\ a + i \in 0..Len(c) /\ a \in 0..Len(c)
      BY <1>1
    <3>3. Q[i + 1] = Q[i] + w[i + 1] /\ w[i + 1] = c[a + (i + 1)]
      BY <1>3, <1>4, <3>1 DEF Adds
    <3>4. P[a + (i + 1)] = P[a + i] + c[a + (i + 1)]
      BY <3>2 DEF Adds
    <3>5. PICK x \in Nat, y \in Nat, z \in Nat : x = P[a + i] /\ y = P[a] /\ z = c[a + (i + 1)]
      <4>1. P[a + i] \in Nat /\ P[a] \in Nat
        BY <3>2 DEF Adds
      <4>2. c[a + (i + 1)] \in Nat
        BY <3>2
      <4>3. QED  BY <4>1, <4>2
    <3>6. Q[i] = x - y
      BY <2>2, <3>5
    <3>7. Q[i + 1] = P[a + (i + 1)] - P[a]
      BY <3>3, <3>4, <3>5, <3>6, SMTT(30)
    <3>8. QED  BY <3>1, <3>7
  <2> HIDE DEF S
  <2>3. \A i \in 0..m : i \in S
    BY <2>1, <2>2, InductionTo
  <2>4. QED  BY <2>3 DEF S
<1>8. Q[r] = P[a + r] - P[a]
  <2>1. r \in 0..m
    BY <1>6
  <2>2. QED  BY <1>7, <2>1
<1>9. QED  BY <1>1, <1>2, <1>6, <1>8 DEF FrontHas

LEMMA BackMargin ==
  ASSUME NEW c \in Seq(Nat), NEW P, Adds(P, c), NEW a \in Nat, NEW b \in Nat, a < b, b <= Len(c), NEW t \in Nat
  PROVE  BackHas(c, P, a, b, t)
<1>1. PICK m \in Nat : m = b - a /\ m # 0
  OBVIOUS
<1>2. PICK w, Q : BackOf(c, P, a, b, w, Q)
  <2>1. a <= b
    OBVIOUS
  <2>2. QED  BY <2>1, BackAdds
<1>3. PICK r \in 1..m : MarginWords(w, t) = r /\ (Q[r] >= t \/ r = m) /\ (r = 1 \/ Q[r - 1] < t)
  <2>1. w \in Seq(Nat) /\ Len(w) = m /\ Adds(Q, w)
    BY <1>1, <1>2 DEF BackOf
  <2>2. PICK r : Margin(w, Q, m, t, r)
    BY <1>1, <2>1, MarginIs
  <2>3. QED  BY <2>2 DEF Margin
<1>4. r \in 0..(b - a) /\ r - 1 \in 0..(b - a)
  BY <1>1
<1>5. Q[r] = P[b] - P[b - r] /\ Q[r - 1] = P[b] - P[b - (r - 1)]
  BY <1>2, <1>4 DEF BackOf
<1>6. QED  BY <1>1, <1>2, <1>3, <1>5 DEF BackOf, BackHas

\* Where the words that a window may label end: behind them it has half of the overlap, and
\* no word behind those.
RightOf(c, P, overlap, a, b, right) ==
  /\ right \in 1..(b - a)
  /\ b = Len(c) => right = b - a
  /\ b # Len(c) =>
       /\ right = 1 \/ P[b] - P[a + right - 1] >= overlap \div 2
       /\ P[b] - P[a + right - 1] >= overlap \div 2 \/ P[b] - P[a] < overlap \div 2
       /\ right = b - a \/ P[b] - P[a + right] < overlap \div 2

\* How much of its beginning it leaves to the window before it.
LeftOf(P, overlap, a, b, left) ==
  /\ left \in 0..(b - a) /\ (a = 0 => left = 0)
  /\ a = 0 \/ left = b - a \/ P[a + left] - P[a] >= overlap \div 2

LEMMA OwnershipIs ==
  ASSUME NEW c \in Seq(Nat), NEW P, Adds(P, c), NEW a \in Nat, NEW b \in Nat, a < b, b <= Len(c),
         NEW unwritten \in Nat, a <= unwritten, NEW overlap \in Nat
  PROVE  \E left, right : /\ LeftOf(P, overlap, a, b, left) /\ RightOf(c, P, overlap, a, b, right)
                          /\ Ownership(c, a, b, unwritten, overlap) =
                               <<IF left < unwritten - a THEN left ELSE unwritten - a, right>>
<1>1. PICK m \in Nat, half \in Nat : m = b - a /\ m # 0 /\ half = overlap \div 2
  BY HalfIs
<1> DEFINE w == SubSeq(c, a + 1, b)
<1>2. w \in Seq(Nat) /\ Len(w) = m
  <2>1. PartOf(c, P, a, b)
    BY PartAdds
  <2>2. QED  BY <1>1, <2>1 DEF PartOf
<1>3. PICK f \in 1..m : MarginWords(w, half) = f /\ (P[a + f] - P[a] >= half \/ f = m)
  <2>1. FrontHas(c, P, a, b, half)
    BY FrontMargin
  <2>2. QED  BY <1>1, <2>1, Zenon DEF FrontHas
<1>4. PICK r \in 1..m : /\ MarginWords(Reverse(w), half) = r
                        /\ P[b] - P[b - r] >= half \/ r = m
                        /\ r = 1 \/ P[b] - P[b - (r - 1)] < half
  <2>1. BackHas(c, P, a, b, half)
    BY BackMargin
  <2>2. QED  BY <1>1, <2>1, Zenon DEF BackHas
<1> DEFINE left == IF a = 0 THEN 0 ELSE f
           right == IF b = Len(c) THEN m ELSE m - r + 1
<1>5. Ownership(c, a, b, unwritten, overlap) = <<Most(0, Least(left, unwritten - a)), right>>
  <2> HIDE DEF w
  <2>1. overlap \div 2 = half
    BY <1>1
  <2>2. QED  BY <1>2, <1>3, <1>4, <2>1 DEF Ownership, w
<1>6. LeftOf(P, overlap, a, b, left)
  BY <1>1, <1>3 DEF LeftOf
<1>7. RightOf(c, P, overlap, a, b, right)
  <2>1. CASE b = Len(c)
    BY <1>1, <2>1 DEF RightOf
  <2>2. CASE b # Len(c)
    <3>1. right = m - r + 1 /\ right \in 1..(b - a) /\ a + right - 1 = b - r /\ a + right = b - (r - 1)
      BY <1>1, <2>2
    <3>2. PICK x \in Nat, y \in Nat, z \in Nat, v \in Nat : x = P[b] /\ y = P[b - r] /\ z = P[b - (r - 1)] /\ v = P[a]
      <4>1. b \in 0..Len(c) /\ b - r \in 0..Len(c) /\ b - (r - 1) \in 0..Len(c) /\ a \in 0..Len(c)
        BY <1>1
      <4>2. P[b] \in Nat /\ P[b - r] \in Nat /\ P[b - (r - 1)] \in Nat /\ P[a] \in Nat
        BY <4>1 DEF Adds
      <4>3. QED  BY <4>2
    <3>3. r = m => b - r = a
      BY <1>1
    <3>4. r = 1 => right = m
      BY <3>1, <1>1
    <3> HIDE DEF right, w
    <3>5. right = 1 \/ x - y >= half
      BY <1>1, <1>4, <3>1, <3>2
    <3>6. x - y >= half \/ x - v < half
      <4>1. CASE r = m
        <5>1. y = v
          BY <3>2, <3>3, <4>1
        <5>2. QED  BY <1>1, <5>1
      <4>2. CASE r # m
        BY <1>4, <3>2, <4>2
      <4>3. QED  BY <4>1, <4>2
    <3>7. right = m \/ x - z < half
      BY <1>1, <1>4, <3>2, <3>4
    <3>8. QED  BY <1>1, <2>2, <3>1, <3>2, <3>5, <3>6, <3>7 DEF RightOf
  <2>3. QED  BY <2>1, <2>2
<1>8. Most(0, Least(left, unwritten - a)) = IF left < unwritten - a THEN left ELSE unwritten - a
  BY <1>3 DEF Most, Least
<1> HIDE DEF left, right, w
<1>9. QED  BY <1>5, <1>6, <1>7, <1>8

\* What a word has around it in a window, and windows that fit the model and label no word
\* without its context.
InContext(c, P, budget, overlap, a, b, k) ==
  /\ b = Len(c) \/ P[b] - P[k - 1] >= overlap \div 2 \/ c[b + 1] > budget - overlap \div 2
  /\ Narrow(c, budget, overlap) /\ a > 0 => P[k - 1] - P[a] >= overlap \div 2
Owns(w, k) == w.start + w.left < k /\ k <= w.start + w.right
Fit(c, P, budget, overlap, w) ==
  /\ P[w.end] - P[w.start] <= budget /\ w.start + w.right <= w.end
  /\ \A k \in 1..Len(c) : Owns(w, k) => InContext(c, P, budget, overlap, w.start, w.end, k)

\* The words between the left and the right edge have their context.
LEMMA ContextIs ==
  ASSUME NEW c, NEW P, NEW budget, NEW overlap, Words(c, P, budget, overlap),
         NEW a \in Nat, NEW b \in Nat, a < b, b <= Len(c), b = Len(c) \/ P[b + 1] - P[a] > budget,
         NEW u \in Nat, a <= u, u <= Len(c),
         Narrow(c, budget, overlap) /\ a > 0 => P[u] - P[a] >= overlap \div 2,
         NEW left, NEW right, LeftOf(P, overlap, a, b, left), RightOf(c, P, overlap, a, b, right),
         NEW k \in Nat, a + left < k \/ u < k, k <= a + right
  PROVE  InContext(c, P, budget, overlap, a, b, k)
<1>1. PICK n \in Nat, half \in Nat : n = Len(c) /\ half = overlap \div 2
  BY HalfIs DEF Words
<1>2. c \in Seq(Nat) /\ Adds(P, c) /\ budget \in Nat /\ overlap \in Nat
  BY DEF Words
<1>3. left \in 0..(b - a) /\ right \in 1..(b - a) /\ k - 1 \in Nat /\ a <= k - 1 /\ k - 1 < b
  BY DEF LeftOf, RightOf
<1>4. PICK pa \in Nat, pb \in Nat, pk \in Nat : pa = P[a] /\ pb = P[b] /\ pk = P[k - 1] /\ pa <= pb
  <2>1. P[a] \in Nat /\ P[b] \in Nat /\ P[a] <= P[b]
    BY <1>2, AddsGrow
  <2>2. P[k - 1] \in Nat
    <3>1. k - 1 \in 0..Len(c)
      BY <1>3
    <3>2. QED  BY <1>2, <3>1 DEF Adds
  <2>3. QED  BY <2>1, <2>2
<1>5. b = n \/ pb - pk >= half \/ c[b + 1] > budget - half
  <2>1. SUFFICES ASSUME b # n PROVE pb - pk >= half \/ c[b + 1] > budget - half
    OBVIOUS
  <2>2. PICK pr \in Nat : pr = P[a + right - 1] /\ pk <= pr
    <3>1. a + right - 1 \in Nat /\ k - 1 <= a + right - 1 /\ a + right - 1 <= Len(c)
      BY <1>3
    <3>2. P[a + right - 1] \in Nat /\ P[k - 1] <= P[a + right - 1]
      BY <1>2, <1>3, <3>1, AddsGrow
    <3>3. QED  BY <1>4, <3>2
  <2>3. CASE pb - pr >= half
    BY <2>2, <2>3
  <2>4. CASE pb - pa < half
    <3>1. b + 1 \in 1..Len(c) /\ (b + 1) - 1 = b
      BY <1>1, <2>1
    <3>2. PICK x \in Nat : x = c[b + 1]
      BY <1>2, <3>1
    <3>3. P[b + 1] = pb + x
      BY <1>2, <1>4, <3>1, <3>2 DEF Adds
    <3>4. P[b + 1] - pa > budget
      BY <1>1, <1>4, <2>1
    <3>5. pb + x - pa > budget
      BY <3>3, <3>4
    <3>6. x > budget - half
      <4>1. budget \in Nat
        BY <1>2
      <4>2. QED  BY <2>4, <3>5, <4>1
    <3>7. QED  BY <3>2, <3>6
  <2>5. QED  BY <1>1, <1>4, <2>1, <2>2, <2>3, <2>4 DEF RightOf
<1>6. ASSUME Narrow(c, budget, overlap), a > 0 PROVE pk - pa >= half
  <2>1. CASE a + left < k
    <3>1. left # b - a
      BY <1>3, <2>1
    <3>2. PICK pl \in Nat : pl = P[a + left] /\ pl <= pk
      <4>1. a + left \in Nat /\ a + left <= k - 1 /\ k - 1 <= Len(c)
        BY <1>3, <2>1
      <4>2. P[a + left] \in Nat /\ P[a + left] <= P[k - 1]
        BY <1>2, <1>3, <4>1, AddsGrow
      <4>3. QED  BY <1>4, <4>2
    <3>3. pl - pa >= half
      BY <1>1, <1>4, <1>6, <3>1, <3>2 DEF LeftOf
    <3>4. QED  BY <3>2, <3>3
  <2>2. CASE u < k
    <3>1. PICK pu \in Nat : pu = P[u] /\ pu <= pk
      <4>1. u <= k - 1 /\ k - 1 <= Len(c)
        BY <1>3, <2>2
      <4>2. P[u] \in Nat /\ P[u] <= P[k - 1]
        BY <1>2, <1>3, <4>1, AddsGrow
      <4>3. QED  BY <1>4, <4>2
    <3>2. pu - pa >= half
      BY <1>1, <1>4, <1>6, <3>1
    <3>3. QED  BY <3>1, <3>2
  <2>3. QED  BY <2>1, <2>2
<1>7. QED  BY <1>1, <1>4, <1>5, <1>6 DEF InContext

\* The next window begins among the words of this one, before those that it labels end;
\* where words are narrow it repeats the overlap.
NextOf(c, P, budget, overlap, a, b, right, next) ==
  /\ next \in (a + 1)..(Len(c) - 1) /\ next <= a + right
  /\ Narrow(c, budget, overlap) => P[a + right] - P[next] >= overlap \div 2

LEMMA NextIs ==
  ASSUME NEW c, NEW P, NEW budget, NEW overlap, Words(c, P, budget, overlap),
         NEW a \in Nat, NEW b \in Nat, a < b, b < Len(c), P[b + 1] - P[a] > budget,
         NEW right, RightOf(c, P, overlap, a, b, right),
         NEW w, w.start = a, w.end = b
  PROVE  NextOf(c, P, budget, overlap, a, b, right, NextStart(c, w, overlap))
<1>1. PICK n \in Nat, half \in Nat : n = Len(c) /\ half = overlap \div 2 /\ 2 * half <= overlap
  BY HalfIs, SMTT(30) DEF Words
<1>2. c \in Seq(Nat) /\ Adds(P, c) /\ budget \in Nat /\ overlap \in Nat
  BY DEF Words
<1>2a. budget \in Nat /\ overlap \in Nat /\ 2 * half <= overlap
  BY <1>1, <1>2
<1>3. BackHas(c, P, a, b, overlap)
  BY <1>2, BackMargin
<1>4. PICK r \in 1..(b - a) : /\ MarginWords(Reverse(SubSeq(c, a + 1, b)), overlap) = r
                              /\ P[b] - P[b - r] >= overlap \/ r = b - a
                              /\ r = 1 \/ P[b] - P[b - (r - 1)] < overlap
  BY <1>3, Zenon DEF BackHas
<1>5. NextStart(c, w, overlap) = IF b - r > a + 1 THEN b - r ELSE a + 1
  BY <1>4 DEF NextStart, Most
<1>6. PICK next : next = IF b - r > a + 1 THEN b - r ELSE a + 1
  OBVIOUS
<1>7. next \in (a + 1)..(n - 1) /\ right \in 1..(b - a)
  BY <1>1, <1>4, <1>6 DEF RightOf
<1>8. PICK pa \in Nat, pb \in Nat, pr \in Nat, pn \in Nat :
        pa = P[a] /\ pb = P[b] /\ pr = P[a + right] /\ pn = P[b - r] /\ pr <= pb
  <2>1. a + right \in Nat /\ a + right <= b /\ b - r \in 0..Len(c) /\ a \in 0..Len(c)
    BY <1>4, <1>7
  <2>2. P[a + right] \in Nat /\ P[b] \in Nat /\ P[a + right] <= P[b]
    BY <1>2, <2>1, AddsGrow
  <2>3. P[a] \in Nat /\ P[b - r] \in Nat
    BY <1>2, <2>1 DEF Adds
  <2>4. QED  BY <2>2, <2>3
<1>9. right = b - a \/ pb - pr < half
  BY <1>1, <1>8 DEF RightOf
<1>10. pb - pn >= overlap \/ r = b - a
  BY <1>4, <1>8
<1>11. next <= a + right
  <2>1. CASE ~(b - r > a + 1)
    BY <1>6, <1>7, <2>1
  <2>2. CASE b - r > a + 1
    <3>1. SUFFICES ASSUME a + right < b - r PROVE FALSE
      BY <1>4, <1>6, <1>7, <2>2
    <3>2. right # b - a /\ r # b - a
      BY <1>4, <1>7, <2>2, <3>1
    <3>3. pr <= pn
      <4>1. a + right \in Nat /\ b - r \in Nat /\ a + right <= b - r /\ b - r <= Len(c)
        BY <1>4, <1>7, <3>1
      <4>2. P[a + right] <= P[b - r]
        BY <1>2, <4>1, AddsGrow
      <4>3. QED  BY <1>8, <4>2
    <3>4. pb - pr < half /\ pb - pn >= overlap
      BY <1>9, <1>10, <3>2
    <3>5. QED  BY <1>2a, <3>3, <3>4
  <2>3. QED  BY <2>1, <2>2
<1>12. ASSUME Narrow(c, budget, overlap) PROVE P[a + right] - P[next] >= half
  <2>1. b + 1 \in 1..Len(c) /\ a + 1 \in 1..Len(c) /\ (b + 1) - 1 = b /\ (a + 1) - 1 = a
    OBVIOUS
  <2>2. PICK x \in Nat, y \in Nat : x = c[b + 1] /\ y = c[a + 1]
    BY <1>2, <2>1
  <2>3. 2 * x <= budget - overlap /\ 2 * y <= budget - overlap
    BY <1>12, <2>1, <2>2 DEF Narrow
  <2>4. P[b + 1] = pb + x /\ P[a + 1] = pa + y
    BY <1>2, <1>8, <2>1, <2>2 DEF Adds
  <2>5. pb + x - pa > budget
    BY <1>8, <2>4, SMTT(30)
  <2>6. r # b - a
    <3>1. SUFFICES ASSUME r = b - a PROVE FALSE
      OBVIOUS
    <3>2. b - (r - 1) = a + 1
      BY <3>1
    <3>3. CASE r = 1
      <4>1. b = a + 1
        BY <3>1, <3>3
      <4>2. pb = pa + y
        BY <1>8, <2>4, <4>1
      <4>3. QED  BY <1>2a, <2>3, <2>5, <4>2
    <3>4. CASE r # 1
      <4>1. pb - (pa + y) < overlap
        BY <1>4, <1>8, <2>4, <3>2, <3>4
      <4>2. QED  BY <1>2a, <2>3, <2>5, <4>1
    <3>5. QED  BY <3>3, <3>4
  <2>7. next = b - r
    BY <1>4, <1>6, <2>6
  <2>8. pb - pn >= overlap
    BY <1>10, <2>6
  <2>9. right = b - a => pr = pb
    <3>1. SUFFICES ASSUME right = b - a PROVE pr = pb
      OBVIOUS
    <3>2. a + right = b
      BY <3>1
    <3>3. QED  BY <1>8, <3>2
  <2>10. pr - pn >= half
    BY <1>9, <1>2a, <2>8, <2>9
  <2>11. QED  BY <1>8, <2>7, <2>10
<1>13. NextOf(c, P, budget, overlap, a, b, right, next)
  BY <1>1, <1>7, <1>11, <1>12 DEF NextOf
<1>14. QED  BY <1>5, <1>6, <1>13

\* How far the loop has come: its windows are fit, and the words up to unwritten have one;
\* the window to come begins at words that have context or a window already.
WindowsOf(c) == [start : 0..Len(c), end : 0..Len(c), left : Nat, right : 0..Len(c)]
Turns(c) == [start : 0..Len(c), unwritten : 0..Len(c), windows : Seq(WindowsOf(c))]
Begun(c, P, budget, overlap, start, unwritten) ==
  /\ start \in 0..Len(c) /\ unwritten \in 0..Len(c) /\ start <= unwritten
  /\ start = Len(c) => unwritten = Len(c)
  /\ start < Len(c) /\ start > 0 /\ Narrow(c, budget, overlap) => P[unwritten] - P[start] >= overlap \div 2
Covered(windows, unwritten) == \A k \in 1..unwritten : \E j \in 1..Len(windows) : Owns(windows[j], k)
AllFit(c, P, budget, overlap, windows) ==
  \A j \in 1..Len(windows) : Fit(c, P, budget, overlap, windows[j])
Reading(c, P, budget, overlap, done) ==
  /\ done \in Turns(c)
  /\ Begun(c, P, budget, overlap, done.start, done.unwritten)
  /\ AllFit(c, P, budget, overlap, done.windows)
  /\ Covered(done.windows, done.unwritten)

\* The window that begins there, and what the next turn begins with.
LEMMA WindowIs ==
  ASSUME NEW c, NEW P, NEW budget, NEW overlap, Words(c, P, budget, overlap),
         NEW start, NEW unwritten, Begun(c, P, budget, overlap, start, unwritten), start # Len(c),
         NEW w, w = WindowFrom(c, start, WindowEnd(c, start, budget), unwritten, overlap),
         NEW next, next = IF w.end = Len(c) THEN w.end ELSE NextStart(c, w, overlap)
  PROVE  /\ w \in WindowsOf(c) /\ w.start = start /\ Fit(c, P, budget, overlap, w)
         /\ \A k \in (unwritten + 1)..(start + w.right) : Owns(w, k)
         /\ next > start
         /\ Begun(c, P, budget, overlap, next, Most(unwritten, start + w.right))
<1>1. PICK n \in Nat : n = Len(c)
  BY DEF Words
<1>2. c \in Seq(Nat) /\ Adds(P, c) /\ budget \in Nat /\ overlap \in Nat
  BY DEF Words
<1>3. start \in 0..(n - 1) /\ unwritten \in start..n
  BY <1>1 DEF Begun
<1>4. PICK b \in (start + 1)..n : /\ WindowEnd(c, start, budget) = b /\ P[b] - P[start] <= budget
                                  /\ b = n \/ P[b + 1] - P[start] > budget
  BY <1>1, <1>3, WindowEndIs
<1>5. /\ start \in Nat /\ b \in Nat /\ start < b /\ b <= Len(c) /\ unwritten \in Nat /\ start <= unwritten
      /\ unwritten <= Len(c)
  BY <1>1, <1>3
<1>6. PICK left, right : /\ LeftOf(P, overlap, start, b, left) /\ RightOf(c, P, overlap, start, b, right)
                         /\ Ownership(c, start, b, unwritten, overlap) =
                              <<IF left < unwritten - start THEN left ELSE unwritten - start, right>>
  BY <1>2, <1>5, OwnershipIs
<1>7. left \in 0..(b - start) /\ right \in 1..(b - start) /\ (b = n => right = b - start)
  BY <1>1, <1>6 DEF LeftOf, RightOf
<1>8. /\ w.start = start /\ w.end = b /\ w.right = right
      /\ w.left = IF left < unwritten - start THEN left ELSE unwritten - start
      /\ w = [start |-> w.start, end |-> w.end, left |-> w.left, right |-> w.right]
  BY <1>4, <1>6 DEF WindowFrom, WindowOf
<1>9. w \in WindowsOf(c)
  <2>1. w.start \in 0..n /\ w.end \in 0..n /\ w.left \in Nat /\ w.right \in 0..n
    BY <1>3, <1>4, <1>7, <1>8
  <2>2. QED  BY <1>1, <1>8, <2>1 DEF WindowsOf
<1>10. ASSUME NEW k \in 1..Len(c), Owns(w, k)
       PROVE  InContext(c, P, budget, overlap, start, b, k)
  <2>1. k \in Nat /\ k <= start + right /\ (start + left < k \/ unwritten < k)
    BY <1>1, <1>5, <1>7, <1>8, <1>10 DEF Owns
  <2>2. b = Len(c) \/ P[b + 1] - P[start] > budget
    BY <1>1, <1>4
  <2>3. Narrow(c, budget, overlap) /\ start > 0 => P[unwritten] - P[start] >= overlap \div 2
    BY <1>1, <1>3 DEF Begun
  <2>4. QED  BY <1>5, <1>6, <2>1, <2>2, <2>3, ContextIs
<1>11. Fit(c, P, budget, overlap, w)
  <2>1. w.start + w.right <= w.end
    BY <1>5, <1>7, <1>8
  <2>2. QED  BY <1>4, <1>8, <1>10, <2>1 DEF Fit
<1>12. \A k \in (unwritten + 1)..(start + w.right) : Owns(w, k)
  BY <1>5, <1>7, <1>8 DEF Owns
<1>13. PICK after \in Nat : after = Most(unwritten, start + right) /\ unwritten <= after /\ start + right <= after
                            /\ after <= n
  <2>1. start + right \in Nat /\ start + right <= n
    BY <1>3, <1>4, <1>7
  <2>2. QED  BY <1>1, <1>5, <2>1 DEF Most
<1>14. next > start /\ Begun(c, P, budget, overlap, next, after)
  <2>1. CASE b = n
    <3>1. next = n /\ start + right = n
      BY <1>1, <1>3, <1>7, <1>8, <2>1
    <3>2. after = n
      BY <1>13, <3>1
    <3>3. QED  BY <1>1, <1>3, <3>1, <3>2 DEF Begun
  <2>2. CASE b # n
    <3>1. next = NextStart(c, w, overlap)
      BY <1>1, <1>8, <2>2
    <3>2. b < Len(c) /\ P[b + 1] - P[start] > budget
      BY <1>1, <1>4, <2>2
    <3>3. NextOf(c, P, budget, overlap, start, b, right, next)
      BY <1>5, <1>6, <1>8, <3>1, <3>2, NextIs
    <3>4. next \in (start + 1)..(n - 1) /\ next <= start + right
      BY <1>1, <3>3 DEF NextOf
    <3>5. Narrow(c, budget, overlap) => P[after] - P[next] >= overlap \div 2
      <4>1. SUFFICES ASSUME Narrow(c, budget, overlap) PROVE P[after] - P[next] >= overlap \div 2
        OBVIOUS
      <4>2. P[start + right] - P[next] >= overlap \div 2
        BY <3>3, <4>1 DEF NextOf
      <4>3. start + right \in Nat /\ start + right <= after /\ after <= Len(c) /\ next \in 0..Len(c)
        BY <1>1, <1>5, <1>7, <1>13, <3>4
      <4>4. P[start + right] \in Nat /\ P[after] \in Nat /\ P[start + right] <= P[after]
        BY <1>2, <4>3, AddsGrow
      <4>5. P[next] \in Nat
        BY <1>2, <4>3 DEF Adds
      <4>6. PICK half \in Nat : half = overlap \div 2
        BY <1>2, HalfIs
      <4>7. PICK x \in Nat, y \in Nat, z \in Nat : x = P[start + right] /\ y = P[after] /\ z = P[next]
        BY <4>4, <4>5
      <4>8. x - z >= half /\ x <= y
        BY <4>2, <4>4, <4>6, <4>7, Zenon
      <4>9. y - z >= half
        BY <4>8
      <4>10. QED  BY <4>6, <4>7, <4>9, Zenon
    <3>6. next \in 0..n /\ next # n /\ next > start /\ next <= after /\ after \in 0..n
      BY <1>3, <1>5, <1>7, <1>13, <3>4
    <3>7. QED  BY <1>1, <3>5, <3>6 DEF Begun
  <2>3. QED  BY <2>1, <2>2
<1>15. QED  BY <1>8, <1>9, <1>11, <1>12, <1>13, <1>14

LEMMA ReadIs ==
  ASSUME NEW c, NEW P, NEW budget, NEW overlap, Words(c, P, budget, overlap),
         NEW done, Reading(c, P, budget, overlap, done)
  PROVE  /\ Reading(c, P, budget, overlap, ReadWindow(c, done, budget, overlap))
         /\ done.start # Len(c) => ReadWindow(c, done, budget, overlap).start > done.start
<1>1. PICK w : w = WindowFrom(c, done.start, WindowEnd(c, done.start, budget), done.unwritten, overlap)
  OBVIOUS
<1>2. PICK next : next = IF w.end = Len(c) THEN w.end ELSE NextStart(c, w, overlap)
  OBVIOUS
<1>3. PICK new : new = ReadWindow(c, done, budget, overlap)
  OBVIOUS
<1>4. CASE done.start = Len(c)
  BY <1>4 DEF ReadWindow
<1>5. CASE done.start # Len(c)
  <2>1. new = [start |-> next, unwritten |-> Most(done.unwritten, w.start + w.right),
               windows |-> Append(done.windows, w)]
    BY <1>1, <1>2, <1>3, <1>5 DEF ReadWindow
  <2>2. /\ w \in WindowsOf(c) /\ w.start = done.start /\ Fit(c, P, budget, overlap, w)
        /\ \A k \in (done.unwritten + 1)..(done.start + w.right) : Owns(w, k)
        /\ next > done.start
        /\ Begun(c, P, budget, overlap, next, Most(done.unwritten, done.start + w.right))
    <3>1. Begun(c, P, budget, overlap, done.start, done.unwritten)
      BY DEF Reading
    <3>2. QED  BY <1>1, <1>2, <1>5, <3>1, WindowIs
  <2>3. PICK old \in Seq(WindowsOf(c)), m \in Nat : old = done.windows /\ m = Len(old)
    BY DEF Reading, Turns
  <2>4. PICK more : more = Append(old, w)
    OBVIOUS
  <2>5. /\ more \in Seq(WindowsOf(c)) /\ Len(more) = m + 1 /\ more[m + 1] = w
        /\ \A j \in 1..m : more[j] = old[j]
    BY <2>2, <2>3, <2>4
  <2>6. PICK after : after = Most(done.unwritten, done.start + w.right)
    OBVIOUS
  <2>7. new.start = next /\ new.unwritten = after /\ new.windows = more
    BY <2>1, <2>2, <2>3, <2>4, <2>6
  <2>8. next \in 0..Len(c) /\ after \in 0..Len(c)
    BY <2>2, <2>6 DEF Begun
  <2>9. new \in Turns(c)
    BY <2>1, <2>2, <2>3, <2>4, <2>5, <2>6, <2>8 DEF Turns
  <2>10. AllFit(c, P, budget, overlap, more)
    <3>1. \A j \in 1..m : Fit(c, P, budget, overlap, old[j])
      BY <2>3 DEF Reading, AllFit
    <3>2. ASSUME NEW j \in 1..(m + 1) PROVE Fit(c, P, budget, overlap, more[j])
      <4>1. CASE j = m + 1
        BY <2>2, <2>5, <4>1
      <4>2. CASE j # m + 1
        <5>1. j \in 1..m
          BY <4>2
        <5>2. QED  BY <2>5, <3>1, <5>1
      <4>3. QED  BY <4>1, <4>2
    <3>3. QED  BY <2>5, <3>2 DEF AllFit
  <2>11. Covered(more, after)
    <3>1. ASSUME NEW k \in 1..after PROVE \E j \in 1..(m + 1) : Owns(more[j], k)
      <4>1. done.unwritten \in Nat /\ done.start \in Nat /\ w.right \in Nat
        BY <2>2 DEF Reading, Turns, WindowsOf
      <4>2. CASE k <= done.unwritten
        <5>1. k \in 1..done.unwritten
          BY <4>1, <4>2
        <5>2. PICK j \in 1..m : Owns(old[j], k)
          BY <2>3, <5>1 DEF Reading, Covered
        <5>3. j \in 1..(m + 1) /\ more[j] = old[j]
          BY <2>5
        <5>4. QED  BY <5>2, <5>3
      <4>3. CASE ~(k <= done.unwritten)
        <5>1. k \in (done.unwritten + 1)..(done.start + w.right)
          BY <2>6, <4>1, <4>3 DEF Most
        <5>2. m + 1 \in 1..(m + 1) /\ Owns(more[m + 1], k)
          BY <2>2, <2>5, <5>1
        <5>3. QED  BY <5>2
      <4>4. QED  BY <4>2, <4>3
    <3>2. QED  BY <2>5, <3>1 DEF Covered
  <2>12. Reading(c, P, budget, overlap, new)
    BY <2>2, <2>6, <2>7, <2>9, <2>10, <2>11 DEF Reading
  <2>13. QED  BY <1>3, <2>2, <2>7, <2>12
<1>6. QED  BY <1>4, <1>5

\* The loop reads every word: in each turn the window begins at a later one.
LEMMA DocumentWindowsAre ==
  ASSUME NEW c, NEW P, NEW budget, NEW overlap, Words(c, P, budget, overlap)
  PROVE  \E done : /\ Reading(c, P, budget, overlap, done) /\ done.unwritten = Len(c)
                   /\ DocumentWindows(c, budget, overlap) = done.windows
<1>1. PICK n \in Nat : n = Len(c)
  BY DEF Words
<1> DEFINE base == [start |-> 0, unwritten |-> 0, windows |-> <<>>]
           turn(d) == ReadWindow(c, d, budget, overlap)
           D == {d \in Turns(c) : Reading(c, P, budget, overlap, d)}
           read == [x \in (1..n) \X D |-> turn(x[2])]
           step(g) == [i \in 0..n |-> IF i = 0 THEN base ELSE turn(g[i - 1])]
           after == CHOOSE g : g = step(g)
<1>2. base \in D
  <2>1. base \in Turns(c)
    <3>1. <<>> \in Seq(WindowsOf(c))
      OBVIOUS
    <3>2. QED  BY <1>1, <3>1 DEF Turns
  <2>2. Begun(c, P, budget, overlap, 0, 0)
    BY <1>1 DEF Begun
  <2>3. AllFit(c, P, budget, overlap, <<>>) /\ Covered(<<>>, 0)
    BY DEF AllFit, Covered
  <2>4. QED  BY <2>1, <2>2, <2>3 DEF Reading
<1>3. ASSUME NEW d \in D PROVE turn(d) \in D /\ (d.start # n => turn(d).start > d.start)
  <2>1. Reading(c, P, budget, overlap, d)
    OBVIOUS
  <2>2. Reading(c, P, budget, overlap, turn(d)) /\ (d.start # n => turn(d).start > d.start)
    BY <1>1, <2>1, ReadIs
  <2>3. turn(d) \in Turns(c)
    BY <2>2 DEF Reading
  <2> HIDE DEF turn
  <2>4. QED  BY <2>2, <2>3
<1>4. \A d \in D : d.start \in 0..n /\ Reading(c, P, budget, overlap, d)
  BY <1>1 DEF Turns
<1> HIDE DEF D, base, turn
<1>5. StepOn(n, D, read)
  BY <1>3 DEF StepOn
<1>6. Repeats(n, D, base, read)
  <2> HIDE DEF read
  <2>1. QED  BY <1>2, <1>5, Iterated
<1>7. PICK f \in [0..n -> D] : f[0] = base /\ \A i \in 1..n : f[i] = read[<<i, f[i - 1]>>]
  <2> HIDE DEF read
  <2>1. QED  BY <1>6 DEF Repeats
<1>8. \A i \in 1..n : f[i] = turn(f[i - 1])
  <2> TAKE i \in 1..n
  <2>1. <<i, f[i - 1]>> \in (1..n) \X D
    OBVIOUS
  <2>2. read[<<i, f[i - 1]>>] = turn(f[i - 1])
    BY <2>1
  <2> HIDE DEF read
  <2>3. QED  BY <1>7, <2>2
<1> HIDE DEF read
<1>9. f = step(f)
  <2>1. \A i \in 0..n : f[i] = IF i = 0 THEN base ELSE turn(f[i - 1])
    BY <1>7, <1>8
  <2>2. QED  BY <2>1
<1>10. after = step(after)
  <2>1. \E g : g = step(g)
    BY <1>9
  <2> HIDE DEF step
  <2>2. QED  BY <2>1
<1>11. DocumentWindows(c, budget, overlap) = after[n].windows
  BY <1>1 DEF DocumentWindows, turn, base
<1> HIDE DEF after
<1>12. after[0] = base /\ \A i \in 1..n : after[i] = turn(after[i - 1])
  BY <1>10
<1> HIDE DEF step
<1> DEFINE S == {k \in 0..n : after[k] = f[k] /\ (f[k].start >= k \/ f[k].start = n)}
<1>13. 0 \in S
  <2>1. 0 \in 0..n /\ after[0] = f[0]
    BY <1>7, <1>12
  <2>2. f[0].start = 0
    BY <1>7 DEF base
  <2>3. QED  BY <2>1, <2>2
<1>14. ASSUME NEW i \in 0..(n - 1), i \in S PROVE i + 1 \in S
  <2>1. i + 1 \in 1..n /\ i + 1 \in 0..n /\ (i + 1) - 1 = i /\ i \in 0..n
    OBVIOUS
  <2>2. after[i + 1] = f[i + 1] /\ f[i + 1] = turn(f[i])
    BY <1>8, <1>12, <1>14, <2>1
  <2>3. PICK old \in D : old = f[i]
    BY <2>1
  <2>4. PICK x \in 0..n : x = old.start
    BY <1>4
  <2>5. PICK y \in 0..n : y = turn(old).start
    BY <1>3, <1>4
  <2>6. x >= i \/ x = n
    BY <1>14, <2>3, <2>4
  <2>7. x # n => y > x
    BY <1>3, <2>4, <2>5
  <2>8. CASE x # n
    BY <2>1, <2>2, <2>3, <2>5, <2>6, <2>7, <2>8
  <2>9. CASE x = n
    <3>1. turn(old) = old
      BY <1>1, <2>4, <2>9 DEF turn, ReadWindow
    <3>2. QED  BY <2>1, <2>2, <2>3, <2>4, <2>9, <3>1
  <2>10. QED  BY <2>8, <2>9
<1> HIDE DEF S
<1>15. \A i \in 0..n : i \in S
  BY <1>13, <1>14, InductionTo
<1>16. n \in S /\ n \in 0..n
  BY <1>15
<1>17. PICK done \in D : done = f[n] /\ after[n] = done
  BY <1>16 DEF S
<1>18. done.start = n
  <2>1. done.start >= n \/ done.start = n
    BY <1>16, <1>17 DEF S
  <2>2. QED  BY <1>4, <2>1
<1>19. Reading(c, P, budget, overlap, done) /\ done.unwritten = n
  BY <1>1, <1>4, <1>18 DEF Reading, Begun
<1>20. QED  BY <1>1, <1>11, <1>17, <1>19

-----------------------------------------------------------------------------
(* The labels of the words.                                                *)

\* The label of word k comes from a window that owns it, and from its own first subword.
LabelFrom(c, P, w, k) == [token |-> P[k - 1] + 1, start |-> w.start, end |-> w.end]
Labelled(c, P, windows, m, out) ==
  /\ out = [k \in 1..Len(c) |-> out[k]]
  /\ \A k \in 1..Len(c) : (\E j \in 1..m : Owns(windows[j], k)) =>
       \E j \in 1..m : Owns(windows[j], k) /\ out[k] = LabelFrom(c, P, windows[j], k)

LEMMA TokenIs ==
  ASSUME NEW c, NEW P, NEW budget, NEW overlap, Words(c, P, budget, overlap),
         NEW w \in WindowsOf(c), w.start + w.right <= w.end,
         NEW k \in 1..Len(c), Owns(w, k)
  PROVE  PredictWindow(c, w, k - w.start) = P[k - 1] + 1
<1>1. c \in Seq(Nat) /\ Adds(P, c)
  BY DEF Words
<1>2. PICK a \in Nat, b \in Nat, n \in Nat : a = w.start /\ b = w.end /\ n = Len(c)
  BY <1>1 DEF WindowsOf
<1>3. a < k /\ k <= b /\ b <= n /\ k \in Nat
  <2>1. PICK x \in Nat, y \in Nat : x = w.left /\ y = w.right
    BY DEF WindowsOf
  <2>2. a + x < k /\ k <= a + y /\ a + y <= b
    BY <1>2, <2>1 DEF Owns
  <2>3. b \in 0..n /\ k \in Nat
    BY <1>2 DEF WindowsOf
  <2>4. QED  BY <2>2, <2>3
<1>4. ASSUME NEW i \in 0..n PROVE Sum(SubSeq(c, 1, i)) = P[i]
  <2>1. PartOf(c, P, 0, i)
    BY <1>1, <1>2, PartAdds
  <2>2. Sum(SubSeq(c, 0 + 1, i)) = P[i] - P[0]
    BY <2>1 DEF PartOf
  <2>3. P[0] = 0 /\ P[i] \in Nat
    BY <1>1, <1>2 DEF Adds
  <2>4. QED  BY <2>2, <2>3
<1>5. PICK pa \in Nat, pb \in Nat, pk \in Nat : pa = P[a] /\ pb = P[b] /\ pk = P[k - 1] /\ pa <= pk /\ pk < pb
  <2>1. k - 1 \in Nat /\ a <= k - 1 /\ k - 1 <= n /\ k \in 1..Len(c) /\ a <= b
    BY <1>2, <1>3
  <2>2. P[a] \in Nat /\ P[k - 1] \in Nat /\ P[a] <= P[k - 1]
    BY <1>1, <1>2, <2>1, AddsGrow
  <2>3. P[k] \in Nat /\ P[b] \in Nat /\ P[k] <= P[b]
    BY <1>1, <1>2, <1>3, <2>1, AddsGrow
  <2>4. P[k] = P[k - 1] + c[k]
    BY <1>1, <2>1 DEF Adds
  <2>5. PICK x \in 1..budget : x = c[k]
    BY <2>1 DEF Words
  <2>6. budget \in Nat
    BY DEF Words
  <2>7. PICK u \in Nat, v \in Nat, y \in Nat : u = P[k - 1] /\ v = P[b] /\ y = P[k]
    BY <2>2, <2>3
  <2>8. y = u + x /\ y <= v
    BY <2>3, <2>4, <2>5, <2>7, Zenon
  <2>9. u < v
    BY <2>5, <2>6, <2>8
  <2>10. QED  BY <2>2, <2>7, <2>9
<1> DEFINE A == {"cls", "sep"} \cup Nat
           tokens == [t \in 1..(pb - pa) |-> pa + t]
<1>6. PICK s \in Seq(A) : s = tokens /\ Len(s) = pb - pa
  <2>1. tokens \in [1..(pb - pa) -> A] /\ pb - pa \in Nat
    <3>1. pb - pa \in Nat
      BY <1>5
    <3>2. \A t \in 1..(pb - pa) : pa + t \in A
      OBVIOUS
    <3>3. QED  BY <3>1, <3>2
  <2>2. tokens \in Seq(A) /\ Len(tokens) = pb - pa
    BY <2>1
  <2> HIDE DEF A, tokens
  <2>3. QED  BY <2>2
<1>7. s[pk - pa + 1] = pk + 1 /\ pk - pa + 1 \in 1..(pb - pa)
  <2>1. PICK i \in 1..(pb - pa) : i = pk - pa + 1 /\ pa + i = pk + 1
    <3>1. pa <= pk /\ pk < pb
      BY <1>5
    <3>2. pk - pa + 1 \in 1..(pb - pa) /\ pa + (pk - pa + 1) = pk + 1
      BY <3>1
    <3>3. QED  BY <3>2
  <2>2. s[i] = pa + i
    BY <1>6
  <2>3. QED  BY <2>1, <2>2
<1>8. PICK x \in Seq(A), y \in Seq(A) : x = <<"cls">> /\ y = <<"sep">>
  <2>1. <<"cls">> \in Seq(A) /\ <<"sep">> \in Seq(A)
    OBVIOUS
  <2> HIDE DEF A
  <2>2. QED  BY <2>1
<1>9. ((x \o s) \o y)[pk - pa + 2] = s[pk - pa + 1]
  <2> HIDE DEF A, tokens
  <2>1. Len(x) = 1
    BY <1>8
  <2>2. PICK u \in Seq(A) : u = x \o s
    BY ConcatProperties
  <2>3. Len(u) = 1 + (pb - pa)
    <3>1. Len(x \o s) = Len(x) + Len(s)
      BY ConcatProperties
    <3>2. QED  BY <1>6, <2>1, <2>2, <3>1
  <2>4. PICK i \in Nat : i = pk - pa + 2 /\ i \in 2..(1 + (pb - pa)) /\ i - 1 = pk - pa + 1
    BY <1>7
  <2>5. (u \o y)[i] = u[i]
    <3>1. i \in 1..Len(u)
      BY <2>3, <2>4
    <3>2. QED  BY <3>1, ConcatProperties
  <2>6. u[i] = s[i - 1]
    <3>1. i \in 1..(Len(x) + Len(s)) /\ ~(i <= Len(x)) /\ i - Len(x) = i - 1
      BY <1>6, <2>1, <2>4
    <3>2. (x \o s)[i] = s[i - Len(x)]
      BY <3>1, ConcatProperties
    <3>3. QED  BY <2>2, <3>1, <3>2
  <2>7. QED  BY <2>2, <2>4, <2>5, <2>6
<1>10. PredictWindow(c, w, k - w.start) = ((x \o s) \o y)[pk - pa + 2]
  <2> HIDE DEF A
  <2>1. a \in 0..n /\ b \in 0..n /\ k - 1 \in 0..n /\ w.start + (k - w.start) - 1 = k - 1
    BY <1>2, <1>3
  <2>2. /\ Sum(SubSeq(c, 1, w.start)) = pa /\ Sum(SubSeq(c, 1, w.end)) = pb
        /\ Sum(SubSeq(c, 1, w.start + (k - w.start) - 1)) = pk
    BY <1>2, <1>4, <1>5, <2>1
  <2>3. QED  BY <1>6, <1>8, <2>2, Zenon DEF PredictWindow
<1>11. QED  BY <1>5, <1>7, <1>9, <1>10

Labels(c) == [1..Len(c) -> [token : Nat, start : Nat, end : Nat]]

LEMMA WriteIs ==
  ASSUME NEW c, NEW P, NEW budget, NEW overlap, Words(c, P, budget, overlap),
         NEW w \in WindowsOf(c), Fit(c, P, budget, overlap, w), NEW out \in Labels(c)
  PROVE  /\ WriteWindow(c, out, w) \in Labels(c)
         /\ \A k \in 1..Len(c) : WriteWindow(c, out, w)[k] =
                                   IF Owns(w, k) THEN LabelFrom(c, P, w, k) ELSE out[k]
<1>1. PICK n \in Nat : n = Len(c)
  BY DEF Words
<1>2. DOMAIN out = 1..n
  BY <1>1 DEF Labels
<1>3. w.start + w.right <= w.end /\ w.start \in Nat /\ w.end \in Nat
  BY <1>1 DEF Fit, WindowsOf
<1>4. ASSUME NEW k \in 1..n, Owns(w, k)
      PROVE  /\ [token |-> PredictWindow(c, w, k - w.start), start |-> w.start, end |-> w.end] = LabelFrom(c, P, w, k)
             /\ LabelFrom(c, P, w, k) \in [token : Nat, start : Nat, end : Nat]
  <2>1. PredictWindow(c, w, k - w.start) = P[k - 1] + 1
    BY <1>1, <1>3, <1>4, TokenIs
  <2>2. P[k - 1] \in Nat
    <3>1. k - 1 \in 0..Len(c)
      BY <1>1
    <3>2. QED  BY <3>1 DEF Words, Adds
  <2>3. PICK t \in Nat : t = P[k - 1] + 1
    BY <2>2
  <2>4. QED  BY <1>3, <2>1, <2>3 DEF LabelFrom
<1>5. WriteWindow(c, out, w) =
        [k \in 1..n |-> IF Owns(w, k)
                        THEN [token |-> PredictWindow(c, w, k - w.start), start |-> w.start, end |-> w.end]
                        ELSE out[k]]
  BY <1>2 DEF WriteWindow, Owns
<1>6. ASSUME NEW k \in 1..n
      PROVE  WriteWindow(c, out, w)[k] = IF Owns(w, k) THEN LabelFrom(c, P, w, k) ELSE out[k]
  <2>1. CASE Owns(w, k)
    BY <1>4, <1>5, <2>1
  <2>2. CASE ~Owns(w, k)
    BY <1>5, <2>2
  <2>3. QED  BY <2>1, <2>2
<1>7. \A k \in 1..n : WriteWindow(c, out, w)[k] \in [token : Nat, start : Nat, end : Nat]
  <2> TAKE k \in 1..n
  <2>1. out[k] \in [token : Nat, start : Nat, end : Nat]
    BY <1>1 DEF Labels
  <2>2. QED  BY <1>4, <1>6, <2>1
<1>8. PICK new : new = WriteWindow(c, out, w)
  OBVIOUS
<1>9. new = [k \in 1..n |-> new[k]]
  BY <1>5, <1>8
<1>10. new \in Labels(c)
  BY <1>1, <1>7, <1>8, <1>9 DEF Labels
<1>11. QED  BY <1>1, <1>6, <1>8, <1>10

\* The windows are written one by one.
WritesOf(c, windows, f) ==
  /\ f \in [0..Len(windows) -> Labels(c)] /\ f[0] = Unwritten(c)
  /\ \A i \in 1..Len(windows) : f[i] = WriteWindow(c, f[i - 1], windows[i])

LEMMA UnwrittenIs ==
  ASSUME NEW c \in Seq(Nat)
  PROVE  Unwritten(c) \in Labels(c)
<1>1. DOMAIN c = 1..Len(c) /\ Unlabelled \in [token : Nat, start : Nat, end : Nat]
  BY DEF Unlabelled
<1>2. QED  BY <1>1 DEF Labels, Unwritten

LEMMA PredictWordsIs ==
  ASSUME NEW c, NEW P, NEW budget, NEW overlap, Words(c, P, budget, overlap),
         NEW windows \in Seq(WindowsOf(c)), AllFit(c, P, budget, overlap, windows)
  PROVE  \E f : WritesOf(c, windows, f) /\ PredictWords(c, windows) = f[Len(windows)]
<1>1. PICK m \in Nat : m = Len(windows)
  OBVIOUS
<1> DEFINE base == Unwritten(c)
           put(out, i) == WriteWindow(c, out, windows[i])
           D == Labels(c)
           written == [x \in (1..m) \X D |-> put(x[2], x[1])]
           step(g) == [i \in 0..m |-> IF i = 0 THEN base ELSE put(g[i - 1], i)]
           after == CHOOSE g : g = step(g)
<1>2. base \in D
  BY UnwrittenIs DEF Words
<1>3. ASSUME NEW out \in D, NEW i \in 1..m PROVE put(out, i) \in D
  <2>1. windows[i] \in WindowsOf(c) /\ Fit(c, P, budget, overlap, windows[i])
    BY <1>1 DEF AllFit
  <2>2. QED  BY <2>1, WriteIs
<1> HIDE DEF D, base, put
<1>4. StepOn(m, D, written)
  BY <1>3 DEF StepOn
<1>5. Repeats(m, D, base, written)
  <2> HIDE DEF written
  <2>1. QED  BY <1>2, <1>4, Iterated
<1>6. PICK f \in [0..m -> D] : f[0] = base /\ \A i \in 1..m : f[i] = written[<<i, f[i - 1]>>]
  <2> HIDE DEF written
  <2>1. QED  BY <1>5 DEF Repeats
<1>7. \A i \in 1..m : f[i] = put(f[i - 1], i)
  <2> TAKE i \in 1..m
  <2>1. <<i, f[i - 1]>> \in (1..m) \X D
    OBVIOUS
  <2>2. written[<<i, f[i - 1]>>] = put(f[i - 1], i)
    BY <2>1
  <2> HIDE DEF written
  <2>3. QED  BY <1>6, <2>2
<1> HIDE DEF written
<1>8. f = step(f)
  <2>1. \A i \in 0..m : f[i] = IF i = 0 THEN base ELSE put(f[i - 1], i)
    BY <1>6, <1>7
  <2>2. QED  BY <2>1
<1>9. after = step(after)
  <2>1. \E g : g = step(g)
    BY <1>8
  <2> HIDE DEF step
  <2>2. QED  BY <2>1
<1>10. PredictWords(c, windows) = after[m]
  BY <1>1 DEF PredictWords, put, base
<1> HIDE DEF after
<1>11. after[0] = base /\ \A i \in 1..m : after[i] = put(after[i - 1], i)
  BY <1>9
<1> HIDE DEF step
<1> DEFINE S == {i \in 0..m : after[i] = f[i]}
<1>12. 0 \in S
  BY <1>6, <1>11
<1>13. ASSUME NEW i \in 0..(m - 1), i \in S PROVE i + 1 \in S
  <2>1. i + 1 \in 1..m /\ i + 1 \in 0..m /\ (i + 1) - 1 = i
    OBVIOUS
  <2>2. after[i + 1] = put(after[i], i + 1) /\ f[i + 1] = put(f[i], i + 1)
    BY <1>7, <1>11, <2>1
  <2>3. QED  BY <1>13, <2>1, <2>2
<1> HIDE DEF S
<1>14. \A i \in 0..m : i \in S
  BY <1>12, <1>13, InductionTo
<1>15. m \in S
  BY <1>14
<1>16. WritesOf(c, windows, f)
  BY <1>1, <1>6, <1>7 DEF WritesOf, D, base, put
<1>17. QED  BY <1>1, <1>10, <1>15, <1>16 DEF S

\* Later windows write over earlier ones, but only words of their own.
LEMMA PredictWordsAre ==
  ASSUME NEW c, NEW P, NEW budget, NEW overlap, Words(c, P, budget, overlap),
         NEW windows \in Seq(WindowsOf(c)), AllFit(c, P, budget, overlap, windows)
  PROVE  Labelled(c, P, windows, Len(windows), PredictWords(c, windows))
<1>1. PICK n \in Nat, m \in Nat : n = Len(c) /\ m = Len(windows)
  BY DEF Words
<1> DEFINE put(out, i) == WriteWindow(c, out, windows[i])
           D == Labels(c)
<1>2. PICK f \in [0..m -> D] : /\ f[0] = Unwritten(c) /\ \A i \in 1..m : f[i] = put(f[i - 1], i)
                              /\ PredictWords(c, windows) = f[m]
  BY <1>1, PredictWordsIs DEF WritesOf
<1>3. ASSUME NEW out \in D, NEW i \in 1..m
      PROVE  /\ put(out, i) \in D
             /\ \A k \in 1..n : put(out, i)[k] =
                  IF Owns(windows[i], k) THEN LabelFrom(c, P, windows[i], k) ELSE out[k]
  <2>1. windows[i] \in WindowsOf(c) /\ Fit(c, P, budget, overlap, windows[i])
    BY <1>1 DEF AllFit
  <2>2. QED  BY <1>1, <2>1, WriteIs
<1> HIDE DEF D, put
<1> DEFINE S == {i \in 0..m : Labelled(c, P, windows, i, f[i])}
<1>12. \A out \in D : out = [k \in 1..Len(c) |-> out[k]]
  BY DEF D, Labels
<1>13. 0 \in S
  <2>1. 0 \in 0..m /\ f[0] \in D
    OBVIOUS
  <2>2. Labelled(c, P, windows, 0, f[0])
    BY <1>12, <2>1 DEF Labelled
  <2>3. QED  BY <2>1, <2>2
<1>14. ASSUME NEW i \in 0..(m - 1), i \in S PROVE i + 1 \in S
  <2>1. i + 1 \in 1..m /\ i + 1 \in 0..m /\ (i + 1) - 1 = i /\ i \in 0..m
    OBVIOUS
  <2>2. f[i + 1] = put(f[i], i + 1)
    BY <1>2, <2>1
  <2>3. PICK old \in D, new \in D : old = f[i] /\ new = f[i + 1]
    BY <2>1
  <2>4. Labelled(c, P, windows, i, old)
    BY <1>14, <2>3
  <2>5. \A k \in 1..n : new[k] = IF Owns(windows[i + 1], k) THEN LabelFrom(c, P, windows[i + 1], k) ELSE old[k]
    <3>1. PICK h \in 1..m : h = i + 1
      BY <2>1
    <3>2. new = put(old, h)
      BY <2>2, <2>3, <3>1, Zenon
    <3>3. \A k \in 1..n : put(old, h)[k] = IF Owns(windows[h], k) THEN LabelFrom(c, P, windows[h], k) ELSE old[k]
      BY <1>3
    <3>4. QED  BY <3>1, <3>2, <3>3, Zenon
  <2>6. ASSUME NEW k \in 1..n, NEW j \in 1..(i + 1), Owns(windows[j], k)
        PROVE  \E h \in 1..(i + 1) : Owns(windows[h], k) /\ new[k] = LabelFrom(c, P, windows[h], k)
    <3>1. CASE Owns(windows[i + 1], k)
      <4>1. i + 1 \in 1..(i + 1) /\ new[k] = LabelFrom(c, P, windows[i + 1], k)
        BY <2>5, <3>1
      <4>2. QED  BY <3>1, <4>1
    <3>2. CASE ~Owns(windows[i + 1], k)
      <4>1. new[k] = old[k]
        BY <2>5, <3>2
      <4>2. j \in 1..i
        <5>1. j # i + 1
          BY <2>6, <3>2
        <5>2. QED  BY <5>1
      <4>3. PICK h \in 1..i : Owns(windows[h], k) /\ old[k] = LabelFrom(c, P, windows[h], k)
        BY <1>1, <2>4, <2>6, <4>2 DEF Labelled
      <4>4. h \in 1..(i + 1)
        OBVIOUS
      <4>5. QED  BY <4>1, <4>3, <4>4
    <3>3. QED  BY <3>1, <3>2
  <2>7. Labelled(c, P, windows, i + 1, new)
    BY <1>1, <1>12, <2>6 DEF Labelled
  <2>8. QED  BY <2>1, <2>2, <2>3, <2>7
<1> HIDE DEF S
<1>15. \A i \in 0..m : i \in S
  BY <1>13, <1>14, InductionTo
<1>16. m \in S
  BY <1>15
<1>17. QED  BY <1>1, <1>2, <1>16 DEF S

\* Places in a text are sorted by themselves.
InOrder(S, n, r) ==
  /\ n \in Nat /\ r \in [1..n -> S]
  /\ \A i, j \in 1..n : r[i] = r[j] => i = j
  /\ \A x \in S : \E i \in 1..n : r[i] = x

LEMMA PlacesAre ==
  ASSUME NEW S, S \subseteq Nat, IsFiniteSet(S)
  PROVE  InOrder(S, Cardinality(S), SortedBy(S, Place))
<1> DEFINE key == [x \in S |-> Place(x)]
           n == Cardinality(S)
           v(i) == CHOOSE x \in S : Cardinality({y \in S : LexLess(Place(y), Place(x))}) = i - 1
<1>1. Keyed(S, 1, key)
  <2>1. ASSUME NEW x \in S PROVE Row(1, Place(x)) /\ Place(x)[1] = x
    <3>1. x \in Int
      OBVIOUS
    <3>2. <<x>> \in [1..1 -> Int] /\ <<x>>[1] = x
      BY <3>1
    <3>3. QED  BY <3>2 DEF Place, Row
  <2>2. ASSUME NEW x \in S, NEW y \in S, Place(x) = Place(y) PROVE x = y
    BY <2>1, <2>2
  <2>3. QED  BY <2>1, <2>2 DEF Keyed
<1>2. \A x, y \in S : <<x, y>> \in ByKey(S, key) <=> LexLess(Place(x), Place(y))
  BY DEF ByKey
<1>3. PICK L : StrictOrder(S, L) /\ \A x, y \in S : <<x, y>> \in L <=> LexLess(Place(x), Place(y))
  <2> HIDE DEF key
  <2>1. QED  BY <1>1, <1>2, KeyOrders
<1> HIDE DEF key
<1>4. PICK r : r = SortedBy(S, Place)
  OBVIOUS
<1>5. r = [i \in 1..n |-> v(i)]
  BY <1>4 DEF SortedBy
<1>6. \A x \in S : Ahead(S, L, x) = Cardinality({y \in S : LexLess(Place(y), Place(x))})
  <2> TAKE x \in S
  <2>1. {y \in S : <<y, x>> \in L} = {y \in S : LexLess(Place(y), Place(x))}
    BY <1>3
  <2>2. QED  BY <2>1 DEF Ahead
<1>7. ASSUME NEW i \in 1..n, \E x \in S : Ahead(S, L, x) = i - 1
       PROVE  v(i) \in S /\ Ahead(S, L, v(i)) = i - 1
  <2>1. \E x \in S : Cardinality({y \in S : LexLess(Place(y), Place(x))}) = i - 1
    BY <1>6, <1>7
  <2>2. v(i) \in S /\ Cardinality({y \in S : LexLess(Place(y), Place(v(i)))}) = i - 1
    BY <2>1
  <2> HIDE DEF v
  <2>3. QED  BY <1>6, <2>2
<1> HIDE DEF v
<1>8. SortsBy(S, L, r)
  BY <1>5, <1>7 DEF SortsBy
<1>9. Listed(S, L, n, r)
  BY <1>3, <1>8, ListedIs
<1>10. \A i, j \in 1..n : i < j => r[i] # r[j]
  BY <1>3, <1>9 DEF Listed, StrictOrder
<1>11. n \in Nat
  BY <1>9 DEF Listed
<1> HIDE DEF n
<1>12. \A i, j \in 1..n : r[i] = r[j] => i = j
  <2> TAKE i, j \in 1..n
  <2>1. i < j \/ j < i \/ i = j
    BY <1>11
  <2>2. QED  BY <1>10, <2>1
<1>13. QED  BY <1>4, <1>9, <1>12 DEF Listed, InOrder, n

\* Of the words those are read that have a subword.
LEMMA VisibleIs ==
  ASSUME NEW budget \in Nat, NEW counts \in Seq(0..budget)
  PROVE  Visible(counts) \in Seq(1..budget)
<1>1. PICK size \in Nat : size = Len(counts)
  OBVIOUS
<1> DEFINE S == {i \in DOMAIN counts : counts[i] > 0}
<1>2. S \subseteq 1..size /\ \A i \in S : counts[i] \in 1..budget
  BY <1>1
<1>3. IsFiniteSet(S)
  <2>1. IsFiniteSet(1..size)
    BY FS_Interval
  <2>2. QED  BY <1>2, <2>1, FS_Subset
<1> HIDE DEF S
<1>4. PICK active, n : active = SortedBy(S, Place) /\ n = Cardinality(S)
  OBVIOUS
<1>5. n \in Nat /\ active \in [1..n -> S]
  <2>1. S \subseteq Nat
    BY <1>2
  <2>2. QED  BY <1>3, <1>4, <2>1, PlacesAre DEF InOrder
<1>6. Visible(counts) = [i \in DOMAIN active |-> counts[active[i]]]
  BY <1>4 DEF Visible, S
<1>7. \A i \in 1..n : counts[active[i]] \in 1..budget
  BY <1>2, <1>5
<1>8. Visible(counts) = [i \in 1..n |-> counts[active[i]]]
  BY <1>5, <1>6
<1>9. [i \in 1..n |-> counts[active[i]]] \in [1..n -> 1..budget]
  BY <1>7
<1>10. QED  BY <1>5, <1>8, <1>9

\* _document_windows, _ownership, _predict_words: with any budget and overlap, any number of
\* words and any number of subwords that a window can hold, every word is labelled by its own
\* first subword in a window that fits the model, with half of the overlap around it.
THEOREM WordsLabelledInContext ==
  ASSUME input.budget \in Nat, input.overlap \in Nat, input.counts \in Seq(0..input.budget)
  PROVE  LabelledInContext
<1>0. PICK budget \in Nat, overlap \in Nat : budget = input.budget /\ overlap = input.overlap
  OBVIOUS
<1>1. PICK c : c = Visible(input.counts)
  OBVIOUS
<1>2. c \in Seq(1..budget)
  BY <1>0, <1>1, VisibleIs
<1>3. c \in Seq(Nat) /\ \A i \in 1..Len(c) : c[i] \in 1..budget
  BY <1>2
<1>4. PICK P : Adds(P, c)
  BY <1>3, SumIs
<1>5. Words(c, P, budget, overlap)
  BY <1>3, <1>4 DEF Words
<1>6. PICK done : /\ Reading(c, P, budget, overlap, done) /\ done.unwritten = Len(c)
                  /\ DocumentWindows(c, budget, overlap) = done.windows
  BY <1>5, DocumentWindowsAre
<1>7. PICK windows \in Seq(WindowsOf(c)) : windows = done.windows
  BY <1>6 DEF Reading, Turns
<1>8. PICK n \in Nat, m \in Nat, half \in Nat : n = Len(c) /\ m = Len(windows) /\ half = overlap \div 2
  BY <1>3, HalfIs
<1>9. AllFit(c, P, budget, overlap, windows) /\ Covered(windows, n)
  BY <1>6, <1>7, <1>8 DEF Reading
<1>10. PICK out : out = PredictWords(c, windows) /\ Labelled(c, P, windows, m, out)
  BY <1>5, <1>8, <1>9, PredictWordsAre
<1> DEFINE width(a, b) == Sum(SubSeq(c, a, b))
           Sees(w, k) == /\ w.token = width(1, k - 1) + 1
                         /\ width(w.start + 1, w.end) <= budget
                         /\ \/ w.end = Len(c) \/ width(k, w.end) >= half
                            \/ c[w.end + 1] > budget - half
                         /\ (\A i \in DOMAIN c : 2 * c[i] <= budget - overlap) /\ w.start > 0 =>
                              width(w.start + 1, k - 1) >= half
<1>11. ASSUME NEW a \in 0..n, NEW b \in a..n PROVE width(a + 1, b) = P[b] - P[a]
  <2>1. PartOf(c, P, a, b)
    BY <1>3, <1>4, <1>8, PartAdds
  <2>2. QED  BY <2>1 DEF PartOf
<1> HIDE DEF width
<1>12. ASSUME NEW k \in 1..n PROVE Sees(out[k], k)
  <2>1. PICK j \in 1..m : Owns(windows[j], k) /\ out[k] = LabelFrom(c, P, windows[j], k)
    <3>1. \E j \in 1..m : Owns(windows[j], k)
      BY <1>8, <1>9 DEF Covered
    <3>2. QED  BY <1>8, <1>10, <3>1 DEF Labelled
  <2>2. PICK w \in WindowsOf(c) : w = windows[j]
    BY <1>8
  <2>3. Fit(c, P, budget, overlap, w)
    BY <1>8, <1>9, <2>2 DEF AllFit
  <2>4. PICK a \in 0..n, b \in 0..n : a = w.start /\ b = w.end
    BY <1>8 DEF WindowsOf
  <2>5. a < k /\ k <= b
    <3>1. PICK x \in Nat, y \in Nat : x = w.left /\ y = w.right
      BY DEF WindowsOf
    <3>2. a + x < k /\ k <= a + y /\ a + y <= b
      BY <2>1, <2>2, <2>3, <2>4, <3>1 DEF Owns, Fit
    <3>3. QED  BY <3>2
  <2>6. InContext(c, P, budget, overlap, a, b, k) /\ P[b] - P[a] <= budget
    BY <1>8, <2>1, <2>2, <2>3, <2>4 DEF Fit
  <2>7. out[k].token = P[k - 1] + 1 /\ out[k].start = a /\ out[k].end = b
    BY <2>1, <2>2, <2>4 DEF LabelFrom
  <2>8. width(1, k - 1) = P[k - 1]
    <3>1. 0 \in 0..n /\ k - 1 \in 0..n /\ 0 + 1 = 1
      OBVIOUS
    <3>2. width(0 + 1, k - 1) = P[k - 1] - P[0]
      BY <1>11, <3>1
    <3>3. P[0] = 0 /\ P[k - 1] \in Nat
      BY <1>4, <1>8, <3>1 DEF Adds
    <3>4. QED  BY <3>1, <3>2, <3>3
  <2>9. width(a + 1, b) = P[b] - P[a] /\ width(a + 1, k - 1) = P[k - 1] - P[a]
    <3>1. b \in a..n /\ k - 1 \in a..n
      BY <2>5
    <3>2. QED  BY <1>11, <3>1
  <2>10. width(k, b) = P[b] - P[k - 1]
    <3>1. k - 1 \in 0..n /\ b \in (k - 1)..n /\ (k - 1) + 1 = k
      BY <2>5
    <3>2. width((k - 1) + 1, b) = P[b] - P[k - 1]
      BY <1>11, <3>1
    <3>3. QED  BY <3>1, <3>2
  <2>11. (\A i \in DOMAIN c : 2 * c[i] <= budget - overlap) <=> Narrow(c, budget, overlap)
    <3>1. DOMAIN c = 1..Len(c)
      BY <1>3
    <3>2. QED  BY <3>1, Zenon DEF Narrow
  <2>12. /\ b = Len(c) \/ P[b] - P[k - 1] >= half \/ c[b + 1] > budget - half
         /\ Narrow(c, budget, overlap) /\ a > 0 => P[k - 1] - P[a] >= half
    BY <1>8, <2>6 DEF InContext
  <2>13. QED  BY <2>6, <2>7, <2>8, <2>9, <2>10, <2>11, <2>12, Zenon
<1>13. DOMAIN c = 1..n
  BY <1>3, <1>8
<1>14. \A k \in DOMAIN c : Sees(PredictWords(c, DocumentWindows(c, budget, overlap))[k], k)
  BY <1>6, <1>7, <1>10, <1>12, <1>13, Zenon
<1>15. QED  BY <1>0, <1>1, <1>8, <1>14, Zenon DEF LabelledInContext, width

-----------------------------------------------------------------------------
(* Windows of several documents in batches.                                *)

\* One multiple of m comes last before p.
Before(k, m, p) == k * m < p /\ p <= k * m + m

LEMMA MultipleBefore ==
  ASSUME NEW m \in Nat \ {0}, NEW p \in Nat \ {0}
  PROVE  /\ \E k \in 0..(p - 1) : Before(k, m, p)
         /\ \A j, k \in Nat : Before(j, m, p) /\ Before(k, m, p) => j = k
<1> DEFINE Reach == {k \in Nat : p <= k * m + m}
<1>1. ASSUME NEW k \in Nat PROVE /\ k * m \in Nat /\ k * m >= k /\ 0 * m = 0
                                 /\ (k + 1) * m = k * m + m
  <2>1. m >= 1 /\ k * m \in Nat
    OBVIOUS
  <2>2. PICK d \in Nat : m = d + 1
    <3>1. m - 1 \in Nat /\ m = (m - 1) + 1
      OBVIOUS
    <3>2. QED  BY <3>1
  <2>3. k * d \in Nat /\ k * (d + 1) = k * d + k
    OBVIOUS
  <2>4. k * m >= k
    BY <2>2, <2>3
  <2>5. (k + 1) * m = k * m + m /\ 0 * m = 0
    OBVIOUS
  <2>6. QED  BY <2>1, <2>4, <2>5
<1>2. PICK k \in Reach : \A j \in Reach : k <= j
  <2>1. p \in Reach
    BY <1>1
  <2>2. Reach \subseteq Nat
    OBVIOUS
  <2> HIDE DEF Reach
  <2>3. QED  BY <2>1, <2>2, LeastOf
<1>3. k \in Nat /\ p <= k * m + m
  OBVIOUS
<1>4. k * m < p
  <2>1. CASE k = 0
    BY <1>1, <2>1
  <2>2. CASE k # 0
    <3>1. k - 1 \in Nat /\ ~(k <= k - 1) /\ (k - 1) + 1 = k
      BY <1>3, <2>2
    <3>2. ~(p <= (k - 1) * m + m)
      <4>1. k - 1 \notin Reach
        <5> HIDE DEF Reach
        <5>1. QED  BY <1>2, <3>1
      <4>2. QED  BY <3>1, <4>1
    <3>3. (k - 1) * m + m = k * m /\ k * m \in Nat
      <4>1. ((k - 1) + 1) * m = (k - 1) * m + m
        BY <1>1, <3>1
      <4>2. k * m \in Nat
        BY <1>1, <1>3
      <4>3. QED  BY <3>1, <4>1, <4>2
    <3>4. QED  BY <3>2, <3>3
  <2>3. QED  BY <2>1, <2>2
<1>5. k <= p - 1
  <2>1. PICK q \in Nat : q = k * m
    BY <1>1, <1>3
  <2>2. q >= k /\ q < p
    BY <1>1, <1>3, <1>4, <2>1
  <2>3. QED  BY <1>3, <2>2
<1>6. ASSUME NEW i \in Nat, NEW j \in Nat, Before(i, m, p), Before(j, m, p), i < j PROVE FALSE
  <2>1. PICK d \in Nat : j = i + 1 + d
    <3>1. j - (i + 1) \in Nat /\ j = i + 1 + (j - (i + 1))
      BY <1>6
    <3>2. QED  BY <3>1
  <2>2. PICK x \in Nat, y \in Nat, z \in Nat : x = i * m /\ y = d * m /\ z = j * m
    BY <1>1
  <2>3. z = x + m + y
    <3>1. (i + 1 + d) * m = i * m + m + d * m
      OBVIOUS
    <3>2. QED  BY <2>1, <2>2, <3>1
  <2>4. p <= x + m /\ z < p
    BY <1>6, <2>2 DEF Before
  <2>5. QED  BY <2>3, <2>4
<1>7. \A i, j \in Nat : Before(i, m, p) /\ Before(j, m, p) => i = j
  <2> TAKE i, j \in Nat
  <2>1. i < j \/ j < i \/ i = j
    OBVIOUS
  <2>2. QED  BY <1>6, <2>1
<1>8. k \in 0..(p - 1) /\ Before(k, m, p)
  BY <1>3, <1>4, <1>5 DEF Before
<1>9. QED  BY <1>7, <1>8

\* What a slice of a list holds.
SliceOf(g, q, first, m, s) ==
  /\ Len(s) \in 1..m
  /\ \A x : x \in ToSet(s) <=> \E j \in 1..q : first < j /\ j <= first + m /\ x = g[j]

LEMMA SliceIs ==
  ASSUME NEW q \in Nat, NEW S, NEW g \in [1..q -> S], NEW first \in 0..(q - 1), NEW m \in Nat \ {0},
         NEW s, s = SubSeq(g, first + 1, Least(first + m, q))
  PROVE  SliceOf(g, q, first, m, s)
<1>1. PICK last \in Nat : last = Least(first + m, q)
  BY DEF Least
<1>2. first < last /\ last <= first + m /\ last <= q /\ (last = first + m \/ last = q)
  BY <1>1 DEF Least
<1>3. g \in Seq(S) /\ Len(g) = q
  OBVIOUS
<1>4. s \in Seq(S) /\ Len(s) = last - first /\ s = [i \in 1..(last - first) |-> g[first + i]]
  <2>1. /\ SubSeq(g, first + 1, last) \in Seq(S)
        /\ Len(SubSeq(g, first + 1, last)) = last - (first + 1) + 1
        /\ \A i \in 1..(last - (first + 1) + 1) : SubSeq(g, first + 1, last)[i] = g[first + 1 + i - 1]
    <3>1. first + 1 \in Int /\ last \in Int /\ first + 1 <= last
      BY <1>2
    <3>2. \A i \in (first + 1)..last : g[i] \in S
      BY <1>2
    <3>3. QED  BY <3>1, <3>2, SubSeqProperties
  <2>2. last - (first + 1) + 1 = last - first
    OBVIOUS
  <2>3. \A i \in 1..(last - first) : first + 1 + i - 1 = first + i
    OBVIOUS
  <2>4. PICK t \in Seq(S) : t = SubSeq(g, first + 1, last)
    BY <2>1
  <2>5. Len(t) = last - first /\ \A i \in 1..(last - first) : t[i] = g[first + i]
    BY <2>1, <2>2, <2>3, <2>4
  <2>6. t = [i \in 1..(last - first) |-> g[first + i]]
    BY <2>5
  <2>7. s = t
    BY <1>1, <2>4
  <2>8. QED  BY <2>5, <2>6, <2>7
<1>5. Len(s) = last - first /\ DOMAIN s = 1..(last - first) /\ last - first \in Nat
  BY <1>2, <1>4
<1>6. Len(s) \in 1..m
  <2>1. PICK d \in Nat : d = last - first /\ d = Len(s)
    BY <1>5
  <2>2. d \in 1..m
    BY <1>2, <2>1
  <2>3. QED  BY <2>1, <2>2
<1>7. ToSet(s) = {g[first + i] : i \in 1..(last - first)}
  BY <1>4, <1>5 DEF ToSet
<1>8. ASSUME NEW x PROVE x \in ToSet(s) <=> \E j \in 1..q : first < j /\ j <= first + m /\ x = g[j]
  <2>1. ASSUME NEW i \in 1..(last - first), x = g[first + i]
        PROVE  \E j \in 1..q : first < j /\ j <= first + m /\ x = g[j]
    <3>1. first + i \in 1..q /\ first < first + i /\ first + i <= first + m
      BY <1>2
    <3>2. QED  BY <2>1, <3>1
  <2>2. ASSUME NEW j \in 1..q, first < j, j <= first + m, x = g[j]
        PROVE  \E i \in 1..(last - first) : x = g[first + i]
    <3>1. j - first \in 1..(last - first) /\ first + (j - first) = j
      BY <1>2, <2>2
    <3>2. QED  BY <2>2, <3>1
  <2>3. QED  BY <1>7, <2>1, <2>2
<1>9. QED  BY <1>6, <1>8 DEF SliceOf

\* What grouping the windows by their buckets gives.
GroupOf(buckets, n, b) == {i \in 1..n : buckets[i] = b}
GroupList(buckets, n, b) == SortedBy(GroupOf(buckets, n, b), Place)
Sliced(buckets, n, m, b, k, B) ==
  \E q, g : /\ InOrder(GroupOf(buckets, n, b), q, g) /\ g = GroupList(buckets, n, b)
           /\ k * m < q /\ B = SubSeq(g, k * m + 1, Least(k * m + m, q))

LEMMA GroupIs ==
  ASSUME NEW n \in Nat, NEW buckets, NEW b
  PROVE  \E q : InOrder(GroupOf(buckets, n, b), q, GroupList(buckets, n, b))
<1>1. IsFiniteSet(1..n)
  BY FS_Interval
<1>2. GroupOf(buckets, n, b) \subseteq 1..n /\ GroupOf(buckets, n, b) \subseteq Nat
  BY DEF GroupOf
<1>3. IsFiniteSet(GroupOf(buckets, n, b))
  BY <1>1, <1>2, FS_Subset
<1>4. QED  BY <1>2, <1>3, PlacesAre DEF GroupList

LEMMA BatchesAre ==
  ASSUME NEW n \in Nat, NEW buckets, buckets = [i \in 1..n |-> buckets[i]], NEW m \in Nat \ {0}, NEW B
  PROVE  B \in Batches(buckets, m) <=>
           \E b \in ToSet(buckets) : \E k \in Nat : Sliced(buckets, n, m, b, k, B)
<1> DEFINE group(b) == SortedBy({i \in DOMAIN buckets : buckets[i] = b}, Place)
           starts(g) == {k * m : k \in 0..Len(g)} \cap 0..(Len(g) - 1)
           slice(g, first) == SubSeq(g, first + 1, Least(first + m, Len(g)))
<1>1. B \in Batches(buckets, m) <=>
        \E b \in ToSet(buckets) : \E first \in starts(group(b)) : B = slice(group(b), first)
  <2>1. Batches(buckets, m) = UNION {{slice(group(b), first) : first \in starts(group(b))} : b \in ToSet(buckets)}
    BY Zenon DEF Batches
  <2> HIDE DEF group, starts, slice
  <2>2. QED  BY <2>1
<1>2. ASSUME NEW b
      PROVE  (\E first \in starts(group(b)) : B = slice(group(b), first))
               <=> \E k \in Nat : Sliced(buckets, n, m, b, k, B)
  <2>1. DOMAIN buckets = 1..n
    OBVIOUS
  <2>2. PICK g : g = GroupList(buckets, n, b) /\ g = group(b)
    BY <2>1 DEF GroupOf, GroupList
  <2> HIDE DEF group
  <2>3. PICK q : InOrder(GroupOf(buckets, n, b), q, g)
    BY <2>2, GroupIs
  <2>4. q \in Nat /\ Len(g) = q
    BY <2>3 DEF InOrder
  <2>5. ASSUME NEW first \in starts(g), B = slice(g, first)
        PROVE  \E k \in Nat : Sliced(buckets, n, m, b, k, B)
    <3>1. PICK k \in Nat : first = k * m /\ first < q
      BY <2>4
    <3>2. Sliced(buckets, n, m, b, k, B)
      BY <2>2, <2>3, <2>4, <2>5, <3>1, Zenon DEF Sliced
    <3>3. QED  BY <3>2
  <2>6. ASSUME NEW k \in Nat, Sliced(buckets, n, m, b, k, B)
        PROVE  \E first \in starts(g) : B = slice(g, first)
    <3>1. PICK p : /\ InOrder(GroupOf(buckets, n, b), p, g)
                   /\ k * m < p /\ B = SubSeq(g, k * m + 1, Least(k * m + m, p))
      BY <2>2, <2>6, Zenon DEF Sliced
    <3>2. p = q
      BY <2>4, <3>1 DEF InOrder
    <3>3. PICK first \in Nat : first = k * m
      OBVIOUS
    <3>4. first < q /\ k <= first
      <4>1. PICK d \in Nat : m = d + 1
        <5>1. m - 1 \in Nat /\ m = (m - 1) + 1
          OBVIOUS
        <5>2. QED  BY <5>1
      <4>2. k * d \in Nat /\ k * (d + 1) = k * d + k
        OBVIOUS
      <4>3. QED  BY <3>1, <3>2, <3>3, <4>1, <4>2
    <3>5. first \in starts(g)
      <4>1. k \in 0..Len(g) /\ first \in 0..(Len(g) - 1)
        BY <2>4, <3>4
      <4>2. QED  BY <3>3, <4>1
    <3>6. B = slice(g, first)
      BY <2>4, <3>1, <3>2, <3>3
    <3>7. QED  BY <3>5, <3>6
  <2> HIDE DEF starts, slice
  <2>7. QED  BY <2>2, <2>5, <2>6
<1>3. QED  BY <1>1, <1>2

\* Each window lies in one batch, together with windows of its bucket only.
Grouped(buckets, n, m, batches) ==
  /\ \A B \in batches :
       /\ Len(B) \in 1..m /\ ToSet(B) # {}
       /\ \A i \in ToSet(B) : i \in 1..n /\ \A j \in ToSet(B) : buckets[i] = buckets[j]
  /\ \A i \in 1..n :
       /\ \E B \in batches : i \in ToSet(B)
       /\ \A A, B \in batches : i \in ToSet(A) /\ i \in ToSet(B) => A = B

CutOut(buckets, n, m, b, k, B, q, g) ==
  /\ q \in Nat /\ InOrder(GroupOf(buckets, n, b), q, g) /\ g = GroupList(buckets, n, b)
  /\ Len(B) \in 1..m /\ ToSet(B) # {} /\ B = SubSeq(g, k * m + 1, Least(k * m + m, q))
  /\ \A x : x \in ToSet(B) <=> \E j \in 1..q : Before(k, m, j) /\ x = g[j]

LEMMA SlicedIs ==
  ASSUME NEW n \in Nat, NEW buckets, NEW m \in Nat \ {0}, NEW b, NEW k \in Nat, NEW B,
         Sliced(buckets, n, m, b, k, B)
  PROVE  \E q, g : CutOut(buckets, n, m, b, k, B, q, g)
<1>1. PICK q, g : /\ InOrder(GroupOf(buckets, n, b), q, g) /\ g = GroupList(buckets, n, b)
                  /\ k * m < q /\ B = SubSeq(g, k * m + 1, Least(k * m + m, q))
  BY Zenon DEF Sliced
<1>2. q \in Nat /\ g \in [1..q -> GroupOf(buckets, n, b)]
  BY <1>1 DEF InOrder
<1>3. PICK first \in Nat : first = k * m
  OBVIOUS
<1>4. first \in 0..(q - 1) /\ B = SubSeq(g, first + 1, Least(first + m, q))
  BY <1>1, <1>2, <1>3
<1>5. /\ Len(B) \in 1..m
      /\ \A x : x \in ToSet(B) <=> \E j \in 1..q : first < j /\ j <= first + m /\ x = g[j]
  <2>1. SliceOf(g, q, first, m, B)
    BY <1>2, <1>4, SliceIs
  <2>2. QED  BY <2>1, Zenon DEF SliceOf
<1>6. \A x : x \in ToSet(B) <=> \E j \in 1..q : Before(k, m, j) /\ x = g[j]
  BY <1>3, <1>5, Zenon DEF Before
<1>7. ToSet(B) # {}
  <2>1. first + 1 \in 1..q /\ first < first + 1 /\ first + 1 <= first + m
    BY <1>2, <1>4
  <2>2. g[first + 1] \in ToSet(B)
    BY <1>5, <2>1
  <2>3. QED  BY <2>2
<1>8. CutOut(buckets, n, m, b, k, B, q, g)
  <2>1. q \in Nat /\ Len(B) \in 1..m
    BY <1>2, <1>5
  <2>2. QED  BY <1>1, <1>6, <1>7, <2>1, Zenon DEF CutOut
<1>9. QED  BY <1>8

LEMMA BatchesGroup ==
  ASSUME NEW n \in Nat, NEW buckets, buckets = [i \in 1..n |-> buckets[i]], NEW m \in Nat \ {0}
  PROVE  Grouped(buckets, n, m, Batches(buckets, m))
<1> DEFINE batches == Batches(buckets, m)
<1>1. ASSUME NEW B PROVE B \in batches <=> \E b \in ToSet(buckets) : \E k \in Nat : Sliced(buckets, n, m, b, k, B)
  BY BatchesAre
<1> HIDE DEF batches
<1>2. ASSUME NEW B \in batches
      PROVE  /\ Len(B) \in 1..m /\ ToSet(B) # {} /\ \A i \in ToSet(B) : i \in 1..n
             /\ \A i, j \in ToSet(B) : buckets[i] = buckets[j]
  <2>1. PICK b : \E k \in Nat : Sliced(buckets, n, m, b, k, B)
    BY <1>1
  <2>1a. PICK k \in Nat : Sliced(buckets, n, m, b, k, B)
    BY <2>1
  <2>2. PICK q, g : CutOut(buckets, n, m, b, k, B, q, g)
    BY <2>1a, SlicedIs
  <2>3. /\ Len(B) \in 1..m /\ ToSet(B) # {}
        /\ \A x \in ToSet(B) : x \in GroupOf(buckets, n, b)
    <3>1. Len(B) \in 1..m /\ ToSet(B) # {} /\ g \in [1..q -> GroupOf(buckets, n, b)]
      BY <2>2, Zenon DEF CutOut, InOrder
    <3>2. \A x \in ToSet(B) : \E j \in 1..q : x = g[j]
      BY <2>2, Zenon DEF CutOut
    <3>3. QED  BY <3>1, <3>2
  <2>4. \A x \in ToSet(B) : x \in 1..n /\ buckets[x] = b
    BY <2>3 DEF GroupOf
  <2>5. QED  BY <2>3, <2>4
<1>3. ASSUME NEW i \in 1..n PROVE \E B \in batches : i \in ToSet(B)
  <2>1. PICK b \in ToSet(buckets) : b = buckets[i]
    <3>1. DOMAIN buckets = 1..n
      OBVIOUS
    <3>2. QED  BY <3>1 DEF ToSet
  <2>2. PICK g : g = GroupList(buckets, n, b)
    OBVIOUS
  <2>3. PICK q : InOrder(GroupOf(buckets, n, b), q, g)
    BY <2>2, GroupIs
  <2>4. i \in GroupOf(buckets, n, b)
    BY <2>1 DEF GroupOf
  <2>5. q \in Nat /\ \E p \in 1..q : g[p] = i
    BY <2>3, <2>4 DEF InOrder
  <2>6. PICK p \in 1..q : g[p] = i
    BY <2>5
  <2>7. p \in Nat \ {0}
    BY <2>5
  <2>8. PICK k \in 0..(p - 1) : Before(k, m, p)
    BY <2>7, MultipleBefore
  <2>9. k \in Nat
    OBVIOUS
  <2>10. k * m < q
    <3>1. PICK first \in Nat : first = k * m
      BY <2>9
    <3>2. first < p
      BY <2>8, <3>1 DEF Before
    <3>3. QED  BY <2>5, <3>1, <3>2
  <2>11. PICK B : B = SubSeq(g, k * m + 1, Least(k * m + m, q))
    OBVIOUS
  <2>12. Sliced(buckets, n, m, b, k, B)
    BY <2>2, <2>3, <2>10, <2>11, Zenon DEF Sliced
  <2>13. B \in batches
    BY <1>1, <2>9, <2>12
  <2>14. PICK o, h : CutOut(buckets, n, m, b, k, B, o, h)
    BY <2>9, <2>12, SlicedIs
  <2>15. h = g /\ o = q
    BY <2>2, <2>3, <2>14 DEF CutOut, InOrder
  <2>16. i \in ToSet(B)
    <3>1. \E j \in 1..o : Before(k, m, j) /\ i = h[j]
      BY <2>6, <2>8, <2>15
    <3>2. QED  BY <2>14, <3>1, Zenon DEF CutOut
  <2>17. QED  BY <2>13, <2>16
<1>4. ASSUME NEW i \in 1..n, NEW A \in batches, NEW B \in batches, i \in ToSet(A), i \in ToSet(B)
      PROVE  A = B
  <2>1. PICK a : \E j \in Nat : Sliced(buckets, n, m, a, j, A)
    BY <1>1
  <2>1a. PICK j \in Nat : Sliced(buckets, n, m, a, j, A)
    BY <2>1
  <2>2. PICK b : \E k \in Nat : Sliced(buckets, n, m, b, k, B)
    BY <1>1
  <2>2a. PICK k \in Nat : Sliced(buckets, n, m, b, k, B)
    BY <2>2
  <2>3. PICK q, g : CutOut(buckets, n, m, a, j, A, q, g)
    BY <2>1a, SlicedIs
  <2>4. PICK o, h : CutOut(buckets, n, m, b, k, B, o, h)
    BY <2>2a, SlicedIs
  <2>5. PICK p \in 1..q : Before(j, m, p) /\ i = g[p]
    BY <1>4, <2>3, Zenon DEF CutOut
  <2>6. PICK r \in 1..o : Before(k, m, r) /\ i = h[r]
    BY <1>4, <2>4, Zenon DEF CutOut
  <2>7. i \in GroupOf(buckets, n, a) /\ i \in GroupOf(buckets, n, b)
    <3>1. g \in [1..q -> GroupOf(buckets, n, a)] /\ h \in [1..o -> GroupOf(buckets, n, b)]
      BY <2>3, <2>4, Zenon DEF CutOut, InOrder
    <3>2. QED  BY <2>5, <2>6, <3>1
  <2>8. a = b
    BY <2>7 DEF GroupOf
  <2>9. g = h /\ o = q /\ q \in Nat
    BY <2>3, <2>4, <2>8 DEF CutOut, InOrder
  <2>10. p = r
    <3>1. \A x, y \in 1..q : g[x] = g[y] => x = y
      BY <2>3, Zenon DEF CutOut, InOrder
    <3>2. QED  BY <2>5, <2>6, <2>9, <3>1
  <2>11. j = k
    <3>1. p \in Nat \ {0}
      BY <2>9
    <3>2. QED  BY <2>5, <2>6, <2>10, <3>1, MultipleBefore
  <2>12. QED  BY <2>3, <2>4, <2>9, <2>11, Zenon DEF CutOut
<1>5. QED  BY <1>2, <1>3, <1>4 DEF Grouped, batches

\* The windows of the documents, one document after the other: those of d begin after at[d - 1].
Entry(W, d, j) == [document |-> d, window |-> W[d][j]]
LaidOut(W, n, at, p) ==
  /\ at \in [0..n -> Nat] /\ at[0] = 0 /\ DOMAIN p = 1..at[n] /\ Len(p) = at[n]
  /\ \A d \in 1..n : at[d] = at[d - 1] + Len(W[d])
  /\ \A d \in 1..n : \A j \in 1..Len(W[d]) : p[at[d - 1] + j] = Entry(W, d, j)
  /\ \A i \in 1..at[n] : \E d \in 1..n : \E j \in 1..Len(W[d]) : i = at[d - 1] + j

LEMMA PreparedIs ==
  ASSUME NEW n \in Nat, NEW documents, n = Len(documents), NEW budget, NEW overlap, NEW A, NEW W,
         \A d \in 1..n : W[d] = DocumentWindows(documents[d], budget, overlap) /\ W[d] \in Seq(A)
  PROVE  \E at : LaidOut(W, n, at, Prepared(documents, budget, overlap))
<1> DEFINE D == Seq([document : 1..n, window : A])
           add(s, d) == s \o Of(d, DocumentWindows(documents[d], budget, overlap))
           grow == [x \in (1..n) \X D |-> add(x[2], x[1])]
           step(g) == [d \in 0..n |-> IF d = 0 THEN <<>> ELSE add(g[d - 1], d)]
           upto == CHOOSE g : g = step(g)
<1>1. ASSUME NEW d \in 1..n
      PROVE  /\ Of(d, W[d]) \in D /\ Len(Of(d, W[d])) = Len(W[d])
             /\ \A j \in 1..Len(W[d]) : Of(d, W[d])[j] = Entry(W, d, j)
  <2>1. PICK m \in Nat : m = Len(W[d]) /\ DOMAIN W[d] = 1..m /\ \A j \in 1..m : W[d][j] \in A
    OBVIOUS
  <2>2. Of(d, W[d]) = [j \in 1..m |-> Entry(W, d, j)]
    BY <2>1 DEF Of, Entry
  <2>3. \A j \in 1..m : Entry(W, d, j) \in [document : 1..n, window : A]
    BY <2>1 DEF Entry
  <2>4. PICK t : t = Of(d, W[d])
    OBVIOUS
  <2>5. t \in [1..m -> [document : 1..n, window : A]] /\ \A j \in 1..m : t[j] = Entry(W, d, j)
    BY <2>2, <2>3, <2>4
  <2>6. t \in D /\ Len(t) = m
    <3> DEFINE R == [document : 1..n, window : A]
    <3>1. t \in [1..m -> R]
      BY <2>5
    <3> HIDE DEF R
    <3>2. t \in Seq(R) /\ Len(t) = m
      BY <3>1
    <3>3. QED  BY <3>2 DEF R
  <2>7. QED  BY <2>1, <2>4, <2>5, <2>6
<1>2. ASSUME NEW d \in 1..n, NEW s \in D
      PROVE  /\ add(s, d) \in D /\ Len(add(s, d)) = Len(s) + Len(W[d])
             /\ \E k, m \in Nat :
                  /\ k = Len(s) /\ m = Len(W[d])
                  /\ \A i \in 1..(k + m) : add(s, d)[i] = IF i <= k THEN s[i] ELSE Entry(W, d, i - k)
  <2>1. PICK t \in D : t = Of(d, W[d])
    BY <1>1
  <2>2. add(s, d) = s \o t
    BY <2>1
  <2>3. Len(t) = Len(W[d]) /\ \A j \in 1..Len(W[d]) : t[j] = Entry(W, d, j)
    BY <1>1, <2>1
  <2>4. PICK k \in Nat, m \in Nat : k = Len(s) /\ m = Len(t)
    OBVIOUS
  <2>5. /\ s \o t \in D /\ Len(s \o t) = k + m
        /\ \A i \in 1..(k + m) : (s \o t)[i] = IF i <= k THEN s[i] ELSE t[i - k]
    BY <2>4, ConcatProperties
  <2>6. \A i \in 1..(k + m) : ~(i <= k) => t[i - k] = Entry(W, d, i - k)
    <3> TAKE i \in 1..(k + m)
    <3>1. ~(i <= k) => i - k \in 1..m
      BY <2>4
    <3>2. QED  BY <2>3, <2>4, <3>1
  <2> HIDE DEF D, add
  <2>7. add(s, d) \in D /\ Len(add(s, d)) = Len(s) + Len(W[d])
    BY <2>2, <2>3, <2>4, <2>5
  <2>8. \A i \in 1..(k + m) : add(s, d)[i] = IF i <= k THEN s[i] ELSE Entry(W, d, i - k)
    BY <2>2, <2>5, <2>6
  <2>9. QED  BY <2>3, <2>4, <2>7, <2>8
<1>3. <<>> \in D /\ Len(<<>>) = 0
  OBVIOUS
<1>4. \A s \in D : Len(s) \in Nat /\ DOMAIN s = 1..Len(s)
  OBVIOUS
<1>5. Prepared(documents, budget, overlap) = upto[n]
  BY DEF Prepared
<1> HIDE DEF D, add
<1>6. StepOn(n, D, grow)
  BY <1>2 DEF StepOn
<1>7. Repeats(n, D, <<>>, grow)
  <2> HIDE DEF grow
  <2>1. QED  BY <1>3, <1>6, Iterated
<1>8. PICK f \in [0..n -> D] : f[0] = <<>> /\ \A d \in 1..n : f[d] = grow[<<d, f[d - 1]>>]
  <2> HIDE DEF grow
  <2>1. QED  BY <1>7 DEF Repeats
<1>9. \A d \in 1..n : f[d] = add(f[d - 1], d)
  <2> TAKE d \in 1..n
  <2>1. <<d, f[d - 1]>> \in (1..n) \X D
    BY SMTT(30)
  <2>2. grow[<<d, f[d - 1]>>] = add(f[d - 1], d)
    BY <2>1
  <2> HIDE DEF grow
  <2>3. QED  BY <1>8, <2>2
<1> HIDE DEF grow
<1>10. f = step(f)
  <2>1. \A d \in 0..n : f[d] = IF d = 0 THEN <<>> ELSE add(f[d - 1], d)
    BY <1>8, <1>9
  <2>2. QED  BY <2>1
<1>11. upto = step(upto)
  <2>1. \E g : g = step(g)
    BY <1>10
  <2> HIDE DEF step
  <2>2. QED  BY <2>1
<1> HIDE DEF upto
<1>12. upto[0] = <<>> /\ \A d \in 1..n : upto[d] = add(upto[d - 1], d)
  BY <1>11
<1> HIDE DEF step
<1>13. PICK at \in [0..n -> Nat] : \A d \in 0..n : at[d] = Len(f[d])
  <2> DEFINE a == [d \in 0..n |-> Len(f[d])]
  <2>1. a \in [0..n -> Nat] /\ \A d \in 0..n : a[d] = Len(f[d])
    BY <1>4
  <2> HIDE DEF a
  <2>2. QED  BY <2>1
<1>14. at[0] = 0
  BY <1>3, <1>8, <1>13
<1>15. ASSUME NEW d \in 1..n
       PROVE  /\ at[d] = at[d - 1] + Len(W[d]) /\ Len(W[d]) \in Nat
              /\ \A i \in 1..at[d] : f[d][i] = IF i <= at[d - 1] THEN f[d - 1][i] ELSE Entry(W, d, i - at[d - 1])
  <2>1. d - 1 \in 0..n /\ d \in 0..n
    OBVIOUS
  <2>2. PICK s \in D : s = f[d - 1] /\ f[d] = add(s, d) /\ Len(s) = at[d - 1]
    BY <1>9, <1>13, <2>1
  <2>3. Len(f[d]) = at[d - 1] + Len(W[d])
    <3>1. Len(add(s, d)) = Len(s) + Len(W[d])
      BY <1>2, Zenon
    <3>2. QED  BY <2>2, <3>1
  <2>4. at[d] = at[d - 1] + Len(W[d])
    BY <1>13, <2>1, <2>3
  <2>5. Len(W[d]) \in Nat
    <3>1. W[d] \in Seq(A)
      OBVIOUS
    <3>2. QED  BY <3>1
  <2>6. PICK a \in Nat, m \in Nat :
          /\ a = Len(s) /\ m = Len(W[d])
          /\ \A i \in 1..(a + m) : add(s, d)[i] = IF i <= a THEN s[i] ELSE Entry(W, d, i - a)
    BY <1>2, Zenon
  <2>7. \A i \in 1..(a + m) : f[d][i] = IF i <= a THEN s[i] ELSE Entry(W, d, i - a)
    BY <2>2, <2>6
  <2>8. QED  BY <2>2, <2>4, <2>5, <2>6, <2>7, Zenon
<1> DEFINE Begins(k) ==
             /\ \A d \in 1..k : \A j \in 1..Len(W[d]) :
                  at[d - 1] + j <= at[k] /\ f[k][at[d - 1] + j] = Entry(W, d, j)
             /\ \A i \in 1..at[k] : \E d \in 1..k : \E j \in 1..Len(W[d]) : i = at[d - 1] + j
           S == {k \in 0..n : upto[k] = f[k] /\ Begins(k)}
<1>16. 0 \in S
  BY <1>8, <1>12, <1>14
<1>17. ASSUME NEW k \in 0..(n - 1), k \in S PROVE k + 1 \in S
  <2>1. PICK h \in 1..n : h = k + 1
    OBVIOUS
  <2>2. h \in 0..n /\ h - 1 = k /\ k \in 0..n /\ h \in 1..h
    BY <2>1
  <2>3. upto[h] = f[h]
    BY <1>9, <1>12, <1>17, <2>2
  <2>4. PICK a \in Nat, m \in Nat : a = at[k] /\ m = Len(W[h]) /\ at[h] = a + m
    BY <1>15, <2>2
  <2>5. \A i \in 1..(a + m) : f[h][i] = IF i <= a THEN f[k][i] ELSE Entry(W, h, i - a)
    BY <1>15, <2>2, <2>4
  <2>6. ASSUME NEW d \in 1..h, NEW j \in 1..Len(W[d])
        PROVE  at[d - 1] + j <= at[h] /\ f[h][at[d - 1] + j] = Entry(W, d, j)
    <3>1. CASE d = h
      <4>1. j \in 1..m /\ at[d - 1] = a
        BY <2>2, <2>4, <3>1
      <4>2. a + j \in 1..(a + m) /\ ~(a + j <= a) /\ (a + j) - a = j /\ a + j <= a + m
        BY <4>1
      <4>3. f[h][a + j] = Entry(W, h, j)
        BY <2>5, <4>2
      <4>4. QED  BY <2>4, <3>1, <4>1, <4>2, <4>3
    <3>2. CASE d \in 1..k
      <4>1. PICK x : x = at[d - 1] + j
        OBVIOUS
      <4>2. x <= a /\ f[k][x] = Entry(W, d, j)
        BY <1>17, <2>4, <3>2, <4>1
      <4>3. x \in 1..(a + m)
        <5>1. at[d - 1] \in Nat /\ j \in Nat /\ j >= 1
          <6>1. d - 1 \in 0..n /\ d \in 1..n
            BY <2>1
          <6>2. Len(W[d]) \in Nat
            BY <1>15, <6>1
          <6>3. PICK b \in Nat : b = Len(W[d])
            BY <6>2
          <6>4. j \in 1..b
            BY <6>3
          <6>5. j \in Nat /\ j >= 1
            BY <6>4
          <6>6. at[d - 1] \in Nat
            BY <6>1
          <6>7. QED  BY <6>5, <6>6
        <5>2. QED  BY <4>1, <4>2, <5>1
      <4>4. f[h][x] = Entry(W, d, j)
        BY <2>5, <4>2, <4>3
      <4>5. x <= a + m
        BY <4>3
      <4>6. QED  BY <2>4, <4>1, <4>4, <4>5
    <3>3. QED  BY <2>1, <3>1, <3>2
  <2>7. ASSUME NEW i \in 1..at[h] PROVE \E d \in 1..h : \E j \in 1..Len(W[d]) : i = at[d - 1] + j
    <3>1. CASE i <= a
      <4>1. i \in 1..at[k]
        BY <2>4, <3>1
      <4>2. \E d \in 1..k : \E j \in 1..Len(W[d]) : i = at[d - 1] + j
        BY <1>17, <4>1
      <4>3. 1..k \subseteq 1..h
        BY <2>1
      <4>4. QED  BY <4>2, <4>3
    <3>2. CASE ~(i <= a)
      <4>1. i - a \in 1..m /\ i = a + (i - a)
        BY <2>4, <3>2
      <4>2. QED  BY <2>2, <2>4, <4>1
    <3>3. QED  BY <3>1, <3>2
  <2>8. Begins(h)
    BY <2>6, <2>7
  <2> HIDE DEF Begins
  <2>9. QED  BY <2>1, <2>2, <2>3, <2>8
<1> HIDE DEF S
<1>18. \A k \in 0..n : k \in S
  BY <1>16, <1>17, InductionTo
<1>19. upto[n] = f[n] /\ Begins(n)
  <2>1. n \in S
    BY <1>18
  <2> HIDE DEF Begins
  <2>2. QED  BY <2>1 DEF S
<1>20. PICK p \in D : p = Prepared(documents, budget, overlap) /\ p = f[n]
  <2>1. f[n] \in D
    OBVIOUS
  <2>2. QED  BY <1>5, <1>19, <2>1
<1>21. DOMAIN p = 1..at[n] /\ Len(p) = at[n]
  BY <1>4, <1>13, <1>20
<1>22. LaidOut(W, n, at, p)
  BY <1>14, <1>15, <1>19, <1>20, <1>21 DEF LaidOut
<1>23. QED  BY <1>20, <1>22

\* Each document on its own: g[d] is written by its windows, whatever was written before.
EachWrites(documents, W, n, g) ==
  \A d \in 1..n :
    /\ WritesOf(documents[d], W[d], g[d]) /\ Len(W[d]) \in Nat
    /\ \A j \in 1..Len(W[d]) : \A out \in Labels(documents[d]) :
         WriteWindow(documents[d], out, W[d][j]) \in Labels(documents[d])

LEMMA WrittenIs ==
  ASSUME NEW n \in Nat, NEW documents, DOMAIN documents = 1..n, NEW W, NEW g, EachWrites(documents, W, n, g),
         NEW at, NEW p, LaidOut(W, n, at, p)
  PROVE  Written(documents, p) = [d \in 1..n |-> g[d][Len(W[d])]]
<1> DEFINE L(d) == Labels(documents[d])
           V == {v \in [1..n -> UNION {L(d) : d \in 1..n}] : \A d \in 1..n : v[d] \in L(d)}
           base == [d \in 1..n |-> Unwritten(documents[d])]
           put(v, i) == WritePrepared(documents, v, p[i])
           new(v, d, x) == [e \in 1..n |-> IF e = d THEN x ELSE v[e]]
<1>1. ASSUME NEW d \in 1..n
      PROVE  /\ Len(W[d]) \in Nat /\ g[d] \in [0..Len(W[d]) -> L(d)] /\ g[d][0] = Unwritten(documents[d])
             /\ \A j \in 1..Len(W[d]) : g[d][j] = WriteWindow(documents[d], g[d][j - 1], W[d][j])
             /\ \A j \in 1..Len(W[d]) : \A out \in L(d) : WriteWindow(documents[d], out, W[d][j]) \in L(d)
  BY Zenon DEF EachWrites, WritesOf
<1>2. /\ at \in [0..n -> Nat] /\ at[0] = 0 /\ Len(p) = at[n]
      /\ \A d \in 1..n : at[d] = at[d - 1] + Len(W[d])
      /\ \A d \in 1..n : \A j \in 1..Len(W[d]) : p[at[d - 1] + j] = Entry(W, d, j)
      /\ \A i \in 1..at[n] : \E d \in 1..n : \E j \in 1..Len(W[d]) : i = at[d - 1] + j
  BY Zenon DEF LaidOut
<1>3. PICK N \in Nat : N = at[n]
  BY <1>2
<1> DEFINE run == [x \in (1..N) \X V |-> put(x[2], x[1])]
           step(h) == [i \in 0..N |-> IF i = 0 THEN base ELSE put(h[i - 1], i)]
           after == CHOOSE h : h = step(h)
<1> HIDE DEF L
<1>4. ASSUME NEW d \in 1..n, NEW j \in 1..Len(W[d]), NEW v \in V, NEW i, i = at[d - 1] + j
      PROVE  /\ put(v, i) \in V
             /\ put(v, i) = new(v, d, WriteWindow(documents[d], v[d], W[d][j]))
  <2>1. p[i].document = d /\ p[i].window = W[d][j]
    <3>1. p[i] = Entry(W, d, j)
      BY <1>2, <1>4, Zenon
    <3>2. QED  BY <3>1 DEF Entry
  <2>2. PICK x : x = WriteWindow(documents[d], v[d], W[d][j])
    OBVIOUS
  <2>3. x \in L(d)
    BY <1>1, <2>2
  <2>4. put(v, i) = [v EXCEPT ![d] = x]
    BY <2>1, <2>2 DEF WritePrepared
  <2>5. put(v, i) = new(v, d, x)
    <3> HIDE DEF put
    <3>1. QED  BY <2>4
  <2>6. new(v, d, x) \in V
    <3>1. \A e \in 1..n : (IF e = d THEN x ELSE v[e]) \in L(e)
      BY <2>3
    <3>2. QED  BY <3>1
  <2> HIDE DEF new, put, V
  <2>7. QED  BY <2>2, <2>5, <2>6
<1>5. base \in V
  <2>1. \A d \in 1..n : Unwritten(documents[d]) \in L(d)
    <3> TAKE d \in 1..n
    <3>1. PICK m \in Nat : m = Len(W[d])
      BY <1>1
    <3>2. 0 \in 0..m
      OBVIOUS
    <3>3. g[d][0] \in L(d)
      BY <1>1, <3>1, <3>2
    <3>4. QED  BY <1>1, <3>3
  <2>2. QED  BY <2>1
<1>6. \A v \in V : v = [e \in 1..n |-> v[e]]
  OBVIOUS
<1>7. Written(documents, p) = after[N]
  BY <1>2, <1>3 DEF Written
<1> HIDE DEF V, put
<1>8. StepOn(N, V, run)
  <2>1. ASSUME NEW i \in 1..N, NEW v \in V PROVE put(v, i) \in V
    <3>1. PICK d \in 1..n : \E j \in 1..Len(W[d]) : i = at[d - 1] + j
      BY <1>2, <1>3
    <3>2. QED  BY <1>4, <3>1
  <2>2. QED  BY <2>1 DEF StepOn
<1>9. Repeats(N, V, base, run)
  <2> HIDE DEF run, base
  <2>1. QED  BY <1>5, <1>8, Iterated
<1>10. PICK f \in [0..N -> V] : f[0] = base /\ \A i \in 1..N : f[i] = run[<<i, f[i - 1]>>]
  <2> HIDE DEF run, base
  <2>1. QED  BY <1>9 DEF Repeats
<1>11. \A i \in 1..N : f[i] = put(f[i - 1], i)
  <2> TAKE i \in 1..N
  <2>1. <<i, f[i - 1]>> \in (1..N) \X V
    OBVIOUS
  <2>2. run[<<i, f[i - 1]>>] = put(f[i - 1], i)
    BY <2>1
  <2> HIDE DEF run
  <2>3. QED  BY <1>10, <2>2
<1> HIDE DEF run
<1>12. f = step(f)
  <2> HIDE DEF base
  <2>1. \A i \in 0..N : f[i] = IF i = 0 THEN base ELSE put(f[i - 1], i)
    BY <1>10, <1>11
  <2>2. QED  BY <2>1
<1>13. after = step(after)
  <2>1. \E h : h = step(h)
    BY <1>12
  <2> HIDE DEF step
  <2>2. QED  BY <2>1
<1> HIDE DEF after
<1>14. after[0] = base /\ \A i \in 1..N : after[i] = put(after[i - 1], i)
  <2> HIDE DEF base
  <2>1. QED  BY <1>13
<1> HIDE DEF step
<1>15. \A i \in 0..N : after[i] = f[i]
  <2> DEFINE S == {i \in 0..N : after[i] = f[i]}
  <2>1. 0 \in S
    BY <1>10, <1>14
  <2>2. ASSUME NEW i \in 0..(N - 1), i \in S PROVE i + 1 \in S
    <3>1. i + 1 \in 1..N /\ i + 1 \in 0..N /\ (i + 1) - 1 = i
      OBVIOUS
    <3>2. after[i + 1] = put(after[i], i + 1) /\ f[i + 1] = put(f[i], i + 1)
      BY <1>11, <1>14, <3>1
    <3>3. QED  BY <2>2, <3>1, <3>2
  <2> HIDE DEF S
  <2>3. \A i \in 0..N : i \in S
    BY <2>1, <2>2, InductionTo
  <2>4. QED  BY <2>3 DEF S
<1> DEFINE Done(k) == [e \in 1..n |-> IF e <= k THEN g[e][Len(W[e])] ELSE Unwritten(documents[e])]
           Ready(d, j) == [e \in 1..n |-> IF e < d THEN g[e][Len(W[e])]
                                          ELSE IF e = d THEN g[d][j] ELSE Unwritten(documents[e])]
           S == {k \in 0..n : at[k] <= N /\ f[at[k]] = Done(k)}
<1>16. ASSUME NEW k \in 0..n PROVE at[k] \in Nat /\ at[k] <= N
  <2> DEFINE T == {x \in 0..n : at[n - x] <= N}
  <2>1. 0 \in T
    BY <1>3
  <2>2. ASSUME NEW x \in 0..(n - 1), x \in T PROVE x + 1 \in T
    <3>1. PICK d \in 1..n : d = n - x
      <4>1. n - x \in 1..n
        OBVIOUS
      <4>2. QED  BY <4>1
    <3>2. d - 1 = n - (x + 1) /\ d - 1 \in 0..n /\ x + 1 \in 0..n /\ d \in 0..n
      BY <3>1
    <3>3. PICK a \in Nat, b \in Nat, m \in Nat : a = at[d - 1] /\ b = at[d] /\ m = Len(W[d]) /\ b = a + m
      <4>1. at[d - 1] \in Nat /\ at[d] \in Nat
        BY <1>2, <3>2
      <4>2. Len(W[d]) \in Nat /\ at[d] = at[d - 1] + Len(W[d])
        BY <1>1, <1>2, Zenon
      <4>3. QED  BY <4>1, <4>2, Zenon
    <3>4. b <= N
      BY <2>2, <3>1, <3>3
    <3>5. a <= N
      BY <3>3, <3>4
    <3>6. QED  BY <3>2, <3>3, <3>5
  <2> HIDE DEF T
  <2>3. \A x \in 0..n : x \in T
    BY <2>1, <2>2, InductionTo
  <2>4. n - k \in 0..n /\ n - (n - k) = k
    OBVIOUS
  <2>5. n - k \in T
    BY <2>3, <2>4
  <2>6. QED  BY <1>2, <2>4, <2>5 DEF T
<1>17. 0 \in S
  <2>1. Done(0) = base
    <3>1. \A e \in 1..n : ~(e <= 0)
      OBVIOUS
    <3>2. QED  BY <3>1
  <2> HIDE DEF Done, base
  <2>2. QED  BY <1>2, <1>10, <2>1
<1> HIDE DEF base
<1>18. ASSUME NEW k \in 0..(n - 1), k \in S PROVE k + 1 \in S
  <2>1. PICK d \in 1..n : d = k + 1
    OBVIOUS
  <2>2. d - 1 = k /\ d \in 0..n /\ k \in 0..n
    BY <2>1
  <2>3. PICK a \in Nat, m \in Nat : a = at[k] /\ m = Len(W[d]) /\ at[d] = a + m
    BY <1>1, <1>2, <2>2
  <2>4. a + m <= N
    BY <1>16, <2>2, <2>3
  <2> DEFINE T == {j \in 0..m : f[a + j] = Ready(d, j)}
  <2>5. 0 \in T
    <3>1. Ready(d, 0) = Done(k)
      <4>1. g[d][0] = Unwritten(documents[d])
        BY <1>1
      <4>2. \A e \in 1..n : (e < d <=> e <= k) /\ (e = d => ~(e <= k))
        BY <2>1
      <4>3. QED  BY <4>1, <4>2
    <3>2. f[a + 0] = Done(k) /\ 0 \in 0..m
      BY <1>18, <2>3
    <3> HIDE DEF Ready, Done
    <3>3. QED  BY <3>1, <3>2
  <2>6. ASSUME NEW i \in 0..(m - 1), i \in T PROVE i + 1 \in T
    <3>1. PICK j \in 1..m : j = i + 1
      OBVIOUS
    <3>2. j - 1 = i /\ j \in 0..m /\ a + j \in 1..N /\ (a + j) - 1 = a + i /\ a + i \in 0..N
      BY <2>4, <3>1
    <3>3. PICK v \in V : v = f[a + i]
      BY <3>2
    <3>4. v = Ready(d, i)
      BY <2>6, <3>3
    <3>5. f[a + j] = put(v, a + j)
      BY <1>11, <3>2, <3>3
    <3>6. put(v, a + j) = new(v, d, WriteWindow(documents[d], v[d], W[d][j]))
      <4>1. j \in 1..Len(W[d]) /\ a + j = at[d - 1] + j
        BY <2>2, <2>3
      <4> HIDE DEF Ready, new
      <4>2. QED  BY <1>4, <4>1
    <3>7. v[d] = g[d][i] /\ g[d][j] = WriteWindow(documents[d], g[d][i], W[d][j])
      BY <1>1, <2>3, <3>2, <3>4
    <3>8. \A e \in 1..n : (IF e = d THEN g[d][j] ELSE v[e]) =
                            IF e < d THEN g[e][Len(W[e])] ELSE IF e = d THEN g[d][j] ELSE Unwritten(documents[e])
      BY <3>4
    <3>9. put(v, a + j) = Ready(d, j)
      <4>1. put(v, a + j) = new(v, d, g[d][j])
        <5> HIDE DEF Ready, new
        <5>1. QED  BY <3>6, <3>7
      <4>2. new(v, d, g[d][j]) = Ready(d, j)
        BY <3>8
      <4> HIDE DEF Ready, new
      <4>3. QED  BY <4>1, <4>2
    <3> HIDE DEF Ready
    <3>10. QED  BY <3>1, <3>2, <3>5, <3>9
  <2> HIDE DEF T
  <2>7. \A j \in 0..m : j \in T
    BY <2>5, <2>6, InductionTo
  <2>8. f[a + m] = Ready(d, m)
    <3>1. m \in T
      BY <2>7
    <3> HIDE DEF Ready
    <3>2. QED  BY <3>1 DEF T
  <2>9. Ready(d, m) = Done(d)
    <3>1. \A e \in 1..n : e <= d <=> (e < d \/ e = d)
      OBVIOUS
    <3>2. QED  BY <2>3, <3>1
  <2> HIDE DEF Ready, Done
  <2>10. QED  BY <1>16, <2>1, <2>2, <2>3, <2>8, <2>9
<1> HIDE DEF S
<1>19. \A k \in 0..n : k \in S
  BY <1>17, <1>18, InductionTo
<1>20. f[N] = Done(n)
  BY <1>3, <1>19 DEF S
<1>21. Done(n) = [d \in 1..n |-> g[d][Len(W[d])]]
  <2>1. \A e \in 1..n : e <= n
    OBVIOUS
  <2>2. QED  BY <2>1
<1> HIDE DEF Done
<1>22. QED  BY <1>7, <1>15, <1>20, <1>21

\* A document on its own: its windows fit the model, and are written one by one.
LEMMA AloneIs ==
  ASSUME NEW budget \in Nat, NEW overlap \in Nat, NEW c \in Seq(1..budget)
  PROVE  \E P, windows :
           /\ windows = DocumentWindows(c, budget, overlap) /\ windows \in Seq(WindowsOf(c))
           /\ Words(c, P, budget, overlap) /\ AllFit(c, P, budget, overlap, windows)
<1>1. c \in Seq(Nat) /\ \A i \in 1..Len(c) : c[i] \in 1..budget
  OBVIOUS
<1>2. PICK P : Adds(P, c)
  BY <1>1, SumIs
<1>3. Words(c, P, budget, overlap)
  BY <1>1, <1>2 DEF Words
<1>4. PICK done : Reading(c, P, budget, overlap, done) /\ DocumentWindows(c, budget, overlap) = done.windows
  BY <1>3, DocumentWindowsAre
<1>5. done.windows \in Seq(WindowsOf(c)) /\ AllFit(c, P, budget, overlap, done.windows)
  BY <1>4 DEF Reading, Turns
<1>6. QED  BY <1>3, <1>4, <1>5

\* A window that fits the model has a length of the model.
LEMMA LengthIs ==
  ASSUME NEW c, NEW P, NEW budget \in 0..Budget, NEW overlap, Words(c, P, budget, overlap),
         NEW w \in WindowsOf(c), Fit(c, P, budget, overlap, w)
  PROVE  BucketOf(c, w) \in LengthBuckets /\ TokensOf(c, w) <= BucketOf(c, w)
<1>1. PICK a \in Nat, b \in Nat, r \in Nat, n \in Nat : a = w.start /\ b = w.end /\ r = w.right /\ n = Len(c)
  BY DEF WindowsOf, Words
<1>2. a + r <= b /\ b <= n /\ P[b] - P[a] <= budget
  BY <1>1 DEF Fit, WindowsOf
<1>3. a <= b
  BY <1>1, <1>2
<1>4. PartOf(c, P, a, b)
  <2>1. c \in Seq(Nat) /\ Adds(P, c)
    BY DEF Words
  <2>2. b <= Len(c)
    BY <1>1, <1>2
  <2>3. QED  BY <1>1, <1>3, <2>1, <2>2, PartAdds
<1>5. P[a] \in Nat /\ P[b] \in Nat
  <2>1. a \in 0..Len(c) /\ b \in 0..Len(c)
    BY <1>1, <1>2, <1>3
  <2>2. QED  BY <2>1 DEF Words, Adds
<1>6. PICK t \in Int : t = TokensOf(c, w) /\ t <= 8
  <2>1. TokensOf(c, w) = (P[b] - P[a]) + 2
    BY <1>1, <1>4 DEF PartOf, TokensOf
  <2>2. PICK x \in Nat, y \in Nat : x = P[a] /\ y = P[b]
    BY <1>5
  <2>3. (y - x) + 2 \in Int /\ (y - x) + 2 <= 8
    BY <1>2, <2>2 DEF Budget
  <2>4. QED  BY <2>1, <2>2, <2>3
<1> DEFINE S == {b1 \in LengthBuckets : b1 >= t}
<1>7. S \subseteq Nat /\ S # {}
  <2>1. 8 \in S
    BY <1>6 DEF LengthBuckets
  <2>2. QED  BY <2>1 DEF LengthBuckets
<1>8. BucketOf(c, w) = Smallest(S)
  BY <1>6 DEF BucketOf
<1> HIDE DEF S
<1>9. BucketOf(c, w) \in S
  BY <1>7, <1>8, SmallestIs
<1>10. PICK size \in LengthBuckets : size = BucketOf(c, w) /\ size >= t
  BY <1>9 DEF S
<1>11. t <= size
  BY <1>6, <1>10 DEF LengthBuckets
<1>12. QED  BY <1>6, <1>10, <1>11

Batched(documents, n, budget, overlap, prepared, buckets, N) ==
  /\ DOMAIN prepared = 1..N /\ buckets = [i \in 1..N |-> buckets[i]]
  /\ Written(documents, prepared) =
       [d \in 1..n |-> PredictWords(documents[d], DocumentWindows(documents[d], budget, overlap))]
  /\ \A i \in 1..N : /\ buckets[i] \in LengthBuckets
                     /\ TokensOf(documents[prepared[i].document], prepared[i].window) <= buckets[i]

LEMMA BatchOf ==
  ASSUME NEW n \in Nat, NEW budget \in 0..Budget, NEW overlap \in Nat, NEW m \in Nat \ {0},
         NEW documents \in Seq(Seq(1..budget)), n = Len(documents),
         NEW prepared, prepared = Prepared(documents, budget, overlap),
         NEW buckets, buckets = BucketsOf(documents, prepared)
  PROVE  \E N \in Nat : Batched(documents, n, budget, overlap, prepared, buckets, N)
<1> DEFINE W == [d \in 1..n |-> DocumentWindows(documents[d], budget, overlap)]
           Run(d, f) == WritesOf(documents[d], W[d], f) /\ PredictWords(documents[d], W[d]) = f[Len(W[d])]
           g == [d \in 1..n |-> CHOOSE f : Run(d, f)]
           A == UNION {WindowsOf(documents[d]) : d \in 1..n}
<1>1. DOMAIN documents = 1..n /\ budget \in Nat /\ \A d \in 1..n : documents[d] \in Seq(1..budget)
  OBVIOUS
<1>2. \A d \in 1..n : W[d] = DocumentWindows(documents[d], budget, overlap)
  OBVIOUS
<1>3. \A d \in 1..n : g[d] = CHOOSE f : Run(d, f)
  OBVIOUS
<1> HIDE DEF W
<1>4. ASSUME NEW d \in 1..n
      PROVE  \E P : /\ W[d] \in Seq(WindowsOf(documents[d]))
                    /\ Words(documents[d], P, budget, overlap) /\ AllFit(documents[d], P, budget, overlap, W[d])
  <2>1. PICK c \in Seq(1..budget) : c = documents[d]
    BY <1>1
  <2>2. \E P, windows :
          /\ windows = DocumentWindows(c, budget, overlap) /\ windows \in Seq(WindowsOf(c))
          /\ Words(c, P, budget, overlap) /\ AllFit(c, P, budget, overlap, windows)
    BY <1>1, AloneIs
  <2>3. QED  BY <1>2, <2>1, <2>2
<1>5. ASSUME NEW d \in 1..n PROVE Run(d, g[d])
  <2>1. PICK P : /\ W[d] \in Seq(WindowsOf(documents[d]))
                 /\ Words(documents[d], P, budget, overlap) /\ AllFit(documents[d], P, budget, overlap, W[d])
    BY <1>4
  <2>2. \E f : Run(d, f)
    BY <2>1, PredictWordsIs
  <2> HIDE DEF Run, g
  <2>3. QED  BY <1>3, <2>2
<1> HIDE DEF g
<1>6. EachWrites(documents, W, n, g)
  <2> SUFFICES ASSUME NEW d \in 1..n
               PROVE  /\ WritesOf(documents[d], W[d], g[d]) /\ Len(W[d]) \in Nat
                      /\ \A j \in 1..Len(W[d]) : \A out \in Labels(documents[d]) :
                           WriteWindow(documents[d], out, W[d][j]) \in Labels(documents[d])
    BY Zenon DEF EachWrites
  <2>1. PICK P : /\ W[d] \in Seq(WindowsOf(documents[d]))
                 /\ Words(documents[d], P, budget, overlap) /\ AllFit(documents[d], P, budget, overlap, W[d])
    BY <1>4
  <2>2. Len(W[d]) \in Nat
    BY <2>1
  <2>3. ASSUME NEW j \in 1..Len(W[d]), NEW out \in Labels(documents[d])
        PROVE  WriteWindow(documents[d], out, W[d][j]) \in Labels(documents[d])
    <3>1. W[d][j] \in WindowsOf(documents[d]) /\ Fit(documents[d], P, budget, overlap, W[d][j])
      BY <2>1 DEF AllFit
    <3>2. QED  BY <2>1, <3>1, WriteIs
  <2>4. QED  BY <1>5, <2>2, <2>3
<1>7. \A d \in 1..n : W[d] = DocumentWindows(documents[d], budget, overlap) /\ W[d] \in Seq(A)
  <2> TAKE d \in 1..n
  <2>1. W[d] \in Seq(WindowsOf(documents[d]))
    BY <1>4
  <2>2. WindowsOf(documents[d]) \subseteq A
    OBVIOUS
  <2> HIDE DEF A
  <2>3. QED  BY <1>2, <2>1, <2>2
<1> HIDE DEF A
<1>8. PICK at : LaidOut(W, n, at, prepared)
  <2>1. \E at : LaidOut(W, n, at, Prepared(documents, budget, overlap))
    BY <1>7, PreparedIs
  <2>2. QED  BY <2>1
<1>9. PICK N \in Nat : N = at[n] /\ DOMAIN prepared = 1..N
  BY <1>8 DEF LaidOut
<1>10. Written(documents, prepared) = [d \in 1..n |-> g[d][Len(W[d])]]
  BY <1>1, <1>6, <1>8, WrittenIs
<1>11. \A d \in 1..n : g[d][Len(W[d])] = PredictWords(documents[d], DocumentWindows(documents[d], budget, overlap))
  BY <1>2, <1>5
<1>12. Written(documents, prepared) =
         [d \in 1..n |-> PredictWords(documents[d], DocumentWindows(documents[d], budget, overlap))]
  BY <1>10, <1>11
<1>13. buckets = [i \in 1..N |-> BucketOf(documents[prepared[i].document], prepared[i].window)]
  BY <1>9 DEF BucketsOf
<1>14. ASSUME NEW i \in 1..N
       PROVE  /\ buckets[i] \in LengthBuckets
              /\ TokensOf(documents[prepared[i].document], prepared[i].window) <= buckets[i]
  <2>1. PICK d \in 1..n : \E j \in 1..Len(W[d]) : i = at[d - 1] + j
    BY <1>8, <1>9, Zenon DEF LaidOut
  <2>2. PICK j \in 1..Len(W[d]) : i = at[d - 1] + j
    BY <2>1
  <2>3. prepared[i] = Entry(W, d, j)
    BY <1>8, <2>2, Zenon DEF LaidOut
  <2>4. prepared[i].document = d /\ prepared[i].window = W[d][j]
    BY <2>3 DEF Entry
  <2>5. PICK P : /\ W[d] \in Seq(WindowsOf(documents[d]))
                 /\ Words(documents[d], P, budget, overlap) /\ AllFit(documents[d], P, budget, overlap, W[d])
    BY <1>4
  <2>6. W[d][j] \in WindowsOf(documents[d]) /\ Fit(documents[d], P, budget, overlap, W[d][j])
    BY <2>5 DEF AllFit
  <2>7. /\ BucketOf(documents[d], W[d][j]) \in LengthBuckets
        /\ TokensOf(documents[d], W[d][j]) <= BucketOf(documents[d], W[d][j])
    BY <2>5, <2>6, LengthIs
  <2>8. buckets[i] = BucketOf(documents[d], W[d][j])
    BY <1>13, <2>4
  <2>9. QED  BY <2>4, <2>7, <2>8
<1>15. buckets = [i \in 1..N |-> buckets[i]]
  BY <1>13
<1>16. Batched(documents, n, budget, overlap, prepared, buckets, N)
  BY <1>9, <1>12, <1>14, <1>15, Zenon DEF Batched
<1>17. QED  BY <1>16

\* word_predict_batch: however many documents come together, each gets the labels it gets alone;
\* every window is predicted once, in a batch of windows of one length that they fit.
THEOREM BatchesLabelAlike ==
  ASSUME input.budget \in 0..Budget, input.overlap \in Nat, input.maxBatch \in Nat \ {0},
         input.documents \in Seq(Seq(1..input.budget))
  PROVE  BatchingChangesNothing
<1>1. PICK budget \in 0..Budget, overlap \in Nat, m \in Nat \ {0} :
        budget = input.budget /\ overlap = input.overlap /\ m = input.maxBatch
  OBVIOUS
<1>2. PICK documents \in Seq(Seq(1..budget)) : documents = input.documents
  BY <1>1
<1>3. PICK n \in Nat : n = Len(documents) /\ DOMAIN documents = 1..n
  OBVIOUS
<1>4. PICK prepared : prepared = Prepared(documents, budget, overlap)
  OBVIOUS
<1>5. PICK buckets : buckets = BucketsOf(documents, prepared)
  OBVIOUS
<1>6. PICK batches : batches = Batches(buckets, m)
  OBVIOUS
<1> DEFINE Alone(c) == PredictWords(c, DocumentWindows(c, budget, overlap))
           FitsIn(i, size) ==
             buckets[i] = size /\ TokensOf(documents[prepared[i].document], prepared[i].window) <= size
<1>7a. PICK N \in Nat : Batched(documents, n, budget, overlap, prepared, buckets, N)
  BY <1>3, <1>4, <1>5, BatchOf
<1>7. /\ DOMAIN prepared = 1..N /\ buckets = [i \in 1..N |-> buckets[i]]
      /\ Written(documents, prepared) = [d \in 1..n |-> Alone(documents[d])]
      /\ \A i \in 1..N : buckets[i] \in LengthBuckets /\ FitsIn(i, buckets[i])
  BY <1>7a, Zenon DEF Batched
<1> HIDE DEF FitsIn, Alone
<1>8. Grouped(buckets, N, m, batches)
  BY <1>6, <1>7, BatchesGroup
<1>9. /\ \A B \in batches : /\ Len(B) \in 1..m /\ ToSet(B) # {}
                            /\ \A i \in ToSet(B) : i \in 1..N /\ \A j \in ToSet(B) : buckets[i] = buckets[j]
      /\ \A i \in 1..N : /\ \E B \in batches : i \in ToSet(B)
                         /\ \A B, C \in batches : i \in ToSet(B) /\ i \in ToSet(C) => B = C
  BY <1>8, Zenon DEF Grouped
<1>10. WordPredictBatch(documents, budget, overlap, m) = {[d \in DOMAIN documents |-> Alone(documents[d])]}
  <2>1. \A i \in DOMAIN prepared : \E B \in batches : i \in ToSet(B)
    BY <1>7, <1>9
  <2>2. WordPredictBatch(documents, budget, overlap, m) =
          IF \A i \in DOMAIN prepared : \E B \in batches : i \in ToSet(B)
          THEN {Written(documents, prepared)} ELSE {}
    BY <1>4, <1>5, <1>6 DEF WordPredictBatch
  <2>3. WordPredictBatch(documents, budget, overlap, m) = {Written(documents, prepared)}
    BY <2>1, <2>2, Zenon
  <2>4. QED  BY <1>3, <1>7, <2>3
<1>11. ASSUME NEW i \in DOMAIN prepared PROVE Cardinality({B \in batches : i \in ToSet(B)}) = 1
  <2>1. PICK B \in batches : i \in ToSet(B)
    BY <1>7, <1>9
  <2>2. {C \in batches : i \in ToSet(C)} = {B}
    BY <1>7, <1>9, <2>1
  <2>3. QED  BY <2>2, FS_Singleton
<1>12. ASSUME NEW B \in batches
       PROVE  Len(B) \in 1..m /\ \E size \in LengthBuckets : \A i \in ToSet(B) : FitsIn(i, size)
  <2>1. PICK k : k \in ToSet(B)
    BY <1>9
  <2>2. \A i \in ToSet(B) : i \in 1..N /\ buckets[i] = buckets[k]
    BY <1>9, <2>1
  <2>3. buckets[k] \in LengthBuckets /\ \A i \in ToSet(B) : FitsIn(i, buckets[k])
    BY <1>7, <2>1, <2>2
  <2>4. QED  BY <1>9, <2>3
<1>13. QED  BY <1>1, <1>2, <1>4, <1>5, <1>6, <1>10, <1>11, <1>12, ZenonT(60) DEF BatchingChangesNothing, Alone, FitsIn

-----------------------------------------------------------------------------
(* Contexts of captured graphs.                                            *)

\* what running shapes of A on the contexts C may leave
Held(C, A) == {X \in SUBSET (C \cup A) : C \subseteq X /\ IsFiniteSet(X) /\ Cardinality(X) <= MaxContexts}
Roomy(C, A) ==
  /\ \A X \in SUBSET (C \cup A) : IsFiniteSet(X) /\ Cardinality(X) < MaxContexts
  /\ \A s \in A : s[1] # 1

LEMMA RunBatchIs ==
  ASSUME NEW C, NEW A, NEW X \in Held(C, A), NEW s \in A
  PROVE  /\ RunBatch(X, s) \in Held(C, A) /\ X \subseteq RunBatch(X, s)
         /\ Roomy(C, A) => s \in RunBatch(X, s)
<1>1. X \in SUBSET (C \cup A) /\ C \subseteq X /\ IsFiniteSet(X) /\ Cardinality(X) <= MaxContexts
  BY DEF Held
<1>2. CASE s[1] = 1 \/ Cardinality(X) >= MaxContexts
  <2>1. RunBatch(X, s) = X
    BY <1>2 DEF RunBatch
  <2>2. ~Roomy(C, A)
    <3>1. CASE s[1] = 1
      BY <3>1 DEF Roomy
    <3>2. CASE Cardinality(X) >= MaxContexts
      <4>1. PICK n \in Nat : n = Cardinality(X)
        BY <1>1, FS_CardinalityType
      <4>2. ~(n < MaxContexts)
        BY <3>2, <4>1 DEF MaxContexts
      <4>3. QED  BY <1>1, <4>1, <4>2 DEF Roomy
    <3>3. QED  BY <1>2, <3>1, <3>2
  <2>3. QED  BY <2>1, <2>2
<1>3. CASE ~(s[1] = 1 \/ Cardinality(X) >= MaxContexts)
  <2>1. RunBatch(X, s) = X \cup {s}
    BY <1>3 DEF RunBatch
  <2>2. IsFiniteSet(X \cup {s}) /\ Cardinality(X \cup {s}) \in {Cardinality(X), Cardinality(X) + 1}
    BY <1>1, FS_AddElement
  <2>3. Cardinality(X \cup {s}) <= MaxContexts
    <3>1. PICK n, m : n \in Nat /\ n = Cardinality(X) /\ m = Cardinality(X \cup {s})
      BY <1>1, FS_CardinalityType
    <3>2. m \in {n, n + 1} /\ ~(n >= MaxContexts)
      BY <1>3, <2>2, <3>1
    <3>3. m <= MaxContexts
      BY <3>1, <3>2 DEF MaxContexts
    <3>4. QED  BY <3>1, <3>3
  <2>4. X \cup {s} \in SUBSET (C \cup A) /\ C \subseteq X \cup {s}
    BY <1>1
  <2>5. X \cup {s} \in Held(C, A)
    BY <2>2, <2>3, <2>4 DEF Held
  <2>6. QED  BY <2>1, <2>5
<1>4. QED  BY <1>2, <1>3

LEMMA RunBatchesIs ==
  ASSUME NEW C, NEW A, C \in Held(C, A), NEW shapes \in Seq(A)
  PROVE  /\ RunBatches(C, shapes) \in Held(C, A)
         /\ Roomy(C, A) => \A i \in 1..Len(shapes) : shapes[i] \in RunBatches(C, shapes)
<1>1. PICK n \in Nat : n = Len(shapes)
  OBVIOUS
<1>2. \A i \in 1..n : shapes[i] \in A
  BY <1>1
<1> DEFINE D == Held(C, A)
           run == [x \in (1..n) \X D |-> RunBatch(x[2], shapes[x[1]])]
           step(g) == [i \in 0..n |-> IF i = 0 THEN C ELSE RunBatch(g[i - 1], shapes[i])]
           after == CHOOSE g : g = step(g)
<1> HIDE DEF D
<1>3. ASSUME NEW i \in 1..n, NEW X \in D
      PROVE  /\ RunBatch(X, shapes[i]) \in D /\ X \subseteq RunBatch(X, shapes[i])
             /\ Roomy(C, A) => shapes[i] \in RunBatch(X, shapes[i])
  BY <1>2, RunBatchIs DEF D
<1>4. StepOn(n, D, run)
  BY <1>3 DEF StepOn
<1>5. Repeats(n, D, C, run)
  <2>1. C \in D
    BY DEF D
  <2> HIDE DEF run
  <2>2. QED  BY <1>4, <2>1, Iterated
<1>6. PICK f \in [0..n -> D] : f[0] = C /\ \A i \in 1..n : f[i] = run[<<i, f[i - 1]>>]
  <2> HIDE DEF run
  <2>1. QED  BY <1>5 DEF Repeats
<1>7. \A i \in 1..n : f[i] = RunBatch(f[i - 1], shapes[i])
  <2> TAKE i \in 1..n
  <2>1. <<i, f[i - 1]>> \in (1..n) \X D
    OBVIOUS
  <2>2. run[<<i, f[i - 1]>>] = RunBatch(f[i - 1], shapes[i])
    BY <2>1
  <2> HIDE DEF run
  <2>3. QED  BY <1>6, <2>2
<1> HIDE DEF run
<1>8. f = step(f)
  <2>1. \A i \in 0..n : f[i] = IF i = 0 THEN C ELSE RunBatch(f[i - 1], shapes[i])
    BY <1>6, <1>7
  <2>2. QED  BY <2>1
<1>9. after = step(after)
  <2>1. \E g : g = step(g)
    BY <1>8
  <2> HIDE DEF step
  <2>2. QED  BY <2>1
<1>10. RunBatches(C, shapes) = after[n]
  BY <1>1 DEF RunBatches
<1> HIDE DEF after
<1>11. after[0] = C /\ \A i \in 1..n : after[i] = RunBatch(after[i - 1], shapes[i])
  BY <1>9
<1> HIDE DEF step
<1> DEFINE S == {k \in 0..n : after[k] = f[k] /\ (Roomy(C, A) => \A i \in 1..k : shapes[i] \in f[k])}
<1>12. 0 \in S
  BY <1>6, <1>11
<1>13. ASSUME NEW k \in 0..(n - 1), k \in S PROVE k + 1 \in S
  <2>1. k + 1 \in 1..n /\ k + 1 \in 0..n /\ (k + 1) - 1 = k /\ k \in 0..n
    OBVIOUS
  <2>2. after[k + 1] = f[k + 1] /\ f[k + 1] = RunBatch(f[k], shapes[k + 1])
    BY <1>7, <1>11, <1>13, <2>1
  <2>3. f[k] \subseteq f[k + 1] /\ (Roomy(C, A) => shapes[k + 1] \in f[k + 1])
    BY <1>3, <2>1, <2>2
  <2>4. ASSUME Roomy(C, A), NEW i \in 1..(k + 1) PROVE shapes[i] \in f[k + 1]
    <3>1. i \in 1..k \/ i = k + 1
      OBVIOUS
    <3>2. QED  BY <1>13, <2>3, <2>4, <3>1
  <2>5. QED  BY <2>1, <2>2, <2>4
<1> HIDE DEF S
<1>14. \A i \in 0..n : i \in S
  BY <1>12, <1>13, InductionTo
<1>15. n \in S /\ n \in 0..n
  BY <1>14
<1>16. after[n] \in D /\ (Roomy(C, A) => \A i \in 1..n : shapes[i] \in after[n])
  BY <1>15 DEF S
<1>17. QED  BY <1>1, <1>10, <1>16 DEF D

\* The graphs of short documents and one more fit under the cap.
LEMMA WarmFit ==
  ASSUME NEW maxBatch \in Nat
  PROVE  /\ \A X \in SUBSET WarmShapes(maxBatch) : IsFiniteSet(X) /\ Cardinality(X) < MaxContexts
         /\ \A s \in WarmShapes(maxBatch) : s[1] # 1
<1> DEFINE B == {2, 4, 8, 16, 32}
           L == {32, 64}
<1>1. ToSet(WarmSizes) = B
  BY DEF WarmSizes, ToSet
<1>2. IsFiniteSet(B) /\ Cardinality(B) = 5
  <2>1. IsFiniteSet({2}) /\ Cardinality({2}) = 1
    BY FS_Singleton
  <2>2. IsFiniteSet({2} \cup {4}) /\ Cardinality({2} \cup {4}) = 2
    BY <2>1, FS_AddElement
  <2>3. IsFiniteSet({2} \cup {4} \cup {8}) /\ Cardinality({2} \cup {4} \cup {8}) = 3
    BY <2>2, FS_AddElement
  <2>4. IsFiniteSet({2} \cup {4} \cup {8} \cup {16}) /\ Cardinality({2} \cup {4} \cup {8} \cup {16}) = 4
    BY <2>3, FS_AddElement
  <2>5. /\ IsFiniteSet({2} \cup {4} \cup {8} \cup {16} \cup {32})
        /\ Cardinality({2} \cup {4} \cup {8} \cup {16} \cup {32}) = 5
    BY <2>4, FS_AddElement
  <2>6. B = {2} \cup {4} \cup {8} \cup {16} \cup {32}
    OBVIOUS
  <2> HIDE DEF B
  <2>7. QED  BY <2>5, <2>6
<1>3. IsFiniteSet(L) /\ Cardinality(L) = 2
  <2>1. IsFiniteSet({32}) /\ Cardinality({32}) = 1
    BY FS_Singleton
  <2>2. IsFiniteSet({32} \cup {64}) /\ Cardinality({32} \cup {64}) = 2
    BY <2>1, FS_AddElement
  <2>3. L = {32} \cup {64}
    OBVIOUS
  <2> HIDE DEF L
  <2>4. QED  BY <2>2, <2>3
<1>4. WarmShapes(maxBatch) \subseteq B \X L
  BY <1>1 DEF WarmShapes
<1>5. \A s \in B \X L : s[1] # 1
  OBVIOUS
<1> HIDE DEF B, L
<1>6. IsFiniteSet(B \X L) /\ Cardinality(B \X L) = Cardinality(B) * Cardinality(L)
  BY <1>2, <1>3, FS_Product
<1>7. Cardinality(B \X L) = 10
  <2>1. 5 * 2 = 10
    OBVIOUS
  <2>2. QED  BY <1>2, <1>3, <1>6, <2>1
<1>8. ASSUME NEW X \in SUBSET WarmShapes(maxBatch) PROVE IsFiniteSet(X) /\ Cardinality(X) < MaxContexts
  <2>1. X \in SUBSET (B \X L)
    BY <1>4
  <2>2. IsFiniteSet(X) /\ Cardinality(X) <= Cardinality(B \X L)
    BY <1>6, <2>1, FS_Subset
  <2>3. PICK n \in Nat : n = Cardinality(X)
    BY <2>2, FS_CardinalityType
  <2>4. n <= 10
    BY <1>7, <2>2, <2>3
  <2>5. n < MaxContexts
    BY <2>4 DEF MaxContexts
  <2>6. QED  BY <2>2, <2>3, <2>5
<1>9. QED  BY <1>4, <1>5, <1>8

\* The warmup captures the graphs of all its shapes.
LEMMA WarmupIs ==
  ASSUME NEW maxBatch \in Nat
  PROVE  WarmupBatches(maxBatch) = WarmShapes(maxBatch)
<1> DEFINE W == WarmShapes(maxBatch)
           D == SUBSET W
           size(i) == WarmSizes[i]
           pair(i) == << <<size(i), 32>>, <<size(i), 64>> >>
           turn(X, i) == IF size(i) > maxBatch THEN X ELSE RunBatches(X, pair(i))
           warm == [x \in (1..5) \X D |-> turn(x[2], x[1])]
           step(g) == [i \in 0..5 |-> IF i = 0 THEN {} ELSE turn(g[i - 1], i)]
           after == CHOOSE g : g = step(g)
<1>1. Len(WarmSizes) = 5 /\ (\A i \in 1..5 : size(i) \in {2, 4, 8, 16, 32})
      /\ \A x \in {2, 4, 8, 16, 32} : \E i \in 1..5 : x = size(i)
  BY DEF WarmSizes
<1>2. W = {s \in {2, 4, 8, 16, 32} \X {32, 64} : s[1] <= maxBatch}
  <2>1. ToSet(WarmSizes) = {2, 4, 8, 16, 32}
    BY DEF WarmSizes, ToSet
  <2>2. QED  BY <2>1 DEF WarmShapes
<1> HIDE DEF W, size
<1>3. ASSUME NEW i \in 1..5, size(i) <= maxBatch PROVE <<size(i), 32>> \in W /\ <<size(i), 64>> \in W
  <2>1. PICK x \in {2, 4, 8, 16, 32} : x = size(i)
    BY <1>1
  <2>2. <<x, 32>> \in W /\ <<x, 64>> \in W
    BY <1>2, <1>3, <2>1
  <2>3. QED  BY <2>1, <2>2
<1>4. ASSUME NEW i \in 1..5, NEW X \in D
      PROVE  /\ turn(X, i) \in D /\ X \subseteq turn(X, i)
             /\ size(i) <= maxBatch => <<size(i), 32>> \in turn(X, i) /\ <<size(i), 64>> \in turn(X, i)
  <2>0. PICK x \in Nat : x = size(i)
    BY <1>1
  <2>1. CASE x > maxBatch
    <3>1. turn(X, i) = X /\ ~(size(i) <= maxBatch)
      BY <2>0, <2>1
    <3>2. QED  BY <3>1
  <2>2. CASE ~(x > maxBatch)
    <3>1. size(i) <= maxBatch /\ turn(X, i) = RunBatches(X, pair(i))
      BY <2>0, <2>2
    <3>2. pair(i) \in Seq(W) /\ Len(pair(i)) = 2
      BY <1>3, <3>1
    <3>3. X \cup W = W
      OBVIOUS
    <3>4. \A Y \in SUBSET W : IsFiniteSet(Y) /\ Cardinality(Y) < MaxContexts
      BY WarmFit DEF W
    <3>5. \A s \in W : s[1] # 1
      BY WarmFit DEF W
    <3>6. Roomy(X, W)
      BY <3>3, <3>4, <3>5 DEF Roomy
    <3>7. X \in Held(X, W)
      <4>1. IsFiniteSet(X) /\ Cardinality(X) < MaxContexts
        BY <3>4
      <4>2. PICK n \in Nat : n = Cardinality(X)
        BY <4>1, FS_CardinalityType
      <4>3. n <= MaxContexts
        BY <4>1, <4>2 DEF MaxContexts
      <4>4. QED  BY <4>1, <4>2, <4>3 DEF Held
    <3> DEFINE Y == RunBatches(X, pair(i))
    <3>8. Y \in Held(X, W) /\ \A k \in 1..Len(pair(i)) : pair(i)[k] \in Y
      <4> HIDE DEF pair
      <4>1. QED  BY <3>2, <3>6, <3>7, RunBatchesIs
    <3> HIDE DEF Y
    <3>9. pair(i)[1] \in Y /\ pair(i)[2] \in Y
      BY <3>2, <3>8
    <3>10. <<size(i), 32>> \in Y /\ <<size(i), 64>> \in Y
      BY <3>9
    <3>11. Y \in D /\ X \subseteq Y
      BY <3>3, <3>8 DEF Held
    <3>12. QED  BY <3>1, <3>10, <3>11 DEF Y
  <2>3. QED  BY <2>1, <2>2
<1>5. WarmupBatches(maxBatch) = after[5]
  BY <1>1 DEF WarmupBatches, size
<1> HIDE DEF pair, turn, D
<1>6. StepOn(5, D, warm)
  BY <1>4 DEF StepOn
<1>7. Repeats(5, D, {}, warm)
  <2>1. {} \in D
    BY DEF D
  <2> HIDE DEF warm
  <2>2. QED  BY <1>6, <2>1, Iterated
<1>8. PICK f \in [0..5 -> D] : f[0] = {} /\ \A i \in 1..5 : f[i] = warm[<<i, f[i - 1]>>]
  <2> HIDE DEF warm
  <2>1. QED  BY <1>7 DEF Repeats
<1>9. \A i \in 1..5 : f[i] = turn(f[i - 1], i)
  <2> TAKE i \in 1..5
  <2>1. <<i, f[i - 1]>> \in (1..5) \X D
    OBVIOUS
  <2>2. warm[<<i, f[i - 1]>>] = turn(f[i - 1], i)
    BY <2>1
  <2> HIDE DEF warm
  <2>3. QED  BY <1>8, <2>2
<1> HIDE DEF warm
<1>10. f = step(f)
  <2>1. \A i \in 0..5 : f[i] = IF i = 0 THEN {} ELSE turn(f[i - 1], i)
    BY <1>8, <1>9
  <2>2. QED  BY <2>1
<1>11. after = step(after)
  <2>1. \E g : g = step(g)
    BY <1>10
  <2> HIDE DEF step
  <2>2. QED  BY <2>1
<1> HIDE DEF after
<1>12. after[0] = {} /\ \A i \in 1..5 : after[i] = turn(after[i - 1], i)
  BY <1>11
<1> HIDE DEF step
<1> DEFINE Has(X, k) == \A i \in 1..k : size(i) <= maxBatch => <<size(i), 32>> \in X /\ <<size(i), 64>> \in X
           S == {k \in 0..5 : after[k] = f[k] /\ Has(f[k], k)}
<1>13. 0 \in S
  BY <1>8, <1>12
<1>14. ASSUME NEW k \in 0..4, k \in S PROVE k + 1 \in S
  <2>1. k + 1 \in 1..5 /\ k + 1 \in 0..5 /\ (k + 1) - 1 = k /\ k \in 0..5
    OBVIOUS
  <2>2. after[k + 1] = f[k + 1] /\ f[k + 1] = turn(f[k], k + 1)
    BY <1>9, <1>12, <1>14, <2>1
  <2>3. f[k] \subseteq f[k + 1]
    BY <1>4, <2>1, <2>2
  <2>4. ASSUME NEW i \in 1..(k + 1), size(i) <= maxBatch
        PROVE  <<size(i), 32>> \in f[k + 1] /\ <<size(i), 64>> \in f[k + 1]
    <3>1. CASE i = k + 1
      BY <1>4, <2>1, <2>2, <2>4, <3>1
    <3>2. CASE i \in 1..k
      <4>1. <<size(i), 32>> \in f[k] /\ <<size(i), 64>> \in f[k]
        BY <1>14, <2>4, <3>2
      <4>2. QED  BY <2>3, <4>1
    <3>3. QED  BY <3>1, <3>2
  <2>5. QED  BY <2>1, <2>2, <2>4
<1> HIDE DEF S
<1>15. \A i \in 0..5 : i \in S
  BY <1>13, <1>14, InductionTo
<1>16. after[5] \in D /\ Has(after[5], 5)
  BY <1>15 DEF S
<1>17. W \subseteq after[5]
  <2> SUFFICES ASSUME NEW s \in W PROVE s \in after[5]
    OBVIOUS
  <2>1. PICK x \in {2, 4, 8, 16, 32}, y \in {32, 64} : s = <<x, y>> /\ x <= maxBatch
    BY <1>2
  <2>2. PICK i \in 1..5 : x = size(i)
    BY <1>1
  <2>3. <<x, 32>> \in after[5] /\ <<x, 64>> \in after[5]
    BY <1>16, <2>1, <2>2
  <2>4. QED  BY <2>1, <2>3
<1>18. after[5] = W
  BY <1>16, <1>17 DEF D
<1>19. QED  BY <1>5, <1>18 DEF W

\* BatchGraphBackend.run, _warmup_batches: whatever batches come, and however many, the graphs
\* the warmup captured stay and no more than the cap are captured.
THEOREM WarmGraphsAreKept ==
  ASSUME input.shapes \in Seq(BatchBuckets \X GraphLengths)
  PROVE  WarmGraphsStay
<1> DEFINE C == WarmupBatches(32)
           A == BatchBuckets \X GraphLengths
<1>1. C = WarmShapes(32)
  BY WarmupIs
<1>2. IsFiniteSet(C) /\ Cardinality(C) < MaxContexts
  BY <1>1, WarmFit
<1>3. C \in Held(C, A)
  <2>1. PICK n \in Nat : n = Cardinality(C)
    BY <1>2, FS_CardinalityType
  <2>2. n <= MaxContexts
    BY <1>2, <2>1 DEF MaxContexts
  <2>3. QED  BY <1>2, <2>1, <2>2 DEF Held
<1> HIDE DEF C, A
<1>4. RunBatches(C, input.shapes) \in Held(C, A)
  BY <1>3, RunBatchesIs DEF A
<1>5. WarmShapes(32) \subseteq RunBatches(C, input.shapes)
      /\ Cardinality(RunBatches(C, input.shapes)) <= MaxContexts
  BY <1>1, <1>4 DEF Held
<1>6. QED  BY <1>5 DEF C, WarmGraphsStay

-----------------------------------------------------------------------------
(* Chunks, windows, batches and graphs together.                           *)

\* What the code refuses, or cannot meet: chunks no longer than what they share, words wider
\* than a window.
WellCut ==
  /\ Given("chunks") =>
       /\ input.length \in Nat /\ input.size \in Nat /\ input.longest \in Nat
       /\ ChunkOverlap(input.longest) < input.size
       /\ input.entity \in Nat \X Nat /\ input.entity[1] < input.entity[2]
       /\ input.entity[2] <= input.length /\ input.entity[2] - input.entity[1] <= input.longest
  /\ Given("windows") =>
       input.budget \in Nat /\ input.overlap \in Nat /\ input.counts \in Seq(0..input.budget)
  /\ Given("batch") =>
       /\ input.budget \in 0..Budget /\ input.overlap \in Nat /\ input.maxBatch \in Nat \ {0}
       /\ input.documents \in Seq(Seq(1..input.budget))
  /\ Given("graphs") => input.shapes \in Seq(BatchBuckets \X GraphLengths)

\* However a text is cut for the model, and whatever it is cut and batched with, it gets the
\* entities and labels it would get whole.
THEOREM WindowsAreSound ==
  ASSUME WellCut
  PROVE  WindowsSound
<1>1. ChunksFindWhole
  <2>1. CASE Given("chunks")
    BY <2>1, EntitiesFoundWhole DEF WellCut
  <2>2. CASE ~Given("chunks")
    BY <2>2, Zenon DEF ChunksFindWhole
  <2>3. QED  BY <2>1, <2>2
<1>2. LabelledInContext
  <2>1. CASE Given("windows")
    BY <2>1, WordsLabelledInContext DEF WellCut
  <2>2. CASE ~Given("windows")
    BY <2>2, Zenon DEF LabelledInContext
  <2>3. QED  BY <2>1, <2>2
<1>3. BatchingChangesNothing
  <2>1. CASE Given("batch")
    BY <2>1, BatchesLabelAlike DEF WellCut
  <2>2. CASE ~Given("batch")
    BY <2>2, Zenon DEF BatchingChangesNothing
  <2>3. QED  BY <2>1, <2>2
<1>4. WarmGraphsStay
  <2>1. CASE Given("graphs")
    BY <2>1, WarmGraphsAreKept DEF WellCut
  <2>2. CASE ~Given("graphs")
    BY <2>2, Zenon DEF WarmGraphsStay
  <2>3. QED  BY <2>1, <2>2
<1>5. QED  BY <1>1, <1>2, <1>3, <1>4, Zenon DEF WindowsSound
=============================================================================
