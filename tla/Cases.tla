-------------------------------- MODULE Cases --------------------------------
\* The pure functions of the detector and the models are checked case by case: a
\* behaviour picks the input of one of them, and the invariants speak of that input.
EXTENDS Integers, FiniteSets, Sequences, SequencesExt

\* input: the case under test, a record whose alg names the function
VARIABLE input

NoCase == [alg |-> "none"]
Given(alg) == input.alg = alg

Try(cases) ==
  /\ input = NoCase
  /\ input' \in cases

\* x comes before y, compared number by number
LexLess(x, y) == \E i \in 1..Len(x) : x[i] < y[i] /\ \A j \in 1..(i - 1) : x[j] = y[j]

\* the members of S by increasing Key, a list of numbers that tells them apart
SortedBy(S, Key(_)) ==
  [i \in 1..Cardinality(S) |->
     CHOOSE x \in S : Cardinality({y \in S : LexLess(Key(y), Key(x))}) = i - 1]

Biggest(S) == CHOOSE x \in S : \A y \in S : x >= y
Smallest(S) == CHOOSE x \in S : \A y \in S : x <= y

\* --- texts: sequences of characters, each standing for its class, offsets from 0 ---
\* "a" a letter, "n" a digit, "k" a one-letter address designator, "m" a combining mark
Alnum == {"a", "n", "k"}
CharAt(text, i) == text[i + 1]
Covers(s, i) == s.start <= i /\ i < s.end
Letters(text, s) == {i \in s.start..(s.end - 1) : CharAt(text, i) \in Alnum}

\* the interval around the offsets of S, an empty one at none if there are none
Hull(S, none) == IF S = {} THEN <<none, none>> ELSE <<Smallest(S), Biggest(S) + 1>>

\* the offsets without the characters of Drop at both ends: <<start, end>>
TrimEnds(text, start, end, Drop) ==
  Hull({i \in start..(end - 1) : CharAt(text, i) \notin Drop}, end)

\* every nonempty interval of n characters
Intervals(n) == {p \in (0..n) \X (0..n) : p[1] < p[2]}
SubsetsUpTo(S, n) == {T \in UNION {{{}}, {{x} : x \in S}, {{x, y} : x, y \in S},
                                   IF n < 3 THEN {} ELSE {{x, y, z} : x, y, z \in S}} :
                        Cardinality(T) <= n}
=============================================================================
