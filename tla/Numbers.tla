-------------------------------- MODULE Numbers --------------------------------
\* The values of numbers: check digits of cards and tax numbers, calendar dates in the
\* detector and in labelled fields, and dates in words (src/seif/detector.py,
\* src/seif/structured_fields.py).  A number is the sequence of its digits, a date the
\* numbers of its text in their order and the month named in it, 0 for none.
EXTENDS Cases

SumOver(S, f(_)) == MapThenSumSet(f, S)
TwoDigitsDiffer(d) == \E i \in 1..Len(d) : d[i] # d[1]

Doubled(d) == 2 * d - IF d >= 5 THEN 9 ELSE 0

\* every second digit is doubled, so that the last one is not
Luhn(d) ==
  LET n == Len(d)
      part(i) == IF (i - 1) % 2 = n % 2 THEN Doubled(d[i]) ELSE d[i]
  IN  n \in 13..19 /\ TwoDigitsDiffer(d) /\ SumOver(1..n, part) % 10 = 0

InnWeights == <<2, 4, 10, 3, 5, 9, 4, 6, 8>>

InnCheck(d, weights) == LET part(i) == d[i] * weights[i] IN (SumOver(DOMAIN weights, part) % 11) % 10

ValidInn(d) ==
  /\ TwoDigitsDiffer(d)
  /\ \/ Len(d) = 10 /\ InnCheck(d, InnWeights) = d[10]
     \/ Len(d) = 12 /\ InnCheck(d, <<7>> \o InnWeights) = d[11]
                    /\ InnCheck(d, <<3, 7>> \o InnWeights) = d[12]

-----------------------------------------------------------------------------
(* Dates.                                                                  *)

Leap(year) == year % 4 = 0 /\ (year % 100 # 0 \/ year % 400 = 0)
LastDay(year, month) ==
  CASE month = 2 -> IF Leap(year) THEN 29 ELSE 28 [] month \in {4, 6, 9, 11} -> 30 [] OTHER -> 31
\* datetime.date accepts these numbers
Date(year, month, day) == month \in 1..12 /\ day \in 1..LastDay(year, month)
RealDate(options) == \E o \in options : o[1] \in 1800..2100 /\ Date(o[1], o[2], o[3])
FirstOf(numbers, Fits(_)) ==
  LET fitting == SelectSeq(numbers, Fits) IN IF fitting = <<>> THEN 0 ELSE fitting[1]

\* detector._valid_date: the year has four digits
ValidDate(numbers, month) ==
  LET year == FirstOf(numbers, LAMBDA n : n >= 1000)
      day == FirstOf(numbers, LAMBDA n : n < 1000)
      a == IF numbers[1] >= 1000 THEN numbers[2] ELSE numbers[1]
      b == IF numbers[1] >= 1000 THEN numbers[3] ELSE numbers[2]
      y == IF numbers[1] >= 1000 THEN numbers[1] ELSE numbers[3]
  IN  CASE month # 0 -> RealDate({<<year, month, day>>})
        [] month = 0 /\ Len(numbers) = 3 -> RealDate({<<y, b, a>>, <<y, a, b>>})
        [] OTHER -> FALSE

FullYear(year) == IF year < 100 THEN year + 2000 ELSE year

\* structured_fields: the year may be short or missing; 2000 has every day
DateOptions(numbers, month) ==
  LET n == Len(numbers)
      both(year, a, b) == {<<year, a, b>>, <<year, b, a>>}
  IN  CASE month # 0 /\ n = 1 -> {<<2000, month, numbers[1]>>}
        [] month # 0 /\ n = 2 -> {<<FullYear(numbers[2]), month, numbers[1]>>}
        [] month = 0 /\ n = 2 -> both(2000, numbers[1], numbers[2])
        [] month = 0 /\ n = 3 -> IF numbers[1] >= 1000 THEN both(numbers[1], numbers[2], numbers[3])
                                 ELSE both(FullYear(numbers[3]), numbers[1], numbers[2])
        [] OTHER -> {}
ValidFieldDate(numbers, month) == RealDate(DateOptions(numbers, month))

\* --- numbers in words: an ordinal, or tens and an ordinal ---
Tens == {20, 30, 40, 50, 60, 70, 80, 90}
Ordinals == 1..20 \cup Tens

Units == 1..9

WrittenOrdinal(words) ==
  CASE Len(words) = 1 -> IF words[1] \in Ordinals THEN words[1] ELSE 0
    [] Len(words) = 2 /\ words[2] \in Units -> words[1] + words[2]
    [] OTHER -> 0

\* base is 1800, 1900 or 2000, with a remainder or without
ValidWrittenDate(day, month, base, remainder) ==
  /\ remainder = <<>> \/ WrittenOrdinal(remainder) # 0
  /\ Date(base + IF remainder = <<>> THEN 0 ELSE WrittenOrdinal(remainder), month, WrittenOrdinal(day))

\* --- labelled dates: tokens "w", "public" and "poet" and "client" for owners, "unknown",
\* "field" for the name of another date, ".", ":", "date" and "bad" for a date and a wrong one ---
Clause(before) == LET ends == {i \in 1..Len(before) : before[i] = "."}
                  IN  IF ends = {} THEN before ELSE SubSeq(before, Biggest(ends) + 1, Len(before))
AnyOf(tokens, S) == \E i \in 1..Len(tokens) : tokens[i] \in S

PersonalDateOwner(before, owner) ==
  LET clause == Clause(before \o owner)
  IN  /\ ~AnyOf(owner, {"unknown", "field"})
      /\ AnyOf(owner, {"public", "poet"}) \/ AnyOf(clause, {"poet"}) => AnyOf(clause, {"client"})

\* words up to a colon qualify the label; without one the value follows at once
FieldPrefix(after) ==
  LET colons == {i \in 1..Len(after) : after[i] = ":" /\ \A j \in 1..(i - 1) : after[j] \notin {".", "date", "bad", ":"}}
  IN  IF colons = {} THEN <<>> ELSE SubSeq(after, 1, Smallest(colons))

LabelledDate(before, after) ==
  LET prefix == FieldPrefix(after)
      at == Len(prefix) + 1
  IN  PersonalDateOwner(before, prefix) /\ at <= Len(after) /\ after[at] = "date"

-----------------------------------------------------------------------------
\* Bounds: cards of thirteen to sixteen digits and tax numbers, three digits of which vary;
\* the days and months around each limit in years around each limit; all numbers in words.
Digits == 0..9
Cards == {SubSeq(<<4, 1, 2, 7, 5, 3, 0, 9, 8, 6, 2, 5, 1>>, 1, n - 3) \o v :
            n \in 13..16, v \in Digits \X Digits \X Digits}
Inns == {SubSeq(<<7, 0, 4, 1, 6, 9, 2, 8, 5>>, 1, n) \o v : n \in {7, 9}, v \in Digits \X Digits \X Digits}
CheckCases == {[alg |-> "check", digits |-> d, valid |-> Luhn(d) \/ ValidInn(d)] : d \in Cards \cup Inns}
TryCheck == Try({c \in CheckCases : c.valid})

DateCases == {[alg |-> "date", year |-> y, month |-> m, day |-> d] :
                y \in {1799, 1800, 1900, 1996, 1999, 2000, 2004, 2096, 2100, 2101} \cup {0, 1, 4, 99},
                m \in 1..13, d \in {0, 1, 12, 13, 28, 29, 30, 31, 32}}
TryDate == Try(DateCases)

Writings == {<<o>> : o \in Ordinals} \cup (Tens \X Ordinals)
WordCases == {[alg |-> "words", n |-> n] : n \in 1..99}
TryWords == Try(WordCases)

DateOwnerCases == {[alg |-> "dateowner", earlier |-> e, before |-> b, after |-> a \o <<"date">>] :
                 e \in {"w", "poet", "client", "public"}, b \in SeqOf({"w", "poet", "client"}, 2),
                 a \in SeqOf({"w", "poet", "client", "public", "unknown", "field", ":", "."}, 3)}
TryDateOwner == Try(DateOwnerCases)

Replaced(d, i, x) == [d EXCEPT ![i] = x]

\* A card with one wrong digit or two swapped neighbours other than 0 and 9 is not a card any
\* more, whether its length is even or odd (_luhn); a tax number with one wrong digit passes only
\* if all its check digits are 0, the remainder that stands for 10 as well (_valid_inn).
CheckDigitsCatchTypos ==
  Given("check") =>
    LET d == input.digits
        n == Len(d)
    IN  IF Luhn(d)
        THEN /\ \A i \in 1..n : \A x \in Digits \ {d[i]} : ~Luhn(Replaced(d, i, x))
             /\ \A i \in 1..(n - 1) : d[i] # d[i + 1] /\ {d[i], d[i + 1]} # {0, 9} =>
                  ~Luhn(Replaced(Replaced(d, i, d[i + 1]), i + 1, d[i]))
        ELSE \A i \in 1..n : \A x \in Digits \ {d[i]} :
               ValidInn(Replaced(d, i, x)) => \A j \in (IF n = 10 THEN {10} ELSE {11, 12}) : d[j] = 0

\* Both layers judge a full date alike, in every order in which its text may have it, with
\* its month as a number or a word (_valid_date, _valid_field_date).
DateChecksAgree ==
  Given("date") /\ input.year >= 1000 =>
    LET y == input.year  m == input.month  d == input.day IN
    /\ \A numbers \in {<<y, m, d>>, <<y, d, m>>, <<d, m, y>>, <<m, d, y>>} :
         ValidDate(numbers, 0) = ValidFieldDate(numbers, 0)
    /\ m <= 12 => ValidDate(<<d, y>>, m) = ValidFieldDate(<<d, y>>, m)

\* "without inferring a century": a date with a short year is taken exactly when some
\* century of the calendar has it, and one without a year when some year has it.
NoCenturyIsInferred ==
  Given("date") /\ input.year < 100 /\ input.month <= 12 =>
    LET y == input.year  m == input.month  d == input.day IN
    /\ ValidFieldDate(<<d, y>>, m) = (\E c \in 18..20 : Date(100 * c + y, m, d))
    /\ ValidFieldDate(<<d>>, m) = (\E year \in 1800..2100 : Date(year, m, d))
    /\ ValidFieldDate(<<d, m, y>>, 0) = (\E c \in 18..20 : Date(100 * c + y, m, d) \/ Date(100 * c + y, d, m))

\* Every number from 1 to 99 has one writing, and no two words that the pattern admits are
\* read as the number of another writing; so a date in words has one reading (_written_ordinal).
OneWritingEach ==
  Given("words") =>
    /\ Cardinality({w \in Writings : WrittenOrdinal(w) = input.n}) = 1
    /\ \A w \in Writings : WrittenOrdinal(w) = input.n => \A m \in 1..12, base \in {1800, 1900} :
         ValidWrittenDate(w, m, base, w) = Date(base + input.n, m, input.n)

\* A sentence about a poet or a client does not decide whose date the next one gives
\* (_personal_date_owner).
DateOwnerIsLocal ==
  Given("dateowner") =>
    LabelledDate(<<input.earlier, ".">> \o input.before, input.after) = LabelledDate(input.before, input.after)
=============================================================================
