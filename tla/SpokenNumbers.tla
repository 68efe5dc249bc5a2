---------------------------- MODULE SpokenNumbers ----------------------------
(***************************************************************************)
(* Numbers in recognised speech (packages/evaluation/comparators.py).      *)
(*                                                                         *)
(* Text is a sequence of tokens in lower case: number words, numerals and  *)
(* whatever else was said.  A number is its whole part and the digits      *)
(* after the point, as a Decimal keeps them: 42.9 and 42.90 differ as text *)
(* and are equal as amounts.                                               *)
(***************************************************************************)
EXTENDS Integers, Sequences, SequencesExt, FiniteSetsExt

CONSTANT Numeral  \* the tokens in digit form and the numbers they write

Units == [zero |-> 0, oh |-> 0, one |-> 1, two |-> 2, three |-> 3, four |-> 4,
          five |-> 5, six |-> 6, seven |-> 7, eight |-> 8, nine |-> 9,
          ten |-> 10, eleven |-> 11, twelve |-> 12, thirteen |-> 13,
          fourteen |-> 14, fifteen |-> 15, sixteen |-> 16, seventeen |-> 17,
          eighteen |-> 18, nineteen |-> 19]

Tens == [twenty |-> 20, thirty |-> 30, forty |-> 40, fourty |-> 40,
         fifty |-> 50, sixty |-> 60, seventy |-> 70, eighty |-> 80,
         ninety |-> 90]

FractionMarkers == {"point", "dot"}

Quantity == DOMAIN Units \cup DOMAIN Tens \cup {"hundred", "thousand"}

NumberWords == Quantity \cup FractionMarkers \cup {"and"}

\* Numerals are in digits.
ASSUME NumeralAssumption == DOMAIN Numeral \cap NumberWords = {}

\* Mutant: a thousand multiplies what follows the hundreds only.
AddWordFlat(sum, word) ==
    CASE word = "and" -> sum
      [] word \in DOMAIN Units -> [sum EXCEPT !.current = @ + Units[word]]
      [] word \in DOMAIN Tens -> [sum EXCEPT !.current = @ + Tens[word]]
      [] word = "hundred" -> [total |-> sum.total + Max({1, sum.current}) * 100,
                              current |-> 0]
      [] word = "thousand" -> [total |-> sum.total + Max({1, sum.current}) * 1000,
                               current |-> 0]

AddWord(sum, word) ==
    CASE word = "and" -> sum
      [] word \in DOMAIN Units -> [sum EXCEPT !.current = @ + Units[word]]
      [] word \in DOMAIN Tens -> [sum EXCEPT !.current = @ + Tens[word]]
      [] word = "hundred" -> [sum EXCEPT !.current = Max({1, @}) * 100]
      [] word = "thousand" -> [total |-> sum.total + Max({1, sum.current}) * 1000,
                               current |-> 0]

\* _words_to_integer of a run that starts with a quantity.
WordsToInteger(words) ==
    LET sum == FoldLeft(AddWord, [total |-> 0, current |-> 0], words)
    IN  sum.total + sum.current

\* What a word contributes to the digits after the point; a multiple of ten
\* contributes both of its digits, whatever follows.
FractionDigits(word) ==
    IF word \in DOMAIN Tens THEN <<Tens[word] \div 10, 0>> ELSE <<Units[word]>>

IsFractionWord(word) ==
    \/ word \in DOMAIN Tens
    \/ word \in DOMAIN Units /\ Units[word] <= 9

\* The longest prefix whose tokens are all in a set.
PrefixIn(tokens, Good(_)) ==
    Max({n \in 0..Len(tokens) : \A i \in 1..n : Good(tokens[i])})

\* _spoken_fraction: the digits, and how many words they took.
SpokenFraction(words) ==
    LET n == PrefixIn(words, IsFractionWord)
    IN  [digits |-> FlattenSeq([i \in 1..n |-> FractionDigits(words[i])]),
         consumed |-> n]

From(tokens, i) == SubSeq(tokens, i, Len(tokens))

\* A numeral at i with the fraction spoken after it, if there is one.
WithFraction(number, spoken, i) ==
    IF spoken.digits = <<>> THEN [number |-> number, next |-> i + 1]
    ELSE [number |-> [number EXCEPT !.fraction = spoken.digits],
          next |-> i + 2 + spoken.consumed]

\* The fraction after a marker: a numeral of digits, or digits in words.
FractionAfter(tail) ==
    IF tail # <<>> /\ tail[1] \in DOMAIN Numeral /\ Numeral[tail[1]].fraction = <<>>
    THEN [digits |-> Numeral[tail[1]].digits, consumed |-> 1]
    ELSE SpokenFraction(tail)

\* A numeral at i: the number, and where the scan goes on.
ReadNumeral(tokens, i) ==
    LET literal == Numeral[tokens[i]]
        number  == [whole |-> literal.whole, fraction |-> literal.fraction]
    IN  IF \/ number.fraction # <<>>
           \/ i = Len(tokens)
           \/ tokens[i + 1] \notin FractionMarkers
        THEN [number |-> number, next |-> i + 1]
        ELSE WithFraction(number,
                FractionAfter(SubSeq(tokens, i + 2, Min({Len(tokens), i + 7}))), i)

\* The number a run of number words spells: one, whatever the run holds.
NumberOf(run) ==
    LET marks == {k \in DOMAIN run : run[k] \in FractionMarkers} IN
    IF marks = {} THEN [whole |-> WordsToInteger(run), fraction |-> <<>>]
    ELSE [whole    |-> WordsToInteger(SubSeq(run, 1, Min(marks) - 1)),
          fraction |-> SpokenFraction(From(run, Min(marks) + 1)).digits]

\* A run of n number words at i.
ReadRun(tokens, i, n) ==
    [number |-> NumberOf(SubSeq(tokens, i, i + n - 1)), next |-> i + n]

ReadWords(tokens, i) ==
    ReadRun(tokens, i, PrefixIn(From(tokens, i), LAMBDA w : w \in NumberWords))

ReadAt(tokens, i) == IF tokens[i] \in DOMAIN Numeral THEN ReadNumeral(tokens, i)
                     ELSE ReadWords(tokens, i)

\* What was read, before the numbers found from where the scan goes on.
Prepend(read, found) == <<read.number>> \o found[read.next]

\* The numbers from i on, given those from every later position on.
NumbersFrom(tokens, i, found) ==
    IF i > Len(tokens) THEN <<>>
    ELSE IF tokens[i] \in DOMAIN Numeral \cup Quantity
         THEN Prepend(ReadAt(tokens, i), found)
         ELSE found[i + 1]

\* extract_spoken_numbers
Numbers(tokens) ==
    LET Scan[i \in 1..(Len(tokens) + 1)] == NumbersFrom(tokens, i, Scan)
    IN  Scan[1]

=============================================================================
