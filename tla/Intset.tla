------------------------------ MODULE Intset ------------------------------
(***************************************************************************)
(* The sorted array of intset.c, which holds a set of integers in the      *)
(* narrowest of three encodings and is upgraded by a value too wide for it.*)
(***************************************************************************)
EXTENDS Integers, Sequences, FiniteSets, SequencesExt

CONSTANTS Numbers,                        \* the values clients add
          INT16_MAX, INT32_MAX, INT64_MAX \* the greatest value of each encoding; the least is -MAX - 1

ASSUME WidthsAssumption == INT16_MAX \in Nat /\ INT32_MAX \in Nat /\ INT64_MAX \in Nat /\ INT16_MAX < INT32_MAX /\ INT32_MAX < INT64_MAX
ASSUME NumbersAssumption == Numbers \subseteq (-INT64_MAX - 1)..INT64_MAX  \* the type int64_t

VARIABLES is,  \* encoding: 1, 2 or 3 for INT16, INT32, INT64; contents
          held \* the values added and not removed since

ivars == <<is, held>>

intsetNew == [encoding |-> 1, contents |-> <<>>]
IInit == is = intsetNew /\ held = {}

\* _intsetValueEncoding
ValueEncoding(v) ==
  IF v < -INT32_MAX - 1 \/ v > INT32_MAX THEN 3 ELSE IF v < -INT16_MAX - 1 \/ v > INT16_MAX THEN 2 ELSE 1

\* _intsetSet: the value is cut to the width of the encoding.
IntWidth(enc) == 2 * (IF enc = 3 THEN INT64_MAX + 1 ELSE IF enc = 2 THEN INT32_MAX + 1 ELSE INT16_MAX + 1)
Cut(v, enc) == ((v + IntWidth(enc) \div 2) % IntWidth(enc)) - IntWidth(enc) \div 2

\* An iteration of the binary search; positions are from 0.
SearchStep(contents, value, at) ==
  LET mid == (at.min + at.max) \div 2
      cur == contents[mid + 1]
  IN IF at.found \/ at.max < at.min THEN at
     ELSE IF value > cur THEN [at EXCEPT !.min = mid + 1]
     ELSE IF value < cur THEN [at EXCEPT !.max = mid - 1]
     ELSE [at EXCEPT !.found = TRUE, !.min = mid]

\* There are at most as many iterations as elements.
BinarySearch(contents, value) ==
  LET n == Len(contents)
      loop[i \in 0..n] ==
        IF i = 0 THEN [min |-> 0, max |-> n - 1, found |-> FALSE] ELSE SearchStep(contents, value, loop[i - 1])
  IN [found |-> loop[n].found, pos |-> loop[n].min]

intsetSearch(s, value) ==
  LET length == Len(s.contents)
  IN IF length = 0 THEN [found |-> FALSE, pos |-> 0]
     ELSE IF value > s.contents[length] THEN [found |-> FALSE, pos |-> length]
     ELSE IF value < s.contents[1] THEN [found |-> FALSE, pos |-> 0]
     ELSE BinarySearch(s.contents, value)

\* Variant: the new value always goes to the end.
UpgradeAndAppend(s, value) == [encoding |-> ValueEncoding(value), contents |-> Append(s.contents, value)]

\* The bytes of an element.
Bytes(enc) == IF enc = 3 THEN 8 ELSE IF enc = 2 THEN 4 ELSE 2

\* Variant: the elements are widened from the first on.
FrontToBack(i, length) == 1..(i - 1)

\* The elements are widened in place, from the last to the first: those that are at
\* their new places when the element i is read.
BackToFront(i, length) == (i + 1)..length

\* The element i, unless one widened before it has been written over its bytes; what is
\* read then is the sign of that one, taken as 0.
Widened(s, enc, prepend, i) ==
  LET Overwrites(k) == /\ (k + prepend - 1) * Bytes(enc) < i * Bytes(s.encoding)
                       /\ (i - 1) * Bytes(s.encoding) < (k + prepend) * Bytes(enc)
  IN IF \E k \in BackToFront(i, Len(s.contents)) : Overwrites(k) THEN 0 ELSE s.contents[i]

\* A value too wide for the encoding is below or above all the others, and goes to the
\* place the loop leaves free for it.
intsetUpgradeAndAdd(s, value) ==
  LET enc == ValueEncoding(value)
      Moved(prepend) == [i \in DOMAIN s.contents |-> Widened(s, enc, prepend, i)]
  IN [encoding |-> enc, contents |-> IF value < 0 THEN <<value>> \o Moved(1) ELSE Append(Moved(0), value)]

intsetAdd(s, value) ==
  LET at == intsetSearch(s, value)
  IN IF ValueEncoding(value) > s.encoding THEN intsetUpgradeAndAdd(s, value)
     ELSE IF at.found THEN s
     ELSE [s EXCEPT !.contents = InsertAt(@, at.pos + 1, Cut(value, s.encoding))]

\* A value wider than the encoding is not in the set.
intsetFind(s, value) == ValueEncoding(value) <= s.encoding /\ intsetSearch(s, value).found

intsetRemove(s, value) ==
  IF intsetFind(s, value) THEN [s EXCEPT !.contents = RemoveAt(@, intsetSearch(s, value).pos + 1)] ELSE s

intsetGet(s, pos) == IF pos < Len(s.contents) THEN <<s.contents[pos + 1]>> ELSE <<>>

INext == \E v \in Numbers : \/ is' = intsetAdd(is, v) /\ held' = held \cup {v}
                            \/ is' = intsetRemove(is, v) /\ held' = held \ {v}

ISpec == IInit /\ [][INext]_ivars

\* The array holds the values added and not removed, in strictly ascending order, at
\* whatever width the values arrived; the search finds those and no other, also for a
\* value wider than the encoding.
IntsetExact ==
  /\ \A v \in Numbers : intsetFind(is, v) <=> v \in held
  /\ ToSet(is.contents) = held /\ Len(is.contents) = Cardinality(held)
  /\ \A i \in 1..(Len(is.contents) - 1) : intsetGet(is, i - 1)[1] < intsetGet(is, i)[1]
============================================================================
