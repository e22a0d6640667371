------------------------------ MODULE Ziplist ------------------------------
(***************************************************************************)
(* The packed list of ziplist.c.  An entry begins with the length of the   *)
(* one before it, in 1 or 5 bytes, then the encoding and length of its     *)
(* own data; a change of one entry's size may change the next.  The data   *)
(* is a string of a length or an integer; the lengths, offsets and the     *)
(* header of the list are kept to the byte.                                *)
(***************************************************************************)
EXTENDS Integers, Sequences, FiniteSets, SequencesExt

CONSTANTS Elements,       \* [len |-> n, name |-> x] or [int |-> v]
          MaxEntries,     \* bound on the entries of the list
          ZIP_BIGLEN,     \* 254: lengths from here on take 5 bytes
          HalfRange,      \* HalfRange[n]: 2^(8n - 1), for an integer of n bytes
          ZIP_INT_IMM,    \* 12: integers 0..12 are in the encoding byte
          UINT16_MAX      \* where the counter of entries stops

IsInt(e) == "int" \in DOMAIN e
IntSizes == {1, 2, 3, 4, 8}
Signed(v, n) == v \in -HalfRange[n]..(HalfRange[n] - 1)

ASSUME RangesAssumption == HalfRange \in [IntSizes -> Nat] /\ ZIP_INT_IMM \in Nat
ASSUME LengthsAssumption == ZIP_BIGLEN \in Nat /\ UINT16_MAX \in Nat /\ MaxEntries \in Nat
ASSUME ElementsAssumption ==
  \A e \in Elements : IF IsInt(e) THEN e = [int |-> e.int] /\ Signed(e.int, 8)
                      ELSE e = [len |-> e.len, name |-> e.name] /\ e.len \in Nat

VARIABLES zip,   \* entries, bytes, tail and length of the header; torn
          pushed \* the elements, as the calls placed them

lvars == <<zip, pushed>>

ZIPLIST_HEADER_SIZE == 10
ziplistNew == [entries |-> <<>>, bytes |-> ZIPLIST_HEADER_SIZE + 1, tail |-> ZIPLIST_HEADER_SIZE, length |-> 0, torn |-> FALSE]
LInit == zip = ziplistNew /\ pushed = <<>>

---------------------------------------------------------------------------
(* Entries: data, prevlen and the bytes prevlen takes. *)

\* zipTryEncoding and zipIntSize: the bytes of an integer.
zipIntSize(v) ==
  IF v \in 0..ZIP_INT_IMM THEN 0 ELSE CHOOSE n \in IntSizes : Signed(v, n) /\ \A m \in IntSizes : m < n => ~Signed(v, m)

\* zipSaveInteger and zipLoadInteger: the low bytes, and their sign extended.
zipSaveInteger(v, n) == v % (2 * HalfRange[n])
zipLoadInteger(bits, n) == IF bits >= HalfRange[n] THEN bits - 2 * HalfRange[n] ELSE bits

\* The data as stored: an integer as its size and bits.
Stored(e) ==
  IF ~IsInt(e) THEN [str |-> e, size |-> e.len]
  ELSE LET n == zipIntSize(e.int) IN [size |-> n, bits |-> IF n = 0 THEN e.int ELSE zipSaveInteger(e.int, n)]
ziplistGet(x) ==
  IF "str" \in DOMAIN x.data THEN x.data.str
  ELSE [int |-> IF x.data.size = 0 THEN x.data.bits ELSE zipLoadInteger(x.data.bits, x.data.size)]
ziplistCompare(x, e) == ziplistGet(x) = e

zipEncodeLength(data) ==
  IF "str" \notin DOMAIN data \/ data.size <= 63 THEN 1 ELSE IF data.size <= 16383 THEN 2 ELSE 5
zipPrevEncodeLength(len) == IF len < ZIP_BIGLEN THEN 1 ELSE 5
zipPrevLenByteDiff(x, len) == zipPrevEncodeLength(len) - x.prevsize
zipRawEntryLength(x) == x.prevsize + zipEncodeLength(x.data) + x.data.size
SetPrev(x, len) == [x EXCEPT !.prevlen = len, !.prevsize = zipPrevEncodeLength(len)]
\* Keeps the 5 bytes of a length that fits in 1.
zipPrevEncodeLengthForceLarge(x, len) == [x EXCEPT !.prevlen = len, !.prevsize = 5]

\* Where each entry ends, from the end of the header.
Ends(entries) ==
  LET End[i \in 0..Len(entries)] == IF i = 0 THEN 0 ELSE End[i - 1] + zipRawEntryLength(entries[i]) IN End
Raw(entries) == Ends(entries)[Len(entries)]
Offset(entries, i) == ZIPLIST_HEADER_SIZE + Ends(entries)[i - 1]

\* A pointer is an offset; the entry it points to, or 0 at the end.
EntryAt(z, off) == LET at == {i \in DOMAIN z.entries : Offset(z.entries, i) = off} IN IF at = {} THEN 0 ELSE CHOOSE i \in at : TRUE

\* ZIPLIST_INCR_LENGTH: a counter at its end stays there.
IncrLength(z, incr) == IF z.length < UINT16_MAX THEN [z EXCEPT !.length = @ + incr] ELSE z
ziplistLen(z) == IF z.length < UINT16_MAX THEN z.length ELSE Len(z.entries)

---------------------------------------------------------------------------
(* Changes. *)

\* Entry i changed its size: the next one's prevlen follows, which may change its
\* size, and so on.
CascadeRound(c) ==
  LET z == c.z
      rawlen == zipRawEntryLength(z.entries[c.i])
      next == z.entries[c.i + 1]
      extra == zipPrevLenByteDiff(next, rawlen)
      Next(x) == [z EXCEPT !.entries[c.i + 1] = x]
  IN IF c.done \/ c.i >= Len(z.entries) THEN c
     ELSE IF next.prevlen = rawlen THEN [c EXCEPT !.done = TRUE]
     ELSE IF extra > 0
     THEN [z |-> [Next(SetPrev(next, rawlen)) EXCEPT !.bytes = @ + extra,
                                                      !.tail = IF @ = Offset(z.entries, c.i + 1) THEN @ ELSE @ + extra],
           i |-> c.i + 1, done |-> FALSE]
     ELSE [z |-> Next(IF extra < 0 THEN zipPrevEncodeLengthForceLarge(next, rawlen) ELSE SetPrev(next, rawlen)),
           i |-> c.i, done |-> TRUE]

\* Variant: only the entry that follows is updated.
CascadeOnce(z, i) == z

ziplistCascadeUpdate(z, i) ==
  LET Round[k \in 0..Len(z.entries)] == IF k = 0 THEN [z |-> z, i |-> i, done |-> FALSE] ELSE CascadeRound(Round[k - 1])
  IN Round[Len(z.entries)].z

\* From entry i on, num of them or as many as there are.
ziplistDeleteEntries(z, i, num) ==
  LET deleted == IF i + num > Len(z.entries) THEN Len(z.entries) - i + 1 ELSE num
      totlen == Offset(z.entries, i + deleted) - Offset(z.entries, i)
      prevlen == z.entries[i].prevlen
      atEnd == i + deleted > Len(z.entries)
      nextdiff == IF atEnd THEN 0 ELSE zipPrevLenByteDiff(z.entries[i + deleted], prevlen)
      front == SubSeq(z.entries, 1, i - 1)
      back == IF atEnd THEN <<>> ELSE <<SetPrev(z.entries[i + deleted], prevlen)>> \o SubSeq(z.entries, i + deleted + 1, Len(z.entries))
      tail == IF atEnd THEN Offset(z.entries, i) - prevlen ELSE z.tail - totlen + (IF Len(back) > 1 THEN nextdiff ELSE 0)
      y == IncrLength([z EXCEPT !.entries = front \o back, !.bytes = @ - totlen + nextdiff, !.tail = tail], -deleted)
  IN IF nextdiff # 0 THEN ziplistCascadeUpdate(y, i) ELSE y

\* Before entry i, or at the end.  The list is resized before its end is moved: when
\* the next entry gives back more bytes than the new one takes, the end is cut.
ziplistInsertAt(z, i, e) ==
  LET last == i > Len(z.entries)
      ptail == EntryAt(z, z.tail)
      prevlen == IF ~last THEN z.entries[i].prevlen ELSE IF ptail = 0 THEN 0 ELSE zipRawEntryLength(z.entries[ptail])
      x == SetPrev([data |-> Stored(e), prevlen |-> 0, prevsize |-> 1], prevlen)
      reqlen == zipRawEntryLength(x)
      nextdiff == IF last THEN 0 ELSE zipPrevLenByteDiff(z.entries[i], reqlen)
      back == IF last THEN <<>> ELSE <<SetPrev(z.entries[i], reqlen)>> \o SubSeq(z.entries, i + 1, Len(z.entries))
      tail == IF last THEN Offset(z.entries, i) ELSE z.tail + reqlen + (IF Len(back) > 1 THEN nextdiff ELSE 0)
      y == [z EXCEPT !.entries = SubSeq(@, 1, i - 1) \o <<x>> \o back, !.bytes = @ + reqlen + nextdiff, !.tail = tail,
                     !.torn = @ \/ reqlen + nextdiff < 0]
  IN IncrLength(IF nextdiff # 0 THEN ziplistCascadeUpdate(y, i + 1) ELSE y, 1)

ziplistPush(z, e, where) == ziplistInsertAt(z, IF where = "head" THEN 1 ELSE Len(z.entries) + 1, e)

---------------------------------------------------------------------------
(* Walking. *)

\* From the end, by the lengths the entries hold.
BackwardStep(z, w) ==
  LET i == EntryAt(z, w.off)
  IN IF i = 0 \/ w.index = 0 \/ (i # 0 => z.entries[i].prevlen = 0) THEN w
     ELSE [off |-> w.off - z.entries[i].prevlen, index |-> w.index - 1]
Backward(z, index) ==
  LET Walk[k \in 0..index] == IF k = 0 THEN [off |-> z.tail, index |-> index] ELSE BackwardStep(z, Walk[k - 1])
  IN IF Walk[index].index > 0 THEN 0 ELSE EntryAt(z, Walk[index].off)

\* The entry at an index, from the end when it is negative; 0 for none.
ziplistIndex(z, index) ==
  IF index < 0 THEN Backward(z, -index - 1) ELSE IF index < Len(z.entries) THEN index + 1 ELSE 0

ziplistFind(z, e) == {i \in DOMAIN z.entries : ziplistCompare(z.entries[i], e)}

---------------------------------------------------------------------------
Bounded == Len(pushed) < MaxEntries /\ ~zip.torn

Push(where) == \E e \in Elements : Bounded /\ zip' = ziplistPush(zip, e, where)
                                   /\ pushed' = IF where = "head" THEN <<e>> \o pushed ELSE Append(pushed, e)
Insert == \E e \in Elements, i \in DOMAIN pushed : Bounded /\ zip' = ziplistInsertAt(zip, ziplistIndex(zip, i - 1), e) /\ pushed' = InsertAt(pushed, i, e)
DeleteRange == \E i \in DOMAIN pushed, num \in 1..MaxEntries :
  /\ ~zip.torn
  /\ zip' = ziplistDeleteEntries(zip, ziplistIndex(zip, i - 1), num)
  /\ pushed' = SubSeq(pushed, 1, i - 1) \o SubSeq(pushed, i + num, Len(pushed))
\* The counter is exact again.
LenCall == ~zip.torn /\ zip' = [zip EXCEPT !.length = IF ziplistLen(zip) < UINT16_MAX THEN ziplistLen(zip) ELSE @] /\ UNCHANGED pushed

\* The key is deleted, and made again.
Free == pushed # <<>> /\ zip' = ziplistNew /\ pushed' = <<>>

LNext == Push("head") \/ Push("tail") \/ Insert \/ DeleteRange \/ LenCall \/ Free

LSpec == LInit /\ [][LNext]_lvars

\* Whatever sequence of inserts and deletes grew and shrank the length fields: the list
\* holds the elements in their order, each found by its index from either end, the
\* walk from the end follows lengths that are those of the entries and fit their bytes,
\* the header has the size and the place of the last entry, and the count is right beyond
\* its counter.
\* A list whose end was cut is excused (a finding of the README).
ZiplistExact ==
  zip.torn \/
  /\ [i \in DOMAIN zip.entries |-> ziplistGet(zip.entries[i])] = pushed
  /\ \A i \in DOMAIN zip.entries : zip.entries[i].prevsize >= zipPrevEncodeLength(zip.entries[i].prevlen)
  /\ zip.bytes = Raw(zip.entries) + ZIPLIST_HEADER_SIZE + 1
  /\ ziplistLen(zip) = Len(pushed)
  /\ \A i \in DOMAIN pushed : ziplistIndex(zip, i - 1 - Len(pushed)) = i /\ i \in ziplistFind(zip, pushed[i])
  /\ ziplistIndex(zip, -1 - Len(pushed)) = 0

\* The same without the excuse, as __ziplistInsert has it where it reserves the place of
\* the new length field: a resize of the list never cuts bytes it holds.
NeverTorn == ~zip.torn
============================================================================
