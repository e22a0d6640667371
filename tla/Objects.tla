------------------------------ MODULE Objects ------------------------------
(***************************************************************************)
(* The values of the keys of a Redis server and the primitives the         *)
(* commands are made of: object.c and the type layers of t_string.c,       *)
(* t_list.c, t_set.c, t_hash.c and t_zset.c.  An object is a record of its *)
(* type, its encoding and its value:                                       *)
(*   string  a sequence of characters          int, embstr, raw            *)
(*   list    a sequence of elements            ziplist, linkedlist         *)
(*   set     a set of elements                 intset, hashtable           *)
(*   hash    a function of the fields          ziplist, hashtable          *)
(*   zset    the scores of its members         ziplist, skiplist           *)
(* An element is a number: the ones of IntElems are written as integers,   *)
(* the ones of LongElems are longer than the *_max_ziplist_value limits.   *)
(***************************************************************************)
EXTENDS Integers, Sequences, FiniteSets, SequencesExt

CONSTANTS LLMax,              \* integers are 0..LLMax, each one digit long
          MaxStringLength,    \* the 512 MB of checkStringLength
          IntElems, LongElems, \* elements that are integers, that are long
          MaxCompact          \* every *_max_*_entries of the configuration

ASSUME ObjectsAssumption == /\ LLMax \in Nat /\ MaxStringLength \in Nat
                            /\ MaxCompact \in Nat /\ IntElems \cap LongElems = {}

Nul == -1     \* the byte SETRANGE pads with
Letter == -2  \* any byte that is not a digit
NotLL == -1   \* not a number of the width of a long long

Obj(type, enc, v) == [type |-> type, enc |-> enc, v |-> v]

---------------------------------------------------------------------------
(* Strings. *)

\* getLongLongFromObject: the whole string is one number of the right width.
\* The string of a missing key counts as 0.
string2ll(str) == IF Len(str) = 1 /\ str[1] \in 0..LLMax THEN str[1] ELSE NotLL

createStringObjectFromLongLong(n) == Obj("string", "int", <<n>>)

tryObjectEncoding(str) == Obj("string", IF string2ll(str) # NotLL THEN "int" ELSE "embstr", str)

\* sdsgrowzero and memcpy of SETRANGE.
SetRange(str, offset, value) ==
  [i \in 1..(IF offset + Len(value) > Len(str) THEN offset + Len(value) ELSE Len(str)) |->
     IF i > offset /\ i <= offset + Len(value) THEN value[i - offset]
     ELSE IF i <= Len(str) THEN str[i] ELSE Nul]

---------------------------------------------------------------------------
(* Lists. *)

createZiplistObject == Obj("list", "ziplist", <<>>)

listTypeConvert(o) == [o EXCEPT !.enc = "linkedlist"]

listTypeTryConversion(o, e) == IF e \in LongElems THEN listTypeConvert(o) ELSE o

listTypePush(o, e, where) ==
  LET c == listTypeTryConversion(o, e)
      d == IF Len(c.v) >= MaxCompact THEN listTypeConvert(c) ELSE c
  IN [d EXCEPT !.v = IF where = "head" THEN <<e>> \o @ ELSE Append(@, e)]

\* What listTypePop returns, and what it leaves.
PopValue(o, where) == IF where = "head" THEN o.v[1] ELSE o.v[Len(o.v)]
listTypePop(o, where) == [o EXCEPT !.v = IF where = "head" THEN Tail(@) ELSE Front(@)]

\* LINSERT: before or after the first element that is equal, conversion after.
listTypeInsert(o, pivot, e, where) ==
  LET p == CHOOSE i \in DOMAIN o.v : o.v[i] = pivot /\ \A j \in 1..(i - 1) : o.v[j] # pivot
      d == [o EXCEPT !.v = InsertAt(@, IF where = "head" THEN p ELSE p + 1, e)]
  IN IF Len(d.v) > MaxCompact THEN listTypeConvert(d) ELSE d

\* listIndex and ziplistIndex: from the tail when negative; 0 when there is none.
listTypeIndex(o, index) ==
  LET i == IF index < 0 THEN Len(o.v) + index + 1 ELSE index + 1
  IN IF i \in DOMAIN o.v THEN i ELSE 0

\* The positions LREM deletes: the first (the last) |count| equal ones, or all.
RemovedPositions(o, e, count) ==
  LET eq == {i \in DOMAIN o.v : o.v[i] = e}
  IN {i \in eq : \/ count = 0
                 \/ count > 0 /\ Cardinality({j \in eq : j < i}) < count
                 \/ count < 0 /\ Cardinality({j \in eq : j > i}) < -count}

Without(seq, positions) ==
  LET keep == DOMAIN seq \ positions
  IN [i \in 1..Cardinality(keep) |->
        seq[CHOOSE p \in keep : Cardinality({q \in keep : q <= p}) = i]]

\* The range of LRANGE, LTRIM, ZRANGE and ZREMRANGEBYRANK, in their order:
\* empty, or positions 1..n of the sequence.
RangeOf(n, start0, end0) ==
  LET start1 == IF start0 < 0 THEN n + start0 ELSE start0
      end1 == IF end0 < 0 THEN n + end0 ELSE end0
      start == IF start1 < 0 THEN 0 ELSE start1
      end == IF end1 >= n THEN n - 1 ELSE end1
  IN IF start > end1 \/ start >= n THEN {} ELSE (start + 1)..(end + 1)

---------------------------------------------------------------------------
(* Sets. *)

setTypeCreate(e) == Obj("set", IF e \in IntElems THEN "intset" ELSE "hashtable", {})
createIntsetObject == Obj("set", "intset", {})

setTypeAdd(o, e) ==
  [o EXCEPT !.v = @ \cup {e},
            !.enc = IF @ = "intset" /\ (e \notin IntElems \/ Cardinality(o.v \cup {e}) > MaxCompact)
                    THEN "hashtable" ELSE @]

setTypeRemove(o, e) == [o EXCEPT !.v = @ \ {e}]

SetTypeAddAll(o, elems) == FoldLeft(setTypeAdd, o, SetToSeq(elems))

\* SDIFF walks the first set and looks the elements up, or adds them all and
\* removes the ones of the others: the smaller estimate of the work wins.
DiffAlgoOne(first, others) == {e \in first : \A s \in ToSet(others) : e \notin s}
DiffAlgoTwo(first, others) == FoldLeft(LAMBDA acc, s : acc \ s, first, others)
sdiff(sets) ==
  LET others == Tail(sets)
      one == (Cardinality({i \in DOMAIN sets : sets[i] # {}}) * Cardinality(sets[1])) \div 2
      two == FoldLeft(LAMBDA n, s : n + Cardinality(s), 0, sets)
  IN IF one <= two THEN DiffAlgoOne(sets[1], others) ELSE DiffAlgoTwo(sets[1], others)

\* SINTER walks the smallest set.
sinter(sets) ==
  LET smallest == CHOOSE i \in DOMAIN sets : \A j \in DOMAIN sets : Cardinality(sets[i]) <= Cardinality(sets[j])
  IN {e \in sets[smallest] : \A j \in DOMAIN sets : e \in sets[j]}

sunion(sets) == UNION ToSet(sets)

---------------------------------------------------------------------------
(* Hashes: fields to values; a value is a number or Letter. *)

createHashObject == Obj("hash", "ziplist", <<>>)

hashTypeTryConversion(o, elems) == IF elems \cap LongElems # {} THEN [o EXCEPT !.enc = "hashtable"] ELSE o

hashTypeSet(o, f, val) ==
  LET v == (f :> val) @@ o.v
  IN [o EXCEPT !.v = v, !.enc = IF Cardinality(DOMAIN v) > MaxCompact THEN "hashtable" ELSE @]

hashTypeDelete(o, f) == [o EXCEPT !.v = [g \in DOMAIN @ \ {f} |-> @[g]]]

---------------------------------------------------------------------------
(* Sorted sets: members to scores. *)

\* The encoding of a new sorted set depends on the first member.
createZset(e) == Obj("zset", IF MaxCompact = 0 \/ e \in LongElems THEN "skiplist" ELSE "ziplist", <<>>)

zsetInsert(o, e, score) ==
  LET v == (e :> score) @@ o.v
  IN [o EXCEPT !.v = v,
               !.enc = IF Cardinality(DOMAIN v) > MaxCompact \/ e \in LongElems THEN "skiplist" ELSE @]

zsetRemove(o, elems) == [o EXCEPT !.v = [e \in DOMAIN @ \ elems |-> @[e]]]

\* The members in order: by score, then by member.
zsetOrder(v) == SetToSortSeq(DOMAIN v, LAMBDA a, b : v[a] < v[b] \/ (v[a] = v[b] /\ a < b))

zunionInterAggregate(target, val, aggregate) ==
  CASE aggregate = "sum" -> target + val
    [] aggregate = "min" -> IF val < target THEN val ELSE target
    [] aggregate = "max" -> IF val > target THEN val ELSE target

\* ZUNIONSTORE and ZINTERSTORE of the scores of the sources, smallest first.
zunioninter(srcs, weights, aggregate, op) ==
  LET elems == IF op = "union" THEN UNION {DOMAIN srcs[i] : i \in DOMAIN srcs}
               ELSE {e \in DOMAIN srcs[1] : \A i \in DOMAIN srcs : e \in DOMAIN srcs[i]}
      Scores(e) == [i \in 1..Cardinality({j \in DOMAIN srcs : e \in DOMAIN srcs[j]}) |->
                      LET at == CHOOSE j \in DOMAIN srcs :
                                  /\ e \in DOMAIN srcs[j]
                                  /\ Cardinality({k \in 1..j : e \in DOMAIN srcs[k]}) = i
                      IN weights[at] * srcs[at][e]]
      Agg(x, y) == zunionInterAggregate(x, y, aggregate)
  IN [e \in elems |-> FoldLeft(Agg, Head(Scores(e)), Tail(Scores(e)))]

\* The result is compact again when it fits.
zsetStored(v) ==
  Obj("zset", IF Cardinality(DOMAIN v) <= MaxCompact /\ DOMAIN v \cap LongElems = {} THEN "ziplist" ELSE "skiplist", v)

---------------------------------------------------------------------------
(* SORT: the part of the sorted vector that LIMIT keeps. *)
SortLimit(n, limit_start, limit_count) ==
  LET start0 == IF limit_start < 0 THEN 0 ELSE limit_start
      end0 == IF limit_count < 0 THEN n - 1 ELSE start0 + limit_count - 1
      start == IF start0 >= n THEN n - 1 ELSE start0
      end1 == IF start0 >= n THEN n - 2 ELSE end0
      end == IF end1 >= n THEN n - 1 ELSE end1
  IN (start + 1)..(end + 1)

Elements(o) == CASE o.type = "list" -> o.v [] o.type = "set" -> SetToSeq(o.v) [] o.type = "zset" -> SetToSeq(DOMAIN o.v)

SortedVector(o, desc) == SortSeq(Elements(o), LAMBDA a, b : IF desc THEN a > b ELSE a < b)
============================================================================
