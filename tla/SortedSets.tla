---------------------------- MODULE SortedSets ----------------------------
(***************************************************************************)
(* The two encodings of a sorted set of t_zset.c, held side by side: a     *)
(* skip list with a dictionary of the scores, and a ziplist of pairs.      *)
(* Every command that changes the set is run on both, by the code of each. *)
(* A member is a positive number, compared as its string is; a pointer to  *)
(* a node is the member, Header or Null.                                   *)
(***************************************************************************)
EXTENDS Integers, Sequences, FiniteSets, SequencesExt

CONSTANTS Members, Scores,
          ZSKIPLIST_MAXLEVEL \* 32 in the code

VARIABLES zsl,  \* node: score, forward, span, backward of a pointer; tail, length, level
          dict, \* the scores by member, of the skip list encoding
          zl    \* the ziplist: <<member, score>> in order

zvars == <<zsl, dict, zl>>

Header == 0
Null == -1

Before(s1, e1, s2, e2) == s1 < s2 \/ (s1 = s2 /\ e1 < e2)

---------------------------------------------------------------------------
(* The skip list. *)

zslCreate ==
  [node |-> Header :> [score |-> 0, backward |-> Null, forward |-> [i \in 1..ZSKIPLIST_MAXLEVEL |-> Null],
                       span |-> [i \in 1..ZSKIPLIST_MAXLEVEL |-> 0]],
   tail |-> Null, length |-> 0, level |-> 1]

\* From x, at level i, r nodes from the header: forward while Go says so of the
\* next node and its rank.
Walk(z, x0, i, r0, Go(_, _)) ==
  LET RECURSIVE Forward(_, _)
      Forward(x, r) ==
        LET next == z.node[x].forward[i]
            rank == r + z.node[x].span[i]
        IN IF next # Null /\ (next # Null => Go(next, rank)) THEN Forward(next, rank) ELSE <<x, r>>
  IN Forward(x0, r0)

\* From the top level down: the last node of each level and its rank, which are
\* update and rank of the code.
Descend(z, Go(_, _)) ==
  LET at[i \in 1..z.level] == IF i = z.level THEN Walk(z, Header, i, 0, Go) ELSE Walk(z, at[i + 1][1], i, at[i + 1][2], Go)
  IN at

\* The span of a level above the new node, and a variant that forgets it.
SpanKept(n) == n
SpanOver(n) == n + 1

zslInsert(z, score, e, level) ==
  LET at == Descend(z, LAMBDA n, r : Before(z.node[n].score, n, score, e))
      top == IF level > z.level THEN level ELSE z.level
      update == [i \in 1..top |-> IF i <= z.level THEN at[i][1] ELSE Header]
      rank == [i \in 1..top |-> IF i <= z.level THEN at[i][2] ELSE 0]
      span == [i \in 1..top |-> IF i <= z.level THEN z.node[update[i]].span[i] ELSE z.length]
      x == [score |-> score, forward |-> [i \in 1..level |-> z.node[update[i]].forward[i]],
            span |-> [i \in 1..level |-> span[i] - (rank[1] - rank[i])],
            backward |-> IF update[1] = Header THEN Null ELSE update[1]]
      Updated(n, i) == IF i <= top THEN update[i] = n ELSE FALSE
      Link(n) == [z.node[n] EXCEPT
                    !.forward = [i \in DOMAIN @ |-> IF Updated(n, i) /\ i <= level THEN e ELSE @[i]],
                    !.span = [i \in DOMAIN @ |-> IF ~Updated(n, i) THEN @[i]
                                                 ELSE IF i <= level THEN rank[1] - rank[i] + 1 ELSE SpanOver(@[i])],
                    !.backward = IF n = x.forward[1] THEN e ELSE @]
  IN [node |-> [n \in DOMAIN z.node |-> Link(n)] @@ (e :> x), tail |-> IF x.forward[1] = Null THEN e ELSE z.tail,
      length |-> z.length + 1, level |-> top]

zslDeleteNode(z, x, update) ==
  LET gone == z.node[x]
      Updated(n, i) == IF i <= z.level THEN update[i] = n ELSE FALSE
      Unlink(n) == [z.node[n] EXCEPT
                      !.span = [i \in DOMAIN @ |-> IF ~Updated(n, i) THEN @[i]
                                                   ELSE IF z.node[n].forward[i] = x THEN @[i] + gone.span[i] - 1 ELSE @[i] - 1],
                      !.forward = [i \in DOMAIN @ |-> IF Updated(n, i) /\ @[i] = x THEN gone.forward[i] ELSE @[i]],
                      !.backward = IF n = gone.forward[1] THEN gone.backward ELSE @]
      node == [n \in DOMAIN z.node \ {x} |-> Unlink(n)]
      used == {i \in 1..z.level : node[Header].forward[i] # Null}
  IN [node |-> node, tail |-> IF gone.forward[1] = Null THEN gone.backward ELSE z.tail, length |-> z.length - 1,
      level |-> CHOOSE i \in 1..z.level : i \in used \cup {1} /\ \A j \in used : j <= i]

zslDelete(z, score, e) ==
  LET at == Descend(z, LAMBDA n, r : Before(z.node[n].score, n, score, e))
      x == z.node[at[1][1]].forward[1]
  IN IF x = e THEN zslDeleteNode(z, x, [i \in DOMAIN at |-> at[i][1]]) ELSE z

\* A range of scores, or of members: its bounds, inclusive or not.
zslValueGteMin(v, range) == IF range.minex THEN v > range.min ELSE v >= range.min
zslValueLteMax(v, range) == IF range.maxex THEN v < range.max ELSE v <= range.max
EmptyRange(range) == range.min > range.max \/ (range.min = range.max /\ (range.minex \/ range.maxex))
\* The bounds are compared as by memcmp, and a difference of 1 passes: the checks that
\* follow have to find the range empty.
EmptyLexRange(range) == range.min - range.max > 1 \/ (range.min = range.max /\ (range.minex \/ range.maxex))

ScoreOf(z, x) == z.node[x].score
Member(z, x) == x

IsIn(z, range, Val(_, _)) ==
  /\ z.tail # Null
  /\ zslValueGteMin(Val(z, z.tail), range) /\ zslValueLteMax(Val(z, z.node[Header].forward[1]), range)
FirstIn(z, range, Val(_, _), within) ==
  LET at == Descend(z, LAMBDA n, r : ~zslValueGteMin(Val(z, n), range))
      x == z.node[at[1][1]].forward[1]
  IN IF ~within THEN Null ELSE IF zslValueLteMax(Val(z, x), range) THEN x ELSE Null
LastIn(z, range, Val(_, _), within) ==
  LET x == Descend(z, LAMBDA n, r : zslValueLteMax(Val(z, n), range))[1][1]
  IN IF ~within THEN Null ELSE IF zslValueGteMin(Val(z, x), range) THEN x ELSE Null

zslIsInRange(z, range) == ~EmptyRange(range) /\ IsIn(z, range, ScoreOf)
zslFirstInRange(z, range) == FirstIn(z, range, ScoreOf, zslIsInRange(z, range))
zslLastInRange(z, range) == LastIn(z, range, ScoreOf, zslIsInRange(z, range))
zslIsInLexRange(z, range) == ~EmptyLexRange(range) /\ IsIn(z, range, Member)
zslFirstInLexRange(z, range) == FirstIn(z, range, Member, zslIsInLexRange(z, range))
zslLastInLexRange(z, range) == LastIn(z, range, Member, zslIsInLexRange(z, range))

\* The nodes after update[1], as long as More says so of the node and its rank.
DeleteFrom(z0, at, More(_, _)) ==
  LET update == [i \in DOMAIN at |-> at[i][1]]
      RECURSIVE Delete(_, _, _)
      Delete(z, x, r) ==
        IF x # Null /\ (x # Null => More(x, r)) THEN Delete(zslDeleteNode(z, x, update), z.node[x].forward[1], r + 1) ELSE z
  IN Delete(z0, z0.node[update[1]].forward[1], at[1][2] + 1)

zslDeleteRangeByScore(z, range) ==
  DeleteFrom(z, Descend(z, LAMBDA n, r : IF range.minex THEN z.node[n].score <= range.min ELSE z.node[n].score < range.min),
             LAMBDA x, r : zslValueLteMax(z.node[x].score, range))
zslDeleteRangeByLex(z, range) ==
  DeleteFrom(z, Descend(z, LAMBDA n, r : ~zslValueGteMin(n, range)), LAMBDA x, r : zslValueLteMax(x, range))
zslDeleteRangeByRank(z, start, end) ==
  DeleteFrom(z, Descend(z, LAMBDA n, r : r < start), LAMBDA x, r : r <= end)

\* 1-based; 0 when the member is not found on the way down.
zslGetRank(z, score, e) ==
  LET at == Descend(z, LAMBDA n, r : ~Before(score, e, z.node[n].score, n))
      found == {i \in DOMAIN at : at[i][1] = e}
  IN IF found = {} THEN 0 ELSE at[CHOOSE i \in found : \A j \in found : j <= i][2]

\* Variant: stops one node early.
ElementBefore(z, rank) ==
  LET at == Descend(z, LAMBDA n, r : r < rank) IN at[1][1]

zslGetElementByRank(z, rank) ==
  LET at == Descend(z, LAMBDA n, r : r <= rank)
      found == {i \in DOMAIN at : at[i][2] = rank}
  IN IF found = {} THEN Null ELSE at[CHOOSE i \in found : \A j \in found : j <= i][1]

---------------------------------------------------------------------------
(* The ziplist: positions of pairs, 0 for no position. *)

zzlFind(list, e) == SelectInSeq(list, LAMBDA p : p[1] = e)

zzlInsert(list, e, score) ==
  LET i == SelectInSeq(list, LAMBDA p : p[2] > score \/ (p[2] = score /\ p[1] > e))
  IN IF i = 0 THEN Append(list, <<e, score>>) ELSE InsertAt(list, i, <<e, score>>)

zzlDelete(list, i) == RemoveAt(list, i)

PairScore(p) == p[2]
PairMember(p) == p[1]
zzlIsIn(list, range, Val(_)) ==
  /\ list # <<>>
  /\ zslValueGteMin(Val(list[Len(list)]), range) /\ zslValueLteMax(Val(list[1]), range)
zzlFirst(list, range, Val(_), within) ==
  LET i == SelectInSeq(list, LAMBDA p : zslValueGteMin(Val(p), range))
  IN IF ~within \/ i = 0 THEN 0 ELSE IF zslValueLteMax(Val(list[i]), range) THEN i ELSE 0
zzlLast(list, range, Val(_), within) ==
  LET i == SelectLastInSeq(list, LAMBDA p : zslValueLteMax(Val(p), range))
  IN IF ~within \/ i = 0 THEN 0 ELSE IF zslValueGteMin(Val(list[i]), range) THEN i ELSE 0

zzlIsInRange(list, range) == ~EmptyRange(range) /\ zzlIsIn(list, range, PairScore)
zzlFirstInRange(list, range) == zzlFirst(list, range, PairScore, zzlIsInRange(list, range))
zzlLastInRange(list, range) == zzlLast(list, range, PairScore, zzlIsInRange(list, range))
zzlIsInLexRange(list, range) == ~EmptyLexRange(range) /\ zzlIsIn(list, range, PairMember)
zzlFirstInLexRange(list, range) == zzlFirst(list, range, PairMember, zzlIsInLexRange(list, range))
zzlLastInLexRange(list, range) == zzlLast(list, range, PairMember, zzlIsInLexRange(list, range))

DeletePairs(list, i, range, Val(_)) ==
  IF i = 0 THEN list
  ELSE LET past == {j \in i..Len(list) : ~zslValueLteMax(Val(list[j]), range)}
           end == IF past = {} THEN Len(list) + 1 ELSE CHOOSE j \in past : \A k \in past : j <= k
       IN SubSeq(list, 1, i - 1) \o SubSeq(list, end, Len(list))
zzlDeleteRangeByScore(list, range) == DeletePairs(list, zzlFirstInRange(list, range), range, PairScore)
zzlDeleteRangeByLex(list, range) == DeletePairs(list, zzlFirstInLexRange(list, range), range, PairMember)
zzlDeleteRangeByRank(list, start, end) == SubSeq(list, 1, start - 1) \o SubSeq(list, end + 1, Len(list))

---------------------------------------------------------------------------
(* The commands that change the set, on both encodings. *)

ZInit == zsl = zslCreate /\ dict = <<>> /\ zl = <<>>

DictOf(z, d) == [e \in DOMAIN d \cap DOMAIN z.node |-> d[e]]

\* ZADD of one pair: a new score is a deletion and an insertion.
zadd(e, score, level) ==
  LET has == e \in DOMAIN dict
      z == IF has THEN zslDelete(zsl, dict[e], e) ELSE zsl
      i == zzlFind(zl, e)
      same == IF has THEN dict[e] = score ELSE FALSE
      sameZl == IF i # 0 THEN zl[i][2] = score ELSE FALSE
  IN /\ IF same THEN UNCHANGED <<zsl, dict>>
        ELSE zsl' = zslInsert(z, score, e, level) /\ dict' = (e :> score) @@ dict
     /\ zl' = IF sameZl THEN zl ELSE zzlInsert(IF i = 0 THEN zl ELSE zzlDelete(zl, i), e, score)

zrem(e) ==
  /\ e \in DOMAIN dict
  /\ zsl' = zslDelete(zsl, dict[e], e)
  /\ dict' = [x \in DOMAIN dict \ {e} |-> dict[x]]
  /\ zl' = zzlDelete(zl, zzlFind(zl, e))

Bounds(values) == [min : values, max : values, minex : BOOLEAN, maxex : BOOLEAN]
ScoreRanges == Bounds(Scores)
LexRanges == Bounds(Members)
SameScores == Cardinality({dict[e] : e \in DOMAIN dict}) <= 1

zremrangebyscore(range) ==
  LET z == zslDeleteRangeByScore(zsl, range)
  IN zsl' = z /\ dict' = DictOf(z, dict) /\ zl' = zzlDeleteRangeByScore(zl, range)

\* The order of the members is that of the list only when the scores are equal.
zremrangebylex(range) ==
  LET z == zslDeleteRangeByLex(zsl, range)
  IN SameScores /\ zsl' = z /\ dict' = DictOf(z, dict) /\ zl' = zzlDeleteRangeByLex(zl, range)

\* start and end of the range, 0-based, after the sanity check of the command.
RankRange(n, start0, end0) ==
  LET start1 == IF start0 < 0 THEN n + start0 ELSE start0
      end == IF end0 < 0 THEN n + end0 ELSE end0
      start == IF start1 < 0 THEN 0 ELSE start1
  IN IF start > end \/ start >= n THEN <<>> ELSE <<start, IF end >= n THEN n - 1 ELSE end>>

zremrangebyrank(start, end) ==
  LET r == RankRange(zsl.length, start, end)
      z == zslDeleteRangeByRank(zsl, r[1] + 1, r[2] + 1)
  IN r # <<>> /\ zsl' = z /\ dict' = DictOf(z, dict) /\ zl' = zzlDeleteRangeByRank(zl, r[1] + 1, r[2] + 1)

\* zsetConvert to a skip list, whose levels are drawn again, and from one.
zsetConvertToSkiplist(level) ==
  /\ zl # <<>>
  /\ zsl' = FoldLeft(LAMBDA z, p : zslInsert(z, p[2], p[1], level), zslCreate, zl)
  /\ dict' = [e \in {zl[i][1] : i \in DOMAIN zl} |-> zl[zzlFind(zl, e)][2]]
  /\ UNCHANGED zl

\* n nodes from x, by forward or by backward.
RECURSIVE Follow(_, _, _, _)
Follow(z, x, n, reverse) ==
  IF n = 0 \/ x = Null THEN <<>>
  ELSE <<x>> \o Follow(z, IF reverse THEN z.node[x].backward ELSE z.node[x].forward[1], n - 1, reverse)

zsetConvertToZiplist ==
  /\ dict # <<>>
  /\ zl' = [i \in 1..zsl.length |-> LET e == Follow(zsl, zsl.node[Header].forward[1], zsl.length, FALSE)[i] IN <<e, ScoreOf(zsl, e)>>]
  /\ UNCHANGED <<zsl, dict>>

Ranks == -2..Cardinality(Members)
ZNext == \/ \E e \in Members : zrem(e) \/ \E s \in Scores, level \in 1..ZSKIPLIST_MAXLEVEL : zadd(e, s, level)
         \/ \E range \in ScoreRanges : zremrangebyscore(range)
         \/ \E range \in LexRanges : zremrangebylex(range)
         \/ \E start, end \in Ranks : zremrangebyrank(start, end)
         \/ \E level \in 1..ZSKIPLIST_MAXLEVEL : zsetConvertToSkiplist(level)
         \/ zsetConvertToZiplist

---------------------------------------------------------------------------
(* The commands that read the set: the answer of each encoding. *)

\* ZRANGE and ZREVRANGE: <<skip list, ziplist>>.
zrangeGenericCommand(start0, end0, reverse) ==
  LET n == zsl.length
      r == RankRange(n, start0, end0)
      start == r[1]
      ln == IF reverse THEN IF start > 0 THEN zslGetElementByRank(zsl, n - start) ELSE zsl.tail
            ELSE IF start > 0 THEN zslGetElementByRank(zsl, start + 1) ELSE zsl.node[Header].forward[1]
      len == r[2] - start + 1
  IN IF r = <<>> THEN <<<<>>, <<>>>>
     ELSE <<Follow(zsl, ln, len, reverse),
            [i \in 1..len |-> IF reverse THEN zl[Len(zl) - start - i + 1][1] ELSE zl[start + i][1]]>>

\* The elements from a position, past offset, at most limit of them (all when it
\* is negative), up to the first one that is not inside the range.
Limited(elems, offset, limit, inside) ==
  LET rest == SubSeq(elems, offset + 1, Len(elems))
      out == {i \in DOMAIN rest : rest[i] \notin inside}
      len == IF out = {} THEN Len(rest) ELSE (CHOOSE i \in out : \A j \in out : i <= j) - 1
  IN SubSeq(rest, 1, IF limit < 0 \/ limit > len THEN len ELSE limit)

\* ZRANGEBYSCORE and ZREVRANGEBYSCORE with LIMIT.
genericZrangebyscoreCommand(range, offset, limit, reverse) ==
  LET ln == IF reverse THEN zslLastInRange(zsl, range) ELSE zslFirstInRange(zsl, range)
      eptr == IF reverse THEN zzlLastInRange(zl, range) ELSE zzlFirstInRange(zl, range)
      In(score) == IF reverse THEN zslValueGteMin(score, range) ELSE zslValueLteMax(score, range)
      pairs == IF eptr = 0 THEN <<>> ELSE IF reverse THEN Reverse(SubSeq(zl, 1, eptr)) ELSE SubSeq(zl, eptr, Len(zl))
      found == Limited(pairs, offset, limit, {p \in Range(zl) : In(p[2])})
  IN <<Limited(Follow(zsl, ln, zsl.length, reverse), offset, limit, {x \in DOMAIN dict : In(ScoreOf(zsl, x))}),
       [i \in DOMAIN found |-> found[i][1]]>>

\* ZRANGEBYLEX and ZREVRANGEBYLEX with LIMIT.
genericZrangebylexCommand(range, offset, limit, reverse) ==
  LET ln == IF reverse THEN zslLastInLexRange(zsl, range) ELSE zslFirstInLexRange(zsl, range)
      eptr == IF reverse THEN zzlLastInLexRange(zl, range) ELSE zzlFirstInLexRange(zl, range)
      In(e) == IF reverse THEN zslValueGteMin(e, range) ELSE zslValueLteMax(e, range)
      pairs == IF eptr = 0 THEN <<>> ELSE IF reverse THEN Reverse(SubSeq(zl, 1, eptr)) ELSE SubSeq(zl, eptr, Len(zl))
      found == Limited(pairs, offset, limit, {p \in Range(zl) : In(p[1])})
  IN <<Limited(Follow(zsl, ln, zsl.length, reverse), offset, limit, {e \in DOMAIN dict : In(e)}), [i \in DOMAIN found |-> found[i][1]]>>

\* The skip list counts by the ranks of the ends, the ziplist by walking.
CountByRanks(first, last) ==
  IF first = Null THEN 0
  ELSE (zsl.length - (zslGetRank(zsl, ScoreOf(zsl, first), first) - 1))
       - (IF last = Null THEN 0 ELSE zsl.length - zslGetRank(zsl, ScoreOf(zsl, last), last))
zcountCommand(range) ==
  <<CountByRanks(zslFirstInRange(zsl, range), zslLastInRange(zsl, range)),
    Len(genericZrangebyscoreCommand(range, 0, -1, FALSE)[2])>>
zlexcountCommand(range) ==
  <<CountByRanks(zslFirstInLexRange(zsl, range), zslLastInLexRange(zsl, range)),
    Len(genericZrangebylexCommand(range, 0, -1, FALSE)[2])>>

zrankGenericCommand(e, reverse) ==
  LET rank == zslGetRank(zsl, dict[e], e)
      i == zzlFind(zl, e)
  IN IF reverse THEN <<zsl.length - rank, Len(zl) - i>> ELSE <<rank - 1, i - 1>>

---------------------------------------------------------------------------
(* Properties *)

Sorted == SetToSortSeq(DOMAIN dict, LAMBDA x, y : Before(dict[x], x, dict[y], y))
Both(answer, v) == answer[1] = v /\ answer[2] = v
Turned(s, reverse) == IF reverse THEN Reverse(s) ELSE s

\* The skip list is what its code relies on at every step: the nodes of each level
\* in the order of the list, every span the distance to the next node of the level
\* (or to the end), backward pointers, tail, length and level, and the dictionary
\* and the ziplist hold the same scores.
SkiplistWellFormed ==
  LET order == Sorted
      Rank(x) == IF x = Header THEN 0 ELSE IF x = Null THEN Len(order) ELSE CHOOSE i \in DOMAIN order : order[i] = x
      Height(x) == IF x = Header THEN zsl.level ELSE Len(zsl.node[x].forward)
      Next(x, i) == {n \in DOMAIN dict : Rank(n) > Rank(x) /\ Height(n) >= i}
  IN /\ DOMAIN zsl.node = DOMAIN dict \cup {Header} /\ zsl.length = Cardinality(DOMAIN dict)
     /\ zsl.tail = IF order = <<>> THEN Null ELSE order[Len(order)]
     /\ \A x \in DOMAIN dict : zsl.node[x].score = dict[x] /\ Height(x) <= zsl.level
     /\ \A x \in DOMAIN dict : zsl.node[x].backward = IF Rank(x) = 1 THEN Null ELSE order[Rank(x) - 1]
     /\ \A x \in DOMAIN zsl.node : \A i \in 1..Height(x) :
          LET n == zsl.node[x].forward[i]
          IN /\ IF Next(x, i) = {} THEN n = Null ELSE n \in Next(x, i) /\ \A m \in Next(x, i) : Rank(n) <= Rank(m)
             /\ zsl.node[x].span[i] = Rank(n) - Rank(x)
     /\ zl = [i \in DOMAIN order |-> <<order[i], dict[order[i]]>>]

\* Every question about the set has the same answer in both encodings, the one
\* that the sorted sequence of its members gives, at every boundary.
EncodingsAgree ==
  LET order == Sorted
      n == Len(order)
      Picked(range, Val(_)) == SelectSeq(order, LAMBDA e : zslValueGteMin(Val(e), range) /\ zslValueLteMax(Val(e), range))
      Page(s, offset, limit) == SubSeq(s, offset + 1, IF limit < 0 \/ offset + limit > Len(s) THEN Len(s) ELSE offset + limit)
      Score(e) == dict[e]
  IN dict = <<>> \/  \* the key of an empty set is deleted
     /\ \A start, end \in Ranks, reverse \in BOOLEAN :
          LET r == RankRange(n, start, end)
          IN Both(zrangeGenericCommand(start, end, reverse),
                  IF r = <<>> THEN <<>> ELSE SubSeq(Turned(order, reverse), r[1] + 1, r[2] + 1))
     /\ \A e \in DOMAIN dict, reverse \in BOOLEAN :
          Both(zrankGenericCommand(e, reverse), (CHOOSE i \in 1..n : Turned(order, reverse)[i] = e) - 1)
     /\ \A range \in ScoreRanges :
          /\ Both(zcountCommand(range), Len(Picked(range, Score)))
          /\ \A offset \in 0..1, limit \in {-1, 0, 1}, reverse \in BOOLEAN :
               Both(genericZrangebyscoreCommand(range, offset, limit, reverse), Page(Turned(Picked(range, Score), reverse), offset, limit))
     /\ SameScores => \A range \in LexRanges :
          /\ Both(zlexcountCommand(range), Len(Picked(range, LAMBDA e : e)))
          /\ \A offset \in 0..1, limit \in {-1, 1}, reverse \in BOOLEAN :
               Both(genericZrangebylexCommand(range, offset, limit, reverse), Page(Turned(Picked(range, LAMBDA e : e), reverse), offset, limit))
============================================================================
