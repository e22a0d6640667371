------------------------------- MODULE Dict -------------------------------
(***************************************************************************)
(* The hash table of dict.c: two tables while it is rehashed, bucket by    *)
(* bucket, by the commands and by databasesCron of redis.c; safe iterators *)
(* and the cursors of SCAN (scanGenericCommand of db.c), which live across *)
(* commands.  A key is the number it hashes to.                            *)
(***************************************************************************)
EXTENDS Integers, Sequences, FiniteSets, SequencesExt

CONSTANTS Keys,
          DICT_HT_INITIAL_SIZE,
          EmptyVisits,             \* empty buckets a rehash step looks at, 10
          dict_force_resize_ratio, \* 5
          REDIS_HT_MINFILL,        \* in percent, 10
          CursorBits               \* of an unsigned long

ASSUME KeysAssumption == Keys \subseteq Nat
ASSUME LimitsAssumption == DICT_HT_INITIAL_SIZE \in Nat \ {0} /\ EmptyVisits \in Nat \ {0}

VARIABLES ht,         \* ht[1], ht[2]: size, table of chains, used
          rehashidx,  \* -1 when the dictionary is not rehashing
          can_resize, \* no child is saving
          iter,       \* the safe iterator, or NoIterator
          scan        \* the SCAN of a client, or NoScan

dvars == <<ht, rehashidx, can_resize, iter, scan>>

NoIterator == [on |-> FALSE]
NoScan == [on |-> FALSE, left |-> {}, shrunk |-> FALSE]
Fresh(size) == [size |-> size, table |-> [b \in 0..(size - 1) |-> <<>>], used |-> 0]
NoTable == Fresh(0)

dictCreate == [ht |-> <<NoTable, NoTable>>, rehashidx |-> -1]
Current == [ht |-> ht, rehashidx |-> rehashidx]
IsRehashing(d) == d.rehashidx # -1
dictSize(d) == d.ht[1].used + d.ht[2].used

DInit == /\ ht = dictCreate.ht /\ rehashidx = -1 /\ can_resize = TRUE
         /\ iter = NoIterator /\ scan = NoScan

---------------------------------------------------------------------------
(* Growing, shrinking, rehashing. *)

\* The initial size, doubled until it is enough.
dictNextPower(size) ==
  LET Doubled[i \in 0..size] == IF i = 0 THEN DICT_HT_INITIAL_SIZE ELSE 2 * Doubled[i - 1]
  IN Doubled[Min({i \in 0..size : Doubled[i] >= size})]

dictExpand(d, size) ==
  LET n == Fresh(dictNextPower(size))
  IN IF IsRehashing(d) \/ d.ht[1].used > size \/ n.size = d.ht[1].size THEN d
     ELSE IF d.ht[1].size = 0 THEN [d EXCEPT !.ht[1] = n]
     ELSE [ht |-> <<d.ht[1], n>>, rehashidx |-> 0]

dictResize(d) ==
  dictExpand(d, IF d.ht[1].used < DICT_HT_INITIAL_SIZE THEN DICT_HT_INITIAL_SIZE ELSE d.ht[1].used)

dictExpandIfNeeded(d) ==
  IF IsRehashing(d) THEN d
  ELSE IF d.ht[1].size = 0 THEN dictExpand(d, DICT_HT_INITIAL_SIZE)
  ELSE IF d.ht[1].used >= d.ht[1].size /\ (can_resize \/ d.ht[1].used \div d.ht[1].size > dict_force_resize_ratio)
  THEN dictExpand(d, d.ht[1].used * 2) ELSE d

\* An entry comes to the head of its chain.
Link(h, k) == [h EXCEPT !.table[k % h.size] = <<k>> \o @, !.used = @ + 1]

\* Variant: the counter of the old table is left.
MoveUncounted(d) ==
  LET old == d.ht[1]
  IN [d EXCEPT !.ht = <<[old EXCEPT !.table[d.rehashidx] = Tail(@)], Link(d.ht[2], Head(old.table[d.rehashidx]))>>]

\* The first entry of the bucket goes over.
MoveEntry(d) ==
  LET old == d.ht[1]
  IN [d EXCEPT !.ht = <<[old EXCEPT !.table[d.rehashidx] = Tail(@), !.used = @ - 1], Link(d.ht[2], Head(old.table[d.rehashidx]))>>]

MoveBucket(d) ==
  LET n == Len(d.ht[1].table[d.rehashidx])
      Moved[i \in 0..n] == IF i = 0 THEN d ELSE MoveEntry(Moved[i - 1])
  IN [Moved[n] EXCEPT !.rehashidx = @ + 1]

RehashFinished(d) ==
  IF d.ht[1].used = 0 THEN [ht |-> <<d.ht[2], NoTable>>, rehashidx |-> -1] ELSE d

\* One bucket of a call that has n to move and may visit so many empty ones.
RehashRound(r) ==
  IF r.n = 0 \/ r.visits = 0 \/ r.d.ht[1].used = 0 THEN r
  ELSE IF r.d.ht[1].table[r.d.rehashidx] # <<>> THEN [d |-> MoveBucket(r.d), n |-> r.n - 1, visits |-> r.visits]
  ELSE [d |-> [r.d EXCEPT !.rehashidx = @ + 1], n |-> r.n, visits |-> r.visits - 1]

\* There are no more rounds than buckets.
dictRehash(d, n) ==
  LET Round[i \in 0..d.ht[1].size] ==
        IF i = 0 THEN [d |-> d, n |-> n, visits |-> n * EmptyVisits] ELSE RehashRound(Round[i - 1])
      r == Round[d.ht[1].size]
  IN IF ~IsRehashing(d) THEN d ELSE IF r.visits = 0 THEN r.d ELSE RehashFinished(r.d)

\* Variant: the iterators are not asked.
StepWhileIterating(d) == dictRehash(d, 1)

\* d->iterators: the first dictNext of a safe iterator counts it.
Iterators == iter.on /\ ~(iter.index = -1 /\ iter.table = 1)

dictRehashStep(d) == IF Iterators THEN d ELSE dictRehash(d, 1)

---------------------------------------------------------------------------
(* Keys. *)

Tables(d) == IF IsRehashing(d) THEN 1..2 ELSE {1}
Chain(d, t, k) == d.ht[t].table[k % d.ht[t].size]
Has(d, k) == \E t \in Tables(d) : k \in ToSet(Chain(d, t, k))

\* dictAddRaw: into the new table while there are two.
dictAdd(d0, k) ==
  LET d == dictExpandIfNeeded(dictRehashStep(d0))
      t == IF IsRehashing(d) THEN 2 ELSE 1
  IN IF Has(d, k) THEN d ELSE [d EXCEPT !.ht[t] = Link(@, k)]

Unlink(h, k) ==
  LET chain == h.table[k % h.size]
  IN [h EXCEPT !.table[k % h.size] = RemoveAt(chain, CHOOSE i \in DOMAIN chain : chain[i] = k), !.used = @ - 1]

dictGenericDelete(d0, k) ==
  LET d == dictRehashStep(d0)
      t == CHOOSE u \in Tables(d) : k \in ToSet(Chain(d, u, k))
  IN IF d0.ht[1].size = 0 THEN d0
     ELSE IF ~Has(d, k) THEN d
     ELSE [d EXCEPT !.ht[t] = Unlink(@, k)]

dictFind(d, k) == IF d.ht[1].size = 0 THEN d ELSE dictRehashStep(d)

Set(d) == ht' = d.ht /\ rehashidx' = d.rehashidx

\* left: the keys that were there at the beginning and that were not returned yet.
Dropped(r, k) == IF r.on THEN [r EXCEPT !.left = @ \ {k}] ELSE r

Add(k) == Set(dictAdd(Current, k)) /\ UNCHANGED <<can_resize, iter, scan>>
Delete(k) ==
  /\ iter.on => iter.entry = <<k>>
  /\ Set(dictGenericDelete(Current, k)) /\ scan' = Dropped(scan, k)
  /\ iter' = IF iter.on THEN [Dropped(iter, k) EXCEPT !.returned = @ \ {k}] ELSE iter
  /\ UNCHANGED can_resize
Find(k) == Set(dictFind(Current, k)) /\ UNCHANGED <<can_resize, iter, scan>>
dictEmpty ==
  /\ ~iter.on /\ Set(dictCreate) /\ scan' = IF scan.on THEN [scan EXCEPT !.left = {}] ELSE scan
  /\ UNCHANGED <<can_resize, iter>>

---------------------------------------------------------------------------
(* databasesCron, between commands. *)

htNeedsResize(d) ==
  LET slots == d.ht[1].size + d.ht[2].size
  IN dictSize(d) > 0 /\ slots > DICT_HT_INITIAL_SIZE /\ (dictSize(d) * 100) \div slots < REDIS_HT_MINFILL

tryResizeHashTables ==
  /\ ~iter.on /\ can_resize /\ htNeedsResize(Current) /\ ~IsRehashing(Current)
  /\ Set(dictResize(Current))
  /\ scan' = IF scan.on THEN [scan EXCEPT !.shrunk = TRUE] ELSE scan
  /\ UNCHANGED <<can_resize, iter>>

incrementallyRehash ==
  /\ ~iter.on /\ can_resize /\ IsRehashing(Current)
  /\ Set(dictRehash(Current, 100))
  /\ UNCHANGED <<can_resize, iter, scan>>

updateDictResizePolicy == ~iter.on /\ can_resize' = ~can_resize /\ UNCHANGED <<ht, rehashidx, iter, scan>>

---------------------------------------------------------------------------
(* A safe iterator: from its first step on it stops the rehashing, not the *)
(* growth of the table.                                                    *)
(* The entry it is at may be deleted, so it holds the next one.            *)

KeysIn(h) == UNION {ToSet(h.table[b]) : b \in DOMAIN h.table}
ToKeys(d) == KeysIn(d.ht[1]) \cup KeysIn(d.ht[2])

dictGetSafeIterator ==
  /\ ~iter.on /\ ~scan.on  \* bound: one or the other
  /\ iter' = [on |-> TRUE, table |-> 1, index |-> -1, entry |-> <<>>, next |-> <<>>, left |-> ToKeys(Current), returned |-> {}, twice |-> FALSE]
  /\ UNCHANGED <<ht, rehashidx, can_resize, scan>>

\* The chain from the next bucket that has one, <<table, index, chain>>, or <<>>.
NextBucket(t, b) ==
  LET Filled(u, from) == {i \in from..(ht[u].size - 1) : ht[u].table[i] # <<>>}
      At(u, i) == <<u, i, ht[u].table[i]>>
  IN IF Filled(t, b) # {} THEN At(t, Min(Filled(t, b)))
     ELSE IF IsRehashing(Current) /\ t = 1 /\ Filled(2, 0) # {} THEN At(2, Min(Filled(2, 0))) ELSE <<>>

Return(chain) == [iter EXCEPT !.entry = <<Head(chain)>>, !.next = Tail(chain), !.left = @ \ {Head(chain)},
                              !.returned = IF Head(chain) \in iter.left THEN @ \cup {Head(chain)} ELSE @,
                              !.twice = @ \/ Head(chain) \in iter.returned]

dictNext ==
  /\ iter.on
  /\ IF iter.entry # <<>> /\ iter.next # <<>> THEN iter' = Return(iter.next)
     ELSE LET at == NextBucket(iter.table, iter.index + 1)
          IN IF at = <<>> THEN iter' = NoIterator ELSE iter' = [Return(at[3]) EXCEPT !.table = at[1], !.index = at[2]]
  /\ UNCHANGED <<ht, rehashidx, can_resize, scan>>

---------------------------------------------------------------------------
(* SCAN. *)

Width == 2^CursorBits
\* The bits of the cursor in the reverse order.
rev(v) == FoldLeft(LAMBDA acc, i : acc * 2 + ((v \div 2^i) % 2), 0, [i \in 1..CursorBits |-> i - 1])

\* All the bits above the mask are set, then the reversed cursor is incremented.
NextCursor(v, size) == rev((rev((v % size) + (Width - size)) + 1) % Width)

\* Variant: one bucket of the larger table only.
OneBucket(v, small, large) == {v % large}

\* The expansions of the cursor into the larger table: the bucket, and those that
\* follow it until the bits the smaller table does not have are all 0 again.
Expansions(v, small, large) ==
  LET ratio == large \div small
  IN {(v % small) + j * small : j \in ((v \div small) % ratio)..(ratio - 1)}

\* <<keys, next cursor>>
dictScan(d, v) ==
  LET small == IF d.ht[1].size > d.ht[2].size THEN 2 ELSE 1
      large == 3 - small
      m == d.ht[small].size
  IN IF dictSize(d) = 0 THEN <<{}, 0>>
     ELSE IF ~IsRehashing(d) THEN <<ToSet(d.ht[1].table[v % d.ht[1].size]), NextCursor(v, d.ht[1].size)>>
     ELSE <<ToSet(d.ht[small].table[v % m]) \cup UNION {ToSet(d.ht[large].table[b]) : b \in Expansions(v, m, d.ht[large].size)},
            NextCursor(v, m)>>

\* COUNT 1: buckets until one has keys, or the visits are used up.
ScanLoop(d, v) ==
  LET Calls[i \in 0..EmptyVisits] ==
        IF i = 0 THEN dictScan(d, v)
        ELSE LET step == Calls[i - 1] IN IF step[2] = 0 \/ step[1] # {} THEN step ELSE dictScan(d, step[2])
  IN Calls[EmptyVisits]

scanGenericCommand ==
  /\ ~iter.on
  /\ LET from == IF scan.on THEN scan ELSE [on |-> TRUE, cursor |-> 0, left |-> ToKeys(Current), shrunk |-> FALSE]
         step == ScanLoop(Current, from.cursor)
     IN scan' = IF step[2] = 0 THEN [on |-> FALSE, left |-> from.left \ step[1], shrunk |-> from.shrunk]
               ELSE [from EXCEPT !.left = @ \ step[1], !.cursor = step[2]]
  /\ UNCHANGED <<ht, rehashidx, can_resize, iter>>

DNext == \/ \E k \in Keys : Add(k) \/ Delete(k) \/ Find(k)
         \/ dictEmpty \/ tryResizeHashTables \/ incrementallyRehash \/ updateDictResizePolicy
         \/ dictGetSafeIterator \/ dictNext \/ scanGenericCommand

DSpec == DInit /\ [][DNext]_dvars

---------------------------------------------------------------------------
(* Properties *)

\* In the middle of a rehash too, every key is in one bucket, the one its hash names,
\* the buckets below rehashidx are empty (dictGetRandomKey and dictGetSomeKeys skip
\* them), the counters count the entries, and rehashidx is a bucket of the table that is
\* moved, as dictRehash asserts before it looks there.
DictWellFormed ==
  /\ \A t \in 1..2 : ht[t].used = Cardinality(KeysIn(ht[t]))
  /\ \A t \in 1..2 : \A b \in DOMAIN ht[t].table :
       IsInjective(ht[t].table[b]) /\ \A k \in ToSet(ht[t].table[b]) : k % ht[t].size = b
  /\ KeysIn(ht[1]) \cap KeysIn(ht[2]) = {}
  /\ IF IsRehashing(Current)
     THEN rehashidx < ht[1].size /\ ht[2].size > 0 /\ \A b \in 0..(rehashidx - 1) : ht[1].table[b] = <<>>
     ELSE ht[2] = NoTable

\* A scan that ended returned every key that was in the table from its first call to
\* its last, however the table grew and was rehashed in between.  Shrinking excuses
\* it: the cursor of the larger table does not carry over.
ScanReturnsAll == ~scan.on /\ ~scan.shrunk => scan.left = {}

\* The same without the excuse, as dict.c:774-775 has it: "The function guarantees all
\* elements present in the dictionary get returned between the start and end of the
\* iteration."  Violated: the table is shrunk between two calls of SCAN.
ScanGuarantee == ~scan.on => scan.left = {}

\* A safe iterator returns the keys that were there from the beginning at most once,
\* and at the end all of them, while keys are added and the current one is deleted.
IteratorExact ==
  iter.on => ~iter.twice /\ (iter.next = <<>> /\ NextBucket(iter.table, iter.index + 1) = <<>> => iter.left = {})
============================================================================
