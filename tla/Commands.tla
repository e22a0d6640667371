----------------------------- MODULE Commands -----------------------------
(***************************************************************************)
(* The commands of a Redis server, as steps of a server record s:          *)
(*   dict, expires   the keyspace; a key is <<number of its db, name>>     *)
(*   role            master, slave or loading                              *)
(*   now             the clock of this server                              *)
(*   argv            the command, as call() will propagate it              *)
(*   dirty           the changes counted by this command                   *)
(*   touched         keys given to signalModifiedKey                       *)
(*   silent          keys changed without a call of it                     *)
(*   out             what was handed to propagate(), in order              *)
(*   blocked, ready  blocked clients in order, server.ready_keys           *)
(*   multi           the client runs a transaction                         *)
(* Every command is an operator of the server and the command record, and  *)
(* one dispatch table, Proc, finds it, on a master, on a slave that is fed *)
(* by its master and on a server that loads its append only file.          *)
(***************************************************************************)
EXTENDS Objects

Has(s, k) == k \in DOMAIN s.dict
Is(s, k, type) == Has(s, k) /\ s.dict[k].type = type
OfType(s, k, type) == Has(s, k) => s.dict[k].type = type
Value(s, k) == s.dict[k].v

Dirty(s, n) == [s EXCEPT !.dirty = @ + n]
Rewrite(s, cmd) == [s EXCEPT !.argv = cmd]
propagate(s, cmd) == [s EXCEPT !.out = Append(@, cmd)]
signalModifiedKey(s, k) == [s EXCEPT !.touched = @ \cup {k}]

Drop(f, k) == [x \in DOMAIN f \ {k} |-> f[x]]

Del(k) == [name |-> "del", key |-> k]

---------------------------------------------------------------------------
(* db.c: the keyspace. *)

signalListAsReady(s, k) ==
  IF (\E i \in DOMAIN s.blocked : k \in s.blocked[i].keys) /\ k \notin ToSet(s.ready)
  THEN [s EXCEPT !.ready = Append(@, k)] ELSE s

\* Variant: a list that appears wakes up nobody.
AddQuietly(s, k, o) == [s EXCEPT !.dict = (k :> o) @@ @]

dbAdd(s, k, o) ==
  LET t == [s EXCEPT !.dict = (k :> o) @@ @] IN IF o.type = "list" THEN signalListAsReady(t, k) ELSE t

dbOverwrite(s, k, o) == [s EXCEPT !.dict[k] = o]

dbDelete(s, k) == [s EXCEPT !.dict = Drop(@, k), !.expires = Drop(@, k)]

setExpire(s, k, when) == [s EXCEPT !.expires = (k :> when) @@ @]
removeExpire(s, k) == [s EXCEPT !.expires = Drop(@, k)]

\* Past its time; the return value of expireIfNeeded on a master or a slave.
Expired(s, k) == k \in DOMAIN s.expires /\ s.role # "loading" /\ s.now > s.expires[k]

\* Variant: the followers are not told of a key that expires.
ExpireQuietly(s, k) ==
  IF Expired(s, k) /\ s.role = "master" THEN [dbDelete(s, k) EXCEPT !.silent = @ \cup {k}] ELSE s

\* Only a master deletes a key that is past its time, and tells its followers.
expireIfNeeded(s, k) ==
  IF Expired(s, k) /\ s.role = "master"
  THEN [dbDelete(propagate(s, Del(k)), k) EXCEPT !.silent = @ \cup {k}] ELSE s

\* lookupKeyRead and lookupKeyWrite: what they do to the keyspace.
lookupKey(s, k) == expireIfNeeded(s, k)
lookupKeys(s, keys) == FoldLeft(lookupKey, s, keys)

\* The commands with several sources stop at the first of a wrong type.
LookupSources(s, keys, types) ==
  LET t == lookupKey(s, keys[1])
  IN IF Has(t, keys[1]) /\ t.dict[keys[1]].type \notin types THEN t ELSE lookupKey(t, keys[2])

setKey(s, k, o) ==
  LET t == lookupKey(s, k)
  IN signalModifiedKey(removeExpire(IF Has(t, k) THEN dbOverwrite(t, k, o) ELSE dbAdd(t, k, o), k), k)

\* Variant: an empty list stays.
KeepEmpty(s, k, o) == dbOverwrite(s, k, o)

\* Commands leave an object that became empty out of the keyspace.
Keep(s, k, o) == IF Len(o.v) = 0 THEN dbDelete(s, k) ELSE dbOverwrite(s, k, o)
KeepSet(s, k, o) == IF o.v = {} THEN dbDelete(s, k) ELSE dbOverwrite(s, k, o)
KeepMap(s, k, o) == IF DOMAIN o.v = {} THEN dbDelete(s, k) ELSE dbOverwrite(s, k, o)

readCommand(s, c) == lookupKey(s, c.key)

delCommand(s, c) ==
  LET t == expireIfNeeded(s, c.key)
  IN IF Has(t, c.key) THEN Dirty(signalModifiedKey(dbDelete(t, c.key), c.key), 1) ELSE t

flushdbCommand(s, c) ==
  LET keys == {k \in DOMAIN s.dict : k[1] = c.key[1]}
  IN [s EXCEPT !.dict = [k \in DOMAIN @ \ keys |-> @[k]], !.expires = [k \in DOMAIN @ \ keys |-> @[k]],
               !.dirty = @ + Cardinality(keys), !.touched = @ \cup keys]

flushallCommand(s, c) ==
  [s EXCEPT !.dict = <<>>, !.expires = <<>>, !.dirty = @ + Cardinality(DOMAIN s.dict) + 1, !.touched = @ \cup DOMAIN s.dict]

\* RENAME and RENAMENX (c.nx): the time to live goes with the value.
renameGenericCommand(s, c) ==
  LET t == lookupKey(s, c.key)
      u == lookupKey(t, c.dst)
      o == t.dict[c.key]
      v == IF Has(u, c.dst) THEN dbDelete(u, c.dst) ELSE u
      w == dbAdd(v, c.dst, o)
      x == IF c.key \in DOMAIN t.expires THEN setExpire(w, c.dst, t.expires[c.key]) ELSE w
  IN IF c.key = c.dst THEN s
     ELSE IF ~Has(t, c.key) THEN t
     ELSE IF c.nx /\ Has(u, c.dst) THEN u
     ELSE Dirty(signalModifiedKey(signalModifiedKey(dbDelete(x, c.key), c.key), c.dst), 1)

\* MOVE to another db, which calls signalModifiedKey for neither key.
moveCommand(s, c) ==
  LET t == lookupKey(s, c.key)
      u == lookupKey(t, c.dst)
      o == t.dict[c.key]
      w == dbAdd(u, c.dst, o)
      x == IF c.key \in DOMAIN t.expires THEN setExpire(w, c.dst, t.expires[c.key]) ELSE w
  IN IF ~Has(t, c.key) THEN t ELSE IF Has(u, c.dst) THEN u
     ELSE [Dirty(dbDelete(x, c.key), 1) EXCEPT !.silent = @ \cup {c.key, c.dst}]

\* EXPIRE, PEXPIRE, EXPIREAT, PEXPIREAT: relative to the clock or not.  A time
\* that has passed is a deletion on a master, told as DEL.
expireGenericCommand(s, c) ==
  LET when == IF c.name = "expire" THEN s.now + c.n ELSE c.n
      t == lookupKey(s, c.key)
  IN IF ~Has(t, c.key) THEN t
     ELSE IF when <= s.now /\ s.role = "master"
     THEN signalModifiedKey(Rewrite(Dirty(dbDelete(t, c.key), 1), Del(c.key)), c.key)
     ELSE Dirty(signalModifiedKey(setExpire(t, c.key, when), c.key), 1)

\* PERSIST looks at the key without lookupKey and signals nothing.
persistCommand(s, c) == IF c.key \in DOMAIN s.expires THEN Dirty(removeExpire(s, c.key), 1) ELSE s

---------------------------------------------------------------------------
(* t_string.c *)

\* SET with NX, XX, EX: c.flag is none, nx or xx; c.ttl is 0 without EX.
setGenericCommand(s, c) ==
  LET t == IF c.flag = "none" THEN s ELSE lookupKey(s, c.key)
      u == Dirty(setKey(t, c.key, tryObjectEncoding(c.val)), 1)
  IN IF (c.flag = "nx" /\ Has(t, c.key)) \/ (c.flag = "xx" /\ ~Has(t, c.key)) THEN t
     ELSE IF c.ttl > 0 THEN setExpire(u, c.key, s.now + c.ttl) ELSE u

getsetCommand(s, c) ==
  LET t == lookupKey(s, c.key)
  IN IF OfType(t, c.key, "string") THEN Dirty(setKey(t, c.key, tryObjectEncoding(c.val)), 1) ELSE t

\* Changes to a string in place leave it raw.
Raw(str) == Obj("string", "raw", str)

setrangeCommand(s, c) ==
  LET t == lookupKey(s, c.key)
      old == IF Has(t, c.key) THEN Value(t, c.key) ELSE <<>>
      o == Raw(SetRange(old, c.n, c.val))
  IN IF ~OfType(t, c.key, "string") \/ c.val = <<>> \/ c.n + Len(c.val) > MaxStringLength THEN t
     ELSE Dirty(signalModifiedKey(IF Has(t, c.key) THEN dbOverwrite(t, c.key, o) ELSE dbAdd(t, c.key, o), c.key), 1)

appendCommand(s, c) ==
  LET t == lookupKey(s, c.key)
  IN IF ~Has(t, c.key) THEN Dirty(signalModifiedKey(dbAdd(t, c.key, tryObjectEncoding(c.val)), c.key), 1)
     ELSE IF ~Is(t, c.key, "string") THEN t
     ELSE LET str == Value(t, c.key) \o c.val
          IN IF Len(str) > MaxStringLength THEN t
             ELSE Dirty(signalModifiedKey(dbOverwrite(t, c.key, Raw(str)), c.key), 1)

\* INCR, DECR, INCRBY, DECRBY: refused when the result overflows.
incrDecrCommand(s, c) ==
  LET t == lookupKey(s, c.key)
      old == IF Has(t, c.key) THEN string2ll(Value(t, c.key)) ELSE 0
      o == createStringObjectFromLongLong(old + c.n)
  IN IF ~OfType(t, c.key, "string") THEN t
     ELSE IF old = NotLL \/ old + c.n \notin 0..LLMax THEN t
     ELSE Dirty(signalModifiedKey(IF Has(t, c.key) THEN dbOverwrite(t, c.key, o) ELSE dbAdd(t, c.key, o), c.key), 1)

\* INCRBYFLOAT is told to the followers as a SET of the result.
incrbyfloatCommand(s, c) ==
  LET t == incrDecrCommand(s, c)
  IN IF t.dirty = s.dirty THEN t
     ELSE Rewrite([t EXCEPT !.dict[c.key].enc = "embstr"],
                  [name |-> "set", key |-> c.key, val |-> Value(t, c.key), flag |-> "none", ttl |-> 0])

\* MSET and MSETNX (c.nx) of two keys.
msetGenericCommand(s, c) ==
  LET t == IF c.nx THEN lookupKeys(s, <<c.key, c.dst>>) ELSE s
      SetOne(u, k) == setKey(u, k, tryObjectEncoding(c.val))
  IN IF c.nx /\ (Has(t, c.key) \/ Has(t, c.dst)) THEN t
     ELSE Dirty(FoldLeft(SetOne, t, <<c.key, c.dst>>), 2)

---------------------------------------------------------------------------
(* t_list.c *)

pushGenericCommand(s, c) ==
  LET t == lookupKey(s, c.key)
      u == IF Has(t, c.key) THEN t ELSE dbAdd(t, c.key, createZiplistObject)
      Push(o, e) == listTypePush(o, e, c.where)
  IN IF ~OfType(t, c.key, "list") THEN t
     ELSE Dirty(signalModifiedKey(dbOverwrite(u, c.key, FoldLeft(Push, u.dict[c.key], c.elems)), c.key), Len(c.elems))

\* LPUSHX, RPUSHX (without a pivot) and LINSERT.
pushxGenericCommand(s, c) ==
  LET t == lookupKey(s, c.key)
      o == t.dict[c.key]
      p == listTypeTryConversion(o, c.elem)
  IN IF ~Is(t, c.key, "list") THEN t
     ELSE IF c.name = "pushx"
     THEN Dirty(signalModifiedKey(dbOverwrite(t, c.key, listTypePush(o, c.elem, c.where)), c.key), 1)
     ELSE IF c.pivot \notin ToSet(o.v) THEN dbOverwrite(t, c.key, p)
     ELSE Dirty(signalModifiedKey(dbOverwrite(t, c.key, listTypeInsert(p, c.pivot, c.elem, c.where)), c.key), 1)

lsetCommand(s, c) ==
  LET t == lookupKey(s, c.key)
      o == listTypeTryConversion(t.dict[c.key], c.elem)
      i == listTypeIndex(o, c.n)
  IN IF ~Is(t, c.key, "list") THEN t
     ELSE IF i = 0 THEN dbOverwrite(t, c.key, o)
     ELSE Dirty(signalModifiedKey(dbOverwrite(t, c.key, [o EXCEPT !.v[i] = c.elem]), c.key), 1)

\* Variant: a pop does not flag the clients that watch the key.
PopUnwatched(s, c) ==
  LET t == lookupKey(s, c.key)
  IN IF ~Is(t, c.key, "list") THEN t ELSE Dirty(Keep(t, c.key, listTypePop(t.dict[c.key], c.where)), 1)

popGenericCommand(s, c) ==
  LET t == lookupKey(s, c.key)
  IN IF ~Is(t, c.key, "list") THEN t
     ELSE Dirty(signalModifiedKey(Keep(t, c.key, listTypePop(t.dict[c.key], c.where)), c.key), 1)

ltrimCommand(s, c) ==
  LET t == lookupKey(s, c.key)
      o == t.dict[c.key]
      kept == RangeOf(Len(o.v), c.start, c.end)
  IN IF ~Is(t, c.key, "list") THEN t
     ELSE Dirty(signalModifiedKey(Keep(t, c.key, [o EXCEPT !.v = Without(@, DOMAIN @ \ kept)]), c.key), 1)

lremCommand(s, c) ==
  LET t == lookupKey(s, c.key)
      o == t.dict[c.key]
      gone == RemovedPositions(o, c.elem, c.n)
      u == Keep(t, c.key, [o EXCEPT !.v = Without(@, gone)])
  IN IF ~Is(t, c.key, "list") THEN t
     ELSE Dirty(IF gone # {} THEN signalModifiedKey(u, c.key) ELSE u, Cardinality(gone))

\* The destination of RPOPLPUSH may be the source itself.
rpoplpushHandlePush(s, dst, e) ==
  LET t == IF Has(s, dst) THEN s ELSE dbAdd(s, dst, createZiplistObject)
  IN signalModifiedKey(dbOverwrite(t, dst, listTypePush(t.dict[dst], e, "head")), dst)

rpoplpushCommand(s, c) ==
  LET t == lookupKey(s, c.key)
      u == lookupKey(t, c.dst)
      e == PopValue(t.dict[c.key], "tail")
      v == rpoplpushHandlePush(dbOverwrite(u, c.key, listTypePop(t.dict[c.key], "tail")), c.dst, e)
  IN IF ~Is(t, c.key, "list") THEN t
     ELSE IF ~OfType(u, c.dst, "list") THEN u
     ELSE Dirty(signalModifiedKey(Keep(v, c.key, v.dict[c.key]), c.key), 1)

\* BLPOP and BRPOP: the first key that holds a list is popped, told as LPOP or
\* RPOP; with none the client blocks, except in a transaction.
block(s, c, keys, target) ==
  IF s.multi THEN s
  ELSE [s EXCEPT !.blocked = Append(@, [client |-> c.client, keys |-> keys, target |-> target, where |-> c.where])]

blockingPopGenericCommand(s, c) ==
  LET t == lookupKey(s, c.keys[1])
      u == IF Has(t, c.keys[1]) THEN t ELSE lookupKey(t, c.keys[2])
      k == IF Has(t, c.keys[1]) THEN c.keys[1] ELSE c.keys[2]
      pop == [name |-> "pop", key |-> k, where |-> c.where]
  IN IF ~Has(u, k) THEN block(u, c, ToSet(c.keys), <<>>) ELSE Rewrite(popGenericCommand(u, pop), pop)

brpoplpushCommand(s, c) ==
  LET t == lookupKey(s, c.key)
  IN IF Has(t, c.key) THEN rpoplpushCommand(t, c) ELSE block(t, c, {c.key}, c.dst)

\* SORT ... LIMIT ... STORE of a list, a set or a sorted set of integers.
sortCommand(s, c) ==
  LET t == lookupKey(s, c.key)
      vector == IF Has(t, c.key) THEN SortedVector(t.dict[c.key], c.desc) ELSE <<>>
      kept == SortLimit(Len(vector), c.start, c.n)
      u == IF Is(t, c.key, "zset") THEN [t EXCEPT !.dict[c.key].enc = "skiplist"] ELSE t
      Push(o, e) == listTypePush(o, e, "tail")
      stored == FoldLeft(Push, createZiplistObject, Without(vector, DOMAIN vector \ kept))
  IN IF Has(t, c.key) /\ t.dict[c.key].type \notin {"list", "set", "zset"} THEN t
     ELSE IF ~(ToSet(vector) \subseteq IntElems) THEN u
     ELSE IF kept # {} THEN Dirty(setKey(u, c.dst, stored), Cardinality(kept))
     ELSE IF Has(u, c.dst) THEN Dirty(signalModifiedKey(dbDelete(u, c.dst), c.dst), 1) ELSE u

---------------------------------------------------------------------------
(* t_set.c *)

saddCommand(s, c) ==
  LET t == lookupKey(s, c.key)
      u == IF Has(t, c.key) THEN t ELSE dbAdd(t, c.key, setTypeCreate(c.elems[1]))
      added == Cardinality(ToSet(c.elems) \ Value(u, c.key))
      v == dbOverwrite(u, c.key, FoldLeft(setTypeAdd, u.dict[c.key], c.elems))
  IN IF ~OfType(t, c.key, "set") THEN t
     ELSE IF added = 0 THEN v ELSE Dirty(signalModifiedKey(v, c.key), added)

sremCommand(s, c) ==
  LET t == lookupKey(s, c.key)
      deleted == Cardinality(ToSet(c.elems) \cap Value(t, c.key))
      u == KeepSet(t, c.key, FoldLeft(setTypeRemove, t.dict[c.key], c.elems))
  IN IF ~Is(t, c.key, "set") THEN t
     ELSE IF deleted = 0 THEN t ELSE Dirty(signalModifiedKey(u, c.key), deleted)

smoveCommand(s, c) ==
  LET t == lookupKeys(s, <<c.key, c.dst>>)
      u == KeepSet(t, c.key, setTypeRemove(t.dict[c.key], c.elem))
      v == Dirty(signalModifiedKey(signalModifiedKey(u, c.key), c.dst), 1)
      w == IF Has(v, c.dst) THEN v ELSE dbAdd(v, c.dst, setTypeCreate(c.elem))
      new == c.elem \notin Value(w, c.dst)
  IN IF ~Is(t, c.key, "set") \/ ~OfType(t, c.dst, "set") THEN t
     ELSE IF c.key = c.dst \/ c.elem \notin Value(t, c.key) THEN t
     ELSE Dirty(dbOverwrite(w, c.dst, setTypeAdd(w.dict[c.dst], c.elem)), IF new THEN 1 ELSE 0)

\* SPOP of the random element c.elem, told as SREM.
spopCommand(s, c) ==
  LET t == lookupKey(s, c.key)
  IN IF ~Is(t, c.key, "set") THEN t ELSE IF c.elem \notin Value(t, c.key) THEN t
     ELSE Rewrite(Dirty(signalModifiedKey(KeepSet(t, c.key, setTypeRemove(t.dict[c.key], c.elem)), c.key), 1),
                  [name |-> "srem", key |-> c.key, elems |-> <<c.elem>>])

\* The result of a STORE replaces the destination, or removes it when empty.
StoreSet(s, dst, elems) ==
  LET t == dbDelete(s, dst)
      u == IF elems = {} THEN t ELSE dbAdd(t, dst, SetTypeAddAll(createIntsetObject, elems))
  IN Dirty(signalModifiedKey(u, dst), 1)

sinterGenericCommand(s, c) ==
  LET t == lookupKey(s, c.keys[1])
      u == IF Has(t, c.keys[1]) THEN lookupKey(t, c.keys[2]) ELSE t
      missing == ~Has(t, c.keys[1]) \/ (Is(t, c.keys[1], "set") /\ ~Has(u, c.keys[2]))
  IN IF missing THEN IF Has(u, c.key) THEN Dirty(signalModifiedKey(dbDelete(u, c.key), c.key), 1) ELSE u
     ELSE IF ~Is(t, c.keys[1], "set") THEN t
     ELSE IF ~Is(u, c.keys[2], "set") THEN u
     ELSE StoreSet(u, c.key, sinter(<<Value(u, c.keys[1]), Value(u, c.keys[2])>>))

\* SUNIONSTORE and SDIFFSTORE: a missing key is an empty set.
sunionDiffGenericCommand(s, c) ==
  LET t == LookupSources(s, c.keys, {"set"})
      sets == [i \in DOMAIN c.keys |-> IF Has(t, c.keys[i]) THEN Value(t, c.keys[i]) ELSE {}]
  IN IF \E i \in DOMAIN c.keys : ~OfType(t, c.keys[i], "set") THEN t
     ELSE StoreSet(t, c.key, IF c.name = "sunionstore" THEN sunion(sets) ELSE sdiff(sets))

---------------------------------------------------------------------------
(* t_hash.c *)

hashTypeLookupWriteOrCreate(s, k) ==
  LET t == lookupKey(s, k) IN IF Has(t, k) THEN t ELSE dbAdd(t, k, createHashObject)

hsetCommand(s, c) ==
  LET t == hashTypeLookupWriteOrCreate(s, c.key)
      o == hashTypeTryConversion(t.dict[c.key], {c.field})
  IN IF ~Is(t, c.key, "hash") THEN t
     ELSE IF c.name = "hsetnx" /\ c.field \in DOMAIN o.v THEN dbOverwrite(t, c.key, o)
     ELSE Dirty(signalModifiedKey(dbOverwrite(t, c.key, hashTypeSet(o, c.field, c.v)), c.key), 1)

\* HMSET of two fields.
hmsetCommand(s, c) ==
  LET t == hashTypeLookupWriteOrCreate(s, c.key)
      o == hashTypeTryConversion(t.dict[c.key], {c.field, c.field2})
  IN IF ~Is(t, c.key, "hash") THEN t
     ELSE Dirty(signalModifiedKey(dbOverwrite(t, c.key, hashTypeSet(hashTypeSet(o, c.field, c.v), c.field2, c.v)), c.key), 1)

\* HINCRBY does not look at the length of the field.
hincrbyCommand(s, c) ==
  LET t == hashTypeLookupWriteOrCreate(s, c.key)
      o == t.dict[c.key]
      old == IF c.field \in DOMAIN o.v THEN o.v[c.field] ELSE 0
  IN IF ~Is(t, c.key, "hash") THEN t
     ELSE IF old = Letter \/ old + c.n \notin 0..LLMax THEN t
     ELSE Dirty(signalModifiedKey(dbOverwrite(t, c.key, hashTypeSet(o, c.field, old + c.n)), c.key), 1)

\* HINCRBYFLOAT is told as a HSET of the result.
hincrbyfloatCommand(s, c) ==
  LET t == hincrbyCommand(s, c)
  IN IF t.dirty = s.dirty THEN t
     ELSE Rewrite(t, [name |-> "hset", key |-> c.key, field |-> c.field, v |-> Value(t, c.key)[c.field]])

hdelCommand(s, c) ==
  LET t == lookupKey(s, c.key)
  IN IF ~Is(t, c.key, "hash") THEN t ELSE IF c.field \notin DOMAIN Value(t, c.key) THEN t
     ELSE Dirty(signalModifiedKey(KeepMap(t, c.key, hashTypeDelete(t.dict[c.key], c.field)), c.key), 1)

---------------------------------------------------------------------------
(* t_zset.c *)

\* ZADD with NX, XX, INCR (c.flag) and ZINCRBY.
zaddGenericCommand(s, c) ==
  LET t == lookupKey(s, c.key)
      u == IF Has(t, c.key) THEN t ELSE dbAdd(t, c.key, createZset(c.elem))
      o == u.dict[c.key]
      has == c.elem \in DOMAIN o.v
      score == IF has /\ c.flag = "incr" THEN o.v[c.elem] + c.n ELSE c.n
  IN IF ~OfType(t, c.key, "zset") THEN t
     ELSE IF ~Has(t, c.key) /\ c.flag = "xx" THEN t
     ELSE IF has /\ (c.flag = "nx" \/ o.v[c.elem] = score) THEN t
     ELSE IF ~has /\ c.flag = "xx" THEN t
     ELSE Dirty(signalModifiedKey(dbOverwrite(u, c.key, zsetInsert(o, c.elem, score)), c.key), 1)

zremCommand(s, c) ==
  LET t == lookupKey(s, c.key)
  IN IF ~Is(t, c.key, "zset") THEN t ELSE IF c.elem \notin DOMAIN Value(t, c.key) THEN t
     ELSE Dirty(signalModifiedKey(KeepMap(t, c.key, zsetRemove(t.dict[c.key], {c.elem})), c.key), 1)

\* ZREMRANGEBYRANK, ZREMRANGEBYSCORE.
zremrangeGenericCommand(s, c) ==
  LET t == lookupKey(s, c.key)
      o == t.dict[c.key]
      order == zsetOrder(o.v)
      gone == IF c.name = "zremrangebyrank" THEN {order[i] : i \in RangeOf(Len(order), c.start, c.end)}
              ELSE {e \in DOMAIN o.v : c.start <= o.v[e] /\ o.v[e] <= c.end}
  IN IF ~Is(t, c.key, "zset") THEN t ELSE IF gone = {} THEN t
     ELSE Dirty(signalModifiedKey(KeepMap(t, c.key, zsetRemove(o, gone)), c.key), Cardinality(gone))

\* ZUNIONSTORE and ZINTERSTORE of sorted sets and sets.
zunionInterGenericCommand(s, c) ==
  LET t == LookupSources(s, c.keys, {"zset", "set"})
      Scores(k) == IF ~Has(t, k) THEN <<>>
                   ELSE IF Is(t, k, "set") THEN [e \in Value(t, k) |-> 1] ELSE Value(t, k)
      \* the smaller source first, each with its weight
      order == IF Cardinality(DOMAIN Scores(c.keys[1])) <= Cardinality(DOMAIN Scores(c.keys[2])) THEN <<1, 2>> ELSE <<2, 1>>
      v == zunioninter([i \in 1..2 |-> Scores(c.keys[order[i]])], [i \in 1..2 |-> c.weights[order[i]]], c.aggregate, c.op)
      u == IF Has(t, c.key) THEN Dirty(signalModifiedKey(dbDelete(t, c.key), c.key), 1) ELSE t
  IN IF \E i \in 1..2 : Has(t, c.keys[i]) /\ t.dict[c.keys[i]].type \notin {"zset", "set"} THEN t
     ELSE IF DOMAIN v = {} THEN u
     ELSE Dirty(signalModifiedKey(dbAdd(u, c.key, zsetStored(v)), c.key), 1)

---------------------------------------------------------------------------
(* redis.c: the command table, with the write commands. *)

Proc(s, c) ==
  CASE c.name = "read" -> readCommand(s, c)
    [] c.name = "del" -> delCommand(s, c)
    [] c.name = "flushdb" -> flushdbCommand(s, c)
    [] c.name = "flushall" -> flushallCommand(s, c)
    [] c.name = "rename" -> renameGenericCommand(s, c)
    [] c.name = "move" -> moveCommand(s, c)
    [] c.name \in {"expire", "pexpireat"} -> expireGenericCommand(s, c)
    [] c.name = "persist" -> persistCommand(s, c)
    [] c.name \in {"set", "setex"} -> setGenericCommand(s, c)
    [] c.name = "getset" -> getsetCommand(s, c)
    [] c.name = "setrange" -> setrangeCommand(s, c)
    [] c.name = "append" -> appendCommand(s, c)
    [] c.name = "incrby" -> incrDecrCommand(s, c)
    [] c.name = "incrbyfloat" -> incrbyfloatCommand(s, c)
    [] c.name = "mset" -> msetGenericCommand(s, c)
    [] c.name = "push" -> pushGenericCommand(s, c)
    [] c.name \in {"pushx", "linsert"} -> pushxGenericCommand(s, c)
    [] c.name = "lset" -> lsetCommand(s, c)
    [] c.name = "pop" -> popGenericCommand(s, c)
    [] c.name = "ltrim" -> ltrimCommand(s, c)
    [] c.name = "lrem" -> lremCommand(s, c)
    [] c.name = "rpoplpush" -> rpoplpushCommand(s, c)
    [] c.name = "bpop" -> blockingPopGenericCommand(s, c)
    [] c.name = "brpoplpush" -> brpoplpushCommand(s, c)
    [] c.name = "sort" -> sortCommand(s, c)
    [] c.name = "sadd" -> saddCommand(s, c)
    [] c.name = "srem" -> sremCommand(s, c)
    [] c.name = "smove" -> smoveCommand(s, c)
    [] c.name = "spop" -> spopCommand(s, c)
    [] c.name = "sinterstore" -> sinterGenericCommand(s, c)
    [] c.name \in {"sunionstore", "sdiffstore"} -> sunionDiffGenericCommand(s, c)
    [] c.name \in {"hset", "hsetnx"} -> hsetCommand(s, c)
    [] c.name = "hmset" -> hmsetCommand(s, c)
    [] c.name = "hincrby" -> hincrbyCommand(s, c)
    [] c.name = "hincrbyfloat" -> hincrbyfloatCommand(s, c)
    [] c.name = "hdel" -> hdelCommand(s, c)
    [] c.name = "zadd" -> zaddGenericCommand(s, c)
    [] c.name = "zrem" -> zremCommand(s, c)
    [] c.name \in {"zremrangebyrank", "zremrangebyscore"} -> zremrangeGenericCommand(s, c)
    [] c.name \in {"zunionstore", "zinterstore"} -> zunionInterGenericCommand(s, c)

\* The commands without the READONLY flag.
IsWrite(c) == c.name # "read"

\* call(): what the command counted decides whether it is propagated, as the
\* command rewrote it, after what it propagated itself.
Propagated(s) == IF s.dirty > 0 THEN propagate(s, s.argv) ELSE s
call(s, c) == Propagated(Proc([s EXCEPT !.dirty = 0, !.argv = c], c))
============================================================================
