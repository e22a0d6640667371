---------------------------- MODULE MCKeyspace ----------------------------
(* Small sets of commands for each type, run against two or three keys.    *)
EXTENDS Keyspace

a == <<0, "a">>
b == <<0, "b">>
moved == <<1, "a">>  \* the key a in another db

Names(n, keys) == {[name |-> n, key |-> k] : k \in keys}
Generic == Names("del", {a}) \cup {[name |-> "expire", key |-> a, n |-> 1], [name |-> "rename", key |-> a, dst |-> b, nx |-> FALSE]}
Set(k, val) == [name |-> "set", key |-> k, val |-> val, flag |-> "none", ttl |-> 0]

StringCmds ==
  Generic \cup {Set(a, <<1>>), Set(a, <<Letter>>)}
  \cup {[name |-> "set", key |-> a, val |-> <<0>>, flag |-> f, ttl |-> 1] : f \in {"nx", "xx"}}
  \cup {[name |-> "setex", key |-> a, val |-> <<1>>, flag |-> "none", ttl |-> 1]}
  \cup {[name |-> "setrange", key |-> a, n |-> n, val |-> <<0>>] : n \in 0..1}
  \cup {[name |-> n, key |-> a, n |-> i] : n \in {"incrby", "incrbyfloat"}, i \in {-1, 1}}
  \cup {[name |-> "append", key |-> a, val |-> <<1>>], [name |-> "getset", key |-> a, val |-> <<0>>]}
  \cup {[name |-> "mset", key |-> a, dst |-> b, val |-> <<0>>, nx |-> nx] : nx \in BOOLEAN}

KeyCmds ==
  {Set(a, <<0>>), Set(b, <<1>>), [name |-> "expire", key |-> a, n |-> 0], [name |-> "pexpireat", key |-> a, n |-> 1]}
  \cup Names("del", {a, b}) \cup Names("persist", {a, b}) \cup Names("read", {a}) \cup Names("flushdb", {a}) \cup Names("flushall", {a})
  \cup {[name |-> "rename", key |-> a, dst |-> b, nx |-> nx] : nx \in BOOLEAN}
  \cup {[name |-> "expire", key |-> k, n |-> 1] : k \in {a, b}}
  \cup {[name |-> "move", key |-> a, dst |-> moved], [name |-> "move", key |-> moved, dst |-> a]}

TxCmds == {Set(a, <<0>>), [name |-> "expire", key |-> a, n |-> 1], [name |-> "rename", key |-> b, dst |-> a, nx |-> FALSE],
           [name |-> "move", key |-> a, dst |-> moved], [name |-> "push", key |-> b, elems |-> <<1>>, where |-> "head"],
           [name |-> "bpop", key |-> a, keys |-> <<a, a>>, where |-> "head", client |-> "none"]}

Push(k, es, w) == [name |-> "push", key |-> k, elems |-> es, where |-> w]
ListCmds ==
  Generic \cup {Set(b, <<0>>), Push(a, <<1>>, "head"), Push(a, <<2, 3>>, "tail"), Push(b, <<1>>, "tail")}
  \cup {[name |-> "pushx", key |-> a, elem |-> 1, where |-> "head"], [name |-> "linsert", key |-> a, pivot |-> 1, elem |-> 3, where |-> "tail"]}
  \cup {[name |-> "lset", key |-> a, n |-> -1, elem |-> 3], [name |-> "lrem", key |-> a, n |-> -1, elem |-> 1],
        [name |-> "ltrim", key |-> a, start |-> 1, end |-> -1], [name |-> "rpoplpush", key |-> a, dst |-> b],
        [name |-> "rpoplpush", key |-> a, dst |-> a], [name |-> "sort", key |-> a, dst |-> b, desc |-> TRUE, start |-> 0, n |-> 2]}
  \cup {[name |-> "pop", key |-> k, where |-> w] : k \in {a, b}, w \in {"head", "tail"}}

BlockCmds ==
  {Push(a, <<1, 2>>, "head"), Push(b, <<1>>, "tail"), Set(b, <<0>>), [name |-> "rename", key |-> a, dst |-> b, nx |-> FALSE],
   [name |-> "sort", key |-> a, dst |-> b, desc |-> FALSE, start |-> 0, n |-> 1], [name |-> "expire", key |-> a, n |-> 1],
   [name |-> "bpop", key |-> a, keys |-> <<a, b>>, where |-> "head", client |-> "none"],
   [name |-> "bpop", key |-> b, keys |-> <<b, b>>, where |-> "tail", client |-> "none"]}
  \cup {[name |-> "brpoplpush", key |-> k, dst |-> d, where |-> "tail", client |-> "none"] : k \in {a, b}, d \in {a, b}}

SetCmds ==
  {[name |-> "expire", key |-> a, n |-> 1], [name |-> "rename", key |-> a, dst |-> b, nx |-> FALSE]}
  \cup {[name |-> "sadd", key |-> k, elems |-> <<1, e>>] : k \in {a, b}, e \in 2..3} \cup {[name |-> "sadd", key |-> a, elems |-> <<3, 4>>]}
  \cup {[name |-> "srem", key |-> a, elems |-> <<1, e>>] : e \in 2..3} \cup {[name |-> "spop", key |-> b, elem |-> e] : e \in 1..3}
  \cup {[name |-> "smove", key |-> a, dst |-> b, elem |-> e] : e \in {1, 3}} \cup Names("del", {b})
  \cup {[name |-> n, key |-> b, keys |-> <<a, b>>] : n \in {"sinterstore", "sunionstore", "sdiffstore"}}

HashCmds ==
  Generic \cup {Set(b, <<0>>)} \cup {[name |-> n, key |-> a, field |-> f, v |-> v] : n \in {"hset", "hsetnx"}, f \in {1, 3}, v \in {0, Letter}}
  \cup {[name |-> n, key |-> k, field |-> f, n |-> 1] : n \in {"hincrby", "hincrbyfloat"}, f \in {1, 2}, k \in {a, b}}
  \cup {[name |-> "hmset", key |-> a, field |-> 2, field2 |-> 1, v |-> 1]} \cup {[name |-> "hdel", key |-> a, field |-> f] : f \in 1..3}

Zadd(k, e, n, flag) == [name |-> "zadd", key |-> k, elem |-> e, n |-> n, flag |-> flag]
ZsetCmds ==
  {[name |-> "expire", key |-> a, n |-> 1], [name |-> "sadd", key |-> b, elems |-> <<1, 2>>], [name |-> "rename", key |-> a, dst |-> b, nx |-> FALSE]}
  \cup {Zadd(a, e, 0, "none") : e \in 1..3} \cup {Zadd(a, 1, 0, "nx"), Zadd(a, 3, 1, "xx"), Zadd(a, 1, 1, "incr"), Zadd(b, 2, 1, "none")}
  \cup {[name |-> "zrem", key |-> a, elem |-> e] : e \in 1..2} \cup Names("del", {b})
  \cup {[name |-> "zremrangebyrank", key |-> a, start |-> 1, end |-> -1], [name |-> "zremrangebyscore", key |-> a, start |-> 0, end |-> 0]}
  \cup {[name |-> op[1], key |-> b, keys |-> <<a, b>>, weights |-> <<0, 1>>, aggregate |-> ag, op |-> op[2]] :
          op \in {<<"zunionstore", "union">>, <<"zinterstore", "inter">>}, ag \in {"sum", "max"}}

Scene(cmds, who, tx, evict, maxNow) ==
  [cmds |-> cmds, clients |-> who, tx |-> tx, evict |-> evict, maxNow |-> maxNow, keys |-> {a}]
One == {"c1"}
\* One client watches, the other moves the key; nothing expires and nothing is evicted.
WatchScenarios == {Scene({Set(a, <<0>>), [name |-> "move", key |-> a, dst |-> moved]}, Clients, One, "none", 0)}
MCScenarios ==
  {Scene(StringCmds, One, {}, "none", 2), Scene(KeyCmds, One, {}, "allkeys", 3), Scene(TxCmds, Clients, One, "volatile", 1),
   Scene(ListCmds, One, {}, "none", 2), Scene(BlockCmds, Clients, {}, "none", 1), Scene(SetCmds, One, {}, "none", 2),
   Scene(HashCmds, One, {}, "none", 2), Scene(ZsetCmds, One, {}, "none", 1)}
============================================================================
