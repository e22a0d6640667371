----------------------------- MODULE Keyspace -----------------------------
(***************************************************************************)
(* A Redis master with its clients, a slave and an append only file:       *)
(* processCommand, transactions with WATCH, clients that block on lists,   *)
(* expiry and eviction, and the stream of commands that the slave and the  *)
(* append only file are fed (redis.c, multi.c, blocked.c, t_list.c, db.c   *)
(* and feedAppendOnlyFile of aof.c).                                       *)
(*                                                                         *)
(* The followers run the same commands as the master, as the code does, by *)
(* a clock that is Lag later: a slave executes late, a file is loaded      *)
(* late.  They see each stream as soon as the master's step ends, which is *)
(* how far the order of the stream lets them get.                          *)
(***************************************************************************)
EXTENDS Commands

CONSTANTS Clients,
          Scenarios,  \* [cmds: commands clients send, clients, tx, evict, maxNow]
          MaxQueue,   \* commands queued after MULTI
          MaxLen,     \* elements of a list that is pushed to, size of a score
          Lag

VARIABLES scene,   \* the scenario of this behaviour
          srv,     \* the master: dict, expires, now, blocked, and lost, stored
          clients, \* transactions: multi, queue, cas, exec, watched, silent
          slave, aof \* the keyspaces of the followers

vars == <<scene, srv, clients, slave, aof>>

\* srv.lost: the stream dropped a time to live, see DropsTTL.
\* srv.stored: keys given a list by dbOverwrite while clients wait for them.
NoTransaction == [multi |-> FALSE, queue |-> <<>>, cas |-> FALSE, exec |-> FALSE, watched |-> <<>>, silent |-> {}]

Running(f, role, now, blocked) ==
  [dict |-> f.dict, expires |-> f.expires, role |-> role, now |-> now, argv |-> <<>>, dirty |-> 0, touched |-> {},
   silent |-> {}, out |-> <<>>, blocked |-> blocked, ready |-> <<>>, multi |-> FALSE]

Master == Running(srv, "master", srv.now, srv.blocked)

Empty == [dict |-> <<>>, expires |-> <<>>]
Init == /\ scene \in Scenarios
        /\ srv = [dict |-> <<>>, expires |-> <<>>, now |-> 0, blocked |-> <<>>, lost |-> FALSE, stored |-> {}]
        /\ clients = [c \in Clients |-> NoTransaction]
        /\ slave = Empty /\ aof = Empty

---------------------------------------------------------------------------
(* What the followers get. *)

Marker(name) == [name |-> name]

\* feedAppendOnlyFile: relative times become absolute ones, except SET EX.
feedAppendOnlyFile(c) ==
  CASE c.name = "expire" -> <<[name |-> "pexpireat", key |-> c.key, n |-> srv.now + c.n]>>
    [] c.name = "setex" -> <<[name |-> "set", key |-> c.key, val |-> c.val, flag |-> "none", ttl |-> 0],
                             [name |-> "pexpireat", key |-> c.key, n |-> srv.now + c.ttl]>>
    [] OTHER -> <<c>>

\* What is left of a server after it ran a stream of commands.
RECURSIVE Run(_, _)
Run(s, cmds) ==
  IF cmds = <<>> THEN [dict |-> s.dict, expires |-> s.expires]
  ELSE Run(IF Head(cmds).name \in {"multi", "exec"} THEN s ELSE call(s, Head(cmds)), Tail(cmds))

Apply(f, role, cmds) == Run(Running(f, role, srv.now + Lag, <<>>), cmds)

---------------------------------------------------------------------------
(* handleClientsBlockedOnLists: after a command, the keys that got a list   *)
(* serve the clients that wait for them, first come first served.          *)

FirstBlocked(s, k) == CHOOSE i \in DOMAIN s.blocked :
                        k \in s.blocked[i].keys /\ \A j \in 1..(i - 1) : k \notin s.blocked[j].keys

unblockClient(s, i) == [s EXCEPT !.blocked = RemoveAt(@, i)]

\* The value was popped for b; a destination of another type gives it back.
serveClientBlockedOnList(s, k, b, e) ==
  LET pop == [name |-> "pop", key |-> k, where |-> b.where]
      t == lookupKey(s, b.target)
      u == rpoplpushHandlePush(propagate(t, pop), b.target, e)
  IN IF b.target = <<>> THEN propagate(s, pop)
     ELSE IF OfType(t, b.target, "list")
     THEN propagate(u, [name |-> "push", key |-> b.target, elems |-> <<e>>, where |-> "head"])
     ELSE dbOverwrite(t, k, listTypePush(t.dict[k], e, b.where))

RECURSIVE ServeClients(_, _, _)
ServeClients(s, k, n) ==
  IF n = 0 \/ Value(s, k) = <<>> THEN s
  ELSE LET i == FirstBlocked(s, k)
           b == s.blocked[i]
           e == PopValue(s.dict[k], b.where)
           t == unblockClient(dbOverwrite(s, k, listTypePop(s.dict[k], b.where)), i)
       IN ServeClients(serveClientBlockedOnList(t, k, b, e), k, n - 1)

ServeKey(s, k) ==
  LET t == lookupKey(s, k)
      waiting == Cardinality({i \in DOMAIN t.blocked : k \in t.blocked[i].keys})
      u == ServeClients(t, k, waiting)
  IN IF ~Is(t, k, "list") THEN t ELSE Keep(u, k, u.dict[k])

RECURSIVE handleClientsBlockedOnLists(_)
handleClientsBlockedOnLists(s) ==
  IF s.ready = <<>> THEN s
  ELSE handleClientsBlockedOnLists(ServeKey([s EXCEPT !.ready = Tail(@)], Head(s.ready)))

---------------------------------------------------------------------------
(* The end of a step of the master: its keyspace, what it flags, what the   *)
(* followers make of the stream.                                           *)

\* The stream drops a time to live that the master keeps: INCRBYFLOAT is told as
\* a SET, a list served to BRPOPLPUSH of its own key as RPOP and LPUSH.
DropsTTL(s) ==
  \E k \in DOMAIN s.expires, i \in DOMAIN s.out :
    \/ s.out[i].name = "set" /\ s.out[i].key = k /\ s.out[i].ttl = 0
    \/ /\ s.out[i].name = "pop" /\ s.out[i].key = k
       /\ i < Len(s.out) /\ s.out[i + 1].name = "push" /\ s.out[i + 1].key = k

\* A list that replaced a value of another type, for which clients wait.
Stored(s) == {k \in DOMAIN s.dict \cap DOMAIN srv.dict :
                Is(s, k, "list") /\ ~Is(srv, k, "list") /\ \E i \in DOMAIN s.blocked : k \in s.blocked[i].keys}

Touched(cl, s) ==
  [cl EXCEPT !.cas = @ \/ DOMAIN cl.watched \cap s.touched # {}, !.silent = @ \cup (s.silent \cap DOMAIN cl.watched)]

Commit(s, cls) ==
  /\ srv' = [dict |-> s.dict, expires |-> s.expires, now |-> s.now, blocked |-> s.blocked,
             lost |-> srv.lost \/ DropsTTL(s),
             stored |-> (srv.stored \cup Stored(s)) \cap DOMAIN s.dict]
  /\ clients' = [c \in Clients |-> Touched(cls[c], s)]
  /\ slave' = Apply(slave, "slave", s.out)
  /\ aof' = Apply(aof, "loading", FlattenSeq([i \in DOMAIN s.out |-> feedAppendOnlyFile(s.out[i])]))
  /\ UNCHANGED scene

---------------------------------------------------------------------------
(* Commands of clients. *)

Active(c) == \A i \in DOMAIN srv.blocked : srv.blocked[i].client # c

\* freeMemoryIfNeeded: over the limit a key is dropped before the command, any
\* key or one with a time to live, as the policy says; told as DEL.
Evict(s, k) == [dbDelete(propagate(s, Del(k)), k) EXCEPT !.silent = @ \cup {k}]
Evictions == IF scene.evict = "none" THEN {}
             ELSE IF scene.evict = "volatile" THEN DOMAIN srv.expires ELSE DOMAIN srv.dict
AfterEviction == {Master} \cup {Evict(Master, k) : k \in Evictions}

\* Bounds of the model: nothing is pushed to a list of MaxLen elements, and no
\* score is incremented past MaxLen.
WithinBounds(c) ==
  /\ c.name \in {"push", "pushx", "linsert", "rpoplpush", "brpoplpush"} =>
       \A k \in DOMAIN srv.dict : Is(srv, k, "list") => Len(srv.dict[k].v) < MaxLen
  /\ c.name = "zadd" /\ c.flag = "incr" =>
       \A k \in DOMAIN srv.dict : Is(srv, k, "zset") => \A e \in DOMAIN srv.dict[k].v : srv.dict[k].v[e] \in (1 - MaxLen)..(MaxLen - 1)

Sent(c) == {[cmd EXCEPT !.client = c] : cmd \in {x \in scene.cmds : x.name \in {"bpop", "brpoplpush"}}}
           \cup {x \in scene.cmds : x.name \notin {"bpop", "brpoplpush"}}

\* processCommand of a client that is in no transaction.
ProcessCommand(c) ==
  /\ Active(c) /\ ~clients[c].multi
  /\ \E cmd \in Sent(c), s \in AfterEviction :
       WithinBounds(cmd) /\ Commit(handleClientsBlockedOnLists(call(s, cmd)), clients)

watchCommand(c, k) ==
  /\ c \in scene.tx /\ Active(c) /\ ~clients[c].multi /\ k \notin DOMAIN clients[c].watched
  /\ clients' = [clients EXCEPT ![c].watched =
                   (k :> (IF Has(srv, k) THEN <<srv.dict[k].type, Value(srv, k)>> ELSE <<>>)) @@ @]
  /\ UNCHANGED <<scene, srv, slave, aof>>

unwatchCommand(c) ==
  /\ c \in scene.tx /\ Active(c) /\ ~clients[c].multi /\ clients[c].watched # <<>>
  /\ clients' = [clients EXCEPT ![c].watched = <<>>, ![c].silent = {}, ![c].cas = FALSE]
  /\ UNCHANGED <<scene, srv, slave, aof>>

multiCommand(c) ==
  /\ c \in scene.tx /\ Active(c) /\ ~clients[c].multi
  /\ clients' = [clients EXCEPT ![c].multi = TRUE]
  /\ UNCHANGED <<scene, srv, slave, aof>>

queueMultiCommand(c) ==
  /\ clients[c].multi /\ Len(clients[c].queue) < MaxQueue
  /\ \E cmd \in Sent(c) : clients' = [clients EXCEPT ![c].queue = Append(@, cmd)]
  /\ UNCHANGED <<scene, srv, slave, aof>>

\* A command that processCommand refuses (unknown, arity, out of memory, a
\* failed save, too few slaves, ...): flagTransaction.
RefuseCommand(c) ==
  /\ clients[c].multi /\ ~clients[c].exec
  /\ clients' = [clients EXCEPT ![c].exec = TRUE]
  /\ UNCHANGED <<scene, srv, slave, aof>>

discardTransaction(cls, c) == [cls EXCEPT ![c] = NoTransaction]

discardCommand(c) ==
  /\ clients[c].multi
  /\ clients' = discardTransaction(clients, c)
  /\ UNCHANGED <<scene, srv, slave, aof>>

\* EXEC: MULTI is propagated before the first command that may write, EXEC
\* after the last one; nothing runs when the transaction is flagged.
RECURSIVE ExecCommands(_, _, _)
ExecCommands(s, queue, must) ==
  IF queue = <<>> THEN IF must THEN propagate(s, Marker("exec")) ELSE s
  ELSE LET cmd == Head(queue)
           t == IF IsWrite(cmd) /\ ~must THEN propagate(s, Marker("multi")) ELSE s
       IN ExecCommands(call(t, cmd), Tail(queue), must \/ IsWrite(cmd))

execCommand(c) ==
  /\ clients[c].multi /\ \A i \in DOMAIN clients[c].queue : WithinBounds(clients[c].queue[i])
  /\ IF clients[c].cas \/ clients[c].exec
     THEN /\ clients' = discardTransaction(clients, c)
          /\ UNCHANGED <<scene, srv, slave, aof>>
     ELSE LET s == ExecCommands([Master EXCEPT !.multi = TRUE], clients[c].queue, FALSE)
          IN Commit(handleClientsBlockedOnLists([s EXCEPT !.multi = FALSE]), discardTransaction(clients, c))

\* The timeout of a blocked client, or its disconnection.
UnblockByTimeout(c) ==
  /\ \E i \in DOMAIN srv.blocked : srv.blocked[i].client = c /\ srv' = [srv EXCEPT !.blocked = RemoveAt(@, i)]
  /\ UNCHANGED <<scene, clients, slave, aof>>

---------------------------------------------------------------------------
(* The clock and activeExpireCycle, which deletes some of the expired keys. *)

Tick == /\ srv.now < scene.maxNow
        /\ srv' = [srv EXCEPT !.now = @ + 1]
        /\ UNCHANGED <<scene, clients, slave, aof>>

activeExpireCycle ==
  \E keys \in (SUBSET {k \in DOMAIN srv.expires : Expired(Master, k)}) \ {{}} :
    Commit(FoldLeft(expireIfNeeded, Master, SetToSeq(keys)), clients)

Next == \/ \E c \in scene.clients : \/ ProcessCommand(c) \/ unwatchCommand(c) \/ multiCommand(c) \/ queueMultiCommand(c)
                              \/ RefuseCommand(c) \/ discardCommand(c) \/ execCommand(c) \/ UnblockByTimeout(c)
                              \/ \E k \in scene.keys : watchCommand(c, k)
        \/ Tick \/ activeExpireCycle

Spec == Init /\ [][Next]_vars

---------------------------------------------------------------------------
(* Properties *)

Types == {"string", "list", "set", "hash", "zset"}

\* Every time to live belongs to a key, and the clients that wait are distinct.
TypeOK ==
  /\ \A f \in {srv, slave, aof} : DOMAIN f.expires \subseteq DOMAIN f.dict /\ \A k \in DOMAIN f.dict : f.dict[k].type \in Types
  /\ srv.now \in 0..scene.maxNow
  /\ \A i, j \in DOMAIN srv.blocked : srv.blocked[i].client = srv.blocked[j].client => i = j

\* What a client can see of an object, whatever its encoding.
Seen(f) == [k \in DOMAIN f.dict |-> <<f.dict[k].type, f.dict[k].v>>]

\* The stream of commands (as rewritten by SPOP, INCRBYFLOAT, EXPIRE, the blocking
\* pops, the expiry and the eviction) gives the slave and the append only file the
\* keyspace of the master: the same keys and values, and a time to live for the same
\* keys that never ends earlier (INCRBYFLOAT may drop one, see DropsTTL).
FollowersAgree ==
  \A f \in {slave, aof} :
    /\ Seen(f) = Seen(srv)
    /\ \A k \in DOMAIN f.expires : k \in DOMAIN srv.expires /\ f.expires[k] >= srv.expires[k]
    /\ srv.lost \/ DOMAIN srv.expires \subseteq DOMAIN f.expires

\* As long as a client that watches keys is not flagged, they are as it saw them,
\* whatever commands, transactions and blocked clients did, except the keys that
\* expired, were evicted or moved.
WatchedUnchanged ==
  \A c \in Clients : ~clients[c].cas =>
    \A k \in DOMAIN clients[c].watched \ clients[c].silent :
      clients[c].watched[k] = IF Has(srv, k) THEN <<srv.dict[k].type, Value(srv, k)>> ELSE <<>>

\* The same without the exceptions, as db.c:235-236 has it: "Every time a key in the
\* database is modified the function signalModifiedKey() is called."  Violated: MOVE
\* takes a watched key away, or brings it, and does not call it.
WatchersAreTold ==
  \A c \in Clients : ~clients[c].cas =>
    \A k \in DOMAIN clients[c].watched :
      clients[c].watched[k] = IF Has(srv, k) THEN <<srv.dict[k].type, Value(srv, k)>> ELSE <<>>

\* No command leaves an empty list, set, hash or sorted set behind, or a compact
\* encoding past its limits, or a time to live without its key.
ObjectsWellFormed ==
  TypeOK /\ \A k \in DOMAIN srv.dict :
    LET o == srv.dict[k]
    IN CASE o.type = "string" -> o.enc = "int" => string2ll(o.v) # NotLL
         [] o.type = "list" -> o.v # <<>> /\ (o.enc = "ziplist" => Len(o.v) <= MaxCompact /\ ToSet(o.v) \cap LongElems = {})
         [] o.type = "set" -> o.v # {} /\ (o.enc = "intset" => o.v \subseteq IntElems /\ Cardinality(o.v) <= MaxCompact)
         [] o.type = "hash" -> DOMAIN o.v # {} /\ (o.enc = "ziplist" => Cardinality(DOMAIN o.v) <= MaxCompact)
         [] o.type = "zset" -> /\ DOMAIN o.v # {}
                               /\ o.enc = "ziplist" => Cardinality(DOMAIN o.v) <= MaxCompact /\ DOMAIN o.v \cap LongElems = {}

\* No client waits for a key that holds a list, after commands, transactions and
\* after other clients were served: no wakeup is lost.
NoMissedWakeup ==
  \A i \in DOMAIN srv.blocked : \A k \in srv.blocked[i].keys \ srv.stored : ~Is(srv, k, "list")
============================================================================
