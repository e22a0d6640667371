---------------------------- MODULE ClusterSlots ----------------------------
(***************************************************************************)
(* A hash slot of a Redis cluster that moves from one master to another    *)
(* while clients use its keys: CLUSTER SETSLOT, MIGRATE over a cached      *)
(* socket, RESTORE, the redirections of getNodeByQuery and the claims of   *)
(* the cluster bus (cluster.c), driven by redis-trib.rb, which may be      *)
(* stopped anywhere and fixes later what it left.                          *)
(*                                                                         *)
(* One slot is modelled, with all the keys; every node serves other slots  *)
(* too, so none becomes a slave.  A packet of the bus carries what its     *)
(* sender knows when it is received.                                       *)
(***************************************************************************)
EXTENDS Integers, Sequences, FiniteSets, FiniteSetsExt, SequencesExt

CONSTANTS Nodes,   \* the masters: node ids, which the code compares
          Keys,
          Scenes   \* [node: what the nodes know, left: bounds]

VARIABLES node,   \* node[n]: its keys of the slot and its cluster state
          sock,   \* sock[p]: the cached socket of MIGRATE from p[1] to p[2]
          mg,     \* the MIGRATE under way, which blocks its node, or NoMigrate
          late,   \* requests of closed sockets that the target may still execute
          trib,   \* redis-trib: the commands it has still to send
          asks,   \* commands of clients on their way after an ASK
          hist,   \* truth: the last value written to each key; doubt; history
          left    \* what may still happen

vars == <<node, sock, mg, late, trib, asks, hist, left>>

Null == 0
NoMigrate == [src |-> Null]
NoSocket == [open |-> FALSE, dead |-> FALSE, selected |-> FALSE, req |-> <<>>, rep |-> <<>>]
Nowhere == [v |-> 0, ttl |-> FALSE]  \* the value of a key that does not exist

Blocked(n) == mg.src = n
Spend(what) == left[what] > 0 /\ left' = [left EXCEPT ![what] = @ - 1]

KeysOf(v) == DOMAIN v.db
ValueOf(v, k) == IF k \in KeysOf(v) THEN v.db[k] ELSE Nowhere
countKeysInSlot(v) == Cardinality(KeysOf(v))
dbDelete(v, ks) == [v EXCEPT !.db = [k \in DOMAIN @ \ ks |-> @[k]]]
dbSet(v, ks, o) == [v EXCEPT !.db = [k \in DOMAIN @ \cup ks |-> IF k \in ks THEN o ELSE @[k]]]

---------------------------------------------------------------------------
(* Who serves a command. *)

Redirect(to, why) == [to |-> to, why |-> why]

\* Variant: a node that migrates the slot serves the keys it does not have.
NeverAsk(v, me, keys, asking, migrate) ==
  LET importing == v.owner # me /\ v.importing # Null
  IN IF v.owner = Null THEN Redirect(Null, "UNBOUND")
     ELSE IF importing /\ (asking \/ migrate) THEN Redirect(me, "NONE")
     ELSE Redirect(v.owner, IF v.owner = me THEN "NONE" ELSE "MOVED")

getNodeByQuery(v, me, keys, asking, migrate) ==
  LET migrating_slot == v.owner = me /\ v.migrating # Null
      importing_slot == ~migrating_slot /\ v.importing # Null
      missing_keys == ~(keys \subseteq KeysOf(v))
  IN IF v.owner = Null THEN Redirect(Null, "UNBOUND")
     ELSE IF (migrating_slot \/ importing_slot) /\ migrate THEN Redirect(me, "NONE")
     ELSE IF migrating_slot /\ missing_keys THEN Redirect(v.migrating, "ASK")
     ELSE IF importing_slot /\ asking
     THEN IF Cardinality(keys) > 1 /\ missing_keys THEN Redirect(Null, "UNSTABLE") ELSE Redirect(me, "NONE")
     ELSE Redirect(v.owner, IF v.owner = me THEN "NONE" ELSE "MOVED")

Serves(n, keys, asking) == getNodeByQuery(node[n], n, keys, asking, FALSE) = Redirect(n, "NONE")

\* A client sets or deletes keys.  It follows an ASK with ASKING; after any other
\* redirection, or an error, it starts again.
Execute(n, c) ==
  LET o == [v |-> left.writes, ttl |-> FALSE]
  IN /\ node' = [node EXCEPT ![n] = IF c.del THEN dbDelete(@, c.keys) ELSE dbSet(@, c.keys, o)]
     /\ hist' = [hist EXCEPT !.truth = [k \in Keys |-> IF k \in c.keys THEN IF c.del THEN Nowhere ELSE o ELSE @[k]]]
     /\ Spend("writes")

Command(n, c) ==
  LET r == getNodeByQuery(node[n], n, c.keys, FALSE, FALSE)
  IN /\ ~Blocked(n) /\ left.writes > 0
     /\ \/ r = Redirect(n, "NONE") /\ Execute(n, c) /\ UNCHANGED asks
        \/ /\ r.why = "ASK" /\ asks = {}
           /\ asks' = {[c |-> c, at |-> r.to]} /\ UNCHANGED <<node, hist, left>>
     /\ UNCHANGED <<sock, mg, late, trib>>

askingCommand(a) ==
  /\ ~Blocked(a.at) /\ asks' = asks \ {a}
  /\ IF Serves(a.at, a.c.keys, TRUE) /\ left.writes > 0 THEN Execute(a.at, a.c) ELSE UNCHANGED <<node, hist, left>>
  /\ UNCHANGED <<sock, mg, late, trib>>

---------------------------------------------------------------------------
(* The bus: config epochs and claims. *)

Greater(a, b) == IF a > b THEN a ELSE b
GetMaxEpoch(v) == Max({v.cepoch[n] : n \in Nodes} \cup {v.cur})

BumpConfigEpochWithoutConsensus(v, me) ==
  IF v.cepoch[me] = 0 \/ v.cepoch[me] # GetMaxEpoch(v)
  THEN [v EXCEPT !.cur = @ + 1, !.cepoch[me] = v.cur + 1] ELSE v

HandleConfigEpochCollision(v, me, s) ==
  IF v.cepoch[s] = v.cepoch[me] /\ s > me THEN [v EXCEPT !.cur = @ + 1, !.cepoch[me] = v.cur + 1] ELSE v

\* clusterUpdateSlotsConfigWith: a slot that is being imported is changed by SETSLOT
\* only; a master that loses the slot deletes the keys it still has.
UpdateSlotsConfigWith(v, me, s, epoch) ==
  IF s = me \/ v.owner = s \/ v.importing # Null THEN v
  ELSE IF v.owner # Null /\ v.cepoch[v.owner] >= epoch THEN v
  ELSE [(IF v.owner = me THEN dbDelete(v, KeysOf(v)) ELSE v) EXCEPT !.owner = s]

\* n receives a PING of s; when s claims the slot with an old epoch, s is told the
\* configuration of the owner in an UPDATE, which it receives or not.
ProcessHdr(v, w, s) == [v EXCEPT !.cur = Greater(@, w.cur), !.cepoch[s] = Greater(@, w.cepoch[s])]

ProcessPing(v, me, w, s) ==
  LET v1 == ProcessHdr(v, w, s)
      v2 == IF w.owner = s THEN UpdateSlotsConfigWith(v1, me, s, w.cepoch[s]) ELSE v1
  IN HandleConfigEpochCollision(v2, me, s)

ProcessUpdate(v, me, w, s, n) ==
  LET v1 == ProcessHdr(v, w, s)
  IN IF v1.cepoch[n] >= w.cepoch[n] THEN v1
     ELSE UpdateSlotsConfigWith([v1 EXCEPT !.cepoch[n] = w.cepoch[n]], me, n, w.cepoch[n])

Ping(s, n) ==
  /\ s # n /\ ~Blocked(n)
  /\ \E v \in {ProcessPing(node[n], n, node[s], s)} :
       LET old == node[s].owner = s /\ v.owner \notin {s, Null} /\ v.cepoch[v.owner] > node[s].cepoch[s]
       IN \E told \in IF old /\ ~Blocked(s) THEN BOOLEAN ELSE {FALSE} :
            node' = [node EXCEPT ![n] = v, ![s] = IF told THEN ProcessUpdate(@, s, v, n, v.owner) ELSE @]
  /\ UNCHANGED <<sock, mg, late, trib, asks, hist, left>>

---------------------------------------------------------------------------
(* MIGRATE *)

\* The time to live is a variable of migrateCommand that is not reset: a key without
\* one gets that of the key before, and in the retry also that of the last key.
Payload(db, ks, j, again) == [v |-> db[ks[j]].v, ttl |-> \E i \in IF again THEN DOMAIN ks ELSE 1..j : db[ks[i]].ttl]

Select == [name |-> "SELECT"]
Restores(db, m) ==
  [j \in DOMAIN m.keys |-> [name |-> "RESTORE-ASKING", key |-> m.keys[j], o |-> Payload(db, m.keys, j, ~m.retry), replace |-> m.replace]]

\* migrateGetSocket, SELECT unless the socket is known to have selected the db, and
\* the commands.  A socket that is dead fails at once, which is the one retry.
Sent(p, m, fresh) ==
  LET s == IF fresh THEN [NoSocket EXCEPT !.open = TRUE] ELSE sock[p]
  IN [s EXCEPT !.req = @ \o (IF s.selected THEN <<>> ELSE <<Select>>) \o Restores(node[p[1]].db, m)]

Outstanding(p) == sock[p].req # <<>> \/ sock[p].rep # <<>>

\* migrateCommand up to the first reply; the keys are the ones that are there.
Begin(src, dst, replace) ==
  LET p == <<src, dst>>
      fresh == ~sock[p].open \/ sock[p].dead
      ks == SetToSortSeq(KeysOf(node[src]), <)
      m == [src |-> src, dst |-> dst, keys |-> ks, replace |-> replace, retry |-> ~sock[p].dead,
            select |-> fresh \/ ~sock[p].selected]
  IN /\ mg' = m
     /\ sock' = [sock EXCEPT ![p] = Sent(p, m, fresh)]
     /\ hist' = [hist EXCEPT !.doubt = IF Outstanding(p) /\ ~fresh THEN @ \cup KeysOf(node[src]) ELSE @]

\* restoreCommand at the target, behind getNodeByQuery.
RestoreReply(v, me, r) ==
  IF r.name = "SELECT" THEN "OK"
  ELSE IF getNodeByQuery(v, me, {r.key}, TRUE, FALSE) # Redirect(me, "NONE") THEN "MOVED"
  ELSE IF ~r.replace /\ r.key \in KeysOf(v) THEN "BUSYKEY" ELSE "OK"

restoreCommand(v, me, r) ==
  IF r.name = "SELECT" \/ RestoreReply(v, me, r) # "OK" THEN v ELSE dbSet(v, {r.key}, r.o)

TargetExecutes(p) ==
  /\ sock[p].req # <<>> /\ ~Blocked(p[2])
  /\ node' = [node EXCEPT ![p[2]] = restoreCommand(@, p[2], Head(sock[p].req))]
  /\ sock' = [sock EXCEPT ![p].req = Tail(@), ![p].rep = Append(@, RestoreReply(node[p[2]], p[2], Head(sock[p].req)))]
  /\ UNCHANGED <<mg, late, trib, asks, hist, left>>

\* What was written to a socket that is closed may still be read by the target.
LateExecutes(l) ==
  /\ ~Blocked(l.dst)
  /\ node' = [node EXCEPT ![l.dst] = restoreCommand(@, l.dst, Head(l.req))]
  /\ late' = (late \ {l}) \cup (IF Len(l.req) = 1 THEN {} ELSE {[l EXCEPT !.req = Tail(@)]})
  /\ UNCHANGED <<sock, mg, trib, asks, hist, left>>
LateLost(l) == late' = late \ {l} /\ UNCHANGED <<node, sock, mg, trib, asks, hist, left>>

\* What the target may still read of a socket that is closed.
Unread(p) == IF sock[p].req = <<>> THEN {} ELSE {[dst |-> p[2], req |-> sock[p].req]}

\* The keys a client cannot rely on: a MIGRATE that failed may have left a copy at the
\* target, which REPLACE, a late request or a lost slot may bring back.
Doubt(m, moved, failed) == IF failed THEN hist.doubt \cup (ToSet(m.keys) \ moved) ELSE hist.doubt

\* redis-trib after a MIGRATE: the loop goes on, or a second MIGRATE with REPLACE when
\* it fixes the slot and a key exists, or it ends.
TribAfter(m, result) ==
  IF trib = <<>> \/ result = "OK" THEN trib
  ELSE IF result = "BUSYKEY" /\ Head(trib).fix /\ ~m.replace THEN <<[Head(trib) EXCEPT !.replace = TRUE]>> \o Tail(trib)
  ELSE <<>>

\* The replies of the target to a MIGRATE m: the first c of them, the one to SELECT
\* left out.  A key is deleted when its reply is not an error.
Need(m) == Len(m.keys) + (IF m.select THEN 1 ELSE 0)
KeyReplies(m, rep, c) == SubSeq(rep, IF m.select THEN 2 ELSE 1, c)
\* Variant: the replies and the keys are one apart.
MovedOffByOne(m, replies) == {m.keys[i] : i \in {j \in DOMAIN m.keys : j + 1 \in DOMAIN replies /\ replies[j + 1] = "OK"}}

Moved(m, replies) == {m.keys[i] : i \in {j \in DOMAIN replies : replies[j] = "OK"}}
ErrorFromTarget(replies) ==
  LET errors == {j \in DOMAIN replies : replies[j] # "OK"} IN IF errors = {} THEN "OK" ELSE replies[Min(errors)]

MigrateEnds(result, moved) ==
  /\ node' = [node EXCEPT ![mg.src] = dbDelete(@, moved)]
  /\ mg' = NoMigrate /\ trib' = TribAfter(mg, result)
  /\ hist' = [hist EXCEPT !.doubt = Doubt(mg, moved, result # "OK")]

\* Every reply was read; after an error the db is selected again next time.
MigrateReads ==
  /\ mg # NoMigrate
  /\ \E p \in {<<mg.src, mg.dst>>} :
       /\ Len(sock[p].rep) >= Need(mg)
       /\ \E replies \in {KeyReplies(mg, sock[p].rep, Need(mg))} :
            /\ MigrateEnds(ErrorFromTarget(replies), Moved(mg, replies))
            /\ sock' = [sock EXCEPT ![p].rep = SubSeq(@, Need(mg) + 1, Len(@)), ![p].selected = ErrorFromTarget(replies) = "OK"]
  /\ UNCHANGED <<late, asks, left>>

\* The socket breaks or times out when c replies were read.  Once, when none was of a
\* key and it is not a timeout, everything is sent again on a new socket.
Resend(p) ==
  /\ mg' = [mg EXCEPT !.retry = FALSE, !.select = TRUE]
  /\ sock' = [sock EXCEPT ![p] = Sent(p, [mg EXCEPT !.retry = FALSE], TRUE)]
  /\ UNCHANGED <<node, late, trib, hist>>

\* Once a key was moved the command vector is DEL and the keys: the socket is looked up
\* by its arguments, not found, and stays in the cache with what is still to come.
StaysCached(s, c, timeout, error) ==
  [s EXCEPT !.rep = IF timeout THEN SubSeq(@, c + 1, Len(@)) ELSE <<>>, !.req = IF timeout THEN @ ELSE <<>>,
            !.dead = ~timeout, !.selected = @ /\ error = "OK"]

GivesUp(p, c, timeout, replies) ==
  LET moved == Moved(mg, replies)
      error == ErrorFromTarget(replies)
  IN /\ MigrateEnds(IF error = "OK" THEN "IOERR" ELSE error, moved)
     /\ sock' = [sock EXCEPT ![p] = IF moved = {} THEN NoSocket ELSE StaysCached(@, c, timeout, error)]
     /\ late' = IF timeout /\ moved = {} THEN late \cup Unread(p) ELSE late

MigrateFails(c, timeout) ==
  /\ mg # NoMigrate /\ c < Need(mg)
  /\ \E p \in {<<mg.src, mg.dst>>} :
       /\ IF timeout THEN c = Len(sock[p].rep) /\ ~sock[p].dead ELSE c <= Len(sock[p].rep)
       /\ IF sock[p].dead THEN UNCHANGED left ELSE Spend("faults")
       /\ \E replies \in {KeyReplies(mg, sock[p].rep, c)} :
            IF ~timeout /\ mg.retry /\ replies = <<>> THEN Resend(p) ELSE GivesUp(p, c, timeout, replies)
  /\ UNCHANGED asks

\* An idle socket is closed after ten seconds.
CloseTimedoutSocket(p) ==
  /\ sock[p].open /\ mg = NoMigrate /\ Spend("faults")
  /\ sock' = [sock EXCEPT ![p] = NoSocket]
  /\ late' = late \cup Unread(p)
  /\ UNCHANGED <<node, mg, trib, asks, hist>>

---------------------------------------------------------------------------
(* CLUSTER SETSLOT and its like: whether the node accepts, and what it does. *)

clusterCommandAccepts(v, me, op, n) ==
  CASE op = "migrating" -> v.owner = me
    [] op = "importing" -> v.owner # me
    [] op = "node" -> v.owner = me /\ n # me => countKeysInSlot(v) = 0
    [] OTHER -> TRUE

setslotNode(v, me, n) ==
  LET v1 == IF countKeysInSlot(v) = 0 THEN [v EXCEPT !.migrating = Null] ELSE v
      v2 == IF n = me /\ v.importing # Null
            THEN [BumpConfigEpochWithoutConsensus(v1, me) EXCEPT !.importing = Null] ELSE v1
  IN [v2 EXCEPT !.owner = n]

clusterCommand(v, me, op, n) ==
  CASE op = "migrating" -> [v EXCEPT !.migrating = n]
    [] op = "importing" -> [v EXCEPT !.importing = n]
    [] op = "stable" -> [v EXCEPT !.importing = Null, !.migrating = Null]
    [] op = "node" -> setslotNode(v, me, n)

---------------------------------------------------------------------------
(* redis-trib *)

Cmd(op, at, n) == [op |-> op, at |-> at, n |-> n, fix |-> FALSE, replace |-> FALSE]

\* Variant: the source opens the slot first.
SourceFirst(src, dst, fix, order) ==
  <<Cmd("migrating", src, dst), Cmd("importing", dst, src), [Cmd("keys", src, dst) EXCEPT !.fix = fix]>>
  \o [i \in DOMAIN order |-> Cmd("node", order[i], dst)]

\* move_slot: open the slot, move the keys, tell every master.
move_slot(src, dst, fix, order) ==
  <<Cmd("importing", dst, src), Cmd("migrating", src, dst), [Cmd("keys", src, dst) EXCEPT !.fix = fix]>>
  \o [i \in DOMAIN order |-> Cmd("node", order[i], dst)]

OpenSlots == {n \in Nodes : node[n].migrating # Null \/ node[n].importing # Null}
Orders == {o \in [1..Cardinality(Nodes) -> Nodes] : ToSet(o) = Nodes}

\* reshard: refused while check_cluster finds something to fix.
Reshard ==
  /\ trib = <<>> /\ Spend("moves") /\ OpenSlots = {}
  /\ \E src \in Nodes : \E dst \in Nodes \ {src}, order \in Orders :
       /\ \A n \in Nodes : node[n].owner = src
       /\ trib' = move_slot(src, dst, FALSE, order)
  /\ UNCHANGED <<node, sock, mg, late, asks, hist>>

\* fix_open_slot, for the single owner of the slot: with none or with several,
\* redis-trib fails on a name it never defined.
Only(set) == CHOOSE n \in set : TRUE

fix_open_slot(owner, order) ==
  LET migrating == {n \in Nodes : node[n].migrating # Null}
      importing == {n \in Nodes \ migrating : node[n].importing # Null \/ (KeysOf(node[n]) # {} /\ n # owner)}
      cold == SetToSeq(importing \ {owner})
  IN IF Cardinality(migrating) = 1 /\ Cardinality(importing) = 1
     THEN move_slot(Only(migrating), Only(importing), TRUE, order)
     ELSE IF migrating = {} /\ importing # {}
     THEN FlattenSeq([i \in DOMAIN cold |-> <<[Cmd("keys", cold[i], owner) EXCEPT !.fix = TRUE], Cmd("stable", cold[i], Null)>>])
     ELSE IF importing = {} /\ Cardinality(migrating) = 1 /\ KeysOf(node[Only(migrating)]) = {}
     THEN <<Cmd("stable", Only(migrating), Null)>> ELSE <<>>

Fix ==
  /\ trib = <<>> /\ Spend("fixes") /\ OpenSlots # {}
  /\ \E owners \in {{n \in Nodes : node[n].owner = n}}, order \in Orders :
       Cardinality(owners) = 1 /\ trib' = fix_open_slot(Only(owners), order)
  /\ UNCHANGED <<node, sock, mg, late, asks, hist>>

TribStops == trib # <<>> /\ Spend("stops") /\ trib' = <<>> /\ UNCHANGED <<node, sock, mg, late, asks, hist>>

\* The epoch with which a node claims the slot is not a new one: another node has it
\* or a greater one, which this node has not heard of.
OldEpoch(n, v) == \E m \in Nodes \ {n} : node[m].cepoch[m] >= v.cepoch[n]

\* The next command; an error ends redis-trib.
TribSetslot ==
  /\ trib # <<>> /\ mg = NoMigrate /\ Head(trib).op # "keys"
  /\ LET c == Head(trib)
     IN IF clusterCommandAccepts(node[c.at], c.at, c.op, c.n)
        THEN /\ trib' = Tail(trib)
             /\ \E v \in {clusterCommand(node[c.at], c.at, c.op, c.n)} :
                  /\ node' = [node EXCEPT ![c.at] = v]
                  /\ hist' = [hist EXCEPT !.stale = @ \/ (c.op = "node" /\ c.n = c.at /\ OldEpoch(c.at, v))]
        ELSE trib' = <<>> /\ UNCHANGED <<node, hist>>
  /\ UNCHANGED <<sock, mg, late, asks, left>>

TribMigrate ==
  /\ trib # <<>> /\ mg = NoMigrate /\ Head(trib).op = "keys"
  /\ LET c == Head(trib)
         served == getNodeByQuery(node[c.at], c.at, KeysOf(node[c.at]), FALSE, TRUE) = Redirect(c.at, "NONE")
     IN IF KeysOf(node[c.at]) = {} \/ ~served
        THEN trib' = (IF KeysOf(node[c.at]) = {} THEN Tail(trib) ELSE <<>>) /\ UNCHANGED <<sock, mg, hist>>
        ELSE trib' = <<[c EXCEPT !.replace = FALSE]>> \o Tail(trib) /\ Begin(c.at, c.n, c.replace)
  /\ UNCHANGED <<node, late, asks, left>>

---------------------------------------------------------------------------
(* A crash and a restart; keys and nodes.conf are on disk. *)

verifyClusterConfigWithData(v, me) ==
  IF KeysOf(v) = {} \/ v.owner = me \/ v.importing # Null THEN v
  ELSE IF v.owner = Null THEN [v EXCEPT !.owner = me] ELSE [v EXCEPT !.importing = v.owner]

\* The current epoch a node heard of in a packet is not saved for its own sake: it comes
\* back as it was at the last save, or as the greatest config epoch.
SavedEpochs(v) == Max({v.cepoch[n] : n \in Nodes})..v.cur

Restart(n) ==
  /\ Spend("restarts")
  /\ \E epoch \in SavedEpochs(node[n]) :
       node' = [node EXCEPT ![n] = verifyClusterConfigWithData([@ EXCEPT !.cur = epoch], n)]
  /\ sock' = [p \in DOMAIN sock |-> IF p[1] = n THEN NoSocket
                                    ELSE IF p[2] = n /\ sock[p].open THEN [sock[p] EXCEPT !.dead = TRUE, !.req = <<>>, !.rep = <<>>]
                                    ELSE sock[p]]
  /\ late' = {l \in late : l.dst # n} \cup UNION {Unread(p) : p \in {n} \X (Nodes \ {n})}
  /\ IF mg.src = n
     THEN mg' = NoMigrate /\ trib' = <<>> /\ hist' = [hist EXCEPT !.doubt = Doubt(mg, {}, TRUE)]
     ELSE UNCHANGED <<mg, trib, hist>>
  /\ UNCHANGED asks

---------------------------------------------------------------------------
Init ==
  \E s \in Scenes :
    /\ node = s.node /\ left = s.left
    /\ sock = [p \in Nodes \X Nodes |-> NoSocket]
    /\ mg = NoMigrate /\ late = {} /\ trib = <<>> /\ asks = {}
    /\ hist = [truth |-> [k \in Keys |-> ValueOf(s.node[CHOOSE n \in Nodes : \A m \in Nodes : k \in KeysOf(s.node[m]) => m = n], k)],
               doubt |-> {}, stale |-> FALSE]

Commands == [keys : (SUBSET Keys) \ {{}}, del : BOOLEAN]

Next ==
  \/ \E n \in Nodes, c \in Commands : Command(n, c)
  \/ \E a \in asks : askingCommand(a)
  \/ \E s, n \in Nodes : Ping(s, n) \/ TargetExecutes(<<s, n>>) \/ CloseTimedoutSocket(<<s, n>>)
  \/ \E l \in late : LateExecutes(l) \/ LateLost(l)
  \/ MigrateReads \/ \E c \in 0..Cardinality(Keys), timeout \in BOOLEAN : MigrateFails(c, timeout)
  \/ Reshard \/ Fix \/ TribStops \/ TribSetslot \/ TribMigrate
  \/ \E n \in Nodes : Restart(n)

Spec == Init /\ [][Next]_vars

---------------------------------------------------------------------------
(* Properties *)

\* What a node knows: a slot it migrates or imports has a counterpart, no config epoch
\* is beyond its current epoch, and a socket that is not open carries nothing.
TypeOK ==
  /\ \A n \in Nodes : /\ node[n].owner \in Nodes \cup {Null} /\ KeysOf(node[n]) \subseteq Keys
                      /\ n \notin {node[n].migrating, node[n].importing}
                      /\ GetMaxEpoch(node[n]) = node[n].cur
  /\ \A p \in DOMAIN sock : ~sock[p].open => sock[p] = NoSocket

\* A client that follows redirections sees the last write that was answered, wherever
\* it starts: a key is never served by a node that has an old value of it, or that lacks
\* it while another node has it.  Keys in doubt are excused.
ReadsLatest ==
  ~hist.stale => \A n \in Nodes, k \in Keys \ hist.doubt :
    ~Blocked(n) =>
      LET r == getNodeByQuery(node[n], n, {k}, FALSE, FALSE)
      IN /\ r = Redirect(n, "NONE") => ValueOf(node[n], k).v = hist.truth[k].v
         /\ r.why = "ASK" /\ ~Blocked(r.to) /\ Serves(r.to, {k}, TRUE) =>
              ValueOf(node[r.to], k).v = hist.truth[k].v

\* "otherwise a client may be redirected to the target node that does not yet know it is
\* importing this slot" (redis-trib.rb, move_slot): who is sent there is served.
AskIsServed ==
  ~hist.stale => \A n \in Nodes, k \in Keys :
    LET r == getNodeByQuery(node[n], n, {k}, FALSE, FALSE)
    IN r.why = "ASK" => Serves(r.to, {k}, TRUE)

\* No key is at two nodes, but while a MIGRATE moves it: the source deletes exactly what
\* the target acknowledged.  Epochs, slots and sockets have their types.
OneCopy ==
  TypeOK /\ \A k \in Keys \ hist.doubt : \A n, m \in Nodes :
    n # m /\ k \in KeysOf(node[n]) \cap KeysOf(node[m]) => mg # NoMigrate /\ k \in ToSet(mg.keys)

\* "We only retry if we are sure nothing was processed" (cluster.c:4789): when a MIGRATE
\* has just been sent again, none of its keys is at the target.  Refuted: the first
\* reply may be lost after the target has executed the command.
RetryIsClean ==
  mg # NoMigrate /\ ~mg.retry /\ Len(sock[<<mg.src, mg.dst>>].req) = Need(mg)
    => ToSet(mg.keys) \cap KeysOf(node[mg.dst]) = {}

\* "Closing the migrate socket will also force SELECT next time" (cluster.c:4838), after
\* every error: between two MIGRATEs no cached socket carries what is left of the last
\* one, which the next would take for its own.  Refuted: after an acknowledged key the
\* socket is not found by its name and stays.
SocketsIdle == mg = NoMigrate => \A p \in DOMAIN sock : ~Outstanding(p)

\* "set this node configEpoch to a new epoch so that the new version can be propagated
\* by the cluster" (cluster.c, SETSLOT NODE): no node takes the slot back from the node
\* that imported it, which would delete keys that clients wrote.
MovedKeysStay ==
  \A k \in Keys \ hist.doubt : hist.truth[k] # Nowhere => \E n \in Nodes : k \in KeysOf(node[n])
=============================================================================
