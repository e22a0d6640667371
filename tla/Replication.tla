---------------------------- MODULE Replication ----------------------------
(***************************************************************************)
(* Master and slave replication (replication.c, the slave side of          *)
(* networking.c and the saving children of rdb.c).  The stream is made of  *)
(* units that stand for bytes: a SELECT, a PING, the two halves of a       *)
(* write.  A server may be the slave of a slave, change its role, crash.   *)
(* The handshake up to PSYNC is one step.  A close by the slave is seen by *)
(* the master at once.                                                     *)
(***************************************************************************)
EXTENDS Integers, Sequences, FiniteSets, SequencesExt

CONSTANTS Servers, None,
          Dbs,                 \* databases, 0 is the one a new client has
          repl_backlog_size,   \* in units
          Scenes               \* who is whose slave at first, and the bounds of a run

RunIds == Servers \X Nat  \* a server and how often it was restarted: no two runs have the same
Offsets == Nat \cup {-1}  \* -1: none, or counted from a SYNC
Data == Seq(Nat \X Nat)  \* the writes executed, each with its database

\* What is on a link: the units of the stream; the answers to PSYNC, the file.
Units == [k : {"sel"}, db : Dbs] \cup [k : {"ping"}] \cup [k : {"w"}, id : Nat, part : {1, 2}]
Msgs == Units \cup [k : {"cont", "err"}] \cup [k : {"full"}, runid : RunIds, off : Nat] \cup [k : {"rdb"}, data : Data]
Reqs == [cmd : {"SYNC"}] \cup [cmd : {"PSYNC"}, runid : RunIds \cup {None}, off : Int, pre : BOOLEAN]

\* The client of a slave, the connection of a slave, the client of a master.
Clients == [state : {"START", "END", "BULK", "ONLINE"}, out : Seq(Units), ackwait : BOOLEAN, init : Int, ack : Int,
            bulk : {None} \cup [1..1 -> Data], pre : BOOLEAN, unsound : BOOLEAN]
Conns == [to : Servers, wire : Seq(Msgs), open : BOOLEAN, req : Reqs \cup {None}]
Masters == [runid : RunIds \cup {None}, reploff : Offsets, db : Dbs, querybuf : Seq(Units), pre : BOOLEAN]
Backlogs == [buf : [0..(repl_backlog_size - 1) -> Units \cup {None}], idx : 0..(repl_backlog_size - 1),
             histlen : 0..repl_backlog_size, off : Nat]
Children == [type : {"DISK", "SOCKET"}, data : Data]

ASSUME SizesAssumption == repl_backlog_size \in Nat \ {0} /\ Dbs \subseteq Nat /\ 0 \in Dbs
ASSUME NoneAssumption ==
  /\ None \notin Servers /\ None \notin RunIds /\ None \notin Reqs /\ None \notin Clients /\ None \notin Conns
  /\ None \notin Masters /\ None \notin Backlogs /\ None \notin Children /\ None \notin Units
ASSUME ScenesAssumption ==
  \A scene \in Scenes :
    /\ scene.master \in [Servers -> Servers \cup {None}] /\ \A s \in Servers : scene.master[s] # s
    /\ scene.left \in [servers : SUBSET Servers, writes : Nat, pings : Nat, breaks : Nat, slaveofs : Nat, crashes : Nat,
                       saves : Nat, fails : Nat, frees : Nat, diskless : BOOLEAN]

VARIABLES srv,   \* what a server keeps
          cl,    \* cl[m][s]: the client of slave s in server m, or None
          conn,  \* conn[s]: the connection of slave s to its master, or None
          left,  \* what may still happen
          writes \* writes[i]: where write i was made and its offset there (c->woff)

vars == <<srv, cl, conn, left, writes>>

World == [srv |-> srv, cl |-> cl, conn |-> conn]
Become(w) == srv' = w.srv /\ cl' = w.cl /\ conn' = w.conn
Spend(what) == left[what] > 0 /\ left' = [left EXCEPT ![what] = @ - 1]

---------------------------------------------------------------------------
(* The backlog: a ring of the last units of the stream. *)

SlavesOf(w, m) == {s \in Servers : w.cl[m][s] # None}

createReplicationBacklog(v) ==
  [v EXCEPT !.offset = @ + 1,
            !.backlog = [buf |-> [i \in 0..(repl_backlog_size - 1) |-> None], idx |-> 0, histlen |-> 0, off |-> v.offset + 2]]

\* One unit of what is written into the ring.
FeedUnit(v, u) ==
  LET histlen == IF v.backlog.histlen < repl_backlog_size THEN v.backlog.histlen + 1 ELSE repl_backlog_size
  IN [v EXCEPT !.offset = @ + 1,
               !.backlog = [buf |-> [@.buf EXCEPT ![v.backlog.idx] = u], idx |-> (@.idx + 1) % repl_backlog_size,
                            histlen |-> histlen, off |-> v.offset + 1 - histlen + 1]]

feedReplicationBacklog(v, units) ==
  LET loop[i \in 0..Len(units)] == IF i = 0 THEN v ELSE FeedUnit(loop[i - 1], units[i])
  IN loop[Len(units)]

\* The units from an offset on.
addReplyReplicationBacklog(b, offset) ==
  LET skip == offset - b.off
      j == (b.idx + (repl_backlog_size - b.histlen) + skip) % repl_backlog_size
  IN [i \in 1..(b.histlen - skip) |-> b.buf[(j + i - 1) % repl_backlog_size]]

---------------------------------------------------------------------------
(* What a master sends. *)

Sent(k, units) == IF k = None THEN None ELSE [k EXCEPT !.wire = @ \o units]
Send(w, slaves, units) ==
  [w EXCEPT !.conn = [s \in Servers |-> IF s \in slaves THEN Sent(w.conn[s], units) ELSE w.conn[s]]]

\* addReply to a slave: its buffer is sent from the moment it is online.
Fed(c) == IF c = None THEN FALSE ELSE c.state # "START"
Direct(c) == Fed(c) /\ c.state = "ONLINE" /\ ~c.ackwait
ToSlave(c, units) == IF Fed(c) /\ ~Direct(c) THEN [c EXCEPT !.out = @ \o units] ELSE c

replicationFeedSlaves(w, m, db, cmd) ==
  LET units == (IF w.srv[m].seldb # db THEN <<[k |-> "sel", db |-> db]>> ELSE <<>>) \o cmd
      fed == [w EXCEPT !.srv[m] = feedReplicationBacklog([@ EXCEPT !.seldb = db], units),
                       !.cl[m] = [s \in Servers |-> ToSlave(w.cl[m][s], units)]]
  IN IF w.srv[m].backlog = None THEN w ELSE Send(fed, {s \in Servers : Direct(w.cl[m][s])}, units)

Halves(id) == <<[k |-> "w", id |-> id, part |-> 1], [k |-> "w", id |-> id, part |-> 2]>>

---------------------------------------------------------------------------
(* Clients that go. *)

\* freeClient of slaves; the other side reads what is on its way, then the end.
Closed(k) == IF k = None THEN None ELSE [k EXCEPT !.open = FALSE]
freeSlaves(w, m, slaves) ==
  [w EXCEPT !.cl[m] = [s \in Servers |-> IF s \in slaves THEN None ELSE w.cl[m][s]],
            !.conn = [s \in Servers |-> IF s \in slaves THEN Closed(w.conn[s]) ELSE w.conn[s]]]
disconnectSlaves(w, m) == freeSlaves(w, m, SlavesOf(w, m))
freeReplicationBacklog(w, m) == [w EXCEPT !.srv[m].backlog = None]

\* The slave closes its connection.
CloseConn(w, s) ==
  IF w.conn[s] = None THEN w ELSE [w EXCEPT !.conn[s] = None, !.cl[w.conn[s].to][s] = None]

\* freeClient of the master: it is kept for a partial resynchronization.
replicationCacheMaster(w, s) ==
  CloseConn([w EXCEPT !.srv[s].cached = w.srv[s].master, !.srv[s].master = None, !.srv[s].repl_state = "CONNECT"], s)

replicationDiscardCachedMaster(w, s) == [w EXCEPT !.srv[s].cached = None]

\* undoConnectWithMaster or replicationAbortSyncTransfer.
cancelReplicationHandshake(w, s) ==
  IF w.srv[s].repl_state \in {"CONNECTING", "RECEIVE_PSYNC", "TRANSFER"}
  THEN CloseConn([w EXCEPT !.srv[s].repl_state = "CONNECT"], s) ELSE w

---------------------------------------------------------------------------
(* Full synchronization, on the master. *)

\* The backlog is created after the offset was told.
getPsyncInitialOffset(v) == IF v.backlog = None THEN v.offset + 1 ELSE v.offset

\* Variant: the database selected last is not forgotten.
SetupWithoutSelect(w, m, slaves, offset) ==
  Send([w EXCEPT !.cl[m] = [s \in Servers |-> IF s \in slaves THEN [w.cl[m][s] EXCEPT !.state = "END", !.init = offset] ELSE w.cl[m][s]]],
       {s \in slaves : ~w.cl[m][s].pre}, <<[k |-> "full", runid |-> w.srv[m].runid, off |-> offset]>>)

\* For one slave or more.  The next command is preceded by a SELECT.
replicationSetupSlaveForFullResync(w, m, slaves, offset) ==
  Send([w EXCEPT !.cl[m] = [s \in Servers |-> IF s \in slaves THEN [w.cl[m][s] EXCEPT !.state = "END", !.init = offset] ELSE w.cl[m][s]],
                 !.srv[m].seldb = -1],
       {s \in slaves : ~w.cl[m][s].pre}, <<[k |-> "full", runid |-> w.srv[m].runid, off |-> offset]>>)

InState(w, m, state) == {s \in SlavesOf(w, m) : w.cl[m][s].state = state}

\* The child, with the data of the moment of the fork.
rdbSaveBackground(v) == [v EXCEPT !.child = [type |-> "DISK", data |-> v.data]]
rdbSaveToSlavesSockets(v) == [v EXCEPT !.child = [type |-> "SOCKET", data |-> v.data]]

\* When the fork fails the slaves that wait get an error; those of a transfer to
\* sockets were told the offset before.
startBgsaveForReplication(w, m, forked) ==
  LET slaves == InState(w, m, "START")
      told == replicationSetupSlaveForFullResync(w, m, slaves, getPsyncInitialOffset(w.srv[m]))
  IN IF forked THEN [told EXCEPT !.srv[m] = IF left.diskless THEN rdbSaveToSlavesSockets(@) ELSE rdbSaveBackground(@)]
     ELSE freeSlaves(Send(IF left.diskless THEN told ELSE w, slaves, <<[k |-> "err"]>>), m, slaves)

NewClient(pre) == [state |-> "START", out |-> <<>>, ackwait |-> FALSE, init |-> -1, ack |-> 0, bulk |-> None, pre |-> pre, unsound |-> FALSE]

PartialAllowed(v, req) ==
  /\ req.cmd = "PSYNC" /\ req.runid = v.runid /\ v.backlog # None
  /\ v.backlog # None => req.off >= v.backlog.off /\ req.off <= v.backlog.off + v.backlog.histlen

\* unsound: the offset is not one of this stream (see LinkConsistent).
masterTryPartialResynchronization(w, m, s, req) ==
  Send([w EXCEPT !.cl[m][s] = [NewClient(FALSE) EXCEPT !.state = "ONLINE", !.unsound = req.pre \/ w.srv[m].reused]],
       {s}, <<[k |-> "cont"]>> \o addReplyReplicationBacklog(w.srv[m].backlog, req.off))

\* A slave joins the save another one waits for, with a copy of its buffer; or waits
\* for the next; or starts one.
SyncWithChild(w, m, s, forked) ==
  LET ending == InState(w, m, "END")
      child == w.srv[m].child
      IsDisk == IF child = None THEN FALSE ELSE child.type = "DISK"
  IN IF child # None
     THEN IF IsDisk /\ ending # {}
          THEN LET x == CHOOSE y \in ending : TRUE
               IN replicationSetupSlaveForFullResync([w EXCEPT !.cl[m][s].out = w.cl[m][x].out], m, {s}, w.cl[m][x].init)
          ELSE w
     ELSE IF left.diskless THEN w ELSE startBgsaveForReplication(w, m, forked)

syncFull(w0, m, s, req, forked) ==
  LET w == SyncWithChild([w0 EXCEPT !.cl[m][s] = NewClient(req.cmd = "SYNC")], m, s, forked)
  IN IF Cardinality(SlavesOf(w, m)) = 1 /\ w.cl[m][s] # None /\ w.srv[m].backlog = None
     THEN [w EXCEPT !.srv[m] = createReplicationBacklog(@)] ELSE w

syncCommand(w0, m, s, forked) ==
  LET req == w0.conn[s].req
      w == [w0 EXCEPT !.conn[s].req = None]
      v == w.srv[m]
  IN IF v.masterhost # None /\ v.repl_state # "CONNECTED" THEN Send(w, {s}, <<[k |-> "err"]>>)
     ELSE IF PartialAllowed(v, req) THEN masterTryPartialResynchronization(w, m, s, req)
     ELSE syncFull(w, m, s, req, forked)

putSlaveOnline(w, m, s) ==
  Send([w EXCEPT !.cl[m][s] = [@ EXCEPT !.state = "ONLINE", !.ackwait = FALSE, !.out = <<>>, !.bulk = None]], {s}, w.cl[m][s].out)

\* The child ended.  From disk the file is sent, by the server; to the sockets the
\* child sent it, and the slaves in ok have it.
updateSlavesWaitingBgsave(w0, m, good, ok, forked) ==
  LET child == w0.srv[m].child
      disk == child.type = "DISK"
      ending == InState(w0, m, "END")
      have == IF disk THEN IF good THEN ending ELSE {} ELSE ending \cap ok
      ended == [w0 EXCEPT !.srv[m] = [@ EXCEPT !.child = None, !.rdb = IF good /\ disk THEN child.data ELSE w0.srv[m].rdb]]
      w == freeSlaves(ended, m, ending \ have)
      Ready(c) == IF disk THEN [c EXCEPT !.state = "BULK", !.bulk = <<child.data>>] ELSE [c EXCEPT !.state = "ONLINE", !.ackwait = TRUE]
      all == Send([w EXCEPT !.cl[m] = [s \in Servers |-> IF s \in have THEN Ready(w.cl[m][s]) ELSE w.cl[m][s]]],
                  IF disk THEN {} ELSE have, <<[k |-> "rdb", data |-> child.data]>>)
  IN IF InState(all, m, "START") # {} THEN startBgsaveForReplication(all, m, forked) ELSE all

---------------------------------------------------------------------------
(* The slave. *)

replicationResurrectCachedMaster(w, s) ==
  [w EXCEPT !.srv[s].master = w.srv[s].cached, !.srv[s].cached = None, !.srv[s].repl_state = "CONNECTED"]

\* The answer to PSYNC.  Unless it continues, the slaves of the slave are dropped
\* and its backlog too: its data are about to be replaced.  After an error it tries SYNC.
slaveTryPartialResynchronization(w, s, u) ==
  LET dropped == freeReplicationBacklog(disconnectSlaves(w, s), s)
  IN IF u.k = "cont" THEN [replicationResurrectCachedMaster(w, s) EXCEPT !.conn[s].wire = Tail(@)]
     ELSE IF u.k = "full"
     THEN [replicationDiscardCachedMaster(dropped, s) EXCEPT !.conn[s].wire = Tail(@), !.srv[s].repl_state = "TRANSFER",
                                                             !.srv[s].init = [runid |-> u.runid, off |-> u.off]]
     ELSE [replicationDiscardCachedMaster(dropped, s) EXCEPT !.conn[s].wire = Tail(@), !.srv[s].repl_state = "TRANSFER",
                                                             !.conn[s].req = [cmd |-> "SYNC"]]

\* The end of the connection instead of an answer counts as an error.
PsyncReadError(w, s) ==
  CloseConn([replicationDiscardCachedMaster(freeReplicationBacklog(disconnectSlaves(w, s), s), s)
             EXCEPT !.srv[s].repl_state = "CONNECT"], s)

\* The file is renamed to the server's own and loaded; the master's offset is the one
\* the master told, of no meaning after SYNC.
readSyncBulkPayload(w, s, u) ==
  LET init == w.srv[s].init
  IN IF u.k # "rdb" THEN cancelReplicationHandshake(w, s)
     ELSE [w EXCEPT !.conn[s].wire = Tail(@),
                    !.srv[s] = [@ EXCEPT !.data = u.data, !.rdb = u.data, !.repl_state = "CONNECTED",
                                         !.master = [runid |-> init.runid, reploff |-> init.off, db |-> 0, querybuf |-> <<>>, pre |-> init.off = -1]]]

\* What a unit of the stream does to the data, the selected database and the query
\* buffer: a command that is whole is executed.
Apply(x, u) ==
  LET q == Append(x.querybuf, u)
  IN IF q[1].k = "ping" THEN [x EXCEPT !.querybuf = <<>>]
     ELSE IF q[1].k = "sel" THEN [x EXCEPT !.db = q[1].db, !.querybuf = <<>>]
     ELSE IF Len(q) = 1 THEN [x EXCEPT !.querybuf = q]
     ELSE [x EXCEPT !.data = Append(@, <<q[1].id, x.db>>), !.querybuf = <<>>]

Reading(data, master) == [data |-> data, db |-> master.db, querybuf |-> master.querybuf]

\* readQueryFromClient of the master: the offset counts what was read, the rest of a
\* command included.  A write that was executed goes to the slaves of the slave.
readQueryFromMaster(w, s) ==
  LET u == Head(w.conn[s].wire)
      master == w.srv[s].master
      q == Append(master.querybuf, u)
      x == Apply(Reading(w.srv[s].data, master), u)
      read == [w EXCEPT !.conn[s].wire = Tail(@),
                        !.srv[s] = [@ EXCEPT !.data = x.data,
                                             !.master = [master EXCEPT !.reploff = @ + 1, !.db = x.db, !.querybuf = x.querybuf]]]
  IN IF q[1].k = "w" /\ Len(q) # 1 THEN replicationFeedSlaves(read, s, x.db, Halves(q[1].id)) ELSE read

---------------------------------------------------------------------------
(* Steps. *)

NewServer(runid, data, master) ==
  [runid |-> runid, masterhost |-> master, repl_state |-> IF master = None THEN "NONE" ELSE "CONNECT", master |-> None, cached |-> None,
   init |-> [runid |-> None, off |-> -1], data |-> data, rdb |-> data, offset |-> 0, backlog |-> None, seldb |-> -1, child |-> None,
   reused |-> FALSE]

Init ==
  \E scene \in Scenes :
    /\ left = scene.left
    /\ srv = [s \in Servers |-> NewServer(<<s, 0>>, <<>>, scene.master[s])]
    /\ cl = [m \in Servers |-> [s \in Servers |-> None]]
    /\ conn = [s \in Servers |-> None] /\ writes = <<>>

Write(m, db) ==
  LET id == Len(writes) + 1
      w == replicationFeedSlaves([World EXCEPT !.srv[m].data = Append(@, <<id, db>>)], m, db, Halves(id))
  IN /\ srv[m].masterhost = None /\ Spend("writes") /\ Become(w)
     /\ writes' = Append(writes, [at |-> m, runid |-> srv[m].runid, off |-> w.srv[m].offset, reused |-> srv[m].reused])

\* replicationCron.
CronPing(m) ==
  /\ srv[m].backlog # None /\ Spend("pings")
  /\ Become(replicationFeedSlaves(World, m, srv[m].seldb, <<[k |-> "ping"]>>)) /\ UNCHANGED writes
CronFreeBacklog(m) ==
  /\ SlavesOf(World, m) = {} /\ srv[m].backlog # None
  /\ Spend("frees") /\ Become(freeReplicationBacklog(World, m)) /\ UNCHANGED writes
CronBgsave(m) ==
  /\ srv[m].child = None /\ InState(World, m, "START") # {}
  /\ Become(startBgsaveForReplication(World, m, TRUE)) /\ UNCHANGED <<left, writes>>

\* The link of a slave is up.
Linked(m, s) == IF conn[s] = None \/ cl[m][s] = None THEN FALSE ELSE conn[s].to = m /\ conn[s].open

\* REPLCONF ACK; the first one ends the wait of a slave that got the file from a socket.
replicationSendAck(s) ==
  /\ srv[s].master # None /\ conn[s] # None
  /\ LET m == conn[s].to
         w == [World EXCEPT !.cl[m][s].ack = IF srv[s].master.reploff > @ THEN srv[s].master.reploff ELSE @]
     IN /\ Linked(m, s) /\ ~srv[s].master.pre
        /\ cl[m][s].ack < srv[s].master.reploff \/ cl[m][s].ackwait
        /\ Become(IF cl[m][s].ackwait THEN putSlaveOnline(w, m, s) ELSE w)
  /\ UNCHANGED <<left, writes>>

connectWithMaster(s) ==
  /\ srv[s].repl_state = "CONNECT"
  /\ Become([World EXCEPT !.srv[s].repl_state = "CONNECTING",
                          !.conn[s] = [to |-> srv[s].masterhost, wire |-> <<>>, open |-> TRUE, req |-> None]])
  /\ UNCHANGED <<left, writes>>

\* The handshake, and PSYNC with the offset of the cached master.
syncWithMaster(s) ==
  LET c == srv[s].cached
      req == IF c = None THEN [cmd |-> "PSYNC", runid |-> None, off |-> -1, pre |-> FALSE]
             ELSE [cmd |-> "PSYNC", runid |-> c.runid, off |-> c.reploff + 1, pre |-> c.pre]
  IN /\ srv[s].repl_state = "CONNECTING" /\ conn[s].open
     /\ Become([World EXCEPT !.srv[s].repl_state = "RECEIVE_PSYNC", !.srv[s].init.off = -1, !.conn[s].req = req])
     /\ UNCHANGED <<left, writes>>

Sync(s, forked) ==
  /\ conn[s] # None
  /\ conn[s].req # None /\ conn[s].open
  /\ Become(syncCommand(World, conn[s].to, s, forked))
  /\ IF forked THEN UNCHANGED left ELSE Spend("fails")
  /\ UNCHANGED writes

Receive(s) ==
  /\ conn[s] # None
  /\ conn[s].wire # <<>>
  /\ \/ srv[s].repl_state = "RECEIVE_PSYNC" /\ Become(slaveTryPartialResynchronization(World, s, Head(conn[s].wire)))
     \/ srv[s].repl_state = "TRANSFER" /\ Become(readSyncBulkPayload(World, s, Head(conn[s].wire)))
     \/ srv[s].repl_state = "CONNECTED" /\ Become(readQueryFromMaster(World, s))
  /\ UNCHANGED <<left, writes>>

\* A slave reads the end of its connection.
Eof(s) ==
  /\ conn[s] # None
  /\ ~conn[s].open /\ conn[s].wire = <<>>
  /\ Become(CASE srv[s].repl_state = "CONNECTED" -> replicationCacheMaster(World, s)
              [] srv[s].repl_state = "RECEIVE_PSYNC" -> PsyncReadError(World, s)
              [] OTHER -> cancelReplicationHandshake(World, s))
  /\ UNCHANGED <<left, writes>>

\* The connection breaks; what was on its way is lost.
Break(s) ==
  /\ conn[s] # None /\ Spend("breaks")
  /\ Become([World EXCEPT !.conn[s].open = FALSE, !.conn[s].wire = <<>>, !.cl[conn[s].to][s] = None])
  /\ UNCHANGED writes

\* replicationCron of a slave that heard nothing for repl_timeout.
CronTimeout(s) ==
  /\ conn[s] # None /\ Spend("breaks")
  /\ Become(IF srv[s].repl_state = "CONNECTED" THEN replicationCacheMaster(World, s) ELSE cancelReplicationHandshake(World, s))
  /\ UNCHANGED writes

\* BGSAVE of a client or of a save point.
bgsaveCommand(m) ==
  /\ srv[m].child = None /\ Spend("saves")
  /\ Become([World EXCEPT !.srv[m] = rdbSaveBackground(@)]) /\ UNCHANGED writes
backgroundSaveDoneHandler(m, good) ==
  /\ srv[m].child # None
  /\ IF good THEN UNCHANGED left ELSE Spend("fails")
  /\ \E ok \in {{}, SlavesOf(World, m)} : Become(updateSlavesWaitingBgsave(World, m, good, IF good THEN ok ELSE {}, TRUE))
  /\ UNCHANGED writes
sendBulkToSlave(m, s) ==
  /\ cl[m][s] # None
  /\ cl[m][s].state = "BULK"
  /\ Become(putSlaveOnline(Send(World, {s}, <<[k |-> "rdb", data |-> cl[m][s].bulk[1]]>>), m, s))
  /\ UNCHANGED <<left, writes>>

\* A server, its master and the master of that one.
MastersOf(m) == LET Up(x) == IF x = None THEN None ELSE srv[x].masterhost IN {m, Up(m), Up(Up(m))}

replicationSetMaster(s, m) ==
  LET freed == IF srv[s].master # None THEN replicationCacheMaster(World, s) ELSE World
      w == cancelReplicationHandshake(freeReplicationBacklog(replicationDiscardCachedMaster(disconnectSlaves(freed, s), s), s), s)
  IN /\ m # srv[s].masterhost /\ s \notin MastersOf(m)  \* bound: no cycle
     /\ Spend("slaveofs")
     /\ Become([w EXCEPT !.srv[s] = [@ EXCEPT !.masterhost = m, !.repl_state = "CONNECT", !.offset = 0,
                                           !.reused = srv[s].reused \/ srv[s].offset > 0]])
     /\ UNCHANGED writes

replicationUnsetMaster(s) ==
  LET alone == SlavesOf(World, s) = {}
      w1 == IF srv[s].master # None /\ alone
            THEN freeReplicationBacklog([World EXCEPT !.srv[s] = [@ EXCEPT !.offset = srv[s].master.reploff,
                                                                           !.reused = srv[s].reused \/ srv[s].master.reploff < srv[s].offset]], s)
            ELSE World
      w2 == IF srv[s].master # None THEN replicationCacheMaster(w1, s) ELSE w1
      w == cancelReplicationHandshake(replicationDiscardCachedMaster(w2, s), s)
  IN /\ srv[s].masterhost # None /\ Spend("slaveofs")
     /\ Become([w EXCEPT !.srv[s].masterhost = None, !.srv[s].repl_state = "NONE"]) /\ UNCHANGED writes

\* A crash: the last file is loaded, the run id is new.
Restart(s) ==
  LET w == disconnectSlaves(CloseConn(World, s), s)
  IN /\ Spend("crashes") /\ Become([w EXCEPT !.srv[s] = NewServer(<<s, srv[s].runid[2] + 1>>, srv[s].rdb, srv[s].masterhost)]) /\ UNCHANGED writes

Next == \/ \E m \in left.servers : \/ \E db \in Dbs : Write(m, db)
                              \/ CronPing(m) \/ CronFreeBacklog(m) \/ CronBgsave(m) \/ bgsaveCommand(m)
                              \/ \E good \in BOOLEAN : backgroundSaveDoneHandler(m, good)
                              \/ \E s \in left.servers : sendBulkToSlave(m, s) \/ replicationSetMaster(s, m)
        \/ \E s \in left.servers : \/ replicationSendAck(s) \/ connectWithMaster(s) \/ syncWithMaster(s) \/ Receive(s) \/ Eof(s)
                              \/ \E forked \in BOOLEAN : Sync(s, forked)
                              \/ Break(s) \/ CronTimeout(s) \/ replicationUnsetMaster(s) \/ Restart(s)

Spec == Init /\ [][Next]_vars

---------------------------------------------------------------------------
(* WAIT *)

\* Variant: one unit short is enough.
AckedBefore(m, offset) ==
  {s \in SlavesOf(World, m) : cl[m][s].state = "ONLINE" /\ cl[m][s].ack + 1 >= offset}

\* The slaves that replicationCountAcksByOffset counts.
AckedByOffset(m, offset) ==
  {s \in SlavesOf(World, m) : cl[m][s].state = "ONLINE" /\ cl[m][s].ack >= offset}

replicationCountAcksByOffset(m, offset) == Cardinality(AckedByOffset(m, offset))

\* The answers to the clients that wait, in their order; one that waits for less than
\* the last one served is answered like it.
processClientsWaitingReplicas(m, waiting) ==
  LET Serve(acc, c) ==
        IF acc.off # 0 /\ acc.off > c.off /\ acc.num > c.num THEN [acc EXCEPT !.answers = Append(@, acc.num)]
        ELSE LET n == replicationCountAcksByOffset(m, c.off)
             IN IF n >= c.num THEN [off |-> c.off, num |-> n, answers |-> Append(acc.answers, n)]
                ELSE [acc EXCEPT !.answers = Append(@, -1)]
  IN FoldLeft(Serve, [off |-> 0, num |-> 0, answers |-> <<>>], waiting).answers

---------------------------------------------------------------------------
(* Properties *)

\* What a slave has once it has executed some units.
Replayed(x, units) ==
  LET loop[i \in 0..Len(units)] == IF i = 0 THEN x ELSE Apply(loop[i - 1], units[i])
  IN loop[Len(units)]

\* The assertion of replicationFeedSlaves: a server with slaves has a backlog; and a
\* server has a master, a cached one or none, as its state says.
TypeOK ==
  /\ \A m \in Servers : SlavesOf(World, m) # {} => srv[m].backlog # None
  /\ \A s \in Servers :
       /\ srv[s].repl_state \in {"NONE", "CONNECT", "CONNECTING", "RECEIVE_PSYNC", "TRANSFER", "CONNECTED"}
       /\ (srv[s].master # None) <=> (srv[s].repl_state = "CONNECTED")
       /\ (srv[s].masterhost = None) <=> (srv[s].repl_state = "NONE")
       /\ (conn[s] # None) <=> (srv[s].repl_state \notin {"NONE", "CONNECT"})
       /\ srv[s].cached # None => srv[s].repl_state \in {"CONNECT", "CONNECTING", "RECEIVE_PSYNC"}

\* What a connected slave has, what is on its way to it and what its master holds for
\* it make up the data of the master, each write in its database, and the offsets
\* agree, after any sequence of lost connections, partial and full synchronizations.
\* Partial synchronizations that the code wrongly accepts are excused: a master that
\* was a slave in between under the same run id, or an offset counted after SYNC.  The
\* states of both ends fit each other.
LinkConsistent ==
  TypeOK /\ \A m, s \in Servers :
    Linked(m, s) /\ srv[s].repl_state = "CONNECTED" =>
      LET units == conn[s].wire \o cl[m][s].out
          x == Replayed(Reading(srv[s].data, srv[s].master), units)
      IN cl[m][s].unsound \/
         /\ x.data = srv[m].data /\ x.querybuf = <<>>
         /\ cl[m][s].pre \/ srv[s].master.reploff + Len(units) = srv[m].offset

\* Write i is of the stream its server still has.
Current(i) ==
  LET m == writes[i].at
  IN writes[i].runid = srv[m].runid /\ ~writes[i].reused /\ ~srv[m].reused /\ srv[m].masterhost = None

\* Each slave that WAIT counts for write i holds it.
CountedHold(i) ==
  \A s \in AckedByOffset(writes[i].at, writes[i].off) :
    cl[writes[i].at][s].unsound \/ \E j \in DOMAIN srv[s].data : srv[s].data[j][1] = i

\* waitCommand: each slave counted by WAIT holds the write, whatever it has been through
\* (lost, back, synchronized again), and the clients that wait together get answers that
\* hold.  A write made before the server had a backlog is excused: its offset is 0
\* (redis.c:2321) and a slave that is ONLINE and still loads has acknowledged 0, which
\* is enough to be counted (replication.c:2079-2080, WaitCountsHolders).
WaitHonest ==
  \A i \in DOMAIN writes :
    LET m == writes[i].at
    IN Current(i) =>
         /\ writes[i].off # 0 => CountedHold(i)
         /\ \A j \in DOMAIN writes, n, k \in 1..2 : writes[j].at = m =>
              LET a == processClientsWaitingReplicas(m, <<[off |-> writes[j].off, num |-> k], [off |-> writes[i].off, num |-> n]>>)[2]
              IN a # -1 => a >= n /\ a <= replicationCountAcksByOffset(m, writes[i].off)

\* replication.c:2045-2047 of WAIT: "That returns the number of replicas that processed
\* the query", of every write.  Refuted by the write that WaitHonest excuses.
WaitCountsHolders == \A i \in DOMAIN writes : Current(i) => CountedHold(i)
============================================================================
