---------------------------- MODULE Persistence ----------------------------
(***************************************************************************)
(* What a server keeps on disk: the append only file with its buffer, the  *)
(* background fsync, the rewrite by a child that gets the difference over  *)
(* a pipe, and the snapshots.  A write has two units, so that it can be    *)
(* written in part; the data are the set of writes made.  A loss of power  *)
(* keeps what was synced and any part of the rest.                         *)
(***************************************************************************)
EXTENDS Integers, Sequences, FiniteSets, SequencesExt

CONSTANTS dbnum, REDIS_AOF_REWRITE_ITEMS_PER_CMD,
          Scenes   \* the configuration, and the bounds of a run

ASSUME SizesAssumption == dbnum \in Nat \ {0} /\ REDIS_AOF_REWRITE_ITEMS_PER_CMD \in Nat \ {0}

\* What may happen, and how often.
Bounds == {"writes", "txs", "flushes", "saves", "rewrites", "configs", "resyncs", "ticks", "fails", "crashes", "shutdowns"}
ASSUME ScenesAssumption ==
  \A scene \in Scenes : DOMAIN scene.left = Bounds /\ \A what \in Bounds : scene.left[what] \in Nat

Dbs == 0..(dbnum - 1)

VARIABLES srv,    \* the server
          rw,     \* the child that rewrites the append only file, or NoChild
          rdbc,   \* the child that saves a snapshot, or NoChild
          disk, jobs,
          hist,   \* the data after every command since the start, and how many were answered
          left

vars == <<srv, rw, rdbc, disk, jobs, hist, left>>

World == [srv |-> srv, rw |-> rw, rdbc |-> rdbc, disk |-> disk, jobs |-> jobs]
Become(w) == srv' = w.srv /\ rw' = w.rw /\ rdbc' = w.rdbc /\ disk' = w.disk /\ jobs' = w.jobs
Spend(what) == left[what] > 0 /\ left' = [left EXCEPT ![what] = @ - 1]
SpendIf(cond, what) == IF cond THEN Spend(what) ELSE UNCHANGED left

NoChild == [st |-> "none"]
Zombie(c) == c.st \in {"ok", "err", "sig"}

---------------------------------------------------------------------------
(* The file: what a rewrite makes of the data, what loading makes of it. *)

Sel(db) == [k |-> "sel", db |-> db]
Halves(id) == <<[k |-> "w1", id |-> id], [k |-> "w2", id |-> id]>>

\* rewriteSetObject, rewriteSortedSetObject and rewriteHashObject are the same loop: commands
\* of at most so many items, each announcing how many it has.
RewriteItem(acc, i) ==
  LET cmd_items == IF acc.items > REDIS_AOF_REWRITE_ITEMS_PER_CMD THEN REDIS_AOF_REWRITE_ITEMS_PER_CMD ELSE acc.items
      cmds == IF acc.count = 0 THEN Append(acc.cmds, [k |-> "push", ids |-> <<>>, n |-> cmd_items]) ELSE acc.cmds
  IN [cmds |-> [cmds EXCEPT ![Len(cmds)].ids = Append(@, i)],
      count |-> IF acc.count + 1 = REDIS_AOF_REWRITE_ITEMS_PER_CMD THEN 0 ELSE acc.count + 1, items |-> acc.items - 1]
rewriteListObject(items) ==
  LET loop[i \in 0..Len(items)] ==
        IF i = 0 THEN [cmds |-> <<>>, count |-> 0, items |-> Len(items)] ELSE RewriteItem(loop[i - 1], items[i])
  IN loop[Len(items)].cmds

\* The databases one after the other, those without data left out.
RewriteDb(data, db) ==
  LET ids == {x[1] : x \in {y \in data : y[2] = db}} IN IF ids = {} THEN <<>> ELSE <<Sel(db)>> \o rewriteListObject(SetToSeq(ids))
rewriteAppendOnlyFile(data) ==
  LET loop[j \in 0..dbnum] == IF j = 0 THEN <<>> ELSE loop[j - 1] \o RewriteDb(data, j - 1)
  IN loop[dbnum]

\* Loading: the data, how much of the file is valid, and whether a transaction stayed open.
\* A queued command is run by EXEC.
EmptyLoad ==
  [db |-> 0, data |-> {}, dirty |-> 0, open |-> FALSE, queue |-> <<>>, read |-> 0, len |-> 0, torn |-> FALSE, bad |-> FALSE]

RunCommand(acc, u) ==
  CASE u.k = "sel" -> [acc EXCEPT !.db = u.db]
    [] u.k = "w2" -> [acc EXCEPT !.data = @ \cup {<<u.id, acc.db>>}, !.dirty = @ + 1]
    [] u.k = "push" -> [acc EXCEPT !.data = @ \cup {<<u.ids[i], acc.db>> : i \in DOMAIN u.ids}, !.bad = @ \/ u.n # Len(u.ids),
                                   !.dirty = @ + u.n]
    [] u.k = "flush" -> [acc EXCEPT !.data = {}, !.dirty = @ + Cardinality(acc.data) + 1]
    [] OTHER -> acc
RunQueue(acc, queue) ==
  LET loop[i \in 0..Len(queue)] == IF i = 0 THEN acc ELSE RunCommand(loop[i - 1], queue[i]) IN loop[Len(queue)]

ReadUnit(acc, u) ==
  [acc EXCEPT !.read = @ + 1, !.torn = u.k = "w1", !.bad = @ \/ (acc.torn /\ u.k # "w2"),
              !.len = IF u.k = "w1" THEN @ ELSE acc.read + 1]
LoadUnit(acc0, u) ==
  LET acc == ReadUnit(acc0, u)
  IN CASE u.k = "multi" -> [acc EXCEPT !.open = TRUE]
       [] u.k = "exec" -> RunQueue([acc EXCEPT !.open = FALSE, !.queue = <<>>], acc.queue)
       [] u.k \notin {"multi", "exec"} /\ acc.open -> [acc EXCEPT !.queue = Append(@, u)]
       [] OTHER -> RunCommand(acc, u)
loadAppendOnlyFile(units) ==
  LET loop[i \in 0..Len(units)] == IF i = 0 THEN EmptyLoad ELSE LoadUnit(loop[i - 1], units[i]) IN loop[Len(units)]

---------------------------------------------------------------------------
(* Appending *)

\* The buffer of the rewrite grows too, whatever the state of the file.
aofRewriteBufferAppend(w, buf) == IF w.rw = NoChild THEN w ELSE [w EXCEPT !.rw.blocks = @ \o buf]

AppendToBuf(w, db, buf) ==
  [w EXCEPT !.srv.aof_selected_db = db, !.srv.aof_buf = IF w.srv.aof_state = "ON" THEN @ \o buf ELSE @]

feedAppendOnlyFile(w, db, cmd) ==
  LET buf == (IF w.srv.aof_selected_db # db THEN <<Sel(db)>> ELSE <<>>) \o cmd
  IN IF w.srv.aof_state = "OFF" THEN w ELSE aofRewriteBufferAppend(AppendToBuf(w, db, buf), buf)

aof_fsync(w) == [w EXCEPT !.disk.synced = Len(w.disk.units)]
aof_background_fsync(w) == [w EXCEPT !.jobs = Append(@, w.disk.gen)]

\* Variant: "always" leaves the fsync to the thread.
SyncInBackground(w, syncing) == IF w.srv.appendfsync = "no" \/ syncing THEN w ELSE aof_background_fsync(w)

AfterWrite(w, syncing) ==
  IF w.srv.appendfsync = "always" THEN [aof_fsync(w) EXCEPT !.srv.aof_last_fsync = w.srv.unixtime]
  ELSE IF w.srv.appendfsync = "everysec" /\ w.srv.unixtime > w.srv.aof_last_fsync
  THEN [IF syncing THEN w ELSE aof_background_fsync(w) EXCEPT !.srv.aof_last_fsync = w.srv.unixtime]
  ELSE w

\* n: how much of the buffer the file system takes, for good (what a short write left
\* and ftruncate took away counts as not written).  With "always" the server exits.
WriteBuf(w, n, syncing) ==
  LET buf == w.srv.aof_buf
      wrote == [w EXCEPT !.disk.units = @ \o SubSeq(buf, 1, n), !.srv.aof_buf = SubSeq(buf, n + 1, Len(buf)),
                         !.srv.aof_flush_postponed_start = 0]
  IN IF n = Len(buf) THEN AfterWrite([wrote EXCEPT !.srv.aof_last_write_status = "OK"], syncing)
     ELSE IF w.srv.appendfsync = "always" THEN [wrote EXCEPT !.srv.up = FALSE]
     ELSE [wrote EXCEPT !.srv.aof_last_write_status = "ERR"]

flushAppendOnlyFile(w, force, n) ==
  LET v == w.srv
      syncing == v.appendfsync = "everysec" /\ w.jobs # <<>>
      wait == v.aof_flush_postponed_start = 0 \/ v.unixtime - v.aof_flush_postponed_start < 2
  IN IF v.aof_buf = <<>> THEN w
     ELSE IF syncing /\ ~force /\ wait
     THEN [w EXCEPT !.srv.aof_flush_postponed_start = IF @ = 0 THEN v.unixtime ELSE @]
     ELSE WriteBuf(w, IF v.aof_fd = "open" THEN n ELSE 0, syncing)

\* What a write may take: all, or less while disk errors are left.
Takes(w) ==
  {Len(w.srv.aof_buf)} \cup (IF left.fails > 0 /\ w.srv.aof_buf # <<>> THEN {0, 1} \cap 0..(Len(w.srv.aof_buf) - 1) ELSE {})

---------------------------------------------------------------------------
(* The rewrite *)

\* Variant: the difference goes on in the database selected before the fork.
ForkKeepsDb(w) ==
  IF w.rw # NoChild THEN w
  ELSE [w EXCEPT !.srv.aof_rewrite_scheduled = FALSE,
                 !.rw = [st |-> "run", base |-> w.srv.data, diff |-> <<>>, pipe |-> <<>>, blocks |-> <<>>, stop |-> FALSE]]

\* The first command of the difference is preceded by a SELECT.
rewriteAppendOnlyFileBackground(w) ==
  IF w.rw # NoChild THEN w
  ELSE [w EXCEPT !.srv.aof_rewrite_scheduled = FALSE, !.srv.aof_selected_db = -1,
                 !.rw = [st |-> "run", base |-> w.srv.data, diff |-> <<>>, pipe |-> <<>>, blocks |-> <<>>, stop |-> FALSE]]

\* The child is killed; the wait is for any child, so it may take the status of the other.
stopAppendOnly(w0, n, reaped) ==
  LET w1 == flushAppendOnlyFile(w0, TRUE, n)
      w == [aof_fsync(w1) EXCEPT !.srv.aof_fd = "none", !.srv.aof_selected_db = -1, !.srv.aof_state = "OFF", !.rw = NoChild]
  IN IF w1.srv.up = FALSE THEN w1
     ELSE IF w0.rw # NoChild /\ reaped = "rdb" THEN [w EXCEPT !.rdbc.st = "reaped"] ELSE w
Reaps(w) == {"aof"} \cup (IF w.rw # NoChild /\ w.rdbc # NoChild THEN (IF Zombie(w.rdbc) THEN {"rdb"} ELSE {}) ELSE {})

\* When a rewrite is under way already the file is closed again, and aof_fd keeps its number.
startAppendOnly(w) ==
  IF w.rw # NoChild THEN [w EXCEPT !.srv.aof_fd = "stale", !.srv.aof_last_fsync = w.srv.unixtime]
  ELSE [rewriteAppendOnlyFileBackground(w) EXCEPT !.srv.aof_fd = "open", !.srv.aof_state = "WAIT_REWRITE",
                                                  !.srv.aof_last_fsync = w.srv.unixtime]

\* The state WAIT_REWRITE lasts until a rewrite succeeds.
Cleanup(w) ==
  [w EXCEPT !.rw = NoChild, !.srv.aof_rewrite_scheduled = @ \/ w.srv.aof_state = "WAIT_REWRITE"]

\* The new file is the child's and the rest of the difference; it replaces the old one.
backgroundRewriteDoneHandler(w, good) ==
  LET child == w.rw
      content == rewriteAppendOnlyFile(child.base) \o child.diff
      renamed == [w EXCEPT !.disk.units = content \o child.blocks, !.disk.synced = Len(content), !.disk.gen = @ + 1]
      used == [renamed EXCEPT !.srv.aof_fd = "open", !.srv.aof_selected_db = -1, !.srv.aof_buf = <<>>]
      synced == CASE w.srv.appendfsync = "always" -> aof_fsync(used)
                  [] w.srv.appendfsync = "everysec" -> aof_background_fsync(used)
                  [] OTHER -> used
      new == IF w.srv.aof_fd = "none" THEN renamed ELSE synced
  IN IF child.st # "ok" \/ ~good THEN Cleanup(w)
     ELSE Cleanup([new EXCEPT !.srv.aof_state = IF @ = "WAIT_REWRITE" THEN "ON" ELSE @])

---------------------------------------------------------------------------
(* Snapshots *)

rdbSave(w, good) ==
  IF good THEN [w EXCEPT !.disk.rdb = w.srv.data, !.srv.dirty = 0, !.srv.lastbgsave_status = "OK"] ELSE w

rdbSaveBackground(w) ==
  IF w.rdbc # NoChild THEN w
  ELSE [w EXCEPT !.srv.dirty_before_bgsave = w.srv.dirty, !.rdbc = [st |-> "run", data |-> w.srv.data]]

\* Variant: the changes made during the save are forgotten.
SaveDoneClean(w) ==
  LET w1 == [w EXCEPT !.rdbc = NoChild]
  IN IF w.rdbc.st = "ok" THEN [w1 EXCEPT !.srv.dirty = 0, !.srv.lastbgsave_status = "OK"]
     ELSE IF w.rdbc.st = "err" THEN [w1 EXCEPT !.srv.lastbgsave_status = "ERR"] ELSE w1

\* A child that was killed on purpose is not an error.
backgroundSaveDoneHandlerDisk(w) ==
  LET w1 == [w EXCEPT !.rdbc = NoChild]
  IN IF w.rdbc.st = "ok" THEN [w1 EXCEPT !.srv.dirty = @ - w.srv.dirty_before_bgsave, !.srv.lastbgsave_status = "OK"]
     ELSE IF w.rdbc.st = "err" THEN [w1 EXCEPT !.srv.lastbgsave_status = "ERR"] ELSE w1

KillSave(w) ==
  IF w.rdbc = NoChild THEN w ELSE IF w.rdbc.st = "run" THEN [w EXCEPT !.rdbc.st = "sig"] ELSE w

---------------------------------------------------------------------------
(* Commands *)

\* processCommand refuses to write after errors.
Accepted == srv.up /\ srv.aof_last_write_status = "OK" /\ srv.lastbgsave_status = "OK"

Executed(w) == hist' = [hist EXCEPT !.past = Append(@, w.srv.data), !.pending = TRUE]

Write(db) ==
  LET id == left.writes
      w == feedAppendOnlyFile([World EXCEPT !.srv.data = @ \cup {<<id, db>>}, !.srv.dirty = @ + 1], db, Halves(id))
  IN Accepted /\ Spend("writes") /\ Become(w) /\ Executed(w)

\* A transaction of two writes.
execCommand(db1, db2) ==
  LET id == left.writes
      d == [World EXCEPT !.srv.data = @ \cup {<<id, db1>>, <<id - 1, db2>>}, !.srv.dirty = @ + 2]
      w == feedAppendOnlyFile(feedAppendOnlyFile(feedAppendOnlyFile(feedAppendOnlyFile(d,
             db1, <<[k |-> "multi"]>>), db1, Halves(id)), db2, Halves(id - 1)), db2, <<[k |-> "exec"]>>)
  IN /\ Accepted /\ left.txs > 0 /\ left.writes > 1
     /\ left' = [left EXCEPT !.writes = @ - 2, !.txs = @ - 1] /\ Become(w) /\ Executed(w)

\* With save points the empty data is saved, which does not reset dirty, so that the
\* command is propagated.
flushallCommand(good) ==
  LET d == KillSave([World EXCEPT !.srv.data = {}, !.srv.dirty = @ + Cardinality(srv.data)])
      saved == IF srv.saveparams THEN rdbSave(d, good) ELSE d
      w == feedAppendOnlyFile([saved EXCEPT !.srv.dirty = d.srv.dirty + 1], 0, <<[k |-> "flush"]>>)
  IN /\ Accepted /\ left.flushes > 0 /\ (~good => left.fails > 0)
     /\ left' = [left EXCEPT !.flushes = @ - 1, !.fails = IF good THEN @ ELSE @ - 1]
     /\ Become(w) /\ Executed(w)

saveCommand(good) ==
  /\ srv.up /\ rdbc = NoChild /\ left.saves > 0 /\ (~good => left.fails > 0)
  /\ left' = [left EXCEPT !.saves = @ - 1, !.fails = IF good THEN @ ELSE @ - 1]
  /\ Become(rdbSave(World, good)) /\ UNCHANGED hist
bgsaveCommand ==
  /\ srv.up /\ rdbc = NoChild /\ rw = NoChild /\ Spend("saves") /\ Become(rdbSaveBackground(World)) /\ UNCHANGED hist
bgrewriteaofCommand ==
  /\ srv.up /\ rw = NoChild /\ Spend("rewrites")
  /\ Become(IF rdbc # NoChild THEN [World EXCEPT !.srv.aof_rewrite_scheduled = TRUE] ELSE rewriteAppendOnlyFileBackground(World))
  /\ UNCHANGED hist

\* CONFIG SET appendonly.
configSetAppendonly ==
  /\ srv.up /\ Spend("configs") /\ UNCHANGED hist
  /\ \/ srv.aof_state # "OFF" /\ \E n \in Takes(World), reaped \in Reaps(World) : Become(stopAppendOnly(World, n, reaped))
     \/ srv.aof_state = "OFF" /\ Become(startAppendOnly(World))

\* A slave gets the data of its master: its snapshot is replaced, its file rewritten.
readSyncBulkPayload ==
  LET w == [World EXCEPT !.srv.data = {<<0, 0>>}, !.disk.rdb = {<<0, 0>>}, !.srv.resynced = @ \/ rdbc # NoChild]
  IN /\ srv.up /\ Spend("resyncs") /\ Executed(w)
     /\ IF srv.aof_state = "OFF" THEN Become(w)
        ELSE \E n \in Takes(World), reaped \in Reaps(World) :
               LET stopped == stopAppendOnly(w, n, reaped) IN Become(IF stopped.srv.up THEN startAppendOnly(stopped) ELSE stopped)

---------------------------------------------------------------------------
(* The loop and the processes *)

\* The commands read in this turn of the loop are answered after the flush.
beforeSleep ==
  /\ srv.up /\ hist.pending
  /\ \E n \in Takes(World) :
       LET w == flushAppendOnlyFile(World, FALSE, n)
       IN /\ Become(w) /\ SpendIf(n < Len(srv.aof_buf), "fails")
          /\ hist' = [hist EXCEPT !.pending = FALSE, !.acked = IF w.srv.up THEN Len(hist.past) ELSE @]

\* serverCron: a scheduled rewrite, one child that ended, else a save point or a rewrite
\* because of the growth of the file; then the flushes that wait.
CronChildren(w, why) ==
  LET begun == IF w.rdbc = NoChild /\ w.rw = NoChild /\ w.srv.aof_rewrite_scheduled THEN rewriteAppendOnlyFileBackground(w) ELSE w
      IsZombie(c) == IF c = NoChild THEN FALSE ELSE Zombie(c)
  IN IF begun.rdbc # NoChild \/ begun.rw # NoChild
     THEN CASE why = "rdb" /\ IsZombie(begun.rdbc) -> backgroundSaveDoneHandlerDisk(begun)
            [] why \in {"aof", "aoferr"} /\ IsZombie(begun.rw) -> backgroundRewriteDoneHandler(begun, why = "aof")
            [] OTHER -> begun
     ELSE CASE why = "save" /\ w.srv.dirty > 0 /\ w.srv.saveparams -> rdbSaveBackground(begun)
            [] why = "growth" -> rewriteAppendOnlyFileBackground(begun)
            [] OTHER -> begun
serverCron(why) ==
  /\ srv.up
  /\ \E n \in Takes(CronChildren(World, why)) :
       LET w1 == CronChildren(World, why)
           w2 == IF w1.srv.aof_flush_postponed_start # 0 THEN flushAppendOnlyFile(w1, FALSE, n) ELSE w1
           w == IF w2.srv.aof_last_write_status = "ERR" THEN flushAppendOnlyFile(w2, FALSE, n) ELSE w2
       IN /\ w # World /\ (why # "none" => w1 # CronChildren(World, "none"))
          /\ Become(w)
  /\ CASE why = "save" -> Spend("saves") [] why = "growth" -> Spend("rewrites") [] why = "aoferr" -> Spend("fails")
       [] OTHER -> UNCHANGED left
  /\ UNCHANGED hist

Tick == srv.up /\ ~hist.pending /\ Spend("ticks") /\ Become([World EXCEPT !.srv.unixtime = @ + 1]) /\ UNCHANGED hist

\* A file that was replaced in between does not matter any more.
bioProcessBackgroundJobs ==
  /\ srv.up /\ jobs # <<>>
  /\ Become([IF Head(jobs) = disk.gen THEN aof_fsync(World) ELSE World EXCEPT !.jobs = Tail(@)]) /\ UNCHANGED <<hist, left>>

\* The pipe takes some of the difference.
aofChildWriteDiffData ==
  /\ srv.up /\ rw # NoChild
  /\ rw.blocks # <<>> /\ ~rw.stop
  /\ \E n \in {1, Len(rw.blocks)} :
       rw' = [rw EXCEPT !.pipe = @ \o SubSeq(rw.blocks, 1, n), !.blocks = SubSeq(@, n + 1, Len(@))]
  /\ UNCHANGED <<srv, rdbc, disk, jobs, hist, left>>
aofReadDiffFromParent ==
  /\ srv.up /\ rw # NoChild
  /\ rw.st = "run" /\ rw.pipe # <<>>
  /\ rw' = [rw EXCEPT !.diff = @ \o rw.pipe, !.pipe = <<>>] /\ UNCHANGED <<srv, rdbc, disk, jobs, hist, left>>
AskToStop ==
  /\ srv.up /\ rw # NoChild
  /\ rw.st = "run" /\ rw' = [rw EXCEPT !.st = "asked"] /\ UNCHANGED <<srv, rdbc, disk, jobs, hist, left>>

aofChildPipeReadable ==
  /\ srv.up /\ rw # NoChild
  /\ rw.st = "asked" /\ rw' = [rw EXCEPT !.st = "acked", !.stop = TRUE] /\ UNCHANGED <<srv, rdbc, disk, jobs, hist, left>>

\* The last of the difference is read before the child ends.
RewriteEnds(good) ==
  /\ srv.up /\ rw # NoChild
  /\ IF good THEN rw.st = "acked" ELSE rw.st \in {"run", "asked", "acked"}
  /\ SpendIf(~good, "fails")
  /\ rw' = IF good THEN [rw EXCEPT !.st = "ok", !.diff = @ \o rw.pipe, !.pipe = <<>>] ELSE [rw EXCEPT !.st = "err"]
  /\ UNCHANGED <<srv, rdbc, disk, jobs, hist>>
SaveEnds(good) ==
  /\ srv.up /\ rdbc # NoChild
  /\ rdbc.st = "run" /\ SpendIf(~good, "fails")
  /\ rdbc' = [rdbc EXCEPT !.st = IF good THEN "ok" ELSE "err"]
  /\ disk' = IF good THEN [disk EXCEPT !.rdb = rdbc.data] ELSE disk
  /\ UNCHANGED <<srv, rw, jobs, hist>>

---------------------------------------------------------------------------
(* Stops and starts *)

NewServer(conf) ==
  [up |-> TRUE, aof_state |-> IF conf.appendonly THEN "ON" ELSE "OFF", aof_fd |-> IF conf.appendonly THEN "open" ELSE "none",
   aof_buf |-> <<>>, aof_selected_db |-> -1, aof_last_write_status |-> "OK", aof_last_fsync |-> 1, aof_flush_postponed_start |-> 0,
   aof_rewrite_scheduled |-> FALSE, appendfsync |-> conf.appendfsync, appendonly |-> conf.appendonly, saveparams |-> conf.saveparams,
   unixtime |-> 1, data |-> {}, dirty |-> 0, dirty_before_bgsave |-> 0, lastbgsave_status |-> "OK", resynced |-> FALSE, open |-> FALSE]

Init ==
  \E scene \in Scenes :
    /\ left = scene.left /\ srv = NewServer(scene)
    /\ rw = NoChild /\ rdbc = NoChild /\ jobs = <<>>
    /\ disk = [units |-> <<>>, synced |-> 0, gen |-> 0, rdb |-> {}]
    /\ hist = [past |-> <<{}>>, acked |-> 0, pending |-> FALSE]

\* The server starts again from what the disk kept; its children are gone.
Restart(kept) ==
  LET conf == [appendonly |-> srv.appendonly, appendfsync |-> srv.appendfsync, saveparams |-> srv.saveparams]
      loaded == loadAppendOnlyFile(SubSeq(disk.units, 1, kept))
      data == IF srv.appendonly THEN loaded.data ELSE disk.rdb
      units == SubSeq(disk.units, 1, IF srv.appendonly THEN loaded.len ELSE kept)
  IN /\ Become([srv |-> [NewServer(conf) EXCEPT !.data = data, !.open = srv.appendonly /\ loaded.open,
                                                !.dirty = IF srv.appendonly THEN loaded.dirty ELSE 0],
                rw |-> NoChild, rdbc |-> NoChild, jobs |-> <<>>, disk |-> [disk EXCEPT !.units = units, !.synced = Len(units)]])
     /\ hist' = [past |-> <<data>>, acked |-> 1, pending |-> FALSE]

\* The server was killed, it gave up after a write error, or the power failed.
Crash ==
  \/ srv.up /\ Spend("crashes") /\ \E kept \in disk.synced..Len(disk.units) : Restart(kept)
  \/ ~srv.up /\ UNCHANGED left /\ Restart(Len(disk.units))

\* Not while the file is still being made.
prepareForShutdown ==
  LET killed == KillSave(World)
      synced == IF srv.aof_state = "OFF" THEN killed ELSE aof_fsync(killed)
      w == IF srv.saveparams THEN rdbSave(synced, TRUE) ELSE synced
  IN /\ srv.up /\ Spend("shutdowns") /\ ~(srv.aof_state = "WAIT_REWRITE" /\ rw # NoChild)
     /\ Become([w EXCEPT !.srv.up = FALSE, !.rw = NoChild, !.rdbc = NoChild]) /\ UNCHANGED hist

Next == \/ \E db \in Dbs : Write(db)
        \/ \E db1, db2 \in Dbs : execCommand(db1, db2)
        \/ \E good \in BOOLEAN : flushallCommand(good) \/ saveCommand(good) \/ RewriteEnds(good) \/ SaveEnds(good)
        \/ bgsaveCommand \/ bgrewriteaofCommand \/ configSetAppendonly \/ readSyncBulkPayload
        \/ beforeSleep \/ Tick \/ bioProcessBackgroundJobs
        \/ \E why \in {"none", "rdb", "aof", "aoferr", "save", "growth"} : serverCron(why)
        \/ aofChildWriteDiffData \/ aofReadDiffFromParent \/ AskToStop \/ aofChildPipeReadable
        \/ Crash \/ prepareForShutdown

Spec == Init /\ [][Next]_vars

---------------------------------------------------------------------------
(* Properties *)

\* What is synced is in the file, and the file is open and followed by a rewrite as its
\* state says.
TypeOK ==
  /\ srv.aof_state \in {"OFF", "WAIT_REWRITE", "ON"} /\ srv.dirty >= 0
  /\ disk.synced \in 0..Len(disk.units)
  /\ srv.aof_state # "OFF" => srv.aof_fd = "open"
  /\ srv.aof_state = "WAIT_REWRITE" => rw # NoChild \/ srv.aof_rewrite_scheduled

\* While the server runs the file and the buffer are the data; so are the file of the
\* child, what it was sent and what it will be sent, so that the file can be replaced at any
\* moment; while the file is being turned on a rewrite runs or is scheduled.  A server that
\* gives up on a write error in the middle of a command leaves its file behind its data.
FileFollows ==
  /\ TypeOK
  /\ srv.up /\ srv.aof_state = "ON" /\ ~srv.open => loadAppendOnlyFile(disk.units \o srv.aof_buf).data = srv.data
  /\ srv.up /\ srv.aof_state # "OFF" /\ rw # NoChild =>
       rw.st \in {"err", "sig"} \/ loadAppendOnlyFile(rewriteAppendOnlyFile(rw.base) \o rw.diff \o rw.pipe \o rw.blocks).data = srv.data

\* Whatever part of the file a loss of power leaves, it can be loaded and gives the data
\* after some command, of a transaction all or nothing; with "always", of every
\* command that was answered.
Durable ==
  srv.aof_state = "ON" /\ ~srv.open =>
    \A kept \in disk.synced..Len(disk.units) :
      LET loaded == loadAppendOnlyFile(SubSeq(disk.units, 1, kept))
      IN /\ ~loaded.bad
         /\ \E i \in 1..Len(hist.past) : hist.past[i] = loaded.data /\ (srv.appendfsync = "always" => i >= hist.acked)

\* A server that starts from its snapshot and has no changes to save has them all in it.
\* A full synchronization during a save is excused: the child then replaces the new snapshot.
DirtyHonest == srv.dirty = 0 /\ ~srv.resynced /\ ~srv.appendonly => disk.rdb = srv.data

\* stopAppendOnly, aof.c:215: "rewrite operation in progress? kill it, wait child exit".
\* It waits for that child and no other, so a child the server still waits for is one
\* whose end it can learn of.  Violated: wait3 takes the end of a BGSAVE child.
ChildrenReaped == rdbc # NoChild => rdbc.st # "reaped"
============================================================================
