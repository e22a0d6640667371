------------------------- MODULE PersistenceProofs -------------------------
(***************************************************************************)
(* Proofs about Persistence, in three parts: the snapshots, what loading   *)
(* makes of an append only file and of one that was rewritten, and the     *)
(* append only file itself.                                                *)
(***************************************************************************)
EXTENDS Persistence, FiniteSetTheorems, SequenceTheorems, WellFoundedInduction, TLAPS

---------------------------------------------------------------------------
(***************************************************************************)
(* The snapshots: a server that starts from its snapshot and counts no     *)
(* changes has all its data in the snapshot, whatever saves, FLUSHALL,     *)
(* resynchronizations, crashes and changes of the configuration come       *)
(* between.                                                                *)
(*                                                                         *)
(* The count is right only together with what it will be when the child    *)
(* that saves has ended, so the invariant SaveOK also says what the child  *)
(* has: the data of the fork, and as many changes since as dirty is ahead  *)
(* of dirty_before_bgsave.                                                 *)
(***************************************************************************)

---------------------------------------------------------------------------
(* The invariant *)

ServerFields ==
    {"up", "aof_state", "aof_fd", "aof_buf", "aof_selected_db", "aof_last_write_status", "aof_last_fsync",
     "aof_flush_postponed_start", "aof_rewrite_scheduled", "appendfsync", "appendonly", "saveparams", "unixtime",
     "data", "dirty", "dirty_before_bgsave", "lastbgsave_status", "resynced", "open"}

IsWorld(w) ==
    /\ DOMAIN w = {"srv", "rw", "rdbc", "disk", "jobs"}
    /\ DOMAIN w.srv = ServerFields
    /\ DOMAIN w.disk = {"units", "synced", "gen", "rdb"}
    /\ w.rdbc = NoChild \/ w.rdbc = [st |-> w.rdbc.st, data |-> w.rdbc.data]

\* Two worlds with the same data, snapshot, count of changes and saving child.
SameSave(v, w) ==
    /\ v.srv.data = w.srv.data /\ v.srv.dirty = w.srv.dirty
    /\ v.srv.dirty_before_bgsave = w.srv.dirty_before_bgsave
    /\ v.srv.resynced = w.srv.resynced /\ v.srv.appendonly = w.srv.appendonly
    /\ v.srv.saveparams = w.srv.saveparams
    /\ v.rdbc = w.rdbc /\ v.disk.rdb = w.disk.rdb

\* The changes that a child does not have are those made since it was forked.
ChildOK(w) ==
    w.rdbc # NoChild =>
      /\ IsFiniteSet(w.rdbc.data)
      /\ w.rdbc.st \in {"run", "ok"} => w.srv.dirty_before_bgsave <= w.srv.dirty
      /\ ~w.srv.resynced /\ w.srv.dirty = w.srv.dirty_before_bgsave =>
           /\ w.rdbc.st = "run" => w.rdbc.data = w.srv.data
           /\ w.rdbc.st = "ok" => w.disk.rdb = w.srv.data

SaveOK(w) ==
    /\ IsFiniteSet(w.srv.data) /\ IsFiniteSet(w.disk.rdb)
    /\ w.srv.dirty \in Nat /\ w.srv.dirty_before_bgsave \in Nat
    /\ ChildOK(w)
    /\ ~w.srv.resynced /\ w.srv.dirty = 0 => w.disk.rdb = w.srv.data

WorldOK(w) == IsWorld(w) /\ (~w.srv.appendonly => SaveOK(w))

IInv == WorldOK(World)

LEMMA WorldFields ==
    /\ World.srv = srv /\ World.rw = rw /\ World.rdbc = rdbc /\ World.disk = disk /\ World.jobs = jobs
    /\ DOMAIN World = {"srv", "rw", "rdbc", "disk", "jobs"}
  BY DEF World

\* A step that becomes a world that is right keeps the invariant.
LEMMA BecomeIInv ==
    ASSUME NEW w, WorldOK(w), Become(w)
    PROVE  IInv'
  <1>1. /\ World'.srv = w.srv /\ World'.rw = w.rw /\ World'.rdbc = w.rdbc /\ World'.disk = w.disk
        /\ DOMAIN World' = {"srv", "rw", "rdbc", "disk", "jobs"}
    BY DEF Become, World
  <1> QED BY <1>1 DEF IInv, WorldOK, IsWorld, SaveOK, ChildOK

LEMMA SameIsRight ==
    ASSUME NEW v, NEW w, WorldOK(w), IsWorld(v), SameSave(v, w)
    PROVE  WorldOK(v)
  BY DEF WorldOK, SaveOK, ChildOK, SameSave

LEMMA SameTrans ==
    ASSUME NEW u, NEW v, NEW w, SameSave(u, v), SameSave(v, w)
    PROVE  SameSave(u, w)
  BY DEF SameSave

---------------------------------------------------------------------------
(* The append only file leaves the snapshot alone. *)

LEMMA FeedSame ==
    ASSUME NEW w, IsWorld(w), NEW db, NEW cmd
    PROVE  LET v == feedAppendOnlyFile(w, db, cmd) IN IsWorld(v) /\ SameSave(v, w)
  <1>1. ASSUME NEW v, IsWorld(v), NEW buf
        PROVE  IsWorld(aofRewriteBufferAppend(v, buf)) /\ SameSave(aofRewriteBufferAppend(v, buf), v)
    BY <1>1 DEF IsWorld, SameSave, aofRewriteBufferAppend
  <1>2. ASSUME NEW buf PROVE IsWorld(AppendToBuf(w, db, buf)) /\ SameSave(AppendToBuf(w, db, buf), w)
    BY DEF IsWorld, SameSave, ServerFields, AppendToBuf
  <1> DEFINE buf == (IF w.srv.aof_selected_db # db THEN <<Sel(db)>> ELSE <<>>) \o cmd
             fed == AppendToBuf(w, db, buf)
  <1>3. feedAppendOnlyFile(w, db, cmd) = IF w.srv.aof_state = "OFF" THEN w ELSE aofRewriteBufferAppend(fed, buf)
    BY DEF feedAppendOnlyFile
  <1> HIDE DEF buf
  <1>4. IsWorld(fed) /\ SameSave(fed, w) /\ SameSave(w, w)
    BY <1>2 DEF SameSave
  <1> HIDE DEF fed
  <1> QED BY <1>1, <1>3, <1>4, SameTrans

LEMMA FsyncSame ==
    ASSUME NEW w, IsWorld(w)
    PROVE  /\ IsWorld(aof_fsync(w)) /\ SameSave(aof_fsync(w), w)
           /\ IsWorld(aof_background_fsync(w)) /\ SameSave(aof_background_fsync(w), w)
  BY DEF IsWorld, SameSave, aof_fsync, aof_background_fsync, ServerFields

LEMMA AfterWriteSame ==
    ASSUME NEW w, IsWorld(w), NEW syncing
    PROVE  IsWorld(AfterWrite(w, syncing)) /\ SameSave(AfterWrite(w, syncing), w)
  BY DEF IsWorld, SameSave, AfterWrite, aof_fsync, aof_background_fsync, ServerFields

LEMMA WriteBufSame ==
    ASSUME NEW w, IsWorld(w), NEW k, NEW syncing
    PROVE  IsWorld(WriteBuf(w, k, syncing)) /\ SameSave(WriteBuf(w, k, syncing), w)
  <1> DEFINE buf == w.srv.aof_buf
             wrote == [w EXCEPT !.disk.units = @ \o SubSeq(buf, 1, k), !.srv.aof_buf = SubSeq(buf, k + 1, Len(buf)),
                                !.srv.aof_flush_postponed_start = 0]
             good == [wrote EXCEPT !.srv.aof_last_write_status = "OK"]
             down == [wrote EXCEPT !.srv.up = FALSE]
             bad == [wrote EXCEPT !.srv.aof_last_write_status = "ERR"]
  <1>1. IsWorld(wrote) /\ SameSave(wrote, w)
    BY DEF IsWorld, SameSave, ServerFields
  <1>2. WriteBuf(w, k, syncing) = IF k = Len(buf) THEN AfterWrite(good, syncing)
                                  ELSE IF w.srv.appendfsync = "always" THEN down ELSE bad
    BY DEF WriteBuf
  <1> HIDE DEF wrote
  <1>3. /\ IsWorld(good) /\ SameSave(good, wrote) /\ IsWorld(down) /\ SameSave(down, wrote)
        /\ IsWorld(bad) /\ SameSave(bad, wrote)
    BY <1>1 DEF IsWorld, SameSave, ServerFields
  <1> HIDE DEF good, bad, down
  <1>4. IsWorld(AfterWrite(good, syncing)) /\ SameSave(AfterWrite(good, syncing), good)
    BY <1>3, AfterWriteSame
  <1> QED BY <1>1, <1>2, <1>3, <1>4, SameTrans

LEMMA FlushSame ==
    ASSUME NEW w, IsWorld(w), NEW force, NEW n
    PROVE  IsWorld(flushAppendOnlyFile(w, force, n)) /\ SameSave(flushAppendOnlyFile(w, force, n), w)
  <1> DEFINE wait == [w EXCEPT !.srv.aof_flush_postponed_start = IF @ = 0 THEN w.srv.unixtime ELSE @]
  <1>1. IsWorld(wait) /\ SameSave(wait, w) /\ SameSave(w, w)
    BY DEF IsWorld, SameSave, ServerFields
  <1> QED BY <1>1, WriteBufSame DEF flushAppendOnlyFile

LEMMA RewriteSame ==
    ASSUME NEW w, IsWorld(w)
    PROVE  IsWorld(rewriteAppendOnlyFileBackground(w)) /\ SameSave(rewriteAppendOnlyFileBackground(w), w)
  BY DEF IsWorld, SameSave, rewriteAppendOnlyFileBackground, ServerFields

LEMMA StartSame ==
    ASSUME NEW w, IsWorld(w)
    PROVE  IsWorld(startAppendOnly(w)) /\ SameSave(startAppendOnly(w), w)
  BY DEF IsWorld, SameSave, startAppendOnly, rewriteAppendOnlyFileBackground, ServerFields

LEMMA RewriteDoneSame ==
    ASSUME NEW w, IsWorld(w), NEW good
    PROVE  IsWorld(backgroundRewriteDoneHandler(w, good)) /\ SameSave(backgroundRewriteDoneHandler(w, good), w)
  <1> DEFINE content == rewriteAppendOnlyFile(w.rw.base) \o w.rw.diff
             renamed == [w EXCEPT !.disk.units = content \o w.rw.blocks, !.disk.synced = Len(content), !.disk.gen = @ + 1]
             used == [renamed EXCEPT !.srv.aof_fd = "open", !.srv.aof_selected_db = -1, !.srv.aof_buf = <<>>]
             synced == CASE w.srv.appendfsync = "always" -> aof_fsync(used)
                         [] w.srv.appendfsync = "everysec" -> aof_background_fsync(used)
                         [] OTHER -> used
             new == IF w.srv.aof_fd = "none" THEN renamed ELSE synced
             on == [new EXCEPT !.srv.aof_state = IF @ = "WAIT_REWRITE" THEN "ON" ELSE @]
  <1>1. ASSUME NEW v, IsWorld(v) PROVE IsWorld(Cleanup(v)) /\ SameSave(Cleanup(v), v)
    BY <1>1 DEF IsWorld, SameSave, Cleanup, ServerFields
  <1>2. backgroundRewriteDoneHandler(w, good) = IF w.rw.st # "ok" \/ ~good THEN Cleanup(w) ELSE Cleanup(on)
    BY DEF backgroundRewriteDoneHandler
  <1>3. IsWorld(renamed) /\ SameSave(renamed, w)
    BY DEF IsWorld, SameSave, ServerFields
  <1> HIDE DEF renamed, content
  <1>4. IsWorld(used) /\ SameSave(used, renamed)
    BY <1>3 DEF IsWorld, SameSave, ServerFields
  <1> HIDE DEF used
  <1>5. IsWorld(new) /\ SameSave(new, w)
    <2>1. SameSave(used, used) /\ SameSave(used, w)
      BY <1>3, <1>4, SameTrans DEF SameSave
    <2>2. IsWorld(synced) /\ SameSave(synced, used)
      BY <1>4, <2>1, FsyncSame
    <2> HIDE DEF synced
    <2> QED BY <1>3, <2>1, <2>2, SameTrans
  <1> HIDE DEF new
  <1>6. IsWorld(on) /\ SameSave(on, new)
    BY <1>5 DEF IsWorld, SameSave, ServerFields
  <1> HIDE DEF on
  <1> QED BY <1>1, <1>2, <1>5, <1>6, SameTrans

\* stopAppendOnly may take the status of the saving child that ended.
LEMMA StopRight ==
    ASSUME NEW w, WorldOK(w), NEW n, NEW reaped \in Reaps(w)
    PROVE  WorldOK(stopAppendOnly(w, n, reaped))
  <1> DEFINE w1 == flushAppendOnlyFile(w, TRUE, n)
             w2 == aof_fsync(w1)
             v == [w2 EXCEPT !.srv.aof_fd = "none", !.srv.aof_selected_db = -1, !.srv.aof_state = "OFF", !.rw = NoChild]
             u == [v EXCEPT !.rdbc.st = "reaped"]
  <1>0. IsWorld(w)
    BY DEF WorldOK
  <1>1. stopAppendOnly(w, n, reaped) = IF w1.srv.up = FALSE THEN w1
                                       ELSE IF w.rw # NoChild /\ reaped = "rdb" THEN u ELSE v
    BY DEF stopAppendOnly
  <1>2. IsWorld(w1) /\ SameSave(w1, w)
    BY <1>0, FlushSame
  <1>3. WorldOK(w1)
    BY <1>2, SameIsRight
  <1> HIDE DEF w1
  <1>4. WorldOK(w2) /\ IsWorld(w2) /\ SameSave(w2, w1)
    BY <1>2, <1>3, FsyncSame, SameIsRight
  <1> HIDE DEF w2
  <1>5. IsWorld(v) /\ SameSave(v, w2)
    BY <1>4 DEF IsWorld, SameSave, ServerFields
  <1>6. WorldOK(v) /\ v.rdbc = w.rdbc
    BY <1>2, <1>4, <1>5, SameIsRight DEF SameSave
  <1> HIDE DEF v
  <1>7. ASSUME w.rw # NoChild, reaped = "rdb" PROVE WorldOK(u)
    <2>1. v.rdbc # NoChild /\ v.rdbc = [st |-> v.rdbc.st, data |-> v.rdbc.data]
      BY <1>5, <1>6, <1>7 DEF Reaps, IsWorld
    <2>2. /\ u.rdbc = [st |-> "reaped", data |-> v.rdbc.data] /\ DOMAIN u = DOMAIN v
          /\ u.srv = v.srv /\ u.disk = v.disk
      BY <1>5, <2>1 DEF IsWorld
    <2> HIDE DEF u
    <2> QED BY <1>5, <1>6, <2>1, <2>2 DEF WorldOK, IsWorld, SaveOK, ChildOK
  <1> QED BY <1>1, <1>3, <1>6, <1>7

---------------------------------------------------------------------------
(* Snapshots *)

LEMMA SaveRight ==
    ASSUME NEW w, WorldOK(w), NEW good, good => w.rdbc = NoChild
    PROVE  WorldOK(rdbSave(w, good))
  BY DEF WorldOK, IsWorld, SaveOK, ChildOK, rdbSave, ServerFields

LEMMA SaveBackgroundRight ==
    ASSUME NEW w, WorldOK(w)
    PROVE  WorldOK(rdbSaveBackground(w))
  <1> DEFINE v == [w EXCEPT !.srv.dirty_before_bgsave = w.srv.dirty, !.rdbc = [st |-> "run", data |-> w.srv.data]]
  <1>1. IsWorld(v) /\ v.srv.data = w.srv.data /\ v.srv.dirty = w.srv.dirty /\ v.srv.dirty_before_bgsave = w.srv.dirty
        /\ v.srv.resynced = w.srv.resynced /\ v.srv.appendonly = w.srv.appendonly /\ v.disk = w.disk
        /\ v.rdbc = [st |-> "run", data |-> w.srv.data]
    BY DEF WorldOK, IsWorld, ServerFields
  <1> HIDE DEF v
  <1>2. WorldOK(v)
    BY <1>1 DEF WorldOK, SaveOK, ChildOK
  <1> QED BY <1>2 DEF rdbSaveBackground, v

\* The changes made since the fork are left to the next snapshot.
LEMMA SaveDoneRight ==
    ASSUME NEW w, WorldOK(w), w.rdbc # NoChild
    PROVE  WorldOK(backgroundSaveDoneHandlerDisk(w))
  <1> DEFINE w1 == [w EXCEPT !.rdbc = NoChild]
             ok == [w1 EXCEPT !.srv.dirty = @ - w.srv.dirty_before_bgsave, !.srv.lastbgsave_status = "OK"]
             err == [w1 EXCEPT !.srv.lastbgsave_status = "ERR"]
  <1>1. IsWorld(w1) /\ w1.srv = w.srv /\ w1.disk = w.disk /\ w1.rdbc = NoChild
    BY DEF WorldOK, IsWorld
  <1> HIDE DEF w1
  <1>2. WorldOK(w1)
    BY <1>1 DEF WorldOK, SaveOK, ChildOK
  <1>3. IsWorld(err) /\ SameSave(err, w1)
    BY <1>1 DEF IsWorld, SameSave, ServerFields
  <1>4. WorldOK(err)
    BY <1>2, <1>3, SameIsRight
  <1>5. ASSUME w.rdbc.st = "ok" PROVE WorldOK(ok)
    <2>1. /\ IsWorld(ok) /\ ok.srv.data = w.srv.data /\ ok.srv.dirty = w.srv.dirty - w.srv.dirty_before_bgsave
          /\ ok.srv.dirty_before_bgsave = w.srv.dirty_before_bgsave /\ ok.srv.resynced = w.srv.resynced
          /\ ok.srv.appendonly = w.srv.appendonly /\ ok.disk = w.disk /\ ok.rdbc = NoChild
      BY <1>1 DEF IsWorld, ServerFields
    <2> HIDE DEF ok
    <2> QED BY <1>5, <2>1 DEF WorldOK, SaveOK, ChildOK
  <1> QED BY <1>2, <1>4, <1>5 DEF backgroundSaveDoneHandlerDisk, w1

LEMMA KillRight ==
    ASSUME NEW w, WorldOK(w)
    PROVE  LET v == KillSave(w) IN
           /\ WorldOK(v) /\ v.srv = w.srv /\ v.disk = w.disk
           /\ v.rdbc # NoChild => v.rdbc.st # "run"
  <1> DEFINE v == [w EXCEPT !.rdbc.st = "sig"]
  <1>1. ASSUME w.rdbc # NoChild
        PROVE  WorldOK(v) /\ v.srv = w.srv /\ v.disk = w.disk /\ v.rdbc.st = "sig"
    <2>1. IsWorld(w) /\ w.rdbc = [st |-> w.rdbc.st, data |-> w.rdbc.data]
      BY <1>1 DEF WorldOK, IsWorld
    <2>2. /\ v.rdbc = [st |-> "sig", data |-> w.rdbc.data] /\ DOMAIN v = DOMAIN w
          /\ v.srv = w.srv /\ v.disk = w.disk
      BY <2>1 DEF IsWorld
    <2> HIDE DEF v
    <2>3. IsWorld(v) /\ v.rdbc.st = "sig" /\ v.rdbc.data = w.rdbc.data
      BY <2>1, <2>2 DEF IsWorld
    <2> QED BY <1>1, <2>1, <2>2, <2>3 DEF WorldOK, SaveOK, ChildOK
  <1> HIDE DEF v
  <1>2. KillSave(w) = IF w.rdbc = NoChild THEN w ELSE IF w.rdbc.st = "run" THEN v ELSE w
    BY DEF KillSave, v
  <1> QED BY <1>1, <1>2

---------------------------------------------------------------------------
(* The actions *)

\* A command that changes data and counts it.
LEMMA CountedRight ==
    ASSUME NEW w, WorldOK(w), NEW v, IsWorld(v), NEW k \in Nat \ {0}, ~w.srv.appendonly => IsFiniteSet(v.srv.data),
           v.srv.dirty = w.srv.dirty + k, v.srv.dirty_before_bgsave = w.srv.dirty_before_bgsave,
           v.srv.resynced = w.srv.resynced, v.srv.appendonly = w.srv.appendonly,
           v.rdbc = w.rdbc, v.disk = w.disk
    PROVE  WorldOK(v)
  BY DEF WorldOK, SaveOK, ChildOK

LEMMA FedRight ==
    ASSUME NEW w, WorldOK(w), NEW db, NEW cmd
    PROVE  WorldOK(feedAppendOnlyFile(w, db, cmd))
  BY FeedSame, SameIsRight DEF WorldOK

LEMMA WriteIInv == ASSUME IInv, NEW db \in Dbs, Write(db) PROVE IInv'
  <1> DEFINE id == left.writes
             d == [World EXCEPT !.srv.data = @ \cup {<<id, db>>}, !.srv.dirty = @ + 1]
  <1>1. IsWorld(World) /\ WorldOK(World)
    BY DEF IInv, WorldOK
  <1>2. IsWorld(d) /\ d.srv.data = World.srv.data \cup {<<id, db>>} /\ d.srv.dirty = World.srv.dirty + 1
        /\ d.srv.dirty_before_bgsave = World.srv.dirty_before_bgsave /\ d.srv.resynced = World.srv.resynced
        /\ d.srv.appendonly = World.srv.appendonly /\ d.rdbc = World.rdbc /\ d.disk = World.disk
    BY <1>1 DEF IsWorld, ServerFields
  <1>3. ~World.srv.appendonly => IsFiniteSet(d.srv.data)
    <2>1. ~World.srv.appendonly => IsFiniteSet(World.srv.data)
      BY <1>1 DEF WorldOK, SaveOK
    <2>2. d.srv.data = World.srv.data \cup {<<id, db>>}
      BY <1>2
    <2> HIDE DEF d
    <2> QED BY <2>1, <2>2, FS_AddElement
  <1>4. Become(feedAppendOnlyFile(d, db, Halves(id)))
    BY DEF Write
  <1> HIDE DEF d
  <1>5. WorldOK(d)
    <2>1. 1 \in Nat \ {0}
      OBVIOUS
    <2> QED BY <1>1, <1>2, <1>3, <2>1, CountedRight
  <1>6. WorldOK(feedAppendOnlyFile(d, db, Halves(id)))
    BY <1>5, FedRight
  <1> QED BY <1>4, <1>6, BecomeIInv

LEMMA ExecIInv == ASSUME IInv, NEW db1 \in Dbs, NEW db2 \in Dbs, execCommand(db1, db2) PROVE IInv'
  <1> DEFINE id == left.writes
             d == [World EXCEPT !.srv.data = @ \cup {<<id, db1>>, <<id - 1, db2>>}, !.srv.dirty = @ + 2]
             f1 == feedAppendOnlyFile(d, db1, <<[k |-> "multi"]>>)
             f2 == feedAppendOnlyFile(f1, db1, Halves(id))
             f3 == feedAppendOnlyFile(f2, db2, Halves(id - 1))
             f4 == feedAppendOnlyFile(f3, db2, <<[k |-> "exec"]>>)
  <1>1. IsWorld(World) /\ WorldOK(World)
    BY DEF IInv, WorldOK
  <1>2. IsWorld(d) /\ d.srv.data = World.srv.data \cup {<<id, db1>>, <<id - 1, db2>>} /\ d.srv.dirty = World.srv.dirty + 2
        /\ d.srv.dirty_before_bgsave = World.srv.dirty_before_bgsave /\ d.srv.resynced = World.srv.resynced
        /\ d.srv.appendonly = World.srv.appendonly /\ d.rdbc = World.rdbc /\ d.disk = World.disk
    BY <1>1 DEF IsWorld, ServerFields
  <1>3. ~World.srv.appendonly => IsFiniteSet(d.srv.data)
    <2>1. d.srv.data = (World.srv.data \cup {<<id, db1>>}) \cup {<<id - 1, db2>>}
      BY <1>2
    <2>2. ~World.srv.appendonly => IsFiniteSet(World.srv.data)
      BY <1>1 DEF WorldOK, SaveOK
    <2> HIDE DEF d
    <2>3. ~World.srv.appendonly => IsFiniteSet(World.srv.data \cup {<<id, db1>>})
      BY <2>2, FS_AddElement
    <2>4. ~World.srv.appendonly => IsFiniteSet((World.srv.data \cup {<<id, db1>>}) \cup {<<id - 1, db2>>})
      BY <2>3, FS_AddElement
    <2> QED BY <2>1, <2>4
  <1>4. Become(f4)
    BY DEF execCommand
  <1> HIDE DEF d
  <1>5. WorldOK(d)
    <2>1. 2 \in Nat \ {0}
      OBVIOUS
    <2> QED BY <1>1, <1>2, <1>3, <2>1, CountedRight
  <1>6. WorldOK(f1)
    BY <1>5, FedRight
  <1> HIDE DEF f1
  <1>7. WorldOK(f2)
    BY <1>6, FedRight
  <1> HIDE DEF f2
  <1>8. WorldOK(f3)
    BY <1>7, FedRight
  <1> HIDE DEF f3
  <1>9. WorldOK(f4)
    BY <1>8, FedRight
  <1> HIDE DEF f4
  <1> QED BY <1>4, <1>9, BecomeIInv

\* FLUSHALL saves the empty data itself but counts as a change, and the child that
\* has the old data is killed or will be found behind.
LEMMA FlushallIInv == ASSUME IInv, NEW good \in BOOLEAN, flushallCommand(good) PROVE IInv'
  <1> DEFINE a == [World EXCEPT !.srv.data = {}, !.srv.dirty = @ + Cardinality(srv.data)]
             d == KillSave(a)
             s == IF srv.saveparams THEN rdbSave(d, good) ELSE d
             e == [s EXCEPT !.srv.dirty = d.srv.dirty + 1]
  <1>1. IsWorld(World) /\ WorldOK(World)
    BY DEF IInv, WorldOK
  <1>2. /\ IsWorld(a) /\ a.srv.data = {} /\ a.srv.dirty = srv.dirty + Cardinality(srv.data)
        /\ a.srv.dirty_before_bgsave = srv.dirty_before_bgsave /\ a.srv.resynced = srv.resynced
        /\ a.srv.appendonly = srv.appendonly /\ a.rdbc = rdbc /\ a.disk = disk
    BY <1>1, WorldFields DEF IsWorld, ServerFields
  <1>3. ~srv.appendonly => /\ Cardinality(srv.data) \in Nat /\ SaveOK(World)
    BY <1>1, WorldFields, FS_CardinalityType DEF WorldOK, SaveOK
  <1>4. Become(feedAppendOnlyFile(e, 0, <<[k |-> "flush"]>>))
    BY DEF flushallCommand
  <1> HIDE DEF a
  <1>5. /\ IsWorld(d) /\ d.srv = a.srv /\ d.disk = a.disk
        /\ d.rdbc = IF a.rdbc = NoChild THEN NoChild ELSE IF a.rdbc.st = "run" THEN [st |-> "sig", data |-> a.rdbc.data] ELSE a.rdbc
    BY <1>2 DEF KillSave, IsWorld
  <1> HIDE DEF d
  <1>6. /\ IsWorld(e) /\ e.srv.data = {} /\ e.srv.dirty = d.srv.dirty + 1 /\ e.disk.rdb \in {{}, d.disk.rdb}
        /\ e.srv.dirty_before_bgsave = d.srv.dirty_before_bgsave /\ e.srv.resynced = d.srv.resynced
        /\ e.srv.appendonly = d.srv.appendonly /\ e.rdbc = d.rdbc
    <2>1. /\ IsWorld(s) /\ s.srv.data = d.srv.data /\ s.disk.rdb \in {d.srv.data, d.disk.rdb}
          /\ s.srv.dirty_before_bgsave = d.srv.dirty_before_bgsave /\ s.srv.resynced = d.srv.resynced
          /\ s.srv.appendonly = d.srv.appendonly /\ s.rdbc = d.rdbc
      BY <1>5 DEF rdbSave, IsWorld, ServerFields
    <2> HIDE DEF s
    <2> QED BY <1>2, <1>5, <2>1 DEF IsWorld, ServerFields
  <1> HIDE DEF e
  <1>7. ASSUME ~e.srv.appendonly PROVE SaveOK(e)
    <2>1. ~srv.appendonly
      BY <1>2, <1>5, <1>6, <1>7
    <2>2. IsFiniteSet(e.srv.data) /\ IsFiniteSet(e.disk.rdb)
      BY <1>2, <1>3, <1>5, <1>6, <2>1, WorldFields, FS_EmptySet DEF SaveOK
    <2>3. e.srv.dirty \in Nat /\ e.srv.dirty > srv.dirty /\ srv.dirty \in Nat /\ e.srv.dirty_before_bgsave = srv.dirty_before_bgsave
          /\ srv.dirty_before_bgsave \in Nat
      BY <1>2, <1>3, <1>5, <1>6, <2>1, WorldFields DEF SaveOK
    <2>4. ChildOK(e)
      <3> SUFFICES ASSUME e.rdbc # NoChild PROVE ChildOK(e)
        BY DEF ChildOK
      <3>1. rdbc # NoChild /\ e.rdbc.data = rdbc.data /\ (e.rdbc.st = rdbc.st \/ e.rdbc.st = "sig") /\ e.rdbc.st # "run"
        BY <1>2, <1>5, <1>6
      <3>2. ChildOK(World)
        BY <1>3, <2>1 DEF SaveOK
      <3>3. IsFiniteSet(rdbc.data) /\ (rdbc.st = "ok" => srv.dirty_before_bgsave <= srv.dirty)
        BY <3>1, <3>2, WorldFields DEF ChildOK
      <3> QED BY <2>3, <3>1, <3>3 DEF ChildOK
    <2> QED BY <2>2, <2>3, <2>4 DEF SaveOK
  <1>8. WorldOK(feedAppendOnlyFile(e, 0, <<[k |-> "flush"]>>))
    BY <1>6, <1>7, FedRight DEF WorldOK
  <1> QED BY <1>4, <1>8, BecomeIInv

LEMMA SaveIInv == ASSUME IInv, NEW good \in BOOLEAN, saveCommand(good) PROVE IInv'
  <1>1. rdbc = NoChild /\ Become(rdbSave(World, good))
    BY Zenon DEF saveCommand
  <1>2. World.rdbc = NoChild /\ WorldOK(World)
    BY <1>1, WorldFields DEF IInv
  <1> QED BY <1>1, <1>2, SaveRight, BecomeIInv

LEMMA CommandIInv == ASSUME IInv, bgsaveCommand \/ bgrewriteaofCommand PROVE IInv'
  <1>1. IsWorld(World) /\ WorldOK(World)
    BY DEF IInv, WorldOK
  <1>3. CASE bgsaveCommand
    BY <1>1, <1>3, SaveBackgroundRight, BecomeIInv DEF bgsaveCommand
  <1>4. CASE bgrewriteaofCommand
    <2> DEFINE v == [World EXCEPT !.srv.aof_rewrite_scheduled = TRUE]
    <2>1. IsWorld(v) /\ SameSave(v, World)
      BY <1>1 DEF IsWorld, SameSave, ServerFields
    <2>2. Become(v) \/ Become(rewriteAppendOnlyFileBackground(World))
      BY <1>4 DEF bgrewriteaofCommand
    <2> HIDE DEF v
    <2> QED BY <1>1, <2>1, <2>2, SameIsRight, RewriteSame, BecomeIInv
  <1> QED BY <1>3, <1>4

LEMMA ConfigIInv == ASSUME IInv, configSetAppendonly PROVE IInv'
  <1>1. IsWorld(World) /\ WorldOK(World)
    BY DEF IInv, WorldOK
  <1>2. ASSUME NEW n \in Takes(World), NEW reaped \in Reaps(World), Become(stopAppendOnly(World, n, reaped)) PROVE IInv'
    BY <1>1, <1>2, StopRight, BecomeIInv
  <1>3. CASE Become(startAppendOnly(World))
    BY <1>1, <1>3, StartSame, SameIsRight, BecomeIInv
  <1> QED BY <1>2, <1>3 DEF configSetAppendonly

LEMMA ResyncIInv == ASSUME IInv, readSyncBulkPayload PROVE IInv'
  <1> DEFINE w == [World EXCEPT !.srv.data = {<<0, 0>>}, !.disk.rdb = {<<0, 0>>}, !.srv.resynced = @ \/ rdbc # NoChild]
             Stopped(n, reaped) == stopAppendOnly(w, n, reaped)
  <1>1. IsWorld(World) /\ WorldOK(World)
    BY DEF IInv, WorldOK
  <1>2. /\ IsWorld(w) /\ w.srv.data = {<<0, 0>>} /\ w.srv.dirty = srv.dirty
        /\ w.srv.dirty_before_bgsave = srv.dirty_before_bgsave /\ w.srv.resynced = (srv.resynced \/ rdbc # NoChild)
        /\ w.srv.appendonly = srv.appendonly /\ w.rdbc = rdbc /\ w.rw = rw /\ w.disk.rdb = {<<0, 0>>}
    BY <1>1, WorldFields DEF IsWorld, ServerFields
  <1>3. \/ Become(w)
        \/ \E n \in Takes(World), reaped \in Reaps(World) :
             Become(IF Stopped(n, reaped).srv.up THEN startAppendOnly(Stopped(n, reaped)) ELSE Stopped(n, reaped))
    BY DEF readSyncBulkPayload
  <1> HIDE DEF w
  <1>4. IsFiniteSet({<<0, 0>>})
    BY FS_Singleton
  <1>5. WorldOK(w)
    BY <1>1, <1>2, <1>4, WorldFields DEF WorldOK, SaveOK, ChildOK
  <1>6. Reaps(World) = Reaps(w)
    BY <1>2, WorldFields DEF Reaps
  <1>7. ASSUME NEW n \in Takes(World), NEW reaped \in Reaps(World)
        PROVE  WorldOK(IF Stopped(n, reaped).srv.up THEN startAppendOnly(Stopped(n, reaped)) ELSE Stopped(n, reaped))
    <2>1. WorldOK(Stopped(n, reaped)) /\ IsWorld(Stopped(n, reaped))
      BY <1>5, <1>6, StopRight DEF WorldOK
    <2> HIDE DEF Stopped
    <2>2. WorldOK(startAppendOnly(Stopped(n, reaped)))
      BY <2>1, StartSame, SameIsRight
    <2> QED BY <2>1, <2>2
  <1> HIDE DEF Stopped
  <1> QED BY <1>3, <1>5, <1>7, BecomeIInv

LEMMA LoopIInv == ASSUME IInv, beforeSleep \/ Tick \/ bioProcessBackgroundJobs PROVE IInv'
  <1>1. IsWorld(World) /\ WorldOK(World)
    BY DEF IInv, WorldOK
  <1>2. CASE beforeSleep
    <2>1. PICK n \in Takes(World) : Become(flushAppendOnlyFile(World, FALSE, n))
      BY Zenon, <1>2 DEF beforeSleep
    <2> QED BY <1>1, <2>1, FlushSame, SameIsRight, BecomeIInv
  <1>3. CASE Tick
    <2> DEFINE v == [World EXCEPT !.srv.unixtime = @ + 1]
    <2>1. IsWorld(v) /\ SameSave(v, World) /\ Become(v)
      BY <1>1, <1>3 DEF IsWorld, SameSave, ServerFields, Tick
    <2> HIDE DEF v
    <2> QED BY <1>1, <2>1, SameIsRight, BecomeIInv
  <1>4. CASE bioProcessBackgroundJobs
    <2> DEFINE u == IF Head(jobs) = disk.gen THEN aof_fsync(World) ELSE World
               v == [u EXCEPT !.jobs = Tail(@)]
    <2>1. IsWorld(u) /\ SameSave(u, World)
      BY <1>1, FsyncSame DEF SameSave
    <2>2. Become(v)
      BY <1>4 DEF bioProcessBackgroundJobs
    <2> HIDE DEF u
    <2>3. IsWorld(v) /\ SameSave(v, u)
      BY <2>1 DEF IsWorld, SameSave
    <2> HIDE DEF v
    <2> QED BY <1>1, <2>1, <2>2, <2>3, SameTrans, SameIsRight, BecomeIInv
  <1> QED BY <1>2, <1>3, <1>4

LEMMA ChildrenRight ==
    ASSUME NEW w, WorldOK(w), NEW why
    PROVE  WorldOK(CronChildren(w, why))
  <1> DEFINE begun == IF w.rdbc = NoChild /\ w.rw = NoChild /\ w.srv.aof_rewrite_scheduled THEN rewriteAppendOnlyFileBackground(w) ELSE w
             IsZombie(c) == IF c = NoChild THEN FALSE ELSE Zombie(c)
  <1>1. CronChildren(w, why) =
          IF begun.rdbc # NoChild \/ begun.rw # NoChild
          THEN CASE why = "rdb" /\ IsZombie(begun.rdbc) -> backgroundSaveDoneHandlerDisk(begun)
                 [] why \in {"aof", "aoferr"} /\ IsZombie(begun.rw) -> backgroundRewriteDoneHandler(begun, why = "aof")
                 [] OTHER -> begun
          ELSE CASE why = "save" /\ w.srv.dirty > 0 /\ w.srv.saveparams -> rdbSaveBackground(begun)
                 [] why = "growth" -> rewriteAppendOnlyFileBackground(begun)
                 [] OTHER -> begun
    BY DEF CronChildren
  <1>2. WorldOK(begun) /\ IsWorld(begun)
    BY RewriteSame, SameIsRight DEF WorldOK
  <1> HIDE DEF begun
  <1>3. IsZombie(begun.rdbc) => WorldOK(backgroundSaveDoneHandlerDisk(begun))
    BY <1>2, SaveDoneRight
  <1> HIDE DEF IsZombie
  <1>4. WorldOK(backgroundRewriteDoneHandler(begun, why = "aof"))
    BY <1>2, RewriteDoneSame, SameIsRight
  <1>5. WorldOK(rdbSaveBackground(begun)) /\ WorldOK(rewriteAppendOnlyFileBackground(begun))
    BY <1>2, SaveBackgroundRight, RewriteSame, SameIsRight
  <1>6. CASE begun.rdbc # NoChild \/ begun.rw # NoChild
    <2>1. CronChildren(w, why) = CASE why = "rdb" /\ IsZombie(begun.rdbc) -> backgroundSaveDoneHandlerDisk(begun)
                 [] why \in {"aof", "aoferr"} /\ IsZombie(begun.rw) -> backgroundRewriteDoneHandler(begun, why = "aof")
                 [] OTHER -> begun
      BY <1>1, <1>6
    <2> QED BY <1>2, <1>3, <1>4, <2>1
  <1>7. CASE ~(begun.rdbc # NoChild \/ begun.rw # NoChild)
    BY <1>1, <1>2, <1>5, <1>7
  <1> QED BY <1>6, <1>7

LEMMA CronIInv == ASSUME IInv, NEW why, serverCron(why) PROVE IInv'
  <1> DEFINE w1 == CronChildren(World, why)
             W2(n) == IF w1.srv.aof_flush_postponed_start # 0 THEN flushAppendOnlyFile(w1, FALSE, n) ELSE w1
             W(n) == IF W2(n).srv.aof_last_write_status = "ERR" THEN flushAppendOnlyFile(W2(n), FALSE, n) ELSE W2(n)
  <1>1. PICK n \in Takes(w1) : Become(W(n))
    BY DEF serverCron
  <1>2. WorldOK(w1) /\ IsWorld(w1)
    BY ChildrenRight DEF IInv, WorldOK
  <1> HIDE DEF w1
  <1>3. WorldOK(W2(n)) /\ IsWorld(W2(n))
    BY <1>2, FlushSame, SameIsRight DEF WorldOK
  <1> HIDE DEF W2
  <1>4. WorldOK(W(n))
    BY <1>3, FlushSame, SameIsRight
  <1> HIDE DEF W
  <1> QED BY <1>1, <1>4, BecomeIInv

LEMMA RewriteStepsIInv ==
    ASSUME IInv, UNCHANGED <<srv, rdbc, disk>>
    PROVE  IInv'
  BY DEF IInv, WorldOK, IsWorld, SaveOK, ChildOK, World

LEMMA SaveEndsIInv == ASSUME IInv, NEW good \in BOOLEAN, SaveEnds(good) PROVE IInv'
  <1>1. /\ rdbc # NoChild /\ rdbc = [st |-> rdbc.st, data |-> rdbc.data] /\ rdbc.st = "run"
        /\ DOMAIN srv = ServerFields /\ DOMAIN disk = {"units", "synced", "gen", "rdb"}
    BY WorldFields DEF IInv, WorldOK, IsWorld, SaveEnds
  <1>2. /\ rdbc' = [st |-> IF good THEN "ok" ELSE "err", data |-> rdbc.data] /\ srv' = srv
        /\ disk'.rdb = (IF good THEN rdbc.data ELSE disk.rdb) /\ DOMAIN disk' = {"units", "synced", "gen", "rdb"}
    BY <1>1 DEF SaveEnds
  <1>3. /\ World'.srv = srv /\ World'.rdbc = rdbc' /\ World'.disk = disk'
        /\ DOMAIN World' = {"srv", "rw", "rdbc", "disk", "jobs"}
    BY <1>2 DEF World
  <1>4. IsWorld(World')
    BY <1>1, <1>2, <1>3 DEF IsWorld
  <1>5. ASSUME ~srv.appendonly PROVE SaveOK(World')
    <2>1. /\ SaveOK(World) /\ ChildOK(World)
      BY <1>5, WorldFields DEF IInv, WorldOK, SaveOK
    <2> QED BY <1>1, <1>2, <1>3, <2>1, WorldFields DEF SaveOK, ChildOK
  <1> QED BY <1>3, <1>4, <1>5 DEF IInv, WorldOK

\* Only the snapshot counts for a server without an append only file.
LEMMA RestartIInv == ASSUME IInv, NEW kept, Restart(kept) PROVE IInv'
  <1>1. /\ srv'.appendonly = srv.appendonly /\ DOMAIN srv' = ServerFields /\ rdbc' = NoChild
        /\ disk'.rdb = disk.rdb /\ DOMAIN disk' = {"units", "synced", "gen", "rdb"}
        /\ ~srv.appendonly => srv'.data = disk.rdb /\ srv'.dirty = 0 /\ srv'.dirty_before_bgsave = 0
    BY WorldFields DEF Restart, Become, NewServer, ServerFields, IInv, WorldOK, IsWorld
  <1>2. /\ World'.srv = srv' /\ World'.rdbc = NoChild /\ World'.disk = disk'
        /\ DOMAIN World' = {"srv", "rw", "rdbc", "disk", "jobs"}
    BY <1>1 DEF World
  <1>3. ~srv.appendonly => IsFiniteSet(disk.rdb)
    BY WorldFields DEF IInv, WorldOK, SaveOK
  <1>4. IsWorld(World')
    BY <1>1, <1>2 DEF IsWorld
  <1> QED BY <1>1, <1>2, <1>3, <1>4 DEF IInv, WorldOK, SaveOK, ChildOK

LEMMA ShutdownIInv == ASSUME IInv, prepareForShutdown PROVE IInv'
  <1> DEFINE killed == KillSave(World)
             synced == IF srv.aof_state = "OFF" THEN killed ELSE aof_fsync(killed)
             gone == [synced EXCEPT !.rdbc = NoChild]
             w == IF srv.saveparams THEN rdbSave(synced, TRUE) ELSE synced
             v == [w EXCEPT !.srv.up = FALSE, !.rw = NoChild, !.rdbc = NoChild]
  <1>1. WorldOK(killed) /\ IsWorld(killed)
    BY KillRight DEF IInv, WorldOK
  <1>2. Become(v)
    BY DEF prepareForShutdown
  <1> HIDE DEF killed
  <1>3. WorldOK(synced) /\ IsWorld(synced)
    BY <1>1, FsyncSame, SameIsRight
  <1> HIDE DEF synced
  <1>4. /\ IsWorld(v) /\ v.rdbc = NoChild /\ v.srv.data = synced.srv.data /\ v.srv.appendonly = synced.srv.appendonly
        /\ v.srv.dirty = (IF srv.saveparams THEN 0 ELSE synced.srv.dirty)
        /\ v.disk.rdb = (IF srv.saveparams THEN synced.srv.data ELSE synced.disk.rdb)
        /\ v.srv.dirty_before_bgsave = synced.srv.dirty_before_bgsave /\ v.srv.resynced = synced.srv.resynced
    <2>1. /\ IsWorld(w) /\ w.srv.data = synced.srv.data /\ w.srv.appendonly = synced.srv.appendonly
          /\ w.srv.dirty = (IF srv.saveparams THEN 0 ELSE synced.srv.dirty)
          /\ w.disk.rdb = (IF srv.saveparams THEN synced.srv.data ELSE synced.disk.rdb)
          /\ w.srv.dirty_before_bgsave = synced.srv.dirty_before_bgsave /\ w.srv.resynced = synced.srv.resynced
      BY <1>3 DEF rdbSave, IsWorld, ServerFields
    <2> HIDE DEF w
    <2> QED BY <2>1 DEF IsWorld, ServerFields
  <1> HIDE DEF v
  <1>5. WorldOK(v)
    BY <1>3, <1>4 DEF WorldOK, SaveOK, ChildOK
  <1> QED BY <1>2, <1>5, BecomeIInv

LEMMA InitIInv == Init => IInv
  <1> SUFFICES ASSUME Init PROVE IInv
    OBVIOUS
  <1>1. /\ DOMAIN srv = ServerFields /\ srv.data = {} /\ srv.dirty = 0 /\ srv.dirty_before_bgsave = 0
        /\ disk.rdb = {} /\ DOMAIN disk = {"units", "synced", "gen", "rdb"} /\ rdbc = NoChild
    BY DEF Init, NewServer, ServerFields
  <1>2. IsWorld(World)
    BY <1>1, WorldFields DEF IsWorld
  <1> QED BY <1>1, <1>2, WorldFields, FS_EmptySet DEF IInv, WorldOK, SaveOK, ChildOK

LEMMA NextIInv == IInv /\ [Next]_vars => IInv'
  <1> SUFFICES ASSUME IInv, [Next]_vars PROVE IInv'
    OBVIOUS
  <1>1. CASE UNCHANGED vars
    BY <1>1, RewriteStepsIInv DEF vars
  <1>2. ASSUME NEW good \in BOOLEAN, flushallCommand(good) \/ saveCommand(good) \/ RewriteEnds(good) \/ SaveEnds(good)
        PROVE  IInv'
    <2>1. CASE RewriteEnds(good)
      BY <2>1, RewriteStepsIInv DEF RewriteEnds
    <2> QED BY <1>2, <2>1, FlushallIInv, SaveIInv, SaveEndsIInv
  <1>3. CASE aofChildWriteDiffData \/ aofReadDiffFromParent \/ AskToStop \/ aofChildPipeReadable
    BY <1>3, RewriteStepsIInv DEF aofChildWriteDiffData, aofReadDiffFromParent, AskToStop, aofChildPipeReadable
  <1>4. CASE Crash
    BY <1>4, RestartIInv DEF Crash
  <1> QED BY <1>1, <1>2, <1>3, <1>4, WriteIInv, ExecIInv, CommandIInv, ConfigIInv, ResyncIInv, LoopIInv, CronIInv,
             ShutdownIInv DEF Next

---------------------------------------------------------------------------
(* The theorem. *)

\* A server that starts from its snapshot (rdbSave, backgroundSaveDoneHandlerDisk) and
\* counts no changes since has all its data in the file, so that a save point that does
\* not fire loses nothing; a resynchronization during a save is the one exception.
THEOREM DirtyHonestHolds == Spec => []DirtyHonest
  <1>1. IInv => DirtyHonest
    BY WorldFields DEF IInv, WorldOK, SaveOK, DirtyHonest
  <1> QED BY <1>1, InitIInv, NextIInv, PTL DEF Spec

---------------------------------------------------------------------------
(***************************************************************************)
(* What loading makes of an append only file, and of one that was          *)
(* rewritten.                                                              *)
(***************************************************************************)

---------------------------------------------------------------------------
(* The loops over files, queues, items and databases are recursive functions, which  *)
(* exist: of the lengths for which one does not there would be a least.              *)

LEMMA LeastNatural ==
    ASSUME NEW S \in SUBSET Nat, S # {}
    PROVE  \E x \in S : \A y \in S : x <= y
  <1> DEFINE R == OpToRel(<, Nat)
  <1>1. IsWellFoundedOn(R, Nat)
    BY NatLessThanWellFounded
  <1>2. \A x, y \in Nat : <<x, y>> \in R <=> x < y
    BY DEF OpToRel
  <1> HIDE DEF R
  <1>3. PICK x \in S : \A y \in S : ~(<<y, x>> \in R)
    BY <1>1, WFMin
  <1>4. \A y \in S : x \in Nat /\ y \in Nat /\ ~(y < x)
    BY <1>2, <1>3
  <1> QED BY <1>4

\* Induction over the length: what the empty sequence has, and a sequence has with one more
\* element, every sequence has.
LEMMA SequencesInduction ==
    ASSUME NEW S, NEW G, <<>> \in G, \A s \in Seq(S), u \in S : s \in G => Append(s, u) \in G
    PROVE  Seq(S) \subseteq G
  <1> DEFINE Bad == {n \in Nat : \E s \in Seq(S) : Len(s) = n /\ s \notin G}
  <1> SUFFICES ASSUME Bad # {} PROVE FALSE
    OBVIOUS
  <1>1. PICK n \in Bad : \A y \in Bad : n <= y
    BY LeastNatural
  <1>2. PICK s \in Seq(S) : Len(s) = n /\ s \notin G
    BY <1>1
  <1>3. s # <<>>
    BY <1>2
  <1>4. PICK r \in Seq(S), u \in S : s = Append(r, u)
    BY <1>3, SequenceEmptyOrAppend
  <1>5. Len(r) \in Nat /\ Len(r) < n /\ n \in Nat
    BY <1>1, <1>2, <1>4, AppendProperties, LenProperties
  <1>6. r \in G
    BY <1>1, <1>5
  <1> QED BY <1>2, <1>4, <1>6

LEMMA IntervalInduction ==
    ASSUME NEW n \in Nat, NEW G, 0 \in G, \A i \in 1..n : i - 1 \in G => i \in G
    PROVE  0..n \subseteq G
  <1> DEFINE Bad == {i \in 0..n : i \notin G}
  <1> SUFFICES ASSUME Bad # {} PROVE FALSE
    OBVIOUS
  <1>1. PICK i \in Bad : \A y \in Bad : i <= y
    <2>1. Bad \in SUBSET Nat
      OBVIOUS
    <2> QED BY <2>1, LeastNatural
  <1>2. i \in 1..n /\ i \notin G
    BY <1>1
  <1>3. i - 1 \in 0..n /\ i - 1 < i
    BY <1>2
  <1>4. i - 1 \in G
    BY <1>1, <1>2, <1>3
  <1> QED BY <1>2, <1>4

\* The units of a file, as the server and the child write them.
Units ==
    [k : {"sel"}, db : Dbs] \cup [k : {"w1", "w2"}, id : Nat] \cup [k : {"multi", "exec", "flush"}]
    \cup {u \in [k : {"push"}, ids : Seq(Nat), n : Nat] : u.n = Len(u.ids)}
Files == Seq(Units)

LEMMA FilesFacts ==
    /\ <<>> \in Files
    /\ \A s \in Files : s \in Seq(Units) /\ Len(s) \in Nat
    /\ \A s \in Files, u \in Units : Append(s, u) \in Files /\ Append(s, u) = s \o <<u>> /\ Len(Append(s, u)) = Len(s) + 1
    /\ \A s, t \in Files : s \o t \in Files /\ Len(s \o t) = Len(s) + Len(t)
    /\ \A s, t, r \in Files : (s \o t) \o r = s \o (t \o r)
    /\ \A s \in Files : s \o <<>> = s /\ <<>> \o s = s
  BY EmptySeq, LenProperties, AppendProperties, AppendIsConcat, ConcatProperties, ConcatAssociative, ConcatEmptySeq DEF Files

LEMMA FilesInduction ==
    ASSUME NEW G, <<>> \in G, \A s \in Files, u \in Units : s \in G => Append(s, u) \in G
    PROVE  Files \subseteq G
  BY SequencesInduction DEF Files

\* What a loop does: the value after each turn.
LoadLoop(f, s, n) == f = [i \in 0..n |-> IF i = 0 THEN EmptyLoad ELSE LoadUnit(f[i - 1], s[i])]
QueueLoop(f, a, s, n) == f = [i \in 0..n |-> IF i = 0 THEN a ELSE RunCommand(f[i - 1], s[i])]
ItemLoop(f, items, n) ==
    f = [i \in 0..n |-> IF i = 0 THEN [cmds |-> <<>>, count |-> 0, items |-> Len(items)] ELSE RewriteItem(f[i - 1], items[i])]
DbLoop(f, data, n) == f = [i \in 0..n |-> IF i = 0 THEN <<>> ELSE f[i - 1] \o RewriteDb(data, i - 1)]

LEMMA LoadLoopExists ==
    ASSUME NEW s, NEW n \in Nat
    PROVE  \E f : LoadLoop(f, s, n)
  <1> DEFINE Bad == {m \in Nat : ~\E f : LoadLoop(f, s, m)}
  <1> SUFFICES ASSUME Bad # {} PROVE FALSE
    OBVIOUS
  <1>1. PICK m \in Bad : \A y \in Bad : m <= y
    BY LeastNatural
  <1>2. m # 0
    <2>1. LoadLoop([i \in 0..0 |-> EmptyLoad], s, 0)
      BY DEF LoadLoop
    <2> QED BY <2>1
  <1>3. m - 1 \in Nat /\ m \in Nat /\ m - 1 \notin Bad
    BY <1>1, <1>2
  <1>4. PICK f : LoadLoop(f, s, m - 1)
    BY <1>3
  <1> DEFINE g == [i \in 0..m |-> IF i = m THEN LoadUnit(f[m - 1], s[m]) ELSE f[i]]
  <1>5. LoadLoop(g, s, m)
    <2>1. \A i \in 0..(m - 1) : g[i] = f[i]
      BY <1>3
    <2>2. \A i \in 0..(m - 1) : f[i] = IF i = 0 THEN EmptyLoad ELSE LoadUnit(f[i - 1], s[i])
      BY <1>4 DEF LoadLoop
    <2>3. \A i \in 0..m : g[i] = IF i = 0 THEN EmptyLoad ELSE LoadUnit(g[i - 1], s[i])
      <3> SUFFICES ASSUME NEW i \in 0..m PROVE g[i] = IF i = 0 THEN EmptyLoad ELSE LoadUnit(g[i - 1], s[i])
        OBVIOUS
      <3>1. CASE i = m
        <4>1. g[i] = LoadUnit(f[m - 1], s[m]) /\ g[m - 1] = f[m - 1] /\ i # 0
          BY <1>2, <1>3, <2>1, <3>1
        <4> QED BY <3>1, <4>1
      <3>2. CASE i # m
        <4>1. i \in 0..(m - 1) /\ (i # 0 => i - 1 \in 0..(m - 1))
          BY <1>3, <3>2
        <4> QED BY <2>1, <2>2, <4>1
      <3> QED BY <3>1, <3>2
    <2> QED BY <2>3 DEF LoadLoop
  <1> QED BY <1>1, <1>5

LEMMA LoadIsLoop ==
    ASSUME NEW s, NEW n \in Nat, Len(s) = n
    PROVE  \E f : LoadLoop(f, s, n) /\ loadAppendOnlyFile(s) = f[n]
  <1> DEFINE f == CHOOSE f : LoadLoop(f, s, n)
  <1>1. LoadLoop(f, s, n)
    BY LoadLoopExists
  <1>2. loadAppendOnlyFile(s) = f[n]
    BY DEF loadAppendOnlyFile, LoadLoop
  <1> QED BY <1>1, <1>2

LEMMA LoadLonger ==
    ASSUME NEW s, NEW t, NEW n \in Nat, NEW f, NEW g, LoadLoop(f, s, n), LoadLoop(g, t, n + 1), \A i \in 1..n : s[i] = t[i]
    PROVE  g[n + 1] = LoadUnit(f[n], t[n + 1])
  <1>1. \A i \in 0..n : f[i] = IF i = 0 THEN EmptyLoad ELSE LoadUnit(f[i - 1], s[i])
    BY DEF LoadLoop
  <1>2. \A i \in 0..(n + 1) : g[i] = IF i = 0 THEN EmptyLoad ELSE LoadUnit(g[i - 1], t[i])
    BY DEF LoadLoop
  <1> DEFINE Bad == {i \in 0..n : f[i] # g[i]}
  <1>3. Bad = {}
    <2> SUFFICES ASSUME Bad # {} PROVE FALSE
      OBVIOUS
    <2>1. Bad \in SUBSET Nat
      OBVIOUS
    <2>2. PICK i \in Bad : \A y \in Bad : i <= y
      BY <2>1, LeastNatural
    <2>3. i \in 0..n /\ i \in 0..(n + 1)
      BY <2>2
    <2>4. CASE i = 0
      BY <1>1, <1>2, <2>2, <2>3, <2>4
    <2>5. CASE i # 0
      <3>1. i - 1 \in 0..n /\ i - 1 \notin Bad /\ s[i] = t[i]
        BY <2>2, <2>3, <2>5
      <3>2. f[i - 1] = g[i - 1]
        BY <3>1
      <3> QED BY <1>1, <1>2, <2>2, <2>3, <2>5, <3>1, <3>2
    <2> QED BY <2>4, <2>5
  <1>4. n + 1 - 1 = n /\ n \in 0..n /\ n + 1 \in 0..(n + 1) /\ n + 1 # 0
    OBVIOUS
  <1>5. f[n] = g[n]
    BY <1>3, <1>4
  <1>6. g[n + 1] = LoadUnit(g[n + 1 - 1], t[n + 1])
    BY <1>2, <1>4
  <1> QED BY <1>4, <1>5, <1>6

\* Loading a file and one more unit.
LEMMA LoadFacts ==
    /\ loadAppendOnlyFile(<<>>) = EmptyLoad
    /\ \A s \in Files, u \in Units : loadAppendOnlyFile(Append(s, u)) = LoadUnit(loadAppendOnlyFile(s), u)
  <1>1. loadAppendOnlyFile(<<>>) = EmptyLoad
    <2>1. PICK f : LoadLoop(f, <<>>, 0) /\ loadAppendOnlyFile(<<>>) = f[0]
      BY LoadIsLoop
    <2> QED BY <2>1 DEF LoadLoop
  <1>2. ASSUME NEW s \in Files, NEW u \in Units, NEW t, t = Append(s, u), NEW n, n = Len(s)
        PROVE  loadAppendOnlyFile(t) = LoadUnit(loadAppendOnlyFile(s), u)
    <2>1. n \in Nat /\ n + 1 \in Nat /\ Len(t) = n + 1 /\ t[n + 1] = u /\ \A i \in 1..n : s[i] = t[i]
      BY <1>2, FilesFacts, AppendProperties
    <2>2. PICK f : LoadLoop(f, s, n) /\ loadAppendOnlyFile(s) = f[n]
      BY ONLY <1>2, <2>1, LoadIsLoop
    <2>3. PICK g : LoadLoop(g, t, n + 1) /\ loadAppendOnlyFile(t) = g[n + 1]
      BY ONLY <2>1, LoadIsLoop
    <2>4. g[n + 1] = LoadUnit(f[n], t[n + 1])
      BY ONLY <2>1, <2>2, <2>3, LoadLonger
    <2> QED BY <2>1, <2>2, <2>3, <2>4
  <1> QED BY <1>1, <1>2

LEMMA QueueLoopExists ==
    ASSUME NEW a, NEW s, NEW n \in Nat
    PROVE  \E f : QueueLoop(f, a, s, n)
  <1> DEFINE Bad == {m \in Nat : ~\E f : QueueLoop(f, a, s, m)}
  <1> SUFFICES ASSUME Bad # {} PROVE FALSE
    OBVIOUS
  <1>1. PICK m \in Bad : \A y \in Bad : m <= y
    BY LeastNatural
  <1>2. m # 0
    <2>1. QueueLoop([i \in 0..0 |-> a], a, s, 0)
      BY DEF QueueLoop
    <2> QED BY <2>1
  <1>3. m - 1 \in Nat /\ m \in Nat /\ m - 1 \notin Bad
    BY <1>1, <1>2
  <1>4. PICK f : QueueLoop(f, a, s, m - 1)
    BY <1>3
  <1> DEFINE g == [i \in 0..m |-> IF i = m THEN RunCommand(f[m - 1], s[m]) ELSE f[i]]
  <1>5. QueueLoop(g, a, s, m)
    <2>1. \A i \in 0..(m - 1) : g[i] = f[i]
      BY <1>3
    <2>2. \A i \in 0..(m - 1) : f[i] = IF i = 0 THEN a ELSE RunCommand(f[i - 1], s[i])
      BY <1>4 DEF QueueLoop
    <2>3. \A i \in 0..m : g[i] = IF i = 0 THEN a ELSE RunCommand(g[i - 1], s[i])
      <3> SUFFICES ASSUME NEW i \in 0..m PROVE g[i] = IF i = 0 THEN a ELSE RunCommand(g[i - 1], s[i])
        OBVIOUS
      <3>1. CASE i = m
        <4>1. g[i] = RunCommand(f[m - 1], s[m]) /\ g[m - 1] = f[m - 1] /\ i # 0
          BY <1>2, <1>3, <2>1, <3>1
        <4> QED BY <3>1, <4>1
      <3>2. CASE i # m
        <4>1. i \in 0..(m - 1) /\ (i # 0 => i - 1 \in 0..(m - 1))
          BY <1>3, <3>2
        <4> QED BY <2>1, <2>2, <4>1
      <3> QED BY <3>1, <3>2
    <2> QED BY <2>3 DEF QueueLoop
  <1> QED BY <1>1, <1>5

LEMMA QueueIsLoop ==
    ASSUME NEW a, NEW s, NEW n \in Nat, Len(s) = n
    PROVE  \E f : QueueLoop(f, a, s, n) /\ RunQueue(a, s) = f[n]
  <1> DEFINE f == CHOOSE f : QueueLoop(f, a, s, n)
  <1>1. QueueLoop(f, a, s, n)
    BY QueueLoopExists
  <1>2. RunQueue(a, s) = f[n]
    BY DEF RunQueue, QueueLoop
  <1> QED BY <1>1, <1>2

LEMMA QueueLonger ==
    ASSUME NEW a, NEW s, NEW t, NEW n \in Nat, NEW f, NEW g, QueueLoop(f, a, s, n), QueueLoop(g, a, t, n + 1), \A i \in 1..n : s[i] = t[i]
    PROVE  g[n + 1] = RunCommand(f[n], t[n + 1])
  <1>1. \A i \in 0..n : f[i] = IF i = 0 THEN a ELSE RunCommand(f[i - 1], s[i])
    BY DEF QueueLoop
  <1>2. \A i \in 0..(n + 1) : g[i] = IF i = 0 THEN a ELSE RunCommand(g[i - 1], t[i])
    BY DEF QueueLoop
  <1> DEFINE Bad == {i \in 0..n : f[i] # g[i]}
  <1>3. Bad = {}
    <2> SUFFICES ASSUME Bad # {} PROVE FALSE
      OBVIOUS
    <2>1. Bad \in SUBSET Nat
      OBVIOUS
    <2>2. PICK i \in Bad : \A y \in Bad : i <= y
      BY <2>1, LeastNatural
    <2>3. i \in 0..n /\ i \in 0..(n + 1)
      BY <2>2
    <2>4. CASE i = 0
      BY <1>1, <1>2, <2>2, <2>3, <2>4
    <2>5. CASE i # 0
      <3>1. i - 1 \in 0..n /\ i - 1 \notin Bad /\ s[i] = t[i]
        BY <2>2, <2>3, <2>5
      <3>2. f[i - 1] = g[i - 1]
        BY <3>1
      <3> QED BY <1>1, <1>2, <2>2, <2>3, <2>5, <3>1, <3>2
    <2> QED BY <2>4, <2>5
  <1>4. n + 1 - 1 = n /\ n \in 0..n /\ n + 1 \in 0..(n + 1) /\ n + 1 # 0
    OBVIOUS
  <1>5. f[n] = g[n]
    BY <1>3, <1>4
  <1>6. g[n + 1] = RunCommand(g[n + 1 - 1], t[n + 1])
    BY <1>2, <1>4
  <1> QED BY <1>4, <1>5, <1>6

\* Running a queue and one more command.
LEMMA QueueFacts ==
    ASSUME NEW a
    PROVE  /\ RunQueue(a, <<>>) = a
           /\ \A s \in Files, u \in Units : RunQueue(a, Append(s, u)) = RunCommand(RunQueue(a, s), u)
  <1>1. RunQueue(a, <<>>) = a
    <2>1. PICK f : QueueLoop(f, a, <<>>, 0) /\ RunQueue(a, <<>>) = f[0]
      BY QueueIsLoop
    <2> QED BY <2>1 DEF QueueLoop
  <1>2. ASSUME NEW s \in Files, NEW u \in Units, NEW t, t = Append(s, u), NEW n, n = Len(s)
        PROVE  RunQueue(a, t) = RunCommand(RunQueue(a, s), u)
    <2>1. n \in Nat /\ n + 1 \in Nat /\ Len(t) = n + 1 /\ t[n + 1] = u /\ \A i \in 1..n : s[i] = t[i]
      BY <1>2, FilesFacts, AppendProperties
    <2>2. PICK f : QueueLoop(f, a, s, n) /\ RunQueue(a, s) = f[n]
      BY ONLY <1>2, <2>1, QueueIsLoop
    <2>3. PICK g : QueueLoop(g, a, t, n + 1) /\ RunQueue(a, t) = g[n + 1]
      BY ONLY <2>1, QueueIsLoop
    <2>4. g[n + 1] = RunCommand(f[n], t[n + 1])
      BY ONLY <2>1, <2>2, <2>3, QueueLonger
    <2> QED BY <2>1, <2>2, <2>3, <2>4
  <1> QED BY <1>1, <1>2

LEMMA ItemLoopExists ==
    ASSUME NEW items, NEW n \in Nat
    PROVE  \E f : ItemLoop(f, items, n)
  <1> DEFINE Bad == {m \in Nat : ~\E f : ItemLoop(f, items, m)}
  <1> SUFFICES ASSUME Bad # {} PROVE FALSE
    OBVIOUS
  <1>1. PICK m \in Bad : \A y \in Bad : m <= y
    BY LeastNatural
  <1>2. m # 0
    <2>1. ItemLoop([i \in 0..0 |-> [cmds |-> <<>>, count |-> 0, items |-> Len(items)]], items, 0)
      BY DEF ItemLoop
    <2> QED BY <2>1
  <1>3. m - 1 \in Nat /\ m \in Nat /\ m - 1 \notin Bad
    BY <1>1, <1>2
  <1>4. PICK f : ItemLoop(f, items, m - 1)
    BY <1>3
  <1> DEFINE g == [i \in 0..m |-> IF i = m THEN RewriteItem(f[m - 1], items[m]) ELSE f[i]]
  <1>5. ItemLoop(g, items, m)
    <2>1. \A i \in 0..(m - 1) : g[i] = f[i]
      BY <1>3
    <2>2. \A i \in 0..(m - 1) : f[i] = IF i = 0 THEN [cmds |-> <<>>, count |-> 0, items |-> Len(items)] ELSE RewriteItem(f[i - 1], items[i])
      BY <1>4 DEF ItemLoop
    <2>3. \A i \in 0..m : g[i] = IF i = 0 THEN [cmds |-> <<>>, count |-> 0, items |-> Len(items)] ELSE RewriteItem(g[i - 1], items[i])
      <3> SUFFICES ASSUME NEW i \in 0..m PROVE g[i] = IF i = 0 THEN [cmds |-> <<>>, count |-> 0, items |-> Len(items)] ELSE RewriteItem(g[i - 1], items[i])
        OBVIOUS
      <3>1. CASE i = m
        <4>1. g[i] = RewriteItem(f[m - 1], items[m]) /\ g[m - 1] = f[m - 1] /\ i # 0
          BY <1>2, <1>3, <2>1, <3>1
        <4> QED BY <3>1, <4>1
      <3>2. CASE i # m
        <4>1. i \in 0..(m - 1) /\ (i # 0 => i - 1 \in 0..(m - 1))
          BY <1>3, <3>2
        <4> QED BY <2>1, <2>2, <4>1
      <3> QED BY <3>1, <3>2
    <2> QED BY <2>3 DEF ItemLoop
  <1> QED BY <1>1, <1>5

LEMMA DbLoopExists ==
    ASSUME NEW data, NEW n \in Nat
    PROVE  \E f : DbLoop(f, data, n)
  <1> DEFINE Bad == {m \in Nat : ~\E f : DbLoop(f, data, m)}
  <1> SUFFICES ASSUME Bad # {} PROVE FALSE
    OBVIOUS
  <1>1. PICK m \in Bad : \A y \in Bad : m <= y
    BY LeastNatural
  <1>2. m # 0
    <2>1. DbLoop([i \in 0..0 |-> <<>>], data, 0)
      BY DEF DbLoop
    <2> QED BY <2>1
  <1>3. m - 1 \in Nat /\ m \in Nat /\ m - 1 \notin Bad
    BY <1>1, <1>2
  <1>4. PICK f : DbLoop(f, data, m - 1)
    BY <1>3
  <1> DEFINE g == [i \in 0..m |-> IF i = m THEN f[m - 1] \o RewriteDb(data, m - 1) ELSE f[i]]
  <1>5. DbLoop(g, data, m)
    <2>1. \A i \in 0..(m - 1) : g[i] = f[i]
      BY <1>3
    <2>2. \A i \in 0..(m - 1) : f[i] = IF i = 0 THEN <<>> ELSE f[i - 1] \o RewriteDb(data, i - 1)
      BY <1>4 DEF DbLoop
    <2>3. \A i \in 0..m : g[i] = IF i = 0 THEN <<>> ELSE g[i - 1] \o RewriteDb(data, i - 1)
      <3> SUFFICES ASSUME NEW i \in 0..m PROVE g[i] = IF i = 0 THEN <<>> ELSE g[i - 1] \o RewriteDb(data, i - 1)
        OBVIOUS
      <3>1. CASE i = m
        <4>1. g[i] = f[m - 1] \o RewriteDb(data, m - 1) /\ g[m - 1] = f[m - 1] /\ i # 0
          BY <1>2, <1>3, <2>1, <3>1
        <4> QED BY <3>1, <4>1
      <3>2. CASE i # m
        <4>1. i \in 0..(m - 1) /\ (i # 0 => i - 1 \in 0..(m - 1))
          BY <1>3, <3>2
        <4> QED BY <2>1, <2>2, <4>1
      <3> QED BY <3>1, <3>2
    <2> QED BY <2>3 DEF DbLoop
  <1> QED BY <1>1, <1>5

---------------------------------------------------------------------------
(* What loading makes of a unit. *)
Data == {d \in SUBSET (Nat \X Dbs) : IsFiniteSet(d)}
Loaded ==
    [db : Dbs, data : Data, dirty : Nat, open : BOOLEAN, queue : Files, read : Nat, len : Nat, torn : BOOLEAN, bad : BOOLEAN]

LEMMA DataFacts ==
    /\ {} \in Data
    /\ \A d \in Data : Cardinality(d) \in Nat
    /\ \A d \in Data, i \in Nat, db \in Dbs : d \cup {<<i, db>>} \in Data
  <1>1. {} \in Data
    BY FS_EmptySet DEF Data
  <1>2. ASSUME NEW d \in Data PROVE Cardinality(d) \in Nat
    BY FS_CardinalityType DEF Data
  <1>3. ASSUME NEW d \in Data, NEW i \in Nat, NEW db \in Dbs PROVE d \cup {<<i, db>>} \in Data
    <2>1. IsFiniteSet(d) /\ d \subseteq Nat \X Dbs
      BY DEF Data
    <2>2. IsFiniteSet(d \cup {<<i, db>>})
      BY <2>1, FS_AddElement
    <2>3. d \cup {<<i, db>>} \subseteq Nat \X Dbs
      BY <2>1
    <2> QED BY <2>2, <2>3 DEF Data
  <1> QED BY <1>1, <1>2, <1>3

LEMMA PushedData ==
    ASSUME NEW d \in Data, NEW ids \in Seq(Nat), NEW db \in Dbs
    PROVE  d \cup {<<ids[i], db>> : i \in DOMAIN ids} \in Data
  <1>1. IsFiniteSet(DOMAIN ids)
    <2>1. DOMAIN ids = 1..Len(ids) /\ Len(ids) \in Nat
      OBVIOUS
    <2> QED BY <2>1, FS_Interval
  <1>2. IsFiniteSet({<<ids[i], db>> : i \in DOMAIN ids})
    <2> DEFINE f == [i \in DOMAIN ids |-> <<ids[i], db>>]
               T == {<<ids[i], db>> : i \in DOMAIN ids}
    <2>1. f \in Surjection(DOMAIN ids, T)
      BY DEF Surjection
    <2> QED BY <1>1, <2>1, FS_Surjection
  <1>3. IsFiniteSet(d \cup {<<ids[i], db>> : i \in DOMAIN ids})
    BY <1>2, FS_Union DEF Data
  <1>4. {<<ids[i], db>> : i \in DOMAIN ids} \subseteq Nat \X Dbs
    OBVIOUS
  <1> QED BY <1>3, <1>4 DEF Data

LEMMA UnitKinds ==
    ASSUME NEW u \in Units
    PROVE  /\ u.k \in {"sel", "w1", "w2", "multi", "exec", "flush", "push"}
           /\ u.k = "sel" => u.db \in Dbs
           /\ u.k \in {"w1", "w2"} => u.id \in Nat
           /\ u.k = "push" => u.ids \in Seq(Nat) /\ u.n = Len(u.ids) /\ u.n \in Nat
  BY DEF Units

\* Running a command leaves the transaction and the position in the file alone.
LEMMA RunCommandFacts ==
    ASSUME NEW a \in Loaded, NEW u \in Units
    PROVE  LET b == RunCommand(a, u) IN
           /\ b \in Loaded
           /\ b.open = a.open /\ b.queue = a.queue /\ b.read = a.read /\ b.len = a.len /\ b.torn = a.torn /\ b.bad = a.bad
           /\ u.k = "sel" => b.db = u.db /\ b.data = a.data
           /\ u.k \in {"w1", "multi", "exec"} => b = a
           /\ u.k = "w2" => b.db = a.db /\ b.data = a.data \cup {<<u.id, a.db>>}
           /\ u.k = "flush" => b.db = a.db /\ b.data = {}
           /\ u.k = "push" => b.db = a.db /\ b.data = a.data \cup {<<u.ids[i], a.db>> : i \in DOMAIN u.ids}
  <1> USE UnitKinds
  <1>0. a.data \in Data /\ a.db \in Dbs /\ a.dirty \in Nat /\ a.bad \in BOOLEAN
    BY DEF Loaded
  <1>1. CASE u.k = "sel"
    <2>1. RunCommand(a, u) = [a EXCEPT !.db = u.db]
      BY <1>1 DEF RunCommand
    <2> QED BY <1>1, <2>1 DEF Loaded
  <1>2. CASE u.k = "w2"
    <2>1. RunCommand(a, u) = [a EXCEPT !.data = @ \cup {<<u.id, a.db>>}, !.dirty = @ + 1]
      BY <1>2 DEF RunCommand
    <2>2. a.data \cup {<<u.id, a.db>>} \in Data /\ a.dirty + 1 \in Nat
      BY <1>0, <1>2, DataFacts, SMTT(30)
    <2> QED BY <1>2, <2>1, <2>2 DEF Loaded
  <1>3. CASE u.k = "push"
    <2>1. RunCommand(a, u) = [a EXCEPT !.data = @ \cup {<<u.ids[i], a.db>> : i \in DOMAIN u.ids}, !.bad = @ \/ u.n # Len(u.ids),
                                       !.dirty = @ + u.n]
      BY <1>3 DEF RunCommand
    <2> DEFINE d == a.data \cup {<<u.ids[i], a.db>> : i \in DOMAIN u.ids}
    <2>2. d \in Data /\ a.dirty + u.n \in Nat /\ (a.bad \/ u.n # Len(u.ids)) = a.bad
      BY <1>0, <1>3, PushedData, SMTT(30)
    <2>3. RunCommand(a, u) = [a EXCEPT !.data = d, !.bad = a.bad, !.dirty = a.dirty + u.n]
      BY <2>1, <2>2 DEF Loaded
    <2> HIDE DEF d
    <2>4. LET b == RunCommand(a, u) IN
          /\ b \in Loaded /\ b.data = d /\ b.db = a.db
          /\ b.open = a.open /\ b.queue = a.queue /\ b.read = a.read /\ b.len = a.len /\ b.torn = a.torn /\ b.bad = a.bad
      BY <2>2, <2>3 DEF Loaded
    <2> QED BY <1>3, <2>4 DEF d
  <1>4. CASE u.k = "flush"
    <2>1. RunCommand(a, u) = [a EXCEPT !.data = {}, !.dirty = @ + Cardinality(a.data) + 1]
      BY <1>4 DEF RunCommand
    <2>2. {} \in Data /\ a.dirty + Cardinality(a.data) + 1 \in Nat
      BY <1>0, DataFacts
    <2> QED BY <1>4, <2>1, <2>2 DEF Loaded
  <1>5. CASE u.k \in {"w1", "multi", "exec"}
    BY <1>5 DEF RunCommand
  <1> QED BY <1>1, <1>2, <1>3, <1>4, <1>5
LEMMA RunQueueFacts ==
    ASSUME NEW a \in Loaded, NEW q \in Files
    PROVE  LET b == RunQueue(a, q) IN
           /\ b \in Loaded
           /\ b.open = a.open /\ b.queue = a.queue /\ b.read = a.read /\ b.len = a.len /\ b.torn = a.torn /\ b.bad = a.bad
  <1> DEFINE Right(b) == /\ b \in Loaded
                         /\ b.open = a.open /\ b.queue = a.queue /\ b.read = a.read /\ b.len = a.len /\ b.torn = a.torn /\ b.bad = a.bad
             G == {r \in Files : Right(RunQueue(a, r))}
  <1>1. <<>> \in G
    BY FilesFacts, QueueFacts
  <1>2. ASSUME NEW r \in Files, NEW u \in Units, r \in G PROVE Append(r, u) \in G
    <2>1. RunQueue(a, Append(r, u)) = RunCommand(RunQueue(a, r), u) /\ Append(r, u) \in Files
      BY QueueFacts, FilesFacts
    <2>2. Right(RunQueue(a, r))
      BY <1>2
    <2>3. ASSUME NEW b, Right(b) PROVE Right(RunCommand(b, u))
      BY <2>3, RunCommandFacts
    <2> HIDE DEF Right
    <2> QED BY <2>1, <2>2, <2>3
  <1> HIDE DEF G
  <1>3. Files \subseteq G
    BY <1>1, <1>2, FilesInduction
  <1> QED BY <1>3 DEF G

\* What commands do depends on the data and the selected database alone.
Alike(a, b) == a.db = b.db /\ a.data = b.data

LEMMA RunCommandAlike ==
    ASSUME NEW a \in Loaded, NEW b \in Loaded, Alike(a, b), NEW u \in Units
    PROVE  Alike(RunCommand(a, u), RunCommand(b, u))
  <1> DEFINE c == RunCommand(a, u)
             d == RunCommand(b, u)
  <1> USE DEF Alike
  <1>1. CASE u.k \in {"sel", "w1", "multi", "exec"}
    BY <1>1, RunCommandFacts
  <1>2. CASE u.k = "w2"
    <2>1. c.db = a.db /\ c.data = a.data \cup {<<u.id, a.db>>}
      BY <1>2, RunCommandFacts
    <2>2. d.db = b.db /\ d.data = b.data \cup {<<u.id, b.db>>}
      BY <1>2, RunCommandFacts
    <2> QED BY <2>1, <2>2
  <1>4. CASE u.k = "flush"
    <2>1. c.db = a.db /\ c.data = {}
      BY <1>4, RunCommandFacts
    <2>2. d.db = b.db /\ d.data = {}
      BY <1>4, RunCommandFacts
    <2> QED BY <2>1, <2>2
  <1>3. CASE u.k = "push"
    <2>1. c.db = a.db /\ c.data = a.data \cup {<<u.ids[i], a.db>> : i \in DOMAIN u.ids}
      BY <1>3, RunCommandFacts
    <2>2. d.db = b.db /\ d.data = b.data \cup {<<u.ids[i], b.db>> : i \in DOMAIN u.ids}
      BY <1>3, RunCommandFacts
    <2> QED BY <2>1, <2>2
  <1> QED BY <1>1, <1>2, <1>3, <1>4, UnitKinds

LEMMA RunQueueAlike ==
    ASSUME NEW a \in Loaded, NEW b \in Loaded, Alike(a, b), NEW q \in Files
    PROVE  Alike(RunQueue(a, q), RunQueue(b, q))
  <1> DEFINE G == {r \in Files : Alike(RunQueue(a, r), RunQueue(b, r))}
  <1>1. <<>> \in G
    BY FilesFacts, QueueFacts
  <1>2. ASSUME NEW r \in Files, NEW u \in Units, r \in G PROVE Append(r, u) \in G
    <2>1. Append(r, u) \in Files /\ r \in Files
      BY FilesFacts
    <2>2. RunQueue(a, Append(r, u)) = RunCommand(RunQueue(a, r), u) /\ RunQueue(b, Append(r, u)) = RunCommand(RunQueue(b, r), u)
      BY QueueFacts
    <2>3. RunQueue(a, r) \in Loaded /\ RunQueue(b, r) \in Loaded
      BY <2>1, RunQueueFacts
    <2>4. Alike(RunCommand(RunQueue(a, r), u), RunCommand(RunQueue(b, r), u))
      BY <1>2, <2>3, RunCommandAlike
    <2> QED BY <2>1, <2>2, <2>4
  <1> HIDE DEF G
  <1>3. Files \subseteq G
    BY <1>1, <1>2, FilesInduction
  <1> QED BY <1>3 DEF G

LEMMA ReadFacts ==
    ASSUME NEW a \in Loaded, NEW u \in Units
    PROVE  LET b == ReadUnit(a, u) IN
           /\ b \in Loaded /\ Alike(b, a) /\ b.open = a.open /\ b.queue = a.queue
           /\ b.read = a.read + 1 /\ b.torn = (u.k = "w1") /\ b.bad = (a.bad \/ (a.torn /\ u.k # "w2"))
           /\ b.len = IF u.k = "w1" THEN a.len ELSE a.read + 1
  <1> DEFINE torn == u.k = "w1"
             bad == a.bad \/ (a.torn /\ u.k # "w2")
             len == IF u.k = "w1" THEN a.len ELSE a.read + 1
  <1>1. ReadUnit(a, u) = [a EXCEPT !.read = a.read + 1, !.torn = torn, !.bad = bad, !.len = len]
    BY DEF ReadUnit, Loaded
  <1>2. a.read + 1 \in Nat /\ torn \in BOOLEAN /\ bad \in BOOLEAN /\ len \in Nat
    BY DEF Loaded
  <1> HIDE DEF torn, bad, len
  <1>3. LET b == ReadUnit(a, u) IN
        /\ b \in Loaded /\ Alike(b, a) /\ b.open = a.open /\ b.queue = a.queue
        /\ b.read = a.read + 1 /\ b.torn = torn /\ b.bad = bad /\ b.len = len
    BY <1>1, <1>2 DEF Loaded, Alike
  <1> QED BY <1>3 DEF torn, bad, len

\* What EXEC would make of what was loaded.
Executes(a) == RunQueue([a EXCEPT !.open = FALSE, !.queue = <<>>], a.queue)

LEMMA ExecutesFacts ==
    ASSUME NEW a \in Loaded
    PROVE  /\ [a EXCEPT !.open = FALSE, !.queue = <<>>] \in Loaded /\ Alike([a EXCEPT !.open = FALSE, !.queue = <<>>], a)
           /\ Executes(a) \in Loaded /\ Executes(a).open = FALSE /\ Executes(a).queue = <<>>
           /\ Executes(a).read = a.read /\ Executes(a).len = a.len /\ Executes(a).torn = a.torn /\ Executes(a).bad = a.bad
           /\ a.queue = <<>> => Alike(Executes(a), a)
  <1> DEFINE b == [a EXCEPT !.open = FALSE, !.queue = <<>>]
  <1>1. <<>> \in Files /\ a.queue \in Files
    BY FilesFacts DEF Loaded
  <1>2. b \in Loaded /\ Alike(b, a) /\ b.open = FALSE /\ b.queue = <<>> /\ b.read = a.read /\ b.len = a.len /\ b.torn = a.torn /\ b.bad = a.bad
    BY <1>1 DEF Loaded, Alike
  <1>3. Executes(a) = RunQueue(b, a.queue)
    BY DEF Executes
  <1> HIDE DEF b
  <1>4. a.queue = <<>> => Executes(a) = b
    BY <1>3, QueueFacts
  <1>5. LET c == Executes(a) IN
        c \in Loaded /\ c.open = FALSE /\ c.queue = <<>> /\ c.read = a.read /\ c.len = a.len /\ c.torn = a.torn /\ c.bad = a.bad
    BY <1>1, <1>2, <1>3, RunQueueFacts
  <1> QED BY <1>2, <1>4, <1>5 DEF b

LEMMA ExecutesAlike ==
    ASSUME NEW a \in Loaded, NEW b \in Loaded, Alike(a, b), a.queue = b.queue
    PROVE  Alike(Executes(a), Executes(b))
  <1>1. a.queue \in Files
    BY DEF Loaded
  <1> DEFINE c == [a EXCEPT !.open = FALSE, !.queue = <<>>]
             d == [b EXCEPT !.open = FALSE, !.queue = <<>>]
  <1>2. c \in Loaded /\ d \in Loaded /\ Alike(c, d)
    BY ExecutesFacts DEF Alike
  <1>3. Executes(a) = RunQueue(c, a.queue) /\ Executes(b) = RunQueue(d, a.queue)
    BY DEF Executes
  <1> HIDE DEF c, d
  <1> QED BY <1>1, <1>2, <1>3, RunQueueAlike
\* A unit changes what EXEC would make of the file, and the data too unless a transaction is
\* open; its position is counted in every case.
LEMMA LoadUnitFacts ==
    ASSUME NEW a \in Loaded, NEW u \in Units, ~a.open => a.queue = <<>>
    PROVE  LET b == LoadUnit(a, u) IN
           /\ b \in Loaded /\ (~b.open => b.queue = <<>>)
           /\ b.read = a.read + 1 /\ b.torn = (u.k = "w1") /\ b.bad = (a.bad \/ (a.torn /\ u.k # "w2"))
           /\ b.len = IF u.k = "w1" THEN a.len ELSE a.read + 1
           /\ b.open = IF u.k = "multi" THEN TRUE ELSE IF u.k = "exec" THEN FALSE ELSE a.open
           /\ Alike(Executes(b), RunCommand(Executes(a), u))
           /\ u.k = "multi" => b.data = a.data
           /\ b.open => b.data = a.data
           /\ ~b.open => Alike(b, Executes(b))
  <1> DEFINE r == ReadUnit(a, u)
             b == LoadUnit(a, u)
             Counted(c) == /\ c.read = a.read + 1 /\ c.torn = (u.k = "w1") /\ c.bad = (a.bad \/ (a.torn /\ u.k # "w2"))
                           /\ c.len = IF u.k = "w1" THEN a.len ELSE a.read + 1
  <1>1. r \in Loaded /\ Counted(r) /\ Alike(r, a) /\ r.open = a.open /\ r.queue = a.queue
    BY ReadFacts
  <1>2. b = CASE u.k = "multi" -> [r EXCEPT !.open = TRUE]
              [] u.k = "exec" -> RunQueue([r EXCEPT !.open = FALSE, !.queue = <<>>], r.queue)
              [] u.k \notin {"multi", "exec"} /\ r.open -> [r EXCEPT !.queue = Append(@, u)]
              [] OTHER -> RunCommand(r, u)
    BY DEF LoadUnit
  <1> HIDE DEF r
  <1>3. Alike(Executes(r), Executes(a)) /\ Executes(a) \in Loaded /\ Executes(r) \in Loaded /\ r.queue \in Files
    BY <1>1, ExecutesAlike, ExecutesFacts DEF Loaded
  <1>4. Alike(RunCommand(Executes(r), u), RunCommand(Executes(a), u))
    BY <1>3, RunCommandAlike
  <1>5. CASE u.k = "multi"
    <2>1. b = [r EXCEPT !.open = TRUE]
      BY <1>2, <1>5
    <2>2. b \in Loaded /\ Alike(b, r) /\ b.open /\ b.queue = r.queue /\ b.read = r.read /\ b.torn = r.torn /\ b.bad = r.bad /\ b.len = r.len
      BY <1>1, <2>1 DEF Loaded, Alike
    <2> HIDE DEF b
    <2>3. Alike(Executes(b), Executes(r)) /\ RunCommand(Executes(a), u) = Executes(a)
      BY <1>1, <1>3, <1>5, <2>2, ExecutesAlike, RunCommandFacts
    <2>4. Alike(Executes(b), RunCommand(Executes(a), u)) /\ b.data = a.data
      BY <1>1, <1>3, <2>2, <2>3 DEF Alike
    <2> QED BY <1>1, <1>5, <2>2, <2>4 DEF b
  <1>6. CASE u.k = "exec"
    <2>1. b = Executes(r)
      BY <1>2, <1>6 DEF Executes
    <2> HIDE DEF b
    <2>2. /\ b \in Loaded /\ b.open = FALSE /\ b.queue = <<>>
          /\ b.read = r.read /\ b.torn = r.torn /\ b.bad = r.bad /\ b.len = r.len
      BY <1>1, <2>1, ExecutesFacts
    <2>3. Alike(Executes(b), b)
      BY <2>2, ExecutesFacts
    <2>4. RunCommand(Executes(a), u) = Executes(a)
      BY <1>3, <1>6, RunCommandFacts
    <2>5. Alike(Executes(b), RunCommand(Executes(a), u)) /\ Alike(b, Executes(b))
      BY <1>3, <2>1, <2>3, <2>4 DEF Alike
    <2> QED BY <1>1, <1>6, <2>2, <2>5 DEF b
  <1>7. CASE u.k \notin {"multi", "exec"} /\ r.open
    <2> DEFINE q == Append(r.queue, u)
               e == [r EXCEPT !.open = FALSE, !.queue = <<>>]
    <2>0. q \in Files
      BY <1>3, FilesFacts
    <2>1. b = [r EXCEPT !.queue = q]
      BY <1>1, <1>2, <1>7 DEF Loaded
    <2>2. RunQueue(e, q) = RunCommand(RunQueue(e, r.queue), u)
      BY <1>3, QueueFacts
    <2> HIDE DEF q
    <2>3. /\ b \in Loaded /\ Alike(b, r) /\ b.open = r.open /\ b.queue = q
          /\ b.read = r.read /\ b.torn = r.torn /\ b.bad = r.bad /\ b.len = r.len
          /\ [b EXCEPT !.open = FALSE, !.queue = <<>>] = e
      BY <1>1, <2>0, <2>1 DEF Loaded, Alike
    <2> HIDE DEF b
    <2>4. Executes(b) = RunCommand(Executes(r), u)
      BY <2>2, <2>3 DEF Executes
    <2>5. Alike(Executes(b), RunCommand(Executes(a), u)) /\ b.data = a.data /\ b.open
      BY <1>1, <1>4, <1>7, <2>3, <2>4 DEF Alike
    <2> QED BY <1>1, <1>7, <2>3, <2>5 DEF b
  <1>8. CASE u.k \notin {"multi", "exec"} /\ ~r.open
    <2>1. b = RunCommand(r, u)
      BY <1>2, <1>8
    <2> HIDE DEF b
    <2>2. /\ b \in Loaded /\ b.open = r.open /\ b.queue = r.queue
          /\ b.read = r.read /\ b.torn = r.torn /\ b.bad = r.bad /\ b.len = r.len
      BY <1>1, <2>1, RunCommandFacts
    <2>3. b.queue = <<>> /\ r.queue = <<>> /\ ~b.open /\ ~a.open
      BY <1>1, <1>8, <2>2
    <2>4. Alike(Executes(b), b) /\ Alike(Executes(r), r)
      BY <1>1, <2>2, <2>3, ExecutesFacts
    <2>5. Alike(RunCommand(r, u), RunCommand(Executes(r), u))
      BY <1>1, <1>3, <2>4, RunCommandAlike DEF Alike
    <2>6. Alike(Executes(b), RunCommand(Executes(a), u)) /\ Alike(b, Executes(b))
      BY <1>4, <2>1, <2>4, <2>5 DEF Alike
    <2> QED BY <1>1, <1>8, <2>2, <2>3, <2>6 DEF b
  <1> QED BY <1>5, <1>6, <1>7, <1>8

\* Every file can be loaded.
LEMMA LoadTyped ==
    ASSUME NEW s \in Files
    PROVE  LET a == loadAppendOnlyFile(s) IN a \in Loaded /\ (~a.open => a.queue = <<>>) /\ a.read = Len(s)
  <1> DEFINE Right(a) == a \in Loaded /\ (~a.open => a.queue = <<>>)
             G == {r \in Files : Right(loadAppendOnlyFile(r)) /\ loadAppendOnlyFile(r).read = Len(r)}
  <1>1. <<>> \in G
    <2>1. 0 \in Dbs
      BY SizesAssumption DEF Dbs
    <2>2. Right(EmptyLoad) /\ EmptyLoad.read = 0
      BY <2>1, FilesFacts, DataFacts DEF EmptyLoad, Loaded
    <2> QED BY <2>2, FilesFacts, LoadFacts
  <1>2. ASSUME NEW r \in Files, NEW u \in Units, r \in G PROVE Append(r, u) \in G
    <2>1. loadAppendOnlyFile(Append(r, u)) = LoadUnit(loadAppendOnlyFile(r), u) /\ Append(r, u) \in Files /\ Len(Append(r, u)) = Len(r) + 1
      BY LoadFacts, FilesFacts
    <2>2. Right(loadAppendOnlyFile(r)) /\ loadAppendOnlyFile(r).read = Len(r)
      BY <1>2
    <2>3. ASSUME NEW b, Right(b) PROVE Right(LoadUnit(b, u)) /\ LoadUnit(b, u).read = b.read + 1
      BY <2>3, LoadUnitFacts
    <2> HIDE DEF Right
    <2> QED BY <2>1, <2>2, <2>3
  <1> HIDE DEF G
  <1>3. Files \subseteq G
    BY <1>1, <1>2, FilesInduction
  <1> QED BY <1>3 DEF G
---------------------------------------------------------------------------
(* Files that hold whole commands *)

\* The second half of a write follows the first, and the last command is whole.
WellFormed(s) == \A i \in 1..(Len(s) - 1) : s[i].k = "w1" => s[i + 1].k = "w2"
Whole(s) == s # <<>> => s[Len(s)].k # "w1"
Shape(s) == s \in Files /\ WellFormed(s) /\ Whole(s)

LEMMA WellFormedPrefix ==
    ASSUME NEW s \in Files, WellFormed(s), NEW n \in 0..Len(s)
    PROVE  /\ SubSeq(s, 1, n) \in Files /\ WellFormed(SubSeq(s, 1, n)) /\ Len(SubSeq(s, 1, n)) = n
           /\ \A i \in 1..n : SubSeq(s, 1, n)[i] = s[i]
  <1>1. Len(s) \in Nat /\ n \in Nat /\ n <= Len(s) /\ \A i \in 1..n : s[i] \in Units
    BY FilesFacts, ElementOfSeq
  <1>2. SubSeq(s, 1, n) \in Files /\ Len(SubSeq(s, 1, n)) = n /\ \A i \in 1..n : SubSeq(s, 1, n)[i] = s[i]
    BY <1>1, SubSeqProperties DEF Files
  <1>3. WellFormed(SubSeq(s, 1, n))
    <2> SUFFICES ASSUME NEW i \in 1..(n - 1) PROVE SubSeq(s, 1, n)[i].k = "w1" => SubSeq(s, 1, n)[i + 1].k = "w2"
      BY <1>2 DEF WellFormed
    <2>1. i \in 1..n /\ i + 1 \in 1..n /\ i \in 1..(Len(s) - 1)
      BY <1>1
    <2>2. SubSeq(s, 1, n)[i] = s[i] /\ SubSeq(s, 1, n)[i + 1] = s[i + 1]
      BY <1>2, <2>1
    <2>3. s[i].k = "w1" => s[i + 1].k = "w2"
      BY <2>1 DEF WellFormed
    <2> QED BY <2>2, <2>3
  <1> QED BY <1>2, <1>3

LEMMA ShapeConcat ==
    ASSUME NEW s, NEW t, Shape(s), Shape(t)
    PROVE  Shape(s \o t)
  <1>1. s \in Files /\ t \in Files /\ Len(s) \in Nat /\ Len(t) \in Nat
    BY FilesFacts DEF Shape
  <1>2. s \o t \in Files /\ Len(s \o t) = Len(s) + Len(t)
        /\ \A i \in 1 .. Len(s) + Len(t) : (s \o t)[i] = IF i <= Len(s) THEN s[i] ELSE t[i - Len(s)]
    BY <1>1, ConcatProperties DEF Files
  <1>3. WellFormed(s \o t)
    <2> SUFFICES ASSUME NEW i \in 1..(Len(s) + Len(t) - 1), (s \o t)[i].k = "w1" PROVE (s \o t)[i + 1].k = "w2"
      BY <1>2 DEF WellFormed
    <2>1. i \in Nat /\ i \in 1..(Len(s) + Len(t)) /\ i + 1 \in 1..(Len(s) + Len(t))
      BY <1>1
    <2>2. CASE i < Len(s)
      <3>1. (s \o t)[i] = s[i] /\ (s \o t)[i + 1] = s[i + 1] /\ i \in 1..(Len(s) - 1)
        BY <1>1, <1>2, <2>1, <2>2
      <3> QED BY <3>1 DEF Shape, WellFormed
    <2>3. CASE i = Len(s)
      <3>1. (s \o t)[i] = s[Len(s)] /\ s # <<>>
        BY <1>1, <1>2, <2>1, <2>3, EmptySeq
      <3> QED BY <3>1 DEF Shape, Whole
    <2>4. CASE i > Len(s)
      <3> DEFINE j == i - Len(s)
      <3>1. (s \o t)[i] = t[j] /\ (s \o t)[i + 1] = t[i + 1 - Len(s)] /\ i + 1 - Len(s) = j + 1 /\ j \in 1..(Len(t) - 1)
        BY <1>1, <1>2, <2>1, <2>4
      <3> HIDE DEF j
      <3> QED BY <3>1 DEF Shape, WellFormed
    <2> QED BY <1>1, <2>1, <2>2, <2>3, <2>4
  <1>4. Whole(s \o t)
    <2>1. CASE t = <<>>
      <3>1. s \o t = s
        BY <1>1, <2>1, FilesFacts
      <3> QED BY <3>1 DEF Shape
    <2>2. CASE t # <<>>
      <3>1. Len(t) > 0
        BY <1>1, <2>2, EmptySeq DEF Files
      <3>2. (s \o t)[Len(s \o t)] = t[Len(t)]
        BY <1>1, <1>2, <3>1
      <3> QED BY <2>2, <3>2 DEF Shape, Whole
    <2> QED BY <2>1, <2>2
  <1> QED BY <1>2, <1>3, <1>4 DEF Shape

\* What a partial write left in the buffer can follow any whole file.
LEMMA ShapeRest ==
    ASSUME NEW s \in Files, NEW t \in Files, Shape(s \o t)
    PROVE  Shape(t)
  <1>1. Len(s) \in Nat /\ Len(t) \in Nat
    BY FilesFacts
  <1>2. Len(s \o t) = Len(s) + Len(t)
        /\ \A i \in 1 .. Len(s) + Len(t) : (s \o t)[i] = IF i <= Len(s) THEN s[i] ELSE t[i - Len(s)]
    BY ConcatProperties DEF Files
  <1>3. ASSUME NEW i \in 1..Len(t) PROVE t[i] = (s \o t)[Len(s) + i] /\ Len(s) + i \in 1..(Len(s) + Len(t))
    <2>1. Len(s) + i \in 1..(Len(s) + Len(t)) /\ ~(Len(s) + i <= Len(s)) /\ Len(s) + i - Len(s) = i
      BY <1>1
    <2> QED BY <1>2, <2>1
  <1>4. WellFormed(t)
    <2> SUFFICES ASSUME NEW i \in 1..(Len(t) - 1), t[i].k = "w1" PROVE t[i + 1].k = "w2"
      BY DEF WellFormed
    <2> DEFINE j == Len(s) + i
    <2>1. i \in 1..Len(t) /\ i + 1 \in 1..Len(t) /\ j \in 1..(Len(s \o t) - 1) /\ Len(s) + (i + 1) = j + 1
      BY <1>1, <1>2
    <2>2. t[i] = (s \o t)[j] /\ t[i + 1] = (s \o t)[j + 1]
      BY <1>3, <2>1
    <2> HIDE DEF j
    <2> QED BY <2>1, <2>2 DEF Shape, WellFormed
  <1>5. Whole(t)
    <2> SUFFICES ASSUME t # <<>> PROVE t[Len(t)].k # "w1"
      BY DEF Whole
    <2>1. Len(t) \in 1..Len(t) /\ Len(s \o t) # 0
      BY <1>1, <1>2, EmptySeq DEF Files
    <2>2. t[Len(t)] = (s \o t)[Len(s \o t)]
      BY <1>2, <1>3, <2>1
    <2>3. s \o t # <<>>
      BY <2>1
    <2> QED BY <2>2, <2>3 DEF Shape, Whole
  <1> QED BY <1>4, <1>5 DEF Shape
LEMMA WellFormedAppend ==
    ASSUME NEW s \in Files, NEW u \in Units, WellFormed(Append(s, u))
    PROVE  WellFormed(s) /\ (~Whole(s) => u.k = "w2")
  <1> DEFINE t == Append(s, u)
             n == Len(s)
  <1>1. n \in Nat /\ Len(t) = n + 1 /\ t[n + 1] = u /\ \A i \in 1..n : t[i] = s[i]
    BY FilesFacts, AppendProperties
  <1>2. \A i \in 1..n : t[i].k = "w1" => t[i + 1].k = "w2"
    BY <1>1 DEF WellFormed
  <1> HIDE DEF t
  <1>3. \A i \in 1..(n - 1) : s[i].k = "w1" => s[i + 1].k = "w2"
    <2> SUFFICES ASSUME NEW i \in 1..(n - 1) PROVE s[i].k = "w1" => s[i + 1].k = "w2"
      OBVIOUS
    <2>1. i \in 1..n /\ i + 1 \in 1..n
      BY <1>1
    <2> QED BY <1>1, <1>2, <2>1
  <1>4. ASSUME ~Whole(s) PROVE u.k = "w2"
    <2>1. s # <<>> /\ s[n].k = "w1"
      BY <1>4 DEF Whole
    <2>2. n \in 1..n
      BY <1>1, <2>1, EmptySeq DEF Files
    <2> QED BY <1>1, <1>2, <2>1, <2>2
  <1> QED BY <1>3, <1>4 DEF WellFormed

LEMMA WholeAppend ==
    ASSUME NEW s \in Files, NEW u \in Units
    PROVE  Whole(Append(s, u)) <=> u.k # "w1"
  <1>1. Append(s, u) # <<>> /\ Append(s, u)[Len(Append(s, u))] = u
    BY FilesFacts, AppendProperties
  <1> QED BY <1>1 DEF Whole

\* A file of whole commands, the last one possibly torn, is never taken for a bad one, and
\* what is valid is all but the torn half.
LEMMA LoadWellFormed ==
    ASSUME NEW s \in Files, WellFormed(s)
    PROVE  LET a == loadAppendOnlyFile(s) IN
           ~a.bad /\ (a.torn <=> ~Whole(s)) /\ a.len = IF a.torn THEN Len(s) - 1 ELSE Len(s)
  <1> DEFINE Right(r) == LET a == loadAppendOnlyFile(r) IN
                         ~a.bad /\ (a.torn <=> ~Whole(r)) /\ a.len = IF a.torn THEN Len(r) - 1 ELSE Len(r)
             G == {r \in Files : WellFormed(r) => Right(r)}
  <1>1. <<>> \in G
    <2>1. loadAppendOnlyFile(<<>>) = EmptyLoad
      BY LoadFacts
    <2>2. Whole(<<>>) /\ Len(<<>>) = 0
      BY DEF Whole
    <2>3. EmptyLoad.bad = FALSE /\ EmptyLoad.torn = FALSE /\ EmptyLoad.len = 0
      BY DEF EmptyLoad
    <2> QED BY <2>1, <2>2, <2>3, FilesFacts
  <1>2. ASSUME NEW r \in Files, NEW u \in Units, r \in G PROVE Append(r, u) \in G
    <2> DEFINE t == Append(r, u)
               a == loadAppendOnlyFile(r)
               b == loadAppendOnlyFile(t)
    <2>1. t \in Files /\ Len(t) = Len(r) + 1 /\ Len(r) \in Nat /\ b = LoadUnit(a, u)
      BY FilesFacts, LoadFacts
    <2>2. a \in Loaded /\ (~a.open => a.queue = <<>>) /\ a.read = Len(r)
      BY LoadTyped
    <2> HIDE DEF a, b, t
    <2>3. /\ b.torn <=> u.k = "w1"
          /\ b.bad <=> a.bad \/ (a.torn /\ u.k # "w2")
          /\ b.len = IF u.k = "w1" THEN a.len ELSE a.read + 1
      BY <2>1, <2>2, LoadUnitFacts
    <2>4. ASSUME WellFormed(t) PROVE Right(t)
      <3>1. WellFormed(r) /\ (~Whole(r) => u.k = "w2") /\ (Whole(t) <=> u.k # "w1")
        BY <2>4, WellFormedAppend, WholeAppend DEF t
      <3>2. ~a.bad /\ (a.torn <=> ~Whole(r)) /\ a.len = IF a.torn THEN Len(r) - 1 ELSE Len(r)
        BY <1>2, <3>1 DEF a
      <3>3. ~b.bad /\ (b.torn <=> ~Whole(t)) /\ b.len = IF b.torn THEN Len(t) - 1 ELSE Len(t)
        BY <2>1, <2>2, <2>3, <3>1, <3>2
      <3> QED BY <3>3 DEF b
    <2> HIDE DEF Right
    <2> QED BY <2>1, <2>4 DEF t
  <1> HIDE DEF G
  <1>3. Files \subseteq G
    BY <1>1, <1>2, FilesInduction
  <1> QED BY <1>3 DEF G

\* Truncating the file to what is valid does not change what is loaded.
LEMMA LoadTruncated ==
    ASSUME NEW s \in Files, WellFormed(s)
    PROVE  LET a == loadAppendOnlyFile(s)
               t == SubSeq(s, 1, a.len)
               b == loadAppendOnlyFile(t)
           IN Shape(t) /\ b.open = a.open /\ b.data = a.data
  <1> DEFINE a == loadAppendOnlyFile(s)
  <1>1. ~a.bad /\ (a.torn <=> ~Whole(s)) /\ a.len = (IF a.torn THEN Len(s) - 1 ELSE Len(s)) /\ a \in Loaded
    BY LoadWellFormed, LoadTyped
  <1>2. CASE Whole(s)
    <2>1. a.len = Len(s) /\ SubSeq(s, 1, Len(s)) = s
      BY <1>1, <1>2, SubSeqFull DEF Files
    <2> QED BY <1>2, <2>1 DEF Shape
  <1>3. CASE ~Whole(s)
    <2>1. s # <<>> /\ s[Len(s)].k = "w1"
      BY <1>3 DEF Whole
    <2>2. PICK r \in Files, u \in Units : s = Append(r, u)
      BY <2>1, SequenceEmptyOrAppend DEF Files
    <2>3. Len(s) = Len(r) + 1 /\ s[Len(r) + 1] = u /\ Len(r) \in Nat /\ \A i \in 1..Len(r) : s[i] = r[i]
      BY <2>2, FilesFacts, AppendProperties
    <2>4. u.k = "w1" /\ a.len = Len(r)
      BY ONLY <1>1, <1>3, <2>1, <2>3
    <2>5. SubSeq(s, 1, Len(r)) = r
      <3>1. SubSeq(s, 1, Len(r)) \in Files /\ Len(SubSeq(s, 1, Len(r))) = Len(r) /\ \A i \in 1..Len(r) : SubSeq(s, 1, Len(r))[i] = s[i]
        BY <2>3, WellFormedPrefix
      <3> QED BY <2>3, <3>1, SeqEqual DEF Files
    <2>6. WellFormed(r) /\ Whole(r)
      BY <2>2, <2>4, WellFormedAppend
    <2>7. a = LoadUnit(loadAppendOnlyFile(r), u)
      BY <2>2, LoadFacts
    <2> DEFINE c == loadAppendOnlyFile(r)
    <2>8. c \in Loaded /\ (~c.open => c.queue = <<>>)
      BY LoadTyped
    <2> HIDE DEF a, c
    <2>12. a = LoadUnit(c, u)
      BY <2>7 DEF a, c
    <2>9. a.open = c.open /\ Alike(Executes(a), RunCommand(Executes(c), u)) /\ (a.open => a.data = c.data) /\ (~a.open => Alike(a, Executes(a)))
      BY <2>4, <2>8, <2>12, LoadUnitFacts
    <2>10. RunCommand(Executes(c), u) = Executes(c) /\ (c.queue = <<>> => Alike(Executes(c), c))
      BY <2>4, <2>8, ExecutesFacts, RunCommandFacts
    <2>11. a.data = c.data
      BY <2>8, <2>9, <2>10 DEF Alike
    <2> QED BY <2>4, <2>5, <2>6, <2>9, <2>11 DEF Shape, a, c
  <1> QED BY <1>2, <1>3
---------------------------------------------------------------------------
(* What a file holds *)

\* Loading s leaves a transaction open or not, the data d, and e if the transaction is
\* executed; what comes next is for the database db, unless that is not known.
Holds(s, open, d, e, db) ==
    LET a == loadAppendOnlyFile(s)
    IN (a.open <=> open) /\ a.data = d /\ Executes(a).data = e /\ (db # -1 => Executes(a).db = db)

\* What a loss of power leaves of s, when it keeps this much, is one of D.
Near(s, from, D) == \A n \in from..Len(s) : loadAppendOnlyFile(SubSeq(s, 1, n)).data \in D

Tracks(s, open, d, e, db, from, D) == s \in Files /\ Holds(s, open, d, e, db) /\ Near(s, from, D)

LEMMA HoldsClosed ==
    ASSUME NEW s \in Files, NEW open, NEW d, NEW e, NEW db, Holds(s, open, d, e, db)
    PROVE  /\ d \in Data /\ e \in Data
           /\ ~open => d = e
           /\ loadAppendOnlyFile(s).data = d
           /\ Holds(s, open, d, e, -1)
  <1> DEFINE a == loadAppendOnlyFile(s)
  <1>1. a \in Loaded /\ (~a.open => a.queue = <<>>)
    BY LoadTyped
  <1>2. (a.open <=> open) /\ a.data = d /\ Executes(a).data = e
    BY DEF Holds
  <1> HIDE DEF a
  <1>3. Executes(a) \in Loaded /\ (a.queue = <<>> => Alike(Executes(a), a))
    BY <1>1, ExecutesFacts
  <1> QED BY <1>1, <1>2, <1>3 DEF Loaded, Alike, Holds, a

LEMMA NearUnit ==
    ASSUME NEW s \in Files, NEW u \in Units, NEW from \in Nat, NEW D, Near(s, from, D), loadAppendOnlyFile(Append(s, u)).data \in D
    PROVE  Near(Append(s, u), from, D)
  <1> DEFINE t == Append(s, u)
  <1>1. t \in Files /\ Len(t) = Len(s) + 1 /\ Len(s) \in Nat
    BY FilesFacts
  <1> SUFFICES ASSUME NEW n \in from..Len(t) PROVE loadAppendOnlyFile(SubSeq(t, 1, n)).data \in D
    BY DEF Near
  <1>2. CASE n = Len(t)
    BY <1>1, <1>2, SubSeqFull DEF Files
  <1>3. CASE n # Len(t)
    <2>1. n \in from..Len(s) /\ n \in Nat /\ n <= Len(s)
      BY <1>1, <1>3
    <2>2. SubSeq(t, 1, n) = SubSeq(s, 1, n)
      <3>1. CASE n = 0
        BY <3>1, SubSeqEmpty
      <3>2. CASE n # 0
        <4>1. 1 \in 1..Len(s) /\ n \in 1..Len(s)
          BY <1>1, <2>1, <3>2
        <4>2. t = s \o <<u>> /\ s \in Seq(Units)
          BY FilesFacts
        <4>3. <<u>> \in Seq(Units)
          OBVIOUS
        <4> HIDE DEF t
        <4> QED BY <4>1, <4>2, <4>3, SubSeqOfConcat1
      <3> QED BY <3>1, <3>2
    <2> QED BY <2>1, <2>2 DEF Near
  <1> QED BY <1>2, <1>3

LEMMA NearWeaker ==
    ASSUME NEW s \in Files, NEW from \in Nat, NEW D, Near(s, from, D), NEW from2 \in Nat, from <= from2, NEW E, D \subseteq E
    PROVE  Near(s, from2, E)
  <1>1. Len(s) \in Nat
    BY FilesFacts
  <1>2. \A n \in from2..Len(s) : n \in from..Len(s)
    BY <1>1
  <1> QED BY <1>2 DEF Near

LEMMA NearAll ==
    ASSUME NEW s \in Files, NEW D, loadAppendOnlyFile(s).data \in D
    PROVE  Near(s, Len(s), D)
  <1>1. Len(s) \in Nat /\ SubSeq(s, 1, Len(s)) = s
    BY FilesFacts, SubSeqFull DEF Files
  <1>2. \A m \in Nat : \A n \in m..m : n = m
    OBVIOUS
  <1> QED BY <1>1, <1>2 DEF Near

\* A unit that is not the end of a transaction.
LEMMA TracksUnit ==
    ASSUME NEW s, NEW open, NEW d, NEW e, NEW db, NEW from \in Nat, NEW D, Tracks(s, open, d, e, db, from, D), NEW u \in Units
    PROVE  /\ d \in D /\ u.k = "sel" => Tracks(Append(s, u), open, d, e, u.db, from, D)
           /\ d \in D /\ u.k = "w1" => Tracks(Append(s, u), open, d, e, db, from, D)
           /\ d \in D /\ u.k = "multi" => Tracks(Append(s, u), TRUE, d, e, db, from, D)
           /\ e \in D /\ u.k = "exec" => Tracks(Append(s, u), FALSE, e, e, db, from, D)
           /\ \A d2 \in D : \A e2 : /\ u.k = "w2" /\ db # -1 /\ e2 = e \cup {<<u.id, db>>} /\ d2 = (IF open THEN d ELSE e2)
                                    => Tracks(Append(s, u), open, d2, e2, db, from, D)
           /\ {} \in D /\ u.k = "flush" /\ ~open => Tracks(Append(s, u), open, {}, {}, db, from, D)
           /\ \A e2 \in D : /\ u.k = "push" /\ ~open /\ db # -1 /\ e2 = e \cup {<<u.ids[i], db>> : i \in DOMAIN u.ids}
                            => Tracks(Append(s, u), open, e2, e2, db, from, D)
  <1> DEFINE t == Append(s, u)
             a == loadAppendOnlyFile(s)
             b == loadAppendOnlyFile(t)
             c == RunCommand(Executes(a), u)
  <1>1. s \in Files /\ t \in Files /\ b = LoadUnit(a, u) /\ Near(s, from, D)
    BY FilesFacts, LoadFacts DEF Tracks
  <1>2. a \in Loaded /\ (~a.open => a.queue = <<>>)
    BY <1>1, LoadTyped
  <1>3. b.data \in D => Near(t, from, D)
    BY <1>1, NearUnit
  <1>4. (a.open <=> open) /\ a.data = d /\ Executes(a).data = e /\ (db # -1 => Executes(a).db = db)
    BY DEF Tracks, Holds
  <1>5. ASSUME NEW o, NEW d2 \in D, NEW e2, NEW db2, b.open <=> o, b.data = d2, Executes(b).data = e2, db2 # -1 => Executes(b).db = db2
        PROVE  Tracks(t, o, d2, e2, db2, from, D)
    BY <1>1, <1>3, <1>5 DEF Tracks, Holds
  <1> HIDE DEF a, b, t
  <1>6. Executes(a) \in Loaded
    BY <1>2, ExecutesFacts
  <1>7. /\ b.open <=> IF u.k = "multi" THEN TRUE ELSE IF u.k = "exec" THEN FALSE ELSE a.open
        /\ Alike(Executes(b), c)
        /\ u.k = "multi" => b.data = a.data
        /\ b.open => b.data = a.data
        /\ ~b.open => Alike(b, Executes(b))
    BY <1>1, <1>2, LoadUnitFacts
  <1>8. (~a.open => Alike(Executes(a), a))
    BY <1>2, ExecutesFacts
  <1>9. /\ u.k = "sel" => c.db = u.db /\ c.data = Executes(a).data
        /\ u.k \in {"w1", "multi", "exec"} => c = Executes(a)
        /\ u.k = "w2" => c.db = Executes(a).db /\ c.data = Executes(a).data \cup {<<u.id, Executes(a).db>>}
        /\ u.k = "flush" => c.db = Executes(a).db /\ c.data = {}
        /\ u.k = "push" => c.db = Executes(a).db /\ c.data = Executes(a).data \cup {<<u.ids[i], Executes(a).db>> : i \in DOMAIN u.ids}
    BY <1>6, RunCommandFacts
  <1> HIDE DEF c
  <1> USE DEF Alike
  <1>10. ASSUME d \in D, u.k = "sel" PROVE Tracks(t, open, d, e, u.db, from, D)
    BY <1>4, <1>5, <1>7, <1>8, <1>9, <1>10
  <1>11. ASSUME d \in D, u.k = "w1" PROVE Tracks(t, open, d, e, db, from, D)
    BY <1>4, <1>5, <1>7, <1>8, <1>9, <1>11
  <1>12. ASSUME d \in D, u.k = "multi" PROVE Tracks(t, TRUE, d, e, db, from, D)
    BY <1>4, <1>5, <1>7, <1>8, <1>9, <1>12
  <1>13. ASSUME e \in D, u.k = "exec" PROVE Tracks(t, FALSE, e, e, db, from, D)
    BY <1>4, <1>5, <1>7, <1>8, <1>9, <1>13
  <1>14. ASSUME NEW d2 \in D, NEW e2, u.k = "w2", db # -1, e2 = e \cup {<<u.id, db>>}, d2 = (IF open THEN d ELSE e2)
         PROVE  Tracks(t, open, d2, e2, db, from, D)
    <2>1. Executes(b).data = e2 /\ Executes(b).db = db /\ (b.open <=> open)
      BY <1>4, <1>7, <1>9, <1>14
    <2>2. b.data = d2
      BY <1>4, <1>7, <1>14, <2>1
    <2> QED BY <1>5, <2>1, <2>2
  <1>15. ASSUME {} \in D, u.k = "flush", ~open PROVE Tracks(t, open, {}, {}, db, from, D)
    BY <1>4, <1>5, <1>7, <1>9, <1>15
  <1>16. ASSUME NEW e2 \in D, u.k = "push", ~open, db # -1, e2 = e \cup {<<u.ids[i], db>> : i \in DOMAIN u.ids}
         PROVE  Tracks(t, open, e2, e2, db, from, D)
    <2>1. Executes(b).data = e2 /\ Executes(b).db = db /\ (b.open <=> open)
      BY <1>4, <1>7, <1>9, <1>16
    <2>2. b.data = e2
      BY <1>7, <1>16, <2>1
    <2> QED BY <1>5, <2>1, <2>2
  <1> QED BY <1>10, <1>11, <1>12, <1>13, <1>14, <1>15, <1>16 DEF t
---------------------------------------------------------------------------
(* What feedAppendOnlyFile appends *)

\* A SELECT comes first when the file is at another database.
Fed(selected, db, cmd) == (IF selected # db THEN <<Sel(db)>> ELSE <<>>) \o cmd

LEMMA CommandUnits ==
    /\ \A db \in Dbs : Sel(db) \in Units /\ Sel(db).k = "sel" /\ Sel(db).db = db
    /\ \A id \in Nat : [k |-> "w1", id |-> id] \in Units /\ [k |-> "w2", id |-> id] \in Units
    /\ [k |-> "multi"] \in Units /\ [k |-> "exec"] \in Units /\ [k |-> "flush"] \in Units
  BY DEF Sel, Units

LEMMA TwoUnits ==
    ASSUME NEW s \in Files, NEW u \in Units, NEW v \in Units
    PROVE  <<u, v>> \in Files /\ s \o <<u, v>> = Append(Append(s, u), v)
  <1>1. <<u, v>> = Append(Append(<<>>, u), v) /\ Append(<<>>, u) = <<u>>
    OBVIOUS
  <1>2. <<u>> \in Files
    BY <1>1, FilesFacts
  <1>3. <<v>> \in Files
    <2>1. <<v>> = Append(<<>>, v)
      OBVIOUS
    <2> QED BY <2>1, FilesFacts, ZenonT(30)
  <1>4. <<u, v>> \in Files /\ <<u, v>> = <<u>> \o <<v>>
    <2>1. <<u, v>> = Append(<<u>>, v)
      OBVIOUS
    <2> QED BY <1>2, <2>1, FilesFacts, ZenonT(30)
  <1>5. Append(Append(s, u), v) = (s \o <<u>>) \o <<v>>
    <2>1. Append(s, u) \in Files /\ Append(s, u) = s \o <<u>>
      BY FilesFacts
    <2>2. Append(Append(s, u), v) = Append(s, u) \o <<v>>
      BY <2>1, FilesFacts
    <2> QED BY <2>1, <2>2
  <1>6. (s \o <<u>>) \o <<v>> = s \o (<<u>> \o <<v>>)
    BY <1>2, <1>3, FilesFacts
  <1> QED BY <1>4, <1>5, <1>6

LEMMA ShapeUnit ==
    ASSUME NEW u \in Units, u.k # "w1"
    PROVE  Shape(<<u>>)
  <1>1. <<u>> = Append(<<>>, u) /\ Len(<<u>>) = 1 /\ <<u>>[1] = u
    OBVIOUS
  <1>2. <<u>> \in Files
    BY <1>1, FilesFacts
  <1>3. WellFormed(<<u>>) /\ Whole(<<u>>)
    BY <1>1 DEF WellFormed, Whole
  <1> QED BY <1>2, <1>3 DEF Shape

LEMMA ShapeHalves ==
    ASSUME NEW id \in Nat
    PROVE  Shape(Halves(id)) /\ Halves(id) \in Files
  <1> DEFINE u == [k |-> "w1", id |-> id]
             v == [k |-> "w2", id |-> id]
  <1>1. Halves(id) = <<u, v>> /\ u \in Units /\ v \in Units /\ u.k = "w1" /\ v.k = "w2"
    BY CommandUnits DEF Halves
  <1> HIDE DEF u, v
  <1>2. <<u, v>> \in Files
    BY <1>1, TwoUnits, FilesFacts
  <1>3. Len(<<u, v>>) = 2 /\ <<u, v>>[1] = u /\ <<u, v>>[2] = v
    OBVIOUS
  <1>4. WellFormed(<<u, v>>)
    <2>1. \A i \in 1..(2 - 1) : i = 1
      OBVIOUS
    <2> QED BY <1>1, <1>3, <2>1 DEF WellFormed
  <1>5. Whole(<<u, v>>)
    BY <1>1, <1>3 DEF Whole
  <1> QED BY <1>1, <1>2, <1>4, <1>5 DEF Shape

LEMMA ShapeEmpty == Shape(<<>>)
  BY FilesFacts DEF Shape, WellFormed, Whole

LEMMA ShapeFed ==
    ASSUME NEW selected, NEW db \in Dbs, NEW cmd, Shape(cmd)
    PROVE  Shape(Fed(selected, db, cmd))
  <1>1. Shape(<<Sel(db)>>)
    BY CommandUnits, ShapeUnit
  <1> QED BY <1>1, ShapeEmpty, ShapeConcat DEF Fed

Selects(s, selected, db) == IF selected # db THEN Append(s, Sel(db)) ELSE s

LEMMA SelectsThenCommand ==
    ASSUME NEW s \in Files, NEW selected, NEW db \in Dbs, NEW cmd \in Files
    PROVE  s \o Fed(selected, db, cmd) = Selects(s, selected, db) \o cmd
  <1>1. CASE selected = db
    BY <1>1, FilesFacts DEF Fed, Selects
  <1>2. CASE selected # db
    <2>1. Append(s, Sel(db)) = s \o <<Sel(db)>> /\ <<Sel(db)>> \in Files
      BY FilesFacts, CommandUnits, ShapeUnit DEF Shape
    <2>2. Fed(selected, db, cmd) = <<Sel(db)>> \o cmd /\ Selects(s, selected, db) = Append(s, Sel(db))
      BY <1>2 DEF Fed, Selects
    <2>3. (s \o <<Sel(db)>>) \o cmd = s \o (<<Sel(db)>> \o cmd)
      BY <2>1, FilesFacts
    <2> QED BY <2>1, <2>2, <2>3
  <1> QED BY <1>1, <1>2

LEMMA TracksSelect ==
    ASSUME NEW s, NEW open, NEW d, NEW e, NEW selected, NEW from \in Nat, NEW D, Tracks(s, open, d, e, selected, from, D), d \in D,
           NEW db \in Dbs
    PROVE  s \in Files /\ Selects(s, selected, db) \in Files /\ Tracks(Selects(s, selected, db), open, d, e, db, from, D)
  <1>1. s \in Files
    BY DEF Tracks
  <1>2. Sel(db) \in Units /\ Sel(db).k = "sel" /\ Sel(db).db = db
    BY CommandUnits
  <1>3. Tracks(Append(s, Sel(db)), open, d, e, db, from, D)
    BY <1>2, TracksUnit
  <1> QED BY <1>1, <1>2, <1>3, FilesFacts DEF Selects

\* A write, alone or in a transaction.
LEMMA TracksWrite ==
    ASSUME NEW s, NEW open, NEW d, NEW e, NEW selected, NEW from \in Nat, NEW D, Tracks(s, open, d, e, selected, from, D), d \in D,
           NEW db \in Dbs, NEW id \in Nat, NEW d2 \in D, NEW e2, e2 = e \cup {<<id, db>>}, d2 = IF open THEN d ELSE e2
    PROVE  Tracks(s \o Fed(selected, db, Halves(id)), open, d2, e2, db, from, D)
  <1> DEFINE u == [k |-> "w1", id |-> id]
             v == [k |-> "w2", id |-> id]
  <1>1. Halves(id) = <<u, v>> /\ u \in Units /\ v \in Units /\ u.k = "w1" /\ v.k = "w2" /\ v.id = id
    BY CommandUnits DEF Halves
  <1> HIDE DEF u, v
  <1> DEFINE r == Selects(s, selected, db)
  <1>0. s \in Files /\ r \in Files /\ Tracks(r, open, d, e, db, from, D)
    BY TracksSelect
  <1>2. s \o Fed(selected, db, Halves(id)) = r \o Halves(id)
    BY <1>0, ShapeHalves, SelectsThenCommand
  <1> HIDE DEF r
  <1>3. r \o Halves(id) = Append(Append(r, u), v)
    BY <1>0, <1>1, TwoUnits
  <1>4. Tracks(Append(r, u), open, d, e, db, from, D)
    BY <1>0, <1>1, TracksUnit
  <1>5. db # -1
    BY SizesAssumption DEF Dbs
  <1>6. Tracks(Append(Append(r, u), v), open, d2, e2, db, from, D)
    BY <1>1, <1>4, <1>5, TracksUnit, ZenonT(30)
  <1> QED BY <1>2, <1>3, <1>6

LEMMA TracksMulti ==
    ASSUME NEW s, NEW d, NEW selected, NEW from \in Nat, NEW D, Tracks(s, FALSE, d, d, selected, from, D), d \in D, NEW db \in Dbs
    PROVE  Tracks(s \o Fed(selected, db, <<[k |-> "multi"]>>), TRUE, d, d, db, from, D)
  <1> DEFINE u == [k |-> "multi"]
  <1>1. u \in Units /\ u.k = "multi"
    BY CommandUnits
  <1> HIDE DEF u
  <1>2. <<u>> \in Files
    BY <1>1, ShapeUnit DEF Shape
  <1> DEFINE r == Selects(s, selected, db)
  <1>3. s \in Files /\ r \in Files /\ Tracks(r, FALSE, d, d, db, from, D)
    BY TracksSelect
  <1>5. s \o Fed(selected, db, <<u>>) = r \o <<u>>
    BY <1>2, <1>3, SelectsThenCommand, ZenonT(30)
  <1> HIDE DEF r
  <1>4. Tracks(Append(r, u), TRUE, d, d, db, from, D) /\ Append(r, u) = r \o <<u>>
    BY <1>1, <1>3, TracksUnit, FilesFacts
  <1> QED BY <1>4, <1>5 DEF u

LEMMA TracksExec ==
    ASSUME NEW s, NEW d, NEW e, NEW selected, NEW from \in Nat, NEW D, Tracks(s, TRUE, d, e, selected, from, D), d \in D, e \in D, NEW db \in Dbs
    PROVE  Tracks(s \o Fed(selected, db, <<[k |-> "exec"]>>), FALSE, e, e, db, from, D)
  <1> DEFINE u == [k |-> "exec"]
  <1>1. u \in Units /\ u.k = "exec"
    BY CommandUnits
  <1> HIDE DEF u
  <1>2. <<u>> \in Files
    BY <1>1, ShapeUnit DEF Shape
  <1> DEFINE r == Selects(s, selected, db)
  <1>3. s \in Files /\ r \in Files /\ Tracks(r, TRUE, d, e, db, from, D)
    BY TracksSelect
  <1>5. s \o Fed(selected, db, <<u>>) = r \o <<u>>
    BY <1>2, <1>3, SelectsThenCommand, ZenonT(30)
  <1> HIDE DEF r
  <1>4. Tracks(Append(r, u), FALSE, e, e, db, from, D) /\ Append(r, u) = r \o <<u>>
    BY <1>1, <1>3, TracksUnit, FilesFacts
  <1> QED BY <1>4, <1>5 DEF u

LEMMA TracksFlush ==
    ASSUME NEW s, NEW d, NEW selected, NEW from \in Nat, NEW D, Tracks(s, FALSE, d, d, selected, from, D), d \in D, {} \in D, NEW db \in Dbs
    PROVE  Tracks(s \o Fed(selected, db, <<[k |-> "flush"]>>), FALSE, {}, {}, db, from, D)
  <1> DEFINE u == [k |-> "flush"]
  <1>1. u \in Units /\ u.k = "flush"
    BY CommandUnits
  <1> HIDE DEF u
  <1>2. <<u>> \in Files
    BY <1>1, ShapeUnit DEF Shape
  <1> DEFINE r == Selects(s, selected, db)
  <1>3. s \in Files /\ r \in Files /\ Tracks(r, FALSE, d, d, db, from, D)
    BY TracksSelect
  <1>5. s \o Fed(selected, db, <<u>>) = r \o <<u>>
    BY <1>2, <1>3, SelectsThenCommand, ZenonT(30)
  <1> HIDE DEF r
  <1>4. Tracks(Append(r, u), FALSE, {}, {}, db, from, D) /\ Append(r, u) = r \o <<u>>
    BY <1>1, <1>3, TracksUnit, FilesFacts
  <1> QED BY <1>4, <1>5 DEF u
---------------------------------------------------------------------------
(* What rewriteAppendOnlyFile writes *)

PER == REDIS_AOF_REWRITE_ITEMS_PER_CMD
Least(m, n) == IF m > n THEN n ELSE m
Push(ids, n) == [k |-> "push", ids |-> ids, n |-> n]
Rows(items, i, db) == {<<items[j], db>> : j \in 1..i}

\* A file of whole commands that gives e and leaves db selected.
Gives(s, e, db) == Shape(s) /\ Tracks(s, FALSE, e, e, db, 0, Data)

LEMMA PushGives ==
    ASSUME NEW s \in Files, NEW c, NEW e \in Data, NEW db \in Dbs, Gives(s \o c, e, db), c \in Files,
           NEW ids \in Seq(Nat), NEW n, n = Len(ids)
    PROVE  /\ Push(ids, n) \in Units /\ Append(c, Push(ids, n)) \in Files
           /\ Gives(s \o Append(c, Push(ids, n)), e \cup Rows(ids, Len(ids), db), db)
  <1> DEFINE u == Push(ids, n)
             e2 == e \cup Rows(ids, Len(ids), db)
  <1>1. u \in Units /\ u.k = "push" /\ u.ids = ids
    BY DEF Push, Units
  <1>2. DOMAIN ids = 1..Len(ids)
    BY LenProperties
  <1>3. e2 = e \cup {<<u.ids[i], db>> : i \in DOMAIN u.ids}
    BY <1>1, <1>2 DEF Rows
  <1>4. e2 \in Data
    BY <1>1, <1>3, PushedData
  <1> HIDE DEF u, e2
  <1>5. db # -1
    BY SizesAssumption DEF Dbs
  <1>6. Shape(s \o c) /\ s \o c \in Files /\ Tracks(s \o c, FALSE, e, e, db, 0, Data)
    BY DEF Gives, Shape
  <1>7. Tracks(Append(s \o c, u), FALSE, e2, e2, db, 0, Data)
    BY <1>1, <1>3, <1>4, <1>5, <1>6, TracksUnit
  <1>8. <<u>> \in Files /\ Shape(<<u>>)
    BY <1>1, ShapeUnit DEF Shape
  <1>9. Append(s \o c, u) = (s \o c) \o <<u>> /\ Append(c, u) = c \o <<u>> /\ Append(c, u) \in Files
    BY <1>1, <1>6, FilesFacts
  <1>10. (s \o c) \o <<u>> = s \o (c \o <<u>>)
    BY <1>8, FilesFacts
  <1>11. Shape((s \o c) \o <<u>>)
    BY <1>6, <1>8, ShapeConcat
  <1> QED BY <1>1, <1>7, <1>9, <1>10, <1>11 DEF Gives, u, e2

\* The command being written gets one more item.
LEMMA ReplaceLast ==
    ASSUME NEW c \in Files, NEW u, NEW v
    PROVE  Len(Append(c, u)) = Len(c) + 1 /\ Append(c, u)[Len(c) + 1] = u /\ [Append(c, u) EXCEPT ![Len(c) + 1] = v] = Append(c, v)
  <1> DEFINE S == Units \cup {u, v}
             n == Len(c) + 1
             d == Append(c, u)
             f == Append(c, v)
             g == [d EXCEPT ![n] = v]
  <1>1. c \in Seq(S) /\ u \in S /\ v \in S /\ Len(c) \in Nat
    BY FilesFacts, SeqMonotonic
  <1> HIDE DEF S
  <1>2. d \in Seq(S) /\ Len(d) = n /\ d[n] = u /\ \A i \in 1..Len(c) : d[i] = c[i]
    BY <1>1, AppendProperties
  <1>3. f \in Seq(S) /\ Len(f) = n /\ f[n] = v /\ \A i \in 1..Len(c) : f[i] = c[i]
    BY <1>1, AppendProperties
  <1>4. n \in 1..Len(d) /\ \A j \in 1..n : j = n \/ j \in 1..Len(c)
    BY <1>1, <1>2
  <1> HIDE DEF d, f, n
  <1>5. g \in Seq(S) /\ Len(g) = n /\ \A j \in 1..n : g[j] = IF j = n THEN v ELSE d[j]
    BY <1>1, <1>2, <1>4, ExceptSeq
  <1> HIDE DEF g
  <1>6. \A j \in 1..n : g[j] = f[j]
    BY <1>2, <1>3, <1>4, <1>5
  <1>7. g = f
    BY <1>3, <1>5, <1>6, SeqEqual
  <1> QED BY <1>2, <1>7 DEF d, f, g, n

LEMMA FirstItem ==
    ASSUME NEW acc, NEW c \in Files, NEW m \in Nat, NEW x \in Nat, acc.cmds = c, acc.count = 0, acc.items = m
    PROVE  RewriteItem(acc, x) =
             [cmds |-> Append(c, Push(<<x>>, Least(m, PER))), count |-> IF 1 = PER THEN 0 ELSE 1, items |-> m - 1]
  <1> DEFINE u == Push(<<>>, Least(m, PER))
             v == Push(<<x>>, Least(m, PER))
             d == Append(c, u)
  <1>1. [u EXCEPT !.ids = Append(@, x)] = v
    <2>1. Append(<<>>, x) = <<x>>
      OBVIOUS
    <2> QED BY <2>1 DEF Push
  <1>2. RewriteItem(acc, x) =
          [cmds |-> [d EXCEPT ![Len(d)].ids = Append(@, x)], count |-> IF 1 = PER THEN 0 ELSE 1, items |-> m - 1]
    BY DEF RewriteItem, PER, Push, Least
  <1> HIDE DEF u, v
  <1>3. Len(d) = Len(c) + 1 /\ d[Len(c) + 1] = u /\ [d EXCEPT ![Len(c) + 1] = v] = Append(c, v)
    BY ReplaceLast
  <1> HIDE DEF d
  <1>4. [d EXCEPT ![Len(d)].ids = Append(@, x)] = [d EXCEPT ![Len(c) + 1] = v]
    BY <1>1, <1>3
  <1> QED BY <1>2, <1>3, <1>4 DEF v

LEMMA NextItem ==
    ASSUME NEW acc, NEW c \in Files, NEW ids \in Seq(Nat), NEW n, NEW k \in Nat \ {0}, NEW m \in Nat, NEW x \in Nat,
           acc.cmds = Append(c, Push(ids, n)), acc.count = k, acc.items = m
    PROVE  RewriteItem(acc, x) =
             [cmds |-> Append(c, Push(Append(ids, x), n)), count |-> IF k + 1 = PER THEN 0 ELSE k + 1, items |-> m - 1]
  <1> DEFINE u == Push(ids, n)
             v == Push(Append(ids, x), n)
             d == Append(c, u)
  <1>1. [u EXCEPT !.ids = Append(@, x)] = v
    <2>1. u.ids = ids /\ \A q : [u EXCEPT !.ids = q] = Push(q, n)
      BY DEF Push
    <2> QED BY <2>1
  <1>2. RewriteItem(acc, x) =
          [cmds |-> [d EXCEPT ![Len(d)].ids = Append(@, x)], count |-> IF k + 1 = PER THEN 0 ELSE k + 1, items |-> m - 1]
    BY DEF RewriteItem, PER
  <1> HIDE DEF u, v
  <1>3. Len(d) = Len(c) + 1 /\ d[Len(c) + 1] = u /\ [d EXCEPT ![Len(c) + 1] = v] = Append(c, v)
    BY ReplaceLast
  <1> HIDE DEF d
  <1>4. [d EXCEPT ![Len(d)].ids = Append(@, x)] = [d EXCEPT ![Len(c) + 1] = v]
    BY <1>1, <1>3
  <1> QED BY <1>2, <1>3, <1>4 DEF v

LEMMA RowsAppend ==
    ASSUME NEW ids \in Seq(Nat), NEW x \in Nat, NEW db
    PROVE  Rows(Append(ids, x), Len(ids) + 1, db) = Rows(ids, Len(ids), db) \cup {<<x, db>>}
  <1>1. Len(ids) \in Nat /\ Append(ids, x)[Len(ids) + 1] = x /\ \A j \in 1..Len(ids) : Append(ids, x)[j] = ids[j]
    BY AppendProperties, LenProperties
  <1>2. \A n \in Nat : (\A j \in 1..(n + 1) : j = n + 1 \/ j \in 1..n) /\ (\A j \in 1..n : j \in 1..(n + 1)) /\ n + 1 \in 1..(n + 1)
    OBVIOUS
  <1>3. Rows(Append(ids, x), Len(ids) + 1, db) \subseteq Rows(ids, Len(ids), db) \cup {<<x, db>>}
    BY <1>1, <1>2 DEF Rows
  <1>4. Rows(ids, Len(ids), db) \cup {<<x, db>>} \subseteq Rows(Append(ids, x), Len(ids) + 1, db)
    BY <1>1, <1>2 DEF Rows
  <1> QED BY <1>3, <1>4

LEMMA FirstRow ==
    ASSUME NEW x \in Nat, NEW db
    PROVE  <<x>> \in Seq(Nat) /\ Len(<<x>>) = 1 /\ Rows(<<x>>, 1, db) = {<<x, db>>}
  <1>1. <<x>> \in Seq(Nat) /\ Len(<<x>>) = 1 /\ <<x>>[1] = x
    OBVIOUS
  <1>2. 1..1 = {1}
    OBVIOUS
  <1>3. Rows(<<x>>, 1, db) = {<<x, db>>}
    BY <1>1, <1>2 DEF Rows
  <1> QED BY <1>1, <1>3

\* Where the loop is, with m items left and E written: the command being written, if there is
\* one, has got as many items as were counted, and will have got as many as it announced.
Partial(acc, s, db, m, E) ==
    /\ acc.items = m /\ acc.count \in 0..(PER - 1)
    /\ acc.count = 0 => acc.cmds \in Files /\ Gives(s \o acc.cmds, E, db)
    /\ acc.count # 0 =>
         \E c \in Files, ids \in Seq(Nat), e \in Data :
           /\ acc.cmds = Append(c, Push(ids, Least(m + acc.count, PER))) /\ Len(ids) = acc.count
           /\ Gives(s \o c, e, db) /\ e \cup Rows(ids, Len(ids), db) = E

\* One more item in a command that had k.
LEMMA PartialPush ==
    ASSUME NEW s \in Files, NEW db \in Dbs, NEW m \in Nat \ {0}, NEW k \in Nat, k < PER, NEW c \in Files, NEW e \in Data, Gives(s \o c, e, db),
           NEW ids \in Seq(Nat), Len(ids) = k + 1, NEW acc, acc.items = m - 1, acc.count = (IF k + 1 = PER THEN 0 ELSE k + 1),
           acc.cmds = Append(c, Push(ids, Least(m + k, PER)))
    PROVE  Partial(acc, s, db, m - 1, e \cup Rows(ids, Len(ids), db))
  <1>1. PER \in Nat \ {0}
    BY SizesAssumption DEF PER
  <1>2. CASE k + 1 = PER
    <2>1. Least(m + k, PER) = Len(ids) /\ acc.count = 0 /\ acc.count \in 0..(PER - 1)
      BY <1>1, <1>2 DEF Least
    <2>2. acc.cmds \in Files /\ Gives(s \o acc.cmds, e \cup Rows(ids, Len(ids), db), db)
      BY <2>1, PushGives, ZenonT(30)
    <2> QED BY <2>1, <2>2 DEF Partial
  <1>3. CASE k + 1 # PER
    <2>1. acc.count = k + 1 /\ acc.count \in 0..(PER - 1) /\ acc.count # 0 /\ m - 1 + acc.count = m + k
      BY <1>1, <1>3
    <2> QED BY <2>1 DEF Partial
  <1> QED BY <1>2, <1>3

LEMMA PartialStep ==
    ASSUME NEW s \in Files, NEW db \in Dbs, NEW m \in Nat \ {0}, NEW E \in Data, NEW acc, Partial(acc, s, db, m, E), NEW x \in Nat
    PROVE  Partial(RewriteItem(acc, x), s, db, m - 1, E \cup {<<x, db>>})
  <1>1. PER \in Nat \ {0} /\ acc.items = m /\ acc.count \in Nat /\ acc.count < PER
    BY SizesAssumption DEF PER, Partial
  <1>2. CASE acc.count = 0
    <2> DEFINE c == acc.cmds
    <2>1. c \in Files /\ Gives(s \o c, E, db)
      BY <1>2 DEF Partial
    <2> HIDE DEF c
    <2>2. RewriteItem(acc, x) = [cmds |-> Append(c, Push(<<x>>, Least(m, PER))), count |-> IF 1 = PER THEN 0 ELSE 1, items |-> m - 1]
      BY <1>1, <1>2, <2>1, FirstItem DEF c
    <2>3. <<x>> \in Seq(Nat) /\ Len(<<x>>) = 1 /\ Rows(<<x>>, Len(<<x>>), db) = {<<x, db>>}
      BY FirstRow
    <2>4. ASSUME NEW new, new = RewriteItem(acc, x) PROVE Partial(new, s, db, m - 1, E \cup Rows(<<x>>, Len(<<x>>), db))
      <3>1. new.items = m - 1 /\ new.count = (IF 0 + 1 = PER THEN 0 ELSE 0 + 1) /\ new.cmds = Append(c, Push(<<x>>, Least(m + 0, PER)))
        BY <2>2, <2>4
      <3>2. 0 \in Nat /\ 0 < PER /\ Len(<<x>>) = 0 + 1
        BY <1>1, <2>3
      <3> QED BY <2>1, <2>3, <3>1, <3>2, PartialPush
    <2> QED BY <2>3, <2>4
  <1>3. CASE acc.count # 0
    <2>1. PICK c \in Files, ids \in Seq(Nat), e \in Data :
             /\ acc.cmds = Append(c, Push(ids, Least(m + acc.count, PER))) /\ Len(ids) = acc.count
             /\ Gives(s \o c, e, db) /\ e \cup Rows(ids, Len(ids), db) = E
      BY <1>3 DEF Partial
    <2>2. PICK k \in Nat \ {0} : k = acc.count /\ k < PER
      BY <1>1, <1>3
    <2> DEFINE ids2 == Append(ids, x)
    <2>3. RewriteItem(acc, x) = [cmds |-> Append(c, Push(ids2, Least(m + k, PER))), count |-> IF k + 1 = PER THEN 0 ELSE k + 1, items |-> m - 1]
      <3>1. PICK n : n = Least(m + k, PER)
        OBVIOUS
      <3>2. acc.cmds = Append(c, Push(ids, n)) /\ acc.count = k /\ acc.items = m
        BY <1>1, <2>1, <2>2, <3>1
      <3>3. RewriteItem(acc, x) = [cmds |-> Append(c, Push(ids2, n)), count |-> IF k + 1 = PER THEN 0 ELSE k + 1, items |-> m - 1]
        BY ONLY <3>2, NextItem
      <3> QED BY <3>1, <3>3
    <2>4. ids2 \in Seq(Nat) /\ Len(ids2) = k + 1
      BY <2>1, <2>2, AppendProperties
    <2>5. Rows(ids2, Len(ids2), db) = Rows(ids, Len(ids), db) \cup {<<x, db>>}
      <3>1. Rows(ids2, Len(ids) + 1, db) = Rows(ids, Len(ids), db) \cup {<<x, db>>}
        BY RowsAppend
      <3> QED BY <2>1, <2>2, <2>4, <3>1
    <2> HIDE DEF ids2
    <2>6. ASSUME NEW new, new = RewriteItem(acc, x) PROVE Partial(new, s, db, m - 1, e \cup Rows(ids2, Len(ids2), db))
      <3>1. new.items = m - 1 /\ new.count = (IF k + 1 = PER THEN 0 ELSE k + 1) /\ new.cmds = Append(c, Push(ids2, Least(m + k, PER)))
        BY <2>3, <2>6
      <3> QED BY <2>1, <2>2, <2>4, <3>1, PartialPush
    <2>7. e \cup Rows(ids2, Len(ids2), db) = E \cup {<<x, db>>}
      BY <2>1, <2>5
    <2> QED BY <2>6, <2>7
  <1> QED BY <1>2, <1>3

LEMMA RowsStep ==
    ASSUME NEW items, NEW i \in Nat \ {0}, NEW db
    PROVE  Rows(items, i, db) = Rows(items, i - 1, db) \cup {<<items[i], db>>}
  <1>1. \A j \in 1..i : j = i \/ j \in 1..(i - 1)
    OBVIOUS
  <1>2. (\A j \in 1..(i - 1) : j \in 1..i) /\ i \in 1..i
    OBVIOUS
  <1> QED BY <1>1, <1>2 DEF Rows

LEMMA ItemsGive ==
    ASSUME NEW s \in Files, NEW db \in Dbs, NEW e \in Data, Gives(s, e, db), NEW items \in Seq(Nat)
    PROVE  rewriteListObject(items) \in Files /\ Gives(s \o rewriteListObject(items), e \cup Rows(items, Len(items), db), db)
  <1>0. PICK n \in Nat : n = Len(items)
    BY LenProperties
  <1>1. PICK f : ItemLoop(f, items, n) /\ rewriteListObject(items) = f[n].cmds
    <2> DEFINE g == CHOOSE f : ItemLoop(f, items, n)
    <2>1. ItemLoop(g, items, n)
      BY ItemLoopExists
    <2>2. rewriteListObject(items) = g[n].cmds
      BY <1>0 DEF rewriteListObject, ItemLoop
    <2> QED BY <2>1, <2>2
  <1>2. \A i \in 0..n : f[i] = IF i = 0 THEN [cmds |-> <<>>, count |-> 0, items |-> Len(items)] ELSE RewriteItem(f[i - 1], items[i])
    BY <1>1 DEF ItemLoop
  <1> DEFINE E(i) == e \cup Rows(items, i, db)
             G == {i \in 0..n : E(i) \in Data /\ Partial(f[i], s, db, n - i, E(i))}
  <1>3. 0 \in G
    <2>1. f[0] = [cmds |-> <<>>, count |-> 0, items |-> n]
      BY <1>0, <1>2
    <2>2. E(0) = e
      BY DEF Rows
    <2>3. <<>> \in Files /\ s \o <<>> = s
      BY FilesFacts
    <2>4. f[0].items = n - 0 /\ f[0].count = 0 /\ f[0].cmds = <<>> /\ 0 \in 0..(PER - 1)
      BY <2>1, SizesAssumption DEF PER
    <2>5. Partial(f[0], s, db, n - 0, e)
      BY <2>3, <2>4 DEF Partial
    <2>6. E(0) \in Data /\ Partial(f[0], s, db, n - 0, E(0))
      BY <2>2, <2>5, Zenon
    <2> HIDE DEF E
    <2> QED BY <2>6
  <1>4. ASSUME NEW i \in 1..n, i - 1 \in G PROVE i \in G
    <2>1. E(i - 1) \in Data /\ Partial(f[i - 1], s, db, n - (i - 1), E(i - 1))
      BY <1>4
    <2>2. PICK m \in Nat \ {0} : m = n - (i - 1) /\ m - 1 = n - i
      BY <1>4
    <2>3. PICK x \in Nat : x = items[i]
      BY <1>0, ElementOfSeq
    <2>4. i \in Nat \ {0} /\ f[i] = RewriteItem(f[i - 1], x)
      BY <1>2, <2>3
    <2>5. E(i) = E(i - 1) \cup {<<x, db>>}
      BY <2>3, <2>4, RowsStep
    <2>6. E(i) \in Data
      BY <2>1, <2>5, DataFacts
    <2> HIDE DEF E
    <2>7. Partial(RewriteItem(f[i - 1], x), s, db, m - 1, E(i - 1) \cup {<<x, db>>})
      BY <2>1, <2>2, PartialStep
    <2>8. i \in 0..n /\ Partial(f[i], s, db, n - i, E(i))
      BY <2>2, <2>4, <2>5, <2>7
    <2> QED BY <2>6, <2>8
  <1> HIDE DEF G
  <1>5. 0..n \subseteq G
    BY <1>3, <1>4, IntervalInduction
  <1>6. E(n) \in Data /\ Partial(f[n], s, db, 0, E(n))
    <2>1. n \in 0..n /\ n - n = 0
      OBVIOUS
    <2> QED BY <1>5, <2>1 DEF G
  <1> HIDE DEF E
  <1>7. f[n].cmds \in Files /\ Gives(s \o f[n].cmds, E(n), db)
    <2>1. CASE f[n].count = 0
      BY <1>6, <2>1 DEF Partial
    <2>2. CASE f[n].count # 0
      <3>1. PICK c \in Files, ids \in Seq(Nat), e2 \in Data :
               /\ f[n].cmds = Append(c, Push(ids, Least(0 + f[n].count, PER))) /\ Len(ids) = f[n].count
               /\ Gives(s \o c, e2, db) /\ e2 \cup Rows(ids, Len(ids), db) = E(n)
        BY <1>6, <2>2 DEF Partial
      <3>2. Least(0 + f[n].count, PER) = Len(ids)
        <4>1. f[n].count \in 0..(PER - 1) /\ PER \in Nat
          BY <1>6, SizesAssumption DEF Partial, PER
        <4> QED BY <3>1, <4>1 DEF Least
      <3>3. PICK k : k = Len(ids)
        OBVIOUS
      <3>4. Append(c, Push(ids, k)) \in Files /\ Gives(s \o Append(c, Push(ids, k)), e2 \cup Rows(ids, Len(ids), db), db)
        BY <3>1, <3>3, PushGives
      <3> QED BY <3>1, <3>2, <3>3, <3>4
    <2> QED BY <2>1, <2>2
  <1> QED BY <1>0, <1>1, <1>7 DEF E

\* Every element of a finite set of numbers is in the sequence.
LEMMA SetToSeqFacts ==
    ASSUME NEW S \in SUBSET Nat, IsFiniteSet(S), NEW db
    PROVE  SetToSeq(S) \in Seq(Nat) /\ Rows(SetToSeq(S), Len(SetToSeq(S)), db) = {<<x, db>> : x \in S}
  <1> DEFINE n == Cardinality(S)
             f == SetToSeq(S)
  <1>1. n \in Nat /\ ExistsBijection(1..n, S)
    BY FS_CardinalityType
  <1>2. \E g \in [1..n -> S] : IsInjective(g)
    <2>1. PICK g : g \in Bijection(1..n, S)
      BY <1>1 DEF ExistsBijection
    <2>2. g \in [1..n -> S] /\ \A a, b \in 1..n : g[a] = g[b] => a = b
      BY <2>1 DEF Bijection, Injection, IsInjective
    <2> QED BY <2>2 DEF IsInjective
  <1>3. f \in [1..n -> S] /\ IsInjective(f)
    BY <1>2 DEF SetToSeq
  <1> HIDE DEF f
  <1>4. f \in Injection(1..n, S)
    BY <1>3 DEF Injection
  <1>5. Cardinality(1..n) = n
    BY <1>1, FS_Interval
  <1>6. f \in Surjection(1..n, S)
    BY <1>4, <1>5, FS_Injection
  <1>7. \A x \in S : \E i \in 1..n : f[i] = x
    BY <1>6 DEF Surjection
  <1> HIDE DEF n
  <1>8. f \in Seq(Nat) /\ Len(f) = n
    <2>1. f \in [1..n -> Nat]
      BY <1>3
    <2>2. f \in Seq(Nat)
      BY <1>1, <2>1
    <2> QED BY <1>1, <2>1, <2>2, LenProperties
  <1>9. {<<x, db>> : x \in S} = {<<f[i], db>> : i \in 1..n}
    BY <1>3, <1>7
  <1> QED BY <1>8, <1>9 DEF Rows, f

LEMMA GivesAny ==
    ASSUME NEW s, NEW e, NEW db, Gives(s, e, db)
    PROVE  Gives(s, e, -1)
  <1>1. s \in Files /\ Holds(s, FALSE, e, e, db)
    BY DEF Gives, Tracks
  <1>2. Holds(s, FALSE, e, e, -1)
    BY <1>1, HoldsClosed
  <1> QED BY <1>2 DEF Gives, Tracks

\* One database.
LEMMA DbGives ==
    ASSUME NEW data \in Data, NEW s, NEW e \in Data, NEW db \in Dbs, Gives(s, e, -1)
    PROVE  Gives(s \o RewriteDb(data, db), e \cup {x \in data : x[2] = db}, -1)
  <1> DEFINE D == {x \in data : x[2] = db}
             ids == {x[1] : x \in D}
  <1>1. IsFiniteSet(ids) /\ ids \in SUBSET Nat
    <2>1. IsFiniteSet(D)
      BY FS_Subset DEF Data
    <2>2. IsFiniteSet(ids)
      <3> DEFINE f == [x \in D |-> x[1]]
      <3>1. f \in Surjection(D, ids)
        BY DEF Surjection
      <3> HIDE DEF D, ids, f
      <3> QED BY <2>1, <3>1, FS_Surjection
    <2> QED BY <2>2 DEF Data
  <1>2. {<<x, db>> : x \in ids} = D
    BY DEF Data
  <1>3. RewriteDb(data, db) = IF ids = {} THEN <<>> ELSE <<Sel(db)>> \o rewriteListObject(SetToSeq(ids))
    BY DEF RewriteDb
  <1>4. ids = {} <=> D = {}
    OBVIOUS
  <1>5. Shape(s) /\ s \in Files /\ Tracks(s, FALSE, e, e, -1, 0, Data)
    BY DEF Gives, Shape
  <1> HIDE DEF D, ids
  <1>6. CASE ids = {}
    <2>1. s \o RewriteDb(data, db) = s
      BY <1>3, <1>5, <1>6, FilesFacts
    <2>2. e \cup D = e
      BY <1>4, <1>6
    <2> QED BY <2>1, <2>2, Zenon DEF D
  <1>7. CASE ids # {}
    <2> DEFINE items == SetToSeq(ids)
               r == Append(s, Sel(db))
    <2>1. items \in Seq(Nat) /\ Rows(items, Len(items), db) = D
      BY <1>1, <1>2, SetToSeqFacts
    <2>2. Sel(db) \in Units /\ Sel(db).k = "sel" /\ Sel(db).db = db
      BY CommandUnits
    <2>3. r \in Files /\ r = s \o <<Sel(db)>> /\ <<Sel(db)>> \in Files /\ Shape(<<Sel(db)>>)
      BY <1>5, <2>2, FilesFacts, ShapeUnit DEF Shape
    <2>4. Gives(r, e, db)
      <3>1. Shape(r)
        BY <1>5, <2>3, ShapeConcat
      <3>2. Tracks(r, FALSE, e, e, db, 0, Data)
        BY <1>5, <2>2, TracksUnit
      <3> QED BY <3>1, <3>2 DEF Gives
    <2> HIDE DEF items, r
    <2>5. rewriteListObject(items) \in Files /\ Gives(r \o rewriteListObject(items), e \cup Rows(items, Len(items), db), db)
      BY <2>1, <2>3, <2>4, ItemsGive
    <2>6. s \o RewriteDb(data, db) = s \o (<<Sel(db)>> \o rewriteListObject(items))
      BY <1>3, <1>7 DEF items
    <2>7. (s \o <<Sel(db)>>) \o rewriteListObject(items) = s \o (<<Sel(db)>> \o rewriteListObject(items))
      BY <1>5, <2>3, <2>5, FilesFacts, SMTT(30)
    <2>8. Gives(r \o rewriteListObject(items), e \cup Rows(items, Len(items), db), -1)
      BY <2>5, GivesAny
    <2>9. r \o rewriteListObject(items) = s \o RewriteDb(data, db)
      BY <2>3, <2>6, <2>7
    <2>10. Gives(s \o RewriteDb(data, db), e \cup D, -1)
      BY <2>1, <2>8, <2>9, Zenon
    <2> QED BY <2>10 DEF D
  <1> QED BY <1>6, <1>7

\* The file a child writes for the data it has, whatever they are and in whatever order it
\* finds them, is made of whole commands, every one with as many items as it announces, and
\* loading it gives the data back; so does every part of it give some of the data.
THEOREM RewriteLoads ==
    ASSUME NEW data \in Data
    PROVE  /\ Shape(rewriteAppendOnlyFile(data))
           /\ loadAppendOnlyFile(rewriteAppendOnlyFile(data)).data = data
           /\ ~loadAppendOnlyFile(rewriteAppendOnlyFile(data)).bad
           /\ Gives(rewriteAppendOnlyFile(data), data, -1)
  <1>1. PICK f : DbLoop(f, data, dbnum) /\ rewriteAppendOnlyFile(data) = f[dbnum]
    <2> DEFINE g == CHOOSE f : DbLoop(f, data, dbnum)
    <2>1. DbLoop(g, data, dbnum)
      BY DbLoopExists, SizesAssumption
    <2>2. rewriteAppendOnlyFile(data) = g[dbnum]
      BY DEF rewriteAppendOnlyFile, DbLoop
    <2> QED BY <2>1, <2>2
  <1>2. \A i \in 0..dbnum : f[i] = IF i = 0 THEN <<>> ELSE f[i - 1] \o RewriteDb(data, i - 1)
    BY <1>1 DEF DbLoop
  <1>3. dbnum \in Nat
    BY SizesAssumption
  <1> DEFINE E(i) == {x \in data : x[2] < i}
             G == {i \in 0..dbnum : Gives(f[i], E(i), -1)}
  <1>4. \A i \in 0..dbnum : E(i) \in Data
    BY FS_Subset DEF Data
  <1>5. 0 \in G
    <2>1. E(0) = {}
      BY DEF Data, Dbs
    <2>2. f[0] = <<>>
      BY <1>2, <1>3
    <2>3. Gives(<<>>, {}, -1)
      <3>1. loadAppendOnlyFile(<<>>) = EmptyLoad
        BY LoadFacts
      <3>2. EmptyLoad.data = {} /\ EmptyLoad.open = FALSE /\ EmptyLoad.queue = <<>>
        BY DEF EmptyLoad
      <3>3. EmptyLoad \in Loaded
        BY <3>1, FilesFacts, LoadTyped
      <3>4. Executes(EmptyLoad).data = {}
        BY <3>2, <3>3, ExecutesFacts DEF Alike
      <3>5. Holds(<<>>, FALSE, {}, {}, -1)
        BY <3>1, <3>2, <3>4 DEF Holds
      <3>6. Near(<<>>, Len(<<>>), Data)
        BY <3>1, <3>2, FilesFacts, DataFacts, NearAll
      <3>7. Len(<<>>) = 0
        OBVIOUS
      <3> QED BY <3>5, <3>6, <3>7, ShapeEmpty, FilesFacts DEF Gives, Tracks
    <2>4. Gives(f[0], E(0), -1)
      BY <2>1, <2>2, <2>3, Zenon
    <2> HIDE DEF E
    <2> QED BY <1>3, <2>4
  <1>6. ASSUME NEW i \in 1..dbnum, i - 1 \in G PROVE i \in G
    <2>1. i - 1 \in Dbs /\ i \in 0..dbnum /\ i - 1 \in 0..dbnum /\ i # 0
      BY <1>3 DEF Dbs
    <2>2. E(i - 1) \in Data /\ Gives(f[i - 1], E(i - 1), -1)
      BY <1>4, <1>6, <2>1
    <2>3. f[i] = f[i - 1] \o RewriteDb(data, i - 1)
      BY <1>2, <2>1
    <2>4. E(i - 1) \cup {x \in data : x[2] = i - 1} = E(i)
      <3>1. \A x \in data : x[2] \in Int
        BY DEF Data, Dbs
      <3>2. \A x \in data : x[2] < i <=> x[2] < i - 1 \/ x[2] = i - 1
        BY <3>1
      <3> QED BY <3>2
    <2>5. PICK db \in Dbs : db = i - 1
      BY <2>1
    <2>6. PICK e \in Data : e = E(i - 1)
      BY <2>2
    <2>7. Gives(f[i - 1], e, -1)
      BY <2>2, <2>6, Zenon
    <2>8. Gives(f[i - 1] \o RewriteDb(data, db), e \cup {x \in data : x[2] = db}, -1)
      BY <2>7, DbGives
    <2>9. Gives(f[i], E(i), -1)
      BY <2>3, <2>4, <2>5, <2>6, <2>8, Zenon
    <2> HIDE DEF E
    <2> QED BY <2>1, <2>9
  <1> HIDE DEF G
  <1>7. 0..dbnum \subseteq G
    BY <1>3, <1>5, <1>6, IntervalInduction
  <1>8. Gives(f[dbnum], E(dbnum), -1)
    <2>1. dbnum \in G
      BY <1>3, <1>7
    <2> HIDE DEF E
    <2> QED BY <2>1 DEF G
  <1>9. E(dbnum) = data
    BY <1>3 DEF Data, Dbs
  <1>10. Gives(rewriteAppendOnlyFile(data), data, -1)
    BY <1>1, <1>8, <1>9, Zenon
  <1>11. Shape(rewriteAppendOnlyFile(data)) /\ Holds(rewriteAppendOnlyFile(data), FALSE, data, data, -1)
    BY <1>10 DEF Gives, Tracks
  <1>12. ~loadAppendOnlyFile(rewriteAppendOnlyFile(data)).bad
    BY <1>11, LoadWellFormed DEF Shape
  <1> QED BY <1>10, <1>11, <1>12 DEF Holds

---------------------------------------------------------------------------
(***************************************************************************)
(* The append only file: the file and its buffer, and the file of a        *)
(* rewriting child with what it was and will be sent, always load to the   *)
(* data; and what a loss of power leaves of the file loads to the data     *)
(* after some command.                                                     *)
(*                                                                         *)
(* The invariant is about the file and the buffer together, the Stream,    *)
(* and about what the child has, is being sent and will be sent together,  *)
(* the Content, since the steps between only move the border.              *)
(***************************************************************************)

---------------------------------------------------------------------------
(* The invariant *)

Stream(w) == w.disk.units \o w.srv.aof_buf
Content(c) == rewriteAppendOnlyFile(c.base) \o c.diff \o c.pipe \o c.blocks

Children ==
    [st : {"run", "asked", "acked", "ok", "err"}, base : Data, diff : Files, pipe : Files, blocks : Files, stop : BOOLEAN]
Alive(c) == c # NoChild /\ c.st \notin {"err", "sig"}

\* What is sent after the child was told to stop stays with the server.
Ending(c) == (c.st = "ok" => c.pipe = <<>>) /\ (c.st \in {"acked", "ok"} => c.stop)
ChildFile(c) == c # NoChild => c \in Children /\ Shape(Content(c)) /\ Ending(c)

\* Only a file that is written or will be loaded has to be one of whole commands: what is
\* left of the file of a server that starts from its snapshot may be torn.
FileOK(w) ==
    /\ IsWorld(w) /\ w.srv.up \in BOOLEAN /\ w.srv.aof_state \in {"OFF", "WAIT_REWRITE", "ON"}
    /\ w.srv.aof_buf \in Files /\ w.disk.units \in Files /\ w.disk.synced \in 0..Len(w.disk.units)
    /\ w.srv.data \in Data /\ w.srv.aof_selected_db \in Dbs \cup {-1}
    /\ w.srv.appendonly \/ w.srv.aof_state = "ON" => Shape(Stream(w))
    /\ ChildFile(w.rw)

StateOK(w) ==
    /\ w.srv.aof_state # "OFF" => w.srv.aof_fd = "open"
    /\ w.srv.aof_state = "WAIT_REWRITE" => w.rw # NoChild \/ w.srv.aof_rewrite_scheduled

Written(w) == w.srv.aof_state = "ON" /\ ~w.srv.open
Rewritten(w) == w.srv.aof_state # "OFF" /\ Alive(w.rw)

\* What the commands so far have made of the two files.
Log(w, open, d, e) ==
    /\ Written(w) => Holds(Stream(w), open, d, e, w.srv.aof_selected_db)
    /\ Rewritten(w) => Holds(Content(w.rw), open, d, e, w.srv.aof_selected_db)

\* P: the data after the commands since the start; A: after those not answered yet and the
\* last one that was, with "always".
Kept(w, P, A) ==
    /\ Written(w) => Near(Stream(w), w.disk.synced, A)
    /\ Rewritten(w) => Near(Content(w.rw), Len(rewriteAppendOnlyFile(w.rw.base)), P)
    /\ w.srv.up /\ w.srv.aof_state = "ON" /\ w.srv.appendfsync = "always" => w.disk.synced = Len(w.disk.units)
    /\ A \subseteq P /\ (w.srv.appendfsync # "always" => A = P)

Follows(w) == w.srv.up => Log(w, FALSE, w.srv.data, w.srv.data)

\* No more changes are counted as saved than were counted; the snapshots are data.
CountOK(w) ==
    /\ w.srv.dirty \in Nat /\ w.srv.dirty_before_bgsave \in Nat
    /\ w.rdbc # NoChild => (w.rdbc.st \in {"run", "ok"} => w.srv.dirty_before_bgsave <= w.srv.dirty) /\ w.rdbc.data \in Data
    /\ w.disk.rdb \in Data

\* While commands are under way, and between them.
Busy(w, P, A) == FileOK(w) /\ StateOK(w) /\ Kept(w, P, A) /\ CountOK(w)
Right(w, P, A) == Busy(w, P, A) /\ Follows(w) /\ w.srv.data \in A

\* The data after the commands from this one on.
After(past, from) == {past[i] : i \in {j \in 1..Len(past) : j >= from}}

Past == After(hist.past, 0)
Answered == After(hist.past, IF srv.appendfsync = "always" THEN hist.acked ELSE 0)

HistOK ==
    /\ DOMAIN hist = {"past", "acked", "pending"} /\ hist.past \in Seq(Data) /\ hist.acked \in 0..Len(hist.past)
    /\ Len(hist.past) > 0 /\ hist.past[Len(hist.past)] = srv.data

LeftOK == "writes" \in DOMAIN left /\ left.writes \in Nat

AppendInv == Right(World, Past, Answered) /\ HistOK /\ LeftOK

---------------------------------------------------------------------------
(* Writing the buffer *)

\* The same as far as the append only file is concerned.
SameFile(v, w) ==
    /\ v.rw = w.rw /\ v.disk.units = w.disk.units /\ v.disk.synced = w.disk.synced
    /\ v.srv.up = w.srv.up /\ v.srv.aof_state = w.srv.aof_state /\ v.srv.aof_fd = w.srv.aof_fd /\ v.srv.aof_buf = w.srv.aof_buf
    /\ v.srv.aof_selected_db = w.srv.aof_selected_db /\ v.srv.aof_rewrite_scheduled = w.srv.aof_rewrite_scheduled
    /\ v.srv.appendfsync = w.srv.appendfsync /\ v.srv.appendonly = w.srv.appendonly /\ v.srv.open = w.srv.open

LEMMA SameFileRight ==
    ASSUME NEW v, NEW w, NEW P, NEW A, Right(w, P, A), IsWorld(v), SameFile(v, w), v.srv.data = w.srv.data, CountOK(v)
    PROVE  Right(v, P, A)
  <1>1. Stream(v) = Stream(w)
    BY DEF Stream, SameFile
  <1>2. FileOK(v)
    BY <1>1 DEF Right, Busy, FileOK, SameFile
  <1>3. StateOK(v) /\ Kept(v, P, A)
    BY <1>1 DEF Right, Busy, StateOK, Kept, SameFile, Written, Rewritten
  <1>4. Follows(v)
    BY <1>1 DEF Right, Follows, Log, SameFile, Written, Rewritten
  <1> QED BY <1>2, <1>3, <1>4 DEF Right, Busy

\* v is w after a flush: the border has moved, what was written may be synced.
Flushed(v, w) ==
    /\ IsWorld(v) /\ SameSave(v, w) /\ v.rw = w.rw /\ v.disk.units \in Files /\ v.srv.aof_buf \in Files /\ Stream(v) = Stream(w)
    /\ v.srv.aof_state = w.srv.aof_state /\ v.srv.aof_fd = w.srv.aof_fd /\ v.srv.aof_selected_db = w.srv.aof_selected_db
    /\ v.srv.aof_rewrite_scheduled = w.srv.aof_rewrite_scheduled /\ v.srv.appendfsync = w.srv.appendfsync /\ v.srv.open = w.srv.open
    /\ Len(w.disk.units) <= Len(v.disk.units) /\ v.disk.synced \in {w.disk.synced, Len(v.disk.units)}
    /\ v.srv.up \in BOOLEAN /\ (v.srv.up => w.srv.up)
    /\ w.srv.appendfsync = "always" /\ v.srv.up =>
         v.srv.aof_buf = <<>> /\ (v.disk.synced = Len(v.disk.units) \/ v.disk = w.disk)

LEMMA SplitFile ==
    ASSUME NEW buf \in Files, NEW n \in 0..Len(buf)
    PROVE  /\ SubSeq(buf, 1, n) \in Files /\ SubSeq(buf, n + 1, Len(buf)) \in Files
           /\ SubSeq(buf, 1, n) \o SubSeq(buf, n + 1, Len(buf)) = buf
           /\ Len(SubSeq(buf, 1, n)) = n /\ Len(SubSeq(buf, n + 1, Len(buf))) = Len(buf) - n
           /\ n = Len(buf) => SubSeq(buf, n + 1, Len(buf)) = <<>>
  <1>1. buf \in Seq(Units) /\ Len(buf) \in Nat /\ n \in Nat /\ n <= Len(buf)
    BY FilesFacts
  <1>2. /\ SubSeq(buf, 1, n) \in Seq(Units) /\ Len(SubSeq(buf, 1, n)) = n
        /\ SubSeq(buf, n + 1, Len(buf)) \in Seq(Units) /\ Len(SubSeq(buf, n + 1, Len(buf))) = Len(buf) - n
    BY <1>1, SubSeqProperties, ElementOfSeq
  <1>3. n = Len(buf) => SubSeq(buf, n + 1, Len(buf)) = <<>>
    BY <1>1, SubSeqEmpty
  <1>4. SubSeq(buf, 1, n) \o SubSeq(buf, n + 1, Len(buf)) = buf
    <2>0. 1 \in 1..(Len(buf) + 1) /\ n \in (1 - 1)..Len(buf) /\ Len(buf) \in n..Len(buf)
      BY <1>1
    <2>1. SubSeq(buf, 1, n) \o SubSeq(buf, n + 1, Len(buf)) = SubSeq(buf, 1, Len(buf))
      BY <1>1, <2>0, ConcatAdjacentSubSeq
    <2> QED BY <1>1, <2>1, SubSeqFull
  <1> QED BY <1>2, <1>3, <1>4 DEF Files

\* After everything was written.
Synced(v, w) ==
    /\ v.rw = w.rw /\ v.disk.units = w.disk.units /\ v.disk.synced \in {w.disk.synced, Len(w.disk.units)}
    /\ v.srv.up = w.srv.up /\ v.srv.aof_state = w.srv.aof_state /\ v.srv.aof_fd = w.srv.aof_fd
    /\ v.srv.aof_buf = w.srv.aof_buf /\ v.srv.aof_selected_db = w.srv.aof_selected_db
    /\ v.srv.aof_rewrite_scheduled = w.srv.aof_rewrite_scheduled /\ v.srv.appendfsync = w.srv.appendfsync
    /\ v.srv.open = w.srv.open /\ v.srv.aof_last_write_status = w.srv.aof_last_write_status
    /\ w.srv.appendfsync = "always" => v.disk.synced = Len(w.disk.units)

LEMMA AfterWriteFile ==
    ASSUME NEW w, IsWorld(w), NEW syncing
    PROVE  Synced(AfterWrite(w, syncing), w)
  BY DEF IsWorld, AfterWrite, aof_fsync, aof_background_fsync, ServerFields, Synced

LEMMA WriteBufFlushed ==
    ASSUME NEW w, FileOK(w), NEW n \in 0..Len(w.srv.aof_buf), NEW syncing, NEW v, v = WriteBuf(w, n, syncing)
    PROVE  /\ Flushed(v, w)
           /\ v.srv.aof_last_write_status = "OK" \/ (n # Len(w.srv.aof_buf) /\ Len(v.srv.aof_buf) = Len(w.srv.aof_buf) - n)
  <1> DEFINE buf == w.srv.aof_buf
             wrote == [w EXCEPT !.disk.units = @ \o SubSeq(buf, 1, n), !.srv.aof_buf = SubSeq(buf, n + 1, Len(buf)),
                                !.srv.aof_flush_postponed_start = 0]
             good == [wrote EXCEPT !.srv.aof_last_write_status = "OK"]
             down == [wrote EXCEPT !.srv.up = FALSE]
             bad == [wrote EXCEPT !.srv.aof_last_write_status = "ERR"]
             part == SubSeq(buf, 1, n)
             rest == SubSeq(buf, n + 1, Len(buf))
  <1>1. IsWorld(w) /\ w.srv.up \in BOOLEAN /\ buf \in Files /\ w.disk.units \in Files /\ Len(buf) \in Nat /\ Len(w.disk.units) \in Nat
    BY FilesFacts DEF FileOK
  <1>2. IsWorld(v) /\ SameSave(v, w)
    BY <1>1, WriteBufSame
  <1>3. part \in Files /\ rest \in Files /\ part \o rest = buf /\ Len(part) = n /\ Len(rest) = Len(buf) - n /\ (n = Len(buf) => rest = <<>>)
    BY <1>1, SplitFile
  <1> HIDE DEF part, rest
  <1>4. w.disk.units \o part \in Files /\ Len(w.disk.units \o part) = Len(w.disk.units) + n
    BY <1>1, <1>3, FilesFacts
  <1>5. (w.disk.units \o part) \o rest = w.disk.units \o buf
    <2>1. (w.disk.units \o part) \o rest = w.disk.units \o (part \o rest)
      BY <1>1, <1>3, FilesFacts, ZenonT(30)
    <2> QED BY <1>3, <2>1
  <1>6. /\ IsWorld(wrote) /\ wrote.rw = w.rw /\ wrote.disk.units = w.disk.units \o part /\ wrote.srv.aof_buf = rest
        /\ wrote.disk.synced = w.disk.synced
        /\ wrote.srv.up = w.srv.up /\ wrote.srv.aof_state = w.srv.aof_state /\ wrote.srv.aof_fd = w.srv.aof_fd
        /\ wrote.srv.aof_selected_db = w.srv.aof_selected_db /\ wrote.srv.aof_rewrite_scheduled = w.srv.aof_rewrite_scheduled
        /\ wrote.srv.appendfsync = w.srv.appendfsync /\ wrote.srv.open = w.srv.open
    BY <1>1 DEF IsWorld, ServerFields, part, rest
  <1>7. v = IF n = Len(buf) THEN AfterWrite(good, syncing) ELSE IF w.srv.appendfsync = "always" THEN down ELSE bad
    BY DEF WriteBuf
  <1> HIDE DEF wrote
  <1> DEFINE Wrote(x) == /\ x.rw = w.rw /\ x.disk.units = w.disk.units \o part /\ x.srv.aof_buf = rest
                         /\ x.srv.aof_state = w.srv.aof_state /\ x.srv.aof_fd = w.srv.aof_fd
                         /\ x.srv.aof_selected_db = w.srv.aof_selected_db /\ x.srv.aof_rewrite_scheduled = w.srv.aof_rewrite_scheduled
                         /\ x.srv.appendfsync = w.srv.appendfsync /\ x.srv.open = w.srv.open
                         /\ x.disk.synced \in {w.disk.synced, Len(w.disk.units \o part)}
  <1>8. ASSUME Wrote(v), v.srv.up \in BOOLEAN, v.srv.up => w.srv.up,
               w.srv.appendfsync = "always" /\ v.srv.up => rest = <<>> /\ v.disk.synced = Len(w.disk.units \o part)
        PROVE  Flushed(v, w)
    <2>1. Stream(v) = Stream(w)
      BY <1>5, <1>8 DEF Stream
    <2>2. Len(w.disk.units) <= Len(v.disk.units) /\ v.disk.units \in Files /\ v.srv.aof_buf \in Files
      BY <1>1, <1>3, <1>4, <1>8
    <2> QED BY <1>2, <1>8, <2>1, <2>2 DEF Flushed
  <1>9. CASE n = Len(buf)
    <2>1. /\ IsWorld(good) /\ Wrote(good) /\ good.srv.up = w.srv.up /\ good.srv.aof_last_write_status = "OK"
      BY <1>6 DEF IsWorld, ServerFields
    <2> HIDE DEF good
    <2>2. v = AfterWrite(good, syncing)
      BY <1>7, <1>9
    <2>3. Synced(v, good)
      BY <2>1, <2>2, AfterWriteFile
    <2>4. Wrote(v) /\ v.srv.up = w.srv.up
      BY <2>1, <2>3 DEF Synced
    <2>5. w.srv.appendfsync = "always" => rest = <<>> /\ v.disk.synced = Len(w.disk.units \o part)
      BY <1>3, <1>9, <2>1, <2>3 DEF Synced
    <2>6. Flushed(v, w)
      BY <1>1, <1>8, <2>4, <2>5
    <2>7. v.srv.aof_last_write_status = "OK"
      BY <2>1, <2>3 DEF Synced
    <2> QED BY ONLY <2>6, <2>7
  <1>10. CASE n # Len(buf) /\ w.srv.appendfsync = "always"
    <2>1. Wrote(down) /\ down.srv.up = FALSE
      BY <1>6 DEF IsWorld, ServerFields
    <2>2. v = down
      BY <1>7, <1>10
    <2> HIDE DEF down
    <2>3. Wrote(v) /\ v.srv.up = FALSE
      BY <2>1, <2>2
    <2> QED BY <1>3, <1>8, <1>10, <2>3
  <1>11. CASE n # Len(buf) /\ w.srv.appendfsync # "always"
    <2>1. Wrote(bad) /\ bad.srv.up = w.srv.up
      BY <1>6 DEF IsWorld, ServerFields
    <2>2. v = bad
      BY <1>7, <1>11
    <2> HIDE DEF bad
    <2>3. Wrote(v) /\ v.srv.up = w.srv.up
      BY <2>1, <2>2
    <2> QED BY <1>1, <1>3, <1>8, <1>11, <2>3
  <1> QED BY <1>9, <1>10, <1>11

\* The whole of a flush: with "always" it ends with nothing left to write or to sync, or the
\* server exits.
Leaves(v, w, n) ==
    \/ v.srv.aof_last_write_status = "OK"
    \/ Len(v.srv.aof_buf) = Len(w.srv.aof_buf)
    \/ n # Len(w.srv.aof_buf) /\ Len(v.srv.aof_buf) = Len(w.srv.aof_buf) - n

LEMMA FlushFlushed ==
    ASSUME NEW w, FileOK(w), NEW force, NEW n \in 0..Len(w.srv.aof_buf), NEW v, v = flushAppendOnlyFile(w, force, n)
    PROVE  Flushed(v, w) /\ Leaves(v, w, n)
  <1> DEFINE wait == [w EXCEPT !.srv.aof_flush_postponed_start = IF @ = 0 THEN w.srv.unixtime ELSE @]
             k == IF w.srv.aof_fd = "open" THEN n ELSE 0
             syncing == w.srv.appendfsync = "everysec" /\ w.jobs # <<>>
  <1>1. IsWorld(w) /\ w.srv.up \in BOOLEAN /\ w.srv.aof_buf \in Files /\ w.disk.units \in Files
        /\ Len(w.srv.aof_buf) \in Nat /\ Len(w.disk.units) \in Nat
    BY FilesFacts DEF FileOK
  <1>2. /\ k \in 0..Len(w.srv.aof_buf) /\ (k = n \/ k = 0)
        /\ Len(w.srv.aof_buf) - 0 = Len(w.srv.aof_buf)
    <2>1. PICK m \in Nat : m = Len(w.srv.aof_buf)
      BY <1>1
    <2>2. k = n \/ k = 0
      OBVIOUS
    <2> HIDE DEF k
    <2>3. n \in 0..m
      BY <2>1
    <2>4. k \in 0..m /\ m - 0 = m
      BY <2>2, <2>3
    <2> QED BY <2>1, <2>2, <2>4
  <1>3. Flushed(w, w) \/ w.srv.aof_buf # <<>>
    BY <1>1 DEF Flushed, SameSave
  <1>4. w.srv.appendfsync # "always" => Flushed(wait, w) /\ Len(wait.srv.aof_buf) = Len(w.srv.aof_buf)
    <2>1. /\ IsWorld(wait) /\ SameSave(wait, w) /\ wait.rw = w.rw /\ wait.disk = w.disk /\ wait.srv.aof_buf = w.srv.aof_buf
          /\ wait.srv.aof_state = w.srv.aof_state /\ wait.srv.aof_fd = w.srv.aof_fd /\ wait.srv.aof_selected_db = w.srv.aof_selected_db
          /\ wait.srv.aof_rewrite_scheduled = w.srv.aof_rewrite_scheduled /\ wait.srv.appendfsync = w.srv.appendfsync
          /\ wait.srv.open = w.srv.open /\ wait.srv.up = w.srv.up
      BY <1>1 DEF SameSave, IsWorld, ServerFields
    <2> HIDE DEF wait
    <2> QED BY <1>1, <2>1 DEF Flushed, Stream
  <1> HIDE DEF wait
  <1>5. \/ v = w /\ w.srv.aof_buf = <<>>
        \/ v = wait /\ w.srv.appendfsync # "always"
        \/ v = WriteBuf(w, k, syncing)
    BY DEF flushAppendOnlyFile, wait
  <1>6. PICK z : z = WriteBuf(w, k, syncing)
    OBVIOUS
  <1> HIDE DEF k, syncing
  <1>7. /\ Flushed(z, w)
        /\ z.srv.aof_last_write_status = "OK" \/ (k # Len(w.srv.aof_buf) /\ Len(z.srv.aof_buf) = Len(w.srv.aof_buf) - k)
    <2>1. k \in 0..Len(w.srv.aof_buf)
      BY <1>2
    <2>2. FileOK(w)
      OBVIOUS
    <2> QED BY ONLY <1>6, <2>1, <2>2, WriteBufFlushed
  <1>8. CASE v = w /\ w.srv.aof_buf = <<>>
    BY <1>3, <1>8 DEF Leaves
  <1>9. CASE v = wait /\ w.srv.appendfsync # "always"
    BY <1>4, <1>9 DEF Leaves
  <1>10. CASE v = z
    BY <1>2, <1>7, <1>10 DEF Leaves
  <1> QED BY <1>5, <1>6, <1>8, <1>9, <1>10

LEMMA SameCount ==
    ASSUME NEW v, NEW w, CountOK(w), SameSave(v, w)
    PROVE  CountOK(v)
  BY DEF CountOK, SameSave

LEMMA FlushedBusy ==
    ASSUME NEW v, NEW w, NEW P, NEW A, Busy(w, P, A), Flushed(v, w)
    PROVE  Busy(v, P, A) /\ v.srv.data = w.srv.data
  <1>1. FileOK(w) /\ StateOK(w) /\ Kept(w, P, A) /\ CountOK(w) /\ SameSave(v, w)
    BY DEF Busy, Flushed
  <1>2. /\ Len(w.disk.units) \in Nat /\ Len(v.disk.units) \in Nat /\ w.disk.synced \in Nat /\ w.disk.synced <= Len(w.disk.units)
        /\ Len(w.disk.units) <= Len(v.disk.units) /\ v.disk.synced \in {w.disk.synced, Len(v.disk.units)}
    <2>1. w.disk.units \in Files /\ v.disk.units \in Files /\ w.disk.synced \in 0..Len(w.disk.units)
      BY <1>1 DEF FileOK, Flushed
    <2>2. Len(w.disk.units) \in Nat /\ Len(v.disk.units) \in Nat
      BY <2>1, FilesFacts
    <2> QED BY <2>1, <2>2 DEF Flushed
  <1>3. v.disk.synced \in 0..Len(v.disk.units) /\ v.disk.synced \in Nat /\ w.disk.synced <= v.disk.synced
    BY <1>2, SMTT(30)
  <1>4. FileOK(v)
    BY <1>1, <1>3 DEF FileOK, Flushed, SameSave
  <1>5. StateOK(v)
    BY <1>1 DEF StateOK, Flushed
  <1>6. Written(v) <=> Written(w)
    BY DEF Written, Flushed
  <1>7. Rewritten(v) <=> Rewritten(w)
    BY DEF Rewritten, Flushed
  <1>8. Written(v) => Near(Stream(v), v.disk.synced, A)
    <2> SUFFICES ASSUME Written(v) PROVE Near(Stream(v), v.disk.synced, A)
      OBVIOUS
    <2>1. Near(Stream(w), w.disk.synced, A) /\ Stream(w) \in Files /\ Stream(v) = Stream(w)
      BY <1>1, <1>6 DEF Kept, FileOK, Shape, Flushed, Written
    <2> QED BY <1>2, <1>3, <2>1, NearWeaker
  <1>9. ASSUME v.srv.up, v.srv.aof_state = "ON", v.srv.appendfsync = "always" PROVE v.disk.synced = Len(v.disk.units)
    BY <1>1, <1>9 DEF Kept, Flushed
  <1>10. Kept(v, P, A)
    BY <1>1, <1>7, <1>8, <1>9 DEF Kept, Flushed
  <1> QED BY <1>1, <1>4, <1>5, <1>10, SameCount DEF Busy, SameSave

\* With "always" a flush leaves nothing that could be lost.
LEMMA FlushedRight ==
    ASSUME NEW v, NEW w, NEW P, NEW A, Right(w, P, A), Flushed(v, w)
    PROVE  /\ Right(v, P, A)
           /\ Written(v) /\ v.srv.up /\ v.srv.appendfsync = "always" => Near(Stream(v), v.disk.synced, {v.srv.data})
  <1>1. Busy(w, P, A) /\ Follows(w) /\ w.srv.data \in A
    BY DEF Right
  <1>2. Busy(v, P, A) /\ v.srv.data = w.srv.data
    BY <1>1, FlushedBusy
  <1>3. Follows(v)
    BY <1>1, <1>2 DEF Follows, Log, Written, Rewritten, Flushed
  <1>4. ASSUME Written(v), v.srv.up, v.srv.appendfsync = "always" PROVE Near(Stream(v), v.disk.synced, {v.srv.data})
    <2>1. v.srv.aof_buf = <<>> /\ v.disk.units \in Files /\ v.srv.aof_state = "ON"
      BY <1>4 DEF Flushed, Written
    <2>2. v.disk.synced = Len(v.disk.units)
      BY <1>2, <1>4, <2>1 DEF Busy, Kept
    <2>3. Stream(v) = v.disk.units
      BY <2>1, FilesFacts DEF Stream
    <2>4. loadAppendOnlyFile(Stream(v)).data \in {v.srv.data}
      BY <1>3, <1>4 DEF Follows, Log, Holds
    <2> QED BY <2>1, <2>2, <2>3, <2>4, NearAll
  <1> QED BY <1>1, <1>2, <1>3, <1>4 DEF Right

---------------------------------------------------------------------------
(* Appending commands *)

\* v is w after f was appended.
Appended(v, w, db, f) ==
    /\ IsWorld(v) /\ SameSave(v, w) /\ v.disk = w.disk /\ v.srv.aof_selected_db = db
    /\ v.srv.aof_buf = IF w.srv.aof_state = "ON" THEN w.srv.aof_buf \o f ELSE w.srv.aof_buf
    /\ v.srv.up = w.srv.up /\ v.srv.aof_state = w.srv.aof_state /\ v.srv.aof_fd = w.srv.aof_fd
    /\ v.srv.aof_rewrite_scheduled = w.srv.aof_rewrite_scheduled /\ v.srv.appendfsync = w.srv.appendfsync /\ v.srv.open = w.srv.open
    /\ w.rw = NoChild => v.rw = NoChild
    /\ w.rw # NoChild => v.rw = [w.rw EXCEPT !.blocks = @ \o f]

LEMMA FeedAppended ==
    ASSUME NEW w, IsWorld(w), w.srv.aof_state # "OFF", NEW db, NEW cmd
    PROVE  Appended(feedAppendOnlyFile(w, db, cmd), w, db, Fed(w.srv.aof_selected_db, db, cmd))
  <1> DEFINE f == Fed(w.srv.aof_selected_db, db, cmd)
             a == AppendToBuf(w, db, f)
             v == feedAppendOnlyFile(w, db, cmd)
  <1>1. v = aofRewriteBufferAppend(a, f)
    BY DEF feedAppendOnlyFile, Fed
  <1>2. IsWorld(v) /\ SameSave(v, w)
    BY FeedSame
  <1> HIDE DEF f, v
  <1>3. /\ IsWorld(a) /\ a.rw = w.rw /\ a.disk = w.disk /\ a.srv.aof_selected_db = db
        /\ a.srv.aof_buf = IF w.srv.aof_state = "ON" THEN w.srv.aof_buf \o f ELSE w.srv.aof_buf
        /\ a.srv.up = w.srv.up /\ a.srv.aof_state = w.srv.aof_state /\ a.srv.aof_fd = w.srv.aof_fd
        /\ a.srv.aof_rewrite_scheduled = w.srv.aof_rewrite_scheduled /\ a.srv.appendfsync = w.srv.appendfsync /\ a.srv.open = w.srv.open
    BY DEF AppendToBuf, IsWorld, ServerFields
  <1> HIDE DEF a
  <1>4. /\ v.disk = a.disk /\ v.srv = a.srv
        /\ a.rw = NoChild => v.rw = NoChild
        /\ a.rw # NoChild => v.rw = [a.rw EXCEPT !.blocks = @ \o f]
    BY <1>1, <1>3 DEF aofRewriteBufferAppend, IsWorld
  <1>5. Appended(v, w, db, f)
    BY <1>2, <1>3, <1>4 DEF Appended
  <1> QED BY <1>5 DEF v, f

LEMMA ContentFiles ==
    ASSUME NEW c \in Children
    PROVE  /\ rewriteAppendOnlyFile(c.base) \in Files /\ c.diff \in Files /\ c.pipe \in Files /\ c.blocks \in Files
           /\ rewriteAppendOnlyFile(c.base) \o c.diff \in Files
           /\ rewriteAppendOnlyFile(c.base) \o c.diff \o c.pipe \in Files
           /\ Content(c) \in Files
  <1>1. c.base \in Data /\ c.diff \in Files /\ c.pipe \in Files /\ c.blocks \in Files
    BY DEF Children
  <1>2. rewriteAppendOnlyFile(c.base) \in Files
    BY <1>1, RewriteLoads DEF Shape
  <1>3. rewriteAppendOnlyFile(c.base) \o c.diff \in Files
    BY <1>1, <1>2, FilesFacts
  <1>4. rewriteAppendOnlyFile(c.base) \o c.diff \o c.pipe \in Files
    BY <1>1, <1>3, FilesFacts
  <1>5. Content(c) \in Files
    BY <1>1, <1>4, FilesFacts DEF Content
  <1> QED BY <1>1, <1>2, <1>3, <1>4, <1>5

LEMMA AppendedFile ==
    ASSUME NEW w, FileOK(w), StateOK(w), w.srv.aof_state # "OFF", NEW db \in Dbs, NEW f, Shape(f), NEW v, Appended(v, w, db, f)
    PROVE  /\ FileOK(v) /\ StateOK(v)
           /\ v.srv.aof_state = "ON" => Stream(v) = Stream(w) \o f
           /\ w.rw # NoChild => Content(v.rw) = Content(w.rw) \o f /\ v.rw.base = w.rw.base /\ v.rw.st = w.rw.st /\ v.rw # NoChild
  <1>1. f \in Files /\ w.disk.units \in Files /\ w.srv.aof_buf \in Files /\ w.disk.synced \in 0..Len(w.disk.units)
    BY DEF FileOK, Shape
  <1>2. w.srv.aof_state = "ON" => Stream(v) = Stream(w) \o f
    <2> SUFFICES ASSUME w.srv.aof_state = "ON" PROVE Stream(v) = Stream(w) \o f
      OBVIOUS
    <2>1. Stream(v) = w.disk.units \o (w.srv.aof_buf \o f)
      BY DEF Stream, Appended
    <2>2. (w.disk.units \o w.srv.aof_buf) \o f = w.disk.units \o (w.srv.aof_buf \o f)
      BY <1>1, FilesFacts
    <2> QED BY <2>1, <2>2 DEF Stream
  <1>3. w.srv.aof_state # "ON" => Stream(v) = Stream(w)
    BY DEF Stream, Appended
  <1>4. v.srv.appendonly \/ v.srv.aof_state = "ON" => Shape(Stream(v))
    <2>1. w.srv.appendonly \/ w.srv.aof_state = "ON" => Shape(Stream(w))
      BY DEF FileOK
    <2>2. Shape(Stream(w)) => Shape(Stream(w) \o f)
      BY ShapeConcat
    <2> QED BY <1>2, <1>3, <2>1, <2>2 DEF Appended, SameSave
  <1>5. v.srv.aof_buf \in Files
    BY <1>1, FilesFacts DEF Appended
  <1>6. ASSUME w.rw # NoChild
        PROVE  /\ v.rw \in Children /\ v.rw # NoChild /\ Content(v.rw) = Content(w.rw) \o f /\ Shape(Content(v.rw))
               /\ v.rw.base = w.rw.base /\ v.rw.st = w.rw.st /\ Ending(v.rw)
    <2> DEFINE c == w.rw
               d == v.rw
    <2>1. c \in Children /\ Shape(Content(c)) /\ Ending(c) /\ d = [c EXCEPT !.blocks = @ \o f]
      BY <1>6 DEF FileOK, ChildFile, Appended
    <2> HIDE DEF c, d
    <2>2. c.blocks \o f \in Files
      BY <1>1, <2>1, ContentFiles, FilesFacts
    <2>3. d \in Children /\ d.base = c.base /\ d.diff = c.diff /\ d.pipe = c.pipe /\ d.blocks = c.blocks \o f /\ d.st = c.st
          /\ Ending(d)
      BY <2>1, <2>2 DEF Children, Ending
    <2>4. Content(d) = Content(c) \o f
      <3>1. PICK q \in Files : q = rewriteAppendOnlyFile(c.base) \o c.diff \o c.pipe
        BY <2>1, ContentFiles
      <3>2. PICK b \in Files : b = c.blocks
        BY <2>1, ContentFiles
      <3>3. (q \o b) \o f = q \o (b \o f)
        BY <1>1, FilesFacts, SMTT(30)
      <3> QED BY <2>3, <3>1, <3>2, <3>3 DEF Content
    <2>5. Shape(Content(d))
      BY <2>1, <2>4, ShapeConcat
    <2>6. d # NoChild
      BY <2>3 DEF Children, NoChild
    <2> QED BY <2>3, <2>4, <2>5, <2>6 DEF c, d
  <1>7. ChildFile(v.rw)
    BY <1>6 DEF ChildFile, FileOK, Appended
  <1>8. FileOK(v)
    BY <1>1, <1>4, <1>5, <1>7 DEF FileOK, Appended, SameSave
  <1>9. StateOK(v)
    BY <1>6 DEF StateOK, Appended
  <1> QED BY <1>2, <1>6, <1>8, <1>9 DEF Appended

\* What a command, appended to a file that held this, makes of it.
Carries(sel, o, d, e, db, cmd, o2, d2, e2, A, P) ==
    \A s, from, D : from \in Nat /\ D \in {A, P} /\ Tracks(s, o, d, e, sel, from, D)
                      => Tracks(s \o Fed(sel, db, cmd), o2, d2, e2, db, from, D)

\* It makes the same of both.
LEMMA FedLog ==
    ASSUME NEW w, NEW P, NEW A, Busy(w, P, A), NEW o, NEW d, NEW e, Log(w, o, d, e), NEW db \in Dbs, NEW cmd, Shape(cmd),
           NEW o2, NEW d2, NEW e2, NEW sel, sel = w.srv.aof_selected_db, Carries(sel, o, d, e, db, cmd, o2, d2, e2, A, P),
           NEW v, v = feedAppendOnlyFile(w, db, cmd)
    PROVE  Busy(v, P, A) /\ Log(v, o2, d2, e2)
  <1>1. FileOK(w) /\ StateOK(w) /\ Kept(w, P, A) /\ CountOK(w) /\ IsWorld(w)
    BY DEF Busy, FileOK
  <1>2. CASE w.srv.aof_state = "OFF"
    <2>1. v = w
      BY <1>2 DEF feedAppendOnlyFile
    <2> QED BY <1>2, <2>1 DEF Log, Written, Rewritten
  <1>3. CASE w.srv.aof_state # "OFF"
    <2>1. PICK f : f = Fed(sel, db, cmd)
      OBVIOUS
    <2>2. Shape(f)
      BY <2>1, ShapeFed
    <2>3. Appended(v, w, db, f)
      BY <1>1, <1>3, <2>1, FeedAppended
    <2>4. /\ FileOK(v) /\ StateOK(v)
          /\ v.srv.aof_state = "ON" => Stream(v) = Stream(w) \o f
          /\ w.rw # NoChild => Content(v.rw) = Content(w.rw) \o f /\ v.rw.base = w.rw.base /\ v.rw.st = w.rw.st /\ v.rw # NoChild
      BY <1>1, <1>3, <2>2, <2>3, AppendedFile
    <2>5. CountOK(v)
      BY <1>1, <2>3, SameCount DEF Appended
    <2>6. (Written(v) <=> Written(w)) /\ (Rewritten(v) <=> Rewritten(w))
      BY <2>3, <2>4 DEF Written, Rewritten, Alive, Appended
    <2>7. ASSUME Written(w) PROVE Tracks(Stream(v), o2, d2, e2, db, v.disk.synced, A)
      <3>1. w.disk.synced \in Nat
        <4>1. w.disk.units \in Files /\ w.disk.synced \in 0..Len(w.disk.units)
          BY <1>1 DEF FileOK
        <4> QED BY <4>1
      <3>2. Stream(w) \in Files
        BY <1>1, <2>7 DEF FileOK, Shape, Written
      <3>3. Tracks(Stream(w), o, d, e, sel, w.disk.synced, A)
        BY <1>1, <2>7, <3>2 DEF Tracks, Log, Kept
      <3>4. Tracks(Stream(w) \o f, o2, d2, e2, db, w.disk.synced, A)
        BY <2>1, <3>1, <3>3 DEF Carries
      <3> QED BY <2>3, <2>4, <2>6, <2>7, <3>4 DEF Appended, Written
    <2>8. ASSUME Rewritten(w) PROVE Tracks(Content(v.rw), o2, d2, e2, db, Len(rewriteAppendOnlyFile(v.rw.base)), P)
      <3>1. w.rw # NoChild /\ w.rw \in Children
        BY <1>1, <2>8 DEF Rewritten, Alive, FileOK, ChildFile
      <3>2. PICK from \in Nat : from = Len(rewriteAppendOnlyFile(w.rw.base))
        BY <3>1, ContentFiles, FilesFacts
      <3>3. Tracks(Content(w.rw), o, d, e, sel, from, P)
        BY <1>1, <2>8, <3>1, <3>2, ContentFiles DEF Tracks, Log, Kept
      <3>4. Tracks(Content(w.rw) \o f, o2, d2, e2, db, from, P)
        BY <2>1, <3>3 DEF Carries
      <3> QED BY <2>4, <3>1, <3>2, <3>4
    <2>9. v.srv.aof_selected_db = db
      BY <2>3 DEF Appended
    <2>10. Log(v, o2, d2, e2)
      BY <2>6, <2>7, <2>8, <2>9 DEF Log, Tracks
    <2>11. Kept(v, P, A)
      BY <1>1, <2>3, <2>6, <2>7, <2>8 DEF Kept, Tracks, Appended
    <2> QED BY <2>4, <2>5, <2>10, <2>11 DEF Busy
  <1> QED BY <1>2, <1>3

LEMMA FedWrite ==
    ASSUME NEW w, NEW P, NEW A, Busy(w, P, A), NEW o, NEW d, NEW e, Log(w, o, d, e), d \in A, NEW db \in Dbs, NEW id \in Nat,
           NEW d2 \in A, NEW e2, e2 = e \cup {<<id, db>>}, d2 = IF o THEN d ELSE e2,
           NEW v, v = feedAppendOnlyFile(w, db, Halves(id))
    PROVE  Busy(v, P, A) /\ Log(v, o, d2, e2)
  <1>1. PICK sel : sel = w.srv.aof_selected_db
    OBVIOUS
  <1>2. \A D \in {A, P} : A \subseteq D
    BY DEF Busy, Kept
  <1>3. ASSUME NEW s, NEW from \in Nat, NEW D \in {A, P}, Tracks(s, o, d, e, sel, from, D)
        PROVE  Tracks(s \o Fed(sel, db, Halves(id)), o, d2, e2, db, from, D)
    <2>1. d \in D /\ d2 \in D
      BY <1>2
    <2> QED BY <1>3, <2>1, TracksWrite
  <1>4. Shape(Halves(id))
    BY ShapeHalves
  <1>5. Carries(sel, o, d, e, db, Halves(id), o, d2, e2, A, P)
    BY <1>3 DEF Carries
  <1> QED BY <1>1, <1>4, <1>5, FedLog

LEMMA FedMulti ==
    ASSUME NEW w, NEW P, NEW A, Busy(w, P, A), NEW d \in A, Log(w, FALSE, d, d), NEW db \in Dbs,
           NEW v, v = feedAppendOnlyFile(w, db, <<[k |-> "multi"]>>)
    PROVE  Busy(v, P, A) /\ Log(v, TRUE, d, d)
  <1>1. PICK sel : sel = w.srv.aof_selected_db
    OBVIOUS
  <1>2. PICK cmd : cmd = <<[k |-> "multi"]>>
    OBVIOUS
  <1>3. Shape(cmd)
    BY <1>2, CommandUnits, ShapeUnit
  <1>4. ASSUME NEW s, NEW from \in Nat, NEW D \in {A, P}, Tracks(s, FALSE, d, d, sel, from, D)
        PROVE  Tracks(s \o Fed(sel, db, cmd), TRUE, d, d, db, from, D)
    <2>1. d \in D
      BY DEF Busy, Kept
    <2> QED BY <1>2, <1>4, <2>1, TracksMulti
  <1>5. v = feedAppendOnlyFile(w, db, cmd)
    BY <1>2
  <1>6. Carries(sel, FALSE, d, d, db, cmd, TRUE, d, d, A, P)
    BY <1>4 DEF Carries
  <1> QED BY <1>1, <1>3, <1>5, <1>6, FedLog

LEMMA FedExec ==
    ASSUME NEW w, NEW P, NEW A, Busy(w, P, A), NEW d \in A, NEW e \in A, Log(w, TRUE, d, e), NEW db \in Dbs,
           NEW v, v = feedAppendOnlyFile(w, db, <<[k |-> "exec"]>>)
    PROVE  Busy(v, P, A) /\ Log(v, FALSE, e, e)
  <1>1. PICK sel : sel = w.srv.aof_selected_db
    OBVIOUS
  <1>2. PICK cmd : cmd = <<[k |-> "exec"]>>
    OBVIOUS
  <1>3. Shape(cmd)
    BY <1>2, CommandUnits, ShapeUnit
  <1>4. ASSUME NEW s, NEW from \in Nat, NEW D \in {A, P}, Tracks(s, TRUE, d, e, sel, from, D)
        PROVE  Tracks(s \o Fed(sel, db, cmd), FALSE, e, e, db, from, D)
    <2>1. d \in D /\ e \in D
      BY DEF Busy, Kept
    <2> QED BY <1>2, <1>4, <2>1, TracksExec
  <1>5. v = feedAppendOnlyFile(w, db, cmd)
    BY <1>2
  <1>6. Carries(sel, TRUE, d, e, db, cmd, FALSE, e, e, A, P)
    BY <1>4 DEF Carries
  <1> QED BY <1>1, <1>3, <1>5, <1>6, FedLog

LEMMA FedFlush ==
    ASSUME NEW w, NEW P, NEW A, Busy(w, P, A), NEW d \in A, {} \in A, Log(w, FALSE, d, d), NEW db \in Dbs,
           NEW v, v = feedAppendOnlyFile(w, db, <<[k |-> "flush"]>>)
    PROVE  Busy(v, P, A) /\ Log(v, FALSE, {}, {})
  <1>1. PICK sel : sel = w.srv.aof_selected_db
    OBVIOUS
  <1>2. PICK cmd : cmd = <<[k |-> "flush"]>>
    OBVIOUS
  <1>3. Shape(cmd)
    BY <1>2, CommandUnits, ShapeUnit
  <1>4. ASSUME NEW s, NEW from \in Nat, NEW D \in {A, P}, Tracks(s, FALSE, d, d, sel, from, D)
        PROVE  Tracks(s \o Fed(sel, db, cmd), FALSE, {}, {}, db, from, D)
    <2>1. d \in D /\ {} \in D
      BY DEF Busy, Kept
    <2> QED BY <1>2, <1>4, <2>1, TracksFlush
  <1>5. v = feedAppendOnlyFile(w, db, cmd)
    BY <1>2
  <1>6. Carries(sel, FALSE, d, d, db, cmd, FALSE, {}, {}, A, P)
    BY <1>4 DEF Carries
  <1> QED BY <1>1, <1>3, <1>5, <1>6, FedLog

LEMMA KeptMore ==
    ASSUME NEW w, NEW P, NEW A, FileOK(w), Kept(w, P, A), NEW x
    PROVE  Kept(w, P \cup {x}, A \cup {x})
  BY DEF Kept, Near

\* The data change first, then the files.
LEMMA CommandBegins ==
    ASSUME NEW w, NEW P, NEW A, Right(w, P, A), NEW d, IsWorld(d), SameFile(d, w), d.srv.data \in Data, CountOK(d), NEW x
    PROVE  /\ Busy(d, P \cup {x}, A \cup {x}) /\ w.srv.data \in A \cup {x}
           /\ w.srv.up => Log(d, FALSE, w.srv.data, w.srv.data)
  <1>1. FileOK(w) /\ StateOK(w) /\ Kept(w, P, A) /\ Follows(w) /\ w.srv.data \in A
    BY DEF Right, Busy
  <1>2. Stream(d) = Stream(w)
    BY DEF Stream, SameFile
  <1>3. FileOK(d)
    BY <1>1, <1>2 DEF FileOK, SameFile
  <1>4. StateOK(d)
    BY <1>1 DEF StateOK, SameFile
  <1>5. Kept(d, P, A)
    BY <1>1, <1>2 DEF Kept, SameFile, Written, Rewritten
  <1>6. Kept(d, P \cup {x}, A \cup {x})
    BY <1>3, <1>5, KeptMore
  <1>7. w.srv.up => Log(d, FALSE, w.srv.data, w.srv.data)
    BY <1>1, <1>2 DEF Follows, Log, SameFile, Written, Rewritten
  <1> QED BY <1>1, <1>3, <1>4, <1>6, <1>7 DEF Busy

---------------------------------------------------------------------------
(* The rewrite *)

NewChild(data) == [st |-> "run", base |-> data, diff |-> <<>>, pipe |-> <<>>, blocks |-> <<>>, stop |-> FALSE]

LEMMA NewChildFile ==
    ASSUME NEW data \in Data, NEW c, c = NewChild(data)
    PROVE  /\ c # NoChild /\ ChildFile(c) /\ Holds(Content(c), FALSE, data, data, -1)
           /\ Near(Content(c), Len(rewriteAppendOnlyFile(c.base)), {data})
  <1>1. /\ c \in Children /\ c # NoChild /\ c.base = data /\ c.diff = <<>> /\ c.pipe = <<>> /\ c.blocks = <<>> /\ Ending(c)
    BY FilesFacts DEF NewChild, Children, NoChild, Ending
  <1>2. PICK r : r = rewriteAppendOnlyFile(data)
    OBVIOUS
  <1>3. r \in Files /\ Shape(r) /\ Gives(r, data, -1)
    BY <1>2, RewriteLoads DEF Shape
  <1>4. r \o <<>> = r
    BY <1>3, FilesFacts
  <1>5. Content(c) = r
    BY <1>1, <1>2, <1>4 DEF Content
  <1>6. Holds(r, FALSE, data, data, -1)
    BY <1>3 DEF Gives, Tracks
  <1>7. Near(r, Len(r), {data})
    BY <1>3, <1>6, NearAll DEF Holds
  <1> QED BY <1>1, <1>2, <1>3, <1>5, <1>6, <1>7 DEF ChildFile

LEMMA BackgroundRight ==
    ASSUME NEW w, NEW P, NEW A, Right(w, P, A), NEW v, v = rewriteAppendOnlyFileBackground(w)
    PROVE  Right(v, P, A)
  <1>1. CASE w.rw # NoChild
    BY <1>1 DEF rewriteAppendOnlyFileBackground
  <1>2. CASE w.rw = NoChild
    <2>1. FileOK(w) /\ StateOK(w) /\ Kept(w, P, A) /\ CountOK(w) /\ Follows(w) /\ w.srv.data \in A /\ w.srv.data \in Data /\ IsWorld(w)
      BY DEF Right, Busy, FileOK
    <2>2. IsWorld(v) /\ SameSave(v, w)
      BY <2>1, RewriteSame
    <2>3. /\ v.disk = w.disk /\ v.rw = NewChild(w.srv.data) /\ v.srv.aof_selected_db = -1 /\ v.srv.aof_buf = w.srv.aof_buf
          /\ v.srv.up = w.srv.up /\ v.srv.aof_state = w.srv.aof_state /\ v.srv.aof_fd = w.srv.aof_fd
          /\ v.srv.appendfsync = w.srv.appendfsync /\ v.srv.open = w.srv.open
      BY <1>2, <2>1 DEF rewriteAppendOnlyFileBackground, NewChild, IsWorld, ServerFields
    <2>4. PICK c : c = v.rw
      OBVIOUS
    <2>5. PICK d : d = w.srv.data
      OBVIOUS
    <2>6. /\ c # NoChild /\ ChildFile(c) /\ Holds(Content(c), FALSE, d, d, -1)
          /\ Near(Content(c), Len(rewriteAppendOnlyFile(c.base)), {d})
      BY <2>1, <2>3, <2>4, <2>5, NewChildFile
    <2>7. Stream(v) = Stream(w) /\ (Written(v) <=> Written(w))
      BY <2>3 DEF Stream, Written
    <2>8. FileOK(v)
      BY <2>1, <2>2, <2>3, <2>4, <2>6, <2>7 DEF FileOK, SameSave
    <2>9. StateOK(v)
      BY <2>1, <2>3, <2>4, <2>6 DEF StateOK
    <2>10. Near(Content(c), Len(rewriteAppendOnlyFile(c.base)), P)
      <3>1. d \in P
        BY <2>1, <2>5 DEF Kept
      <3> QED BY <2>6, <3>1 DEF Near
    <2>11. Kept(v, P, A)
      BY <2>1, <2>3, <2>4, <2>7, <2>10 DEF Kept
    <2>12. Follows(v)
      <3> SUFFICES ASSUME v.srv.up PROVE Log(v, FALSE, d, d)
        BY <2>2, <2>5 DEF Follows, SameSave
      <3>1. Written(w) => Holds(Stream(w), FALSE, d, d, w.srv.aof_selected_db) /\ Stream(w) \in Files
        BY <2>1, <2>3, <2>5 DEF Follows, Log, FileOK, Shape, Written
      <3>2. Written(w) => Holds(Stream(w), FALSE, d, d, -1)
        BY <3>1, HoldsClosed
      <3> QED BY <2>3, <2>4, <2>6, <2>7, <3>2 DEF Log
    <2> QED BY <2>1, <2>2, <2>8, <2>9, <2>11, <2>12, SameCount DEF Right, Busy, SameSave
  <1> QED BY <1>1, <1>2

\* Without the append only file nothing has to be followed.
LEMMA OffRight ==
    ASSUME NEW w, NEW P, NEW A, FileOK(w), CountOK(w), w.srv.aof_state = "OFF", w.srv.data \in A, A \subseteq P,
           w.srv.appendfsync # "always" => A = P
    PROVE  Right(w, P, A)
  BY DEF Right, Busy, StateOK, Kept, Follows, Log, Written, Rewritten

LEMMA StartFile ==
    ASSUME NEW w, NEW P, NEW A, Right(w, P, A), w.srv.aof_state = "OFF", NEW v, v = startAppendOnly(w)
    PROVE  Right(v, P, A)
  <1>1. FileOK(w) /\ StateOK(w) /\ Kept(w, P, A) /\ CountOK(w) /\ Follows(w) /\ w.srv.data \in A /\ w.srv.data \in Data /\ IsWorld(w)
    BY DEF Right, Busy, FileOK
  <1>2. IsWorld(v) /\ SameSave(v, w)
    BY <1>1, StartSame
  <1>3. CASE w.rw # NoChild
    <2>1. /\ v.disk = w.disk /\ v.rw = w.rw /\ v.srv.aof_selected_db = w.srv.aof_selected_db /\ v.srv.aof_buf = w.srv.aof_buf
          /\ v.srv.up = w.srv.up /\ v.srv.aof_state = "OFF" /\ v.srv.appendfsync = w.srv.appendfsync
      BY <1>1, <1>3 DEF startAppendOnly, IsWorld, ServerFields
    <2>2. FileOK(v)
      BY <1>1, <1>2, <2>1 DEF FileOK, SameSave, Stream
    <2> QED BY <1>1, <1>2, <2>1, <2>2, OffRight, SameCount DEF Kept, SameSave
  <1>4. CASE w.rw = NoChild
    <2>1. /\ v.disk = w.disk /\ v.rw = NewChild(w.srv.data) /\ v.srv.aof_selected_db = -1 /\ v.srv.aof_buf = w.srv.aof_buf
          /\ v.srv.up = w.srv.up /\ v.srv.aof_state = "WAIT_REWRITE" /\ v.srv.aof_fd = "open"
          /\ v.srv.appendfsync = w.srv.appendfsync
      BY <1>1, <1>4, ZenonT(30) DEF startAppendOnly, rewriteAppendOnlyFileBackground, NewChild, IsWorld, ServerFields
    <2>2. PICK c : c = v.rw
      OBVIOUS
    <2>3. PICK d : d = w.srv.data
      OBVIOUS
    <2>4. /\ c # NoChild /\ ChildFile(c) /\ Holds(Content(c), FALSE, d, d, -1)
          /\ Near(Content(c), Len(rewriteAppendOnlyFile(c.base)), {d})
      BY <1>1, <2>1, <2>2, <2>3, NewChildFile
    <2>5. Near(Content(c), Len(rewriteAppendOnlyFile(c.base)), P)
      <3>1. d \in P
        BY <1>1, <2>3 DEF Kept
      <3> QED BY <2>4, <3>1 DEF Near
    <2>6. FileOK(v)
      BY <1>1, <1>2, <2>1, <2>2, <2>4 DEF FileOK, SameSave, Stream
    <2>7. StateOK(v) /\ ~Written(v)
      BY <2>1, <2>2, <2>4 DEF StateOK, Written
    <2>8. Kept(v, P, A)
      BY <1>1, <2>1, <2>2, <2>5, <2>7 DEF Kept
    <2>9. Follows(v)
      BY <1>2, <2>1, <2>2, <2>3, <2>4, <2>7 DEF Follows, Log, SameSave
    <2> QED BY <1>1, <1>2, <2>6, <2>7, <2>8, <2>9, SameCount DEF Right, Busy, SameSave
  <1> QED BY <1>3, <1>4

LEMMA StopFile ==
    ASSUME NEW w, NEW P, NEW A, Busy(w, P, A), w.srv.data \in A, NEW n \in 0..Len(w.srv.aof_buf), NEW reaped \in Reaps(w),
           NEW v, v = stopAppendOnly(w, n, reaped)
    PROVE  Right(v, P, A) /\ (v.srv.up => v.srv.aof_state = "OFF") /\ v.srv.up \in BOOLEAN /\ v.srv.data = w.srv.data
           /\ v.srv.appendfsync = w.srv.appendfsync
  <1> DEFINE w1 == flushAppendOnlyFile(w, TRUE, n)
             w2 == aof_fsync(w1)
             u == [w2 EXCEPT !.srv.aof_fd = "none", !.srv.aof_selected_db = -1, !.srv.aof_state = "OFF", !.rw = NoChild]
             r == [u EXCEPT !.rdbc.st = "reaped"]
  <1>1. v = IF w1.srv.up = FALSE THEN w1 ELSE IF w.rw # NoChild /\ reaped = "rdb" THEN r ELSE u
    BY DEF stopAppendOnly
  <1>2. FileOK(w) /\ IsWorld(w)
    BY DEF Busy, FileOK
  <1>3. Flushed(w1, w)
    BY <1>2, FlushFlushed
  <1> HIDE DEF w1
  <1>4. Busy(w1, P, A) /\ w1.srv.data = w.srv.data /\ IsWorld(w1) /\ w1.srv.up \in BOOLEAN /\ FileOK(w1) /\ CountOK(w1)
    BY <1>3, FlushedBusy DEF Busy, FileOK
  <1>5. CASE w1.srv.up = FALSE
    BY <1>1, <1>3, <1>4, <1>5 DEF Right, Follows, Flushed
  <1>6. /\ IsWorld(u) /\ SameSave(u, w1) /\ u.rw = NoChild /\ u.disk.units = w1.disk.units /\ u.disk.synced = Len(w1.disk.units)
        /\ u.srv.aof_buf = w1.srv.aof_buf /\ u.srv.aof_selected_db = -1 /\ u.srv.aof_state = "OFF" /\ u.srv.up = w1.srv.up
        /\ u.srv.appendfsync = w1.srv.appendfsync
    BY <1>4 DEF IsWorld, SameSave, ServerFields, aof_fsync
  <1> HIDE DEF u
  <1>7. FileOK(u)
    <2>1. Stream(u) = Stream(w1)
      BY <1>6 DEF Stream
    <2>2. Len(w1.disk.units) \in 0..Len(w1.disk.units)
      <3>1. w1.disk.units \in Files
        BY <1>4 DEF FileOK
      <3>2. Len(w1.disk.units) \in Nat
        BY <3>1, FilesFacts
      <3> QED BY <3>2
    <2> QED BY <1>4, <1>6, <2>1, <2>2 DEF FileOK, SameSave, ChildFile
  <1>8. CountOK(u) /\ u.srv.data \in A /\ A \subseteq P /\ (u.srv.appendfsync # "always" => A = P)
    BY <1>4, <1>6, SameCount DEF SameSave, Busy, Kept
  <1>9. Right(u, P, A)
    BY <1>6, <1>7, <1>8, OffRight
  <1>10. ASSUME w.rw # NoChild, reaped = "rdb" PROVE Right(r, P, A) /\ r.srv = u.srv
    <2>1. u.rdbc # NoChild /\ u.rdbc = [st |-> u.rdbc.st, data |-> u.rdbc.data]
      BY <1>3, <1>6, <1>10 DEF Reaps, IsWorld, SameSave, Flushed
    <2>2. /\ r.rdbc = [st |-> "reaped", data |-> u.rdbc.data] /\ DOMAIN r = DOMAIN u
          /\ r.srv = u.srv /\ r.disk = u.disk /\ r.rw = u.rw
      BY <1>6, <2>1 DEF IsWorld
    <2> HIDE DEF r
    <2>3. IsWorld(r)
      BY <1>6, <2>2 DEF IsWorld
    <2>4. CountOK(r)
      <3>1. CountOK(u)
        BY <1>8
      <3>2. r.rdbc.st = "reaped" /\ r.rdbc.data = u.rdbc.data /\ r.disk.rdb = u.disk.rdb
        BY <2>2
      <3>3. u.rdbc # NoChild => u.rdbc.data \in Data
        BY <3>1 DEF CountOK
      <3> QED BY <2>1, <2>2, <3>1, <3>2, <3>3 DEF CountOK
    <2> QED BY <1>9, <2>2, <2>3, <2>4, SameFileRight DEF SameFile
  <1>11. CASE w1.srv.up # FALSE
    BY <1>1, <1>3, <1>4, <1>6, <1>9, <1>10, <1>11, ZenonT(30) DEF SameSave, Flushed
  <1> QED BY <1>5, <1>11

\* v is w with the child's file in the place of the old one.
Replaced(v, w) ==
    LET content == rewriteAppendOnlyFile(w.rw.base) \o w.rw.diff
    IN /\ IsWorld(v) /\ SameSave(v, w) /\ v.rw = w.rw /\ v.disk.units = content \o w.rw.blocks
       /\ v.srv.up = w.srv.up /\ v.srv.aof_rewrite_scheduled = w.srv.aof_rewrite_scheduled
       /\ v.srv.appendfsync = w.srv.appendfsync /\ v.srv.open = w.srv.open
       /\ v.srv.aof_state = IF w.srv.aof_state = "WAIT_REWRITE" THEN "ON" ELSE w.srv.aof_state
       /\ w.srv.aof_fd = "none" =>
            /\ v.srv.aof_buf = w.srv.aof_buf /\ v.srv.aof_selected_db = w.srv.aof_selected_db /\ v.disk.synced = Len(content)
       /\ w.srv.aof_fd # "none" =>
            /\ v.srv.aof_fd = "open" /\ v.srv.aof_buf = <<>> /\ v.srv.aof_selected_db = -1
            /\ v.disk.synced = IF w.srv.appendfsync = "always" THEN Len(v.disk.units) ELSE Len(content)

LEMMA DoneReplaces ==
    ASSUME NEW w, IsWorld(w), NEW good, w.rw.st = "ok", good
    PROVE  \E v : Replaced(v, w) /\ backgroundRewriteDoneHandler(w, good) = Cleanup(v)
  <1> DEFINE content == rewriteAppendOnlyFile(w.rw.base) \o w.rw.diff
             renamed == [w EXCEPT !.disk.units = content \o w.rw.blocks, !.disk.synced = Len(content), !.disk.gen = @ + 1]
             used == [renamed EXCEPT !.srv.aof_fd = "open", !.srv.aof_selected_db = -1, !.srv.aof_buf = <<>>]
             synced == CASE w.srv.appendfsync = "always" -> aof_fsync(used)
                         [] w.srv.appendfsync = "everysec" -> aof_background_fsync(used)
                         [] OTHER -> used
             new == IF w.srv.aof_fd = "none" THEN renamed ELSE synced
             on == [new EXCEPT !.srv.aof_state = IF @ = "WAIT_REWRITE" THEN "ON" ELSE @]
             Same(v) == /\ SameSave(v, w) /\ v.rw = w.rw /\ v.disk.units = content \o w.rw.blocks /\ v.srv.up = w.srv.up
                        /\ v.srv.aof_rewrite_scheduled = w.srv.aof_rewrite_scheduled
                        /\ v.srv.appendfsync = w.srv.appendfsync /\ v.srv.open = w.srv.open
  <1>1. backgroundRewriteDoneHandler(w, good) = Cleanup(on)
    BY DEF backgroundRewriteDoneHandler
  <1>2. PICK c : c = content
    OBVIOUS
  <1>3. /\ IsWorld(renamed) /\ Same(renamed) /\ renamed.disk.synced = Len(c) /\ renamed.srv = w.srv
    BY <1>2 DEF IsWorld, SameSave, ServerFields
  <1> HIDE DEF renamed
  <1>4. /\ IsWorld(used) /\ Same(used) /\ used.disk = renamed.disk /\ used.srv.aof_fd = "open" /\ used.srv.aof_selected_db = -1
        /\ used.srv.aof_buf = <<>> /\ used.srv.aof_state = w.srv.aof_state
    BY <1>3 DEF IsWorld, SameSave, ServerFields
  <1> HIDE DEF used
  <1>5. /\ IsWorld(synced) /\ Same(synced) /\ synced.srv = used.srv
        /\ synced.disk.synced = IF w.srv.appendfsync = "always" THEN Len(synced.disk.units) ELSE Len(c)
    <2>1. /\ IsWorld(aof_fsync(used)) /\ Same(aof_fsync(used)) /\ aof_fsync(used).srv = used.srv
          /\ aof_fsync(used).disk.synced = Len(used.disk.units)
      BY <1>4 DEF IsWorld, SameSave, ServerFields, aof_fsync
    <2>2. /\ IsWorld(aof_background_fsync(used)) /\ Same(aof_background_fsync(used)) /\ aof_background_fsync(used).srv = used.srv
          /\ aof_background_fsync(used).disk = used.disk
      BY <1>4 DEF IsWorld, SameSave, ServerFields, aof_background_fsync
    <2>3. CASE w.srv.appendfsync = "always"
      <3>1. synced = aof_fsync(used)
        BY <2>3
      <3> HIDE DEF synced
      <3> QED BY <1>4, <2>1, <2>3, <3>1
    <2>4. CASE w.srv.appendfsync = "everysec"
      <3>1. synced = aof_background_fsync(used)
        BY <2>4
      <3> HIDE DEF synced
      <3> QED BY <1>3, <1>4, <2>2, <2>4, <3>1
    <2>5. CASE w.srv.appendfsync \notin {"always", "everysec"}
      <3>1. synced = used
        BY <2>5
      <3> HIDE DEF synced
      <3> QED BY <1>3, <1>4, <2>5, <3>1
    <2> QED BY <2>3, <2>4, <2>5
  <1> HIDE DEF synced
  <1>6. /\ IsWorld(new) /\ Same(new) /\ new.srv.aof_state = w.srv.aof_state
        /\ w.srv.aof_fd = "none" =>
             new.srv.aof_buf = w.srv.aof_buf /\ new.srv.aof_selected_db = w.srv.aof_selected_db /\ new.disk.synced = Len(c)
        /\ w.srv.aof_fd # "none" =>
             /\ new.srv.aof_fd = "open" /\ new.srv.aof_buf = <<>> /\ new.srv.aof_selected_db = -1
             /\ new.disk.synced = IF w.srv.appendfsync = "always" THEN Len(new.disk.units) ELSE Len(c)
    <2>1. CASE w.srv.aof_fd = "none"
      <3>1. new = renamed
        BY <2>1
      <3> HIDE DEF new
      <3> QED BY <1>3, <2>1, <3>1
    <2>2. CASE w.srv.aof_fd # "none"
      <3>1. new = synced
        BY <2>2
      <3> HIDE DEF new
      <3> QED BY <1>4, <1>5, <2>2, <3>1
    <2> QED BY <2>1, <2>2
  <1> HIDE DEF new
  <1>7. /\ IsWorld(on) /\ Same(on) /\ on.disk = new.disk
        /\ on.srv.aof_state = IF new.srv.aof_state = "WAIT_REWRITE" THEN "ON" ELSE new.srv.aof_state
        /\ on.srv.aof_buf = new.srv.aof_buf /\ on.srv.aof_selected_db = new.srv.aof_selected_db /\ on.srv.aof_fd = new.srv.aof_fd
    BY <1>6 DEF IsWorld, SameSave, ServerFields
  <1> HIDE DEF on
  <1>8. Replaced(on, w)
    BY <1>2, <1>6, <1>7 DEF Replaced
  <1> QED BY <1>1, <1>8

LEMMA ReplacedRight ==
    ASSUME NEW w, NEW P, NEW A, Right(w, P, A), w.srv.up, w.rw # NoChild, w.rw.st = "ok", NEW v, Replaced(v, w)
    PROVE  Right(v, P, A)
  <1>1. FileOK(w) /\ StateOK(w) /\ Kept(w, P, A) /\ CountOK(w) /\ Follows(w) /\ w.srv.data \in A
    BY DEF Right, Busy
  <1>2. PICK d : d = w.srv.data
    OBVIOUS
  <1>3. PICK c \in Children : c = w.rw /\ c.st = "ok" /\ c.pipe = <<>> /\ Shape(Content(c)) /\ Alive(c)
    BY <1>1 DEF FileOK, ChildFile, Alive, Ending
  <1>4. PICK body : body = rewriteAppendOnlyFile(c.base) \o c.diff
    OBVIOUS
  <1>5. /\ body \in Files /\ c.blocks \in Files /\ rewriteAppendOnlyFile(c.base) \in Files /\ c.diff \in Files /\ Content(c) \in Files
        /\ Len(body) \in Nat /\ Len(rewriteAppendOnlyFile(c.base)) \in Nat /\ Len(rewriteAppendOnlyFile(c.base)) <= Len(body)
    <2>1. /\ body \in Files /\ c.blocks \in Files /\ rewriteAppendOnlyFile(c.base) \in Files /\ c.diff \in Files /\ Content(c) \in Files
      BY <1>4, ContentFiles
    <2>2. Len(body) = Len(rewriteAppendOnlyFile(c.base)) + Len(c.diff)
      BY <1>4, <2>1, FilesFacts
    <2>3. PICK m \in Nat : m = Len(rewriteAppendOnlyFile(c.base))
      BY <2>1, FilesFacts
    <2>4. PICK k \in Nat : k = Len(c.diff)
      BY <2>1, FilesFacts
    <2>5. m + k \in Nat /\ m <= m + k
      OBVIOUS
    <2>6. Len(body) = m + k
      BY <2>2, <2>3, <2>4
    <2> QED BY <2>1, <2>3, <2>5, <2>6
  <1>6. v.disk.units = Content(c) /\ Len(body) <= Len(Content(c)) /\ Len(Content(c)) \in Nat
    <2>1. body \o <<>> = body
      BY <1>5, FilesFacts
    <2>2. Content(c) = body \o c.blocks
      BY <1>3, <1>4, <2>1 DEF Content
    <2>3. Len(body \o c.blocks) = Len(body) + Len(c.blocks)
      BY <1>5, FilesFacts
    <2>4. PICK m \in Nat : m = Len(body)
      BY <1>5
    <2>5. PICK k \in Nat : k = Len(c.blocks)
      BY <1>5, FilesFacts
    <2>6. m + k \in Nat /\ m <= m + k
      OBVIOUS
    <2>7. Len(Content(c)) = m + k
      BY <2>2, <2>3, <2>4, <2>5
    <2>8. v.disk.units = Content(c)
      BY <1>3, <1>4, <2>2 DEF Replaced
    <2> QED BY <2>4, <2>6, <2>7, <2>8
  <1>7. v.disk.synced \in {Len(body), Len(Content(c))}
    BY <1>3, <1>4, <1>6 DEF Replaced
  <1>8. v.disk.synced \in 0..Len(v.disk.units)
    BY <1>5, <1>6, <1>7
  <1>9. w.srv.aof_state # "OFF" => w.srv.aof_fd = "open"
    BY <1>1 DEF StateOK
  <1>10. w.srv.aof_fd # "none" => Stream(v) = Content(c)
    <2>1. Content(c) \o <<>> = Content(c)
      BY <1>5, FilesFacts
    <2> QED BY <1>6, <2>1 DEF Replaced, Stream
  <1>11. v.srv.aof_buf \in Files /\ v.srv.aof_selected_db \in Dbs \cup {-1}
    BY <1>1, FilesFacts DEF FileOK, Replaced
  <1>12. v.srv.appendonly \/ v.srv.aof_state = "ON" => Shape(Stream(v))
    <2>1. CASE w.srv.aof_fd # "none"
      BY <1>3, <1>10, <2>1
    <2>2. CASE w.srv.aof_fd = "none"
      <3> SUFFICES ASSUME v.srv.appendonly \/ v.srv.aof_state = "ON" PROVE Shape(Stream(v))
        OBVIOUS
      <3>1. w.srv.aof_state = "OFF" /\ v.srv.appendonly = w.srv.appendonly /\ v.srv.aof_state = w.srv.aof_state /\ v.srv.aof_buf = w.srv.aof_buf
        BY <1>9, <2>2 DEF Replaced, SameSave
      <3>2. Shape(Stream(w)) /\ w.disk.units \in Files /\ w.srv.aof_buf \in Files
        BY <1>1, <3>1 DEF FileOK
      <3>3. Shape(w.srv.aof_buf)
        BY <3>2, ShapeRest DEF Stream
      <3>4. Stream(v) = Content(c) \o w.srv.aof_buf
        BY <1>6, <3>1 DEF Stream
      <3> QED BY <1>3, <3>3, <3>4, ShapeConcat
    <2> QED BY <2>1, <2>2
  <1>13. v.srv.aof_state \in {"OFF", "ON"} /\ (v.srv.aof_state = "OFF" <=> w.srv.aof_state = "OFF")
    BY <1>1 DEF FileOK, Replaced
  <1>14. FileOK(v)
    BY <1>1, <1>3, <1>5, <1>6, <1>8, <1>11, <1>12, <1>13 DEF FileOK, Replaced, SameSave
  <1>15. StateOK(v)
    BY <1>9, <1>13 DEF StateOK, Replaced
  <1>16. CountOK(v) /\ v.srv.data = d
    BY <1>1, <1>2, SameCount DEF Replaced, SameSave
  <1>17. CASE w.srv.aof_state = "OFF"
    BY <1>1, <1>2, <1>13, <1>14, <1>16, <1>17, OffRight DEF Kept, Replaced
  <1>18. CASE w.srv.aof_state # "OFF"
    <2>1. Rewritten(w) /\ v.rw = c
      BY <1>3, <1>18 DEF Rewritten, Replaced
    <2>2. Holds(Content(c), FALSE, d, d, w.srv.aof_selected_db) /\ Near(Content(c), Len(rewriteAppendOnlyFile(c.base)), P)
      BY <1>1, <1>2, <1>3, <2>1 DEF Follows, Log, Kept
    <2>3. Holds(Content(c), FALSE, d, d, -1) /\ loadAppendOnlyFile(Content(c)).data = d
      <3>1. PICK s \in Files : s = Content(c)
        BY <1>5
      <3>2. PICK sel : sel = w.srv.aof_selected_db
        OBVIOUS
      <3>3. Holds(s, FALSE, d, d, sel)
        BY <2>2, <3>1, <3>2
      <3>4. Holds(s, FALSE, d, d, -1) /\ loadAppendOnlyFile(s).data = d
        BY <3>3, HoldsClosed
      <3> QED BY <3>1, <3>4
    <2>4. Stream(v) = Content(c) /\ v.srv.aof_selected_db = -1 /\ v.srv.appendfsync = w.srv.appendfsync
      BY <1>9, <1>10, <1>18 DEF Replaced
    <2>5. w.srv.appendfsync = "always" => v.disk.synced = Len(v.disk.units)
      BY <1>9, <1>18 DEF Replaced
    <2>6. Near(Content(c), v.disk.synced, A)
      <3>1. CASE w.srv.appendfsync = "always"
        BY <1>1, <1>2, <1>5, <1>6, <2>3, <2>5, <3>1, NearAll
      <3>2. CASE w.srv.appendfsync # "always"
        <4>1. A = P
          BY <1>1, <3>2 DEF Kept
        <4>2. PICK from \in Nat : from = Len(rewriteAppendOnlyFile(c.base))
          BY <1>5
        <4>3. PICK from2 \in Nat : from2 = v.disk.synced /\ from <= from2
          BY <1>5, <1>6, <1>7, <4>2
        <4>4. Near(Content(c), from, A) /\ A \subseteq A
          BY <2>2, <4>1, <4>2
        <4>5. Near(Content(c), from2, A)
          BY ONLY <1>5, <4>3, <4>4, NearWeaker
        <4> QED BY <4>3, <4>5
      <3> QED BY <3>1, <3>2
    <2>7. Kept(v, P, A)
      BY <1>1, <2>1, <2>2, <2>4, <2>5, <2>6 DEF Kept
    <2>8. Follows(v)
      BY <1>16, <2>1, <2>3, <2>4 DEF Follows, Log
    <2> QED BY <1>1, <1>2, <1>14, <1>15, <1>16, <2>7, <2>8 DEF Right, Busy
  <1> QED BY <1>17, <1>18

LEMMA CleanupRight ==
    ASSUME NEW w, NEW P, NEW A, Right(w, P, A), NEW v, v = Cleanup(w)
    PROVE  Right(v, P, A)
  <1>1. FileOK(w) /\ StateOK(w) /\ Kept(w, P, A) /\ CountOK(w) /\ Follows(w) /\ w.srv.data \in A /\ IsWorld(w)
    BY DEF Right, Busy, FileOK
  <1>2. /\ IsWorld(v) /\ SameSave(v, w) /\ v.disk = w.disk /\ v.rw = NoChild
        /\ v.srv.aof_rewrite_scheduled = (w.srv.aof_rewrite_scheduled \/ w.srv.aof_state = "WAIT_REWRITE")
        /\ v.srv.aof_buf = w.srv.aof_buf /\ v.srv.aof_selected_db = w.srv.aof_selected_db /\ v.srv.up = w.srv.up
        /\ v.srv.aof_state = w.srv.aof_state /\ v.srv.aof_fd = w.srv.aof_fd
        /\ v.srv.appendfsync = w.srv.appendfsync /\ v.srv.open = w.srv.open
    BY <1>1 DEF Cleanup, IsWorld, SameSave, ServerFields
  <1>3. Stream(v) = Stream(w) /\ (Written(v) <=> Written(w)) /\ ~Rewritten(v)
    BY <1>2 DEF Stream, Written, Rewritten, Alive
  <1>4. FileOK(v)
    BY <1>1, <1>2, <1>3 DEF FileOK, SameSave, ChildFile
  <1>5. StateOK(v)
    BY <1>1, <1>2 DEF StateOK
  <1>6. Kept(v, P, A)
    BY <1>1, <1>2, <1>3 DEF Kept
  <1>7. Follows(v)
    BY <1>1, <1>2, <1>3 DEF Follows, Log, SameSave
  <1> QED BY <1>1, <1>2, <1>4, <1>5, <1>6, <1>7, SameCount DEF Right, Busy, SameSave

LEMMA DoneRight ==
    ASSUME NEW w, NEW P, NEW A, Right(w, P, A), w.srv.up, w.rw # NoChild, NEW good, NEW v, v = backgroundRewriteDoneHandler(w, good)
    PROVE  Right(v, P, A)
  <1>1. CASE w.rw.st # "ok" \/ ~good
    <2>1. v = Cleanup(w)
      BY <1>1 DEF backgroundRewriteDoneHandler
    <2> QED BY <2>1, CleanupRight
  <1>2. CASE w.rw.st = "ok" /\ good
    <2>1. IsWorld(w)
      BY DEF Right, Busy, FileOK
    <2>2. PICK u : Replaced(u, w) /\ v = Cleanup(u)
      BY <1>2, <2>1, DoneReplaces
    <2>3. Right(u, P, A)
      BY <1>2, <2>2, ReplacedRight
    <2> QED BY <2>2, <2>3, CleanupRight
  <1> QED BY <1>1, <1>2

---------------------------------------------------------------------------
(* What stays as it is *)

Keeps(v, w) == v.srv.appendfsync = w.srv.appendfsync /\ v.srv.data = w.srv.data

LEMMA FeedKeeps ==
    ASSUME NEW w, IsWorld(w), NEW db, NEW cmd, NEW v, v = feedAppendOnlyFile(w, db, cmd)
    PROVE  Keeps(v, w) /\ IsWorld(v) /\ v.srv.up = w.srv.up
  <1>1. CASE w.srv.aof_state = "OFF"
    BY <1>1 DEF feedAppendOnlyFile, Keeps
  <1>2. CASE w.srv.aof_state # "OFF"
    <2>1. PICK f : f = Fed(w.srv.aof_selected_db, db, cmd)
      OBVIOUS
    <2>2. Appended(v, w, db, f)
      BY <1>2, <2>1, FeedAppended
    <2> QED BY <2>2 DEF Appended, Keeps, SameSave
  <1> QED BY <1>1, <1>2

LEMMA BackgroundKeeps ==
    ASSUME NEW w, IsWorld(w), NEW v, v = rewriteAppendOnlyFileBackground(w)
    PROVE  Keeps(v, w) /\ v.srv.up = w.srv.up /\ v.srv.aof_buf = w.srv.aof_buf
  BY DEF Keeps, IsWorld, ServerFields, rewriteAppendOnlyFileBackground

LEMMA StartKeeps ==
    ASSUME NEW w, IsWorld(w), NEW v, v = startAppendOnly(w)
    PROVE  Keeps(v, w)
  BY DEF Keeps, IsWorld, ServerFields, rewriteAppendOnlyFileBackground, startAppendOnly

LEMMA DoneKeeps ==
    ASSUME NEW w, IsWorld(w), NEW good, NEW v, v = backgroundRewriteDoneHandler(w, good)
    PROVE  Keeps(v, w) /\ v.srv.up = w.srv.up /\ v.srv.aof_buf \in {w.srv.aof_buf, <<>>}
  <1>1. ASSUME NEW u, IsWorld(u) PROVE LET c == Cleanup(u) IN Keeps(c, u) /\ c.srv.up = u.srv.up /\ c.srv.aof_buf = u.srv.aof_buf
    BY <1>1 DEF Keeps, IsWorld, ServerFields, Cleanup
  <1>2. CASE w.rw.st # "ok" \/ ~good
    <2>1. v = Cleanup(w)
      BY <1>2 DEF backgroundRewriteDoneHandler
    <2> QED BY <1>1, <2>1
  <1>3. CASE w.rw.st = "ok" /\ good
    <2>1. PICK u : Replaced(u, w) /\ v = Cleanup(u)
      BY <1>3, DoneReplaces
    <2>2. IsWorld(u) /\ Keeps(u, w) /\ u.srv.up = w.srv.up /\ u.srv.aof_buf \in {w.srv.aof_buf, <<>>}
      BY <2>1 DEF Replaced, Keeps, SameSave
    <2> QED BY <1>1, <2>1, <2>2 DEF Keeps
  <1> QED BY <1>2, <1>3

---------------------------------------------------------------------------
(* Snapshots *)

LEMMA BgsaveFile ==
    ASSUME NEW w, NEW P, NEW A, Right(w, P, A), NEW v, v = rdbSaveBackground(w)
    PROVE  Right(v, P, A) /\ Keeps(v, w) /\ v.srv.up = w.srv.up /\ v.srv.aof_buf = w.srv.aof_buf
  <1>1. IsWorld(w) /\ CountOK(w) /\ w.srv.data \in Data
    BY DEF Right, Busy, FileOK
  <1>2. CASE w.rdbc # NoChild
    BY <1>2 DEF rdbSaveBackground, Keeps
  <1>3. CASE w.rdbc = NoChild
    <2>1. /\ IsWorld(v) /\ SameFile(v, w) /\ v.srv.data = w.srv.data /\ v.srv.dirty = w.srv.dirty /\ v.srv.dirty_before_bgsave = w.srv.dirty
          /\ v.rdbc.data = w.srv.data /\ v.disk = w.disk
      BY <1>1, <1>3 DEF rdbSaveBackground, IsWorld, ServerFields, SameFile
    <2>2. CountOK(v)
      BY <1>1, <2>1 DEF CountOK
    <2> QED BY <2>1, <2>2, SameFileRight DEF Keeps, SameFile
  <1> QED BY <1>2, <1>3

LEMMA SaveDoneFile ==
    ASSUME NEW w, NEW P, NEW A, Right(w, P, A), w.rdbc # NoChild, NEW v, v = backgroundSaveDoneHandlerDisk(w)
    PROVE  Right(v, P, A) /\ Keeps(v, w) /\ v.srv.up = w.srv.up /\ v.srv.aof_buf = w.srv.aof_buf
  <1>1. IsWorld(w) /\ CountOK(w)
    BY DEF Right, Busy, FileOK
  <1>2. /\ IsWorld(v) /\ SameFile(v, w) /\ v.srv.data = w.srv.data /\ v.rdbc = NoChild /\ v.disk = w.disk
        /\ v.srv.dirty = (IF w.rdbc.st = "ok" THEN w.srv.dirty - w.srv.dirty_before_bgsave ELSE w.srv.dirty)
        /\ v.srv.dirty_before_bgsave = w.srv.dirty_before_bgsave
    <2> DEFINE w1 == [w EXCEPT !.rdbc = NoChild]
    <2>1. IsWorld(w1) /\ w1.srv = w.srv /\ w1.disk = w.disk /\ w1.rdbc = NoChild /\ w1.rw = w.rw
      BY <1>1 DEF IsWorld
    <2>2. v = IF w.rdbc.st = "ok" THEN [w1 EXCEPT !.srv.dirty = @ - w.srv.dirty_before_bgsave, !.srv.lastbgsave_status = "OK"]
              ELSE IF w.rdbc.st = "err" THEN [w1 EXCEPT !.srv.lastbgsave_status = "ERR"] ELSE w1
      BY DEF backgroundSaveDoneHandlerDisk
    <2> HIDE DEF w1
    <2> QED BY <2>1, <2>2 DEF IsWorld, ServerFields, SameFile
  <1>3. CountOK(v)
    BY <1>1, <1>2 DEF CountOK
  <1> QED BY <1>2, <1>3, SameFileRight DEF Keeps, SameFile

LEMMA ChildrenFile ==
    ASSUME NEW w, NEW P, NEW A, Right(w, P, A), w.srv.up, NEW why, NEW v, v = CronChildren(w, why)
    PROVE  Right(v, P, A) /\ Keeps(v, w) /\ v.srv.aof_buf \in {w.srv.aof_buf, <<>>}
  <1> DEFINE b == IF w.rdbc = NoChild /\ w.rw = NoChild /\ w.srv.aof_rewrite_scheduled THEN rewriteAppendOnlyFileBackground(w) ELSE w
             IsZombie(c) == IF c = NoChild THEN FALSE ELSE Zombie(c)
  <1>1. v =
          IF b.rdbc # NoChild \/ b.rw # NoChild
          THEN CASE why = "rdb" /\ IsZombie(b.rdbc) -> backgroundSaveDoneHandlerDisk(b)
                 [] why \in {"aof", "aoferr"} /\ IsZombie(b.rw) -> backgroundRewriteDoneHandler(b, why = "aof")
                 [] OTHER -> b
          ELSE CASE why = "save" /\ w.srv.dirty > 0 /\ w.srv.saveparams -> rdbSaveBackground(b)
                 [] why = "growth" -> rewriteAppendOnlyFileBackground(b)
                 [] OTHER -> b
    BY DEF CronChildren
  <1>2. Right(b, P, A) /\ Keeps(b, w) /\ b.srv.up = w.srv.up /\ b.srv.aof_buf = w.srv.aof_buf
    <2>1. IsWorld(w)
      BY DEF Right, Busy, FileOK
    <2>2. CASE b = w
      BY <2>2 DEF Keeps
    <2>3. CASE b = rewriteAppendOnlyFileBackground(w)
      BY <2>1, <2>3, BackgroundRight, BackgroundKeeps
    <2> QED BY <2>2, <2>3
  <1> HIDE DEF b
  <1>3. IsWorld(b)
    BY <1>2 DEF Right, Busy, FileOK
  <1>4. \/ v = backgroundSaveDoneHandlerDisk(b) /\ b.rdbc # NoChild
        \/ v = backgroundRewriteDoneHandler(b, why = "aof") /\ b.rw # NoChild
        \/ v = rdbSaveBackground(b)
        \/ v = rewriteAppendOnlyFileBackground(b)
        \/ v = b
    <2>1. IsZombie(b.rdbc) => b.rdbc # NoChild
      OBVIOUS
    <2>2. IsZombie(b.rw) => b.rw # NoChild
      OBVIOUS
    <2> HIDE DEF IsZombie
    <2>3. CASE b.rdbc # NoChild \/ b.rw # NoChild
      <3>1. v = CASE why = "rdb" /\ IsZombie(b.rdbc) -> backgroundSaveDoneHandlerDisk(b)
                 [] why \in {"aof", "aoferr"} /\ IsZombie(b.rw) -> backgroundRewriteDoneHandler(b, why = "aof")
                 [] OTHER -> b
        BY <1>1, <2>3
      <3> QED BY <2>1, <2>2, <3>1
    <2>4. CASE ~(b.rdbc # NoChild \/ b.rw # NoChild)
      <3>1. v = CASE why = "save" /\ w.srv.dirty > 0 /\ w.srv.saveparams -> rdbSaveBackground(b)
                 [] why = "growth" -> rewriteAppendOnlyFileBackground(b)
                 [] OTHER -> b
        BY <1>1, <2>4
      <3> QED BY <3>1
    <2> QED BY <2>3, <2>4
  <1>5. Right(v, P, A) /\ Keeps(v, b) /\ v.srv.aof_buf \in {b.srv.aof_buf, <<>>}
    <2>1. CASE v = backgroundSaveDoneHandlerDisk(b) /\ b.rdbc # NoChild
      BY <1>2, <2>1, SaveDoneFile
    <2>2. CASE v = backgroundRewriteDoneHandler(b, why = "aof") /\ b.rw # NoChild
      <3>1. PICK good : good = (why = "aof")
        OBVIOUS
      <3>2. v = backgroundRewriteDoneHandler(b, good)
        BY <2>2, <3>1
      <3>3. Right(v, P, A)
        <4>1. b.srv.up
          BY <1>2
        <4> QED BY <1>2, <2>2, <3>2, <4>1, DoneRight
      <3>4. Keeps(v, b) /\ v.srv.aof_buf \in {b.srv.aof_buf, <<>>}
        BY <1>3, <3>2, DoneKeeps
      <3> QED BY <3>3, <3>4
    <2>3. CASE v = rdbSaveBackground(b)
      BY <1>2, <2>3, BgsaveFile
    <2>4. CASE v = rewriteAppendOnlyFileBackground(b)
      BY <1>2, <1>3, <2>4, BackgroundRight, BackgroundKeeps
    <2>5. CASE v = b
      BY <1>2, <2>5 DEF Keeps
    <2> QED BY <1>4, <2>1, <2>2, <2>3, <2>4, <2>5
  <1> QED BY <1>2, <1>5 DEF Keeps

---------------------------------------------------------------------------
(* The history *)

LEMMA AfterFacts ==
    ASSUME NEW past \in Seq(Data), NEW from \in 0..Len(past)
    PROVE  /\ \A x \in Data : After(Append(past, x), from) = After(past, from) \cup {x}
           /\ Len(past) > 0 => After(past, Len(past)) = {past[Len(past)]}
  <1>1. PICK n \in Nat : n = Len(past)
    BY LenProperties
  <1>2. ASSUME NEW x \in Data PROVE After(Append(past, x), from) = After(past, from) \cup {x}
    <2>1. PICK p : p = Append(past, x)
      OBVIOUS
    <2>2. Len(p) = n + 1 /\ p[n + 1] = x /\ \A i \in 1..n : p[i] = past[i]
      BY <1>1, <2>1, AppendProperties
    <2>3. \A i \in 1..(n + 1) : i = n + 1 \/ i \in 1..n
      OBVIOUS
    <2>4. n + 1 \in 1..(n + 1) /\ n + 1 >= from /\ 1..n \subseteq 1..(n + 1)
      BY <1>1
    <2>5. After(p, from) = After(past, from) \cup {x}
      BY <1>1, <2>2, <2>3, <2>4 DEF After
    <2> QED BY <2>1, <2>5
  <1>3. ASSUME n > 0 PROVE After(past, n) = {past[n]}
    <2>1. {j \in 1..n : j >= n} = {n}
      BY <1>3
    <2> QED BY <1>1, <2>1, Zenon DEF After
  <1> QED BY <1>1, <1>2, <1>3

LEMMA BecomeRight ==
    ASSUME NEW v, NEW P, NEW A, Right(v, P, A), Become(v)
    PROVE  Right(World', P, A)
  <1>1. /\ World'.srv = v.srv /\ World'.rw = v.rw /\ World'.rdbc = v.rdbc /\ World'.disk = v.disk
        /\ DOMAIN World' = {"srv", "rw", "rdbc", "disk", "jobs"}
    BY DEF Become, World
  <1>2. PICK u : u = World'
    OBVIOUS
  <1>3. IsWorld(v) /\ CountOK(v)
    BY DEF Right, Busy, FileOK
  <1>4. IsWorld(u) /\ SameFile(u, v) /\ u.srv.data = v.srv.data /\ CountOK(u)
    BY <1>1, <1>2, <1>3 DEF IsWorld, SameFile, CountOK
  <1>5. Right(u, P, A)
    BY <1>4, SameFileRight
  <1> QED BY <1>2, <1>5

\* A step without a command.
LEMMA StepInv ==
    ASSUME AppendInv, NEW v, Right(v, Past, Answered), Keeps(v, World), Become(v), UNCHANGED hist, LeftOK'
    PROVE  AppendInv'
  <1>1. Right(World', Past, Answered)
    BY BecomeRight
  <1>2. srv'.appendfsync = srv.appendfsync /\ srv'.data = srv.data
    BY WorldFields DEF Keeps, Become
  <1>3. Past' = Past /\ Answered' = Answered
    BY <1>2 DEF Past, Answered
  <1>4. HistOK'
    BY <1>2 DEF AppendInv, HistOK
  <1>5. Right(World', Past', Answered')
    BY <1>1, <1>3
  <1> QED BY <1>4, <1>5 DEF AppendInv

\* A command.
LEMMA CommandInv ==
    ASSUME AppendInv, NEW v, NEW x, x \in Data, v.srv.data = x, Right(v, Past \cup {x}, Answered \cup {x}),
           v.srv.appendfsync = srv.appendfsync, Become(v), hist' = [hist EXCEPT !.past = Append(@, x), !.pending = TRUE], LeftOK'
    PROVE  AppendInv'
  <1>1. Right(World', Past \cup {x}, Answered \cup {x})
    BY BecomeRight
  <1>2. srv'.appendfsync = srv.appendfsync /\ srv'.data = x
    BY DEF Become
  <1>3. PICK past \in Seq(Data) : past = hist.past
    BY DEF AppendInv, HistOK
  <1>4. hist.acked \in 0..Len(past) /\ Len(past) \in Nat /\ DOMAIN hist = {"past", "acked", "pending"}
    BY <1>3, LenProperties DEF AppendInv, HistOK
  <1>5. hist'.past = Append(past, x) /\ hist'.acked = hist.acked /\ DOMAIN hist' = {"past", "acked", "pending"}
    BY <1>3, <1>4
  <1>6. PICK from \in 0..Len(past) : from = IF srv.appendfsync = "always" THEN hist.acked ELSE 0
    BY <1>4
  <1>7. 0 \in 0..Len(past)
    BY <1>4
  <1>8. Past' = Past \cup {x}
    BY <1>3, <1>5, <1>7, AfterFacts DEF Past
  <1>9. Answered' = Answered \cup {x}
    <2>1. Answered = After(past, from) /\ Answered' = After(Append(past, x), from)
      BY <1>2, <1>3, <1>5, <1>6 DEF Answered
    <2> QED BY <2>1, AfterFacts
  <1>10. HistOK'
    <2>1. PICK p : p = Append(past, x)
      OBVIOUS
    <2>2. PICK n \in Nat : n = Len(past)
      BY <1>4
    <2>3. p \in Seq(Data) /\ Len(p) = n + 1 /\ p[n + 1] = x
      BY <2>1, <2>2, AppendProperties
    <2>4. hist'.acked \in 0..(n + 1) /\ n + 1 > 0
      BY <1>4, <1>5, <2>2
    <2>5. hist'.past = p /\ p[Len(p)] = srv'.data
      BY <1>2, <1>5, <2>1, <2>3
    <2> QED BY <1>5, <2>3, <2>4, <2>5 DEF HistOK
  <1>11. Right(World', Past', Answered')
    BY <1>1, <1>8, <1>9
  <1> QED BY <1>10, <1>11 DEF AppendInv

LEMMA SpendLeft ==
    ASSUME LeftOK, NEW what, Spend(what)
    PROVE  LeftOK'
  <1>1. left' = [left EXCEPT ![what] = left[what] - 1] /\ left[what] > 0 /\ "writes" \in DOMAIN left /\ left.writes \in Nat
    BY DEF LeftOK, Spend
  <1>2. DOMAIN left' = DOMAIN left /\ left'.writes = IF what = "writes" THEN left.writes - 1 ELSE left.writes
    BY <1>1
  <1> QED BY <1>1, <1>2 DEF LeftOK

---------------------------------------------------------------------------
(* The commands *)

LEMMA InvFacts ==
    ASSUME AppendInv
    PROVE  /\ Right(World, Past, Answered) /\ HistOK /\ LeftOK /\ FileOK(World) /\ CountOK(World) /\ IsWorld(World)
           /\ srv.data \in Data /\ srv.data \in Answered /\ srv.dirty \in Nat
  BY WorldFields DEF AppendInv, Right, Busy, FileOK, CountOK

\* A change of the data before it is written to the files.
Changed(x, k) == [World EXCEPT !.srv.data = x, !.srv.dirty = @ + k]
Begins(d, x, P, A) ==
    /\ IsWorld(d) /\ d.srv.data = x /\ d.srv.appendfsync = srv.appendfsync
    /\ Busy(d, P, A) /\ Log(d, FALSE, srv.data, srv.data) /\ srv.data \in A /\ x \in A

LEMMA ChangeBegins ==
    ASSUME AppendInv, srv.up, NEW x \in Data, NEW k \in Nat, NEW d, d = Changed(x, k)
    PROVE  Begins(d, x, Past \cup {x}, Answered \cup {x})
  <1>1. PICK w : w = World
    OBVIOUS
  <1>2. PICK P : P = Past
    OBVIOUS
  <1>3. PICK A : A = Answered
    OBVIOUS
  <1>4. Right(w, P, A) /\ CountOK(w) /\ IsWorld(w) /\ w.srv = srv /\ w.srv.dirty \in Nat
    BY <1>1, <1>2, <1>3, InvFacts, WorldFields
  <1>5. /\ IsWorld(d) /\ SameFile(d, w) /\ d.srv.data = x /\ d.srv.dirty = w.srv.dirty + k
        /\ d.srv.dirty_before_bgsave = w.srv.dirty_before_bgsave /\ d.rdbc = w.rdbc /\ d.disk = w.disk
    BY <1>1, <1>4 DEF IsWorld, ServerFields, SameFile, Changed
  <1>6. CountOK(d)
    BY <1>4, <1>5 DEF CountOK
  <1>7. /\ Busy(d, P \cup {x}, A \cup {x}) /\ w.srv.data \in A \cup {x}
        /\ w.srv.up => Log(d, FALSE, w.srv.data, w.srv.data)
    BY <1>4, <1>5, <1>6, CommandBegins
  <1> QED BY <1>2, <1>3, <1>4, <1>5, <1>7 DEF SameFile, Begins

\* A command that the files have seen as a whole.
LEMMA CommandRight ==
    ASSUME NEW v, NEW P, NEW A, NEW x \in A, v.srv.data = x, Busy(v, P, A), Log(v, FALSE, x, x)
    PROVE  Right(v, P, A)
  BY DEF Right, Follows

LEMMA WriteInv == ASSUME AppendInv, NEW db \in Dbs, Write(db) PROVE AppendInv'
  <1>1. PICK id \in Nat : id = left.writes
    BY DEF AppendInv, LeftOK
  <1>2. PICK x : x = srv.data \cup {<<id, db>>}
    OBVIOUS
  <1>3. x \in Data
    BY <1>2, InvFacts, DataFacts
  <1>4. PICK d : d = Changed(x, 1)
    OBVIOUS
  <1>5. PICK v : v = feedAppendOnlyFile(d, db, Halves(id))
    OBVIOUS
  <1>6. srv.up /\ Spend("writes") /\ Become(v) /\ Executed(v)
    <2>1. d = [World EXCEPT !.srv.data = @ \cup {<<id, db>>}, !.srv.dirty = @ + 1]
      BY <1>2, <1>4, WorldFields DEF Changed
    <2> QED BY <1>1, <1>5, <2>1 DEF Write, Accepted
  <1>7. PICK P : P = Past \cup {x}
    OBVIOUS
  <1>8. PICK A : A = Answered \cup {x}
    OBVIOUS
  <1>9. IsWorld(d) /\ d.srv.data = x /\ d.srv.appendfsync = srv.appendfsync /\ Busy(d, P, A) /\ Log(d, FALSE, srv.data, srv.data)
        /\ srv.data \in A /\ x \in A
    <2>1. 1 \in Nat
      OBVIOUS
    <2>2. Begins(d, x, P, A)
      BY <1>3, <1>4, <1>6, <1>7, <1>8, <2>1, ChangeBegins
    <2> QED BY <2>2 DEF Begins
  <1>10. Busy(v, P, A) /\ Log(v, FALSE, x, x)
    BY <1>2, <1>5, <1>9, FedWrite
  <1>11. v.srv.data = x /\ v.srv.appendfsync = srv.appendfsync
    BY <1>5, <1>9, FeedKeeps DEF Keeps
  <1>12. Right(v, P, A)
    BY <1>9, <1>10, <1>11, CommandRight
  <1>13. LeftOK'
    BY <1>6, SpendLeft, InvFacts
  <1>14. hist' = [hist EXCEPT !.past = Append(@, x), !.pending = TRUE]
    BY <1>6, <1>11 DEF Executed
  <1> QED BY <1>3, <1>6, <1>7, <1>8, <1>11, <1>12, <1>13, <1>14, CommandInv

LEMMA ExecInv == ASSUME AppendInv, NEW db1 \in Dbs, NEW db2 \in Dbs, execCommand(db1, db2) PROVE AppendInv'
  <1>1. PICK id \in Nat : id = left.writes /\ id - 1 \in Nat /\ id > 1
    BY DEF AppendInv, LeftOK, execCommand
  <1>2. PICK y : y = srv.data \cup {<<id, db1>>}
    OBVIOUS
  <1>3. PICK x : x = y \cup {<<id - 1, db2>>}
    OBVIOUS
  <1>4. y \in Data /\ x \in Data
    BY <1>1, <1>2, <1>3, InvFacts, DataFacts
  <1>5. PICK d : d = Changed(x, 2)
    OBVIOUS
  <1>6. PICK v1 : v1 = feedAppendOnlyFile(d, db1, <<[k |-> "multi"]>>)
    OBVIOUS
  <1>7. PICK v2 : v2 = feedAppendOnlyFile(v1, db1, Halves(id))
    OBVIOUS
  <1>8. PICK v3 : v3 = feedAppendOnlyFile(v2, db2, Halves(id - 1))
    OBVIOUS
  <1>9. PICK v : v = feedAppendOnlyFile(v3, db2, <<[k |-> "exec"]>>)
    OBVIOUS
  <1>10. srv.up /\ left' = [left EXCEPT !.writes = @ - 2, !.txs = @ - 1] /\ Become(v) /\ Executed(v)
    <2>1. d = [World EXCEPT !.srv.data = @ \cup {<<id, db1>>, <<id - 1, db2>>}, !.srv.dirty = @ + 2]
      <3>1. x = srv.data \cup {<<id, db1>>, <<id - 1, db2>>}
        BY <1>2, <1>3
      <3> QED BY <1>5, <3>1, WorldFields DEF Changed
    <2> QED BY <1>1, <1>6, <1>7, <1>8, <1>9, <2>1, Zenon DEF execCommand, Accepted
  <1>11. PICK P : P = Past \cup {x}
    OBVIOUS
  <1>12. PICK A : A = Answered \cup {x}
    OBVIOUS
  <1>13. Begins(d, x, P, A)
    <2>1. 2 \in Nat
      OBVIOUS
    <2> QED BY <1>4, <1>5, <1>10, <1>11, <1>12, <2>1, ChangeBegins
  <1>14. PICK b : b = srv.data
    OBVIOUS
  <1>15. IsWorld(d) /\ d.srv.data = x /\ d.srv.appendfsync = srv.appendfsync /\ Busy(d, P, A) /\ Log(d, FALSE, b, b) /\ b \in A /\ x \in A
    BY <1>13, <1>14 DEF Begins
  <1>16. Busy(v1, P, A) /\ Log(v1, TRUE, b, b)
    BY <1>6, <1>15, FedMulti
  <1>17. Busy(v2, P, A) /\ Log(v2, TRUE, b, y)
    <2>1. PICK o : o = TRUE
      OBVIOUS
    <2>2. b = IF o THEN b ELSE y
      BY <2>1
    <2>3. Log(v1, o, b, b)
      BY <1>16, <2>1
    <2>4. Busy(v2, P, A) /\ Log(v2, o, b, y)
      BY <1>2, <1>7, <1>14, <1>15, <1>16, <2>2, <2>3, FedWrite
    <2> QED BY <2>1, <2>4
  <1>18. Busy(v3, P, A) /\ Log(v3, TRUE, b, x)
    <2>1. PICK o : o = TRUE
      OBVIOUS
    <2>2. b = IF o THEN b ELSE x
      BY <2>1
    <2>3. Log(v2, o, b, y)
      BY <1>17, <2>1
    <2>4. PICK i \in Nat : i = id - 1
      BY <1>1
    <2>5. x = y \cup {<<i, db2>>} /\ v3 = feedAppendOnlyFile(v2, db2, Halves(i))
      BY <1>3, <1>8, <2>4
    <2>6. Busy(v3, P, A) /\ Log(v3, o, b, x)
      BY <1>15, <1>17, <2>2, <2>3, <2>5, FedWrite, ZenonT(30)
    <2> QED BY <2>1, <2>6
  <1>19. Busy(v, P, A) /\ Log(v, FALSE, x, x)
    BY <1>9, <1>15, <1>18, FedExec
  <1>20. v.srv.data = x /\ v.srv.appendfsync = srv.appendfsync
    <2>1. Keeps(v1, d) /\ IsWorld(v1)
      BY <1>6, <1>15, FeedKeeps
    <2>2. Keeps(v2, v1) /\ IsWorld(v2)
      BY <1>7, <2>1, FeedKeeps
    <2>3. Keeps(v3, v2) /\ IsWorld(v3)
      BY <1>8, <2>2, FeedKeeps
    <2>4. Keeps(v, v3)
      BY <1>9, <2>3, FeedKeeps
    <2> QED BY <1>15, <2>1, <2>2, <2>3, <2>4 DEF Keeps
  <1>21. Right(v, P, A)
    BY <1>15, <1>19, <1>20, CommandRight
  <1>22. LeftOK'
    <2>1. "writes" \in DOMAIN left /\ left.writes \in Nat /\ left.writes > 1
      BY <1>1, InvFacts DEF LeftOK
    <2> QED BY <1>10, <2>1 DEF LeftOK
  <1>23. hist' = [hist EXCEPT !.past = Append(@, x), !.pending = TRUE]
    BY <1>10, <1>20 DEF Executed
  <1> QED BY <1>4, <1>10, <1>11, <1>12, <1>20, <1>21, <1>22, <1>23, CommandInv

LEMMA FlushallInv == ASSUME AppendInv, NEW good \in BOOLEAN, flushallCommand(good) PROVE AppendInv'
  <1> DEFINE a == [World EXCEPT !.srv.data = {}, !.srv.dirty = @ + Cardinality(srv.data)]
             d == KillSave(a)
             s == IF srv.saveparams THEN rdbSave(d, good) ELSE d
             e == [s EXCEPT !.srv.dirty = d.srv.dirty + 1]
             f == feedAppendOnlyFile(e, 0, <<[k |-> "flush"]>>)
  <1>1. /\ srv.up /\ left' = [left EXCEPT !.flushes = @ - 1, !.fails = IF good THEN @ ELSE @ - 1] /\ Become(f) /\ Executed(f)
    BY Zenon DEF flushallCommand, Accepted
  <1>2. PICK w : w = World
    OBVIOUS
  <1>3. PICK n \in Nat : n = Cardinality(srv.data)
    BY InvFacts, DataFacts
  <1>4. IsWorld(w) /\ CountOK(w) /\ w.srv = srv /\ w.srv.dirty \in Nat /\ w.srv.dirty_before_bgsave \in Nat /\ w.disk.rdb \in Data
    BY <1>2, InvFacts, WorldFields DEF CountOK
  <1>5. /\ IsWorld(a) /\ SameFile(a, w) /\ a.srv.data = {} /\ a.srv.dirty = w.srv.dirty + n
        /\ a.srv.dirty_before_bgsave = w.srv.dirty_before_bgsave /\ a.rdbc = w.rdbc /\ a.disk = w.disk
    BY <1>2, <1>3, <1>4 DEF IsWorld, ServerFields, SameFile
  <1> HIDE DEF a
  <1>6. /\ IsWorld(d) /\ d.srv = a.srv /\ d.disk = a.disk /\ d.rw = a.rw
        /\ d.rdbc = IF a.rdbc = NoChild THEN NoChild ELSE IF a.rdbc.st = "run" THEN [st |-> "sig", data |-> a.rdbc.data] ELSE a.rdbc
    BY <1>5 DEF KillSave, IsWorld
  <1> HIDE DEF d
  <1>7. /\ IsWorld(e) /\ SameFile(e, d) /\ e.srv.data = d.srv.data /\ e.srv.dirty = d.srv.dirty + 1
        /\ e.srv.dirty_before_bgsave = d.srv.dirty_before_bgsave /\ e.rdbc = d.rdbc /\ e.disk.rdb \in {d.disk.rdb, d.srv.data}
    <2>1. /\ IsWorld(s) /\ SameFile(s, d) /\ s.srv.data = d.srv.data
          /\ s.srv.dirty_before_bgsave = d.srv.dirty_before_bgsave /\ s.rdbc = d.rdbc /\ s.disk.rdb \in {d.disk.rdb, d.srv.data}
      BY <1>6 DEF rdbSave, IsWorld, ServerFields, SameFile
    <2> HIDE DEF s
    <2> QED BY <2>1 DEF IsWorld, ServerFields, SameFile
  <1> HIDE DEF e, s
  <1>8. SameFile(e, w) /\ e.srv.data = {} /\ {} \in Data
    BY <1>5, <1>6, <1>7, DataFacts DEF SameFile
  <1>9. CountOK(e)
    <2>1. e.srv.dirty \in Nat /\ e.srv.dirty >= w.srv.dirty /\ e.srv.dirty_before_bgsave = w.srv.dirty_before_bgsave
      BY <1>4, <1>5, <1>6, <1>7
    <2>2. e.disk.rdb \in Data
      BY <1>4, <1>5, <1>6, <1>7, <1>8
    <2>3. ASSUME e.rdbc # NoChild
          PROVE  (e.rdbc.st \in {"run", "ok"} => e.srv.dirty_before_bgsave <= e.srv.dirty) /\ e.rdbc.data \in Data
      <3>1. w.rdbc # NoChild /\ e.rdbc.data = w.rdbc.data /\ e.rdbc.st \in {w.rdbc.st, "sig"}
        BY <1>5, <1>6, <1>7, <2>3
      <3> QED BY <1>4, <2>1, <3>1 DEF CountOK
    <2> QED BY <1>4, <2>1, <2>2, <2>3 DEF CountOK
  <1>10. PICK v : v = f
    OBVIOUS
  <1>11. PICK x : x = {}
    OBVIOUS
  <1>12. PICK P : P = Past \cup {x}
    OBVIOUS
  <1>13. PICK A : A = Answered \cup {x}
    OBVIOUS
  <1>14. PICK b : b = srv.data
    OBVIOUS
  <1>15. Busy(e, P, A) /\ Log(e, FALSE, b, b) /\ b \in A /\ x \in A
    <2>1. Right(w, Past, Answered) /\ e.srv.data \in Data
      BY <1>2, <1>8, InvFacts
    <2>2. /\ Busy(e, Past \cup {x}, Answered \cup {x}) /\ w.srv.data \in Answered \cup {x}
          /\ w.srv.up => Log(e, FALSE, w.srv.data, w.srv.data)
      BY <1>7, <1>8, <1>9, <2>1, CommandBegins
    <2> QED BY <1>1, <1>4, <1>12, <1>13, <1>14, <2>2
  <1>16. 0 \in Dbs
    BY SizesAssumption DEF Dbs
  <1>17. Busy(v, P, A) /\ Log(v, FALSE, x, x)
    BY <1>10, <1>11, <1>15, <1>16, FedFlush
  <1>18. v.srv.data = x /\ v.srv.appendfsync = srv.appendfsync
    <2>1. Keeps(v, e)
      BY <1>7, <1>10, FeedKeeps
    <2> QED BY <1>4, <1>8, <1>11, <2>1 DEF Keeps, SameFile
  <1>19. Right(v, P, A)
    BY <1>15, <1>17, <1>18, CommandRight
  <1>20. LeftOK'
    <2>1. "writes" \in DOMAIN left /\ left.writes \in Nat
      BY InvFacts DEF LeftOK
    <2> QED BY <1>1, <2>1 DEF LeftOK
  <1> HIDE DEF f
  <1>21. hist' = [hist EXCEPT !.past = Append(@, x), !.pending = TRUE]
    BY <1>1, <1>10, <1>18 DEF Executed
  <1> QED BY <1>1, <1>8, <1>10, <1>11, <1>12, <1>13, <1>18, <1>19, <1>20, <1>21, CommandInv

LEMMA SaveInv == ASSUME AppendInv, NEW good \in BOOLEAN, saveCommand(good) PROVE AppendInv'
  <1> DEFINE v == rdbSave(World, good)
  <1>1. /\ Become(v) /\ rdbc = NoChild /\ UNCHANGED hist
        /\ left' = [left EXCEPT !.saves = @ - 1, !.fails = IF good THEN @ ELSE @ - 1]
    BY Zenon DEF saveCommand
  <1>2. PICK w : w = World
    OBVIOUS
  <1>3. /\ IsWorld(w) /\ w.srv.data \in Data /\ w.rdbc = NoChild /\ CountOK(w) /\ w.srv.dirty \in Nat
        /\ w.srv.dirty_before_bgsave \in Nat /\ w.disk.rdb \in Data
    BY <1>1, <1>2, InvFacts, WorldFields DEF CountOK
  <1>4. /\ IsWorld(v) /\ SameFile(v, w) /\ v.srv.data = w.srv.data /\ v.srv.dirty \in {0, w.srv.dirty}
        /\ v.srv.dirty_before_bgsave = w.srv.dirty_before_bgsave /\ v.rdbc = w.rdbc /\ v.disk.rdb \in {w.disk.rdb, w.srv.data}
    BY <1>2, <1>3 DEF rdbSave, IsWorld, ServerFields, SameFile
  <1> HIDE DEF v
  <1>5. CountOK(v)
    BY <1>3, <1>4 DEF CountOK
  <1>6. Right(w, Past, Answered)
    BY <1>2, InvFacts
  <1>7. Right(v, Past, Answered)
    BY <1>4, <1>5, <1>6, SameFileRight
  <1>8. Keeps(v, World)
    BY <1>2, <1>4 DEF Keeps, SameFile
  <1>9. LeftOK'
    <2>1. "writes" \in DOMAIN left /\ left.writes \in Nat
      BY InvFacts DEF LeftOK
    <2> QED BY <1>1, <2>1 DEF LeftOK
  <1> QED BY <1>1, <1>7, <1>8, <1>9, StepInv

LEMMA BgsaveInv == ASSUME AppendInv, bgsaveCommand PROVE AppendInv'
  <1>1. PICK v : v = rdbSaveBackground(World)
    OBVIOUS
  <1>2. Become(v) /\ Spend("saves") /\ UNCHANGED hist
    BY <1>1 DEF bgsaveCommand
  <1>3. Right(v, Past, Answered) /\ Keeps(v, World)
    BY <1>1, InvFacts, BgsaveFile
  <1>4. LeftOK'
    BY <1>2, SpendLeft, InvFacts
  <1> QED BY <1>2, <1>3, <1>4, StepInv

\* v is w with a rewrite scheduled.
ScheduledSame(v, w) ==
    /\ SameSave(v, w) /\ v.rw = w.rw /\ v.disk = w.disk /\ v.srv.aof_rewrite_scheduled
    /\ v.srv.up = w.srv.up /\ v.srv.aof_state = w.srv.aof_state /\ v.srv.aof_fd = w.srv.aof_fd /\ v.srv.aof_buf = w.srv.aof_buf
    /\ v.srv.aof_selected_db = w.srv.aof_selected_db /\ v.srv.appendfsync = w.srv.appendfsync /\ v.srv.open = w.srv.open

LEMMA ScheduledRight ==
    ASSUME NEW v, NEW w, NEW P, NEW A, Right(w, P, A), IsWorld(v), ScheduledSame(v, w)
    PROVE  Right(v, P, A) /\ Keeps(v, w)
  <1>1. FileOK(w) /\ StateOK(w) /\ Kept(w, P, A) /\ CountOK(w) /\ Follows(w) /\ w.srv.data \in A
    BY DEF Right, Busy
  <1>2. Stream(v) = Stream(w) /\ (Written(v) <=> Written(w)) /\ (Rewritten(v) <=> Rewritten(w))
    BY DEF Stream, Written, Rewritten, ScheduledSame
  <1>3. FileOK(v)
    BY <1>1, <1>2 DEF FileOK, ScheduledSame, SameSave
  <1>4. StateOK(v)
    BY <1>1 DEF StateOK, ScheduledSame
  <1>5. Kept(v, P, A)
    BY <1>1, <1>2 DEF Kept, ScheduledSame
  <1>6. Follows(v)
    BY <1>1, <1>2 DEF Follows, Log, ScheduledSame, SameSave
  <1>7. CountOK(v)
    BY <1>1, SameCount DEF ScheduledSame
  <1> QED BY <1>1, <1>3, <1>4, <1>5, <1>6, <1>7 DEF Right, Busy, Keeps, ScheduledSame, SameSave

LEMMA BgrewriteaofInv == ASSUME AppendInv, bgrewriteaofCommand PROVE AppendInv'
  <1>1. PICK v : v = IF rdbc # NoChild THEN [World EXCEPT !.srv.aof_rewrite_scheduled = TRUE] ELSE rewriteAppendOnlyFileBackground(World)
    OBVIOUS
  <1>2. Become(v) /\ Spend("rewrites") /\ UNCHANGED hist
    BY <1>1 DEF bgrewriteaofCommand
  <1>3. LeftOK'
    BY <1>2, SpendLeft, InvFacts
  <1>4. PICK w : w = World
    OBVIOUS
  <1>5. Right(w, Past, Answered) /\ IsWorld(w)
    BY <1>4, InvFacts
  <1>6. CASE rdbc # NoChild
    <2>1. v = [w EXCEPT !.srv.aof_rewrite_scheduled = TRUE]
      BY <1>1, <1>4, <1>6
    <2>2. ScheduledSame(v, w) /\ IsWorld(v)
      BY <1>5, <2>1 DEF ScheduledSame, IsWorld, ServerFields, SameSave
    <2>3. Right(v, Past, Answered) /\ Keeps(v, w)
      BY <1>5, <2>2, ScheduledRight
    <2> QED BY <1>2, <1>3, <1>4, <2>3, StepInv
  <1>7. CASE rdbc = NoChild
    <2>1. v = rewriteAppendOnlyFileBackground(w)
      BY <1>1, <1>4, <1>7
    <2>2. Right(v, Past, Answered) /\ Keeps(v, w)
      BY <1>5, <2>1, BackgroundRight, BackgroundKeeps
    <2> QED BY <1>2, <1>3, <1>4, <2>2, StepInv
  <1> QED BY <1>6, <1>7

LEMMA TakesFacts ==
    ASSUME AppendInv, NEW n \in Takes(World)
    PROVE  n \in 0..Len(World.srv.aof_buf) /\ Len(World.srv.aof_buf) \in Nat
  <1>1. World.srv.aof_buf \in Files
    BY InvFacts DEF FileOK
  <1>2. PICK m \in Nat : m = Len(World.srv.aof_buf)
    BY <1>1, FilesFacts
  <1>3. n = m \/ n \in {0, 1} \cap 0..(m - 1)
    BY <1>2 DEF Takes
  <1>4. n \in 0..m
    BY <1>3
  <1> QED BY <1>2, <1>4

LEMMA ConfigInv == ASSUME AppendInv, configSetAppendonly PROVE AppendInv'
  <1>1. Spend("configs") /\ UNCHANGED hist
    BY DEF configSetAppendonly
  <1>2. LeftOK'
    BY <1>1, SpendLeft, InvFacts
  <1>3. PICK w : w = World
    OBVIOUS
  <1>4. Right(w, Past, Answered) /\ IsWorld(w) /\ Busy(w, Past, Answered) /\ w.srv.data \in Answered /\ w.srv = srv
    BY <1>3, InvFacts, WorldFields DEF Right
  <1>5. ASSUME NEW n \in Takes(World), NEW reaped \in Reaps(World), Become(stopAppendOnly(World, n, reaped)) PROVE AppendInv'
    <2>1. n \in 0..Len(w.srv.aof_buf) /\ reaped \in Reaps(w)
      BY <1>3, TakesFacts
    <2>2. PICK v : v = stopAppendOnly(w, n, reaped)
      OBVIOUS
    <2>3. Right(v, Past, Answered) /\ v.srv.data = w.srv.data /\ v.srv.appendfsync = w.srv.appendfsync
      BY <1>4, <2>1, <2>2, StopFile
    <2>4. Keeps(v, World) /\ Become(v)
      BY <1>3, <1>5, <2>2, <2>3 DEF Keeps
    <2> QED BY <1>1, <1>2, <2>3, <2>4, StepInv
  <1>6. ASSUME srv.aof_state = "OFF", Become(startAppendOnly(World)) PROVE AppendInv'
    <2>1. PICK v : v = startAppendOnly(w)
      OBVIOUS
    <2>2. Right(v, Past, Answered)
      BY <1>4, <1>6, <2>1, StartFile
    <2>3. Keeps(v, World) /\ Become(v)
      BY <1>3, <1>4, <1>6, <2>1, StartKeeps
    <2> QED BY <1>1, <1>2, <2>2, <2>3, StepInv
  <1> QED BY <1>5, <1>6 DEF configSetAppendonly

\* The file is stopped with what it has and started again with the new data.
LEMMA ResyncInv == ASSUME AppendInv, readSyncBulkPayload PROVE AppendInv'
  <1>1. PICK x : x = {<<0, 0>>}
    OBVIOUS
  <1>2. x \in Data
    <2>1. {} \in Data /\ 0 \in Nat /\ 0 \in Dbs /\ x = {} \cup {<<0, 0>>}
      BY <1>1, DataFacts, SizesAssumption DEF Dbs
    <2> QED BY <2>1, DataFacts
  <1>3. PICK w : w = [World EXCEPT !.srv.data = x, !.disk.rdb = x, !.srv.resynced = @ \/ rdbc # NoChild]
    OBVIOUS
  <1>4. /\ srv.up /\ Spend("resyncs") /\ Executed(w)
        /\ \/ srv.aof_state = "OFF" /\ Become(w)
           \/ \E n \in Takes(World), reaped \in Reaps(World) :
                Become(IF stopAppendOnly(w, n, reaped).srv.up THEN startAppendOnly(stopAppendOnly(w, n, reaped)) ELSE stopAppendOnly(w, n, reaped))
    BY <1>1, <1>3, Zenon DEF readSyncBulkPayload
  <1>5. PICK b : b = World
    OBVIOUS
  <1>6. Right(b, Past, Answered) /\ IsWorld(b) /\ CountOK(b) /\ b.srv = srv
    BY <1>5, InvFacts, WorldFields
  <1>7. /\ IsWorld(w) /\ SameFile(w, b) /\ w.srv.data = x /\ w.disk.rdb = x /\ w.srv.dirty = b.srv.dirty
        /\ w.srv.dirty_before_bgsave = b.srv.dirty_before_bgsave /\ w.rdbc = b.rdbc
    BY <1>3, <1>5, <1>6 DEF IsWorld, ServerFields, SameFile
  <1>8. CountOK(w)
    BY <1>2, <1>6, <1>7 DEF CountOK
  <1>9. PICK P : P = Past \cup {x}
    OBVIOUS
  <1>10. PICK A : A = Answered \cup {x}
    OBVIOUS
  <1>11. Busy(w, P, A) /\ x \in A /\ w.srv.appendfsync = srv.appendfsync
    <2>1. Busy(w, Past \cup {x}, Answered \cup {x})
      BY <1>2, <1>6, <1>7, <1>8, CommandBegins
    <2> QED BY <1>6, <1>7, <1>9, <1>10, <2>1 DEF SameFile
  <1>12. LeftOK'
    BY <1>4, SpendLeft, InvFacts
  <1>13. hist' = [hist EXCEPT !.past = Append(@, x), !.pending = TRUE]
    BY <1>4, <1>7 DEF Executed
  <1>14. ASSUME NEW v, Right(v, P, A), v.srv.data = x, v.srv.appendfsync = w.srv.appendfsync, Become(v) PROVE AppendInv'
    BY <1>2, <1>9, <1>10, <1>11, <1>12, <1>13, <1>14, CommandInv
  <1>15. ASSUME srv.aof_state = "OFF", Become(w) PROVE AppendInv'
    <2>1. FileOK(w) /\ A \subseteq P /\ (w.srv.appendfsync # "always" => A = P) /\ w.srv.aof_state = "OFF"
      BY <1>6, <1>7, <1>11, <1>15 DEF Busy, Kept, SameFile
    <2>2. Right(w, P, A)
      BY <1>7, <1>8, <1>11, <2>1, OffRight
    <2> QED BY <1>7, <1>14, <1>15, <2>2
  <1>16. ASSUME NEW n \in Takes(World), NEW reaped \in Reaps(World), NEW u, u = stopAppendOnly(w, n, reaped),
                Become(IF u.srv.up THEN startAppendOnly(u) ELSE u)
         PROVE  AppendInv'
    <2>1. n \in 0..Len(w.srv.aof_buf)
      <3>1. w.srv.aof_buf = World.srv.aof_buf
        BY <1>5, <1>7 DEF SameFile
      <3> QED BY <3>1, TakesFacts
    <2>2. reaped \in Reaps(w)
      BY <1>5, <1>7 DEF Reaps, SameFile
    <2>3. /\ Right(u, P, A) /\ (u.srv.up => u.srv.aof_state = "OFF") /\ u.srv.up \in BOOLEAN /\ u.srv.data = x
          /\ u.srv.appendfsync = w.srv.appendfsync
      BY <1>7, <1>11, <1>16, <2>1, <2>2, StopFile
    <2>4. CASE ~u.srv.up
      BY <1>14, <1>16, <2>3, <2>4
    <2>5. CASE u.srv.up
      <3>1. PICK v : v = startAppendOnly(u)
        OBVIOUS
      <3>2. Right(v, P, A)
        BY <2>3, <2>5, <3>1, StartFile
      <3>3. Keeps(v, u)
        BY <2>3, <3>1, StartKeeps DEF Right, Busy, FileOK
      <3> QED BY <1>14, <1>16, <2>3, <2>5, <3>1, <3>2, <3>3 DEF Keeps
    <2> QED BY <2>4, <2>5
  <1> QED BY <1>4, <1>15, <1>16

---------------------------------------------------------------------------
(* The loop *)

\* What was answered is in the file, with "always".
LEMMA AnsweredRight ==
    ASSUME NEW v, NEW P, NEW A, Right(v, P, A), v.srv.appendfsync = "always", NEW d, d = v.srv.data,
           Written(v) => Near(Stream(v), v.disk.synced, {d})
    PROVE  Right(v, P, {d})
  <1>1. Busy(v, P, A) /\ Kept(v, P, A) /\ d \in A
    BY DEF Right, Busy
  <1>2. Kept(v, P, {d})
    BY <1>1 DEF Kept
  <1> QED BY <1>1, <1>2 DEF Right, Busy

LEMMA BeforeSleepInv == ASSUME AppendInv, beforeSleep PROVE AppendInv'
  <1>0. PICK n \in Takes(World) : \E v :
          /\ v = flushAppendOnlyFile(World, FALSE, n) /\ Become(v) /\ SpendIf(n < Len(srv.aof_buf), "fails")
          /\ hist' = [hist EXCEPT !.pending = FALSE, !.acked = IF v.srv.up THEN Len(hist.past) ELSE @]
    BY Zenon DEF beforeSleep
  <1>1. PICK v :
          /\ v = flushAppendOnlyFile(World, FALSE, n) /\ Become(v) /\ SpendIf(n < Len(srv.aof_buf), "fails")
          /\ hist' = [hist EXCEPT !.pending = FALSE, !.acked = IF v.srv.up THEN Len(hist.past) ELSE @]
    BY <1>0
  <1>2. LeftOK'
    <2>1. Spend("fails") \/ UNCHANGED left
      BY <1>1, Zenon DEF SpendIf
    <2>2. UNCHANGED left => LeftOK'
      BY InvFacts DEF LeftOK
    <2> QED BY <2>1, <2>2, SpendLeft, InvFacts
  <1>3. PICK w : w = World
    OBVIOUS
  <1>4. Right(w, Past, Answered) /\ FileOK(w) /\ w.srv = srv
    BY <1>3, InvFacts, WorldFields
  <1>5. Flushed(v, w)
    <2>1. n \in 0..Len(w.srv.aof_buf) /\ v = flushAppendOnlyFile(w, FALSE, n)
      BY <1>1, <1>3, TakesFacts
    <2> QED BY <1>4, <2>1, FlushFlushed
  <1>6. /\ Right(v, Past, Answered)
        /\ Written(v) /\ v.srv.up /\ v.srv.appendfsync = "always" => Near(Stream(v), v.disk.synced, {v.srv.data})
    BY <1>4, <1>5, FlushedRight
  <1>7. v.srv.data = srv.data /\ v.srv.appendfsync = srv.appendfsync
    BY <1>4, <1>5 DEF Flushed, SameSave
  <1>8. srv'.data = srv.data /\ srv'.appendfsync = srv.appendfsync
    BY <1>1, <1>7 DEF Become
  <1>9. PICK past \in Seq(Data) : past = hist.past
    BY InvFacts DEF HistOK
  <1>10. /\ hist.acked \in 0..Len(past) /\ Len(past) \in Nat /\ Len(past) > 0 /\ past[Len(past)] = srv.data
         /\ DOMAIN hist = {"past", "acked", "pending"}
    BY <1>9, LenProperties, InvFacts DEF HistOK
  <1>11. /\ hist'.past = past /\ DOMAIN hist' = {"past", "acked", "pending"}
         /\ hist'.acked = IF v.srv.up THEN Len(past) ELSE hist.acked
    BY <1>1, <1>9, <1>10
  <1>12. HistOK'
    BY <1>8, <1>10, <1>11 DEF HistOK
  <1>13. Past' = Past
    BY <1>9, <1>11 DEF Past
  <1>14. CASE v.srv.up /\ srv.appendfsync = "always"
    <2>1. Answered' = {srv.data}
      <3>1. 0 \in 0..Len(past)
        BY <1>10
      <3>2. After(past, Len(past)) = {past[Len(past)]}
        BY <1>10, <3>1, AfterFacts
      <3> QED BY <1>8, <1>10, <1>11, <1>14, <3>2 DEF Answered
    <2>2. PICK d : d = srv.data
      OBVIOUS
    <2>3. Right(v, Past, {d})
      BY <1>6, <1>7, <1>14, <2>2, AnsweredRight
    <2>4. Right(World', Past, {d})
      BY <1>1, <2>3, BecomeRight
    <2>5. Right(World', Past', Answered')
      BY <1>13, <2>1, <2>2, <2>4
    <2> QED BY <1>2, <1>12, <2>5 DEF AppendInv
  <1>15. CASE ~(v.srv.up /\ srv.appendfsync = "always")
    <2>1. Answered' = Answered
      BY <1>8, <1>9, <1>11, <1>15 DEF Answered
    <2>2. Right(World', Past, Answered)
      BY <1>1, <1>6, BecomeRight
    <2>3. Right(World', Past', Answered')
      BY <1>13, <2>1, <2>2
    <2> QED BY <1>2, <1>12, <2>3 DEF AppendInv
  <1> QED BY <1>14, <1>15

LEMMA TickInv == ASSUME AppendInv, Tick PROVE AppendInv'
  <1>1. PICK w : w = World
    OBVIOUS
  <1>2. PICK v : v = [w EXCEPT !.srv.unixtime = @ + 1]
    OBVIOUS
  <1>3. Become(v) /\ Spend("ticks") /\ UNCHANGED hist
    BY <1>1, <1>2 DEF Tick
  <1>4. IsWorld(w) /\ CountOK(w) /\ Right(w, Past, Answered)
    BY <1>1, InvFacts
  <1>5. IsWorld(v) /\ SameFile(v, w) /\ SameSave(v, w)
    BY <1>2, <1>4 DEF IsWorld, ServerFields, SameFile, SameSave
  <1>6. CountOK(v) /\ Keeps(v, World)
    BY <1>1, <1>4, <1>5, SameCount DEF Keeps, SameFile, SameSave
  <1>7. Right(v, Past, Answered)
    BY <1>4, <1>5, <1>6, SameFileRight DEF SameSave
  <1>8. LeftOK'
    BY <1>3, SpendLeft, InvFacts
  <1> QED BY <1>3, <1>6, <1>7, <1>8, StepInv

\* A sync, whenever it comes, makes what may be lost less.
SyncedAll(v, w) ==
    /\ IsWorld(v) /\ SameSave(v, w) /\ v.rw = w.rw /\ v.disk.units = w.disk.units /\ v.disk.synced = Len(w.disk.units)
    /\ v.srv = w.srv

LEMMA SyncedRight ==
    ASSUME NEW v, NEW w, NEW P, NEW A, Right(w, P, A), SyncedAll(v, w)
    PROVE  Right(v, P, A)
  <1>1. FileOK(w) /\ StateOK(w) /\ Kept(w, P, A) /\ CountOK(w) /\ Follows(w) /\ w.srv.data \in A
    BY DEF Right, Busy
  <1>2. /\ Stream(v) = Stream(w) /\ (Written(v) <=> Written(w)) /\ (Rewritten(v) <=> Rewritten(w))
    BY DEF Stream, Written, Rewritten, SyncedAll
  <1>3. PICK n \in Nat : n = Len(w.disk.units)
    BY <1>1, FilesFacts DEF FileOK
  <1>4. PICK m \in 0..n : m = w.disk.synced
    BY <1>1, <1>3 DEF FileOK
  <1>5. v.disk.synced = n /\ n \in 0..n /\ m <= n /\ m \in Nat /\ Len(v.disk.units) = n
    BY <1>3, <1>4 DEF SyncedAll
  <1>6. FileOK(v)
    BY <1>1, <1>2, <1>5 DEF FileOK, SyncedAll
  <1>7. StateOK(v) /\ CountOK(v)
    BY <1>1, SameCount DEF StateOK, SyncedAll
  <1>8. Written(w) => Near(Stream(w), n, A)
    <2> SUFFICES ASSUME Written(w) PROVE Near(Stream(w), n, A)
      OBVIOUS
    <2>1. PICK s \in Files : s = Stream(w)
      BY <1>1 DEF FileOK, Shape, Written
    <2>2. Near(s, m, A) /\ A \subseteq A
      BY <1>1, <1>4, <2>1 DEF Kept
    <2>3. Near(s, n, A)
      BY ONLY <1>4, <1>5, <2>2, NearWeaker
    <2> QED BY <2>1, <2>3
  <1>9. Kept(v, P, A)
    BY <1>1, <1>2, <1>5, <1>8 DEF Kept, SyncedAll
  <1>10. Follows(v)
    BY <1>1, <1>2 DEF Follows, Log, SyncedAll
  <1> QED BY <1>1, <1>6, <1>7, <1>9, <1>10 DEF Right, Busy, SyncedAll

LEMMA JobInv == ASSUME AppendInv, bioProcessBackgroundJobs PROVE AppendInv'
  <1>1. PICK w : w = World
    OBVIOUS
  <1> DEFINE u == IF Head(jobs) = disk.gen THEN aof_fsync(w) ELSE w
             v == [u EXCEPT !.jobs = Tail(@)]
  <1>2. Become(v) /\ UNCHANGED <<hist, left>>
    BY <1>1 DEF bioProcessBackgroundJobs
  <1>3. IsWorld(w) /\ CountOK(w) /\ Right(w, Past, Answered)
    BY <1>1, InvFacts
  <1>4. IsWorld(u) /\ Right(u, Past, Answered) /\ u.srv = w.srv
    <2>1. SyncedAll(aof_fsync(w), w)
      BY <1>3, FsyncSame DEF SyncedAll, aof_fsync, IsWorld
    <2>2. Right(aof_fsync(w), Past, Answered)
      BY <1>3, <2>1, SyncedRight
    <2> QED BY <1>3, <2>1, <2>2 DEF SyncedAll
  <1> HIDE DEF u
  <1>5. IsWorld(v) /\ SameFile(v, u) /\ SameSave(v, u) /\ v.srv = u.srv
    BY <1>4 DEF IsWorld, SameFile, SameSave
  <1> HIDE DEF v
  <1>6. CountOK(v)
    BY <1>4, <1>5, SameCount DEF Right, Busy
  <1>7. Right(v, Past, Answered)
    BY <1>4, <1>5, <1>6, SameFileRight
  <1>8. Keeps(v, World)
    BY <1>1, <1>4, <1>5 DEF Keeps
  <1>9. LeftOK'
    BY <1>2, InvFacts DEF LeftOK
  <1> QED BY <1>2, <1>7, <1>8, <1>9, StepInv

LEMMA FlushKeeps ==
    ASSUME NEW w, NEW P, NEW A, Right(w, P, A), NEW n \in 0..Len(w.srv.aof_buf), NEW force, NEW v, v = flushAppendOnlyFile(w, force, n)
    PROVE  Right(v, P, A) /\ Keeps(v, w)
  <1>1. FileOK(w)
    BY DEF Right, Busy
  <1>2. Flushed(v, w)
    BY <1>1, FlushFlushed
  <1> QED BY <1>2, FlushedRight DEF Keeps, Flushed, SameSave

\* A flush that failed leaves enough of the buffer for the next one.
LEMMA CronInv == ASSUME AppendInv, NEW why, serverCron(why) PROVE AppendInv'
  <1> DEFINE Second(w1, n) == IF w1.srv.aof_flush_postponed_start # 0 THEN flushAppendOnlyFile(w1, FALSE, n) ELSE w1
             Third(w2, n) == IF w2.srv.aof_last_write_status = "ERR" THEN flushAppendOnlyFile(w2, FALSE, n) ELSE w2
  <1>1. PICK w1 : w1 = CronChildren(World, why)
    OBVIOUS
  <1>2. PICK n \in Takes(w1) : Become(Third(Second(w1, n), n))
    BY <1>1, Zenon DEF serverCron
  <1>3. PICK w2 : w2 = Second(w1, n)
    OBVIOUS
  <1>4. PICK v : v = Third(w2, n)
    OBVIOUS
  <1>5. srv.up /\ UNCHANGED hist /\ Become(v)
    BY <1>2, <1>3, <1>4 DEF serverCron
  <1>6. LeftOK'
    <2>1. Spend("saves") \/ Spend("rewrites") \/ Spend("fails") \/ UNCHANGED left
      BY DEF serverCron
    <2>2. UNCHANGED left => LeftOK'
      BY InvFacts DEF LeftOK
    <2> QED BY <2>1, <2>2, SpendLeft, InvFacts
  <1>7. Right(w1, Past, Answered) /\ Keeps(w1, World) /\ w1.srv.aof_buf \in {World.srv.aof_buf, <<>>}
    <2>1. Right(World, Past, Answered) /\ World.srv.up
      BY <1>5, InvFacts, WorldFields
    <2> QED BY <1>1, <2>1, ChildrenFile
  <1>8. PICK m \in Nat : m = Len(w1.srv.aof_buf)
    BY <1>7, FilesFacts DEF Right, Busy, FileOK
  <1>9. /\ n \in 0..m
        /\ n # m => n <= m - n
    <2>1. n = m \/ n \in {0, 1} \cap 0..(m - 1)
      BY <1>8 DEF Takes
    <2> QED BY <2>1
  <1>10. Right(w2, Past, Answered) /\ Keeps(w2, w1) /\ (w2.srv.aof_last_write_status = "ERR" => n \in 0..Len(w2.srv.aof_buf))
    <2>1. CASE w2 = w1
      BY <1>7, <1>8, <1>9, <2>1 DEF Keeps
    <2>2. CASE w2 = flushAppendOnlyFile(w1, FALSE, n)
      <3>1. n \in 0..Len(w1.srv.aof_buf) /\ FileOK(w1)
        BY <1>7, <1>8, <1>9 DEF Right, Busy
      <3>2. Right(w2, Past, Answered) /\ Keeps(w2, w1)
        BY <1>7, <2>2, <3>1, FlushKeeps
      <3>3. \/ w2.srv.aof_last_write_status = "OK"
            \/ Len(w2.srv.aof_buf) = m
            \/ n # m /\ Len(w2.srv.aof_buf) = m - n
        <4>1. Leaves(w2, w1, n)
          BY <2>2, <3>1, FlushFlushed
        <4> QED BY <1>8, <4>1 DEF Leaves
      <3>4. \A l : (l = m \/ (n # m /\ l = m - n)) => n \in 0..l
        BY <1>9
      <3> QED BY <3>2, <3>3, <3>4
    <2> QED BY <1>3, <2>1, <2>2
  <1>11. Right(v, Past, Answered) /\ Keeps(v, w2)
    <2>1. CASE v = w2
      BY <1>10, <2>1 DEF Keeps
    <2>2. CASE w2.srv.aof_last_write_status = "ERR" /\ v = flushAppendOnlyFile(w2, FALSE, n)
      BY <1>10, <2>2, FlushKeeps
    <2> QED BY <1>4, <2>1, <2>2
  <1>12. Keeps(v, World)
    BY <1>7, <1>10, <1>11 DEF Keeps
  <1> QED BY <1>5, <1>6, <1>11, <1>12, StepInv

---------------------------------------------------------------------------
(* The children *)

\* A step of the child that leaves what it has and gets as it is, or that ends it.
LEMMA ChildStep ==
    ASSUME AppendInv, rw # NoChild, UNCHANGED <<srv, rdbc, disk, jobs, hist>>, LeftOK', rw' \in Children, rw'.base = rw.base,
           Content(rw') = Content(rw), Ending(rw'), rw'.st \in {"err", "sig"} \/ Alive(rw)
    PROVE  AppendInv'
  <1>1. PICK w : w = World
    OBVIOUS
  <1>2. PICK c : c = rw'
    OBVIOUS
  <1>3. PICK v : v = [w EXCEPT !.rw = c]
    OBVIOUS
  <1>4. Right(w, Past, Answered) /\ IsWorld(w) /\ w.rw = rw
    BY <1>1, InvFacts, WorldFields
  <1>5. FileOK(w) /\ StateOK(w) /\ Kept(w, Past, Answered) /\ CountOK(w) /\ Follows(w) /\ w.srv.data \in Answered
    BY <1>4 DEF Right, Busy
  <1>6. IsWorld(v) /\ SameSave(v, w) /\ v.srv = w.srv /\ v.disk = w.disk /\ v.rw = c
    BY <1>3, <1>4 DEF IsWorld, SameSave
  <1>7. c # NoChild
    BY <1>2 DEF Children, NoChild
  <1>8. ChildFile(c)
    BY <1>2, <1>4, <1>5, <1>7 DEF ChildFile, FileOK
  <1>9. Stream(v) = Stream(w) /\ (Written(v) <=> Written(w))
    BY <1>6 DEF Stream, Written
  <1>10. FileOK(v)
    BY <1>5, <1>6, <1>8, <1>9 DEF FileOK
  <1>11. StateOK(v) /\ CountOK(v)
    BY <1>5, <1>6, <1>7, SameCount DEF StateOK
  <1>12. Rewritten(v) => Rewritten(w)
    BY <1>2, <1>4, <1>6 DEF Rewritten, Alive
  <1>13. Content(v.rw) = Content(w.rw) /\ v.rw.base = w.rw.base
    BY <1>2, <1>4, <1>6
  <1>14. Kept(v, Past, Answered)
    BY <1>5, <1>6, <1>9, <1>12, <1>13 DEF Kept
  <1>15. Follows(v)
    BY <1>5, <1>6, <1>9, <1>12, <1>13 DEF Follows, Log
  <1>16. Right(v, Past, Answered)
    BY <1>5, <1>6, <1>10, <1>11, <1>14, <1>15 DEF Right, Busy
  <1>17. Become(v) /\ Keeps(v, World)
    <2>1. v.srv = srv /\ v.disk = disk /\ v.rdbc = rdbc /\ v.jobs = jobs /\ v.rw = rw'
      BY <1>1, <1>2, <1>3, <1>4, WorldFields DEF IsWorld
    <2> QED BY <2>1, WorldFields DEF Become, Keeps
  <1> QED BY <1>16, <1>17, StepInv

LEMMA ChildIsFile ==
    ASSUME AppendInv, rw # NoChild
    PROVE  rw \in Children /\ Ending(rw)
  BY InvFacts, WorldFields DEF FileOK, ChildFile

\* The border between what is read, in the pipe and to be sent moves.
LEMMA Regroup == ASSUME NEW r \in Files, NEW s \in Files, NEW t \in Files PROVE (r \o s) \o t = r \o (s \o t)
  BY FilesFacts

LEMMA ReadMoves ==
    ASSUME NEW c \in Children, NEW d \in Children, d.base = c.base, d.diff = c.diff \o c.pipe, d.pipe = <<>>, d.blocks = c.blocks
    PROVE  Content(d) = Content(c)
  <1>1. PICK r \in Files : r = rewriteAppendOnlyFile(c.base)
    BY ContentFiles
  <1>2. c.diff \in Files /\ c.pipe \in Files /\ r \o (c.diff \o c.pipe) \in Files
    BY <1>1, ContentFiles, FilesFacts
  <1>3. r \o (c.diff \o c.pipe) \o <<>> = r \o (c.diff \o c.pipe)
    BY <1>2, FilesFacts
  <1>4. (r \o c.diff) \o c.pipe = r \o (c.diff \o c.pipe)
    BY <1>2, Regroup
  <1> QED BY <1>1, <1>3, <1>4 DEF Content

LEMMA SendMoves ==
    ASSUME NEW c \in Children, NEW d \in Children, NEW a \in Files, c.blocks = a \o d.blocks, d.pipe = c.pipe \o a,
           d.base = c.base, d.diff = c.diff
    PROVE  Content(d) = Content(c)
  <1>1. PICK q \in Files : q = rewriteAppendOnlyFile(c.base) \o c.diff
    BY ContentFiles
  <1>2. PICK p \in Files : p = c.pipe
    BY ContentFiles
  <1>3. PICK b \in Files : b = d.blocks
    BY ContentFiles
  <1>4. PICK t \in Files : t = q \o p
    BY FilesFacts
  <1>5. q \o (p \o a) = t \o a
    BY <1>4, Regroup, SMTT(30)
  <1>6. (t \o a) \o b = t \o (a \o b)
    BY Regroup
  <1>7. Content(c) = t \o (a \o b)
    BY <1>1, <1>2, <1>3, <1>4 DEF Content
  <1>8. Content(d) = (q \o (p \o a)) \o b
    BY <1>1, <1>2, <1>3 DEF Content
  <1> QED BY <1>5, <1>6, <1>7, <1>8

LEMMA WriteDiffInv == ASSUME AppendInv, aofChildWriteDiffData PROVE AppendInv'
  <1>1. rw # NoChild /\ rw.blocks # <<>> /\ ~rw.stop /\ UNCHANGED <<srv, rdbc, disk, jobs, hist, left>>
    BY DEF aofChildWriteDiffData
  <1>2. PICK c \in Children : c = rw /\ Ending(c)
    BY <1>1, ChildIsFile
  <1>3. PICK blocks \in Files : blocks = c.blocks /\ blocks # <<>>
    BY <1>1, <1>2, ContentFiles
  <1>4. PICK n \in {1, Len(blocks)} :
          rw' = [rw EXCEPT !.pipe = @ \o SubSeq(rw.blocks, 1, n), !.blocks = SubSeq(@, n + 1, Len(@))]
    BY <1>2, <1>3, Zenon DEF aofChildWriteDiffData
  <1>5. n \in 0..Len(blocks)
    <2>1. Len(blocks) \in Nat /\ Len(blocks) # 0
      BY <1>3, EmptySeq, FilesFacts DEF Files
    <2> QED BY <2>1
  <1>6. PICK a \in Files : a = SubSeq(blocks, 1, n)
    BY <1>5, SplitFile
  <1>7. PICK b \in Files : b = SubSeq(blocks, n + 1, Len(blocks))
    BY <1>5, SplitFile
  <1>8. a \o b = blocks
    BY <1>5, <1>6, <1>7, SplitFile
  <1>9. PICK p \in Files : p = c.pipe \o a
    BY ContentFiles, FilesFacts
  <1>10. rw' = [c EXCEPT !.pipe = p, !.blocks = b]
    BY <1>2, <1>3, <1>4, <1>6, <1>7, <1>9
  <1>11. PICK d : d = rw'
    OBVIOUS
  <1>12. d \in Children /\ d.base = c.base /\ d.diff = c.diff /\ d.pipe = p /\ d.blocks = b /\ d.st = c.st /\ d.stop = c.stop
    BY <1>10, <1>11 DEF Children
  <1>13. Content(d) = Content(c)
    BY <1>3, <1>8, <1>9, <1>12, SendMoves
  <1>14. Ending(d) /\ (d.st \in {"err", "sig"} \/ Alive(c))
    BY <1>1, <1>2, <1>12 DEF Ending, Alive
  <1>15. LeftOK'
    BY <1>1, InvFacts DEF LeftOK
  <1> QED BY <1>1, <1>2, <1>11, <1>12, <1>13, <1>14, <1>15, ChildStep

LEMMA ReadDiffInv == ASSUME AppendInv, aofReadDiffFromParent PROVE AppendInv'
  <1>1. /\ rw # NoChild /\ rw.st = "run" /\ rw' = [rw EXCEPT !.diff = @ \o rw.pipe, !.pipe = <<>>]
        /\ UNCHANGED <<srv, rdbc, disk, jobs, hist, left>>
    BY DEF aofReadDiffFromParent
  <1>2. PICK c \in Children : c = rw
    BY <1>1, ChildIsFile
  <1>3. c.diff \o c.pipe \in Files /\ <<>> \in Files
    BY ContentFiles, FilesFacts
  <1>4. /\ rw' \in Children /\ rw'.base = c.base /\ rw'.diff = c.diff \o c.pipe /\ rw'.pipe = <<>> /\ rw'.blocks = c.blocks /\ rw'.st = "run"
    BY <1>1, <1>2, <1>3 DEF Children
  <1>5. Content(rw') = Content(rw)
    BY <1>2, <1>4, ReadMoves
  <1>6. LeftOK'
    BY <1>1, InvFacts DEF LeftOK
  <1>7. Alive(rw) /\ Ending(rw')
    BY <1>1, <1>4 DEF Alive, Ending
  <1> QED BY <1>1, <1>2, <1>4, <1>5, <1>6, <1>7, ChildStep

LEMMA AskInv == ASSUME AppendInv, AskToStop \/ aofChildPipeReadable PROVE AppendInv'
  <1>1. /\ rw # NoChild /\ rw.st \in {"run", "asked"} /\ UNCHANGED <<srv, rdbc, disk, jobs, hist, left>>
        /\ rw' = [rw EXCEPT !.st = "asked"] \/ rw' = [rw EXCEPT !.st = "acked", !.stop = TRUE]
    BY DEF AskToStop, aofChildPipeReadable
  <1>2. PICK c \in Children : c = rw
    BY <1>1, ChildIsFile
  <1>3. /\ rw' \in Children /\ rw'.base = c.base /\ rw'.diff = c.diff /\ rw'.pipe = c.pipe /\ rw'.blocks = c.blocks /\ Ending(rw')
    BY <1>1, <1>2 DEF Children, Ending
  <1>4. Content(rw') = Content(rw)
    BY <1>2, <1>3 DEF Content
  <1>5. LeftOK'
    BY <1>1, InvFacts DEF LeftOK
  <1>6. Alive(rw)
    BY <1>1 DEF Alive
  <1> QED BY <1>1, <1>2, <1>3, <1>4, <1>5, <1>6, ChildStep

LEMMA RewriteEndsInv == ASSUME AppendInv, NEW good \in BOOLEAN, RewriteEnds(good) PROVE AppendInv'
  <1>1. /\ rw # NoChild /\ rw.st \in {"run", "asked", "acked"} /\ UNCHANGED <<srv, rdbc, disk, jobs, hist>>
        /\ \/ rw.st = "acked" /\ rw' = [rw EXCEPT !.st = "ok", !.diff = @ \o rw.pipe, !.pipe = <<>>]
           \/ rw' = [rw EXCEPT !.st = "err"]
        /\ Spend("fails") \/ UNCHANGED left
    BY DEF RewriteEnds, SpendIf
  <1>2. PICK c \in Children : c = rw /\ Ending(c)
    BY <1>1, ChildIsFile
  <1>3. LeftOK'
    <2>1. UNCHANGED left => LeftOK'
      BY InvFacts DEF LeftOK
    <2> QED BY <1>1, <2>1, SpendLeft, InvFacts
  <1>4. Alive(rw)
    BY <1>1 DEF Alive
  <1>5. c.diff \o c.pipe \in Files /\ <<>> \in Files
    BY ContentFiles, FilesFacts
  <1>6. CASE rw.st = "acked" /\ rw' = [rw EXCEPT !.st = "ok", !.diff = @ \o rw.pipe, !.pipe = <<>>]
    <2>1. /\ rw' \in Children /\ rw'.base = c.base /\ rw'.diff = c.diff \o c.pipe /\ rw'.pipe = <<>> /\ rw'.blocks = c.blocks
          /\ Ending(rw')
      BY <1>1, <1>2, <1>5, <1>6 DEF Children, Ending
    <2>2. Content(rw') = Content(rw)
      BY <1>2, <2>1, ReadMoves
    <2> QED BY <1>1, <1>2, <1>3, <1>4, <2>1, <2>2, ChildStep
  <1>7. CASE rw' = [rw EXCEPT !.st = "err"]
    <2>1. /\ rw' \in Children /\ rw'.base = c.base /\ rw'.diff = c.diff /\ rw'.pipe = c.pipe /\ rw'.blocks = c.blocks /\ rw'.st = "err"
          /\ Ending(rw')
      BY <1>2, <1>7 DEF Children, Ending
    <2>2. Content(rw') = Content(rw)
      BY <1>2, <2>1 DEF Content
    <2> QED BY <1>1, <1>2, <1>3, <1>4, <2>1, <2>2, ChildStep
  <1> QED BY <1>1, <1>6, <1>7

LEMMA SaveEndsInv == ASSUME AppendInv, NEW good \in BOOLEAN, SaveEnds(good) PROVE AppendInv'
  <1>1. /\ rdbc # NoChild /\ rdbc.st = "run" /\ UNCHANGED <<srv, rw, jobs, hist>> /\ SpendIf(~good, "fails")
        /\ rdbc' = [rdbc EXCEPT !.st = IF good THEN "ok" ELSE "err"]
        /\ disk' = IF good THEN [disk EXCEPT !.rdb = rdbc.data] ELSE disk
    BY Zenon DEF SaveEnds
  <1>2. PICK w : w = World
    OBVIOUS
  <1>3. /\ Right(w, Past, Answered) /\ IsWorld(w) /\ CountOK(w) /\ w.srv = srv /\ w.rw = rw /\ w.rdbc = rdbc /\ w.disk = disk
    BY <1>2, InvFacts, WorldFields
  <1>4. LeftOK'
    <2>1. Spend("fails") \/ UNCHANGED left
      BY <1>1, Zenon DEF SpendIf
    <2>2. UNCHANGED left => LeftOK'
      BY InvFacts DEF LeftOK
    <2> QED BY <2>1, <2>2, SpendLeft, InvFacts
  <1>5. rdbc = [st |-> rdbc.st, data |-> rdbc.data] /\ DOMAIN disk = {"units", "synced", "gen", "rdb"}
    BY <1>1, <1>3 DEF IsWorld
  <1>6. /\ rdbc' = [st |-> IF good THEN "ok" ELSE "err", data |-> rdbc.data]
        /\ disk'.units = disk.units /\ disk'.synced = disk.synced /\ disk'.rdb \in {disk.rdb, rdbc.data}
        /\ DOMAIN disk' = {"units", "synced", "gen", "rdb"}
    BY <1>1, <1>5
  <1>7. PICK v : v = World'
    OBVIOUS
  <1>8. /\ v.srv = srv /\ v.rw = rw /\ v.rdbc = rdbc' /\ v.disk = disk' /\ v.jobs = jobs'
        /\ DOMAIN v = {"srv", "rw", "rdbc", "disk", "jobs"}
    BY <1>1, <1>7 DEF World
  <1>9. IsWorld(v) /\ SameFile(v, w)
    BY <1>3, <1>6, <1>8 DEF IsWorld, SameFile
  <1>10. CountOK(v)
    <2>1. rdbc.data \in Data /\ srv.dirty_before_bgsave <= srv.dirty /\ disk.rdb \in Data
      BY <1>1, <1>3 DEF CountOK
    <2> QED BY <1>3, <1>6, <1>8, <2>1 DEF CountOK
  <1>11. Right(v, Past, Answered) /\ Keeps(v, World)
    BY <1>2, <1>3, <1>8, <1>9, <1>10, SameFileRight DEF Keeps
  <1>12. Become(v)
    BY <1>1, <1>8 DEF Become
  <1> QED BY <1>1, <1>4, <1>11, <1>12, StepInv

---------------------------------------------------------------------------
(* Stops and starts *)

LEMMA ShutdownInv == ASSUME AppendInv, prepareForShutdown PROVE AppendInv'
  <1> DEFINE killed == KillSave(World)
             synced == IF srv.aof_state = "OFF" THEN killed ELSE aof_fsync(killed)
             saved == IF srv.saveparams THEN rdbSave(synced, TRUE) ELSE synced
             v == [saved EXCEPT !.srv.up = FALSE, !.rw = NoChild, !.rdbc = NoChild]
  <1>1. Become(v) /\ Spend("shutdowns") /\ UNCHANGED hist /\ ~(srv.aof_state = "WAIT_REWRITE" /\ rw # NoChild)
    BY DEF prepareForShutdown
  <1>2. PICK w : w = World
    OBVIOUS
  <1>3. Right(w, Past, Answered) /\ IsWorld(w) /\ CountOK(w) /\ w.srv = srv /\ w.rw = rw
    BY <1>2, InvFacts, WorldFields
  <1>4. FileOK(w) /\ StateOK(w) /\ Kept(w, Past, Answered) /\ w.srv.data \in Answered
    BY <1>3 DEF Right, Busy
  <1>5. IsWorld(killed) /\ killed.srv = w.srv /\ killed.disk = w.disk /\ killed.rw = w.rw
    BY <1>2, <1>3 DEF KillSave, IsWorld
  <1> HIDE DEF killed
  <1>6. /\ IsWorld(synced) /\ synced.srv = w.srv /\ synced.disk.units = w.disk.units /\ synced.disk.rdb = w.disk.rdb
        /\ synced.disk.synced \in {w.disk.synced, Len(w.disk.units)}
    BY <1>5 DEF aof_fsync, IsWorld
  <1> HIDE DEF synced
  <1>7. /\ IsWorld(saved) /\ SameFile(saved, synced) /\ saved.srv.data = synced.srv.data /\ saved.srv.dirty \in {0, synced.srv.dirty}
        /\ saved.srv.dirty_before_bgsave = synced.srv.dirty_before_bgsave /\ saved.disk.rdb \in {synced.disk.rdb, synced.srv.data}
    BY <1>6 DEF rdbSave, IsWorld, ServerFields, SameFile
  <1> HIDE DEF saved
  <1>8. /\ IsWorld(v) /\ v.rw = NoChild /\ v.rdbc = NoChild /\ v.disk = saved.disk /\ v.srv.up = FALSE
        /\ v.srv.aof_state = saved.srv.aof_state /\ v.srv.aof_fd = saved.srv.aof_fd /\ v.srv.aof_buf = saved.srv.aof_buf
        /\ v.srv.aof_selected_db = saved.srv.aof_selected_db /\ v.srv.aof_rewrite_scheduled = saved.srv.aof_rewrite_scheduled
        /\ v.srv.appendfsync = saved.srv.appendfsync /\ v.srv.appendonly = saved.srv.appendonly /\ v.srv.open = saved.srv.open
        /\ v.srv.data = saved.srv.data /\ v.srv.dirty = saved.srv.dirty /\ v.srv.dirty_before_bgsave = saved.srv.dirty_before_bgsave
    BY <1>7 DEF IsWorld, ServerFields
  <1> HIDE DEF v
  <1>9. /\ v.disk.units = w.disk.units /\ v.disk.synced \in {w.disk.synced, Len(w.disk.units)}
        /\ v.srv.aof_state = w.srv.aof_state /\ v.srv.aof_fd = w.srv.aof_fd /\ v.srv.aof_buf = w.srv.aof_buf
        /\ v.srv.aof_selected_db = w.srv.aof_selected_db /\ v.srv.aof_rewrite_scheduled = w.srv.aof_rewrite_scheduled
        /\ v.srv.appendfsync = w.srv.appendfsync /\ v.srv.appendonly = w.srv.appendonly /\ v.srv.open = w.srv.open
        /\ v.srv.data = w.srv.data
    BY <1>6, <1>7, <1>8 DEF SameFile
  <1>10. CountOK(v)
    <2>1. w.srv.dirty \in Nat /\ w.srv.dirty_before_bgsave \in Nat /\ w.disk.rdb \in Data /\ w.srv.data \in Data
      BY <1>3, <1>4 DEF CountOK, FileOK
    <2>2. v.srv.dirty \in {0, w.srv.dirty} /\ v.srv.dirty_before_bgsave = w.srv.dirty_before_bgsave
      BY <1>6, <1>7, <1>8
    <2>3. v.disk.rdb \in {w.disk.rdb, w.srv.data}
      BY <1>6, <1>7, <1>8
    <2> QED BY <1>8, <2>1, <2>2, <2>3 DEF CountOK
  <1>11. PICK n \in Nat : n = Len(w.disk.units)
    BY <1>4, FilesFacts DEF FileOK
  <1>12. PICK m \in 0..n : m = w.disk.synced
    BY <1>4, <1>11 DEF FileOK
  <1>13. PICK k \in 0..n : k = v.disk.synced /\ m <= k
    <2>1. n \in 0..n /\ m <= n /\ m <= m
      BY <1>12
    <2> QED BY <1>9, <1>11, <1>12, <2>1
  <1>14. Stream(v) = Stream(w) /\ (Written(v) <=> Written(w)) /\ ~Rewritten(v)
    BY <1>8, <1>9 DEF Stream, Written, Rewritten, Alive
  <1>15. FileOK(v)
    <2>1. v.disk.synced \in 0..Len(v.disk.units)
      BY <1>9, <1>11, <1>13
    <2> QED BY <1>4, <1>8, <1>9, <1>14, <2>1 DEF FileOK, ChildFile
  <1>16. StateOK(v)
    BY <1>1, <1>3, <1>4, <1>9 DEF StateOK
  <1>17. Written(w) => Near(Stream(w), k, Answered)
    <2> SUFFICES ASSUME Written(w) PROVE Near(Stream(w), k, Answered)
      OBVIOUS
    <2>1. PICK s \in Files : s = Stream(w)
      BY <1>4 DEF FileOK, Shape, Written
    <2>2. PICK A : A = Answered
      OBVIOUS
    <2>3. Near(s, m, A) /\ A \subseteq A /\ m \in Nat /\ k \in Nat
      BY <1>4, <1>12, <2>1, <2>2 DEF Kept
    <2>4. Near(s, k, A)
      BY ONLY <1>13, <2>3, s \in Files, NearWeaker
    <2> QED BY <2>1, <2>2, <2>4
  <1>18. Kept(v, Past, Answered)
    BY <1>4, <1>8, <1>9, <1>13, <1>14, <1>17 DEF Kept
  <1>19. Right(v, Past, Answered)
    BY <1>4, <1>8, <1>9, <1>10, <1>15, <1>16, <1>18 DEF Right, Busy, Follows
  <1>20. Keeps(v, World)
    BY <1>2, <1>9 DEF Keeps
  <1>21. LeftOK'
    BY <1>1, SpendLeft, InvFacts
  <1> QED BY <1>1, <1>19, <1>20, <1>21, StepInv

\* v starts from a file and data that agree, if the file is used.
Started(v, units, data) ==
    /\ IsWorld(v) /\ v.rw = NoChild /\ v.rdbc = NoChild /\ v.disk.units = units /\ v.disk.synced = Len(units) /\ v.disk.rdb \in Data
    /\ v.srv.up = TRUE /\ v.srv.aof_buf = <<>> /\ v.srv.aof_selected_db = -1 /\ v.srv.data = data
    /\ v.srv.dirty \in Nat /\ v.srv.dirty_before_bgsave = 0
    /\ v.srv.appendonly => v.srv.aof_state = "ON" /\ v.srv.aof_fd = "open"
    /\ ~v.srv.appendonly => v.srv.aof_state = "OFF"

LEMMA StartedRight ==
    ASSUME NEW v, NEW units \in Files, NEW data \in Data, Started(v, units, data),
           v.srv.appendonly => /\ Shape(units) /\ loadAppendOnlyFile(units).data = data
                               /\ loadAppendOnlyFile(units).open <=> v.srv.open
    PROVE  Right(v, {data}, {data})
  <1>1. Len(units) \in Nat /\ units \o <<>> = units /\ <<>> \in Files
    BY FilesFacts
  <1>2. Stream(v) = units
    BY <1>1 DEF Stream, Started
  <1>3. CountOK(v)
    BY DEF CountOK, Started
  <1>4. FileOK(v)
    <2>1. v.disk.synced \in 0..Len(v.disk.units)
      BY <1>1 DEF Started
    <2>2. v.srv.appendonly \/ v.srv.aof_state = "ON" => Shape(Stream(v))
      BY <1>2 DEF Started
    <2>3. ChildFile(v.rw)
      BY DEF Started, ChildFile
    <2>4. v.srv.aof_state \in {"OFF", "WAIT_REWRITE", "ON"} /\ v.srv.up \in BOOLEAN
      BY DEF Started
    <2> QED BY <1>1, <2>1, <2>2, <2>3, <2>4 DEF FileOK, Started
  <1>5. CASE ~v.srv.appendonly
    <2>1. v.srv.aof_state = "OFF" /\ v.srv.data \in {data}
      BY <1>5 DEF Started
    <2> QED BY <1>3, <1>4, <2>1, OffRight
  <1>6. CASE v.srv.appendonly
    <2>1. StateOK(v) /\ ~Rewritten(v)
      BY <1>6 DEF StateOK, Rewritten, Alive, Started
    <2>2. Near(units, Len(units), {data})
      BY <1>6, NearAll
    <2>3. Kept(v, {data}, {data})
      BY <1>2, <2>1, <2>2 DEF Kept, Started
    <2>4. Written(v) => Holds(units, FALSE, data, data, -1)
      <3> SUFFICES ASSUME Written(v) PROVE Holds(units, FALSE, data, data, -1)
        OBVIOUS
      <3>1. PICK a : a = loadAppendOnlyFile(units)
        OBVIOUS
      <3>2. a \in Loaded /\ a.data = data /\ ~a.open /\ a.queue = <<>>
        BY <1>6, <3>1, LoadTyped DEF Written
      <3>3. Executes(a).data = data
        BY <3>2, ExecutesFacts DEF Alike
      <3> QED BY <3>1, <3>2, <3>3 DEF Holds
    <2>5. Follows(v)
      BY <1>2, <2>1, <2>4 DEF Follows, Log, Started
    <2> QED BY <1>3, <1>4, <2>1, <2>3, <2>5 DEF Right, Busy, Started
  <1> QED BY <1>5, <1>6

LEMMA EmptyPrefix == ASSUME NEW s \in Files PROVE SubSeq(s, 1, 0) = <<>>
  BY SubSeqEmpty DEF Files

LEMMA PrefixOfConcat ==
    ASSUME NEW s \in Files, NEW t \in Files, NEW n \in 0..Len(s)
    PROVE  SubSeq(s \o t, 1, n) = SubSeq(s, 1, n)
  <1>1. PICK m \in Nat : m = Len(s)
    BY FilesFacts
  <1>2. CASE n = 0
    <2>1. s \o t \in Files
      BY FilesFacts
    <2> QED BY <1>2, <2>1, EmptyPrefix
  <1>3. CASE n # 0
    <2>1. 1 \in 1..m /\ n \in 1..m
      BY <1>1, <1>3
    <2>2. s \in Seq(Units) /\ t \in Seq(Units) /\ 1 \in 1..Len(s) /\ n \in 1..Len(s)
      BY <1>1, <2>1 DEF Files
    <2> QED BY ONLY <2>2, SubSeqOfConcat1
  <1> QED BY <1>2, <1>3

LEMMA PrefixOfPrefix ==
    ASSUME NEW s \in Files, NEW n \in 0..Len(s), NEW m \in 0..n
    PROVE  SubSeq(SubSeq(s, 1, n), 1, m) = SubSeq(s, 1, m)
  <1>1. PICK l \in Nat : l = Len(s)
    BY FilesFacts
  <1>2. CASE m = 0
    <2>1. SubSeq(s, 1, n) \in Files
      BY SplitFile
    <2> QED BY <1>2, <2>1, EmptyPrefix
  <1>3. CASE m # 0
    <2>1. 1 \in 1..l /\ n \in 1..l /\ 1 \in 1..(n - 1 + 1) /\ m \in 1..(n - 1 + 1) /\ 1 + 1 - 1 = 1 /\ 1 + m - 1 = m
      BY <1>1, <1>3
    <2>2. s \in Seq(Units) /\ 1 \in 1..Len(s) /\ n \in 1..Len(s)
      BY <1>1, <2>1 DEF Files
    <2>3. SubSeq(SubSeq(s, 1, n), 1, m) = SubSeq(s, 1 + 1 - 1, 1 + m - 1)
      BY ONLY <2>1, <2>2, SubSeqOfSubSeq
    <2> QED BY <2>1, <2>3
  <1> QED BY <1>2, <1>3

\* What a part of a file of whole commands, with a buffer that follows, is loaded to: the
\* load meets no error, and the units it keeps load to the same.
PartOK(a, units) == /\ ~a.bad /\ a \in Loaded /\ Shape(units)
                    /\ (loadAppendOnlyFile(units).open <=> a.open) /\ loadAppendOnlyFile(units).data = a.data

LEMMA LoadPart ==
    ASSUME NEW f \in Files, NEW buf \in Files, Shape(f \o buf), NEW kept \in 0..Len(f), NEW a, a = loadAppendOnlyFile(SubSeq(f, 1, kept)),
           NEW units, units = SubSeq(f, 1, a.len)
    PROVE  PartOK(a, units)
  <1>1. PICK p : p = SubSeq(f, 1, kept)
    OBVIOUS
  <1>2. p \in Files /\ Len(p) = kept
    BY <1>1, SplitFile
  <1>3. WellFormed(p)
    <2>1. f \o buf \in Files /\ WellFormed(f \o buf) /\ SubSeq(f \o buf, 1, kept) = p
      BY <1>1, PrefixOfConcat DEF Shape
    <2>2. kept \in 0..Len(f \o buf)
      <3>1. PICK i \in Nat : i = Len(f)
        BY FilesFacts
      <3>2. PICK j \in Nat : j = Len(buf)
        BY FilesFacts
      <3>3. Len(f \o buf) = i + j
        BY <3>1, <3>2, FilesFacts
      <3>4. kept \in 0..(i + j)
        BY <3>1
      <3> QED BY <3>3, <3>4
    <2> QED BY <2>1, <2>2, WellFormedPrefix
  <1>4. a \in Loaded /\ ~a.bad /\ a.len = IF a.torn THEN kept - 1 ELSE kept
    <2>1. a = loadAppendOnlyFile(p)
      BY <1>1
    <2> QED BY <1>2, <1>3, <2>1, LoadTyped, LoadWellFormed
  <1>5. a.len \in 0..kept
    <2>1. a.len \in Nat /\ kept \in Nat
      BY <1>4 DEF Loaded
    <2> QED BY <1>4, <2>1
  <1>6. units = SubSeq(p, 1, a.len)
    BY <1>1, <1>5, PrefixOfPrefix
  <1>7. Shape(SubSeq(p, 1, a.len)) /\ loadAppendOnlyFile(SubSeq(p, 1, a.len)).open = a.open
        /\ loadAppendOnlyFile(SubSeq(p, 1, a.len)).data = a.data
    <2>1. a = loadAppendOnlyFile(p)
      BY <1>1
    <2> QED BY <1>2, <1>3, <2>1, LoadTruncated
  <1> QED BY <1>4, <1>6, <1>7 DEF PartOK

LEMMA FreshHistory ==
    ASSUME NEW data \in Data, NEW from \in {0, 1}
    PROVE  <<data>> \in Seq(Data) /\ Len(<<data>>) = 1 /\ <<data>>[1] = data /\ After(<<data>>, from) = {data}
  <1>1. <<data>> \in Seq(Data) /\ Len(<<data>>) = 1 /\ <<data>>[1] = data
    OBVIOUS
  <1>2. {j \in 1..1 : j >= from} = {1}
    OBVIOUS
  <1>3. PICK p : p = <<data>>
    OBVIOUS
  <1>4. After(p, from) = {data}
    <2>1. Len(p) = 1 /\ p[1] = data
      BY <1>1, <1>3
    <2>2. After(p, from) = {p[i] : i \in {1}}
      BY <1>2, <2>1, Zenon DEF After
    <2> QED BY <2>1, <2>2
  <1> QED BY <1>1, <1>3, <1>4

LEMMA RestartInv == ASSUME AppendInv, NEW kept \in 0..Len(disk.units), Restart(kept), LeftOK' PROVE AppendInv'
  <1>1. PICK f \in Files : f = disk.units
    BY InvFacts, WorldFields DEF FileOK
  <1>2. PICK buf \in Files : buf = srv.aof_buf
    BY InvFacts, WorldFields DEF FileOK
  <1>3. srv.appendonly => Shape(f \o buf)
    BY <1>1, <1>2, InvFacts, WorldFields DEF FileOK, Stream
  <1>4. disk.rdb \in Data /\ DOMAIN disk = {"units", "synced", "gen", "rdb"}
    BY InvFacts, WorldFields DEF CountOK, IsWorld
  <1>5. PICK a : a = loadAppendOnlyFile(SubSeq(f, 1, kept))
    OBVIOUS
  <1>6. PICK data : data = IF srv.appendonly THEN a.data ELSE disk.rdb
    OBVIOUS
  <1>7. PICK units : units = SubSeq(f, 1, IF srv.appendonly THEN a.len ELSE kept)
    OBVIOUS
  <1>8. PICK v : v = World'
    OBVIOUS
  <1>9. /\ v.srv = srv' /\ v.rw = rw' /\ v.rdbc = rdbc' /\ v.disk = disk' /\ v.jobs = jobs'
        /\ DOMAIN v = {"srv", "rw", "rdbc", "disk", "jobs"}
    BY <1>8 DEF World
  <1> DEFINE conf == [appendonly |-> srv.appendonly, appendfsync |-> srv.appendfsync, saveparams |-> srv.saveparams]
             s == [NewServer(conf) EXCEPT !.data = data, !.open = srv.appendonly /\ a.open, !.dirty = IF srv.appendonly THEN a.dirty ELSE 0]
  <1>10. /\ srv' = s /\ rw' = NoChild /\ rdbc' = NoChild /\ disk' = [disk EXCEPT !.units = units, !.synced = Len(units)]
         /\ hist' = [past |-> <<data>>, acked |-> 1, pending |-> FALSE]
    BY <1>1, <1>5, <1>6, <1>7 DEF Restart, Become
  <1>11. /\ DOMAIN s = ServerFields /\ s.up = TRUE /\ s.aof_buf = <<>> /\ s.aof_selected_db = -1 /\ s.data = data
         /\ s.dirty = (IF srv.appendonly THEN a.dirty ELSE 0) /\ s.dirty_before_bgsave = 0 /\ (s.open <=> srv.appendonly /\ a.open)
         /\ s.appendonly = srv.appendonly /\ s.appendfsync = srv.appendfsync
         /\ s.aof_state = (IF srv.appendonly THEN "ON" ELSE "OFF") /\ s.aof_fd = (IF srv.appendonly THEN "open" ELSE "none")
    BY DEF NewServer, ServerFields
  <1> HIDE DEF s
  <1>12. srv.appendonly => /\ a \in Loaded /\ Shape(units)
                           /\ (loadAppendOnlyFile(units).open <=> a.open) /\ loadAppendOnlyFile(units).data = a.data
    <2> SUFFICES ASSUME srv.appendonly PROVE /\ a \in Loaded /\ Shape(units)
                                             /\ (loadAppendOnlyFile(units).open <=> a.open) /\ loadAppendOnlyFile(units).data = a.data
      OBVIOUS
    <2>1. units = SubSeq(f, 1, a.len) /\ kept \in 0..Len(f) /\ Shape(f \o buf)
      BY <1>1, <1>3, <1>7
    <2>2. PartOK(a, units)
      BY ONLY f \in Files, buf \in Files, <1>5, <2>1, LoadPart
    <2> QED BY <2>2 DEF PartOK
  <1>13. units \in Files
    <2>1. CASE srv.appendonly
      BY <1>12, <2>1 DEF Shape
    <2>2. CASE ~srv.appendonly
      BY <1>1, <1>7, <2>2, SplitFile
    <2> QED BY <2>1, <2>2
  <1>14. data \in Data /\ s.dirty \in Nat
    BY <1>4, <1>6, <1>11, <1>12 DEF Loaded
  <1>15. /\ disk'.units = units /\ disk'.synced = Len(units) /\ disk'.rdb = disk.rdb /\ DOMAIN disk' = {"units", "synced", "gen", "rdb"}
    BY <1>4, <1>10
  <1>16. IsWorld(v)
    BY <1>9, <1>10, <1>11, <1>15 DEF IsWorld
  <1>17. Started(v, units, data)
    BY <1>4, <1>9, <1>10, <1>11, <1>14, <1>15, <1>16 DEF Started
  <1>18. v.srv.appendonly => /\ Shape(units) /\ loadAppendOnlyFile(units).data = data
                             /\ loadAppendOnlyFile(units).open <=> v.srv.open
    BY <1>6, <1>9, <1>10, <1>11, <1>12
  <1>19. Right(v, {data}, {data})
    BY <1>13, <1>14, <1>17, <1>18, StartedRight
  <1>20. hist'.past = <<data>> /\ hist'.acked = 1 /\ DOMAIN hist' = {"past", "acked", "pending"}
    BY <1>10
  <1>21. Past' = {data} /\ Answered' = {data}
    BY <1>14, <1>20, FreshHistory DEF Past, Answered
  <1>22. HistOK'
    <2>1. <<data>> \in Seq(Data) /\ Len(<<data>>) = 1 /\ <<data>>[1] = data
      BY <1>14, FreshHistory
    <2>2. srv'.data = data
      BY <1>10, <1>11
    <2> QED BY <1>20, <2>1, <2>2 DEF HistOK
  <1>23. Right(World', Past', Answered')
    BY <1>8, <1>19, <1>21
  <1> QED BY <1>22, <1>23 DEF AppendInv

LEMMA CrashInv == ASSUME AppendInv, Crash PROVE AppendInv'
  <1>1. PICK l \in Nat : l = Len(disk.units)
    BY InvFacts, WorldFields, FilesFacts DEF FileOK
  <1>2. disk.synced \in 0..l
    BY <1>1, InvFacts, WorldFields DEF FileOK
  <1>3. CASE srv.up /\ Spend("crashes") /\ \E kept \in disk.synced..Len(disk.units) : Restart(kept)
    <2>1. PICK kept \in disk.synced..Len(disk.units) : Restart(kept)
      BY <1>3
    <2>2. kept \in 0..Len(disk.units)
      BY <1>1, <1>2
    <2>3. LeftOK'
      BY <1>3, InvFacts, SpendLeft
    <2> QED BY <2>1, <2>2, <2>3, RestartInv
  <1>4. CASE ~srv.up /\ UNCHANGED left /\ Restart(Len(disk.units))
    <2>1. Len(disk.units) \in 0..Len(disk.units)
      BY <1>1
    <2>2. LeftOK'
      BY <1>4, InvFacts DEF LeftOK
    <2> QED BY <1>4, <2>1, <2>2, RestartInv
  <1> QED BY <1>3, <1>4 DEF Crash

---------------------------------------------------------------------------
(* The invariant is inductive. *)

LEMMA InitAppendInv == Init => AppendInv
  <1> SUFFICES ASSUME Init PROVE AppendInv
    OBVIOUS
  <1>1. PICK scene \in Scenes : /\ left = scene.left /\ srv = NewServer(scene)
                                /\ rw = NoChild /\ rdbc = NoChild /\ jobs = <<>>
                                /\ disk = [units |-> <<>>, synced |-> 0, gen |-> 0, rdb |-> {}]
                                /\ hist = [past |-> <<{}>>, acked |-> 0, pending |-> FALSE]
    BY DEF Init
  <1>2. LeftOK
    BY <1>1, ScenesAssumption DEF LeftOK, Bounds
  <1>3. PICK data \in Data : data = {}
    BY DataFacts
  <1>4. PICK units \in Files : units = <<>>
    BY FilesFacts
  <1>5. PICK v : v = World
    OBVIOUS
  <1>6. /\ v.srv = srv /\ v.rw = NoChild /\ v.rdbc = NoChild /\ v.disk = disk
        /\ DOMAIN v = {"srv", "rw", "rdbc", "disk", "jobs"}
    BY <1>1, <1>5, WorldFields
  <1>7. /\ DOMAIN srv = ServerFields /\ srv.up = TRUE /\ srv.aof_buf = <<>> /\ srv.aof_selected_db = -1 /\ srv.data = data
        /\ srv.dirty = 0 /\ srv.dirty_before_bgsave = 0 /\ srv.open = FALSE /\ srv.appendonly = scene.appendonly
        /\ srv.aof_state = (IF scene.appendonly THEN "ON" ELSE "OFF") /\ srv.aof_fd = (IF scene.appendonly THEN "open" ELSE "none")
    BY <1>1, <1>3 DEF NewServer, ServerFields
  <1>8. disk.units = units /\ disk.synced = Len(units) /\ disk.rdb = data /\ DOMAIN disk = {"units", "synced", "gen", "rdb"}
    BY <1>1, <1>3, <1>4
  <1>9. Started(v, units, data)
    <2>1. IsWorld(v)
      BY <1>6, <1>7, <1>8 DEF IsWorld
    <2> QED BY <1>6, <1>7, <1>8, <2>1 DEF Started
  <1>10. /\ Shape(units) /\ loadAppendOnlyFile(units).data = data
         /\ loadAppendOnlyFile(units).open <=> v.srv.open
    <2>1. EmptyLoad.data = {} /\ EmptyLoad.open = FALSE
      BY DEF EmptyLoad
    <2> QED BY <1>3, <1>4, <1>6, <1>7, <2>1, ShapeEmpty, LoadFacts
  <1>11. Right(v, {data}, {data})
    BY <1>9, <1>10, StartedRight
  <1>12. hist.past = <<data>> /\ hist.acked = 0 /\ DOMAIN hist = {"past", "acked", "pending"}
    BY <1>1, <1>3
  <1>13. Past = {data} /\ Answered = {data}
    BY <1>12, FreshHistory DEF Past, Answered
  <1>14. HistOK
    <2>1. <<data>> \in Seq(Data) /\ Len(<<data>>) = 1 /\ <<data>>[1] = data
      BY FreshHistory
    <2> QED BY <1>7, <1>12, <2>1 DEF HistOK
  <1> QED BY <1>2, <1>5, <1>11, <1>13, <1>14 DEF AppendInv

LEMMA NextAppendInv == AppendInv /\ [Next]_vars => AppendInv'
  <1> SUFFICES ASSUME AppendInv, [Next]_vars PROVE AppendInv'
    OBVIOUS
  <1>1. CASE UNCHANGED vars
    <2>1. /\ UNCHANGED World /\ UNCHANGED hist /\ UNCHANGED left /\ UNCHANGED srv
      BY <1>1 DEF vars, World
    <2>2. UNCHANGED Past /\ UNCHANGED Answered /\ HistOK' /\ LeftOK'
      BY <2>1, InvFacts DEF Past, Answered, HistOK, LeftOK
    <2>3. Right(World', Past', Answered')
      BY <2>1, <2>2, InvFacts
    <2> QED BY <2>2, <2>3 DEF AppendInv
  <1>2. ASSUME NEW good \in BOOLEAN, flushallCommand(good) \/ saveCommand(good) \/ RewriteEnds(good) \/ SaveEnds(good)
        PROVE  AppendInv'
    BY <1>2, FlushallInv, SaveInv, RewriteEndsInv, SaveEndsInv
  <1>3. CASE \E db \in Dbs : Write(db)
    BY <1>3, WriteInv
  <1>4. CASE \E db1, db2 \in Dbs : execCommand(db1, db2)
    BY <1>4, ExecInv
  <1>5. CASE \E why \in {"none", "rdb", "aof", "aoferr", "save", "growth"} : serverCron(why)
    BY <1>5, CronInv
  <1>6. CASE bgsaveCommand \/ bgrewriteaofCommand \/ configSetAppendonly \/ readSyncBulkPayload
    BY <1>6, BgsaveInv, BgrewriteaofInv, ConfigInv, ResyncInv
  <1>7. CASE beforeSleep \/ Tick \/ bioProcessBackgroundJobs
    BY <1>7, BeforeSleepInv, TickInv, JobInv
  <1>8. CASE aofChildWriteDiffData \/ aofReadDiffFromParent \/ AskToStop \/ aofChildPipeReadable
    BY <1>8, WriteDiffInv, ReadDiffInv, AskInv
  <1>9. CASE Crash \/ prepareForShutdown
    BY <1>9, CrashInv, ShutdownInv
  <1> QED BY <1>1, <1>2, <1>3, <1>4, <1>5, <1>6, <1>7, <1>8, <1>9 DEF Next

---------------------------------------------------------------------------
(* The theorems. *)

\* While the server runs, the append only file with its buffer loads to the data
\* (feedAppendOnlyFile, flushAppendOnlyFile), and so does the file of a rewriting child with
\* what the pipe and the rewrite buffer hold (rewriteAppendOnlyFile, aofRewriteBufferAppend,
\* backgroundRewriteDoneHandler): the rewrite can end, and its file replace the other, at
\* any moment.  A file being turned on has a rewrite that runs or will (startAppendOnly).
THEOREM FileFollowsHolds == Spec => []FileFollows
  <1>1. AppendInv => FileFollows
    <2> SUFFICES ASSUME AppendInv PROVE FileFollows
      OBVIOUS
    <2>1. FileOK(World) /\ CountOK(World) /\ StateOK(World) /\ Follows(World)
      BY DEF AppendInv, Right, Busy
    <2>2. TypeOK
      <3>1. srv.dirty >= 0
        BY <2>1, WorldFields DEF CountOK
      <3> QED BY <2>1, <3>1, WorldFields DEF TypeOK, FileOK, StateOK
    <2>3. srv.up /\ srv.aof_state = "ON" /\ ~srv.open => loadAppendOnlyFile(disk.units \o srv.aof_buf).data = srv.data
      <3> SUFFICES ASSUME srv.up, srv.aof_state = "ON", ~srv.open PROVE loadAppendOnlyFile(disk.units \o srv.aof_buf).data = srv.data
        OBVIOUS
      <3>1. PICK s : s = disk.units \o srv.aof_buf
        OBVIOUS
      <3>2. Holds(s, FALSE, srv.data, srv.data, srv.aof_selected_db)
        BY <2>1, <3>1, WorldFields DEF Follows, Log, Written, Stream
      <3> QED BY <3>1, <3>2 DEF Holds
    <2>4. srv.up /\ srv.aof_state # "OFF" /\ rw # NoChild =>
            rw.st \in {"err", "sig"} \/ loadAppendOnlyFile(rewriteAppendOnlyFile(rw.base) \o rw.diff \o rw.pipe \o rw.blocks).data = srv.data
      <3> SUFFICES ASSUME srv.up, srv.aof_state # "OFF", rw # NoChild, rw.st \notin {"err", "sig"}
                   PROVE  loadAppendOnlyFile(rewriteAppendOnlyFile(rw.base) \o rw.diff \o rw.pipe \o rw.blocks).data = srv.data
        OBVIOUS
      <3>1. PICK s : s = rewriteAppendOnlyFile(rw.base) \o rw.diff \o rw.pipe \o rw.blocks
        OBVIOUS
      <3>2. Holds(s, FALSE, srv.data, srv.data, srv.aof_selected_db)
        BY <2>1, <3>1, WorldFields DEF Follows, Log, Rewritten, Alive, Content
      <3> QED BY <3>1, <3>2 DEF Holds
    <2> QED BY <2>2, <2>3, <2>4 DEF FileFollows
  <1> QED BY <1>1, InitAppendInv, NextAppendInv, PTL DEF Spec

\* Whatever a loss of power leaves of the append only file after what was synced
\* (flushAppendOnlyFile, aof_background_fsync, loadAppendOnlyFile with its truncation of a
\* torn command) loads without an error to the data after one command, of a transaction
\* all or nothing; with appendfsync always to nothing older than the last answer.
THEOREM DurableHolds == Spec => []Durable
  <1>1. AppendInv => Durable
    <2> SUFFICES ASSUME AppendInv, srv.aof_state = "ON", ~srv.open, NEW kept \in disk.synced..Len(disk.units), NEW a,
                        a = loadAppendOnlyFile(SubSeq(disk.units, 1, kept))
                 PROVE  /\ ~a.bad
                        /\ \E i \in 1..Len(hist.past) : hist.past[i] = a.data /\ (srv.appendfsync = "always" => i >= hist.acked)
      BY DEF Durable
    <2>1. FileOK(World) /\ Kept(World, Past, Answered) /\ HistOK
      BY DEF AppendInv, Right, Busy
    <2>2. PICK f \in Files : f = disk.units
      BY <2>1, WorldFields DEF FileOK
    <2>3. PICK buf \in Files : buf = srv.aof_buf
      BY <2>1, WorldFields DEF FileOK
    <2>4. Shape(f \o buf) /\ Near(f \o buf, disk.synced, Answered)
      BY <2>1, <2>2, <2>3, WorldFields DEF FileOK, Kept, Written, Stream
    <2>5. PICK l \in Nat : l = Len(f)
      BY FilesFacts
    <2>6. disk.synced \in 0..l /\ kept \in 0..Len(f) /\ kept \in disk.synced..l
      BY <2>1, <2>2, <2>5, WorldFields DEF FileOK
    <2>7. ~a.bad
      <3>1. PICK units : units = SubSeq(f, 1, a.len)
        OBVIOUS
      <3>2. a = loadAppendOnlyFile(SubSeq(f, 1, kept))
        BY <2>2
      <3>3. PartOK(a, units)
        BY ONLY f \in Files, buf \in Files, <2>4, <2>6, <3>1, <3>2, LoadPart
      <3> QED BY <3>3 DEF PartOK
    <2>8. a.data \in Answered
      <3>1. PICK m \in Nat : m = Len(buf)
        BY FilesFacts
      <3>2. Len(f \o buf) = l + m
        BY <2>5, <3>1, FilesFacts
      <3>3. kept \in disk.synced..Len(f \o buf)
        <4>1. kept \in disk.synced..(l + m)
          BY <2>6
        <4> QED BY <3>2, <4>1
      <3>4. SubSeq(f \o buf, 1, kept) = SubSeq(disk.units, 1, kept)
        BY <2>2, <2>6, PrefixOfConcat
      <3>5. PICK s : s = f \o buf
        OBVIOUS
      <3>6. loadAppendOnlyFile(SubSeq(s, 1, kept)).data \in Answered
        BY <2>4, <3>3, <3>5 DEF Near
      <3> QED BY <3>4, <3>5, <3>6
    <2>9. PICK from : from = IF srv.appendfsync = "always" THEN hist.acked ELSE 0
      OBVIOUS
    <2>10. a.data \in After(hist.past, from)
      BY <2>8, <2>9 DEF Answered
    <2>11. PICK i \in 1..Len(hist.past) : hist.past[i] = a.data /\ i >= from
      BY <2>10 DEF After
    <2>12. srv.appendfsync = "always" => i >= hist.acked
      BY <2>9, <2>11
    <2> QED BY <2>7, <2>11, <2>12
  <1> QED BY <1>1, InitAppendInv, NextAppendInv, PTL DEF Spec
============================================================================
