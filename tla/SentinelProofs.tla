--------------------------- MODULE SentinelProofs ---------------------------
(***************************************************************************)
(* Theorems about Sentinel, for every number of Sentinels and instances,   *)
(* every quorum and parallel_syncs, every bound on the epochs and on the   *)
(* disturbances, with and without pings that are late for no reason.       *)
(***************************************************************************)
EXTENDS Sentinel, FiniteSetTheorems, TLAPS

-----------------------------------------------------------------------------
(* The record of a Sentinel.                                               *)

Flags == {"sent", "inprog", "done"}
FailoverRecords ==
    [state : FailoverStates \cup {"update_config"}, epoch : Epochs,
     promoted : Instances \cup {None}, forced : BOOLEAN, reconf : [Instances -> SUBSET Flags]]
Peers == [run : RunIds, down : BOOLEAN, leader : RunIds \cup {None}, lepoch : Epochs]
Others(s) == SUBSET (Sentinels \ {s})
Disks(s) ==
    [epoch : Epochs, addr : Instances, cepoch : Epochs, lepoch : Epochs,
     slaves : SUBSET Instances, peers : UNION {[P -> RunIds] : P \in Others(s)}]
Records(s) ==
    [up : BOOLEAN, boot : 0..MaxDisturbances, epoch : Epochs, addr : Instances, cepoch : Epochs,
     slaves : SUBSET Instances, leader : RunIds \cup {None}, lepoch : Epochs,
     fo : FailoverRecords, sdown : SUBSET Instances, role : {"master", "slave"},
     peers : UNION {[P -> Peers] : P \in Others(s)}, disk : Disks(s)]

\* A slave is marked as told only in reconf_slaves, and from the selection on
\* there is a promoted slave.
FailoverOK(fo) ==
    /\ fo.state \notin {"reconf_slaves", "update_config"} => \A i \in Instances : fo.reconf[i] = {}
    /\ fo.state \in {"send_slaveof_noone", "wait_promotion", "reconf_slaves", "update_config"}
         => fo.promoted # None

\* The saved epoch of the last vote is that of the vote in memory.
RecordOK(s, r) ==
    r \in Records(s) /\ FailoverOK(r.fo) /\ r.disk.lepoch = r.lepoch

-----------------------------------------------------------------------------
(* What the helpers do to the record.                                      *)

SameLife(r, v) == v.up = r.up /\ v.boot = r.boot
SameVotes(r, v) == v.leader = r.leader /\ v.lepoch = r.lepoch /\ v.peers = r.peers
SameConfig(r, v) == v.addr = r.addr /\ v.cepoch = r.cepoch

\* sentinelFlushConfig changes the file and nothing else.
LEMMA FlushRecord ==
    ASSUME NEW s \in Sentinels, NEW r \in Records(s), FailoverOK(r.fo)
    PROVE  LET v == Flush(r) IN
           /\ RecordOK(s, v) /\ DOMAIN v.disk.peers = DOMAIN r.peers
           /\ SameLife(r, v) /\ SameVotes(r, v) /\ SameConfig(r, v)
           /\ v.fo = r.fo /\ v.epoch = r.epoch /\ v.slaves = r.slaves
  <1>1. CurrentMasterAddress(r) \in Instances
    BY DEF CurrentMasterAddress, Records, FailoverRecords
  <1>2. PICK P \in Others(s) : r.peers \in [P -> Peers]
    BY DEF Records
  <1>3. [t \in DOMAIN r.peers |-> r.peers[t].run] \in [P -> RunIds]
    BY <1>2 DEF Peers
  <1>4. Saved(r) \in Disks(s) /\ DOMAIN Saved(r).peers = DOMAIN r.peers /\ Saved(r).lepoch = r.lepoch
    BY <1>1, <1>2, <1>3 DEF Saved, Disks, Records
  <1>5. Flush(r) = [r EXCEPT !.disk = Saved(r)]
    BY DEF Flush
  <1> QED BY <1>4, <1>5 DEF Records, RecordOK, SameLife, SameVotes, SameConfig

\* sentinelVoteLeader never goes back to an earlier epoch and never changes the
\* vote it gave for the last one.
LEMMA VoteRecord ==
    ASSUME NEW s \in Sentinels, NEW r, RecordOK(s, r), NEW epoch \in Epochs, NEW run \in RunIds
    PROVE  LET v == VoteLeader(r, epoch, run) IN
           /\ RecordOK(s, v)
           /\ SameLife(r, v) /\ SameConfig(r, v) /\ v.fo = r.fo /\ v.peers = r.peers
           /\ v.slaves = r.slaves
           /\ DOMAIN v.disk.peers \in {DOMAIN r.disk.peers, DOMAIN r.peers}
           /\ v.lepoch >= r.lepoch
           /\ v.lepoch = r.lepoch => v.leader = r.leader
  <1> DEFINE r1 == IF epoch > r.epoch THEN Flush([r EXCEPT !.epoch = epoch]) ELSE r
             w == [r1 EXCEPT !.leader = run, !.lepoch = r1.epoch]
             Like(x) == /\ SameLife(r, x) /\ SameConfig(r, x) /\ x.fo = r.fo /\ x.peers = r.peers
                        /\ x.slaves = r.slaves
                        /\ DOMAIN x.disk.peers \in {DOMAIN r.disk.peers, DOMAIN r.peers}
  <1> USE DEF RecordOK, SameLife, SameConfig, SameVotes
  <1>1. RecordOK(s, r1) /\ Like(r1) /\ r1.leader = r.leader /\ r1.lepoch = r.lepoch
    <2> DEFINE e == [r EXCEPT !.epoch = epoch]
    <2>1. e \in Records(s) /\ e.fo = r.fo /\ SameLife(r, e) /\ SameConfig(r, e) /\ SameVotes(r, e)
          /\ e.slaves = r.slaves
      BY DEF Records
    <2> HIDE DEF e
    <2>2. CASE epoch > r.epoch
      <3>1. r1 = Flush(e)
        BY <2>2 DEF e
      <3> QED BY <2>1, <3>1, FlushRecord
    <2>3. CASE ~(epoch > r.epoch)
      BY <2>3
    <2> QED BY <2>2, <2>3
  <1>2. VoteLeader(r, epoch, run) = IF r1.lepoch < epoch /\ r1.epoch <= epoch THEN Flush(w) ELSE r1
    BY DEF VoteLeader
  <1>3. r.lepoch \in Epochs /\ r.epoch \in Epochs /\ epoch \in Int /\ r1.epoch \in Int /\ r.lepoch \in Int
    BY <1>1, BoundsAssumption DEF Records, Epochs
  <1>4. CASE r1.lepoch < epoch /\ r1.epoch <= epoch
    <2>1. r1.epoch = epoch
      BY <1>3, <1>4, FlushRecord DEF Records
    <2>2. w \in Records(s) /\ Like(w) /\ w.lepoch = epoch
      BY <1>1, <2>1 DEF Records
    <2> HIDE DEF w, r1
    <2>3. VoteLeader(r, epoch, run) = Flush(w)
      BY <1>2, <1>4
    <2>4. FailoverOK(w.fo)
      BY <2>2
    <2>5. RecordOK(s, Flush(w)) /\ Like(Flush(w)) /\ Flush(w).lepoch = epoch
      BY <2>2, <2>4, FlushRecord
    <2> QED BY <1>1, <1>3, <1>4, <2>3, <2>5
  <1>5. CASE ~(r1.lepoch < epoch /\ r1.epoch <= epoch)
    BY <1>1, <1>2, <1>3, <1>5
  <1> QED BY <1>4, <1>5

\* A change of the failover fields changes nothing else.
LEMMA FailoverRecord ==
    ASSUME NEW s \in Sentinels, NEW r, RecordOK(s, r),
           NEW fo \in FailoverRecords, FailoverOK(fo)
    PROVE  LET v == [r EXCEPT !.fo = fo] IN
           /\ RecordOK(s, v) /\ v.fo = fo
           /\ SameLife(r, v) /\ SameVotes(r, v) /\ SameConfig(r, v)
           /\ v.epoch = r.epoch /\ v.slaves = r.slaves /\ v.disk = r.disk
  BY DEF RecordOK, Records, SameLife, SameVotes, SameConfig

\* The failover fields of a master that was just reset are well formed.
LEMMA NoFailoverOK == NoFailover \in FailoverRecords /\ FailoverOK(NoFailover)
  BY BoundsAssumption DEF NoFailover, FailoverRecords, FailoverOK, FailoverStates, Epochs, Flags

\* sentinelResetMaster keeps the epoch of the last vote and the configuration.
LEMMA ResetRecord ==
    ASSUME NEW s \in Sentinels, NEW r, RecordOK(s, r), NEW keep \in BOOLEAN
    PROVE  LET v == ResetMaster(r, keep) IN
           /\ RecordOK(s, v) /\ v.fo = NoFailover
           /\ SameLife(r, v) /\ SameConfig(r, v) /\ v.disk = r.disk
           /\ v.leader = None /\ v.lepoch = r.lepoch
           /\ v.peers = IF keep THEN r.peers ELSE [t \in {} |-> r.peers[t]]
  <1> DEFINE peers == IF keep THEN r.peers ELSE [t \in {} |-> r.peers[t]]
             sdown == r.sdown \ ({r.addr} \cup r.slaves)
             v == [r EXCEPT !.slaves = {}, !.leader = None, !.fo = NoFailover, !.sdown = sdown,
                            !.role = "master", !.peers = peers]
  <1>1. peers \in UNION {[P -> Peers] : P \in Others(s)}
    <2>1. r.peers \in UNION {[P -> Peers] : P \in Others(s)}
      BY DEF RecordOK, Records
    <2>2. [t \in {} |-> r.peers[t]] \in [{} -> Peers] /\ {} \in Others(s)
      BY DEF Others
    <2> QED BY <2>1, <2>2
  <1>2. ResetMaster(r, keep) = v
    BY DEF ResetMaster, RecordOK, Records
  <1> HIDE DEF peers
  <1>3. /\ v \in Records(s) /\ v.fo = NoFailover /\ v.disk = r.disk
        /\ SameLife(r, v) /\ SameConfig(r, v)
        /\ v.leader = None /\ v.lepoch = r.lepoch /\ v.peers = peers
    BY <1>1, NoFailoverOK DEF RecordOK, Records, SameLife, SameConfig
  <1> HIDE DEF v
  <1> QED BY <1>2, <1>3, NoFailoverOK DEF RecordOK, peers

\* So does sentinelResetMasterAndChangeAddress, which then announces the address.
LEMMA ChangeAddressRecord ==
    ASSUME NEW s \in Sentinels, NEW r, RecordOK(s, r), NEW addr \in Instances
    PROVE  LET v == ResetMasterAndChangeAddress(r, addr) IN
           /\ RecordOK(s, v) /\ v.fo = NoFailover
           /\ SameLife(r, v) /\ v.cepoch = r.cepoch /\ v.addr = addr
           /\ v.leader = None /\ v.lepoch = r.lepoch /\ v.peers = r.peers
           /\ DOMAIN v.disk.peers = DOMAIN r.peers
  <1> DEFINE slaves == (r.slaves \cup {r.addr}) \ {addr}
             z == ResetMaster(r, TRUE)
             w == [z EXCEPT !.addr = addr, !.slaves = slaves]
  <1>1. slaves \in SUBSET Instances
    BY DEF RecordOK, Records
  <1>2. ResetMasterAndChangeAddress(r, addr) = Flush(w)
    BY DEF ResetMasterAndChangeAddress
  <1>3. /\ RecordOK(s, z) /\ z.fo = NoFailover /\ SameLife(r, z) /\ SameConfig(r, z)
        /\ z.leader = None /\ z.lepoch = r.lepoch /\ z.peers = r.peers
    BY ResetRecord
  <1> HIDE DEF z, slaves
  <1>4. /\ w \in Records(s) /\ w.fo = NoFailover /\ SameLife(r, w) /\ w.cepoch = r.cepoch
        /\ w.addr = addr /\ w.leader = None /\ w.lepoch = r.lepoch /\ w.peers = r.peers
    BY <1>1, <1>3 DEF RecordOK, Records, SameLife, SameConfig
  <1> HIDE DEF w
  <1> QED BY <1>2, <1>4, FlushRecord, NoFailoverOK DEF SameLife, SameVotes, SameConfig

\* sentinelCheckSubjectivelyDown
LEMMA DownRecord ==
    ASSUME NEW s \in Sentinels, NEW r, RecordOK(s, r),
           NEW who \in SUBSET Instances, NEW late \in SUBSET Instances
    PROVE  LET v == CheckSubjectivelyDown(r, who, late) IN
           /\ RecordOK(s, v) /\ v.fo = r.fo
           /\ SameLife(r, v) /\ SameVotes(r, v) /\ SameConfig(r, v)
           /\ v.epoch = r.epoch /\ v.slaves = r.slaves /\ v.disk = r.disk
  <1> DEFINE sdown == (r.sdown \ who) \cup (late \cap who)
  <1>1. sdown \in SUBSET Instances
    BY DEF RecordOK, Records
  <1>2. CheckSubjectivelyDown(r, who, late) = [r EXCEPT !.sdown = sdown]
    BY DEF CheckSubjectivelyDown, RecordOK, Records
  <1> HIDE DEF sdown
  <1> QED BY <1>1, <1>2 DEF RecordOK, Records, SameLife, SameVotes, SameConfig

\* sentinelStartFailover
LEMMA StartRecord ==
    ASSUME NEW s \in Sentinels, NEW r, RecordOK(s, r), r.fo.state = "none", r.epoch < MaxEpoch
    PROVE  LET v == StartFailover(r) IN
           /\ RecordOK(s, v) /\ v.fo.state = "wait_start"
           /\ SameLife(r, v) /\ SameVotes(r, v) /\ SameConfig(r, v)
           /\ v.slaves = r.slaves /\ v.disk = r.disk
  <1> DEFINE fo == [r.fo EXCEPT !.state = "wait_start", !.epoch = r.epoch + 1]
             e == [r EXCEPT !.epoch = r.epoch + 1]
  <1>1. r.epoch + 1 \in Epochs
    BY BoundsAssumption DEF RecordOK, Records, Epochs
  <1>2. fo \in FailoverRecords /\ FailoverOK(fo) /\ fo.state = "wait_start"
    BY <1>1 DEF RecordOK, Records, FailoverRecords, FailoverOK, FailoverStates
  <1>3. /\ RecordOK(s, e) /\ SameLife(r, e) /\ SameVotes(r, e) /\ SameConfig(r, e)
        /\ e.slaves = r.slaves /\ e.disk = r.disk
    BY <1>1 DEF RecordOK, Records, SameLife, SameVotes, SameConfig
  <1>4. StartFailover(r) = [e EXCEPT !.fo = fo]
    BY DEF StartFailover, RecordOK, Records
  <1> HIDE DEF e, fo
  <1> QED BY <1>2, <1>3, <1>4, FailoverRecord DEF SameLife, SameVotes, SameConfig

\* sentinelAbortFailover
LEMMA AbortRecord ==
    ASSUME NEW s \in Sentinels, NEW r, RecordOK(s, r),
           r.fo.state \notin {"reconf_slaves", "update_config"}
    PROVE  LET v == AbortFailover(r) IN
           /\ RecordOK(s, v) /\ v.fo.state = "none"
           /\ SameLife(r, v) /\ SameVotes(r, v) /\ SameConfig(r, v)
           /\ v.slaves = r.slaves /\ v.disk = r.disk
  <1> DEFINE fo == [NoFailover EXCEPT !.reconf = r.fo.reconf]
  <1>1. fo \in FailoverRecords /\ FailoverOK(fo) /\ fo.state = "none"
    BY NoFailoverOK DEF NoFailover, RecordOK, Records, FailoverRecords, FailoverOK
  <1>2. AbortFailover(r) = [r EXCEPT !.fo = fo]
    BY DEF AbortFailover
  <1> HIDE DEF fo
  <1> QED BY <1>1, <1>2, FailoverRecord

-----------------------------------------------------------------------------
(* What one call of sentinelFailoverStateMachine does.                     *)

\* A vote is only replaced by one for a later epoch, or forgotten.
VoteKept(r, v) ==
    v.lepoch >= r.lepoch /\ (v.lepoch = r.lepoch => v.leader \in {r.leader, None})

Reconfiguring(r) == r.fo.state \in {"reconf_slaves", "update_config"}
Orders == Instances \X (Instances \cup {NoOne})

OutcomeOK(s, r, o) ==
    /\ RecordOK(s, o.r) /\ SameLife(r, o.r) /\ SameConfig(r, o.r)
    /\ o.r.peers = r.peers /\ DOMAIN o.r.disk.peers \in {DOMAIN r.disk.peers, DOMAIN r.peers}
    /\ VoteKept(r, o.r)
    /\ Reconfiguring(o.r) = Reconfiguring(r)
    /\ Reconfiguring(r) => o.r.fo.promoted = r.fo.promoted
    /\ o.sent \subseteq Orders
    /\ o.won \in BOOLEAN
    /\ o.won => Wins(r, o.r, r.fo.epoch, RunId(s, r)) /\ ~Reconfiguring(r)

\* A record that differs from r in its failover fields only is a good outcome.
LEMMA OutcomeOfFailover ==
    ASSUME NEW s \in Sentinels, NEW r, RecordOK(s, r), NEW v, RecordOK(s, v),
           SameLife(r, v), SameVotes(r, v), SameConfig(r, v), v.disk = r.disk,
           Reconfiguring(v) = Reconfiguring(r),
           Reconfiguring(r) => v.fo.promoted = r.fo.promoted,
           NEW sent \in SUBSET Orders
    PROVE  OutcomeOK(s, r, Outcome(v, sent, FALSE))
  <1>1. r.lepoch \in Int
    BY BoundsAssumption DEF RecordOK, Records, Epochs
  <1> QED BY <1>1 DEF OutcomeOK, Outcome, VoteKept, SameVotes

\* A step of the machine to another state.
LEMMA StateRecord ==
    ASSUME NEW s \in Sentinels, NEW r, RecordOK(s, r),
           NEW state \in FailoverStates \cup {"update_config"},
           state \notin {"reconf_slaves", "update_config"} =>
               \A i \in Instances : r.fo.reconf[i] = {},
           state \in {"send_slaveof_noone", "wait_promotion", "reconf_slaves", "update_config"}
               => r.fo.promoted # None
    PROVE  LET v == [r EXCEPT !.fo.state = state] IN
           /\ RecordOK(s, v) /\ v.fo = [r.fo EXCEPT !.state = state]
           /\ v.fo.state = state /\ v.fo.promoted = r.fo.promoted
           /\ SameLife(r, v) /\ SameVotes(r, v) /\ SameConfig(r, v)
           /\ v.epoch = r.epoch /\ v.slaves = r.slaves /\ v.disk = r.disk
  <1> DEFINE fo == [r.fo EXCEPT !.state = state]
  <1>1. fo \in FailoverRecords /\ FailoverOK(fo) /\ fo.state = state /\ fo.promoted = r.fo.promoted
    BY DEF RecordOK, Records, FailoverRecords, FailoverOK
  <1>2. [r EXCEPT !.fo.state = state] = [r EXCEPT !.fo = fo]
    BY DEF RecordOK, Records
  <1> HIDE DEF fo
  <1>3. LET v == [r EXCEPT !.fo = fo] IN
           /\ RecordOK(s, v) /\ v.fo = fo
           /\ SameLife(r, v) /\ SameVotes(r, v) /\ SameConfig(r, v)
           /\ v.epoch = r.epoch /\ v.slaves = r.slaves /\ v.disk = r.disk
    BY <1>1, FailoverRecord
  <1> QED BY <1>1, <1>2, <1>3 DEF fo

\* A Sentinel votes for itself or for a leader it was told of.
LEMMA FavouritesAreRunIds ==
    ASSUME NEW s \in Sentinels, NEW r, RecordOK(s, r), NEW f \in Favourites(r, RunId(s, r))
    PROVE  f \in RunIds
  <1>1. RunId(s, r) \in RunIds
    BY DEF RunId, RunIds, RecordOK, Records
  <1>2. PICK P \in Others(s) : r.peers \in [P -> Peers]
    BY DEF RecordOK, Records
  <1>3. \A t \in DOMAIN r.peers : r.peers[t].leader \in RunIds \cup {None}
    BY <1>2 DEF Peers
  <1> QED BY <1>1, <1>3 DEF Favourites

\* sentinelFailoverWaitStart
LEMMA WaitStartOutcome ==
    ASSUME NEW s \in Sentinels, NEW r, RecordOK(s, r), r.fo.state = "wait_start",
           NEW o \in FailoverWaitStart(s, r)
    PROVE  OutcomeOK(s, r, o)
  <1>1. PICK f \in Favourites(r, RunId(s, r)) :
          LET v == VoteLeader(r, r.fo.epoch, f)
              won == Wins(r, v, r.fo.epoch, RunId(s, r))
          IN  \/ o = Outcome([v EXCEPT !.fo.state = "select_slave"], {}, won)
              \/ o \in {Only(v), Only(AbortFailover(v))}
    BY DEF FailoverWaitStart
  <1> DEFINE v == VoteLeader(r, r.fo.epoch, f)
             won == Wins(r, v, r.fo.epoch, RunId(s, r))
  <1>2. f \in RunIds /\ r.fo.epoch \in Epochs
    BY FavouritesAreRunIds DEF RecordOK, Records, FailoverRecords
  <1>3. /\ RecordOK(s, v) /\ SameLife(r, v) /\ SameConfig(r, v) /\ v.fo = r.fo /\ v.peers = r.peers
        /\ v.slaves = r.slaves
        /\ DOMAIN v.disk.peers \in {DOMAIN r.disk.peers, DOMAIN r.peers}
        /\ v.lepoch >= r.lepoch /\ (v.lepoch = r.lepoch => v.leader = r.leader)
    BY <1>2, VoteRecord
  <1>4. ~Reconfiguring(v) /\ ~Reconfiguring(r)
    BY <1>3 DEF Reconfiguring
  <1>5. CASE o = Outcome([v EXCEPT !.fo.state = "select_slave"], {}, won)
    <2> DEFINE w == [v EXCEPT !.fo.state = "select_slave"]
    <2>1. \A i \in Instances : v.fo.reconf[i] = {}
      BY <1>3 DEF RecordOK, FailoverOK
    <2>2. /\ RecordOK(s, w) /\ SameLife(v, w) /\ SameVotes(v, w) /\ SameConfig(v, w)
          /\ w.disk = v.disk /\ w.fo.state = "select_slave"
      <3>1. "select_slave" \in FailoverStates \cup {"update_config"}
        BY DEF FailoverStates
      <3> HIDE DEF v
      <3> QED BY <1>3, <2>1, <3>1, StateRecord
    <2>3. o.r = w /\ o.sent = {} /\ o.won = won
      BY <1>5 DEF Outcome
    <2>4. won \in BOOLEAN /\ (won => Wins(r, w, r.fo.epoch, RunId(s, r)))
      BY <2>2 DEF Wins, Votes, SameVotes
    <2> HIDE DEF w, v, won
    <2> QED BY <1>3, <1>4, <2>2, <2>3, <2>4
            DEF OutcomeOK, VoteKept, Reconfiguring, SameLife, SameVotes, SameConfig
  <1>6. CASE o = Only(v)
    <2>1. o.r = v /\ o.sent = {} /\ o.won \in BOOLEAN /\ ~o.won
      BY <1>6 DEF Only, Outcome
    <2> HIDE DEF v
    <2> QED BY <1>3, <1>4, <2>1 DEF OutcomeOK, VoteKept, Reconfiguring
  <1>7. CASE o = Only(AbortFailover(v))
    <2> DEFINE w == AbortFailover(v)
    <2>1. /\ RecordOK(s, w) /\ SameLife(v, w) /\ SameVotes(v, w) /\ SameConfig(v, w)
          /\ w.disk = v.disk /\ w.fo.state = "none"
      BY <1>3, <1>4, AbortRecord DEF Reconfiguring
    <2>2. o.r = w /\ o.sent = {} /\ o.won \in BOOLEAN /\ ~o.won
      BY <1>7 DEF Only, Outcome
    <2> HIDE DEF w, v
    <2> QED BY <1>3, <1>4, <2>1, <2>2
            DEF OutcomeOK, VoteKept, Reconfiguring, SameLife, SameVotes, SameConfig
  <1> QED BY <1>1, <1>5, <1>6, <1>7

\* sentinelFailoverSelectSlave
LEMMA SelectSlaveOutcome ==
    ASSUME NEW s \in Sentinels, NEW r, RecordOK(s, r), r.fo.state = "select_slave",
           NEW o \in FailoverSelectSlave(r)
    PROVE  OutcomeOK(s, r, o)
  <1>1. CASE o = Only(AbortFailover(r))
    <2> DEFINE v == AbortFailover(r)
    <2>1. /\ RecordOK(s, v) /\ SameLife(r, v) /\ SameVotes(r, v) /\ SameConfig(r, v)
          /\ v.disk = r.disk /\ v.fo.state = "none"
      BY AbortRecord
    <2> HIDE DEF v
    <2>2. Reconfiguring(v) = Reconfiguring(r) /\ ~Reconfiguring(r)
      BY <2>1 DEF Reconfiguring
    <2> QED BY <1>1, <2>1, <2>2, OutcomeOfFailover DEF Only, v
  <1>2. ASSUME NEW i \in SelectSlave(r),
               o = Only([r EXCEPT !.fo.state = "send_slaveof_noone", !.fo.promoted = i])
        PROVE  OutcomeOK(s, r, o)
    <2> DEFINE fo == [r.fo EXCEPT !.state = "send_slaveof_noone", !.promoted = i]
               v == [r EXCEPT !.fo = fo]
    <2>1. i \in Instances
      BY DEF SelectSlave, RecordOK, Records
    <2>2. fo \in FailoverRecords /\ FailoverOK(fo) /\ fo.state = "send_slaveof_noone"
      BY <2>1, MasterAssumption DEF RecordOK, Records, FailoverRecords, FailoverOK, FailoverStates
    <2>3. o = Only(v)
      BY <1>2 DEF RecordOK, Records
    <2> HIDE DEF fo
    <2>4. /\ RecordOK(s, v) /\ SameLife(r, v) /\ SameVotes(r, v) /\ SameConfig(r, v)
          /\ v.disk = r.disk /\ v.fo.state = "send_slaveof_noone"
      BY <2>2, FailoverRecord
    <2> HIDE DEF v
    <2>5. Reconfiguring(v) = Reconfiguring(r) /\ ~Reconfiguring(r)
      BY <2>4 DEF Reconfiguring
    <2> QED BY <2>3, <2>4, <2>5, OutcomeOfFailover DEF Only
  <1> QED BY <1>1, <1>2 DEF FailoverSelectSlave

\* sentinelFailoverSendSlaveOfNoOne and sentinelFailoverWaitPromotion
LEMMA PromoteOutcome ==
    ASSUME NEW s \in Sentinels, NEW r, RecordOK(s, r),
           r.fo.state \in {"send_slaveof_noone", "wait_promotion"},
           NEW o, \/ r.fo.state = "send_slaveof_noone" /\ o \in FailoverSendSlaveOfNoOne(r)
                  \/ r.fo.state = "wait_promotion" /\ o \in FailoverWaitPromotion(r)
    PROVE  OutcomeOK(s, r, o)
  <1>1. SameLife(r, r) /\ SameVotes(r, r) /\ SameConfig(r, r) /\ ~Reconfiguring(r)
    BY DEF SameLife, SameVotes, SameConfig, Reconfiguring
  <1>2. CASE o = Only(r)
    BY <1>1, <1>2, OutcomeOfFailover DEF Only
  <1>3. CASE o = Only(AbortFailover(r))
    <2> DEFINE v == AbortFailover(r)
    <2>1. /\ RecordOK(s, v) /\ SameLife(r, v) /\ SameVotes(r, v) /\ SameConfig(r, v)
          /\ v.disk = r.disk /\ v.fo.state = "none"
      BY AbortRecord
    <2> HIDE DEF v
    <2>2. Reconfiguring(v) = Reconfiguring(r)
      BY <1>1, <2>1 DEF Reconfiguring
    <2> QED BY <1>1, <1>3, <2>1, <2>2, OutcomeOfFailover DEF Only, v
  <1>4. CASE o = Outcome([r EXCEPT !.fo.state = "wait_promotion"], {<<r.fo.promoted, NoOne>>}, FALSE)
    <2> DEFINE v == [r EXCEPT !.fo.state = "wait_promotion"]
               sent == {<<r.fo.promoted, NoOne>>}
    <2>1. "wait_promotion" \in FailoverStates \cup {"update_config"}
      BY DEF FailoverStates
    <2>2. /\ \A i \in Instances : r.fo.reconf[i] = {}
          /\ r.fo.promoted # None /\ r.fo.promoted \in Instances
      BY DEF RecordOK, FailoverOK, Records, FailoverRecords
    <2>3. /\ RecordOK(s, v) /\ SameLife(r, v) /\ SameVotes(r, v) /\ SameConfig(r, v)
          /\ v.disk = r.disk /\ v.fo.state = "wait_promotion"
      BY <2>1, <2>2, StateRecord
    <2>4. sent \in SUBSET Orders
      BY <2>2 DEF Orders
    <2>5. o = Outcome(v, sent, FALSE)
      BY <1>4
    <2> HIDE DEF v, sent
    <2>6. Reconfiguring(v) = Reconfiguring(r)
      BY <1>1, <2>3 DEF Reconfiguring
    <2> QED BY <1>1, <2>3, <2>4, <2>5, <2>6, OutcomeOfFailover
  <1> QED BY <1>2, <1>3, <1>4 DEF FailoverSendSlaveOfNoOne, FailoverWaitPromotion

\* sentinelFailoverDetectEnd
LEMMA DetectEndOutcome ==
    ASSUME NEW s \in Sentinels, NEW r, RecordOK(s, r), r.fo.state = "reconf_slaves",
           NEW n, RecordOK(s, n), n.fo.state = "reconf_slaves", n.fo.promoted = r.fo.promoted,
           SameLife(r, n), SameVotes(r, n), SameConfig(r, n), n.disk = r.disk,
           NEW sent \in SUBSET Orders, NEW o \in FailoverDetectEnd(n, sent)
    PROVE  OutcomeOK(s, r, o)
  <1> DEFINE e == Ended(n)
             last == sent \cup {<<i, n.fo.promoted>> : i \in LastReconf(n)}
  <1>1. n.fo.promoted # None /\ n.fo.promoted \in Instances /\ n.slaves \subseteq Instances
    BY DEF RecordOK, FailoverOK, Records, FailoverRecords
  <1>2. "update_config" \in FailoverStates \cup {"update_config"}
    OBVIOUS
  <1>3. /\ RecordOK(s, e) /\ SameLife(n, e) /\ SameVotes(n, e) /\ SameConfig(n, e)
        /\ e.disk = n.disk /\ e.fo.state = "update_config" /\ e.fo.promoted = n.fo.promoted
    BY <1>1, <1>2, StateRecord DEF Ended
  <1>4. last \in SUBSET Orders
    BY <1>1 DEF Orders, LastReconf
  <1>5. \E v \in {e, n}, out \in {sent, last} : o = Outcome(v, out, FALSE)
    BY DEF FailoverDetectEnd
  <1> HIDE DEF e, last
  <1>6. PICK v \in {e, n}, out \in {sent, last} : o = Outcome(v, out, FALSE)
    BY <1>5
  <1>7. out \in SUBSET Orders
    BY <1>4
  <1>8. /\ RecordOK(s, v) /\ SameLife(r, v) /\ SameVotes(r, v) /\ SameConfig(r, v)
        /\ v.disk = r.disk /\ v.fo.promoted = r.fo.promoted
        /\ v.fo.state \in {"reconf_slaves", "update_config"}
    BY <1>3 DEF SameLife, SameVotes, SameConfig
  <1>9. Reconfiguring(v) = Reconfiguring(r)
    BY <1>8 DEF Reconfiguring
  <1> QED BY <1>6, <1>7, <1>8, <1>9, OutcomeOfFailover

\* sentinelFailoverReconfNextSlave
LEMMA ReconfOutcome ==
    ASSUME NEW s \in Sentinels, NEW r, RecordOK(s, r), r.fo.state = "reconf_slaves",
           NEW o \in FailoverReconfNextSlave(r)
    PROVE  OutcomeOK(s, r, o)
  <1>1. SameLife(r, r) /\ SameVotes(r, r) /\ SameConfig(r, r)
    BY DEF SameLife, SameVotes, SameConfig
  <1>2. CASE o \in FailoverDetectEnd(r, {})
    BY <1>1, <1>2, DetectEndOutcome
  <1> DEFINE next(told, expired) == [r EXCEPT !.fo.reconf = [i \in Instances |->
                    IF i \in told THEN (IF @[i] = {} THEN {"sent"} ELSE {"sent", "done"})
                    ELSE IF i \in expired /\ ~Connected(i) /\ @[i] = {"sent"} THEN {"done"} ELSE @[i]]]
             orders(told) == {<<i, r.fo.promoted>> : i \in told}
  <1>3. ASSUME NEW expired, NEW told \in SUBSET ReconfEligible(r, expired),
               o \in FailoverDetectEnd(next(told, expired), orders(told))
        PROVE  OutcomeOK(s, r, o)
    <2> DEFINE reconf == [i \in Instances |->
                    IF i \in told THEN (IF r.fo.reconf[i] = {} THEN {"sent"} ELSE {"sent", "done"})
                    ELSE IF i \in expired /\ ~Connected(i) /\ r.fo.reconf[i] = {"sent"}
                         THEN {"done"} ELSE r.fo.reconf[i]]
               fo == [r.fo EXCEPT !.reconf = reconf]
               n == [r EXCEPT !.fo = fo]
               sent == {<<i, r.fo.promoted>> : i \in told}
    <2>1. r.fo \in FailoverRecords /\ r.fo.promoted # None /\ r.fo.promoted \in Instances
          /\ r.slaves \subseteq Instances
      BY DEF RecordOK, FailoverOK, Records, FailoverRecords
    <2>2. reconf \in [Instances -> SUBSET Flags]
      BY <2>1 DEF FailoverRecords, Flags
    <2>3. o \in FailoverDetectEnd(n, sent)
      <3>1. [r EXCEPT !.fo.reconf = reconf] = n
        BY <2>1 DEF RecordOK, Records, FailoverRecords
      <3> QED BY <1>3, <2>1, <3>1 DEF RecordOK, Records, FailoverRecords
    <2> HIDE DEF reconf
    <2>4. /\ fo \in FailoverRecords /\ FailoverOK(fo) /\ fo.state = "reconf_slaves"
          /\ fo.promoted = r.fo.promoted
      BY <2>1, <2>2 DEF FailoverRecords, FailoverOK
    <2> HIDE DEF fo
    <2>5. /\ RecordOK(s, n) /\ n.fo = fo /\ SameLife(r, n) /\ SameVotes(r, n) /\ SameConfig(r, n)
          /\ n.disk = r.disk
      BY <2>4, FailoverRecord
    <2>6. sent \in SUBSET Orders
      BY <2>1 DEF Orders, ReconfEligible
    <2> HIDE DEF n, sent
    <2> QED BY <2>3, <2>4, <2>5, <2>6, DetectEndOutcome
  <1>4. CASE o \notin FailoverDetectEnd(r, {})
    <2> DEFINE room == parallel_syncs - Cardinality(InProgress(r))
               Sets(expired) == {x \in SUBSET ReconfEligible(r, expired) :
                   Cardinality(x) = room \/ (x = ReconfEligible(r, expired) /\ Cardinality(x) < room)}
               Told == SUBSET {i \in r.slaves : "sent" \in r.fo.reconf[i]}
    <2>1. o \in UNION {UNION {FailoverDetectEnd(next(told, expired), orders(told)) :
                                told \in Sets(expired)} : expired \in Told}
      BY <1>4 DEF FailoverReconfNextSlave
    <2> HIDE DEF next, orders, Sets, Told
    <2>2. PICK expired \in Told : \E told \in Sets(expired) :
            o \in FailoverDetectEnd(next(told, expired), orders(told))
      BY <2>1
    <2>3. PICK told \in Sets(expired) : o \in FailoverDetectEnd(next(told, expired), orders(told))
      BY <2>2
    <2>4. told \in SUBSET ReconfEligible(r, expired)
      BY DEF Sets
    <2> QED BY <1>3, <2>3, <2>4
  <1> QED BY <1>2, <1>4

\* sentinelFailoverStateMachine
LEMMA MachineOutcome ==
    ASSUME NEW s \in Sentinels, NEW r, RecordOK(s, r), r.fo.state # "update_config",
           NEW o \in FailoverStateMachine(s, r)
    PROVE  OutcomeOK(s, r, o)
  <1>1. r.fo.state \in FailoverStates
    BY DEF RecordOK, Records, FailoverRecords
  <1>2. CASE r.fo.state = "none"
    <2>1. SameLife(r, r) /\ SameVotes(r, r) /\ SameConfig(r, r) /\ ~Reconfiguring(r)
      BY <1>2 DEF SameLife, SameVotes, SameConfig, Reconfiguring
    <2>2. o = Only(r)
      BY <1>2 DEF FailoverStateMachine
    <2> QED BY <2>1, <2>2, OutcomeOfFailover DEF Only
  <1>3. CASE r.fo.state = "wait_start"
    BY <1>3, WaitStartOutcome DEF FailoverStateMachine
  <1>4. CASE r.fo.state = "select_slave"
    BY <1>4, SelectSlaveOutcome DEF FailoverStateMachine
  <1>5. CASE r.fo.state \in {"send_slaveof_noone", "wait_promotion"}
    BY <1>5, PromoteOutcome DEF FailoverStateMachine
  <1>6. CASE r.fo.state = "reconf_slaves"
    BY <1>6, ReconfOutcome DEF FailoverStateMachine
  <1> QED BY <1>1, <1>2, <1>3, <1>4, <1>5, <1>6 DEF FailoverStates

-----------------------------------------------------------------------------
(* What a step does to every Sentinel.                                     *)

Down(r) == IF r.up THEN 0 ELSE 1

\* The types, the shape of a failover, the saved epoch of the vote, and that a
\* Sentinel was started again no more often than it crashed.
SentinelInv ==
    /\ sen = [s \in Sentinels |-> sen[s]]
    /\ \A s \in Sentinels : /\ RecordOK(s, sen[s]) /\ sen[s].fo.state # "update_config"
                            /\ sen[s].boot + Down(sen[s]) + left <= MaxDisturbances
    /\ inst \in [Instances -> [up : BOOLEAN, master : Instances \cup {NoOne}]]
    /\ left \in 0..MaxDisturbances /\ wasReset \in BOOLEAN

PeersFull(s, r) == DOMAIN r.peers = Sentinels \ {s} /\ DOMAIN r.disk.peers = Sentinels \ {s}

\* Until an operator resets one, every Sentinel knows all the others.
PeersInv == ~wasReset => \A s \in Sentinels : PeersFull(s, sen[s])

\* What one handler makes of the record of its Sentinel.
Handled(s, r, v) ==
    /\ RecordOK(s, v) /\ v.fo.state # "update_config" /\ SameLife(r, v) /\ VoteKept(r, v)
    /\ ~Overtaken(r) => v.cepoch >= r.cepoch

\* ... except for SENTINEL RESET
Announced(s, r, v) ==
    /\ PeersFull(s, r) => PeersFull(s, v)
    /\ ~Overtaken(r) /\ CurrentMasterAddress(v) # CurrentMasterAddress(r) => v.cepoch > r.cepoch

\* What s noted of a vote of t was noted before, or is the vote of t.
NoteKept(s, t) ==
    LET p == sen'[s].peers[t] IN
    \/ p.leader = None
    \/ /\ t \in DOMAIN sen[s].peers
       /\ p.leader = sen[s].peers[t].leader /\ p.lepoch = sen[s].peers[t].lepoch
    \/ p.leader = sen'[t].leader /\ p.lepoch = sen'[t].lepoch

VotesMove ==
    \A s \in Sentinels : /\ VoteKept(sen[s], sen'[s])
                         /\ \A t \in DOMAIN sen'[s].peers : NoteKept(s, t)

ConfigsMove ==
    \A s \in Sentinels :
        sen[s].up /\ sen'[s].up /\ ~Overtaken(sen[s]) =>
            /\ sen'[s].cepoch >= sen[s].cepoch
            /\ CurrentMasterAddress(sen'[s]) # CurrentMasterAddress(sen[s]) /\ ~wasReset' =>
                 sen'[s].cepoch > sen[s].cepoch

StepOK ==
    SentinelInv' /\ (PeersInv => PeersInv') /\ VotesMove /\ ConfigsMove /\ (wasReset => wasReset')

\* The invariant says that every record is a good one.
LEMMA RecordNow ==
    ASSUME SentinelInv, NEW s \in Sentinels
    PROVE  /\ RecordOK(s, sen[s]) /\ sen[s] \in Records(s) /\ sen[s].fo.state # "update_config"
           /\ sen[s].peers \in UNION {[P -> Peers] : P \in Others(s)}
           /\ sen[s].lepoch \in Nat /\ sen[s].cepoch \in Nat /\ sen[s].epoch \in Epochs
           /\ sen[s].boot \in Nat
           /\ DOMAIN sen[s].peers \subseteq Sentinels \ {s}
  <1>1. RecordOK(s, sen[s]) /\ sen[s].fo.state # "update_config"
    BY DEF SentinelInv
  <1>2. sen[s] \in Records(s)
    BY <1>1 DEF RecordOK
  <1>3. PICK P \in Others(s) : sen[s].peers \in [P -> Peers]
    BY <1>2 DEF Records
  <1> QED BY <1>1, <1>2, <1>3, BoundsAssumption DEF Records, Epochs, Others

\* A step whose handlers are good ones.
LEMMA HandledStep ==
    ASSUME SentinelInv, sen' = [s \in Sentinels |-> sen'[s]],
           \A s \in Sentinels :
               /\ Handled(s, sen[s], sen'[s])
               /\ \A t \in DOMAIN sen'[s].peers : NoteKept(s, t)
               /\ ~wasReset' => Announced(s, sen[s], sen'[s]),
           inst' \in [Instances -> [up : BOOLEAN, master : Instances \cup {NoOne}]],
           left' \in 0..left, wasReset' \in BOOLEAN, wasReset => wasReset'
    PROVE  StepOK
  <1>1. \A s \in Sentinels :
            /\ RecordOK(s, sen'[s]) /\ sen'[s].fo.state # "update_config"
            /\ sen'[s].boot + Down(sen'[s]) + left' <= MaxDisturbances
    <2> SUFFICES ASSUME NEW s \in Sentinels
                 PROVE  /\ RecordOK(s, sen'[s]) /\ sen'[s].fo.state # "update_config"
                        /\ sen'[s].boot + Down(sen'[s]) + left' <= MaxDisturbances
      OBVIOUS
    <2>1. sen[s].boot \in Nat /\ sen[s].boot + Down(sen[s]) + left <= MaxDisturbances /\ left \in Nat
      BY RecordNow DEF SentinelInv
    <2>2. sen'[s].boot = sen[s].boot /\ Down(sen'[s]) = Down(sen[s]) /\ Down(sen[s]) \in Nat
      BY DEF Handled, SameLife, Down
    <2> QED BY <2>1, <2>2, BoundsAssumption DEF Handled
  <1>2. SentinelInv'
    <2>1. left' \in 0..MaxDisturbances
      BY BoundsAssumption DEF SentinelInv
    <2> QED BY <1>1, <2>1 DEF SentinelInv, RecordOK, FailoverOK, Down
  <1>3. PeersInv => PeersInv'
    BY DEF PeersInv, PeersFull, Announced
  <1>4. VotesMove
    BY DEF VotesMove, Handled
  <1>5. ConfigsMove
    BY DEF ConfigsMove, Handled, Announced
  <1> QED BY <1>2, <1>3, <1>4, <1>5 DEF StepOK

\* The same when one Sentinel runs a handler and the others do nothing.
LEMMA OneHandled ==
    ASSUME SentinelInv, NEW s \in Sentinels, NEW v, Handled(s, sen[s], v),
           sen' = [sen EXCEPT ![s] = v],
           \A t \in DOMAIN v.peers :
               \/ v.peers[t].leader = None
               \/ t \in DOMAIN sen[s].peers /\ v.peers[t] = sen[s].peers[t],
           ~wasReset' => Announced(s, sen[s], v),
           inst' \in [Instances -> [up : BOOLEAN, master : Instances \cup {NoOne}]],
           left' \in 0..left, wasReset' \in BOOLEAN, wasReset => wasReset'
    PROVE  StepOK
  <1>1. sen'[s] = v /\ (\A u \in Sentinels \ {s} : sen'[u] = sen[u])
        /\ sen' = [u \in Sentinels |-> sen'[u]]
    BY DEF SentinelInv
  <1>2. ASSUME NEW u \in Sentinels, u # s
        PROVE  /\ Handled(u, sen[u], sen'[u]) /\ Announced(u, sen[u], sen'[u])
               /\ \A t \in DOMAIN sen'[u].peers : NoteKept(u, t)
    <2>1. sen'[u] = sen[u]
      BY <1>1, <1>2
    <2> QED BY <2>1, RecordNow DEF Handled, Announced, NoteKept, SameLife, VoteKept
  <1>3. \A t \in DOMAIN sen'[s].peers : NoteKept(s, t)
    BY <1>1 DEF NoteKept
  <1>4. \A u \in Sentinels :
            /\ Handled(u, sen[u], sen'[u])
            /\ \A t \in DOMAIN sen'[u].peers : NoteKept(u, t)
            /\ ~wasReset' => Announced(u, sen[u], sen'[u])
    BY <1>1, <1>2, <1>3
  <1> QED BY <1>1, <1>4, HandledStep

-----------------------------------------------------------------------------
(* One lemma per handler.                                                  *)

\* sentinelSendSlaveOf: an instance replicates from an instance or from no one.
LEMMA SlaveOfType ==
    ASSUME SentinelInv, NEW sent \in SUBSET Orders, NEW lost, SlaveOf(sent, lost)
    PROVE  inst' \in [Instances -> [up : BOOLEAN, master : Instances \cup {NoOne}]]
  <1> SUFFICES ASSUME NEW i \in Instances
               PROVE  LET to == {c[2] : c \in {d \in sent : d[1] = i}} IN
                      (IF to = {} \/ i \in lost \/ ~inst[i].up THEN inst[i]
                       ELSE [inst[i] EXCEPT !.master = CHOOSE m \in to : TRUE])
                      \in [up : BOOLEAN, master : Instances \cup {NoOne}]
    BY DEF SlaveOf
  <1> DEFINE to == {c[2] : c \in {d \in sent : d[1] = i}}
  <1>1. to \subseteq Instances \cup {NoOne}
    BY DEF Orders
  <1>2. inst[i] \in [up : BOOLEAN, master : Instances \cup {NoOne}]
    BY DEF SentinelInv
  <1> HIDE DEF to
  <1>3. CASE to # {}
    <2>1. (CHOOSE m \in to : TRUE) \in Instances \cup {NoOne}
      BY <1>1, <1>3
    <2> QED BY <1>2, <2>1 DEF to
  <1>4. CASE to = {}
    BY <1>2, <1>4 DEF to
  <1> QED BY <1>3, <1>4

\* The votes that made s the leader of the epoch, as it stands after the timer.
Supporters(v, me, epoch) ==
    {t \in DOMAIN v.peers : v.peers[t].leader = me /\ v.peers[t].lepoch = epoch}
Support(v, me, epoch) ==
    Cardinality(Supporters(v, me, epoch)) + (IF v.leader = me /\ v.lepoch = epoch THEN 1 ELSE 0)

ElectedNow(s, e) ==
    /\ e.by = s /\ e.epoch \in Nat
    /\ e.current = e.epoch =>
         LET n == Support(sen'[s], RunId(s, sen'[s]), e.epoch) IN
         n >= (Cardinality(DOMAIN sen'[s].peers) + 1) \div 2 + 1 /\ n >= quorum

\* sentinelTimer
LEMMA TimerStep ==
    ASSUME SentinelInv, NEW s \in Sentinels, Timer(s)
    PROVE  /\ StepOK
           /\ \/ elections' = elections
              \/ \E e : elections' = elections \cup {e} /\ ElectedNow(s, e)
  <1> DEFINE r == sen[s]
  <1>1. PICK late \in Late(r), start \in BOOLEAN :
        LET r0 == CheckSubjectivelyDown(r, {r.addr}, late)
            r1 == IF start THEN StartFailover(r0) ELSE r0
        IN  /\ start => StartFailoverIfNeeded(r0) /\ r0.epoch < MaxEpoch
            /\ \E o \in FailoverStateMachine(s, r1) :
                LET r2 == CheckSubjectivelyDown(o.r, o.r.slaves, late)
                    r3 == IF r2.fo.state = "update_config"
                          THEN ResetMasterAndChangeAddress(r2, r2.fo.promoted) ELSE r2
                IN  /\ sen' = [sen EXCEPT ![s] = r3]
                    /\ \E lost \in SUBSET {c[1] : c \in o.sent} : SlaveOf(o.sent, lost)
                    /\ elections' = IF o.won THEN elections \cup
                            {[epoch |-> r1.fo.epoch, current |-> r1.epoch, by |-> s]} ELSE elections
    BY DEF Timer
  <1> DEFINE r0 == CheckSubjectivelyDown(r, {r.addr}, late)
             r1 == IF start THEN StartFailover(r0) ELSE r0
  <1>2. PICK o \in FailoverStateMachine(s, r1) :
                LET r2 == CheckSubjectivelyDown(o.r, o.r.slaves, late)
                    r3 == IF r2.fo.state = "update_config"
                          THEN ResetMasterAndChangeAddress(r2, r2.fo.promoted) ELSE r2
                IN  /\ sen' = [sen EXCEPT ![s] = r3]
                    /\ \E lost \in SUBSET {c[1] : c \in o.sent} : SlaveOf(o.sent, lost)
                    /\ elections' = IF o.won THEN elections \cup
                            {[epoch |-> r1.fo.epoch, current |-> r1.epoch, by |-> s]} ELSE elections
    BY <1>1
  <1> DEFINE r2 == CheckSubjectivelyDown(o.r, o.r.slaves, late)
             r3 == IF r2.fo.state = "update_config"
                   THEN ResetMasterAndChangeAddress(r2, r2.fo.promoted) ELSE r2
  <1>3. UNCHANGED <<left, wasReset>>
    BY DEF Timer
  <1>4. RecordOK(s, r) /\ r \in Records(s) /\ r.fo.state # "update_config"
    BY RecordNow
  <1>5. late \in SUBSET Instances /\ {r.addr} \in SUBSET Instances
    BY <1>4 DEF Late, Records
  <1>6. /\ RecordOK(s, r0) /\ r0.fo = r.fo
        /\ SameLife(r, r0) /\ SameVotes(r, r0) /\ SameConfig(r, r0)
        /\ r0.epoch = r.epoch /\ r0.slaves = r.slaves /\ r0.disk = r.disk
    BY <1>4, <1>5, DownRecord
  <1>7. start => r0.fo.state = "none" /\ r0.epoch < MaxEpoch
    BY <1>1 DEF StartFailoverIfNeeded
  <1> HIDE DEF r0
  <1>8. /\ RecordOK(s, r1) /\ r1.fo.state # "update_config"
        /\ SameLife(r, r1) /\ SameVotes(r, r1) /\ SameConfig(r, r1) /\ r1.disk = r.disk
        /\ start => r1.fo.state = "wait_start" /\ r.fo.state = "none"
        /\ ~start => r1.fo = r.fo
    BY <1>4, <1>6, <1>7, StartRecord DEF SameLife, SameVotes, SameConfig
  <1>9. Reconfiguring(r1) = Reconfiguring(r) /\ (Reconfiguring(r) => r1.fo.promoted = r.fo.promoted)
    BY <1>8 DEF Reconfiguring
  <1> HIDE DEF r1
  <1>10. OutcomeOK(s, r1, o)
    BY <1>8, MachineOutcome
  <1>11. o.r.slaves \in SUBSET Instances
    BY <1>10 DEF OutcomeOK, RecordOK, Records
  <1>12. /\ RecordOK(s, r2) /\ r2.fo = o.r.fo
         /\ SameLife(o.r, r2) /\ SameVotes(o.r, r2) /\ SameConfig(o.r, r2) /\ r2.disk = o.r.disk
    BY <1>5, <1>10, <1>11, DownRecord DEF OutcomeOK
  <1> HIDE DEF r2
  <1>13. /\ RecordOK(s, r3) /\ r3.fo.state # "update_config"
         /\ SameLife(r2, r3) /\ r3.cepoch = r2.cepoch /\ r3.lepoch = r2.lepoch /\ r3.peers = r2.peers
         /\ r3.leader \in {r2.leader, None}
         /\ DOMAIN r3.disk.peers \in {DOMAIN r2.disk.peers, DOMAIN r2.peers}
         /\ CurrentMasterAddress(r3) = CurrentMasterAddress(r2)
         /\ ~Reconfiguring(r2) => r3 = r2
    <2>1. CASE r2.fo.state = "update_config"
      <3>1. r2.fo.promoted \in Instances
        BY <1>12, <2>1 DEF RecordOK, FailoverOK, Records, FailoverRecords
      <3>2. r3 = ResetMasterAndChangeAddress(r2, r2.fo.promoted)
        BY <2>1
      <3>3. CurrentMasterAddress(r2) = r2.fo.promoted
        BY <2>1, <3>1, MasterAssumption DEF CurrentMasterAddress
      <3> HIDE DEF r3
      <3>4. /\ RecordOK(s, r3) /\ r3.fo = NoFailover
            /\ SameLife(r2, r3) /\ r3.cepoch = r2.cepoch /\ r3.addr = r2.fo.promoted
            /\ r3.leader = None /\ r3.lepoch = r2.lepoch /\ r3.peers = r2.peers
            /\ DOMAIN r3.disk.peers = DOMAIN r2.peers
        BY <1>12, <3>1, <3>2, ChangeAddressRecord
      <3>5. NoFailover.state = "none"
        BY DEF NoFailover
      <3>6. CurrentMasterAddress(r3) = r3.addr
        BY <3>4, <3>5 DEF CurrentMasterAddress
      <3> QED BY <2>1, <3>3, <3>4, <3>5, <3>6 DEF Reconfiguring
    <2>2. CASE r2.fo.state # "update_config"
      BY <1>12, <2>2 DEF SameLife
    <2> QED BY <2>1, <2>2
  <1> HIDE DEF r3
  <1>14. Handled(s, r, r3)
    <2>1. r.lepoch \in Int /\ r.cepoch \in Int /\ r3.lepoch \in Int
      BY <1>13, RecordNow, BoundsAssumption DEF RecordOK, Records, Epochs
    <2> QED BY <1>8, <1>10, <1>12, <1>13, <2>1
            DEF Handled, OutcomeOK, SameLife, SameVotes, SameConfig, VoteKept
  <1>15. CurrentMasterAddress(r2) = CurrentMasterAddress(r)
    <2>1. Reconfiguring(r2) = Reconfiguring(r) /\ (Reconfiguring(r) => r2.fo.promoted = r.fo.promoted)
      BY <1>9, <1>10, <1>12 DEF OutcomeOK, Reconfiguring
    <2>2. r2.addr = r.addr
      BY <1>8, <1>10, <1>12 DEF OutcomeOK, SameConfig
    <2> QED BY <2>1, <2>2 DEF CurrentMasterAddress, Reconfiguring
  <1>16. r3.peers = r.peers /\ DOMAIN r3.disk.peers \in {DOMAIN r.disk.peers, DOMAIN r.peers}
    BY <1>8, <1>10, <1>12, <1>13 DEF OutcomeOK, SameVotes
  <1>17. Announced(s, r, r3)
    BY <1>13, <1>15, <1>16 DEF Announced, PeersFull
  <1>18. sen' = [sen EXCEPT ![s] = r3]
    BY <1>2 DEF r2, r3
  <1>19. inst' \in [Instances -> [up : BOOLEAN, master : Instances \cup {NoOne}]]
    BY <1>2, <1>10, SlaveOfType DEF OutcomeOK
  <1>20. StepOK
    <2>1. left' \in 0..left /\ wasReset' \in BOOLEAN /\ wasReset' = wasReset
      BY <1>3 DEF SentinelInv
    <2> QED BY <1>14, <1>16, <1>17, <1>18, <1>19, <2>1, OneHandled
  <1>21. CASE o.won
    <2> DEFINE e == [epoch |-> r1.fo.epoch, current |-> r1.epoch, by |-> s]
    <2>1. elections' = elections \cup {e}
      BY <1>2, <1>21
    <2>2. sen'[s] = r3 /\ r3 = r2
      BY <1>10, <1>12, <1>13, <1>18, <1>21 DEF SentinelInv, OutcomeOK, Reconfiguring
    <2>3. Wins(r1, o.r, r1.fo.epoch, RunId(s, r1))
      BY <1>10, <1>21 DEF OutcomeOK
    <2>4. r3.leader = o.r.leader /\ r3.lepoch = o.r.lepoch /\ r3.peers = r1.peers
          /\ RunId(s, r3) = RunId(s, r1)
      BY <1>8, <1>10, <1>12, <2>2 DEF OutcomeOK, SameVotes, SameLife, RunId
    <2>5. ASSUME r1.epoch = r1.fo.epoch
          PROVE  Support(r3, RunId(s, r3), r1.fo.epoch) = Votes(r1, o.r, r1.fo.epoch, RunId(s, r1))
      BY <2>4, <2>5 DEF Support, Supporters, Votes, VotesFor
    <2>6. r1.fo.epoch \in Nat
      BY <1>8, BoundsAssumption DEF RecordOK, Records, FailoverRecords, Epochs
    <2>7. ElectedNow(s, e)
      BY <2>2, <2>3, <2>4, <2>5, <2>6 DEF ElectedNow, Wins
    <2> QED BY <1>20, <2>1, <2>7
  <1>22. CASE ~o.won
    BY <1>2, <1>20, <1>22
  <1> QED BY <1>21, <1>22

\* sentinelAskMasterStateToOtherSentinels, the reply that is too old
LEMMA DropStep ==
    ASSUME SentinelInv, NEW s \in Sentinels, NEW t \in Sentinels, DropOldReply(s, t)
    PROVE  StepOK
  <1> DEFINE r == sen[s]
             p == [r.peers[t] EXCEPT !.down = FALSE, !.leader = None, !.lepoch = 0]
             peers == [r.peers EXCEPT ![t] = p]
             v == [r EXCEPT !.peers = peers]
  <1>1. RecordOK(s, r) /\ r.fo.state # "update_config" /\ r.lepoch \in Nat /\ r.cepoch \in Nat
    BY RecordNow
  <1>2. PICK P \in Others(s) : r.peers \in [P -> Peers]
    BY RecordNow
  <1>3. t \in P /\ DOMAIN r.peers = P
    BY <1>2 DEF DropOldReply
  <1>4. p \in Peers /\ p.leader = None
    <2>1. 0 \in Epochs
      BY BoundsAssumption DEF Epochs
    <2>2. r.peers[t] \in Peers
      BY <1>2, <1>3
    <2> QED BY <2>1, <2>2 DEF Peers
  <1>5. sen' = [sen EXCEPT ![s] = v]
    BY <1>1 DEF DropOldReply, SentinelInv, RecordOK, Records
  <1> HIDE DEF p
  <1>6. peers \in [P -> Peers] /\ peers[t] = p /\ \A u \in P \ {t} : peers[u] = r.peers[u]
    BY <1>2, <1>3, <1>4
  <1> HIDE DEF peers
  <1>7. /\ RecordOK(s, v) /\ v.fo = r.fo /\ SameLife(r, v) /\ SameConfig(r, v)
        /\ v.leader = r.leader /\ v.lepoch = r.lepoch /\ v.peers = peers /\ v.disk = r.disk
    BY <1>1, <1>6 DEF RecordOK, Records, SameLife, SameConfig
  <1> HIDE DEF v
  <1>8. Handled(s, r, v)
    BY <1>1, <1>7 DEF Handled, VoteKept, SameConfig
  <1>9. Announced(s, r, v)
    BY <1>2, <1>6, <1>7 DEF Announced, PeersFull, CurrentMasterAddress, SameConfig
  <1>10. \A u \in DOMAIN v.peers :
             v.peers[u].leader = None \/ (u \in DOMAIN r.peers /\ v.peers[u] = r.peers[u])
    BY <1>2, <1>4, <1>6, <1>7
  <1>11. /\ inst' \in [Instances -> [up : BOOLEAN, master : Instances \cup {NoOne}]]
         /\ left' \in 0..left /\ wasReset' \in BOOLEAN /\ wasReset' = wasReset
    BY DEF DropOldReply, SentinelInv
  <1> QED BY <1>5, <1>8, <1>9, <1>10, <1>11, OneHandled

\* ... and the one that is asked for: t may vote, and s notes what t answers.
LEMMA AskStep ==
    ASSUME SentinelInv, NEW s \in Sentinels, NEW t \in Sentinels, AskMasterState(s, t)
    PROVE  StepOK
  <1> DEFINE r == sen[s]
             run == IF r.fo.state = "none" THEN None ELSE RunId(s, r)
             v == IsMasterDownByAddr(sen[t], r.addr, r.epoch, run)
  <1>1. PICK tilt \in BOOLEAN, lost \in BOOLEAN :
          sen' = [sen EXCEPT ![t] = v,
                    ![s] = IF lost THEN r
                           ELSE ReceiveIsMasterDownReply(r, t, DownReply(sen[t], v, r.addr, run, tilt))]
    BY DEF AskMasterState
  <1> DEFINE reply == DownReply(sen[t], v, r.addr, run, tilt)
             w == IF lost THEN r ELSE ReceiveIsMasterDownReply(r, t, reply)
  <1>2. t \in DOMAIN r.peers
    BY DEF AskMasterState
  <1>3. t # s
    BY <1>2, RecordNow
  <1>4. /\ RecordOK(s, r) /\ r.fo.state # "update_config" /\ r.lepoch \in Nat /\ r.cepoch \in Nat
        /\ r.epoch \in Epochs /\ r \in Records(s)
    BY RecordNow
  <1>5. /\ RecordOK(t, sen[t]) /\ sen[t].fo.state # "update_config"
        /\ sen[t].lepoch \in Nat /\ sen[t].cepoch \in Nat
    BY RecordNow
  <1>6. PICK P \in Others(s) : r.peers \in [P -> Peers]
    BY RecordNow
  <1>7. t \in P /\ DOMAIN r.peers = P
    BY <1>2, <1>6
  <1>8. RunId(s, r) \in RunIds
    BY <1>4 DEF RunId, RunIds, Records
  <1>9. /\ RecordOK(t, v) /\ SameLife(sen[t], v) /\ SameConfig(sen[t], v) /\ v.fo = sen[t].fo
        /\ v.peers = sen[t].peers /\ DOMAIN v.disk.peers \in {DOMAIN sen[t].disk.peers, DOMAIN sen[t].peers}
        /\ v.lepoch >= sen[t].lepoch /\ (v.lepoch = sen[t].lepoch => v.leader = sen[t].leader)
    BY <1>4, <1>5, <1>8, VoteRecord DEF IsMasterDownByAddr, SameLife, SameConfig
  <1> HIDE DEF v
  <1>10. Handled(t, sen[t], v) /\ Announced(t, sen[t], v)
    BY <1>5, <1>9 DEF Handled, Announced, VoteKept, SameConfig, PeersFull, CurrentMasterAddress
  <1>11. /\ reply.down \in BOOLEAN
         /\ reply.leader \in RunIds \cup {None} /\ reply.lepoch \in Epochs
         /\ reply.leader # None => reply.leader = v.leader /\ reply.lepoch = v.lepoch
    BY <1>9, BoundsAssumption DEF DownReply, RecordOK, Records, Epochs
  <1> HIDE DEF reply
  <1> DEFINE p == IF reply.leader = None THEN [r.peers[t] EXCEPT !.down = reply.down]
                  ELSE [r.peers[t] EXCEPT !.down = reply.down, !.leader = reply.leader, !.lepoch = reply.lepoch]
             peers == [r.peers EXCEPT ![t] = p]
  <1>12. /\ p \in Peers
         /\ \/ p.leader = r.peers[t].leader /\ p.lepoch = r.peers[t].lepoch
            \/ p.leader = v.leader /\ p.lepoch = v.lepoch
    BY <1>6, <1>7, <1>11 DEF Peers
  <1>13. ReceiveIsMasterDownReply(r, t, reply) = [r EXCEPT !.peers = peers]
    BY <1>4 DEF ReceiveIsMasterDownReply, Records
  <1> HIDE DEF p
  <1>14. peers \in [P -> Peers] /\ peers[t] = p /\ \A u \in P \ {t} : peers[u] = r.peers[u]
    BY <1>6, <1>7, <1>12
  <1> HIDE DEF peers
  <1>15. /\ RecordOK(s, w) /\ w.fo = r.fo /\ SameLife(r, w) /\ SameConfig(r, w)
         /\ w.leader = r.leader /\ w.lepoch = r.lepoch /\ w.peers \in {r.peers, peers} /\ w.disk = r.disk
    BY <1>4, <1>13, <1>14 DEF RecordOK, Records, SameLife, SameConfig
  <1>16. sen' = [sen EXCEPT ![t] = v, ![s] = w]
    BY <1>1 DEF reply
  <1> HIDE DEF w
  <1>17. /\ sen'[s] = w /\ sen'[t] = v /\ \A u \in Sentinels \ {s, t} : sen'[u] = sen[u]
         /\ sen' = [u \in Sentinels |-> sen'[u]]
    BY <1>3, <1>16 DEF SentinelInv
  <1>18. Handled(s, r, w) /\ Announced(s, r, w)
    BY <1>4, <1>6, <1>14, <1>15 DEF Handled, Announced, VoteKept, SameConfig, PeersFull, CurrentMasterAddress
  <1>19. \A u \in Sentinels \ {s, t} : Handled(u, sen[u], sen'[u]) /\ Announced(u, sen[u], sen'[u])
    BY <1>17, RecordNow DEF Handled, Announced, VoteKept, SameLife
  <1>20. \A u \in Sentinels : \A k \in DOMAIN sen'[u].peers : NoteKept(u, k)
    <2>1. \A u \in Sentinels \ {s} : sen'[u].peers = sen[u].peers
      BY <1>9, <1>17
    <2>2. \A k \in DOMAIN w.peers : NoteKept(s, k)
      BY <1>3, <1>6, <1>7, <1>12, <1>14, <1>15, <1>17 DEF NoteKept
    <2> QED BY <1>17, <2>1, <2>2 DEF NoteKept
  <1>21. /\ inst' \in [Instances -> [up : BOOLEAN, master : Instances \cup {NoOne}]]
         /\ left' \in 0..left /\ wasReset' \in BOOLEAN /\ wasReset' = wasReset
    BY DEF AskMasterState, SentinelInv
  <1>22. \A u \in Sentinels : /\ Handled(u, sen[u], sen'[u]) /\ Announced(u, sen[u], sen'[u])
                              /\ \A k \in DOMAIN sen'[u].peers : NoteKept(u, k)
    BY <1>10, <1>17, <1>18, <1>19, <1>20
  <1> QED BY <1>17, <1>21, <1>22, HandledStep

\* sentinelRefreshInstanceInfo, first half: only slaves, role and file change.
LEMMA LearnRecord ==
    ASSUME SentinelInv, NEW s \in Sentinels, NEW i \in Instances
    PROVE  LET r == sen[s]
               v == LearnInfo(r, i) IN
           /\ RecordOK(s, v) /\ v.fo = r.fo
           /\ SameLife(r, v) /\ SameVotes(r, v) /\ SameConfig(r, v)
           /\ DOMAIN v.disk.peers \in {DOMAIN r.disk.peers, DOMAIN r.peers}
  <1> DEFINE r == sen[s]
             listed == IF i = r.addr THEN {j \in Instances \ {i} : inst[j].up /\ inst[j].master = i} ELSE {}
             n == [r EXCEPT !.slaves = @ \cup listed]
             r1 == IF listed \subseteq r.slaves THEN r ELSE Flush(n)
             role == IF inst[i].master = NoOne THEN "master" ELSE "slave"
  <1>1. RecordOK(s, r) /\ listed \subseteq Instances
    BY RecordNow
  <1>2. LearnInfo(r, i) = IF i # r.addr THEN r1 ELSE [r1 EXCEPT !.role = role]
    BY DEF LearnInfo
  <1> HIDE DEF listed
  <1>3. /\ n \in Records(s) /\ n.fo = r.fo /\ FailoverOK(n.fo)
        /\ SameLife(r, n) /\ SameVotes(r, n) /\ SameConfig(r, n)
    BY <1>1 DEF RecordOK, Records, SameLife, SameVotes, SameConfig
  <1> HIDE DEF n
  <1>4. /\ RecordOK(s, r1) /\ r1.fo = r.fo
        /\ SameLife(r, r1) /\ SameVotes(r, r1) /\ SameConfig(r, r1)
        /\ DOMAIN r1.disk.peers \in {DOMAIN r.disk.peers, DOMAIN r.peers}
    BY <1>1, <1>3, FlushRecord DEF SameLife, SameVotes, SameConfig
  <1> HIDE DEF r1
  <1>5. CASE i # r.addr
    BY <1>2, <1>4, <1>5
  <1>6. CASE i = r.addr
    <2> DEFINE v == [r1 EXCEPT !.role = role]
    <2>1. role \in {"master", "slave"}
      OBVIOUS
    <2> HIDE DEF role
    <2>2. /\ RecordOK(s, v) /\ v.fo = r1.fo /\ v.disk = r1.disk
          /\ SameLife(r1, v) /\ SameVotes(r1, v) /\ SameConfig(r1, v)
      BY <1>4, <2>1 DEF RecordOK, Records, SameLife, SameVotes, SameConfig
    <2>3. LearnInfo(r, i) = v
      BY <1>2, <1>6
    <2> HIDE DEF v
    <2> QED BY <1>4, <2>2, <2>3 DEF SameLife, SameVotes, SameConfig
  <1> QED BY <1>5, <1>6

\* Second half: the epoch of the failover becomes that of the configuration.
LEMMA PromotedRecord ==
    ASSUME NEW s \in Sentinels, NEW r, RecordOK(s, r), r.fo.state = "wait_promotion"
    PROVE  LET v == Promoted(r) IN
           /\ RecordOK(s, v) /\ v.fo.state = "reconf_slaves" /\ v.fo.promoted = r.fo.promoted
           /\ SameLife(r, v) /\ SameVotes(r, v) /\ v.addr = r.addr /\ v.cepoch = r.fo.epoch
           /\ DOMAIN v.disk.peers = DOMAIN r.peers
  <1> DEFINE c == [r EXCEPT !.cepoch = r.fo.epoch]
             w == [c EXCEPT !.fo.state = "reconf_slaves"]
  <1>1. /\ RecordOK(s, c) /\ c.fo = r.fo /\ c.cepoch = r.fo.epoch /\ c.addr = r.addr
        /\ SameLife(r, c) /\ SameVotes(r, c)
    BY DEF RecordOK, Records, FailoverRecords, SameLife, SameVotes
  <1>2. Promoted(r) = Flush(w)
    BY DEF Promoted
  <1> HIDE DEF c
  <1>3. "reconf_slaves" \in FailoverStates \cup {"update_config"}
    BY DEF FailoverStates
  <1>4. c.fo.promoted # None
    BY <1>1 DEF RecordOK, FailoverOK
  <1>5. /\ RecordOK(s, w) /\ w.fo.state = "reconf_slaves" /\ w.fo.promoted = c.fo.promoted
        /\ SameLife(c, w) /\ SameVotes(c, w) /\ SameConfig(c, w)
    BY <1>1, <1>3, <1>4, StateRecord
  <1> HIDE DEF w
  <1>6. LET v == Flush(w) IN
        /\ RecordOK(s, v) /\ DOMAIN v.disk.peers = DOMAIN w.peers /\ v.fo = w.fo
        /\ SameLife(w, v) /\ SameVotes(w, v) /\ SameConfig(w, v)
    BY <1>5, FlushRecord DEF RecordOK
  <1> QED BY <1>1, <1>2, <1>5, <1>6 DEF SameLife, SameVotes, SameConfig

\* A slave is never marked as told by what it answers.
LEMMA ReconfSeenRecord ==
    ASSUME NEW s \in Sentinels, NEW r, RecordOK(s, r), NEW i \in Instances
    PROVE  LET v == ReconfSeen(r, i) IN
           /\ RecordOK(s, v) /\ v.fo.state = r.fo.state /\ v.fo.promoted = r.fo.promoted
           /\ SameLife(r, v) /\ SameVotes(r, v) /\ SameConfig(r, v) /\ v.disk = r.disk
  <1> DEFINE f0 == r.fo.reconf[i]
             f1 == IF "sent" \in f0 /\ inst[i].master = r.fo.promoted
                   THEN (f0 \ {"sent"}) \cup {"inprog"} ELSE f0
             f2 == IF "inprog" \in f1 /\ LinkUp(i) THEN (f1 \ {"inprog"}) \cup {"done"} ELSE f1
             fo == [r.fo EXCEPT !.reconf = [@ EXCEPT ![i] = f2]]
             v == [r EXCEPT !.fo = fo]
  <1>1. r.fo \in FailoverRecords /\ FailoverOK(r.fo) /\ r \in Records(s)
    BY DEF RecordOK, Records
  <1>2. f0 \in SUBSET Flags
    BY <1>1 DEF FailoverRecords
  <1>3. f2 \in SUBSET Flags /\ (f0 = {} => f2 = {})
    BY <1>2 DEF Flags
  <1>4. ReconfSeen(r, i) \in {r, v}
    BY <1>1 DEF ReconfSeen, Records
  <1> HIDE DEF f2
  <1>5. fo \in FailoverRecords /\ FailoverOK(fo) /\ fo.state = r.fo.state /\ fo.promoted = r.fo.promoted
    BY <1>1, <1>3 DEF FailoverRecords, FailoverOK
  <1> HIDE DEF fo
  <1>6. /\ RecordOK(s, v) /\ v.fo = fo /\ SameLife(r, v) /\ SameVotes(r, v) /\ SameConfig(r, v)
        /\ v.disk = r.disk
    BY <1>5, FailoverRecord
  <1> HIDE DEF v
  <1> QED BY <1>4, <1>5, <1>6 DEF SameLife, SameVotes, SameConfig

\* sentinelRefreshInstanceInfo
LEMMA RefreshStep ==
    ASSUME SentinelInv, NEW s \in Sentinels, NEW i \in Instances, RefreshInstanceInfo(s, i)
    PROVE  StepOK
  <1> DEFINE r0 == sen[s]
             r == LearnInfo(r0, i)
             v == IF PromotionSeen(r, i) THEN Promoted(r) ELSE ReconfSeen(r, i)
  <1>1. PICK fix \in BOOLEAN :
            /\ sen' = [sen EXCEPT ![s] = v]
            /\ SlaveOf(IF fix THEN {<<i, r.addr>>} ELSE {}, {})
    BY DEF RefreshInstanceInfo
  <1>2. /\ RecordOK(s, r0) /\ r0.fo.state # "update_config" /\ r0.lepoch \in Nat /\ r0.cepoch \in Nat
    BY RecordNow
  <1>3. /\ RecordOK(s, r) /\ r.fo = r0.fo
        /\ SameLife(r0, r) /\ SameVotes(r0, r) /\ SameConfig(r0, r)
        /\ DOMAIN r.disk.peers \in {DOMAIN r0.disk.peers, DOMAIN r0.peers}
    BY LearnRecord
  <1> HIDE DEF r
  <1>4. inst' \in [Instances -> [up : BOOLEAN, master : Instances \cup {NoOne}]]
    <2>1. (IF fix THEN {<<i, r.addr>>} ELSE {}) \in SUBSET Orders
      BY <1>3 DEF Orders, RecordOK, Records
    <2> QED BY <1>1, <2>1, SlaveOfType
  <1>5. left' \in 0..left /\ wasReset' \in BOOLEAN /\ wasReset' = wasReset
    BY DEF RefreshInstanceInfo, SentinelInv
  <1>6. CASE PromotionSeen(r, i)
    <2>1. r.fo.state = "wait_promotion"
      BY <1>6 DEF PromotionSeen
    <2>2. /\ RecordOK(s, v) /\ v.fo.state = "reconf_slaves" /\ v.fo.promoted = r.fo.promoted
          /\ SameLife(r, v) /\ SameVotes(r, v) /\ v.addr = r.addr /\ v.cepoch = r.fo.epoch
          /\ DOMAIN v.disk.peers = DOMAIN r.peers
      BY <1>3, <1>6, <2>1, PromotedRecord
    <2> HIDE DEF v
    <2>3. ~Overtaken(r0) => v.cepoch > r0.cepoch
      <3>1. r.fo.epoch \in Nat
        BY <1>3, BoundsAssumption DEF RecordOK, Records, FailoverRecords, Epochs
      <3> QED BY <1>2, <1>3, <2>1, <2>2, <3>1 DEF Overtaken
    <2>4. Handled(s, r0, v) /\ Announced(s, r0, v)
      <3>1. v.cepoch \in Nat
        BY <2>2, BoundsAssumption DEF RecordOK, Records, Epochs
      <3> QED BY <1>2, <1>3, <2>2, <2>3, <3>1
              DEF Handled, Announced, VoteKept, SameLife, SameVotes, SameConfig, PeersFull
    <2>5. v.peers = r0.peers
      BY <1>3, <2>2 DEF SameVotes
    <2> QED BY <1>1, <1>4, <1>5, <2>4, <2>5, OneHandled
  <1>7. CASE ~PromotionSeen(r, i)
    <2>1. /\ RecordOK(s, v) /\ v.fo.state = r.fo.state /\ v.fo.promoted = r.fo.promoted
          /\ SameLife(r, v) /\ SameVotes(r, v) /\ SameConfig(r, v) /\ v.disk = r.disk
      BY <1>3, <1>7, ReconfSeenRecord
    <2> HIDE DEF v
    <2>2. Handled(s, r0, v) /\ v.peers = r0.peers
      BY <1>2, <1>3, <2>1 DEF Handled, VoteKept, SameLife, SameVotes, SameConfig
    <2>3. Announced(s, r0, v)
      BY <1>3, <2>1 DEF Announced, SameVotes, SameConfig, PeersFull, CurrentMasterAddress
    <2> QED BY <1>1, <1>4, <1>5, <2>2, <2>3, OneHandled
  <1> QED BY <1>6, <1>7

\* A configuration is only replaced by one of a greater epoch.
LEMMA NewerRecord ==
    ASSUME NEW s \in Sentinels, NEW r, RecordOK(s, r), r.fo.state # "update_config",
           NEW addr \in Instances, NEW cepoch \in Epochs
    PROVE  LET v == NewerConfig(r, addr, cepoch) IN
           /\ RecordOK(s, v) /\ v.fo.state # "update_config" /\ SameLife(r, v)
           /\ v.lepoch = r.lepoch /\ v.leader \in {r.leader, None} /\ v.peers = r.peers
           /\ DOMAIN v.disk.peers \in {DOMAIN r.disk.peers, DOMAIN r.peers}
           /\ v = r \/ v.cepoch > r.cepoch
  <1> DEFINE c == [r EXCEPT !.cepoch = cepoch]
             z == ResetMasterAndChangeAddress(c, addr)
  <1>1. r.cepoch \in Int /\ cepoch \in Int
    BY BoundsAssumption DEF RecordOK, Records, Epochs
  <1>2. /\ RecordOK(s, c) /\ c.fo = r.fo /\ SameLife(r, c) /\ SameVotes(r, c) /\ c.cepoch = cepoch
        /\ c.disk = r.disk
    BY DEF RecordOK, Records, SameLife, SameVotes
  <1>3. NewerConfig(r, addr, cepoch) = IF r.cepoch >= cepoch THEN r ELSE IF addr = r.addr THEN c ELSE z
    BY DEF NewerConfig
  <1> HIDE DEF c
  <1>4. /\ RecordOK(s, z) /\ z.fo = NoFailover /\ SameLife(c, z) /\ z.cepoch = c.cepoch
        /\ z.leader = None /\ z.lepoch = c.lepoch /\ z.peers = c.peers /\ DOMAIN z.disk.peers = DOMAIN c.peers
    BY <1>2, ChangeAddressRecord
  <1> HIDE DEF z
  <1>5. NoFailover.state = "none"
    BY DEF NoFailover
  <1>6. CASE r.cepoch >= cepoch
    BY <1>3, <1>6 DEF SameLife
  <1>7. CASE ~(r.cepoch >= cepoch) /\ addr = r.addr
    BY <1>1, <1>2, <1>3, <1>7 DEF SameVotes
  <1>8. CASE ~(r.cepoch >= cepoch) /\ addr # r.addr
    BY <1>1, <1>2, <1>3, <1>4, <1>5, <1>8 DEF SameLife, SameVotes
  <1> QED BY <1>6, <1>7, <1>8

\* sentinelProcessHelloMessage
LEMMA HelloStep ==
    ASSUME SentinelInv, NEW s \in Sentinels, NEW t \in Sentinels, ProcessHello(s, t)
    PROVE  StepOK
  <1> DEFINE r == sen[s]
             h == Hello(t)
             known == t \in DOMAIN r.peers /\ r.peers[t].run = h.run
             peers == [u \in DOMAIN r.peers \cup {t} |-> IF u = t THEN NewPeer(h.run) ELSE r.peers[u]]
             n == [r EXCEPT !.peers = peers]
             r1 == IF known THEN r ELSE Flush(n)
             m == [r1 EXCEPT !.epoch = h.epoch]
             r2 == IF h.epoch > r1.epoch THEN Flush(m) ELSE r1
             v == NewerConfig(r2, h.addr, h.cepoch)
  <1>1. /\ RecordOK(s, r) /\ r.fo.state # "update_config" /\ r.lepoch \in Nat /\ r.cepoch \in Nat
        /\ r \in Records(s)
    BY RecordNow
  <1>2. PICK P \in Others(s) : r.peers \in [P -> Peers]
    BY RecordNow
  <1>3. t # s
    BY DEF ProcessHello, HelloOfAnother
  <1>4. h.run \in RunIds /\ h.epoch \in Epochs /\ h.addr \in Instances /\ h.cepoch \in Epochs
    <2>1. sen[t] \in Records(t)
      BY RecordNow
    <2> QED BY <2>1 DEF Hello, RunId, RunIds, CurrentMasterAddress, Records, FailoverRecords
  <1>5. sen' = [sen EXCEPT ![s] = v]
    BY <1>1 DEF ProcessHello, Records
  <1>6. /\ inst' \in [Instances -> [up : BOOLEAN, master : Instances \cup {NoOne}]]
        /\ left' \in 0..left /\ wasReset' \in BOOLEAN /\ wasReset' = wasReset
    BY DEF ProcessHello, SentinelInv
  <1> HIDE DEF h
  <1>7. peers \in UNION {[Q -> Peers] : Q \in Others(s)} /\ DOMAIN peers = DOMAIN r.peers \cup {t}
    <2>1. 0 \in Epochs
      BY BoundsAssumption DEF Epochs
    <2>2. NewPeer(h.run) \in Peers
      BY <1>4, <2>1 DEF NewPeer, Peers
    <2>3. P \cup {t} \in Others(s)
      BY <1>3 DEF Others
    <2>4. peers \in [P \cup {t} -> Peers]
      BY <1>2, <2>2
    <2> QED BY <1>2, <2>3, <2>4
  <1>8. \A u \in DOMAIN peers :
            peers[u].leader = None \/ (u \in DOMAIN r.peers /\ peers[u] = r.peers[u])
    BY DEF NewPeer
  <1> HIDE DEF peers
  <1>9. /\ n \in Records(s) /\ n.fo = r.fo /\ FailoverOK(n.fo) /\ SameLife(r, n) /\ SameConfig(r, n)
        /\ n.leader = r.leader /\ n.lepoch = r.lepoch /\ n.peers = peers
    BY <1>1, <1>7 DEF RecordOK, Records, SameLife, SameConfig
  <1> HIDE DEF n, known
  <1>10. /\ RecordOK(s, r1) /\ r1.fo = r.fo /\ SameLife(r, r1) /\ SameConfig(r, r1)
         /\ r1.leader = r.leader /\ r1.lepoch = r.lepoch
         /\ \/ r1 = r
            \/ r1.peers = peers /\ DOMAIN r1.disk.peers = DOMAIN peers
    BY <1>1, <1>9, FlushRecord DEF SameLife, SameVotes, SameConfig
  <1> HIDE DEF r1
  <1>11. /\ m \in Records(s) /\ m.fo = r1.fo /\ FailoverOK(m.fo)
         /\ SameLife(r1, m) /\ SameConfig(r1, m) /\ SameVotes(r1, m)
    BY <1>4, <1>10 DEF RecordOK, Records, SameLife, SameVotes, SameConfig
  <1> HIDE DEF m
  <1>12. /\ RecordOK(s, r2) /\ r2.fo = r1.fo
         /\ SameLife(r1, r2) /\ SameConfig(r1, r2) /\ SameVotes(r1, r2)
         /\ DOMAIN r2.disk.peers \in {DOMAIN r1.disk.peers, DOMAIN r1.peers}
    BY <1>10, <1>11, FlushRecord DEF SameLife, SameVotes, SameConfig
  <1> HIDE DEF r2
  <1>13. /\ RecordOK(s, v) /\ v.fo.state # "update_config" /\ SameLife(r2, v)
         /\ v.lepoch = r2.lepoch /\ v.leader \in {r2.leader, None} /\ v.peers = r2.peers
         /\ DOMAIN v.disk.peers \in {DOMAIN r2.disk.peers, DOMAIN r2.peers}
         /\ v = r2 \/ v.cepoch > r2.cepoch
    BY <1>1, <1>4, <1>10, <1>12, NewerRecord
  <1> HIDE DEF v
  <1>14. v.cepoch \in Nat
    BY <1>13, BoundsAssumption DEF RecordOK, Records, Epochs
  <1>15. v.cepoch > r.cepoch \/ (v.cepoch = r.cepoch /\ v.addr = r.addr /\ v.fo = r.fo)
    BY <1>10, <1>12, <1>13 DEF SameConfig
  <1>16. Handled(s, r, v)
    BY <1>1, <1>10, <1>12, <1>13, <1>14, <1>15 DEF Handled, VoteKept, SameLife, SameVotes
  <1>17. PeersFull(s, r) => PeersFull(s, v)
    <2>1. DOMAIN r1.peers \in {DOMAIN r.peers, DOMAIN r.peers \cup {t}}
      BY <1>7, <1>10
    <2>2. DOMAIN r1.disk.peers \in {DOMAIN r.disk.peers, DOMAIN r.peers \cup {t}}
      BY <1>7, <1>10
    <2> QED BY <1>3, <1>12, <1>13, <2>1, <2>2 DEF PeersFull, SameVotes
  <1>18. Announced(s, r, v)
    BY <1>15, <1>17 DEF Announced, CurrentMasterAddress
  <1>19. \A u \in DOMAIN v.peers :
             v.peers[u].leader = None \/ (u \in DOMAIN r.peers /\ v.peers[u] = r.peers[u])
    BY <1>8, <1>10, <1>12, <1>13 DEF SameVotes
  <1> QED BY <1>5, <1>6, <1>16, <1>18, <1>19, OneHandled

\* The commands of an operator and the failover of another master.
LEMMA CommandStep ==
    ASSUME SentinelInv, NEW s \in Sentinels,
           CommandFailover(s) \/ CommandReset(s) \/ OtherMasterFailover(s)
    PROVE  StepOK
  <1> DEFINE r == sen[s]
  <1>1. /\ RecordOK(s, r) /\ r.fo.state # "update_config" /\ r.lepoch \in Nat /\ r.cepoch \in Nat
        /\ r \in Records(s) /\ r.epoch \in Epochs
    BY RecordNow
  <1>2. /\ inst' \in [Instances -> [up : BOOLEAN, master : Instances \cup {NoOne}]]
        /\ left' \in 0..left /\ wasReset' \in BOOLEAN /\ (wasReset => wasReset')
    <2>1. inst' = inst /\ left' = left - 1 /\ left > 0 /\ (wasReset' = wasReset \/ wasReset' = TRUE)
      BY DEF CommandFailover, CommandReset, OtherMasterFailover
    <2>2. wasReset' \in BOOLEAN /\ (wasReset => wasReset')
      <3>1. wasReset \in BOOLEAN
        BY DEF SentinelInv
      <3>2. CASE wasReset' = wasReset
        BY <3>1, <3>2
      <3>3. CASE wasReset' = TRUE
        BY <3>3
      <3> QED BY <2>1, <3>2, <3>3
    <2> QED BY <2>1, <2>2 DEF SentinelInv
  <1>3. CASE CommandFailover(s)
    <2> DEFINE z == StartFailover(r)
               v == [z EXCEPT !.fo.forced = TRUE]
               fo == [z.fo EXCEPT !.forced = TRUE]
    <2>1. sen' = [sen EXCEPT ![s] = v] /\ r.fo.state = "none" /\ r.epoch < MaxEpoch
      BY <1>3 DEF CommandFailover, SentinelInv
    <2>2. /\ RecordOK(s, z) /\ z.fo.state = "wait_start"
          /\ SameLife(r, z) /\ SameVotes(r, z) /\ SameConfig(r, z)
          /\ z.slaves = r.slaves /\ z.disk = r.disk
      BY <1>1, <2>1, StartRecord
    <2> HIDE DEF z
    <2>3. v = [z EXCEPT !.fo = fo]
      BY <2>2 DEF RecordOK, Records
    <2>4. fo \in FailoverRecords /\ FailoverOK(fo) /\ fo.state = "wait_start"
      BY <2>2 DEF RecordOK, Records, FailoverRecords, FailoverOK
    <2> HIDE DEF fo, v
    <2>5. /\ RecordOK(s, v) /\ v.fo = fo /\ SameLife(z, v) /\ SameVotes(z, v) /\ SameConfig(z, v)
          /\ v.disk = z.disk
      BY <2>2, <2>3, <2>4, FailoverRecord
    <2>6. Handled(s, r, v) /\ v.peers = r.peers
      BY <1>1, <2>2, <2>4, <2>5 DEF Handled, VoteKept, SameLife, SameVotes, SameConfig
    <2>7. Announced(s, r, v)
      BY <2>1, <2>2, <2>4, <2>5 DEF Announced, SameVotes, SameConfig, PeersFull, CurrentMasterAddress
    <2> QED BY <1>2, <2>1, <2>6, <2>7, OneHandled
  <1>4. CASE CommandReset(s)
    <2> DEFINE v == ResetMaster(r, FALSE)
    <2>1. sen' = [sen EXCEPT ![s] = v] /\ wasReset'
      BY <1>4 DEF CommandReset, SentinelInv
    <2>2. /\ RecordOK(s, v) /\ v.fo = NoFailover /\ SameLife(r, v) /\ SameConfig(r, v)
          /\ v.leader = None /\ v.lepoch = r.lepoch /\ v.peers = [t \in {} |-> r.peers[t]]
      BY <1>1, ResetRecord
    <2>3. NoFailover.state = "none"
      BY DEF NoFailover
    <2> HIDE DEF v
    <2>4. Handled(s, r, v)
      BY <1>1, <2>2, <2>3 DEF Handled, VoteKept, SameConfig
    <2>5. DOMAIN v.peers = {}
      BY <2>2
    <2> QED BY <1>2, <2>1, <2>4, <2>5, OneHandled
  <1>5. CASE OtherMasterFailover(s)
    <2> DEFINE v == [r EXCEPT !.epoch = r.epoch + 1]
    <2>1. sen' = [sen EXCEPT ![s] = v] /\ r.epoch < MaxEpoch
      BY <1>1, <1>5 DEF OtherMasterFailover, SentinelInv, Records
    <2>2. r.epoch + 1 \in Epochs
      BY <1>1, <2>1, BoundsAssumption DEF Epochs
    <2>3. /\ RecordOK(s, v) /\ v.fo = r.fo /\ SameLife(r, v) /\ SameVotes(r, v) /\ SameConfig(r, v)
          /\ v.disk = r.disk
      BY <1>1, <2>2 DEF RecordOK, Records, SameLife, SameVotes, SameConfig
    <2> HIDE DEF v
    <2>4. Handled(s, r, v) /\ Announced(s, r, v) /\ v.peers = r.peers
      BY <1>1, <2>3 DEF Handled, Announced, VoteKept, SameVotes, SameConfig, PeersFull, CurrentMasterAddress
    <2> QED BY <1>2, <2>1, <2>4, OneHandled
  <1> QED BY <1>3, <1>4, <1>5

\* A configuration file that is read gives a good record.
LEMMA LoadedRecord ==
    ASSUME NEW s \in Sentinels, NEW d \in Disks(s), NEW boot \in 0..MaxDisturbances
    PROVE  LET v == Loaded(d, boot) IN
           /\ RecordOK(s, v) /\ v.up /\ v.boot = boot /\ v.fo = NoFailover /\ v.disk = d
           /\ v.leader = None /\ v.lepoch = d.lepoch
           /\ DOMAIN v.peers = DOMAIN d.peers /\ \A t \in DOMAIN v.peers : v.peers[t].leader = None
  <1> DEFINE peers == [t \in DOMAIN d.peers |-> NewPeer(d.peers[t])]
             v == Loaded(d, boot)
  <1>1. PICK P \in Others(s) : d.peers \in [P -> RunIds]
    BY DEF Disks
  <1>2. 0 \in Epochs
    BY BoundsAssumption DEF Epochs
  <1>3. peers \in [P -> Peers] /\ \A t \in P : peers[t].leader = None
    BY <1>1, <1>2 DEF NewPeer, Peers
  <1>4. /\ v.up = TRUE /\ v.boot = boot /\ v.fo = NoFailover /\ v.disk = d /\ v.leader = None
        /\ v.lepoch = d.lepoch /\ v.peers = peers
    BY DEF Loaded
  <1>5. v \in Records(s)
    <2>1. peers \in UNION {[Q -> Peers] : Q \in Others(s)}
      BY <1>3
    <2> HIDE DEF peers
    <2>2. v = [up |-> TRUE, boot |-> boot, epoch |-> IF d.cepoch > d.epoch THEN d.cepoch ELSE d.epoch,
               addr |-> d.addr, cepoch |-> d.cepoch, slaves |-> d.slaves,
               leader |-> None, lepoch |-> d.lepoch, fo |-> NoFailover,
               sdown |-> {}, role |-> "master", peers |-> peers, disk |-> d]
      BY DEF Loaded, peers
    <2> HIDE DEF v
    <2> QED BY <2>1, <2>2, NoFailoverOK DEF Records, Disks
  <1>6. DOMAIN peers = DOMAIN d.peers /\ \A t \in DOMAIN peers : peers[t].leader = None
    BY <1>1, <1>3
  <1>7. v.up /\ RecordOK(s, v)
    BY <1>4, <1>5, NoFailoverOK DEF RecordOK
  <1> HIDE DEF peers
  <1> QED BY <1>4, <1>6, <1>7

\* A Sentinel that stops or starts: it comes back with the epoch of its last vote.
LEMMA LifeStep ==
    ASSUME SentinelInv, NEW s \in Sentinels, Crash(s) \/ Restart(s)
    PROVE  StepOK
  <1> DEFINE r == sen[s]
  <1>1. /\ RecordOK(s, r) /\ r.fo.state # "update_config" /\ r.lepoch \in Nat /\ r.cepoch \in Nat
        /\ r \in Records(s) /\ r.boot \in Nat
    BY RecordNow
  <1>2. /\ inst' = inst /\ wasReset' = wasReset /\ left' \in 0..left
    BY DEF Crash, Restart, SentinelInv
  <1>3. PICK v : /\ sen' = [sen EXCEPT ![s] = v]
                 /\ RecordOK(s, v) /\ v.fo.state # "update_config" /\ v.lepoch = r.lepoch
                 /\ v.leader \in {r.leader, None}
                 /\ ~r.up \/ ~v.up
                 /\ v.boot + Down(v) + left' <= MaxDisturbances
                 /\ PeersFull(s, r) => PeersFull(s, v)
                 /\ \A t \in DOMAIN v.peers :
                      v.peers[t].leader = None \/ (t \in DOMAIN r.peers /\ v.peers[t] = r.peers[t])
    <2>1. r.boot + Down(r) + left <= MaxDisturbances /\ left \in Nat
      BY DEF SentinelInv
    <2>2. CASE Crash(s)
      <3> DEFINE v == [r EXCEPT !.up = FALSE]
      <3>1. sen' = [sen EXCEPT ![s] = v] /\ r.up /\ left' = left - 1
        BY <2>2 DEF Crash
      <3>2. /\ RecordOK(s, v) /\ v.fo = r.fo /\ SameVotes(r, v) /\ v.boot = r.boot /\ ~v.up /\ v.disk = r.disk
        BY <1>1 DEF RecordOK, Records, SameVotes
      <3> HIDE DEF v
      <3>3. v.boot + Down(v) + left' <= MaxDisturbances
        BY <1>1, <2>1, <3>1, <3>2, BoundsAssumption DEF Down
      <3> QED BY <1>1, <3>1, <3>2, <3>3 DEF SameVotes, PeersFull
    <2>3. CASE Restart(s)
      <3> DEFINE v == Loaded(r.disk, r.boot + 1)
      <3>1. sen' = [sen EXCEPT ![s] = v] /\ ~r.up /\ left' = left
        BY <2>3 DEF Restart, SentinelInv
      <3>2. r.boot + 1 \in 0..MaxDisturbances /\ r.boot + 1 + left <= MaxDisturbances
        BY <1>1, <2>1, <3>1, BoundsAssumption DEF Down
      <3>3. r.disk \in Disks(s) /\ r.disk.lepoch = r.lepoch
        BY <1>1 DEF RecordOK, Records
      <3>4. /\ RecordOK(s, v) /\ v.up /\ v.boot = r.boot + 1 /\ v.fo = NoFailover /\ v.disk = r.disk
            /\ v.leader = None /\ v.lepoch = r.lepoch
            /\ DOMAIN v.peers = DOMAIN r.disk.peers /\ \A t \in DOMAIN v.peers : v.peers[t].leader = None
        BY <3>2, <3>3, LoadedRecord
      <3>5. NoFailover.state = "none"
        BY DEF NoFailover
      <3> HIDE DEF v
      <3>6. v.boot + Down(v) + left' <= MaxDisturbances
        BY <1>1, <2>1, <3>1, <3>2, <3>4, BoundsAssumption DEF Down
      <3> QED BY <3>1, <3>4, <3>5, <3>6 DEF PeersFull
    <2> QED BY <2>2, <2>3
  <1>4. sen'[s] = v /\ (\A u \in Sentinels \ {s} : sen'[u] = sen[u])
        /\ sen' = [u \in Sentinels |-> sen'[u]]
    BY <1>3 DEF SentinelInv
  <1>5. SentinelInv'
    <2>1. \A u \in Sentinels :
            /\ RecordOK(u, sen'[u]) /\ sen'[u].fo.state # "update_config"
            /\ sen'[u].boot + Down(sen'[u]) + left' <= MaxDisturbances
      <3> SUFFICES ASSUME NEW u \in Sentinels, u # s
                   PROVE  /\ RecordOK(u, sen'[u]) /\ sen'[u].fo.state # "update_config"
                          /\ sen'[u].boot + Down(sen'[u]) + left' <= MaxDisturbances
        BY <1>3, <1>4
      <3>1. sen'[u] = sen[u] /\ sen[u].boot \in Nat /\ Down(sen[u]) \in Nat
            /\ sen[u].boot + Down(sen[u]) + left <= MaxDisturbances /\ left \in Nat
        BY <1>4, RecordNow DEF SentinelInv, Down
      <3> QED BY <1>2, <3>1, RecordNow, BoundsAssumption
    <2>2. left' \in 0..MaxDisturbances
      BY <1>2, BoundsAssumption DEF SentinelInv
    <2> QED BY <1>2, <1>4, <2>1, <2>2 DEF SentinelInv, RecordOK, FailoverOK, Down
  <1>6. PeersInv => PeersInv'
    BY <1>2, <1>3, <1>4 DEF PeersInv, PeersFull
  <1>7. VotesMove
    <2>1. VoteKept(r, v) /\ \A u \in Sentinels \ {s} : VoteKept(sen[u], sen'[u])
      BY <1>1, <1>3, <1>4, RecordNow DEF VoteKept
    <2>2. \A u \in Sentinels : \A t \in DOMAIN sen'[u].peers : NoteKept(u, t)
      BY <1>3, <1>4 DEF NoteKept
    <2> QED BY <1>4, <2>1, <2>2 DEF VotesMove
  <1>8. ConfigsMove
    <2>1. \A u \in Sentinels \ {s} : sen[u].cepoch \in Nat
      BY RecordNow
    <2> QED BY <1>3, <1>4, <2>1 DEF ConfigsMove
  <1> QED BY <1>2, <1>5, <1>6, <1>7, <1>8 DEF StepOK

\* Steps of the instances, and steps of nobody.
LEMMA OtherStep ==
    ASSUME SentinelInv,
           \/ \E i \in Instances : InstanceFails(i) \/ InstanceReturns(i)
           \/ UNCHANGED vars
    PROVE  StepOK
  <1>1. sen' = sen /\ wasReset' = wasReset /\ left' \in 0..left
    BY DEF InstanceFails, InstanceReturns, vars, SentinelInv
  <1>2. inst' \in [Instances -> [up : BOOLEAN, master : Instances \cup {NoOne}]]
    <2>1. inst \in [Instances -> [up : BOOLEAN, master : Instances \cup {NoOne}]]
      BY DEF SentinelInv
    <2>2. ASSUME NEW i \in Instances, NEW up \in BOOLEAN, inst' = [inst EXCEPT ![i].up = up]
          PROVE  inst' \in [Instances -> [up : BOOLEAN, master : Instances \cup {NoOne}]]
      BY <2>1, <2>2
    <2> QED BY <2>1, <2>2 DEF InstanceFails, InstanceReturns, vars
  <1>3. sen' = [s \in Sentinels |-> sen'[s]] /\ wasReset' \in BOOLEAN
    BY <1>1 DEF SentinelInv
  <1>4. \A s \in Sentinels : /\ Handled(s, sen[s], sen'[s]) /\ Announced(s, sen[s], sen'[s])
                             /\ \A t \in DOMAIN sen'[s].peers : NoteKept(s, t)
    BY <1>1, RecordNow DEF Handled, Announced, NoteKept, SameLife, VoteKept
  <1> QED BY <1>1, <1>2, <1>3, <1>4, HandledStep

-----------------------------------------------------------------------------
(* Votes.                                                                  *)

\* A Sentinel voted for no epoch beyond that of its last vote, so that a vote for
\* a later one cannot meet another for the same epoch.
VoteInv ==
    VotesOnce /\ \A t \in Sentinels : \A v \in VotesOf(t) : v[2] # None => v[1] <= sen[t].lepoch

\* A vote that is known after a step was known before, or was given in the step
\* for an epoch that is new to the voter.
LEMMA VotesCarried ==
    ASSUME SentinelInv, SentinelInv', VotesMove,
           NEW t \in Sentinels, NEW v \in VotesOf(t)', v[2] # None
    PROVE  \/ v \in VotesOf(t)
           \/ v = <<sen'[t].lepoch, sen'[t].leader>> /\ sen'[t].lepoch > sen[t].lepoch
  <1> DEFINE own == <<sen'[t].lepoch, sen'[t].leader>>
  <1>1. CASE v = own
    <2>1. VoteKept(sen[t], sen'[t])
      BY DEF VotesMove
    <2>2. sen'[t].lepoch \in Int /\ sen[t].lepoch \in Int
      BY RecordNow, BoundsAssumption DEF SentinelInv, RecordOK, Records, Epochs
    <2>3. CASE sen'[t].lepoch = sen[t].lepoch
      <3>1. v = <<sen[t].lepoch, sen[t].leader>>
        BY <1>1, <2>1, <2>3 DEF VoteKept
      <3> QED BY <3>1 DEF VotesOf
    <2>4. CASE sen'[t].lepoch # sen[t].lepoch
      BY <1>1, <2>1, <2>2, <2>4 DEF VoteKept
    <2> QED BY <2>3, <2>4
  <1>2. ASSUME NEW s \in Sentinels, t \in DOMAIN sen'[s].peers,
               v = <<sen'[s].peers[t].lepoch, sen'[s].peers[t].leader>>
        PROVE  v \in VotesOf(t) \/ v = own
    <2>1. NoteKept(s, t) /\ sen'[s].peers[t].leader # None
      BY <1>2 DEF VotesMove
    <2>2. CASE /\ t \in DOMAIN sen[s].peers
               /\ sen'[s].peers[t].leader = sen[s].peers[t].leader
               /\ sen'[s].peers[t].lepoch = sen[s].peers[t].lepoch
      <3>1. v = <<sen[s].peers[t].lepoch, sen[s].peers[t].leader>>
        BY <1>2, <2>2
      <3> QED BY <2>2, <3>1 DEF VotesOf
    <2>3. CASE sen'[s].peers[t].leader = sen'[t].leader /\ sen'[s].peers[t].lepoch = sen'[t].lepoch
      BY <1>2, <2>3
    <2> QED BY <2>1, <2>2, <2>3 DEF NoteKept
  <1>3. v = own \/ \E s \in Sentinels : /\ t \in DOMAIN sen'[s].peers
                                        /\ v = <<sen'[s].peers[t].lepoch, sen'[s].peers[t].leader>>
    BY DEF VotesOf
  <1>4. v \in VotesOf(t) \/ v = own
    BY <1>2, <1>3
  <1> QED BY <1>1, <1>4

LEMMA VoteInvStep ==
    ASSUME SentinelInv, StepOK, VoteInv
    PROVE  VoteInv'
  <1>1. SentinelInv' /\ VotesMove
    BY DEF StepOK
  <1> SUFFICES ASSUME NEW t \in Sentinels
               PROVE  /\ \A v, w \in VotesOf(t)' :
                           v[1] = w[1] /\ v[2] # None /\ w[2] # None => v[2] = w[2]
                      /\ \A v \in VotesOf(t)' : v[2] # None => v[1] <= sen'[t].lepoch
    BY DEF VoteInv, VotesOnce
  <1> DEFINE own == <<sen'[t].lepoch, sen'[t].leader>>
  <1>2. sen'[t].lepoch \in Int /\ sen[t].lepoch \in Int /\ sen'[t].lepoch >= sen[t].lepoch
    BY <1>1, RecordNow, BoundsAssumption DEF SentinelInv, RecordOK, Records, Epochs, VotesMove, VoteKept
  <1>3. \A v \in VotesOf(t)' : v[2] # None =>
            \/ v \in VotesOf(t)
            \/ v = own /\ sen'[t].lepoch > sen[t].lepoch
    BY <1>1, VotesCarried
  <1>4. \A v \in VotesOf(t) : v[2] # None => v[1] <= sen[t].lepoch
    BY DEF VoteInv
  <1>5. \A v \in VotesOf(t) : v[1] \in Int
    <2>1. \A s \in Sentinels : t \in DOMAIN sen[s].peers => sen[s].peers[t].lepoch \in Int
      <3> SUFFICES ASSUME NEW s \in Sentinels, t \in DOMAIN sen[s].peers
                   PROVE  sen[s].peers[t].lepoch \in Int
        OBVIOUS
      <3>1. PICK P \in Others(s) : sen[s].peers \in [P -> Peers]
        BY RecordNow
      <3> QED BY <3>1, BoundsAssumption DEF Peers, Epochs
    <2> QED BY <1>2, <2>1 DEF VotesOf
  <1>6. \A v, w \in VotesOf(t) : v[1] = w[1] /\ v[2] # None /\ w[2] # None => v[2] = w[2]
    BY DEF VoteInv, VotesOnce
  <1>7. own[1] = sen'[t].lepoch
    OBVIOUS
  <1> HIDE DEF own
  <1>8. ASSUME NEW v \in VotesOf(t)', v[2] # None
        PROVE  v[1] <= sen'[t].lepoch
    BY <1>2, <1>3, <1>4, <1>5, <1>7, <1>8
  <1>9. ASSUME NEW v \in VotesOf(t)', NEW w \in VotesOf(t)', v[1] = w[1], v[2] # None, w[2] # None
        PROVE  v[2] = w[2]
    BY <1>2, <1>3, <1>4, <1>5, <1>6, <1>7, <1>9
  <1> QED BY <1>8, <1>9

-----------------------------------------------------------------------------
(* Elections.                                                              *)

\* A majority is needed: before a RESET every Sentinel counts all the others, and
\* after one a quorum of more than half of them is needed all the same.
MajorityNeeded == ~wasReset \/ 2 * quorum > Cardinality(Sentinels)

\* t can give or be noted with no vote for the epoch of e but one for its leader.
Decided(t, e) ==
    /\ sen[t].lepoch >= e.epoch
    /\ \A v \in VotesOf(t) : v[1] = e.epoch /\ v[2] # None => v[2][1] = e.by

Majorities == {Q \in SUBSET Sentinels : 2 * Cardinality(Q) > Cardinality(Sentinels)}

\* Any two of them have a Sentinel in common.
LEMMA MajoritiesMeet ==
    ASSUME NEW Q \in Majorities, NEW R \in Majorities
    PROVE  \E t \in Q \cap R : TRUE
  <1>1. /\ Q \subseteq Sentinels /\ R \subseteq Sentinels /\ IsFiniteSet(Sentinels)
        /\ 2 * Cardinality(Q) > Cardinality(Sentinels) /\ 2 * Cardinality(R) > Cardinality(Sentinels)
    BY QuorumAssumption DEF Majorities
  <1>2. Cardinality(Q) \in Nat /\ Cardinality(R) \in Nat /\ Cardinality(Sentinels) \in Nat
    BY <1>1, FS_Subset, FS_CardinalityType
  <1>3. Cardinality(Q) + Cardinality(R) > Cardinality(Sentinels)
    BY <1>1, <1>2
  <1>4. Q \cap R # {}
    BY <1>1, <1>3, FS_MajoritiesIntersect
  <1> QED BY <1>4

\* The leader of an epoch was elected by Sentinels that are a majority, and those
\* can elect no other for it.
ElectionInv ==
    MajorityNeeded =>
        /\ OneLeaderOfTheCurrentEpoch
        /\ \A e \in elections :
             /\ e.epoch \in Nat
             /\ e.current = e.epoch => \E Q \in Majorities : \A t \in Q : Decided(t, e)

\* What is decided stays decided.
LEMMA DecidedStays ==
    ASSUME SentinelInv, StepOK, NEW t \in Sentinels, NEW e, e.epoch \in Nat, Decided(t, e)
    PROVE  Decided(t, e)'
  <1>1. SentinelInv' /\ VotesMove
    BY DEF StepOK
  <1>2. sen'[t].lepoch \in Int /\ sen[t].lepoch \in Int /\ sen'[t].lepoch >= sen[t].lepoch
    BY <1>1, RecordNow, BoundsAssumption DEF SentinelInv, RecordOK, Records, Epochs, VotesMove, VoteKept
  <1>3. ASSUME NEW v \in VotesOf(t)', v[1] = e.epoch, v[2] # None
        PROVE  v[2][1] = e.by
    <2>1. CASE v \in VotesOf(t)
      BY <1>3, <2>1 DEF Decided
    <2>2. CASE v = <<sen'[t].lepoch, sen'[t].leader>> /\ sen'[t].lepoch > sen[t].lepoch
      BY <1>2, <1>3, <2>2 DEF Decided
    <2> QED BY <1>1, <1>3, <2>1, <2>2, VotesCarried
  <1> QED BY <1>2, <1>3 DEF Decided

\* The votes a leader counted decide the epoch.
LEMMA LeaderDecides ==
    ASSUME SentinelInv', PeersInv', VoteInv', MajorityNeeded',
           NEW s \in Sentinels, NEW e, ElectedNow(s, e), e.current = e.epoch
    PROVE  \E Q \in Majorities : \A t \in Q :
               /\ Decided(t, e)'
               /\ \E w \in VotesOf(t)' : w[1] = e.epoch /\ w[2] # None /\ w[2][1] = s
  <1> DEFINE v == sen'[s]
             me == RunId(s, v)
             A == Supporters(v, me, e.epoch)
             Q == IF v.leader = me /\ v.lepoch = e.epoch THEN A \cup {s} ELSE A
             n == Support(v, me, e.epoch)
             N == Cardinality(Sentinels)
  <1>1. RecordOK(s, v)
    BY DEF SentinelInv
  <1>2. me \in RunIds /\ me # None /\ me[1] = s
    BY <1>1, RunIdAssumption DEF RunId, RunIds, RecordOK, Records
  <1>3. DOMAIN v.peers \subseteq Sentinels \ {s}
    <2>1. PICK P \in Others(s) : v.peers \in [P -> Peers]
      BY <1>1 DEF RecordOK, Records
    <2> QED BY <2>1 DEF Others
  <1>4. A \subseteq DOMAIN v.peers
    BY DEF Supporters
  <1>5. IsFiniteSet(Sentinels) /\ IsFiniteSet(A) /\ Cardinality(A) \in Nat /\ N \in Nat
    BY <1>3, <1>4, QuorumAssumption, FS_Subset, FS_CardinalityType
  <1>6. Q \subseteq Sentinels /\ Cardinality(Q) = n
    <2>1. s \notin A
      BY <1>3, <1>4
    <2>2. Cardinality(A \cup {s}) = Cardinality(A) + 1
      BY <1>5, <2>1, FS_AddElement
    <2> QED BY <1>3, <1>4, <1>5, <2>2 DEF Support
  <1>7. n >= (Cardinality(DOMAIN v.peers) + 1) \div 2 + 1 /\ n >= quorum /\ e.epoch \in Nat /\ e.by = s
    BY DEF ElectedNow
  <1>8. 2 * n > N
    <2>1. n \in Nat /\ quorum \in Nat
      BY <1>5, QuorumAssumption DEF Support
    <2> HIDE DEF n, N
    <2>2. CASE 2 * quorum > N
      BY <1>5, <1>7, <2>1, <2>2
    <2>3. CASE ~wasReset'
      <3>1. DOMAIN v.peers = Sentinels \ {s}
        BY <2>3 DEF PeersInv, PeersFull
      <3>2. Cardinality(Sentinels \ {s}) = N - 1
        BY <1>5, FS_RemoveElement DEF N
      <3> QED BY <1>5, <1>7, <2>1, <3>1, <3>2
    <2> QED BY <2>2, <2>3 DEF MajorityNeeded, N
  <1>9. Q \in Majorities
    BY <1>6, <1>8 DEF Majorities
  <1>10. ASSUME NEW t \in Q
         PROVE  /\ Decided(t, e)'
                /\ \E w \in VotesOf(t)' : w[1] = e.epoch /\ w[2] # None /\ w[2][1] = s
    <2>1. t \in Sentinels
      BY <1>6
    <2>2. <<e.epoch, me>> \in VotesOf(t)'
      <3>1. CASE t \in A
        <4>1. t \in DOMAIN sen'[s].peers /\ sen'[s].peers[t].leader = me /\ sen'[s].peers[t].lepoch = e.epoch
          BY <3>1 DEF Supporters
        <4> QED BY <4>1 DEF VotesOf
      <3>2. CASE t = s /\ v.leader = me /\ v.lepoch = e.epoch
        BY <3>2 DEF VotesOf
      <3> QED BY <3>1, <3>2
    <2>3. \A w \in VotesOf(t)' : w[2] # None => w[1] <= sen'[t].lepoch
      BY <2>1 DEF VoteInv
    <2>4. \A w, x \in VotesOf(t)' : w[1] = x[1] /\ w[2] # None /\ x[2] # None => w[2] = x[2]
      BY <2>1 DEF VoteInv, VotesOnce
    <2>5. sen'[t].lepoch \in Int
      BY <2>1, BoundsAssumption DEF SentinelInv, RecordOK, Records, Epochs
    <2> HIDE DEF me
    <2>6. \A w \in VotesOf(t)' : w[1] = e.epoch /\ w[2] # None => w[2] = me
      BY <1>2, <2>2, <2>4
    <2>7. sen'[t].lepoch >= e.epoch
      BY <1>2, <1>7, <2>2, <2>3, <2>5
    <2>8. Decided(t, e)'
      BY <1>2, <1>7, <2>6, <2>7 DEF Decided
    <2> QED BY <1>2, <2>2, <2>8
  <1> HIDE DEF Q
  <1> QED BY <1>9, <1>10

-----------------------------------------------------------------------------
(* The theorems.                                                           *)

IInv == SentinelInv /\ PeersInv /\ VoteInv /\ ElectionInv

LEMMA InitIInv == Init => IInv
  <1> SUFFICES ASSUME Init PROVE IInv
    OBVIOUS
  <1>1. ASSUME NEW s \in Sentinels
        PROVE  /\ sen[s] = Loaded(Disk0(s), 0) /\ Disk0(s) \in Disks(s)
               /\ DOMAIN Disk0(s).peers = Sentinels \ {s} /\ Disk0(s).lepoch = 0
    <2>1. sen[s] = Loaded(Disk0(s), 0)
      BY DEF Init
    <2>2. 0 \in Epochs /\ 0 \in 0..MaxDisturbances
      BY BoundsAssumption DEF Epochs
    <2>3. [t \in Sentinels \ {s} |-> <<t, 0>>] \in [Sentinels \ {s} -> RunIds]
      BY <2>2 DEF RunIds
    <2>4. [t \in Sentinels \ {s} |-> <<t, 0>>] \in UNION {[P -> RunIds] : P \in Others(s)}
      BY <2>3 DEF Others
    <2> QED BY <2>1, <2>2, <2>4, MasterAssumption DEF Disk0, Disks
  <1>2. \A s \in Sentinels :
          /\ RecordOK(s, sen[s]) /\ sen[s].up /\ sen[s].boot = 0 /\ sen[s].fo = NoFailover
          /\ sen[s].leader = None /\ sen[s].lepoch = 0
          /\ DOMAIN sen[s].peers = Sentinels \ {s} /\ DOMAIN sen[s].disk.peers = Sentinels \ {s}
          /\ \A t \in DOMAIN sen[s].peers : sen[s].peers[t].leader = None
    <2>1. 0 \in 0..MaxDisturbances
      BY BoundsAssumption
    <2> QED BY <1>1, <2>1, LoadedRecord
  <1>3. SentinelInv
    <2>1. sen = [s \in Sentinels |-> sen[s]]
      BY DEF Init
    <2>2. inst \in [Instances -> [up : BOOLEAN, master : Instances \cup {NoOne}]]
      BY MasterAssumption DEF Init
    <2>3. left = MaxDisturbances /\ wasReset = FALSE
      BY DEF Init
    <2>4. NoFailover.state = "none"
      BY DEF NoFailover
    <2>5. \A s \in Sentinels : sen[s].boot + Down(sen[s]) + left <= MaxDisturbances
      BY <1>2, <2>3, BoundsAssumption DEF Down
    <2>6. left \in 0..MaxDisturbances
      BY <2>3, BoundsAssumption
    <2>7. wasReset \in BOOLEAN
      BY <2>3
    <2> QED BY <1>2, <2>1, <2>2, <2>4, <2>5, <2>6, <2>7 DEF SentinelInv
  <1>4. PeersInv
    BY <1>2 DEF PeersInv, PeersFull
  <1>5. VoteInv
    <2>1. \A t \in Sentinels : \A v \in VotesOf(t) : v[2] = None
      BY <1>2 DEF VotesOf
    <2> QED BY <2>1 DEF VoteInv, VotesOnce
  <1>6. ElectionInv
    BY DEF ElectionInv, OneLeaderOfTheCurrentEpoch, Init
  <1> QED BY <1>3, <1>4, <1>5, <1>6 DEF IInv

\* Every handler is a good step, and only the timer adds an election.
LEMMA NextStep ==
    ASSUME SentinelInv, [Next]_vars
    PROVE  /\ StepOK
           /\ \/ elections' = elections
              \/ \E s \in Sentinels : \E e : elections' = elections \cup {e} /\ ElectedNow(s, e)
  <1>1. CASE \E s \in Sentinels : Timer(s)
    <2>1. PICK s \in Sentinels : Timer(s)
      BY <1>1
    <2> QED BY <2>1, TimerStep
  <1>2. CASE \E s \in Sentinels : CommandFailover(s) \/ CommandReset(s) \/ OtherMasterFailover(s)
    <2>1. StepOK
      BY <1>2, CommandStep
    <2>2. elections' = elections
      BY <1>2 DEF CommandFailover, CommandReset, OtherMasterFailover
    <2> QED BY <2>1, <2>2
  <1>3. CASE \E s \in Sentinels : Crash(s) \/ Restart(s)
    <2>1. StepOK
      BY <1>3, LifeStep
    <2>2. elections' = elections
      BY <1>3 DEF Crash, Restart
    <2> QED BY <2>1, <2>2
  <1>4. CASE \E s, t \in Sentinels : ProcessHello(s, t)
    <2>1. StepOK
      BY <1>4, HelloStep
    <2>2. elections' = elections
      BY <1>4 DEF ProcessHello
    <2> QED BY <2>1, <2>2
  <1>5. CASE \E s, t \in Sentinels : AskMasterState(s, t)
    <2>1. StepOK
      BY <1>5, AskStep
    <2>2. elections' = elections
      BY <1>5 DEF AskMasterState
    <2> QED BY <2>1, <2>2
  <1>6. CASE \E s, t \in Sentinels : DropOldReply(s, t)
    <2>1. StepOK
      BY <1>6, DropStep
    <2>2. elections' = elections
      BY <1>6 DEF DropOldReply
    <2> QED BY <2>1, <2>2
  <1>7. CASE \E s \in Sentinels, i \in Instances : RefreshInstanceInfo(s, i)
    <2>1. StepOK
      BY <1>7, RefreshStep
    <2>2. elections' = elections
      BY <1>7 DEF RefreshInstanceInfo
    <2> QED BY <2>1, <2>2
  <1>8. CASE \E i \in Instances : InstanceFails(i) \/ InstanceReturns(i)
    <2>1. StepOK
      BY <1>8, OtherStep
    <2>2. elections' = elections
      BY <1>8 DEF InstanceFails, InstanceReturns
    <2> QED BY <2>1, <2>2
  <1>9. CASE UNCHANGED vars
    <2>1. StepOK
      BY <1>9, OtherStep
    <2>2. elections' = elections
      BY <1>9 DEF vars
    <2> QED BY <2>1, <2>2
  <1> QED BY <1>1, <1>2, <1>3, <1>4, <1>5, <1>6, <1>7, <1>8, <1>9 DEF Next

LEMMA InductiveStep == IInv /\ [Next]_vars => IInv'
  <1> SUFFICES ASSUME IInv, [Next]_vars PROVE IInv'
    OBVIOUS
  <1>1. SentinelInv /\ PeersInv /\ VoteInv /\ ElectionInv
    BY DEF IInv
  <1>2. StepOK
    BY <1>1, NextStep
  <1>3. SentinelInv' /\ PeersInv' /\ VoteInv'
    BY <1>1, <1>2, VoteInvStep DEF StepOK
  <1>4. ElectionInv'
    <2> SUFFICES ASSUME MajorityNeeded' PROVE  ElectionInv'
      BY DEF ElectionInv
    <2>1. MajorityNeeded
      BY <1>2 DEF MajorityNeeded, StepOK
    <2>2. ASSUME NEW e \in elections, e.current = e.epoch
          PROVE  e.epoch \in Nat /\ \E Q \in Majorities : \A t \in Q : Decided(t, e)'
      <3>1. e.epoch \in Nat
        BY <1>1, <2>1 DEF ElectionInv
      <3>2. PICK Q \in Majorities : \A t \in Q : Decided(t, e)
        BY <1>1, <2>1, <2>2 DEF ElectionInv
      <3>3. Q \subseteq Sentinels
        BY DEF Majorities
      <3>4. \A t \in Q : Decided(t, e)'
        BY <1>1, <1>2, <3>1, <3>2, <3>3, DecidedStays
      <3> QED BY <3>1, <3>4
    <2>3. ASSUME NEW s \in Sentinels, NEW e, ElectedNow(s, e), e.current = e.epoch
          PROVE  \E Q \in Majorities : \A t \in Q :
                     /\ Decided(t, e)'
                     /\ \E w \in VotesOf(t)' : w[1] = e.epoch /\ w[2] # None /\ w[2][1] = s
      BY <1>3, <2>3, LeaderDecides
    <2>4. ASSUME NEW s \in Sentinels, NEW e, ElectedNow(s, e), e.current = e.epoch,
                 NEW f \in elections, f.current = f.epoch, f.epoch = e.epoch
          PROVE  f.by = e.by
      <3>1. PICK Q \in Majorities : \A t \in Q :
                     \E w \in VotesOf(t)' : w[1] = e.epoch /\ w[2] # None /\ w[2][1] = s
        BY <2>3, <2>4
      <3>2. PICK R \in Majorities : \A t \in R : Decided(t, f)'
        BY <2>2, <2>4
      <3>3. PICK t \in Q \cap R : TRUE
        BY MajoritiesMeet
      <3>4. PICK w \in VotesOf(t)' : w[1] = e.epoch /\ w[2] # None /\ w[2][1] = s
        BY <3>1, <3>3
      <3>5. w[2][1] = f.by
        BY <2>4, <3>2, <3>3, <3>4 DEF Decided
      <3> QED BY <2>4, <3>4, <3>5 DEF ElectedNow
    <2>5. CASE elections' = elections
      <3>1. OneLeaderOfTheCurrentEpoch'
        BY <1>1, <2>1, <2>5 DEF ElectionInv, OneLeaderOfTheCurrentEpoch
      <3>2. \A e \in elections' :
              /\ e.epoch \in Nat
              /\ e.current = e.epoch => \E Q \in Majorities : \A t \in Q : Decided(t, e)'
        BY <1>1, <2>1, <2>2, <2>5 DEF ElectionInv
      <3> QED BY <3>1, <3>2 DEF ElectionInv, Majorities
    <2>6. CASE \E s \in Sentinels : \E e : elections' = elections \cup {e} /\ ElectedNow(s, e)
      <3>0. PICK s \in Sentinels : \E e : elections' = elections \cup {e} /\ ElectedNow(s, e)
        BY <2>6
      <3>1. PICK n : elections' = elections \cup {n} /\ ElectedNow(s, n)
        BY <3>0
      <3>2. OneLeaderOfTheCurrentEpoch'
        <4>1. OneLeaderOfTheCurrentEpoch
          BY <1>1, <2>1 DEF ElectionInv
        <4>2. \A f \in elections : n.current = n.epoch /\ f.current = f.epoch /\ f.epoch = n.epoch
                => f.by = n.by
          BY <2>4, <3>1
        <4> QED BY <3>1, <4>1, <4>2 DEF OneLeaderOfTheCurrentEpoch
      <3>3. n.epoch \in Nat /\ (n.current = n.epoch => \E Q \in Majorities : \A t \in Q : Decided(t, n)')
        BY <2>3, <3>1 DEF ElectedNow
      <3>4. \A e \in elections' :
              /\ e.epoch \in Nat
              /\ e.current = e.epoch => \E Q \in Majorities : \A t \in Q : Decided(t, e)'
        BY <1>1, <2>1, <2>2, <3>1, <3>3 DEF ElectionInv
      <3> QED BY <3>2, <3>4 DEF ElectionInv, Majorities
    <2> QED BY <1>1, <2>5, <2>6, NextStep
  <1> QED BY <1>3, <1>4 DEF IInv

\* What the Sentinels remember in memory and in their files, of the master, of each
\* other, of votes and of elections, fits together in every reachable state: what
\* sentinelFlushConfig saves before an answer is given is never behind it.
THEOREM InductiveInvariant == Spec => []IInv
  BY InitIInv, InductiveStep, PTL DEF Spec

\* The state of every Sentinel is well-typed, and INFO of a slave that is marked
\* as told never meets a master without a promoted slave.
THEOREM PromotedWhileReconfiguringHolds == Spec => []PromotedWhileReconfiguring
  <1>1. IInv => PromotedWhileReconfiguring
    <2> SUFFICES ASSUME SentinelInv PROVE PromotedWhileReconfiguring
      BY DEF IInv
    <2>1. TypeOK
      <3>1. ASSUME NEW s \in Sentinels
            PROVE  /\ sen[s] \in Records(s) /\ sen[s].fo \in FailoverRecords
                   /\ sen[s].fo.state # "update_config" /\ DOMAIN sen[s].peers \subseteq Sentinels \ {s}
        BY RecordNow DEF Records
      <3> QED BY <3>1 DEF TypeOK, SentinelInv, Records, FailoverRecords, Flags
    <2>2. ASSUME NEW s \in Sentinels, NEW i \in sen[s].slaves, sen[s].fo.reconf[i] # {}
          PROVE  sen[s].fo.promoted # None
      <3>1. RecordOK(s, sen[s]) /\ i \in Instances
        BY RecordNow DEF Records
      <3> QED BY <2>2, <3>1 DEF RecordOK, FailoverOK
    <2> QED BY <2>1, <2>2 DEF PromotedWhileReconfiguring
  <1> QED BY <1>1, InductiveInvariant, PTL

\* No Sentinel votes twice in an epoch (sentinelVoteLeader), over any number of
\* crashes, resets and lost replies.
THEOREM VotesOnceHolds == Spec => []VotesOnce
  BY InductiveInvariant, PTL DEF IInv, VoteInv

\* An epoch has one leader elected while it is the current one
\* (sentinelGetLeader), as long as no Sentinel was told to forget the others or
\* the quorum itself is a majority.
THEOREM OneLeaderHolds == Spec => [](MajorityNeeded => OneLeaderOfTheCurrentEpoch)
  <1>1. IInv => (MajorityNeeded => OneLeaderOfTheCurrentEpoch)
    BY DEF IInv, ElectionInv
  <1> QED BY <1>1, InductiveInvariant, PTL

\* No Sentinel that runs falls back to an older configuration or announces
\* another master under the same epoch, unless its own failover was overtaken
\* (RefreshInstanceInfo) or an operator reset it.
THEOREM ConfigurationsGetNewerHolds == Spec => ConfigurationsGetNewer
  <1> DEFINE Newer == \A s \in Sentinels :
        sen[s].up /\ sen'[s].up /\ ~Overtaken(sen[s]) =>
            /\ sen'[s].cepoch >= sen[s].cepoch
            /\ CurrentMasterAddress(sen'[s]) # CurrentMasterAddress(sen[s]) /\ ~wasReset' =>
                 sen'[s].cepoch > sen[s].cepoch
  <1>1. IInv /\ [Next]_vars => Newer
    BY NextStep DEF IInv, StepOK, ConfigsMove
  <1>2. Newer => [Newer]_vars
    OBVIOUS
  <1> HIDE DEF Newer
  <1>3. Spec => [][Newer]_vars
    BY <1>1, <1>2, InductiveInvariant, PTL DEF Spec
  <1> QED BY <1>3 DEF ConfigurationsGetNewer, Newer

=============================================================================
