------------------------------ MODULE Sentinel ------------------------------
(***************************************************************************)
(* Redis Sentinel (sampleapps/redis-stable/src/sentinel.c): a group of     *)
(* processes that watch one master and its slaves, agree that the master   *)
(* is down, elect one of themselves for an epoch and let it promote a      *)
(* slave.  A Sentinel is single threaded: its timer, each command and each *)
(* reply is one handler, hence one action.  A handler is written as the    *)
(* code composes it: operators that take the record of one Sentinel and    *)
(* return it changed.                                                      *)
(*                                                                         *)
(* Time is left out: a condition on elapsed time is a choice, except that  *)
(* an instance that is down does not answer its ping.  A command acts at   *)
(* once or is lost, and so is its reply: a request that arrives late is    *)
(* one that was handled and whose reply was lost, a reply that arrives     *)
(* late one that was lost and asked for again, as the code does.           *)
(***************************************************************************)
EXTENDS Integers, FiniteSets

CONSTANTS Sentinels, Instances, Master0, None,
          quorum,         \* "sentinel monitor <name> <ip> <port> <quorum>"
          parallel_syncs, \* slaves reconfigured at the same time
          Spurious,       \* an instance that runs may miss its pings
          MaxEpoch,
          MaxDisturbances \* crashes, instances that fail, commands of an operator

ASSUME QuorumAssumption == IsFiniteSet(Sentinels) /\ quorum \in 1..Cardinality(Sentinels)
ASSUME MasterAssumption == Master0 \in Instances /\ None \notin Instances
ASSUME BoundsAssumption == MaxEpoch \in Nat /\ MaxDisturbances \in Nat

VARIABLES
    sen,      \* sen[s]: what Sentinel s keeps of the master (sentinelRedisInstance)
    inst,     \* inst[i]: a Redis server, its role and whether it runs
    left,     \* the disturbances still to come
    wasReset, \* history: a Sentinel was told to forget all it knows
    elections \* history: who was elected, for which epoch, at which current_epoch

vars == <<sen, inst, left, wasReset, elections>>

NoOne == "NO ONE"

\* sentinelReconnectInstance: the link to an instance that runs is there again at
\* the next timer, the one to an instance that does not run is SRI_DISCONNECTED.
Connected(i) == inst[i].up

Epochs == 0..MaxEpoch
RunId(s, r) == <<s, r.boot>>
RunIds == Sentinels \X (0..MaxDisturbances)
ASSUME RunIdAssumption == None \notin RunIds

----------------------------------------------------------------------------
(* What a Sentinel keeps.                                                  *)

\* A Sentinel this one knows, as createSentinelRedisInstance leaves it.
NewPeer(run) == [run |-> run, down |-> FALSE, leader |-> None, lepoch |-> 0]

\* The failover fields of a master, as createSentinelRedisInstance and
\* sentinelResetMaster leave them.
NoFailover == [state |-> "none", epoch |-> 0, promoted |-> None, forced |-> FALSE,
               reconf |-> [i \in Instances |-> {}]]

\* sentinelGetCurrentMasterAddress: the promoted slave once it has answered.
CurrentMasterAddress(r) ==
    IF r.fo.state \in {"reconf_slaves", "update_config"} /\ r.fo.promoted # None
    THEN r.fo.promoted ELSE r.addr

\* rewriteConfigSentinelOption: the promoted slave is saved as the master and
\* the old master in its place; who was voted for is not saved.
Saved(r) ==
    LET addr == CurrentMasterAddress(r) IN
    [epoch |-> r.epoch, addr |-> addr, cepoch |-> r.cepoch, lepoch |-> r.lepoch,
     slaves |-> {IF i = addr THEN r.addr ELSE i : i \in r.slaves},
     peers |-> [t \in DOMAIN r.peers |-> r.peers[t].run]]

\* sentinelFlushConfig: rewrite the file and fsync it.
Flush(r) == [r EXCEPT !.disk = Saved(r)]

\* sentinelHandleConfiguration at start-up: epochs, slaves and Sentinels come
\* back, the vote, the failover and what was observed do not.
Loaded(d, boot) ==
    [up |-> TRUE, boot |-> boot,
     epoch |-> IF d.cepoch > d.epoch THEN d.cepoch ELSE d.epoch,
     addr |-> d.addr, cepoch |-> d.cepoch, slaves |-> d.slaves,
     leader |-> None, lepoch |-> d.lepoch, fo |-> NoFailover,
     sdown |-> {}, role |-> "master",
     peers |-> [t \in DOMAIN d.peers |-> NewPeer(d.peers[t])], disk |-> d]

Disk0(s) ==
    [epoch |-> 0, addr |-> Master0, cepoch |-> 0, lepoch |-> 0,
     slaves |-> Instances \ {Master0}, peers |-> [t \in Sentinels \ {s} |-> <<t, 0>>]]

Init ==
    /\ sen = [s \in Sentinels |-> Loaded(Disk0(s), 0)]
    /\ inst = [i \in Instances |-> [up |-> TRUE, master |-> IF i = Master0 THEN NoOne ELSE Master0]]
    /\ left = MaxDisturbances /\ wasReset = FALSE
    /\ elections = {}

----------------------------------------------------------------------------
(* Resetting the master.                                                   *)

\* sentinelResetMaster: the leader is forgotten, its epoch is kept.
ResetMaster(r, keepSentinels) ==
    [r EXCEPT !.slaves = {}, !.leader = None, !.fo = NoFailover, !.sdown = @ \ ({r.addr} \cup r.slaves),
              !.role = "master",
              !.peers = IF keepSentinels THEN @ ELSE [t \in {} |-> @[t]]]

\* sentinelResetMasterAndChangeAddress: the old master becomes a slave.
ResetMasterAndChangeAddress(r, addr) ==
    LET slaves == (r.slaves \cup {r.addr}) \ {addr}
        z == ResetMaster(r, TRUE)
    IN  Flush([z EXCEPT !.addr = addr, !.slaves = slaves])

----------------------------------------------------------------------------
(* Votes.                                                                  *)

\* Variant: the vote is kept in memory only.
VoteUnsaved(r, epoch, run) ==
    LET r1 == IF epoch > r.epoch THEN Flush([r EXCEPT !.epoch = epoch]) ELSE r
    IN  IF r1.lepoch < epoch /\ r1.epoch <= epoch
        THEN [r1 EXCEPT !.leader = run, !.lepoch = r1.epoch] ELSE r1

\* sentinelVoteLeader: one vote for an epoch, saved before it is told.
VoteLeader(r, epoch, run) ==
    LET r1 == IF epoch > r.epoch THEN Flush([r EXCEPT !.epoch = epoch]) ELSE r
    IN  IF r1.lepoch < epoch /\ r1.epoch <= epoch
        THEN Flush([r1 EXCEPT !.leader = run, !.lepoch = r1.epoch]) ELSE r1

\* The votes of the other Sentinels that sentinelGetLeader counts: those told
\* for the current epoch.
VotesFor(r, run) == {t \in DOMAIN r.peers : r.peers[t].leader = run /\ r.peers[t].lepoch = r.epoch}

\* Whom a Sentinel that has not voted votes for: who leads, or itself.
Favourites(r, me) ==
    LET voted == {r.peers[t].leader : t \in {u \in DOMAIN r.peers : r.peers[u].leader # None
                                                 /\ r.peers[u].lepoch = r.epoch}}
    IN  IF voted = {} THEN {me}
        ELSE {l \in voted : \A k \in voted : Cardinality(VotesFor(r, l)) >= Cardinality(VotesFor(r, k))}

\* sentinelGetLeader, second half: the vote of this Sentinel is counted when it
\* is for the epoch asked, and the winner needs a majority of the Sentinels it
\* knows and the quorum.
Votes(r, v, epoch, run) ==
    Cardinality(VotesFor(r, run)) + (IF v.leader = run /\ v.lepoch = epoch THEN 1 ELSE 0)

\* Variant: half of the voters are enough.
HalfWins(r, v, epoch, run) ==
    /\ Votes(r, v, epoch, run) >= (Cardinality(DOMAIN r.peers) + 1) \div 2
    /\ Votes(r, v, epoch, run) >= quorum - 1

Wins(r, v, epoch, run) ==
    /\ Votes(r, v, epoch, run) >= (Cardinality(DOMAIN r.peers) + 1) \div 2 + 1
    /\ Votes(r, v, epoch, run) >= quorum

----------------------------------------------------------------------------
(* Who is down.                                                            *)

\* sentinelCheckSubjectivelyDown for the instances in `who': no pong in time.
CheckSubjectivelyDown(r, who, late) == [r EXCEPT !.sdown = (@ \ who) \cup (late \cap who)]

\* sentinelCheckObjectivelyDown: enough Sentinels said so, at some time.
CheckObjectivelyDown(r) ==
    /\ r.addr \in r.sdown
    /\ 1 + Cardinality({t \in DOMAIN r.peers : r.peers[t].down}) >= quorum

----------------------------------------------------------------------------
(* The failover, step by step.                                             *)

\* sentinelStartFailover: a new epoch, not saved.
StartFailover(r) ==
    [r EXCEPT !.fo.state = "wait_start", !.epoch = @ + 1, !.fo.epoch = r.epoch + 1]

\* sentinelStartFailoverIfNeeded: the master is objectively down and no failover
\* is in progress; that the last one started long ago is left to chance.
StartFailoverIfNeeded(r) == CheckObjectivelyDown(r) /\ r.fo.state = "none"

\* sentinelAbortFailover
AbortFailover(r) == [r EXCEPT !.fo = [NoFailover EXCEPT !.reconf = r.fo.reconf]]

\* What one call of the state machine may lead to: the Sentinel afterwards, the
\* SLAVEOF commands it sent and whether it was elected in this call.
Outcome(r, sent, won) == [r |-> r, sent |-> sent, won |-> won]
Only(r) == Outcome(r, {}, FALSE)

\* sentinelFailoverWaitStart: count the votes; the leader (or a forced failover)
\* goes on, the others wait until the election times out.
FailoverWaitStart(s, r) ==
    UNION {LET v == VoteLeader(r, r.fo.epoch, f)
               won == Wins(r, v, r.fo.epoch, RunId(s, r))
           IN  IF won \/ r.fo.forced
               THEN {Outcome([v EXCEPT !.fo.state = "select_slave"], {}, won)}
               ELSE {Only(v), Only(AbortFailover(v))} : f \in Favourites(r, RunId(s, r))}

\* sentinelSelectSlave: the slaves that may be selected are up and connected, and
\* their answers recent enough or not.  Priority, offset and run id only order
\* the candidates and are left out.
SelectSlave(r) == {i \in r.slaves \ r.sdown : Connected(i)}

\* sentinelFailoverSelectSlave
FailoverSelectSlave(r) ==
    {Only(AbortFailover(r))}
    \cup {Only([r EXCEPT !.fo.state = "send_slaveof_noone", !.fo.promoted = i]) : i \in SelectSlave(r)}

\* sentinelFailoverSendSlaveOfNoOne
FailoverSendSlaveOfNoOne(r) ==
    IF ~Connected(r.fo.promoted) THEN {Only(r), Only(AbortFailover(r))}
    ELSE {Outcome([r EXCEPT !.fo.state = "wait_promotion"], {<<r.fo.promoted, NoOne>>}, FALSE)}

\* sentinelFailoverWaitPromotion: INFO moves on, only the timeout is here.
FailoverWaitPromotion(r) == {Only(r), Only(AbortFailover(r))}

\* sentinelFailoverDetectEnd: the failover ends when every reachable slave is
\* done or, by timeout, after a last SLAVEOF; not while the promoted slave is down.
NotReconfigured(r) ==
    {i \in r.slaves \ ({r.fo.promoted} \cup r.sdown) : "done" \notin r.fo.reconf[i]}

\* The slaves that get the last SLAVEOF: not those already told, but the promoted
\* slave too, which is then told to follow itself.
LastReconf(r) == {i \in r.slaves : r.fo.reconf[i] \cap {"done", "sent"} = {} /\ Connected(i)}

\* Variant: a failover whose promoted slave is lost is aborted.
DetectEndAborts(r, sent) ==
    IF r.fo.promoted \in r.sdown THEN {Outcome(AbortFailover(r), sent, FALSE)}
    ELSE {Outcome(IF NotReconfigured(r) = {} THEN [r EXCEPT !.fo.state = "update_config"] ELSE r, sent, FALSE)}

Ended(r) == [r EXCEPT !.fo.state = "update_config"]
FailoverDetectEnd(r, sent) ==
    IF r.fo.promoted = None \/ r.fo.promoted \in r.sdown THEN {Outcome(r, sent, FALSE)}
    ELSE {Outcome(Ended(r), sent \cup {<<i, r.fo.promoted>> : i \in LastReconf(r)}, FALSE),
          Outcome(IF NotReconfigured(r) = {} THEN Ended(r) ELSE r, sent, FALSE)}

\* sentinelFailoverReconfNextSlave: while fewer than parallel_syncs are in
\* progress, the next slave is told its master.  One that was told long ago is
\* taken for done, and told again.
InProgress(r) == {i \in r.slaves : r.fo.reconf[i] \cap {"sent", "inprog"} # {}}
ReconfEligible(r, expired) ==
    {i \in r.slaves \ {r.fo.promoted} :
        /\ "done" \notin r.fo.reconf[i] /\ Connected(i)
        /\ r.fo.reconf[i] = {} \/ (i \in expired /\ r.fo.reconf[i] = {"sent"})}
FailoverReconfNextSlave(r) ==
    LET room == parallel_syncs - Cardinality(InProgress(r)) IN
    IF room <= 0 THEN FailoverDetectEnd(r, {})
    ELSE UNION {UNION {
        LET n == [r EXCEPT !.fo.reconf = [i \in Instances |->
                    IF i \in told THEN (IF @[i] = {} THEN {"sent"} ELSE {"sent", "done"})
                    ELSE IF i \in expired /\ ~Connected(i) /\ @[i] = {"sent"} THEN {"done"} ELSE @[i]]]
        IN  FailoverDetectEnd(n, {<<i, r.fo.promoted>> : i \in told}) :
            told \in {x \in SUBSET ReconfEligible(r, expired) :
                        Cardinality(x) = room \/ (x = ReconfEligible(r, expired) /\ Cardinality(x) < room)}} :
            expired \in SUBSET {i \in r.slaves : "sent" \in r.fo.reconf[i]}}

\* sentinelFailoverStateMachine
FailoverStateMachine(s, r) ==
    CASE r.fo.state = "none"               -> {Only(r)}
      [] r.fo.state = "wait_start"         -> FailoverWaitStart(s, r)
      [] r.fo.state = "select_slave"       -> FailoverSelectSlave(r)
      [] r.fo.state = "send_slaveof_noone" -> FailoverSendSlaveOfNoOne(r)
      [] r.fo.state = "wait_promotion"     -> FailoverWaitPromotion(r)
      [] r.fo.state = "reconf_slaves"      -> FailoverReconfNextSlave(r)

----------------------------------------------------------------------------
(* The timer.                                                              *)

\* The instances that are late with their pong, as Sentinel s sees it; a master
\* that has said long enough that it is a slave counts as one.
Late(r) == {x \in SUBSET Instances :
    /\ {i \in Instances : ~inst[i].up} \subseteq x
    /\ Spurious \/ \A i \in x : ~inst[i].up \/ (i = r.addr /\ r.role = "slave")}

\* A command reaches the instance it is sent to, or is lost with the link.
SlaveOf(sent, lost) ==
    inst' = [i \in Instances |->
        LET to == {c[2] : c \in {d \in sent : d[1] = i}} IN
        IF to = {} \/ i \in lost \/ ~inst[i].up THEN inst[i]
        ELSE [inst[i] EXCEPT !.master = CHOOSE m \in to : TRUE]]

\* sentinelTimer: sentinelHandleDictOfRedisInstances on the master, its slaves
\* and, last, the switch to the promoted slave.  In TILT mode it does nothing.
\* What it asks the other Sentinels is the next action.
Timer(s) ==
    /\ sen[s].up
    /\ \E late \in Late(sen[s]), start \in BOOLEAN :
        LET r0 == CheckSubjectivelyDown(sen[s], {sen[s].addr}, late)
            r1 == IF start THEN StartFailover(r0) ELSE r0
        IN  /\ start => StartFailoverIfNeeded(r0) /\ r0.epoch < MaxEpoch
            /\ \E o \in FailoverStateMachine(s, r1) :
                LET r2 == CheckSubjectivelyDown(o.r, o.r.slaves, late)
                    r3 == IF r2.fo.state = "update_config"
                          THEN ResetMasterAndChangeAddress(r2, r2.fo.promoted) ELSE r2
                IN  /\ sen' = [sen EXCEPT ![s] = r3]
                    /\ \E lost \in SUBSET {c[1] : c \in o.sent} : SlaveOf(o.sent, lost)
                    /\ elections' = IF o.won THEN elections \cup
                            {[epoch |-> r1.fo.epoch, current |-> r1.epoch, by |-> s]} ELSE elections
    /\ UNCHANGED <<left, wasReset>>

----------------------------------------------------------------------------
(* Sentinels that ask each other.                                          *)

\* SENTINEL IS-MASTER-DOWN-BY-ADDR: whether the master at that address is down,
\* and a vote if one is asked for.  In TILT mode the answer is always "no".
IsMasterDownByAddr(r, addr, epoch, run) ==
    IF addr = r.addr /\ run # None THEN VoteLeader(r, epoch, run) ELSE r
DownReply(r, v, addr, run, tilt) ==
    LET voted == addr = r.addr /\ run # None IN
    [down |-> ~tilt /\ addr = r.addr /\ r.addr \in r.sdown,
     leader |-> IF voted THEN v.leader ELSE None, lepoch |-> IF voted THEN v.lepoch ELSE 0]

\* sentinelReceiveIsMasterDownReply
ReceiveIsMasterDownReply(r, t, reply) ==
    [r EXCEPT !.peers[t] = IF reply.leader = None THEN [@ EXCEPT !.down = reply.down]
                           ELSE [@ EXCEPT !.down = reply.down, !.leader = reply.leader, !.lepoch = reply.lepoch]]

\* sentinelAskMasterStateToOtherSentinels for one of them: an answer that is too
\* old is dropped ...
DropOldReply(s, t) ==
    /\ sen[s].up /\ t \in DOMAIN sen[s].peers
    /\ sen' = [sen EXCEPT ![s].peers[t] = [@ EXCEPT !.down = FALSE, !.leader = None, !.lepoch = 0]]
    /\ UNCHANGED <<inst, left, wasReset, elections>>

\* ... and, while the master is down, a new one is asked for, with a vote when a
\* failover is under way, for the current epoch.
AskMasterState(s, t) ==
    /\ sen[s].up /\ t \in DOMAIN sen[s].peers /\ sen[t].up
    /\ sen[s].addr \in sen[s].sdown
    /\ \E tilt, lost \in BOOLEAN :
        LET r == sen[s]
            run == IF r.fo.state = "none" THEN None ELSE RunId(s, r)
            v == IsMasterDownByAddr(sen[t], r.addr, r.epoch, run)
            reply == DownReply(sen[t], v, r.addr, run, tilt)
        IN  sen' = [sen EXCEPT ![t] = v, ![s] = IF lost THEN r ELSE ReceiveIsMasterDownReply(r, t, reply)]
    /\ UNCHANGED <<inst, left, wasReset, elections>>

----------------------------------------------------------------------------
(* INFO, hello messages and commands.                                      *)

\* sentinelMasterLooksSane; objectively down implies subjectively down, the two
\* being checked in turn by the same timer.
MasterLooksSane(r) == r.role = "master" /\ r.addr \notin r.sdown

\* sentinelRefreshInstanceInfo, first half: slaves the master lists are added,
\* the reported role is noted.
LearnInfo(r, i) ==
    LET listed == IF i = r.addr THEN {j \in Instances \ {i} : inst[j].up /\ inst[j].master = i} ELSE {}
        r1 == IF listed \subseteq r.slaves THEN r ELSE Flush([r EXCEPT !.slaves = @ \cup listed])
    IN  IF i # r.addr THEN r1
        ELSE [r1 EXCEPT !.role = IF inst[i].master = NoOne THEN "master" ELSE "slave"]

\* Second half, the acting one: the promoted slave is a master now.
PromotionSeen(r, i) ==
    i = r.fo.promoted /\ r.fo.state = "wait_promotion" /\ inst[i].master = NoOne
Promoted(r) == Flush([r EXCEPT !.cepoch = r.fo.epoch, !.fo.state = "reconf_slaves"])

\* A slave that turned master, or replicates from another address, is told the
\* master's address when the master looks sane and enough time has passed.
Misconfigured(r, i) ==
    /\ i \in r.slaves /\ ~PromotionSeen(r, i)
    /\ MasterLooksSane(r)
    /\ \/ inst[i].master = NoOne /\ i # r.fo.promoted
       \/ inst[i].master \notin {NoOne, r.addr}

\* sent -> inprog -> done for a slave told to follow the promoted one.
LinkUp(i) == inst[i].master # NoOne /\ inst[i].master # i /\ inst[inst[i].master].up
ReconfSeen(r, i) ==
    LET f0 == r.fo.reconf[i]
        f1 == IF "sent" \in f0 /\ inst[i].master = r.fo.promoted
              THEN (f0 \ {"sent"}) \cup {"inprog"} ELSE f0
        f2 == IF "inprog" \in f1 /\ LinkUp(i) THEN (f1 \ {"inprog"}) \cup {"done"} ELSE f1
    IN  IF i \in r.slaves /\ inst[i].master # NoOne THEN [r EXCEPT !.fo.reconf[i] = f2] ELSE r

RefreshInstanceInfo(s, i) ==
    /\ sen[s].up /\ Connected(i)
    /\ i = sen[s].addr \/ i \in sen[s].slaves
    /\ \E fix \in BOOLEAN :
        LET r == LearnInfo(sen[s], i) IN
        /\ fix => Misconfigured(r, i)
        /\ sen' = [sen EXCEPT ![s] = IF PromotionSeen(r, i) THEN Promoted(r) ELSE ReconfSeen(r, i)]
        /\ SlaveOf(IF fix THEN {<<i, r.addr>>} ELSE {}, {})
    /\ UNCHANGED <<left, wasReset, elections>>

\* Variant: any other configuration is taken over.
AnyConfig(r, addr, cepoch) ==
    IF addr = r.addr THEN [r EXCEPT !.cepoch = cepoch]
    ELSE ResetMasterAndChangeAddress([r EXCEPT !.cepoch = cepoch], addr)

\* sentinelProcessHelloMessage, second half: a newer configuration is taken
\* over; the file is not written when only its epoch is new.
NewerConfig(r, addr, cepoch) ==
    IF r.cepoch >= cepoch THEN r
    ELSE IF addr = r.addr THEN [r EXCEPT !.cepoch = cepoch]
    ELSE ResetMasterAndChangeAddress([r EXCEPT !.cepoch = cepoch], addr)

\* sentinelSendHello
Hello(t) == [run |-> RunId(t, sen[t]), epoch |-> sen[t].epoch,
             addr |-> CurrentMasterAddress(sen[t]), cepoch |-> sen[t].cepoch]

\* sentinelReceiveHelloMessages: it ignores them.
HelloOfAnother(s, t) == s # t

\* sentinelProcessHelloMessage: s hears from t what sentinelSendHello says.  An
\* unknown Sentinel, or a known one with a new run id, is registered.
ProcessHello(s, t) ==
    /\ HelloOfAnother(s, t) /\ sen[s].up /\ sen[t].up
    /\ LET h == Hello(t)
           known == t \in DOMAIN sen[s].peers /\ sen[s].peers[t].run = h.run
           r1 == IF known THEN sen[s]
                 ELSE Flush([sen[s] EXCEPT !.peers =
                        [u \in DOMAIN @ \cup {t} |-> IF u = t THEN NewPeer(h.run) ELSE @[u]]])
           r2 == IF h.epoch > r1.epoch THEN Flush([r1 EXCEPT !.epoch = h.epoch]) ELSE r1
       IN  sen' = [sen EXCEPT ![s] = NewerConfig(r2, h.addr, h.cepoch)]
    /\ UNCHANGED <<inst, left, wasReset, elections>>

\* SENTINEL FAILOVER: a failover without an election.
CommandFailover(s) ==
    /\ left > 0 /\ left' = left - 1
    /\ sen[s].up /\ sen[s].fo.state = "none" /\ sen[s].epoch < MaxEpoch
    /\ SelectSlave(sen[s]) # {}
    /\ sen' = [sen EXCEPT ![s] = [StartFailover(@) EXCEPT !.fo.forced = TRUE]]
    /\ UNCHANGED <<inst, wasReset, elections>>

\* SENTINEL RESET
CommandReset(s) ==
    /\ left > 0 /\ left' = left - 1 /\ wasReset' = TRUE
    /\ sen[s].up
    /\ sen' = [sen EXCEPT ![s] = ResetMaster(@, FALSE)]
    /\ UNCHANGED <<inst, elections>>

\* current_epoch belongs to all masters: a failover of another one moves it.
OtherMasterFailover(s) ==
    /\ left > 0 /\ left' = left - 1
    /\ sen[s].up /\ sen[s].epoch < MaxEpoch
    /\ sen' = [sen EXCEPT ![s].epoch = @ + 1]
    /\ UNCHANGED <<inst, wasReset, elections>>

----------------------------------------------------------------------------
(* Failures.                                                               *)

Crash(s) ==
    /\ sen[s].up /\ left > 0 /\ left' = left - 1
    /\ sen' = [sen EXCEPT ![s].up = FALSE]
    /\ UNCHANGED <<inst, wasReset, elections>>

\* A new process with a new run id reads the file.
Restart(s) ==
    /\ ~sen[s].up
    /\ sen' = [sen EXCEPT ![s] = Loaded(@.disk, @.boot + 1)]
    /\ UNCHANGED <<inst, left, wasReset, elections>>

\* CONFIG REWRITE follows SLAVEOF, so an instance comes back in its last role.
InstanceFails(i) ==
    /\ inst[i].up /\ left > 0 /\ left' = left - 1
    /\ inst' = [inst EXCEPT ![i].up = FALSE]
    /\ UNCHANGED <<sen, wasReset, elections>>

InstanceReturns(i) ==
    /\ ~inst[i].up
    /\ inst' = [inst EXCEPT ![i].up = TRUE]
    /\ UNCHANGED <<sen, left, wasReset, elections>>

Next ==
    \/ \E s \in Sentinels : \/ Timer(s)
                            \/ CommandFailover(s) \/ CommandReset(s) \/ OtherMasterFailover(s)
                            \/ Crash(s) \/ Restart(s)
    \/ \E s, t \in Sentinels : ProcessHello(s, t) \/ AskMasterState(s, t) \/ DropOldReply(s, t)
    \/ \E s \in Sentinels, i \in Instances : RefreshInstanceInfo(s, i)
    \/ \E i \in Instances : InstanceFails(i) \/ InstanceReturns(i)

Spec == Init /\ [][Next]_vars

----------------------------------------------------------------------------
(* Properties.                                                             *)

FailoverStates == {"none", "wait_start", "select_slave", "send_slaveof_noone",
                   "wait_promotion", "reconf_slaves"}

\* The shape of the state; update_config never outlives the timer that sets it.
TypeOK ==
    /\ \A s \in Sentinels :
        LET r == sen[s] IN
        /\ r.up \in BOOLEAN /\ r.boot \in 0..MaxDisturbances
        /\ r.epoch \in Epochs /\ r.cepoch \in Epochs /\ r.lepoch \in Epochs /\ r.fo.epoch \in Epochs
        /\ r.addr \in Instances /\ r.slaves \subseteq Instances
        /\ r.leader \in RunIds \cup {None}
        /\ r.fo.state \in FailoverStates /\ r.fo.promoted \in Instances \cup {None}
        /\ r.fo.reconf \in [Instances -> SUBSET {"sent", "inprog", "done"}]
        /\ r.sdown \subseteq Instances
        /\ DOMAIN r.peers \subseteq Sentinels \ {s}
    /\ inst \in [Instances -> [up : BOOLEAN, master : Instances \cup {NoOne}]]
    /\ left \in 0..MaxDisturbances /\ wasReset \in BOOLEAN

\* What is known of the votes of t: its own record and what the others noted.
VotesOf(t) ==
    {<<sen[t].lepoch, sen[t].leader>>}
    \cup {<<sen[s].peers[t].lepoch, sen[s].peers[t].leader>> :
              s \in {u \in Sentinels : t \in DOMAIN sen[u].peers}}

\* A Sentinel never gives its vote for an epoch to two leaders, whatever it
\* forgets in a crash between the two requests (sentinelVoteLeader).
VotesOnce ==
    \A t \in Sentinels : \A v, w \in VotesOf(t) :
        v[1] = w[1] /\ v[2] # None /\ w[2] # None => v[2] = w[2]

\* Of the Sentinels elected while their epoch is still the current one, no two
\* were elected for the same epoch (sentinelGetLeader).
OneLeaderOfTheCurrentEpoch ==
    \A e, f \in elections :
        e.epoch = f.epoch /\ e.current = e.epoch /\ f.current = f.epoch => e.by = f.by

\* sentinelGetLeader's comment: a leader of an epoch has the votes of a majority "for the
\* same epoch" (sentinel.c:3287-3289), so that an epoch has at most one.  Refuted when
\* current_epoch moves on while a failover waits for its votes.
ElectionSafety == \A e, f \in elections : e.epoch = f.epoch => e.by = f.by

\* RefreshInstanceInfo compares a slave's master with the promoted slave of its
\* master through a pointer it does not test: a slave is marked as told only
\* while there is a promoted slave.  Everything has its type.
PromotedWhileReconfiguring ==
    TypeOK /\ \A s \in Sentinels : (\E i \in sen[s].slaves : sen[s].fo.reconf[i] # {}) => sen[s].fo.promoted # None

\* The failover that a Sentinel waits to see done is no newer than the
\* configuration it has heard of since.
Overtaken(r) == r.fo.state = "wait_promotion" /\ r.fo.epoch <= r.cepoch

\* A Sentinel that runs never falls back to an older configuration, and the
\* master it announces (sentinelSendHello) changes only with a greater epoch, so
\* that the others take the change over.  RefreshInstanceInfo breaks both when the
\* failover was overtaken, and an operator's RESET in the middle of a failover
\* takes the address back and keeps the epoch.
ConfigurationsGetNewer ==
    [][\A s \in Sentinels :
        sen[s].up /\ sen'[s].up /\ ~Overtaken(sen[s]) =>
            /\ sen'[s].cepoch >= sen[s].cepoch
            /\ CurrentMasterAddress(sen'[s]) # CurrentMasterAddress(sen[s]) /\ ~wasReset' =>
                 sen'[s].cepoch > sen[s].cepoch]_vars
=============================================================================
