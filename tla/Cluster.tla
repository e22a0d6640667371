------------------------------ MODULE Cluster -------------------------------
(***************************************************************************)
(* The cluster bus of Redis (sampleapps/redis-stable/src/cluster.c): nodes *)
(* that gossip about who is master of which hash slots, agree that a       *)
(* master is failing, vote for one of its slaves in an epoch and let the   *)
(* configuration with the greater config epoch win.  A node is single      *)
(* threaded: a packet or a call of its cron is one action, clusterBefore-  *)
(* Sleep included.  Operators that take what a node knows and return it    *)
(* changed are named after the functions of the code.                      *)
(*                                                                         *)
(* Time is a choice, with three exceptions: a node that can be reached     *)
(* does not time out, failure reports do not expire, and what belongs to   *)
(* an election is gone when the next one is set up, auth_retry_time later. *)
(* A packet carries what its sender knows when it is received, or is lost  *)
(* with its link; the request for votes alone is kept as it was sent.      *)
(***************************************************************************)
EXTENDS Integers, FiniteSets, FiniteSetsExt

CONSTANTS Nodes,         \* the node ids, which the code compares
          NSlots,        \* hash slots 1..NSlots (REDIS_CLUSTER_SLOTS)
          Scenarios,     \* how the cluster may begin: the master of each node, 0 of a
                         \* master, the config epochs, the master that serves each
                         \* slot, and how often each of Disturbances may happen
          Failing,       \* nodes that may be cut off
          Crashers,      \* nodes that may crash and restart
          MaxEpoch       \* no election or takeover beyond this epoch

\* CLUSTER FAILOVER TAKEOVER and FORCE, and what happens to a node.
Disturbances == {"cut", "restart", "takeover", "force"}

ASSUME NodesAssumption ==
    /\ Nodes \subseteq Nat \ {0} /\ IsFiniteSet(Nodes) /\ Nodes # {}
    /\ Failing \subseteq Nodes /\ Crashers \subseteq Nodes
ASSUME BoundsAssumption == NSlots \in Nat /\ MaxEpoch \in Nat
ASSUME ScenariosAssumption ==
    \A t \in Scenarios : /\ t.master \in [Nodes -> Nodes \cup {0}]
                         /\ t.epoch \in [Nodes -> Nat]
                         /\ t.may \in [Disturbances -> Nat]
                         /\ t.owner \in [1..NSlots -> {n \in Nodes : t.master[n] = 0}]

VARIABLES
    node,    \* node[n]: what node n keeps (clusterState, and the clusterNodes it knows)
    asked,   \* asked[n]: the request for votes n sent and who still has to receive it
    disk,    \* disk[n]: nodes.conf of the nodes that may crash
    cut,     \* the nodes the others cannot reach
    may,     \* may[d]: how often disturbance d may still happen
    elected  \* history: who won the election of which epoch

vars == <<node, asked, disk, cut, may, elected>>

Null == 0
Slots == 1..NSlots
Reachable(n, m) == n # m /\ {n, m} \cap cut = {}
Greater(a, b) == IF a > b THEN a ELSE b

----------------------------------------------------------------------------
(* What a node knows: a view.                                              *)

nodeIsMaster(v, n) == v.slaveof[n] = Null
SlotsOf(v, n) == {j \in Slots : v.owner[j] = n}

\* clusterUpdateState: the size of the cluster is its masters with slots.
Voters(v) == {n \in Nodes : nodeIsMaster(v, n) /\ SlotsOf(v, n) # {}}
NeededQuorum(v) == Cardinality(Voters(v)) \div 2 + 1

\* clusterInit of a node whose nodes.conf says what the cluster looks like, and
\* clusterLoadConfig: failure reports, elections and manual failovers are gone,
\* the current epoch is not below any config epoch.
LoadConfig(d) ==
    [cur |-> Greater(d.cur, Max({d.cepoch[n] : n \in Nodes})), vote |-> d.vote,
     slaveof |-> d.slaveof, cepoch |-> d.cepoch, owner |-> d.owner, flag |-> d.flag,
     reports |-> [n \in Nodes |-> {}],
     auth |-> [epoch |-> 0, count |-> 0, sent |-> FALSE], mf |-> FALSE]

\* clusterSaveConfig: both epochs are in the file.
SaveConfig(v) ==
    [cur |-> v.cur, vote |-> v.vote, slaveof |-> v.slaveof, cepoch |-> v.cepoch,
     owner |-> v.owner, flag |-> v.flag]

\* CLUSTER_TODO_SAVE_CONFIG is set for roles, config epochs, slots and failures
\* other than PFAIL; neither for the current epoch nor for the last vote.
TodoSaveConfig(v, w) ==
    \/ <<v.slaveof, v.cepoch, v.owner>> # <<w.slaveof, w.cepoch, w.owner>>
    \/ \E n \in Nodes : v.flag[n] # w.flag[n] /\ w.flag[n] # "pfail"

\* clusterBeforeSleep, its last part: who has something to save saves it.
BeforeSleep(force) ==
    disk' = [n \in Crashers |-> IF n \in force \/ TodoSaveConfig(node[n], node'[n])
                                THEN SaveConfig(node'[n]) ELSE disk[n]]

----------------------------------------------------------------------------
(* Epochs.                                                                 *)

\* clusterGetMaxEpoch
GetMaxEpoch(v) == Max({v.cepoch[n] : n \in Nodes} \cup {v.cur})

NewConfigEpoch(v, me) == [v EXCEPT !.cur = @ + 1, !.cepoch[me] = v.cur + 1]

\* clusterBumpConfigEpochWithoutConsensus
BumpConfigEpochWithoutConsensus(v, me) ==
    IF v.cepoch[me] = 0 \/ v.cepoch[me] # GetMaxEpoch(v) THEN NewConfigEpoch(v, me) ELSE v

\* Variant: two colliding masters wait for each other.
CollisionIgnored(v, me, s) == v

\* clusterHandleConfigEpochCollision: of two masters with the same config epoch
\* the one with the smaller id takes a new one.
HandleConfigEpochCollision(v, me, s) ==
    IF v.cepoch[s] = v.cepoch[me] /\ nodeIsMaster(v, s) /\ nodeIsMaster(v, me) /\ s > me
    THEN NewConfigEpoch(v, me) ELSE v

----------------------------------------------------------------------------
(* Failures.                                                               *)

\* clusterNodeAddFailureReport and clusterNodeDelFailureReport
AddFailureReport(v, n, s) == IF v.flag[n] = "fail" THEN v ELSE [v EXCEPT !.reports[n] = @ \cup {s}]
DelFailureReport(v, n, s) == [v EXCEPT !.reports[n] = @ \ {s}]

\* Nodes that are FAIL: the reports about them are not looked at again before they
\* have expired.
Fail(v, failed) ==
    [v EXCEPT !.flag = [n \in Nodes |-> IF n \in failed THEN "fail" ELSE @[n]],
              !.reports = [n \in Nodes |-> IF n \in failed THEN {} ELSE @[n]]]

\* markNodeAsFailingIfNeeded: the node timed out here and a majority of the
\* masters, this one included if it is one, says the same.
MarkNodeAsFailingIfNeeded(v, me, n) ==
    IF /\ v.flag[n] = "pfail"
       /\ Cardinality(v.reports[n]) + (IF nodeIsMaster(v, me) THEN 1 ELSE 0) >= NeededQuorum(v)
    THEN Fail(v, {n}) ELSE v

\* clearNodeFailureIfNeeded: a master that still serves slots is forgiven only
\* when its failure is old enough and nobody took its slots.
ClearNodeFailureIfNeeded(v, n, old) ==
    IF ~nodeIsMaster(v, n) \/ SlotsOf(v, n) = {} \/ old THEN [v EXCEPT !.flag[n] = "ok"] ELSE v

\* clusterProcessGossipSection: reports count when their sender is a master, and
\* change only what is known of the node they are about.  Which nodes a gossip
\* section tells about is chosen by clusterSendPing.
GossipAbout(v, me, h, n) ==
    IF n \in h.suspects THEN MarkNodeAsFailingIfNeeded(AddFailureReport(v, n, h.from), me, n)
    ELSE DelFailureReport(v, n, h.from)

ProcessGossipSection(v, me, h, about) ==
    IF ~nodeIsMaster(v, h.from) THEN v
    ELSE LET others == about \ {me, h.from}
         IN  [v EXCEPT !.flag = [n \in Nodes |-> IF n \in others THEN GossipAbout(v, me, h, n).flag[n] ELSE @[n]],
                       !.reports = [n \in Nodes |-> IF n \in others THEN GossipAbout(v, me, h, n).reports[n] ELSE @[n]]]

----------------------------------------------------------------------------
(* Roles and slots.                                                        *)

\* clusterSetNodeAsMaster
SetNodeAsMaster(v, n) == [v EXCEPT !.slaveof[n] = Null]

\* clusterSetMaster, which asserts that this node serves no slots.
SetMaster(v, me, n) == [v EXCEPT !.slaveof[me] = n, !.mf = FALSE]

\* A slot is bound to who claims it with a greater config epoch.
Newer(v, j, epoch) == v.owner[j] = Null \/ v.cepoch[v.owner[j]] < epoch

\* clusterUpdateSlotsConfigWith: rebind the slots; who lost the last slot of its
\* own, or of its master, follows the node that took it.
UpdateSlotsConfigWith(v, me, s, epoch, slots) ==
    LET curmaster == IF nodeIsMaster(v, me) THEN me ELSE v.slaveof[me]
        taken == {j \in slots : v.owner[j] # s /\ Newer(v, j, epoch)}
        w == [v EXCEPT !.owner = [j \in Slots |-> IF j \in taken THEN s ELSE @[j]]]
    IN  IF s = me THEN v
        ELSE IF (\E j \in taken : v.owner[j] = curmaster) /\ SlotsOf(w, curmaster) = {}
             THEN SetMaster(w, me, s) ELSE w

\* clusterDelNodeSlots
DelNodeSlots(v, n) == [v EXCEPT !.owner = [j \in Slots |-> IF @[j] = n THEN Null ELSE @[j]]]

----------------------------------------------------------------------------
(* Packets.                                                                *)

\* clusterBuildMessageHdr: a slave tells the slots and config epoch of its master.
BuildMessageHdr(v, n) ==
    LET master == IF nodeIsMaster(v, n) THEN n ELSE v.slaveof[n]
    IN  [from |-> n, cur |-> v.cur, cepoch |-> v.cepoch[master], slots |-> SlotsOf(v, master),
         slaveof |-> v.slaveof[n], suspects |-> {m \in Nodes : v.flag[m] # "ok"}]

\* clusterProcessPacket, every type: the greater epochs are kept.
ProcessHdr(v, h) ==
    [v EXCEPT !.cur = Greater(@, h.cur), !.cepoch[h.from] = Greater(@, h.cepoch)]

\* clusterProcessPacket, PONG: its sender is reachable.
ProcessPong(v, s, old) ==
    CASE v.flag[s] = "pfail" -> [v EXCEPT !.flag[s] = "ok"]
      [] v.flag[s] = "fail"  -> ClearNodeFailureIfNeeded(v, s, old)
      [] OTHER -> v

\* clusterProcessPacket: a node that changed its role, or its master.
RoleSwitch(v, h) ==
    IF h.slaveof = Null THEN SetNodeAsMaster(v, h.from)
    ELSE LET w == IF nodeIsMaster(v, h.from) THEN DelNodeSlots(v, h.from) ELSE v
         IN  [w EXCEPT !.slaveof[h.from] = h.slaveof]

\* clusterProcessPacket, PING and PONG up to the gossip section: the epochs, the
\* role, then the slots of the sender.
ProcessConfig(v, me, h, pong, old) ==
    LET v1 == ProcessHdr(v, h)
        v2 == IF pong THEN ProcessPong(v1, h.from, old) ELSE v1
        v3 == RoleSwitch(v2, h)
        master == IF nodeIsMaster(v3, h.from) THEN h.from ELSE v3.slaveof[h.from]
        dirty == SlotsOf(v3, master) # h.slots
        v4 == IF dirty /\ nodeIsMaster(v3, h.from)
              THEN UpdateSlotsConfigWith(v3, me, h.from, h.cepoch, h.slots) ELSE v3
        old_slots == {j \in h.slots : v4.owner[j] \notin {h.from, Null} /\ v4.cepoch[v4.owner[j]] > h.cepoch}
    IN  [view |-> IF nodeIsMaster(v4, me) /\ nodeIsMaster(v4, h.from) /\ h.cepoch = v4.cepoch[me]
                  THEN HandleConfigEpochCollision(v4, me, h.from) ELSE v4,
         update |-> IF dirty /\ old_slots # {} THEN v4.owner[Min(old_slots)] ELSE Null]

\* clusterProcessPacket, UPDATE from s, whose view is w, about node n.
ProcessUpdate(v, me, s, w, n) ==
    LET v1 == ProcessHdr(v, BuildMessageHdr(w, s))
    IN  IF v1.cepoch[n] >= w.cepoch[n] THEN v1
        ELSE UpdateSlotsConfigWith([SetNodeAsMaster(v1, n) EXCEPT !.cepoch[n] = w.cepoch[n]],
                                   me, n, w.cepoch[n], SlotsOf(w, n))

\* clusterProcessPacket, FAIL about each node of failed.
ProcessFail(v, me, h, failed) == Fail(ProcessHdr(v, h), failed \ {me})

\* n receives a PING or a PONG of s.  An UPDATE goes back to s and a FAIL message
\* to the nodes in `told', each received or lost.
Receive(s, n) ==
    /\ Reachable(s, n)
    /\ \E pong \in IF node[n].flag[s] = "ok" THEN {TRUE} ELSE BOOLEAN,
          old \in IF node[n].flag[s] = "fail" THEN BOOLEAN ELSE {FALSE},
          about \in IF nodeIsMaster(node[s], s) THEN SUBSET (Failing \ {s, n}) ELSE {{}} :
        \E p \in {ProcessConfig(node[n], n, BuildMessageHdr(node[s], s), pong, old)} :
        \E w \in {ProcessGossipSection(p.view, n, BuildMessageHdr(node[s], s), about)} :
        LET failed == IF nodeIsMaster(w, n)
                      THEN {m \in Nodes : p.view.flag[m] = "pfail" /\ w.flag[m] = "fail"} ELSE {}
        IN  \E updated \in IF p.update = Null THEN {FALSE} ELSE BOOLEAN,
               told \in SUBSET {m \in Nodes : failed # {} /\ Reachable(n, m)} :
                node' = [m \in Nodes |->
                    LET v == IF m = s /\ updated
                             THEN ProcessUpdate(node[m], m, n, p.view, p.update) ELSE node[m]
                    IN  IF m = n THEN w
                        ELSE IF m \in told THEN ProcessFail(v, m, BuildMessageHdr(w, n), failed)
                        ELSE v]
    /\ BeforeSleep({})
    /\ UNCHANGED <<asked, cut, may, elected>>

----------------------------------------------------------------------------
(* Failover.                                                               *)

\* Variant: the slots are claimed by a node that stays a slave.
ClaimSlotsOnly(v, me) ==
    LET slots == SlotsOf(v, v.slaveof[me])
    IN  [v EXCEPT !.owner = [j \in Slots |-> IF j \in slots THEN me ELSE @[j]], !.mf = FALSE]

\* clusterFailoverReplaceYourMaster
FailoverReplaceYourMaster(v, me) ==
    LET slots == SlotsOf(v, v.slaveof[me])
    IN  [SetNodeAsMaster(v, me) EXCEPT !.owner = [j \in Slots |-> IF j \in slots THEN me ELSE @[j]],
                                       !.mf = FALSE]

\* clusterHandleSlaveFailover: a slave has a reason to fail over.
MayFailover(v, me) ==
    /\ ~nodeIsMaster(v, me)
    /\ v.flag[v.slaveof[me]] = "fail" \/ v.mf
    /\ SlotsOf(v, v.slaveof[me]) # {}

\* Its three steps.  A new election is set up once the last one is old enough.
SetupElection(v) == [v EXCEPT !.auth.count = 0, !.auth.sent = FALSE]

StartElection(v) ==
    [v EXCEPT !.cur = @ + 1, !.auth = [@ EXCEPT !.epoch = v.cur + 1, !.sent = TRUE]]

ElectionWon(v, me) ==
    /\ MayFailover(v, me) /\ v.auth.sent
    /\ v.auth.count >= NeededQuorum(v)

WinElection(v, me) ==
    FailoverReplaceYourMaster([v EXCEPT !.cepoch[me] = Greater(@, v.auth.epoch)], me)

NoRequest == [to |-> {}, epoch |-> 0, cepoch |-> 0, slots |-> {}, force |-> FALSE]

\* clusterCron: who cannot be reached times out.  What a node that is cut off
\* thinks of the others has no effect here and is left out.
NodesTimeOut(n) ==
    LET late == {m \in Failing : m # n /\ ~Reachable(n, m) /\ node[n].flag[m] = "ok"}
    IN  /\ late # {}
        /\ node' = [node EXCEPT ![n].flag = [m \in Nodes |-> IF m \in late THEN "pfail" ELSE @[m]]]
        /\ UNCHANGED <<asked, disk, cut, may, elected>>

\* clusterCron and clusterHandleSlaveFailover, one action per branch taken.
CronSetupElection(n) ==
    /\ MayFailover(node[n], n) /\ node[n].auth.sent
    /\ node' = [node EXCEPT ![n] = SetupElection(@)]
    /\ asked' = [asked EXCEPT ![n] = NoRequest]
    /\ UNCHANGED <<disk, cut, may, elected>>

\* clusterRequestFailoverAuth: the request goes to every node there is a link to,
\* flagged FORCEACK in a manual failover; who has no vote learns no more from it
\* than from a ping.
CronStartElection(n) ==
    /\ MayFailover(node[n], n) /\ ~node[n].auth.sent /\ node[n].cur < MaxEpoch
    /\ node' = [node EXCEPT ![n] = StartElection(@)]
    /\ asked' = [asked EXCEPT ![n] =
           LET h == BuildMessageHdr(node[n], n)
           IN  [to |-> {m \in Voters(node[n]) : Reachable(n, m)}, epoch |-> node[n].cur + 1,
                cepoch |-> h.cepoch, slots |-> h.slots, force |-> node[n].mf]]
    /\ BeforeSleep({n})
    /\ UNCHANGED <<cut, may, elected>>

CronWinElection(n) ==
    /\ ElectionWon(node[n], n)
    /\ node' = [node EXCEPT ![n] = WinElection(@, n)]
    /\ elected' = elected \cup {<<node[n].auth.epoch, n>>}
    /\ BeforeSleep({n})
    /\ UNCHANGED <<asked, cut, may>>

\* Variant: the vote is given without a look at the last one.
VoteAgain(v, me, s, r) ==
    /\ nodeIsMaster(v, me) /\ SlotsOf(v, me) # {}
    /\ r.epoch >= v.cur
    /\ ~nodeIsMaster(v, s)
    /\ v.flag[v.slaveof[s]] = "fail" \/ r.force

\* clusterSendFailoverAuthIfNeeded: whether this node votes for the slave s.
MayVote(v, me, s, r) ==
    /\ nodeIsMaster(v, me) /\ SlotsOf(v, me) # {}
    /\ r.epoch >= v.cur
    /\ v.vote # v.cur
    /\ ~nodeIsMaster(v, s)
    /\ v.flag[v.slaveof[s]] = "fail" \/ r.force
    /\ \A j \in r.slots : v.owner[j] # Null => v.cepoch[v.owner[j]] <= r.cepoch

\* clusterProcessPacket, FAILOVER_AUTH_ACK: the vote of s counts.
CountVote(v, s, cur) ==
    IF nodeIsMaster(v, s) /\ SlotsOf(v, s) # {} /\ cur >= v.auth.epoch
    THEN [v EXCEPT !.auth.count = @ + 1] ELSE v

\* clusterBeforeSleep, CLUSTER_TODO_HANDLE_FAILOVER: the vote may be the last one
\* needed.
HandleVote(v, me) == IF ElectionWon(v, me) THEN WinElection(v, me) ELSE v

\* n receives the request of s.  That it voted about the same master not long ago
\* makes it refuse; its answer may be lost, or too late.
ReceiveAuthRequest(s, n) ==
    LET r == asked[s]
        v == ProcessHdr(node[n], [from |-> s, cur |-> r.epoch, cepoch |-> r.cepoch])
    IN  /\ n \in r.to /\ Reachable(s, n)
        /\ asked' = [asked EXCEPT ![s].to = @ \ {n}]
        /\ \/ /\ MayVote(v, n, s, r)
              /\ LET w == [v EXCEPT !.vote = v.cur]
                     c == CountVote(ProcessHdr(node[s], BuildMessageHdr(w, n)), n, w.cur)
                 IN  \E acked \in BOOLEAN :
                      /\ node' = [node EXCEPT ![n] = w, ![s] = IF acked THEN HandleVote(c, s) ELSE @]
                      /\ elected' = IF acked /\ ElectionWon(c, s) THEN elected \cup {<<c.auth.epoch, s>>} ELSE elected
           \/ node' = [node EXCEPT ![n] = v] /\ elected' = elected
        /\ BeforeSleep({})
        /\ UNCHANGED <<cut, may>>

----------------------------------------------------------------------------
(* What the operator and the world do.                                     *)

Disturb(d) == may[d] > 0 /\ may' = [may EXCEPT ![d] = @ - 1]

\* CLUSTER FAILOVER TAKEOVER
Takeover(n) ==
    /\ Disturb("takeover") /\ ~nodeIsMaster(node[n], n) /\ node[n].cur < MaxEpoch
    /\ node' = [node EXCEPT ![n] = FailoverReplaceYourMaster(BumpConfigEpochWithoutConsensus(@, n), n)]
    /\ BeforeSleep({n})
    /\ UNCHANGED <<asked, cut, elected>>

\* CLUSTER FAILOVER FORCE
ForceFailover(n) ==
    /\ Disturb("force") /\ ~nodeIsMaster(node[n], n) /\ ~node[n].mf
    /\ node' = [node EXCEPT ![n].mf = TRUE]
    /\ UNCHANGED <<asked, disk, cut, elected>>

\* manualFailoverCheckTimeout
ManualFailoverTimesOut(n) ==
    /\ node[n].mf
    /\ node' = [node EXCEPT ![n].mf = FALSE]
    /\ UNCHANGED <<asked, disk, cut, may, elected>>

\* A crash and the restart from nodes.conf.
Restart(n) ==
    /\ Disturb("restart")
    /\ node' = [node EXCEPT ![n] = LoadConfig(disk[n])]
    /\ asked' = [asked EXCEPT ![n] = NoRequest]
    /\ UNCHANGED <<disk, cut, elected>>

Cut(n) ==
    /\ Disturb("cut") /\ n \notin cut
    /\ cut' = cut \cup {n}
    /\ UNCHANGED <<node, asked, disk, elected>>

Heal(n) ==
    /\ n \in cut /\ cut' = cut \ {n}
    /\ UNCHANGED <<node, asked, disk, may, elected>>

----------------------------------------------------------------------------
\* A cluster that has settled: masters have their own config epochs, and a slave
\* is known with that of its master.
Conf0(t, me) ==
    [cur |-> Max({t.epoch[n] : n \in Nodes}), vote |-> 0, slaveof |-> t.master,
     cepoch |-> [n \in Nodes |-> t.epoch[IF t.master[n] = Null \/ n = me THEN n ELSE t.master[n]]],
     owner |-> t.owner, flag |-> [n \in Nodes |-> "ok"]]

Init ==
    /\ \E t \in Scenarios :
          /\ may = t.may
          /\ node = [n \in Nodes |-> LoadConfig(Conf0(t, n))]
          /\ disk = [n \in Crashers |-> Conf0(t, n)]
    /\ asked = [n \in Nodes |-> NoRequest]
    /\ cut = {} /\ elected = {}

Step(n) ==
    \/ NodesTimeOut(n) \/ CronSetupElection(n) \/ CronStartElection(n) \/ CronWinElection(n)
    \/ Takeover(n) \/ ForceFailover(n) \/ ManualFailoverTimesOut(n)

Next ==
    \/ \E s, n \in Nodes : Receive(s, n) \/ ReceiveAuthRequest(s, n)
    \/ \E n \in Nodes : Step(n)
    \/ \E n \in Crashers : Restart(n)
    \/ \E n \in Failing : Cut(n) \/ Heal(n)

Spec == Init /\ [][Next]_vars

----------------------------------------------------------------------------
(* Properties.                                                             *)

Views == [cur : Nat, vote : Nat, slaveof : [Nodes -> Nodes \cup {Null}], cepoch : [Nodes -> Nat],
          owner : [Slots -> Nodes \cup {Null}], flag : [Nodes -> {"ok", "pfail", "fail"}],
          reports : [Nodes -> SUBSET Nodes],
          auth : [epoch : Nat, count : Nat, sent : BOOLEAN], mf : BOOLEAN]

\* What a node keeps has its type, it never suspects itself, and no config epoch
\* it knows is beyond its current epoch.
TypeOK ==
    /\ \A n \in Nodes : node[n] \in Views /\ node[n].flag[n] = "ok" /\ GetMaxEpoch(node[n]) = node[n].cur
    /\ cut \subseteq Failing /\ may \in [Disturbances -> Nat]

\* "It is not possible that different slaves get the same config epoch during a
\* failover election, because the slaves need to get voted by a majority."
\* (cluster.c, clusterHandleConfigEpochCollision)
ElectedOnce == \A a, b \in elected : a[1] = b[1] => a[2] = b[2]

\* The assertion of clusterSetMaster: a node that is made a slave by the claim of
\* a newer configuration, or made the slave of another master, serves no slots; and
\* every node's table is of its type.
SlaveServesNoSlots == TypeOK /\ \A n \in Nodes : ~nodeIsMaster(node[n], n) => SlotsOf(node[n], n) = {}

\* Nothing that the nodes could tell each other would be news.
Settled ==
    /\ cut = {}
    /\ \A s, n \in Nodes : s # n =>
         LET p == ProcessConfig(node[n], n, BuildMessageHdr(node[s], s), FALSE, FALSE)
         IN  /\ p.view = node[n]
             /\ p.update # Null => ProcessUpdate(node[s], s, n, p.view, p.update) = node[s]

\* "we want a system that eventually always ends with different masters having
\* different configuration epochs whatever happened" (cluster.c): when no packet
\* changes anything any more, the nodes agree about slots and roles, every slot
\* is served, and masters differ in their config epochs.
SettledAgreement ==
    Settled =>
        /\ \A n, m \in Nodes : node[n].owner = node[m].owner /\ node[n].slaveof = node[m].slaveof
        /\ \A n \in Nodes, j \in Slots : nodeIsMaster(node[n], node[n].owner[j])
        /\ \A n, m \in Nodes : nodeIsMaster(node[n], n) /\ nodeIsMaster(node[m], m) /\ n # m
                                  => node[n].cepoch[n] # node[m].cepoch[m]
=============================================================================
