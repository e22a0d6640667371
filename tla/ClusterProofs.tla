---------------------------- MODULE ClusterProofs ----------------------------
(***************************************************************************)
(* Theorems about Cluster, for every set of nodes, every number of slots,  *)
(* every scenario with masters, slaves and config epochs, and any number   *)
(* of partitions, restarts, takeovers and forced failovers.                *)
(***************************************************************************)
EXTENDS Cluster, FiniteSetTheorems, WellFoundedInduction, TLAPS

-----------------------------------------------------------------------------
(* The inductive invariant.                                                *)

\* What node `me' knows: no epoch is beyond the current one, not even that of its
\* election, and a slave serves no slots.
ViewOK(me, v) ==
    /\ v \in Views /\ v.flag[me] = "ok"
    /\ \A n \in Nodes : v.cepoch[n] <= v.cur
    /\ v.auth.epoch <= v.cur
    /\ v.slaveof[me] # Null => \A j \in Slots : v.owner[j] # me

Confs == [cur : Nat, vote : Nat, slaveof : [Nodes -> Nodes \cup {Null}], cepoch : [Nodes -> Nat],
          owner : [Slots -> Nodes \cup {Null}], flag : [Nodes -> {"ok", "pfail", "fail"}]]

\* The same of what it has saved.
ConfOK(me, d) ==
    /\ d \in Confs /\ d.flag[me] = "ok"
    /\ d.slaveof[me] # Null => \A j \in Slots : d.owner[j] # me

\* A request for votes is for an epoch beyond the config epoch it claims.
RequestOK(r) ==
    /\ r.to \subseteq Nodes /\ r.epoch \in Nat /\ r.cepoch \in Nat /\ r.cepoch <= r.epoch

IInv ==
    /\ node = [n \in Nodes |-> node[n]] /\ \A n \in Nodes : ViewOK(n, node[n])
    /\ disk = [n \in Crashers |-> disk[n]] /\ \A n \in Crashers : ConfOK(n, disk[n])
    /\ asked = [n \in Nodes |-> asked[n]] /\ \A n \in Nodes : RequestOK(asked[n])
    /\ cut \subseteq Failing /\ may \in [Disturbances -> Nat]

-----------------------------------------------------------------------------
(* Greatest epochs.                                                        *)

LEMMA NullIsNoNode == Null \notin Nodes
  BY NodesAssumption DEF Null

\* A finite set of naturals has a greatest element: of the sets without one there
\* would be a smallest, which has one less element without one.
LEMMA MaxOfNaturals ==
    ASSUME NEW S \in SUBSET Nat, IsFiniteSet(S), S # {}
    PROVE  Max(S) \in S /\ \A y \in S : Max(S) >= y
  <1> DEFINE HasMax(A) == \E x \in A : \A y \in A : x >= y
             T == {A \in FiniteSubsetsOf(S) : A # {} /\ ~HasMax(A)}
  <1>1. S \in FiniteSubsetsOf(S)
    BY DEF FiniteSubsetsOf
  <1>2. T = {}
    <2> SUFFICES ASSUME T # {} PROVE FALSE
      OBVIOUS
    <2>1. PICK A \in T : \A B \in T : ~(<<B, A>> \in StrictSubsetOrdering(S))
      BY FS_StrictSubsetOrderingWellFounded, WFMin
    <2>2. A \subseteq S /\ IsFiniteSet(A) /\ A # {} /\ ~HasMax(A)
      BY DEF FiniteSubsetsOf
    <2>3. PICK a \in A : TRUE
      BY <2>2
    <2> DEFINE B == A \ {a}
    <2>4. B \in FiniteSubsetsOf(S) /\ <<B, A>> \in StrictSubsetOrdering(S)
      BY <2>2, <2>3, FS_RemoveElement DEF FiniteSubsetsOf, StrictSubsetOrdering
    <2>5. B = {} \/ HasMax(B)
      BY <2>1, <2>4
    <2>6. CASE B = {}
      BY <2>2, <2>3, <2>6
    <2>7. CASE HasMax(B)
      <3>1. PICK b \in B : \A y \in B : b >= y
        BY <2>7
      <3>2. a \in Nat /\ b \in Nat /\ A \subseteq Nat
        BY <2>2, <3>1
      <3>3. CASE a >= b
        BY <2>2, <3>1, <3>2, <3>3
      <3>4. CASE b > a
        BY <2>2, <3>1, <3>2, <3>4
      <3> QED BY <3>2, <3>3, <3>4
    <2> QED BY <2>5, <2>6, <2>7
  <1>3. HasMax(S)
    BY <1>1, <1>2
  <1> QED BY <1>3 DEF Max

LEMMA LeastOfNaturals ==
    ASSUME NEW S \in SUBSET Nat, S # {}
    PROVE  Min(S) \in S
  <1> DEFINE R == OpToRel(<, Nat)
  <1>1. IsWellFoundedOn(R, Nat)
    BY NatLessThanWellFounded
  <1>2. \A x, y \in Nat : <<x, y>> \in R <=> x < y
    BY DEF OpToRel
  <1> HIDE DEF R
  <1>3. PICK x \in S : \A y \in S : ~(<<y, x>> \in R)
    BY <1>1, WFMin
  <1>4. \A y \in S : x <= y
    <2> SUFFICES ASSUME NEW y \in S PROVE x <= y
      OBVIOUS
    <2>1. x \in Nat /\ y \in Nat
      OBVIOUS
    <2>2. ~(y < x)
      BY <1>2, <1>3, <2>1
    <2> QED BY <2>1, <2>2
  <1> QED BY <1>4 DEF Min

LEMMA MaxOfEpochs ==
    ASSUME NEW f \in [Nodes -> Nat]
    PROVE  LET m == Max({f[n] : n \in Nodes}) IN m \in Nat /\ \A n \in Nodes : f[n] <= m
  <1> DEFINE S == {f[n] : n \in Nodes}
  <1>1. S \in SUBSET Nat /\ S # {}
    BY NodesAssumption
  <1>2. IsFiniteSet(S)
    <2>1. f \in Surjection(Nodes, S)
      BY DEF Surjection
    <2> QED BY <2>1, NodesAssumption, FS_Surjection
  <1>3. Max(S) \in S /\ \A y \in S : Max(S) >= y
    BY <1>1, <1>2, MaxOfNaturals
  <1> HIDE DEF S
  <1>4. Max(S) \in Nat /\ \A y \in S : y <= Max(S)
    BY <1>1, <1>3
  <1>5. \A n \in Nodes : f[n] \in S
    BY DEF S
  <1> QED BY <1>4, <1>5 DEF S

\* The greatest epoch a node knows is its current one.
LEMMA GetMaxEpochIsCurrent ==
    ASSUME NEW v \in Views, \A n \in Nodes : v.cepoch[n] <= v.cur
    PROVE  GetMaxEpoch(v) = v.cur
  <1> DEFINE S == {v.cepoch[n] : n \in Nodes} \cup {v.cur}
  <1>1. v.cur \in S /\ \A y \in S : y \in Nat /\ y <= v.cur
    BY DEF Views
  <1>2. GetMaxEpoch(v) = CHOOSE x \in S : \A y \in S : x >= y
    BY DEF GetMaxEpoch, Max
  <1> HIDE DEF S
  <1>3. v.cur \in Nat
    BY DEF Views
  <1>4. \A y \in S : v.cur >= y
    BY <1>1, <1>3
  <1>5. \E x \in S : \A y \in S : x >= y
    BY <1>1, <1>4
  <1>6. GetMaxEpoch(v) \in S /\ \A y \in S : GetMaxEpoch(v) >= y
    BY <1>2, <1>5
  <1> QED BY <1>1, <1>3, <1>6

-----------------------------------------------------------------------------
(* What the operators do to the view of node me.                           *)

LEMMA GreaterOfTwo ==
    ASSUME NEW a \in Nat, NEW b \in Nat
    PROVE  Greater(a, b) \in Nat /\ Greater(a, b) >= a /\ Greater(a, b) >= b /\ Greater(a, b) \in {a, b}
  BY DEF Greater

LEMMA LoadConfigView ==
    ASSUME NEW me \in Nodes, NEW d, ConfOK(me, d)
    PROVE  ViewOK(me, LoadConfig(d))
  <1> DEFINE m == Max({d.cepoch[n] : n \in Nodes})
             v == LoadConfig(d)
  <1>1. m \in Nat /\ \A n \in Nodes : d.cepoch[n] <= m
    BY MaxOfEpochs DEF ConfOK, Confs
  <1> HIDE DEF m
  <1>2. Greater(d.cur, m) \in Nat /\ Greater(d.cur, m) >= m
    BY <1>1, GreaterOfTwo DEF ConfOK, Confs
  <1>3. /\ v.cur = Greater(d.cur, m) /\ v.slaveof = d.slaveof /\ v.cepoch = d.cepoch /\ v.owner = d.owner
        /\ v.flag = d.flag /\ v.auth.epoch = 0
    BY DEF LoadConfig, m
  <1>4. v \in Views
    BY <1>2 DEF LoadConfig, m, ConfOK, Confs, Views
  <1> HIDE DEF v
  <1>5. \A n \in Nodes : v.cepoch[n] <= v.cur
    BY <1>1, <1>2, <1>3 DEF ConfOK, Confs
  <1> QED BY <1>2, <1>3, <1>4, <1>5 DEF ViewOK, ConfOK, v

LEMMA SaveConfigConf ==
    ASSUME NEW me \in Nodes, NEW v, ViewOK(me, v)
    PROVE  ConfOK(me, SaveConfig(v))
  BY DEF ViewOK, Views, ConfOK, Confs, SaveConfig

LEMMA NewConfigEpochView ==
    ASSUME NEW me \in Nodes, NEW v, ViewOK(me, v)
    PROVE  ViewOK(me, NewConfigEpoch(v, me))
  <1> DEFINE w == NewConfigEpoch(v, me)
  <1>0. v.cur + 1 \in Nat /\ [v.cepoch EXCEPT ![me] = v.cur + 1] \in [Nodes -> Nat] /\ v \in Views
    BY DEF ViewOK, Views
  <1>1. w \in Views /\ w.cur = v.cur + 1 /\ w.cepoch = [v.cepoch EXCEPT ![me] = v.cur + 1]
        /\ w.flag = v.flag /\ w.auth = v.auth /\ w.slaveof = v.slaveof /\ w.owner = v.owner
    <2> DEFINE c == [v.cepoch EXCEPT ![me] = v.cur + 1]
    <2>1. w = [v EXCEPT !.cur = v.cur + 1, !.cepoch = c]
      BY <1>0 DEF NewConfigEpoch, Views
    <2>2. c \in [Nodes -> Nat]
      BY <1>0
    <2> HIDE DEF c, w
    <2>3. w \in Views /\ w.cur = v.cur + 1 /\ w.cepoch = c /\ w.flag = v.flag /\ w.auth = v.auth
          /\ w.slaveof = v.slaveof /\ w.owner = v.owner
      BY <1>0, <2>1, <2>2 DEF Views
    <2> QED BY <2>3 DEF c
  <1> HIDE DEF w
  <1>2. \A n \in Nodes : w.cepoch[n] <= w.cur
    BY <1>1 DEF ViewOK, Views
  <1>3. w.auth.epoch <= w.cur
    BY <1>1 DEF ViewOK, Views
  <1> QED BY <1>1, <1>2, <1>3 DEF ViewOK, w

LEMMA BumpView ==
    ASSUME NEW me \in Nodes, NEW v, ViewOK(me, v)
    PROVE  /\ ViewOK(me, BumpConfigEpochWithoutConsensus(v, me))
           /\ BumpConfigEpochWithoutConsensus(v, me).slaveof = v.slaveof
  <1>1. NewConfigEpoch(v, me).slaveof = v.slaveof
    BY DEF NewConfigEpoch, ViewOK, Views
  <1> QED BY <1>1, NewConfigEpochView DEF BumpConfigEpochWithoutConsensus

LEMMA CollisionView ==
    ASSUME NEW me \in Nodes, NEW v, ViewOK(me, v), NEW s \in Nodes
    PROVE  ViewOK(me, HandleConfigEpochCollision(v, me, s))
  BY NewConfigEpochView DEF HandleConfigEpochCollision

\* A node never takes itself for failing.
LEMMA FlagView ==
    ASSUME NEW me \in Nodes, NEW v, ViewOK(me, v),
           NEW flag \in [Nodes -> {"ok", "pfail", "fail"}], flag[me] = "ok",
           NEW reports \in [Nodes -> SUBSET Nodes],
           NEW w, w = [v EXCEPT !.flag = flag, !.reports = reports]
    PROVE  ViewOK(me, w)
  <1>1. w \in Views /\ w.cur = v.cur /\ w.cepoch = v.cepoch /\ w.flag = flag /\ w.auth = v.auth
        /\ w.slaveof = v.slaveof /\ w.owner = v.owner
    BY DEF ViewOK, Views
  <1> QED BY <1>1 DEF ViewOK

LEMMA FailView ==
    ASSUME NEW me \in Nodes, NEW v, ViewOK(me, v), NEW failed, me \notin failed
    PROVE  ViewOK(me, Fail(v, failed))
  <1> DEFINE flag == [n \in Nodes |-> IF n \in failed THEN "fail" ELSE v.flag[n]]
             reports == [n \in Nodes |-> IF n \in failed THEN {} ELSE v.reports[n]]
  <1>1. flag \in [Nodes -> {"ok", "pfail", "fail"}] /\ flag[me] = "ok" /\ reports \in [Nodes -> SUBSET Nodes]
    BY DEF ViewOK, Views
  <1> DEFINE w == Fail(v, failed)
  <1>2. w = [v EXCEPT !.flag = flag, !.reports = reports]
    BY DEF Fail
  <1> HIDE DEF flag, reports, w
  <1>3. ViewOK(me, w)
    BY <1>1, <1>2, FlagView
  <1> QED BY <1>3 DEF w

\* What is said of a node changes its flag and the reports about it.
LEMMA GossipAboutOne ==
    ASSUME NEW me \in Nodes, NEW v, ViewOK(me, v), NEW h, h.from \in Nodes, NEW n \in Nodes
    PROVE  LET w == GossipAbout(v, me, h, n) IN
           w.flag[n] \in {"ok", "pfail", "fail"} /\ w.reports[n] \in SUBSET Nodes
  <1>0. v.flag[n] \in {"ok", "pfail", "fail"} /\ v.reports[n] \in SUBSET Nodes /\ v.reports \in [Nodes -> SUBSET Nodes]
        /\ v.flag \in [Nodes -> {"ok", "pfail", "fail"}]
    BY DEF ViewOK, Views
  <1> DEFINE a == AddFailureReport(v, n, h.from)
             d == DelFailureReport(v, n, h.from)
             m == MarkNodeAsFailingIfNeeded(a, me, n)
  <1>1. a.flag = v.flag /\ a.reports \in [Nodes -> SUBSET Nodes]
    BY <1>0 DEF AddFailureReport, ViewOK, Views
  <1>2. d.flag = v.flag /\ d.reports \in [Nodes -> SUBSET Nodes]
    BY <1>0 DEF DelFailureReport, ViewOK, Views
  <1>3. Fail(a, {n}).flag[n] = "fail" /\ Fail(a, {n}).reports[n] = {}
    <2>1. a \in Views
      BY <1>0 DEF AddFailureReport, ViewOK, Views
    <2> HIDE DEF a
    <2> QED BY <2>1 DEF Fail, Views
  <1>4. m = Fail(a, {n}) \/ m = a
    BY DEF MarkNodeAsFailingIfNeeded
  <1>5. GossipAbout(v, me, h, n) = m \/ GossipAbout(v, me, h, n) = d
    BY DEF GossipAbout
  <1> HIDE DEF a, d, m
  <1> QED BY <1>0, <1>1, <1>2, <1>3, <1>4, <1>5

LEMMA GossipView ==
    ASSUME NEW me \in Nodes, NEW v, ViewOK(me, v), NEW h, h.from \in Nodes, NEW about \in SUBSET Nodes
    PROVE  ViewOK(me, ProcessGossipSection(v, me, h, about))
  <1> DEFINE others == about \ {me, h.from}
             flag == [n \in Nodes |-> IF n \in others THEN GossipAbout(v, me, h, n).flag[n] ELSE v.flag[n]]
             reports == [n \in Nodes |-> IF n \in others THEN GossipAbout(v, me, h, n).reports[n] ELSE v.reports[n]]
  <1>1. flag \in [Nodes -> {"ok", "pfail", "fail"}] /\ reports \in [Nodes -> SUBSET Nodes]
    BY GossipAboutOne DEF ViewOK, Views
  <1>2. flag[me] = "ok"
    BY DEF ViewOK
  <1> DEFINE w == ProcessGossipSection(v, me, h, about)
  <1>3. w = v \/ w = [v EXCEPT !.flag = flag, !.reports = reports]
    BY DEF ProcessGossipSection
  <1> HIDE DEF flag, reports, w
  <1>4. ViewOK(me, w)
    BY <1>1, <1>2, <1>3, FlagView
  <1> QED BY <1>4 DEF w

\* Slots that others take leave a slave without slots.
LEMMA OwnerView ==
    ASSUME NEW me \in Nodes, NEW v, ViewOK(me, v),
           NEW owner \in [Slots -> Nodes \cup {Null}], \A j \in Slots : owner[j] = me => v.owner[j] = me,
           NEW w, w = [v EXCEPT !.owner = owner]
    PROVE  ViewOK(me, w) /\ w.slaveof = v.slaveof /\ w.owner = owner /\ w.cur = v.cur /\ w.cepoch = v.cepoch
  <1>1. w \in Views /\ w.cur = v.cur /\ w.cepoch = v.cepoch /\ w.flag = v.flag /\ w.auth = v.auth
        /\ w.slaveof = v.slaveof /\ w.owner = owner
    BY DEF ViewOK, Views
  <1> QED BY <1>1 DEF ViewOK

LEMMA SetMasterView ==
    ASSUME NEW me \in Nodes, NEW v, ViewOK(me, v), SlotsOf(v, me) = {}, NEW s \in Nodes
    PROVE  ViewOK(me, SetMaster(v, me, s))
  <1> DEFINE w == SetMaster(v, me, s)
             f == [v.slaveof EXCEPT ![me] = s]
  <1>1. f \in [Nodes -> Nodes \cup {Null}] /\ v \in Views
    BY DEF ViewOK, Views
  <1>2. w = [v EXCEPT !.slaveof = f, !.mf = FALSE]
    BY DEF SetMaster
  <1> HIDE DEF f, w
  <1>3. w \in Views /\ w.cur = v.cur /\ w.cepoch = v.cepoch /\ w.flag = v.flag /\ w.auth = v.auth
        /\ w.slaveof = f /\ w.owner = v.owner
    BY <1>1, <1>2 DEF Views
  <1>4. ViewOK(me, w)
    BY <1>3 DEF ViewOK, SlotsOf
  <1> QED BY <1>4 DEF w

\* clusterUpdateSlotsConfigWith: who loses its last slot has none when it is made
\* a slave, as clusterSetMaster asserts.
LEMMA UpdateSlotsView ==
    ASSUME NEW me \in Nodes, NEW v, ViewOK(me, v), NEW s \in Nodes, NEW epoch, NEW slots
    PROVE  ViewOK(me, UpdateSlotsConfigWith(v, me, s, epoch, slots))
  <1> DEFINE curmaster == IF nodeIsMaster(v, me) THEN me ELSE v.slaveof[me]
             taken == {j \in slots : v.owner[j] # s /\ Newer(v, j, epoch)}
             owner == [j \in Slots |-> IF j \in taken THEN s ELSE v.owner[j]]
             w == [v EXCEPT !.owner = owner]
  <1>1. CASE s = me
    BY <1>1 DEF UpdateSlotsConfigWith
  <1>2. CASE s # me
    <2>1. owner \in [Slots -> Nodes \cup {Null}] /\ \A j \in Slots : owner[j] = me => v.owner[j] = me
      BY <1>2 DEF ViewOK, Views
    <2>2. UpdateSlotsConfigWith(v, me, s, epoch, slots) \in
            {w, IF SlotsOf(w, curmaster) = {} THEN SetMaster(w, me, s) ELSE w}
      BY <1>2 DEF UpdateSlotsConfigWith
    <2> HIDE DEF owner, taken
    <2>3. ViewOK(me, w) /\ w.slaveof = v.slaveof /\ w.owner = owner
      <3> DEFINE x == w
      <3>1. x = [v EXCEPT !.owner = owner]
        OBVIOUS
      <3> HIDE DEF x, w
      <3>2. ViewOK(me, x) /\ x.slaveof = v.slaveof /\ x.owner = owner
        BY <2>1, <3>1, OwnerView
      <3> QED BY <3>2 DEF x
    <2> HIDE DEF w
    <2>4. ASSUME SlotsOf(w, curmaster) = {} PROVE SlotsOf(w, me) = {}
      <3>1. CASE nodeIsMaster(v, me)
        BY <2>4, <3>1
      <3>2. CASE ~nodeIsMaster(v, me)
        BY <2>3, <3>2 DEF nodeIsMaster, ViewOK, SlotsOf
      <3> QED BY <3>1, <3>2
    <2>5. SlotsOf(w, curmaster) = {} => ViewOK(me, SetMaster(w, me, s))
      BY <2>3, <2>4, SetMasterView
    <2> QED BY <2>2, <2>3, <2>5
  <1> QED BY <1>1, <1>2

\* The role of another node is no affair of this one's slots.
LEMMA OthersRoleView ==
    ASSUME NEW me \in Nodes, NEW v, ViewOK(me, v), NEW n \in Nodes \ {me}, NEW master \in Nodes \cup {Null},
           NEW w, w = [v EXCEPT !.slaveof[n] = master]
    PROVE  ViewOK(me, w) /\ w.cur = v.cur /\ w.cepoch = v.cepoch /\ w.owner = v.owner
  <1> DEFINE f == [v.slaveof EXCEPT ![n] = master]
  <1>1. f \in [Nodes -> Nodes \cup {Null}] /\ f[me] = v.slaveof[me] /\ v \in Views
    BY DEF ViewOK, Views
  <1>2. w = [v EXCEPT !.slaveof = f]
    OBVIOUS
  <1> HIDE DEF f
  <1>3. w \in Views /\ w.cur = v.cur /\ w.cepoch = v.cepoch /\ w.flag = v.flag /\ w.auth = v.auth
        /\ w.slaveof = f /\ w.owner = v.owner
    BY <1>1, <1>2 DEF Views
  <1> QED BY <1>1, <1>3 DEF ViewOK

\* What a node says of itself.
HdrOK(h) ==
    /\ h.from \in Nodes /\ h.cur \in Nat /\ h.cepoch \in Nat /\ h.cepoch <= h.cur

LEMMA BuildMessageHdrOK ==
    ASSUME NEW n \in Nodes, NEW v, ViewOK(n, v)
    PROVE  /\ HdrOK(BuildMessageHdr(v, n)) /\ BuildMessageHdr(v, n).slaveof \in Nodes \cup {Null}
           /\ BuildMessageHdr(v, n).from = n /\ BuildMessageHdr(v, n).cur = v.cur
  <1> DEFINE master == IF nodeIsMaster(v, n) THEN n ELSE v.slaveof[n]
  <1>1. master \in Nodes
    BY DEF nodeIsMaster, ViewOK, Views
  <1> HIDE DEF master
  <1>2. /\ BuildMessageHdr(v, n).from = n /\ BuildMessageHdr(v, n).cur = v.cur
        /\ BuildMessageHdr(v, n).cepoch = v.cepoch[master] /\ BuildMessageHdr(v, n).slaveof = v.slaveof[n]
    BY DEF BuildMessageHdr, master
  <1> QED BY <1>1, <1>2 DEF HdrOK, ViewOK, Views

LEMMA ProcessHdrView ==
    ASSUME NEW me \in Nodes, NEW v, ViewOK(me, v), NEW h, HdrOK(h)
    PROVE  LET w == ProcessHdr(v, h) IN
           ViewOK(me, w) /\ w.cur >= h.cur /\ w.auth = v.auth /\ w.slaveof = v.slaveof /\ w.owner = v.owner
  <1> DEFINE w == ProcessHdr(v, h)
             f == [v.cepoch EXCEPT ![h.from] = Greater(@, h.cepoch)]
             c == Greater(v.cur, h.cur)
  <1>0. v \in Views /\ v.cur \in Nat /\ v.cepoch \in [Nodes -> Nat] /\ v.auth.epoch \in Nat
    BY DEF ViewOK, Views
  <1>1. c \in Nat /\ c >= v.cur /\ c >= h.cur
    BY <1>0, GreaterOfTwo DEF HdrOK
  <1>2. /\ f \in [Nodes -> Nat] /\ f[h.from] \in {v.cepoch[h.from], h.cepoch}
        /\ \A n \in Nodes \ {h.from} : f[n] = v.cepoch[n]
    BY <1>0, GreaterOfTwo DEF HdrOK
  <1>3. w = [v EXCEPT !.cur = c, !.cepoch = f]
    BY DEF ProcessHdr
  <1> HIDE DEF c, f, w
  <1>4. w \in Views /\ w.cur = c /\ w.cepoch = f /\ w.flag = v.flag /\ w.auth = v.auth
        /\ w.slaveof = v.slaveof /\ w.owner = v.owner
    BY <1>0, <1>1, <1>2, <1>3 DEF Views
  <1>5. ASSUME NEW n \in Nodes PROVE w.cepoch[n] <= w.cur
    <2>1. f[n] \in {v.cepoch[n], h.cepoch} /\ v.cepoch[n] <= v.cur /\ v.cepoch[n] \in Nat
      BY <1>0, <1>2 DEF ViewOK
    <2> QED BY <1>0, <1>1, <1>4, <2>1 DEF HdrOK
  <1>6. w.auth.epoch <= w.cur
    <2>1. v.auth.epoch <= v.cur
      BY DEF ViewOK
    <2> QED BY <1>0, <1>1, <1>4, <2>1
  <1>7. ViewOK(me, w)
    BY <1>4, <1>5, <1>6 DEF ViewOK
  <1> QED BY <1>1, <1>4, <1>7 DEF w

LEMMA PongView ==
    ASSUME NEW me \in Nodes, NEW v, ViewOK(me, v), NEW s \in Nodes \ {me}, NEW old
    PROVE  ViewOK(me, ProcessPong(v, s, old))
  <1> DEFINE w == [v EXCEPT !.flag[s] = "ok"]
             flag == [v.flag EXCEPT ![s] = "ok"]
  <1>1. ProcessPong(v, s, old) \in {v, w}
    <2>1. CASE v.flag[s] = "pfail"
      BY <2>1 DEF ProcessPong
    <2>2. CASE v.flag[s] = "fail"
      BY <2>2 DEF ProcessPong, ClearNodeFailureIfNeeded
    <2>3. CASE v.flag[s] \notin {"pfail", "fail"}
      BY <2>3 DEF ProcessPong
    <2> QED BY <2>1, <2>2, <2>3
  <1>2. v \in Views /\ flag \in [Nodes -> {"ok", "pfail", "fail"}] /\ flag[me] = "ok"
    BY DEF ViewOK, Views
  <1>3. w = [v EXCEPT !.flag = flag]
    OBVIOUS
  <1> HIDE DEF w, flag
  <1>4. w \in Views /\ w.cur = v.cur /\ w.cepoch = v.cepoch /\ w.flag = flag /\ w.auth = v.auth
        /\ w.slaveof = v.slaveof /\ w.owner = v.owner
    BY <1>2, <1>3 DEF Views
  <1>5. ViewOK(me, w)
    BY <1>2, <1>4 DEF ViewOK
  <1> QED BY <1>1, <1>5

LEMMA RoleSwitchView ==
    ASSUME NEW me \in Nodes, NEW v, ViewOK(me, v), NEW h, h.from \in Nodes \ {me}, h.slaveof \in Nodes \cup {Null}
    PROVE  ViewOK(me, RoleSwitch(v, h))
  <1> DEFINE owner == [j \in Slots |-> IF v.owner[j] = h.from THEN Null ELSE v.owner[j]]
             d == DelNodeSlots(v, h.from)
             w == IF nodeIsMaster(v, h.from) THEN d ELSE v
             x == [w EXCEPT !.slaveof[h.from] = h.slaveof]
             y == SetNodeAsMaster(v, h.from)
  <1>1. owner \in [Slots -> Nodes \cup {Null}] /\ \A j \in Slots : owner[j] = me => v.owner[j] = me
    BY NullIsNoNode DEF ViewOK, Views
  <1>2. d = [v EXCEPT !.owner = owner]
    BY DEF DelNodeSlots
  <1> HIDE DEF owner, d
  <1>3. ViewOK(me, d)
    BY <1>1, <1>2, OwnerView
  <1>4. ViewOK(me, w)
    BY <1>3
  <1> HIDE DEF w
  <1>5. x = [w EXCEPT !.slaveof[h.from] = h.slaveof] /\ y = [v EXCEPT !.slaveof[h.from] = Null]
    BY DEF SetNodeAsMaster
  <1>6. RoleSwitch(v, h) \in {x, y}
    BY DEF RoleSwitch, w, d
  <1> HIDE DEF x, y
  <1>7. ViewOK(me, x)
    BY <1>4, <1>5, OthersRoleView
  <1>8. ViewOK(me, y)
    BY <1>5, OthersRoleView
  <1> QED BY <1>6, <1>7, <1>8

LEMMA ConfigView ==
    ASSUME NEW me \in Nodes, NEW v, ViewOK(me, v), NEW h, HdrOK(h), h.from # me, h.slaveof \in Nodes \cup {Null},
           h.slots \subseteq Slots, NEW pong, NEW old
    PROVE  LET p == ProcessConfig(v, me, h, pong, old) IN
           ViewOK(me, p.view) /\ p.update \in (Nodes \ {h.from}) \cup {Null}
  <1> DEFINE v1 == ProcessHdr(v, h)
             v2 == IF pong THEN ProcessPong(v1, h.from, old) ELSE v1
             v3 == RoleSwitch(v2, h)
             master == IF nodeIsMaster(v3, h.from) THEN h.from ELSE v3.slaveof[h.from]
             dirty == SlotsOf(v3, master) # h.slots
             v4 == IF dirty /\ nodeIsMaster(v3, h.from)
                   THEN UpdateSlotsConfigWith(v3, me, h.from, h.cepoch, h.slots) ELSE v3
             old_slots == {j \in h.slots : v4.owner[j] \notin {h.from, Null} /\ v4.cepoch[v4.owner[j]] > h.cepoch}
             p == ProcessConfig(v, me, h, pong, old)
  <1>0. h.from \in Nodes \ {me}
    BY DEF HdrOK
  <1>1. ViewOK(me, v1)
    BY ProcessHdrView
  <1> HIDE DEF v1
  <1>2. ViewOK(me, v2)
    BY <1>0, <1>1, PongView
  <1> HIDE DEF v2
  <1>3. ViewOK(me, v3)
    BY <1>0, <1>2, RoleSwitchView
  <1> HIDE DEF v3
  <1>4. ViewOK(me, v4)
    BY <1>0, <1>3, UpdateSlotsView
  <1> HIDE DEF v4, dirty
  <1>5. /\ p.view = IF nodeIsMaster(v4, me) /\ nodeIsMaster(v4, h.from) /\ h.cepoch = v4.cepoch[me]
                    THEN HandleConfigEpochCollision(v4, me, h.from) ELSE v4
        /\ p.update = IF dirty /\ old_slots # {} THEN v4.owner[Min(old_slots)] ELSE Null
    BY DEF ProcessConfig, v1, v2, v3, v4, dirty
  <1>6. ViewOK(me, p.view)
    BY <1>0, <1>4, <1>5, CollisionView
  <1>7. p.update \in (Nodes \ {h.from}) \cup {Null}
    <2>1. CASE old_slots # {}
      <3>1. Min(old_slots) \in old_slots
        <4>1. old_slots \in SUBSET Nat
          BY BoundsAssumption DEF Slots
        <4> HIDE DEF old_slots
        <4> QED BY <2>1, <4>1, LeastOfNaturals
      <3>2. Min(old_slots) \in Slots /\ v4.owner[Min(old_slots)] # h.from
        BY <3>1
      <3> QED BY <1>4, <1>5, <3>2 DEF ViewOK, Views
    <2>2. CASE old_slots = {}
      BY <1>5, <2>2
    <2> QED BY <2>1, <2>2
  <1> QED BY <1>6, <1>7

LEMMA UpdateView ==
    ASSUME NEW me \in Nodes, NEW v, ViewOK(me, v), NEW s \in Nodes, NEW w, ViewOK(s, w),
           NEW n \in Nodes \ {me}
    PROVE  ViewOK(me, ProcessUpdate(v, me, s, w, n))
  <1> DEFINE v1 == ProcessHdr(v, BuildMessageHdr(w, s))
             v2 == SetNodeAsMaster(v1, n)
             f == [v2.cepoch EXCEPT ![n] = w.cepoch[n]]
             v3 == [v2 EXCEPT !.cepoch[n] = w.cepoch[n]]
  <1>1. ViewOK(me, v1) /\ v1.cur >= w.cur
    BY BuildMessageHdrOK, ProcessHdrView
  <1>2. ProcessUpdate(v, me, s, w, n) \in {v1, UpdateSlotsConfigWith(v3, me, n, w.cepoch[n], SlotsOf(w, n))}
    BY DEF ProcessUpdate
  <1> HIDE DEF v1
  <1>3. v2 = [v1 EXCEPT !.slaveof[n] = Null]
    BY DEF SetNodeAsMaster
  <1> HIDE DEF v2
  <1>4. ViewOK(me, v2) /\ v2.cur = v1.cur
    BY <1>1, <1>3, OthersRoleView
  <1>5. w.cepoch[n] \in Nat /\ w.cur \in Nat /\ w.cepoch[n] <= w.cur /\ v1.cur \in Nat
    BY <1>1 DEF ViewOK, Views
  <1>6. v2 \in Views /\ f \in [Nodes -> Nat] /\ \A k \in Nodes : f[k] <= v2.cur
    BY <1>1, <1>4, <1>5 DEF ViewOK, Views
  <1>7. v3 = [v2 EXCEPT !.cepoch = f]
    OBVIOUS
  <1> HIDE DEF f, v3
  <1>8. v3 \in Views /\ v3.cur = v2.cur /\ v3.cepoch = f /\ v3.flag = v2.flag /\ v3.auth = v2.auth
        /\ v3.slaveof = v2.slaveof /\ v3.owner = v2.owner
    BY <1>6, <1>7 DEF Views
  <1>9. ViewOK(me, v3)
    BY <1>4, <1>6, <1>8 DEF ViewOK
  <1> QED BY <1>1, <1>2, <1>9, UpdateSlotsView

\* Who replaces its master is a master: it may serve any slots.
LEMMA ReplaceYourMasterView ==
    ASSUME NEW me \in Nodes, NEW v, ViewOK(me, v)
    PROVE  ViewOK(me, FailoverReplaceYourMaster(v, me))
  <1> DEFINE f == [v.slaveof EXCEPT ![me] = Null]
             slots == SlotsOf(v, v.slaveof[me])
             owner == [j \in Slots |-> IF j \in slots THEN me ELSE v.owner[j]]
             w == FailoverReplaceYourMaster(v, me)
  <1>1. v \in Views /\ f \in [Nodes -> Nodes \cup {Null}] /\ f[me] = Null
        /\ owner \in [Slots -> Nodes \cup {Null}]
    BY DEF ViewOK, Views
  <1>2. w = [v EXCEPT !.slaveof = f, !.owner = owner, !.mf = FALSE]
    BY <1>1 DEF FailoverReplaceYourMaster, SetNodeAsMaster, Views
  <1> HIDE DEF f, owner, w
  <1>3. w \in Views /\ w.cur = v.cur /\ w.cepoch = v.cepoch /\ w.flag = v.flag /\ w.auth = v.auth
        /\ w.slaveof = f /\ w.owner = owner
    BY <1>1, <1>2 DEF Views
  <1>4. ViewOK(me, w)
    BY <1>1, <1>3 DEF ViewOK
  <1> QED BY <1>4 DEF w

LEMMA AuthView ==
    ASSUME NEW me \in Nodes, NEW v, ViewOK(me, v), NEW w \in Views, w.cur >= v.cur, w.auth.epoch <= w.cur,
           w.cepoch = v.cepoch /\ w.flag = v.flag /\ w.slaveof = v.slaveof /\ w.owner = v.owner
    PROVE  ViewOK(me, w)
  <1>1. ASSUME NEW n \in Nodes PROVE w.cepoch[n] <= w.cur
    <2>1. v.cepoch[n] \in Nat /\ v.cur \in Nat /\ v.cepoch[n] <= v.cur /\ w.cur \in Nat
      BY DEF ViewOK, Views
    <2> QED BY <2>1
  <1> QED BY <1>1 DEF ViewOK

LEMMA ViewFields ==
    ASSUME NEW me \in Nodes, NEW v, ViewOK(me, v)
    PROVE  /\ v \in Views /\ v.cur \in Nat /\ v.vote \in Nat /\ v.mf \in BOOLEAN
           /\ v.auth \in [epoch : Nat, count : Nat, sent : BOOLEAN] /\ v.auth.epoch \in Nat /\ v.auth.count \in Nat
           /\ v.auth.epoch <= v.cur
  BY DEF ViewOK, Views

LEMMA SetupElectionView ==
    ASSUME NEW me \in Nodes, NEW v, ViewOK(me, v)
    PROVE  ViewOK(me, SetupElection(v))
  <1> DEFINE auth == [v.auth EXCEPT !.count = 0, !.sent = FALSE]
             w == SetupElection(v)
  <1>0. v \in Views /\ v.cur \in Nat /\ v.auth.epoch <= v.cur
    BY ViewFields
  <1>1. auth \in [epoch : Nat, count : Nat, sent : BOOLEAN] /\ auth.epoch = v.auth.epoch
    BY <1>0 DEF Views
  <1>2. w = [v EXCEPT !.auth = auth]
    BY <1>0 DEF SetupElection, Views
  <1> HIDE DEF auth, w
  <1>3. /\ w \in Views /\ w.cur = v.cur /\ w.auth = auth
        /\ w.cepoch = v.cepoch /\ w.flag = v.flag /\ w.slaveof = v.slaveof /\ w.owner = v.owner
    BY <1>0, <1>1, <1>2 DEF Views
  <1>4. ViewOK(me, w)
    BY <1>0, <1>1, <1>3, AuthView
  <1> QED BY <1>4 DEF w

LEMMA StartElectionView ==
    ASSUME NEW me \in Nodes, NEW v, ViewOK(me, v)
    PROVE  ViewOK(me, StartElection(v))
  <1> DEFINE cur == v.cur + 1
             auth == [v.auth EXCEPT !.epoch = cur, !.sent = TRUE]
             w == StartElection(v)
  <1>0. v \in Views /\ cur \in Nat /\ cur >= v.cur
    BY ViewFields
  <1>1. w = [v EXCEPT !.cur = cur, !.auth = auth]
    BY <1>0 DEF StartElection, Views
  <1> HIDE DEF cur
  <1>2. auth \in [epoch : Nat, count : Nat, sent : BOOLEAN] /\ auth.epoch = cur
    BY <1>0 DEF Views
  <1> HIDE DEF auth, w
  <1>3. /\ w \in Views /\ w.cur = cur /\ w.auth = auth
        /\ w.cepoch = v.cepoch /\ w.flag = v.flag /\ w.slaveof = v.slaveof /\ w.owner = v.owner
    BY <1>0, <1>1, <1>2 DEF Views
  <1>4. w.auth.epoch <= w.cur
    BY <1>0, <1>2, <1>3
  <1>5. ViewOK(me, w)
    BY <1>0, <1>3, <1>4, AuthView
  <1> QED BY <1>5 DEF w

LEMMA WinElectionView ==
    ASSUME NEW me \in Nodes, NEW v, ViewOK(me, v)
    PROVE  ViewOK(me, WinElection(v, me))
  <1> DEFINE f == [v.cepoch EXCEPT ![me] = Greater(@, v.auth.epoch)]
             w == [v EXCEPT !.cepoch[me] = Greater(@, v.auth.epoch)]
  <1>1. v \in Views /\ v.cepoch \in [Nodes -> Nat] /\ v.cepoch[me] <= v.cur /\ v.auth.epoch <= v.cur
        /\ v.auth.epoch \in Nat /\ \A n \in Nodes : v.cepoch[n] <= v.cur
    BY ViewFields DEF ViewOK, Views
  <1>2. f \in [Nodes -> Nat] /\ \A n \in Nodes : f[n] <= v.cur
    BY <1>1, GreaterOfTwo
  <1>3. w = [v EXCEPT !.cepoch = f]
    OBVIOUS
  <1>4. WinElection(v, me) = FailoverReplaceYourMaster(w, me)
    BY DEF WinElection
  <1> HIDE DEF f, w
  <1>5. w \in Views /\ w.cur = v.cur /\ w.cepoch = f /\ w.flag = v.flag /\ w.auth = v.auth
        /\ w.slaveof = v.slaveof /\ w.owner = v.owner
    BY <1>1, <1>2, <1>3 DEF Views
  <1>6. ViewOK(me, w)
    BY <1>2, <1>5 DEF ViewOK
  <1> QED BY <1>4, <1>6, ReplaceYourMasterView

LEMMA VoteViews ==
    ASSUME NEW me \in Nodes, NEW v, ViewOK(me, v), NEW s, NEW cur
    PROVE  /\ ViewOK(me, [v EXCEPT !.vote = v.cur]) /\ ViewOK(me, CountVote(v, s, cur))
           /\ ViewOK(me, HandleVote(v, me)) /\ \A b \in BOOLEAN : ViewOK(me, [v EXCEPT !.mf = b])
  <1>0. v \in Views /\ v.cur \in Nat /\ v.auth.epoch <= v.cur /\ v.cur >= v.cur
    BY ViewFields
  <1>1. ViewOK(me, [v EXCEPT !.vote = v.cur])
    <2> DEFINE w == [v EXCEPT !.vote = v.cur]
    <2>1. /\ w \in Views /\ w.cur = v.cur /\ w.auth = v.auth
          /\ w.cepoch = v.cepoch /\ w.flag = v.flag /\ w.slaveof = v.slaveof /\ w.owner = v.owner
      BY <1>0 DEF Views
    <2> HIDE DEF w
    <2>2. ViewOK(me, w)
      BY <1>0, <2>1, AuthView
    <2> QED BY <2>2 DEF w
  <1>2. ViewOK(me, CountVote(v, s, cur))
    <2> DEFINE auth == [v.auth EXCEPT !.count = @ + 1]
               w == [v EXCEPT !.auth.count = @ + 1]
    <2>1. auth \in [epoch : Nat, count : Nat, sent : BOOLEAN] /\ auth.epoch = v.auth.epoch
      <3>1. v.auth.count + 1 \in Nat
        BY ViewFields
      <3> QED BY <1>0, <3>1 DEF Views
    <2>2. w = [v EXCEPT !.auth = auth]
      BY <1>0 DEF Views
    <2>3. CountVote(v, s, cur) \in {v, w}
      BY DEF CountVote
    <2> HIDE DEF auth, w
    <2>4. /\ w \in Views /\ w.cur = v.cur /\ w.auth = auth
          /\ w.cepoch = v.cepoch /\ w.flag = v.flag /\ w.slaveof = v.slaveof /\ w.owner = v.owner
      BY <1>0, <2>1, <2>2 DEF Views
    <2>5. ViewOK(me, w)
      BY <1>0, <2>1, <2>4, AuthView
    <2> QED BY <2>3, <2>5
  <1>3. ViewOK(me, HandleVote(v, me))
    BY WinElectionView DEF HandleVote
  <1>4. ASSUME NEW b \in BOOLEAN PROVE ViewOK(me, [v EXCEPT !.mf = b])
    <2> DEFINE w == [v EXCEPT !.mf = b]
    <2>1. /\ w \in Views /\ w.cur = v.cur /\ w.auth = v.auth
          /\ w.cepoch = v.cepoch /\ w.flag = v.flag /\ w.slaveof = v.slaveof /\ w.owner = v.owner
      BY <1>0 DEF Views
    <2> HIDE DEF w
    <2>2. ViewOK(me, w)
      BY <1>0, <2>1, AuthView
    <2> QED BY <2>2 DEF w
  <1> QED BY <1>1, <1>2, <1>3, <1>4

-----------------------------------------------------------------------------
(* Every step keeps the invariant.                                         *)

\* Views that are right give right files.
LEMMA BeforeSleepFiles ==
    ASSUME IInv, NEW force, BeforeSleep(force), \A n \in Nodes : ViewOK(n, node'[n])
    PROVE  disk' = [n \in Crashers |-> disk'[n]] /\ \A n \in Crashers : ConfOK(n, disk'[n])
  <1>1. ASSUME NEW n \in Crashers PROVE ConfOK(n, disk'[n])
    <2>1. disk'[n] \in {SaveConfig(node'[n]), disk[n]}
      BY DEF BeforeSleep
    <2> QED BY <2>1, SaveConfigConf, NodesAssumption DEF IInv
  <1>2. disk' = [n \in Crashers |-> disk'[n]]
    BY DEF BeforeSleep
  <1> QED BY <1>1, <1>2

LEMMA InitIInv == Init => IInv
  <1> SUFFICES ASSUME Init PROVE IInv
    OBVIOUS
  <1>1. PICK t \in Scenarios : /\ may = t.may
                               /\ node = [n \in Nodes |-> LoadConfig(Conf0(t, n))]
                               /\ disk = [n \in Crashers |-> Conf0(t, n)]
    BY DEF Init
  <1>2. /\ t.master \in [Nodes -> Nodes \cup {0}] /\ t.epoch \in [Nodes -> Nat] /\ t.may \in [Disturbances -> Nat]
        /\ t.owner \in [1..NSlots -> {n \in Nodes : t.master[n] = 0}]
    BY ScenariosAssumption
  <1>3. ASSUME NEW n \in Nodes PROVE ConfOK(n, Conf0(t, n))
    <2> DEFINE cur == Max({t.epoch[k] : k \in Nodes})
               cepoch == [k \in Nodes |-> t.epoch[IF t.master[k] = Null \/ k = n THEN k ELSE t.master[k]]]
               flag == [k \in Nodes |-> "ok"]
               d == Conf0(t, n)
    <2>1. cur \in Nat
      BY <1>2, MaxOfEpochs
    <2>2. cepoch \in [Nodes -> Nat] /\ flag \in [Nodes -> {"ok", "pfail", "fail"}] /\ flag[n] = "ok"
      BY <1>2 DEF Null
    <2>3. t.owner \in [Slots -> Nodes \cup {Null}] /\ t.master \in [Nodes -> Nodes \cup {Null}]
      BY <1>2 DEF Slots, Null
    <2>4. d = [cur |-> cur, vote |-> 0, slaveof |-> t.master, cepoch |-> cepoch, owner |-> t.owner, flag |-> flag]
      BY DEF Conf0
    <2> HIDE DEF cur, cepoch, flag, d
    <2>5. d \in Confs /\ d.flag[n] = "ok" /\ d.slaveof = t.master /\ d.owner = t.owner
      BY <2>1, <2>2, <2>3, <2>4 DEF Confs
    <2>6. t.master[n] # Null => \A j \in Slots : t.owner[j] # n
      BY <1>2 DEF Slots, Null
    <2>7. ConfOK(n, d)
      BY <2>5, <2>6 DEF ConfOK
    <2> QED BY <2>7 DEF d
  <1>4. \A n \in Nodes : ViewOK(n, node[n])
    BY <1>1, <1>3, LoadConfigView
  <1>5. \A n \in Crashers : ConfOK(n, disk[n])
    BY <1>1, <1>3, NodesAssumption
  <1>6. \A n \in Nodes : RequestOK(asked[n])
    BY DEF Init, RequestOK, NoRequest
  <1>7. node = [n \in Nodes |-> node[n]] /\ disk = [n \in Crashers |-> disk[n]] /\ asked = [n \in Nodes |-> asked[n]]
    BY <1>1 DEF Init
  <1>8. cut \subseteq Failing /\ may \in [Disturbances -> Nat]
    BY <1>1, <1>2 DEF Init
  <1> QED BY <1>4, <1>5, <1>6, <1>7, <1>8 DEF IInv

\* The nodes after n, which now knows w, has answered s: Receive's last part.
Answered(s, n, p, w, failed) ==
    \E updated \in IF p.update = Null THEN {FALSE} ELSE BOOLEAN,
       told \in SUBSET {m \in Nodes : failed # {} /\ Reachable(n, m)} :
        node' = [m \in Nodes |->
            LET v == IF m = s /\ updated
                     THEN ProcessUpdate(node[m], m, n, p.view, p.update) ELSE node[m]
            IN  IF m = n THEN w
                ELSE IF m \in told THEN ProcessFail(v, m, BuildMessageHdr(w, n), failed)
                ELSE v]

LEMMA ReceiveViews ==
    ASSUME IInv, NEW s \in Nodes, NEW n \in Nodes, Receive(s, n)
    PROVE  node' = [m \in Nodes |-> node'[m]] /\ \A m \in Nodes : ViewOK(m, node'[m])
  <1> DEFINE h == BuildMessageHdr(node[s], s)
  <1>1. s # n
    BY DEF Receive, Reachable
  <1>2. ViewOK(s, node[s]) /\ ViewOK(n, node[n])
    BY DEF IInv
  <1>3. HdrOK(h) /\ h.slaveof \in Nodes \cup {Null} /\ h.from = s /\ h.slots \subseteq Slots
    <2>1. h.slots \subseteq Slots
      BY DEF BuildMessageHdr, SlotsOf
    <2> QED BY <1>2, <2>1, BuildMessageHdrOK
  <1> HIDE DEF h
  <1> DEFINE Pongs == IF node[n].flag[s] = "ok" THEN {TRUE} ELSE BOOLEAN
             Olds == IF node[n].flag[s] = "fail" THEN BOOLEAN ELSE {FALSE}
             Abouts == IF nodeIsMaster(node[s], s) THEN SUBSET (Failing \ {s, n}) ELSE {{}}
             Failed(p, w) == IF nodeIsMaster(w, n)
                             THEN {m \in Nodes : p.view.flag[m] = "pfail" /\ w.flag[m] = "fail"} ELSE {}
  <1>4. \E pong \in Pongs, old \in Olds, about \in Abouts :
          \E p \in {ProcessConfig(node[n], n, h, pong, old)} :
          \E w \in {ProcessGossipSection(p.view, n, h, about)} : Answered(s, n, p, w, Failed(p, w))
    BY DEF Receive, h, Answered
  <1>11. Abouts \subseteq SUBSET Nodes
    BY NodesAssumption
  <1> HIDE DEF Pongs, Olds, Abouts, Failed
  <1>12. PICK pong \in Pongs, old \in Olds, about \in Abouts :
          \E p \in {ProcessConfig(node[n], n, h, pong, old)} :
          \E w \in {ProcessGossipSection(p.view, n, h, about)} : Answered(s, n, p, w, Failed(p, w))
    BY <1>4
  <1> DEFINE p == ProcessConfig(node[n], n, h, pong, old)
             w == ProcessGossipSection(p.view, n, h, about)
             failed == Failed(p, w)
  <1>13. Answered(s, n, p, w, failed)
    BY <1>12
  <1>5. ViewOK(n, p.view) /\ p.update \in (Nodes \ {s}) \cup {Null}
    BY <1>1, <1>2, <1>3, ConfigView
  <1> HIDE DEF p
  <1>6. ViewOK(n, w)
    BY <1>3, <1>11, <1>5, GossipView DEF HdrOK
  <1> HIDE DEF w, failed
  <1>7. PICK updated \in IF p.update = Null THEN {FALSE} ELSE BOOLEAN,
             told \in SUBSET {m \in Nodes : failed # {} /\ Reachable(n, m)} :
                node' = [m \in Nodes |->
                    LET v == IF m = s /\ updated
                             THEN ProcessUpdate(node[m], m, n, p.view, p.update) ELSE node[m]
                    IN  IF m = n THEN w
                        ELSE IF m \in told THEN ProcessFail(v, m, BuildMessageHdr(w, n), failed)
                        ELSE v]
    BY <1>13 DEF Answered
  <1>8. HdrOK(BuildMessageHdr(w, n))
    BY <1>6, BuildMessageHdrOK
  <1>9. ASSUME NEW m \in Nodes PROVE ViewOK(m, node'[m])
    <2> DEFINE v == IF m = s /\ updated THEN ProcessUpdate(node[m], m, n, p.view, p.update) ELSE node[m]
    <2>1. ViewOK(m, v)
      <3>1. CASE m = s /\ updated
        <4>1. p.update \in Nodes \ {m}
          BY <1>5, <1>7, <3>1
        <4>2. ViewOK(m, node[m])
          BY DEF IInv
        <4>3. ViewOK(m, ProcessUpdate(node[m], m, n, p.view, p.update))
          BY <1>5, <4>1, <4>2, UpdateView
        <4> QED BY <3>1, <4>3
      <3>2. CASE ~(m = s /\ updated)
        BY <3>2 DEF IInv
      <3> QED BY <3>1, <3>2
    <2>2. node'[m] = IF m = n THEN w
                     ELSE IF m \in told THEN ProcessFail(v, m, BuildMessageHdr(w, n), failed) ELSE v
      BY <1>7
    <2> HIDE DEF v
    <2>3. ViewOK(m, ProcessHdr(v, BuildMessageHdr(w, n)))
      BY <1>8, <2>1, ProcessHdrView
    <2>4. ViewOK(m, ProcessFail(v, m, BuildMessageHdr(w, n), failed))
      BY <2>3, FailView DEF ProcessFail
    <2> QED BY <1>6, <2>1, <2>2, <2>4
  <1>10. node' = [m \in Nodes |-> node'[m]]
    BY <1>7
  <1> QED BY <1>9, <1>10

LEMMA ReceiveIInv ==
    ASSUME IInv, NEW s \in Nodes, NEW n \in Nodes, Receive(s, n)
    PROVE  IInv'
  <1>1. node' = [m \in Nodes |-> node'[m]] /\ \A m \in Nodes : ViewOK(m, node'[m])
    BY ReceiveViews
  <1>2. BeforeSleep({}) /\ UNCHANGED <<asked, cut, may>>
    BY DEF Receive
  <1> QED BY <1>1, <1>2, BeforeSleepFiles DEF IInv

\* A step of one node.
LEMMA OneNode ==
    ASSUME IInv, NEW n \in Nodes, NEW v, ViewOK(n, v), node' = [node EXCEPT ![n] = v]
    PROVE  node' = [m \in Nodes |-> node'[m]] /\ \A m \in Nodes : ViewOK(m, node'[m])
  <1>1. node = [m \in Nodes |-> node[m]] /\ \A m \in Nodes : ViewOK(m, node[m])
    BY DEF IInv
  <1>2. DOMAIN node = Nodes
    BY <1>1
  <1>3. node'[n] = v /\ \A m \in Nodes \ {n} : node'[m] = node[m]
    BY <1>2
  <1>4. node' = [m \in Nodes |-> node'[m]]
    BY <1>2
  <1> QED BY <1>1, <1>3, <1>4

LEMMA AuthRequestIInv ==
    ASSUME IInv, NEW s \in Nodes, NEW n \in Nodes, ReceiveAuthRequest(s, n)
    PROVE  IInv'
  <1> DEFINE r == asked[s]
             hd == [from |-> s, cur |-> r.epoch, cepoch |-> r.cepoch]
             v == ProcessHdr(node[n], hd)
             w == [v EXCEPT !.vote = v.cur]
             d == ProcessHdr(node[s], BuildMessageHdr(w, n))
             c == CountVote(d, n, w.cur)
  <1>1. s # n /\ RequestOK(r) /\ ViewOK(s, node[s]) /\ ViewOK(n, node[n]) /\ DOMAIN node = Nodes
    BY DEF ReceiveAuthRequest, Reachable, IInv
  <1>2. HdrOK(hd)
    BY <1>1 DEF RequestOK, HdrOK
  <1>3. /\ \/ \E acked \in BOOLEAN : node' = [node EXCEPT ![n] = w, ![s] = IF acked THEN HandleVote(c, s) ELSE @]
           \/ node' = [node EXCEPT ![n] = v]
        /\ asked' = [asked EXCEPT ![s].to = @ \ {n}]
        /\ BeforeSleep({}) /\ UNCHANGED <<cut, may>>
    BY DEF ReceiveAuthRequest
  <1> HIDE DEF hd
  <1>4. ViewOK(n, v)
    BY <1>1, <1>2, ProcessHdrView
  <1> HIDE DEF v
  <1>5. ViewOK(n, w)
    BY <1>4, VoteViews
  <1> HIDE DEF w
  <1>6. ViewOK(s, d)
    BY <1>1, <1>5, BuildMessageHdrOK, ProcessHdrView
  <1> HIDE DEF d
  <1>7. ViewOK(s, c)
    BY <1>6, VoteViews
  <1> HIDE DEF c
  <1>8. ViewOK(s, HandleVote(c, s))
    BY <1>7, VoteViews
  <1>9. node' = [m \in Nodes |-> node'[m]] /\ \A m \in Nodes : ViewOK(m, node'[m])
    <2>1. CASE node' = [node EXCEPT ![n] = v]
      BY <1>4, <2>1, OneNode
    <2>2. CASE \E acked \in BOOLEAN : node' = [node EXCEPT ![n] = w, ![s] = IF acked THEN HandleVote(c, s) ELSE @]
      <3>1. /\ node'[n] = w /\ node'[s] \in {HandleVote(c, s), node[s]}
            /\ \A m \in Nodes \ {s, n} : node'[m] = node[m]
            /\ node' = [m \in Nodes |-> node'[m]]
        BY <1>1, <2>2
      <3> QED BY <1>1, <1>5, <1>8, <3>1 DEF IInv
    <2> QED BY <1>3, <2>1, <2>2
  <1>10. asked' = [m \in Nodes |-> asked'[m]] /\ \A m \in Nodes : RequestOK(asked'[m])
    <2>1. asked = [m \in Nodes |-> asked[m]] /\ \A m \in Nodes : RequestOK(asked[m])
      BY DEF IInv
    <2>2. asked'[s] = [r EXCEPT !.to = @ \ {n}] /\ \A m \in Nodes \ {s} : asked'[m] = asked[m]
      BY <1>3, <2>1
    <2>3. asked'[s].epoch = r.epoch /\ asked'[s].cepoch = r.cepoch /\ asked'[s].to \subseteq Nodes
      BY <1>1, <2>2 DEF RequestOK
    <2>4. RequestOK(asked'[s])
      BY <1>1, <2>3 DEF RequestOK
    <2> QED BY <1>3, <2>1, <2>2, <2>4
  <1> QED BY <1>3, <1>9, <1>10, BeforeSleepFiles DEF IInv

\* A step of one node that leaves the requests alone, or that is not saved.
LEMMA OneNodeIInv ==
    ASSUME IInv, NEW n \in Nodes, NEW v, ViewOK(n, v), node' = [node EXCEPT ![n] = v],
           asked' = [m \in Nodes |-> asked'[m]], \A m \in Nodes : RequestOK(asked'[m]),
           disk' = disk \/ \E force \in SUBSET Nodes : BeforeSleep(force),
           cut' = cut, may' \in [Disturbances -> Nat]
    PROVE  IInv'
  <1>1. node' = [m \in Nodes |-> node'[m]] /\ \A m \in Nodes : ViewOK(m, node'[m])
    BY OneNode
  <1>2. disk' = [m \in Crashers |-> disk'[m]] /\ \A m \in Crashers : ConfOK(m, disk'[m])
    <2>1. CASE disk' = disk
      BY <2>1 DEF IInv
    <2>2. CASE \E force \in SUBSET Nodes : BeforeSleep(force)
      BY <1>1, <2>2, BeforeSleepFiles
    <2> QED BY <2>1, <2>2
  <1> QED BY <1>1, <1>2 DEF IInv

\* One disturbance less may happen.
LEMMA DisturbMay ==
    ASSUME IInv, NEW d \in Disturbances, Disturb(d)
    PROVE  may' \in [Disturbances -> Nat]
  <1>1. may \in [Disturbances -> Nat] /\ may[d] \in Nat /\ may[d] > 0
    BY DEF IInv, Disturb
  <1>2. may[d] - 1 \in Nat
    BY <1>1
  <1> QED BY <1>1, <1>2 DEF Disturb

LEMMA NoRequestOK == RequestOK(NoRequest)
  BY DEF RequestOK, NoRequest

LEMMA StepIInv ==
    ASSUME IInv, NEW n \in Nodes, Step(n)
    PROVE  IInv'
  <1> DEFINE v == node[n]
  <1>0. /\ ViewOK(n, v) /\ may \in [Disturbances -> Nat] /\ DOMAIN node = Nodes
        /\ asked = [m \in Nodes |-> asked[m]] /\ \A m \in Nodes : RequestOK(asked[m])
    BY DEF IInv
  <1>1. CASE NodesTimeOut(n)
    <2> DEFINE late == {m \in Failing : m # n /\ ~Reachable(n, m) /\ node[n].flag[m] = "ok"}
               flag == [m \in Nodes |-> IF m \in late THEN "pfail" ELSE v.flag[m]]
               w == [v EXCEPT !.flag = flag]
    <2>1. flag \in [Nodes -> {"ok", "pfail", "fail"}] /\ flag[n] = "ok" /\ v.reports \in [Nodes -> SUBSET Nodes]
          /\ v \in Views
      BY <1>0 DEF ViewOK, Views
    <2>2. node' = [node EXCEPT ![n] = w] /\ UNCHANGED <<asked, disk, cut, may>>
      BY <1>0, <1>1 DEF NodesTimeOut
    <2> HIDE DEF flag, v
    <2>3. w \in Views /\ w.cur = v.cur /\ w.cepoch = v.cepoch /\ w.flag = flag /\ w.auth = v.auth
          /\ w.slaveof = v.slaveof /\ w.owner = v.owner
      BY <2>1 DEF Views
    <2> HIDE DEF w
    <2>4. ViewOK(n, w)
      BY <1>0, <2>1, <2>3 DEF ViewOK
    <2> QED BY <1>0, <2>2, <2>4, OneNodeIInv
  <1>2. CASE CronSetupElection(n)
    <2> DEFINE w == SetupElection(v)
    <2>1. node' = [node EXCEPT ![n] = w] /\ asked' = [asked EXCEPT ![n] = NoRequest] /\ UNCHANGED <<disk, cut, may>>
      BY <1>0, <1>2 DEF CronSetupElection
    <2>2. ViewOK(n, w)
      BY <1>0, SetupElectionView
    <2>3. asked' = [m \in Nodes |-> asked'[m]] /\ \A m \in Nodes : RequestOK(asked'[m])
      BY <1>0, <2>1, NoRequestOK
    <2> HIDE DEF w
    <2> QED BY <1>0, <2>1, <2>2, <2>3, OneNodeIInv
  <1>3. CASE CronStartElection(n)
    <2> DEFINE w == StartElection(v)
               h == BuildMessageHdr(v, n)
               r == [to |-> {m \in Voters(v) : Reachable(n, m)}, epoch |-> v.cur + 1,
                     cepoch |-> h.cepoch, slots |-> h.slots, force |-> v.mf]
    <2>1. node' = [node EXCEPT ![n] = w] /\ asked' = [asked EXCEPT ![n] = r] /\ UNCHANGED <<cut, may>>
          /\ BeforeSleep({n})
      BY <1>0, <1>3 DEF CronStartElection
    <2>2. ViewOK(n, w)
      BY <1>0, StartElectionView
    <2>3. RequestOK(r)
      <3>1. HdrOK(h) /\ h.cur = v.cur /\ v.cur \in Nat
        BY <1>0, BuildMessageHdrOK, ViewFields
      <3>2. r.to \subseteq Nodes /\ r.epoch = v.cur + 1 /\ r.cepoch = h.cepoch
        BY DEF Voters
      <3> HIDE DEF h, r
      <3> QED BY <3>1, <3>2 DEF RequestOK, HdrOK
    <2> HIDE DEF w, r
    <2>4. asked' = [m \in Nodes |-> asked'[m]] /\ \A m \in Nodes : RequestOK(asked'[m])
      BY <1>0, <2>1, <2>3
    <2> QED BY <1>0, <2>1, <2>2, <2>4, OneNodeIInv
  <1>4. CASE CronWinElection(n)
    <2> DEFINE w == WinElection(v, n)
    <2>1. node' = [node EXCEPT ![n] = w] /\ UNCHANGED <<asked, cut, may>> /\ BeforeSleep({n})
      BY <1>0, <1>4 DEF CronWinElection
    <2>2. ViewOK(n, w)
      BY <1>0, WinElectionView
    <2> HIDE DEF w
    <2> QED BY <1>0, <2>1, <2>2, OneNodeIInv
  <1>5. CASE Takeover(n)
    <2> DEFINE b == BumpConfigEpochWithoutConsensus(v, n)
               w == FailoverReplaceYourMaster(b, n)
    <2>1. node' = [node EXCEPT ![n] = w] /\ UNCHANGED <<asked, cut>> /\ BeforeSleep({n}) /\ Disturb("takeover")
      BY <1>0, <1>5 DEF Takeover
    <2>2. ViewOK(n, b)
      BY <1>0, BumpView
    <2> HIDE DEF b
    <2>3. ViewOK(n, w)
      BY <2>2, ReplaceYourMasterView
    <2>4. may' \in [Disturbances -> Nat]
      BY <2>1, DisturbMay DEF Disturbances
    <2> HIDE DEF w
    <2> QED BY <1>0, <2>1, <2>3, <2>4, OneNodeIInv
  <1>6. CASE ForceFailover(n)
    <2> DEFINE w == [v EXCEPT !.mf = TRUE]
    <2>1. node' = [node EXCEPT ![n] = w] /\ UNCHANGED <<asked, disk, cut>> /\ Disturb("force")
      BY <1>0, <1>6 DEF ForceFailover
    <2>2. ViewOK(n, w)
      BY <1>0, VoteViews
    <2>3. may' \in [Disturbances -> Nat]
      BY <2>1, DisturbMay DEF Disturbances
    <2> HIDE DEF w
    <2> QED BY <1>0, <2>1, <2>2, <2>3, OneNodeIInv
  <1>7. CASE ManualFailoverTimesOut(n)
    <2> DEFINE w == [v EXCEPT !.mf = FALSE]
    <2>1. node' = [node EXCEPT ![n] = w] /\ UNCHANGED <<asked, disk, cut, may>>
      BY <1>0, <1>7 DEF ManualFailoverTimesOut
    <2>2. ViewOK(n, w)
      BY <1>0, VoteViews
    <2> HIDE DEF w
    <2> QED BY <1>0, <2>1, <2>2, OneNodeIInv
  <1> QED BY <1>1, <1>2, <1>3, <1>4, <1>5, <1>6, <1>7 DEF Step

LEMMA RestartIInv ==
    ASSUME IInv, NEW n \in Crashers, Restart(n)
    PROVE  IInv'
  <1> DEFINE w == LoadConfig(disk[n])
  <1>1. n \in Nodes /\ ConfOK(n, disk[n])
    BY NodesAssumption DEF IInv
  <1>2. ViewOK(n, w)
    BY <1>1, LoadConfigView
  <1>3. node' = [node EXCEPT ![n] = w] /\ asked' = [asked EXCEPT ![n] = NoRequest] /\ UNCHANGED <<disk, cut>>
        /\ Disturb("restart")
    BY DEF Restart
  <1>4. asked' = [m \in Nodes |-> asked'[m]] /\ \A m \in Nodes : RequestOK(asked'[m])
    <2>1. asked = [m \in Nodes |-> asked[m]] /\ \A m \in Nodes : RequestOK(asked[m])
      BY DEF IInv
    <2> QED BY <1>1, <1>3, <2>1, NoRequestOK
  <1>5. may' \in [Disturbances -> Nat]
    BY <1>3, DisturbMay DEF Disturbances
  <1> HIDE DEF w
  <1> QED BY <1>1, <1>2, <1>3, <1>4, <1>5, OneNodeIInv

LEMMA InductiveStep == IInv /\ [Next]_vars => IInv'
  <1> SUFFICES ASSUME IInv, [Next]_vars PROVE IInv'
    OBVIOUS
  <1>1. CASE UNCHANGED vars
    BY <1>1 DEF IInv, vars
  <1>2. CASE \E s, n \in Nodes : Receive(s, n) \/ ReceiveAuthRequest(s, n)
    BY <1>2, ReceiveIInv, AuthRequestIInv
  <1>3. CASE \E n \in Nodes : Step(n)
    BY <1>3, StepIInv
  <1>4. CASE \E n \in Crashers : Restart(n)
    BY <1>4, RestartIInv
  <1>5. CASE \E n \in Failing : Cut(n) \/ Heal(n)
    <2>1. PICK n \in Failing : Cut(n) \/ Heal(n)
      BY <1>5
    <2>2. CASE Cut(n)
      <3>1. UNCHANGED <<node, asked, disk>> /\ cut' = cut \cup {n} /\ Disturb("cut")
        BY <2>2 DEF Cut
      <3>2. may' \in [Disturbances -> Nat]
        BY <3>1, DisturbMay DEF Disturbances
      <3> QED BY <2>1, <3>1, <3>2 DEF IInv
    <2>3. CASE Heal(n)
      BY <2>3 DEF Heal, IInv
    <2> QED BY <2>1, <2>2, <2>3
  <1> QED BY <1>1, <1>2, <1>3, <1>4, <1>5 DEF Next

\* Whatever packets, failures, restarts, elections and takeovers there are, a node
\* that takes itself for a slave serves no slots (the assertion of
\* clusterSetMaster), it never suspects itself, and the epochs it knows are not
\* beyond its current epoch.
THEOREM SlaveServesNoSlotsHolds == Spec => []SlaveServesNoSlots
  <1>1. IInv => SlaveServesNoSlots
    <2> SUFFICES ASSUME IInv PROVE SlaveServesNoSlots
      OBVIOUS
    <2>1. TypeOK
      <3>1. ASSUME NEW n \in Nodes
            PROVE  node[n] \in Views /\ node[n].flag[n] = "ok" /\ GetMaxEpoch(node[n]) = node[n].cur
        <4>1. ViewOK(n, node[n])
          BY DEF IInv
        <4> QED BY <4>1, GetMaxEpochIsCurrent DEF ViewOK
      <3> QED BY <3>1 DEF IInv, TypeOK
    <2>2. ASSUME NEW n \in Nodes, ~nodeIsMaster(node[n], n) PROVE SlotsOf(node[n], n) = {}
      BY <2>2 DEF IInv, ViewOK, nodeIsMaster, SlotsOf
    <2> QED BY <2>1, <2>2 DEF SlaveServesNoSlots
  <1> QED BY <1>1, InitIInv, InductiveStep, PTL DEF Spec

=============================================================================
