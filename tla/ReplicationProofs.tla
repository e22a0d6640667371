------------------------- MODULE ReplicationProofs -------------------------
(***************************************************************************)
(* A slave, what is on its way to it and what its master holds for it make *)
(* up the master: LinkConsistent, for any servers, databases, size of the  *)
(* backlog and scene.                                                      *)
(*                                                                         *)
(* The invariant WInv says of every server that its backlog is the end of  *)
(* its stream, and of every slave and its master PairOK; each step of the  *)
(* specification is shown to keep it.                                      *)
(***************************************************************************)
EXTENDS ReplicationLinkProofs

---------------------------------------------------------------------------
(* The servers.                                                            *)

Worlds == [srv : [Servers -> Server], cl : [Servers -> [Servers -> Clients \cup {None}]], conn : [Servers -> Conns \cup {None}]]

\* The run ids of a server are its own, and a server that waits for a file has no
\* backlog.
MasterOK(s, v) == v.runid[1] = s /\ (v.backlog # None => BacklogOK(v) /\ v.repl_state # "TRANSFER")

Shape(s, x, k) ==
  /\ x.masterhost # s
  /\ (x.master # None) <=> (x.repl_state = "CONNECTED")
  /\ (x.masterhost = None) <=> (x.repl_state = "NONE")
  /\ (k # None) <=> (x.repl_state \notin {"NONE", "CONNECT"})
  /\ x.cached # None => x.repl_state \in {"CONNECT", "CONNECTING", "RECEIVE_PSYNC"}
  /\ x.repl_state = "RECEIVE_PSYNC" => x.init.off = -1
  /\ k # None => k.to = x.masterhost

Pair(w, m, s) == PairOK(MV(w.srv[m]), SV(w.srv[s]), w.cl[m][s], w.conn[s])
SlaveOK(w, s) ==
  /\ Shape(s, w.srv[s], w.conn[s])
  /\ \A m \in Servers : w.cl[m][s] # None => w.srv[s].masterhost = m
  /\ w.srv[s].masterhost # None => Pair(w, w.srv[s].masterhost, s)

\* The inductive invariant.
WInv(w) == w \in Worlds /\ \A s \in Servers : MasterOK(s, w.srv[s]) /\ SlaveOK(w, s)

\* A step of one server leaves the others alone, but for the links to its slaves.
OthersAlone(w, w2, a) ==
  /\ \A t \in Servers \ {a} : w2.srv[t] = w.srv[t]
  /\ \A m, t \in Servers \ {a} : w2.cl[m][t] = w.cl[m][t]
  /\ \A t \in Servers \ {a} : w.srv[t].masterhost # a => w2.conn[t] = w.conn[t] /\ w2.cl[a][t] = w.cl[a][t]
SlavesFit(w, w2, a) ==
  \A t \in Servers \ {a} : w.srv[t].masterhost = a =>
    (w2.conn[t] = None <=> w.conn[t] = None) /\ (w2.conn[t] # None => w2.conn[t].to = a) /\ Pair(w2, a, t)

LEMMA StepOfOne ==
    ASSUME NEW w, WInv(w), NEW w2 \in Worlds, NEW a \in Servers, OthersAlone(w, w2, a), SlavesFit(w, w2, a),
           MasterOK(a, w2.srv[a]), SlaveOK(w2, a)
    PROVE  WInv(w2)
  <1> SUFFICES ASSUME NEW t \in Servers, t # a PROVE MasterOK(t, w2.srv[t]) /\ SlaveOK(w2, t)
    BY DEF WInv
  <1>1. w2.srv[t] = w.srv[t] /\ MasterOK(t, w.srv[t]) /\ SlaveOK(w, t)
    BY DEF OthersAlone, WInv
  <1>2. CASE w.srv[t].masterhost = a
    <2>1. (w2.conn[t] = None <=> w.conn[t] = None) /\ (w2.conn[t] # None => w2.conn[t].to = a) /\ Pair(w2, a, t)
      BY <1>2 DEF SlavesFit
    <2>2. Shape(t, w2.srv[t], w2.conn[t])
      BY <1>1, <1>2, <2>1 DEF SlaveOK, Shape
    <2>3. \A m \in Servers : w2.cl[m][t] # None => w2.srv[t].masterhost = m
      BY <1>1, <1>2 DEF SlaveOK, OthersAlone
    <2> QED BY <1>1, <1>2, <2>1, <2>2, <2>3 DEF SlaveOK
  <1>3. CASE w.srv[t].masterhost # a
    <2>1. w2.conn[t] = w.conn[t] /\ w2.cl[a][t] = w.cl[a][t]
      BY <1>3 DEF OthersAlone
    <2>2. \A m \in Servers : w2.cl[m][t] = w.cl[m][t]
      BY <2>1 DEF OthersAlone
    <2>3. w.srv[t].masterhost \in Servers \cup {None}
      BY DEF WInv, Worlds, Server
    <2>4. ASSUME NEW m \in Servers, m = w.srv[t].masterhost PROVE Pair(w2, m, t)
      <3>1. w2.srv[m] = w.srv[m] /\ Pair(w, m, t)
        BY <1>1, <1>3, <2>4, NoneAssumption DEF OthersAlone, SlaveOK
      <3> QED BY <1>1, <2>1, <2>2, <3>1 DEF Pair
    <2> QED BY <1>1, <2>1, <2>2, <2>3, <2>4 DEF SlaveOK
  <1> QED BY <1>2, <1>3

LEMMA WorldTypes ==
    ASSUME NEW w \in Worlds
    PROVE  /\ w = [srv |-> w.srv, cl |-> w.cl, conn |-> w.conn]
           /\ w.srv \in [Servers -> Server] /\ w.cl \in [Servers -> [Servers -> Clients \cup {None}]] /\ w.conn \in [Servers -> Conns \cup {None}]
           /\ \A s \in Servers : w.srv[s] \in Server /\ w.conn[s] \in Conns \cup {None}
           /\ \A m, s \in Servers : w.cl[m][s] \in Clients \cup {None}
  BY DEF Worlds

LEMMA PairFacts ==
    ASSUME NEW w, WInv(w), NEW s \in Servers, NEW m, m = w.srv[s].masterhost, m # None
    PROVE  /\ m \in Servers /\ m # s /\ Pair(w, m, s)
           /\ MTyped(MV(w.srv[m])) /\ STyped(SV(w.srv[s]), w.conn[s])
  <1>1. w \in Worlds /\ SlaveOK(w, s)
    BY DEF WInv
  <1>2. w.srv[s] \in Server /\ w.conn[s] \in Conns \cup {None}
    BY <1>1, WorldTypes
  <1>3. m \in Servers /\ m # s /\ Pair(w, m, s)
    BY <1>1, <1>2 DEF SlaveOK, Shape, Server
  <1>4. w.srv[m] \in Server /\ MasterOK(m, w.srv[m])
    BY <1>1, <1>3, WorldTypes DEF WInv
  <1>5. MTyped(MV(w.srv[m]))
    BY <1>4, ViewTyped DEF MasterOK
  <1>6. PICK x \in Server : x = w.srv[s]
    BY <1>2
  <1>7. PICK k \in Conns \cup {None} : k = w.conn[s]
    BY <1>2
  <1>8. Shape(s, x, k)
    BY <1>1, <1>6, <1>7 DEF SlaveOK
  <1>9. STyped(SV(x), k)
    BY <1>8 DEF STyped, SV, Server, Shape
  <1> QED BY <1>3, <1>5, <1>6, <1>7, <1>9

LEMMA NotItsMaster ==
    ASSUME NEW w, WInv(w), NEW m \in Servers, NEW s \in Servers, w.srv[s].masterhost # m
    PROVE  w.cl[m][s] = None
  BY DEF WInv, SlaveOK

LEMMA NotItsOwnMaster ==
    ASSUME NEW w, WInv(w), NEW m \in Servers
    PROVE  w.cl[m][m] = None /\ w.srv[m].masterhost # m
  BY DEF WInv, SlaveOK, Shape

LEMMA NotConnected ==
    ASSUME NEW w, WInv(w), NEW m \in Servers, NEW s \in Servers, w.conn[s] = None
    PROVE  w.cl[m][s] = None
  <1>1. SUFFICES ASSUME w.srv[s].masterhost = m PROVE w.cl[m][s] = None
    BY NotItsMaster
  <1>2. m # None
    BY NoneAssumption
  <1>3. Pair(w, m, s)
    BY <1>1, <1>2, PairFacts
  <1> QED BY <1>3 DEF Pair, PairOK, LinkedOK

\* A step of a slave.
SlaveSide(w, w2, s) ==
  \A t \in Servers \ {s} : w2.srv[t] = w.srv[t] /\ w2.conn[t] = w.conn[t] /\ \A m \in Servers : w2.cl[m][t] = w.cl[m][t]

LEMMA SlaveStep ==
    ASSUME NEW w, WInv(w), NEW w2 \in Worlds, NEW s \in Servers, SlaveSide(w, w2, s),
           \/ MV(w2.srv[s]) = MV(w.srv[s])
           \/ SlavesOf(w, s) = {} /\ Keeps(MV(w.srv[s]), MV(w2.srv[s])),
           MasterOK(s, w2.srv[s]), SlaveOK(w2, s)
    PROVE  WInv(w2)
  <1>1. OthersAlone(w, w2, s)
    BY DEF OthersAlone, SlaveSide
  <1>2. ASSUME NEW t \in Servers, t # s, w.srv[t].masterhost = s
        PROVE  (w2.conn[t] = None <=> w.conn[t] = None) /\ (w2.conn[t] # None => w2.conn[t].to = s) /\ Pair(w2, s, t)
    <2>1. w2.srv[t] = w.srv[t] /\ w2.conn[t] = w.conn[t] /\ w2.cl[s][t] = w.cl[s][t]
      BY <1>2 DEF SlaveSide
    <2>2. Shape(t, w.srv[t], w.conn[t]) /\ s # None
      BY NoneAssumption DEF WInv, SlaveOK
    <2>3. Pair(w, s, t) /\ MTyped(MV(w.srv[s])) /\ STyped(SV(w.srv[t]), w.conn[t])
      BY <1>2, <2>2, PairFacts
    <2>4. CASE MV(w2.srv[s]) = MV(w.srv[s])
      BY <1>2, <2>1, <2>2, <2>3, <2>4 DEF Pair, Shape
    <2>5. CASE SlavesOf(w, s) = {} /\ Keeps(MV(w.srv[s]), MV(w2.srv[s]))
      <3>1. w.cl[s][t] = None
        BY <2>5 DEF SlavesOf
      <3>2. PICK a : a = MV(w.srv[s])
        OBVIOUS
      <3>3. PICK b : b = MV(w2.srv[s])
        OBVIOUS
      <3>4. PICK x : x = SV(w.srv[t])
        OBVIOUS
      <3>5. PICK k : k = w.conn[t]
        OBVIOUS
      <3>6. PairOK(a, x, None, k) /\ STyped(x, k) /\ Keeps(a, b)
        BY <2>3, <2>5, <3>1, <3>2, <3>3, <3>4, <3>5 DEF Pair
      <3>7. PairOK(b, x, None, k)
        BY ONLY <3>6, PairKeeps
      <3>8. Pair(w2, s, t)
        BY <2>1, <3>1, <3>3, <3>4, <3>5, <3>7 DEF Pair
      <3> QED BY <1>2, <2>1, <2>2, <3>8 DEF Shape
    <2> QED BY <2>4, <2>5
  <1>3. SlavesFit(w, w2, s)
    BY <1>2 DEF SlavesFit
  <1> QED BY <1>1, <1>3, StepOfOne

\* A step of a master.
SameRole(x, y) ==
  /\ x.masterhost = y.masterhost /\ x.repl_state = y.repl_state /\ x.master = y.master /\ x.cached = y.cached /\ x.init = y.init
  /\ x.masterhost = None \/ x.data = y.data
MasterSide(w, w2, m) ==
  /\ \A t \in Servers \ {m} : w2.srv[t] = w.srv[t] /\ \A r \in Servers : w2.cl[t][r] = w.cl[t][r]
  /\ \A t \in Servers : w.srv[t].masterhost # m => w2.conn[t] = w.conn[t] /\ w2.cl[m][t] = w.cl[m][t]

LEMMA MasterStep ==
    ASSUME NEW w, WInv(w), NEW w2 \in Worlds, NEW m \in Servers, MasterSide(w, w2, m), SameRole(w.srv[m], w2.srv[m]),
           MasterOK(m, w2.srv[m]), SlavesFit(w, w2, m)
    PROVE  WInv(w2)
  <1>1. OthersAlone(w, w2, m)
    BY DEF OthersAlone, MasterSide
  <1>2. w2.conn[m] = w.conn[m] /\ w2.cl[m][m] = w.cl[m][m]
    BY NotItsOwnMaster DEF MasterSide
  <1>3. \A r \in Servers : w2.cl[r][m] = w.cl[r][m]
    BY <1>2 DEF MasterSide
  <1>4. SlaveOK(w, m)
    BY DEF WInv
  <1>5. Shape(m, w2.srv[m], w2.conn[m])
    BY <1>2, <1>4 DEF SlaveOK, Shape, SameRole
  <1>6. ASSUME w2.srv[m].masterhost # None PROVE Pair(w2, w2.srv[m].masterhost, m)
    <2>1. PICK r : r = w.srv[m].masterhost
      OBVIOUS
    <2>2. r = w2.srv[m].masterhost /\ r # None /\ SV(w2.srv[m]) = SV(w.srv[m])
      BY <1>6, <2>1 DEF SameRole, SV
    <2>3. r \in Servers /\ r # m /\ Pair(w, r, m)
      BY <2>1, <2>2, PairFacts
    <2>4. w2.srv[r] = w.srv[r]
      BY <2>3 DEF MasterSide
    <2>5. Pair(w2, r, m)
      BY <1>2, <1>3, <2>2, <2>3, <2>4 DEF Pair
    <2> QED BY <2>2, <2>5
  <1>7. SlaveOK(w2, m)
    BY <1>3, <1>4, <1>5, <1>6 DEF SlaveOK, SameRole
  <1> QED BY <1>1, <1>7, StepOfOne

\* What a master has to show for one slave.
LEMMA SlavesFitOne ==
    ASSUME NEW w, WInv(w), NEW w2, NEW m \in Servers,
           \A t \in Servers : w.srv[t].masterhost = m =>
             /\ w.conn[t] = None => w2.conn[t] = None
             /\ w.conn[t] # None => w2.conn[t] # None /\ w2.conn[t].to = w.conn[t].to
             /\ Pair(w2, m, t)
    PROVE  SlavesFit(w, w2, m)
  <1> SUFFICES ASSUME NEW t \in Servers, t # m, w.srv[t].masterhost = m
               PROVE  (w2.conn[t] = None <=> w.conn[t] = None) /\ (w2.conn[t] # None => w2.conn[t].to = m) /\ Pair(w2, m, t)
    BY DEF SlavesFit
  <1>1. Shape(t, w.srv[t], w.conn[t])
    BY DEF WInv, SlaveOK
  <1> QED BY <1>1 DEF Shape

---------------------------------------------------------------------------
(* Slaves that are dropped, a backlog that is freed.                       *)

LEMMA ClosedType ==
    ASSUME NEW k \in Conns \cup {None}
    PROVE  /\ Closed(k) \in Conns \cup {None} /\ (k = None => Closed(k) = None)
           /\ k # None => Closed(k) # None /\ Closed(k).to = k.to /\ Closed(k).req = k.req /\ Closed(k).wire = k.wire
  <1>1. CASE k = None
    BY <1>1 DEF Closed
  <1>2. CASE k # None
    <2>1. PICK j : j = [k EXCEPT !.open = FALSE]
      OBVIOUS
    <2>2. k \in Conns
      BY <1>2
    <2>3. j \in Conns /\ j.to = k.to /\ j.req = k.req /\ j.wire = k.wire
      BY <2>1, <2>2 DEF Conns
    <2>4. Closed(k) = j
      BY <1>2, <2>1 DEF Closed
    <2> QED BY <1>2, <2>3, <2>4, NoneAssumption
  <1> QED BY <1>1, <1>2

LEMMA FreeSlavesWorld ==
    ASSUME NEW w \in Worlds, NEW m \in Servers, NEW S, NEW w2, w2 = freeSlaves(w, m, S)
    PROVE  /\ w2 \in Worlds /\ w2.srv = w.srv
           /\ \A t \in Servers : w2.conn[t] = IF t \in S THEN Closed(w.conn[t]) ELSE w.conn[t]
           /\ \A t \in Servers : w2.cl[m][t] = IF t \in S THEN None ELSE w.cl[m][t]
           /\ \A r \in Servers, t \in Servers : r # m => w2.cl[r][t] = w.cl[r][t]
  <1>1. w = [srv |-> w.srv, cl |-> w.cl, conn |-> w.conn]
        /\ w.srv \in [Servers -> Server] /\ w.cl \in [Servers -> [Servers -> Clients \cup {None}]] /\ w.conn \in [Servers -> Conns \cup {None}]
    BY WorldTypes
  <1>2. PICK f : f = [s \in Servers |-> IF s \in S THEN None ELSE w.cl[m][s]]
    OBVIOUS
  <1>3. PICK g : g = [s \in Servers |-> IF s \in S THEN Closed(w.conn[s]) ELSE w.conn[s]]
    OBVIOUS
  <1>4. f \in [Servers -> Clients \cup {None}]
    BY <1>1, <1>2
  <1>5. g \in [Servers -> Conns \cup {None}]
    BY <1>1, <1>3, ClosedType
  <1>6. w2 = [srv |-> w.srv, cl |-> [w.cl EXCEPT ![m] = f], conn |-> g]
    BY <1>1, <1>2, <1>3 DEF freeSlaves
  <1>7. [w.cl EXCEPT ![m] = f] \in [Servers -> [Servers -> Clients \cup {None}]]
    BY <1>1, <1>4
  <1>8. w2 \in Worlds
    BY <1>1, <1>5, <1>6, <1>7 DEF Worlds
  <1>9. w2.srv = w.srv /\ w2.cl = [w.cl EXCEPT ![m] = f] /\ w2.conn = g
    BY <1>6
  <1> QED BY <1>1, <1>2, <1>3, <1>8, <1>9

LEMMA FreeSlavesInv ==
    ASSUME NEW w, WInv(w), NEW m \in Servers, NEW S \in SUBSET SlavesOf(w, m), NEW w2, w2 = freeSlaves(w, m, S)
    PROVE  WInv(w2)
  <1>1. w \in Worlds
    BY DEF WInv
  <1>2. /\ w2 \in Worlds /\ w2.srv = w.srv
        /\ \A t \in Servers : w2.conn[t] = IF t \in S THEN Closed(w.conn[t]) ELSE w.conn[t]
        /\ \A t \in Servers : w2.cl[m][t] = IF t \in S THEN None ELSE w.cl[m][t]
        /\ \A r \in Servers, t \in Servers : r # m => w2.cl[r][t] = w.cl[r][t]
    BY <1>1, FreeSlavesWorld
  <1>3. \A t \in S : t \in Servers /\ w.cl[m][t] # None /\ w.srv[t].masterhost = m
    BY NotItsMaster DEF SlavesOf
  <1>4. MasterSide(w, w2, m)
    BY <1>2, <1>3 DEF MasterSide
  <1>5. ASSUME NEW t \in Servers, w.srv[t].masterhost = m
        PROVE  /\ w.conn[t] = None => w2.conn[t] = None
               /\ w.conn[t] # None => w2.conn[t] # None /\ w2.conn[t].to = w.conn[t].to
               /\ Pair(w2, m, t)
    <2>1. m # None
      BY NoneAssumption
    <2>2. Pair(w, m, t) /\ MTyped(MV(w.srv[m])) /\ STyped(SV(w.srv[t]), w.conn[t])
      BY <1>5, <2>1, PairFacts
    <2>3. PICK k \in Conns \cup {None} : k = w.conn[t]
      BY <1>1, WorldTypes
    <2>4. CASE t \in S
      <3>1. w2.conn[t] = Closed(k) /\ w2.cl[m][t] = None /\ w.cl[m][t] # None
        BY <1>2, <1>3, <2>3, <2>4
      <3>2. k # None
        BY <2>2, <2>3, <3>1 DEF Pair, PairOK, LinkedOK
      <3>3. Closed(k) # None /\ Closed(k).to = k.to /\ Closed(k).req = k.req /\ Closed(k).wire = k.wire
        BY <3>2, ClosedType
      <3>4. PICK v : v = MV(w.srv[m])
        OBVIOUS
      <3>5. PICK x : x = SV(w.srv[t])
        OBVIOUS
      <3>6. PICK j : j = Closed(k)
        OBVIOUS
      <3>7. PICK c : c = w.cl[m][t]
        OBVIOUS
      <3>8. PairOK(v, x, c, k) /\ MTyped(v) /\ STyped(x, k)
        BY <2>2, <2>3, <3>4, <3>5, <3>7 DEF Pair
      <3>9. j # None /\ j.req = k.req /\ (j.wire = k.wire \/ j.wire = <<>>)
        BY <3>3, <3>6
      <3>10. PairOK(v, x, None, j)
        BY ONLY <3>2, <3>8, <3>9, PairCut
      <3>11. Pair(w2, m, t)
        BY <1>2, <3>1, <3>4, <3>5, <3>6, <3>10 DEF Pair
      <3> QED BY <2>3, <3>1, <3>2, <3>3, <3>11
    <2>5. CASE t \notin S
      <3>1. w2.conn[t] = w.conn[t] /\ w2.cl[m][t] = w.cl[m][t]
        BY <1>2, <2>5
      <3> QED BY <1>2, <2>2, <3>1 DEF Pair
    <2> QED BY <2>4, <2>5
  <1>6. SlavesFit(w, w2, m)
    BY <1>5, SlavesFitOne
  <1>7. MasterOK(m, w2.srv[m]) /\ SameRole(w.srv[m], w2.srv[m])
    BY <1>2 DEF WInv, SameRole
  <1> QED BY <1>2, <1>4, <1>6, <1>7, MasterStep

LEMMA DisconnectInv ==
    ASSUME NEW w, WInv(w), NEW m \in Servers, NEW w2, w2 = disconnectSlaves(w, m)
    PROVE  /\ WInv(w2) /\ w2.srv = w.srv /\ SlavesOf(w2, m) = {} /\ w2.conn[m] = w.conn[m]
           /\ \A r \in Servers : w2.cl[r][m] = w.cl[r][m]
  <1>1. PICK S \in SUBSET SlavesOf(w, m) : S = SlavesOf(w, m)
    OBVIOUS
  <1>2. w2 = freeSlaves(w, m, S) /\ w \in Worlds
    BY <1>1 DEF disconnectSlaves, WInv
  <1>3. WInv(w2)
    BY <1>2, FreeSlavesInv
  <1>4. /\ w2.srv = w.srv
        /\ \A t \in Servers : w2.conn[t] = IF t \in S THEN Closed(w.conn[t]) ELSE w.conn[t]
        /\ \A t \in Servers : w2.cl[m][t] = IF t \in S THEN None ELSE w.cl[m][t]
        /\ \A r \in Servers, t \in Servers : r # m => w2.cl[r][t] = w.cl[r][t]
    BY <1>2, FreeSlavesWorld
  <1>5. w.cl[m][m] = None
    BY NotItsOwnMaster
  <1>6. m \notin S
    BY <1>1, <1>5 DEF SlavesOf
  <1>7. SlavesOf(w2, m) = {}
    BY <1>1, <1>4 DEF SlavesOf
  <1> QED BY <1>3, <1>4, <1>6, <1>7

SrvSet(w, w2, s, y) ==
  /\ w2 \in Worlds /\ w2.srv = [w.srv EXCEPT ![s] = y] /\ w2.cl = w.cl /\ w2.conn = w.conn
  /\ w2.srv[s] = y /\ \A t \in Servers : t # s => w2.srv[t] = w.srv[t]

LEMMA WorldSrv ==
    ASSUME NEW w \in Worlds, NEW s \in Servers, NEW y \in Server, NEW w2, w2 = [w EXCEPT !.srv[s] = y]
    PROVE  SrvSet(w, w2, s, y)
  <1>1. w = [srv |-> w.srv, cl |-> w.cl, conn |-> w.conn]
        /\ w.srv \in [Servers -> Server] /\ w.cl \in [Servers -> [Servers -> Clients \cup {None}]] /\ w.conn \in [Servers -> Conns \cup {None}]
    BY WorldTypes
  <1>2. PICK f : f = [w.srv EXCEPT ![s] = y]
    OBVIOUS
  <1>3. f \in [Servers -> Server] /\ f[s] = y /\ \A t \in Servers : t # s => f[t] = w.srv[t]
    BY <1>1, <1>2
  <1>4. w2 = [srv |-> f, cl |-> w.cl, conn |-> w.conn]
    BY <1>1, <1>2
  <1> QED BY <1>1, <1>2, <1>3, <1>4 DEF Worlds, SrvSet

LEMMA SrvSetTwice ==
    ASSUME NEW w \in Worlds, NEW s \in Servers, NEW y \in Server, NEW z \in Server, NEW e, e = [w EXCEPT !.srv[s] = y]
    PROVE  [e EXCEPT !.srv[s] = z] = [w EXCEPT !.srv[s] = z]
  <1>1. w = [srv |-> w.srv, cl |-> w.cl, conn |-> w.conn] /\ w.srv \in [Servers -> Server]
    BY WorldTypes
  <1>2. [w EXCEPT !.srv[s] = z] = [srv |-> [w.srv EXCEPT ![s] = z], cl |-> w.cl, conn |-> w.conn]
    BY <1>1
  <1>3. PICK f \in [Servers -> Server] : f = [w.srv EXCEPT ![s] = y]
    <2>1. [w.srv EXCEPT ![s] = y] \in [Servers -> Server]
      BY <1>1
    <2> QED BY <2>1
  <1>4. e = [srv |-> e.srv, cl |-> e.cl, conn |-> e.conn] /\ e.srv = f /\ e.cl = w.cl /\ e.conn = w.conn
    <2>1. SrvSet(w, e, s, y)
      BY WorldSrv
    <2> QED BY <1>3, <2>1, WorldTypes DEF SrvSet
  <1>5. [e EXCEPT !.srv[s] = z] = [srv |-> [e.srv EXCEPT ![s] = z], cl |-> e.cl, conn |-> e.conn]
    <2>1. e = [srv |-> e.srv, cl |-> e.cl, conn |-> e.conn] /\ e.srv \in [Servers -> Server]
      BY <1>3, <1>4
    <2> QED BY ONLY <2>1
  <1>6. [f EXCEPT ![s] = z] = [w.srv EXCEPT ![s] = z]
    BY <1>1, <1>3
  <1> QED BY <1>2, <1>4, <1>5, <1>6

LEMMA NoBacklog ==
    ASSUME NEW v \in Server, NEW v2, v2 = [v EXCEPT !.backlog = None], v.backlog # None => BacklogOK(v)
    PROVE  v2 \in Server /\ v2.backlog = None /\ SV(v2) = SV(v) /\ SameRole(v, v2) /\ Keeps(MV(v), MV(v2))
  <1>1. v2 \in Server /\ v2.backlog = None /\ v2.runid = v.runid /\ v2.reused = v.reused /\ v2.offset = v.offset
    BY DEF Server
  <1>2. SV(v2) = SV(v) /\ SameRole(v, v2)
    BY DEF SV, SameRole, Server
  <1>3. PICK a : a = MV(v)
    OBVIOUS
  <1>4. PICK b : b = MV(v2)
    OBVIOUS
  <1>5. MTyped(a) /\ MTyped(b)
    BY <1>1, <1>3, <1>4, ViewTyped
  <1>6. a.runid = b.runid /\ a.reused = b.reused /\ a.offset = b.offset /\ b.backlog = None /\ a.offset \in Int
    BY <1>1, <1>3, <1>4 DEF MV, Server, Offsets
  <1>7. Severs(a, b)
    BY <1>6 DEF Severs
  <1>8. Keeps(a, b)
    BY <1>5, <1>7, SeversKeeps
  <1> QED BY <1>1, <1>2, <1>3, <1>4, <1>8

LEMMA FreeBacklogWorld ==
    ASSUME NEW w \in Worlds, NEW m \in Servers
    PROVE  freeReplicationBacklog(w, m) = [w EXCEPT !.srv[m] = [w.srv[m] EXCEPT !.backlog = None]]
  BY DEF freeReplicationBacklog

LEMMA FreeBacklogInv ==
    ASSUME NEW w, WInv(w), NEW m \in Servers, SlavesOf(w, m) = {}, NEW w2, w2 = freeReplicationBacklog(w, m)
    PROVE  /\ WInv(w2) /\ w2.srv[m] = [w.srv[m] EXCEPT !.backlog = None] /\ w2.cl = w.cl /\ w2.conn = w.conn
           /\ \A t \in Servers : t # m => w2.srv[t] = w.srv[t]
  <1>1. w \in Worlds /\ MasterOK(m, w.srv[m]) /\ SlaveOK(w, m)
    BY DEF WInv
  <1>2. PICK v \in Server : v = w.srv[m]
    BY <1>1, WorldTypes
  <1>3. PICK v2 : v2 = [v EXCEPT !.backlog = None]
    OBVIOUS
  <1>4. v2 \in Server /\ v2.backlog = None /\ SV(v2) = SV(v) /\ SameRole(v, v2) /\ Keeps(MV(v), MV(v2))
    BY <1>1, <1>2, <1>3, NoBacklog DEF MasterOK
  <1>5. w2 = [w EXCEPT !.srv[m] = v2]
    BY <1>1, <1>2, <1>3, FreeBacklogWorld
  <1>6. w2 \in Worlds /\ w2.cl = w.cl /\ w2.conn = w.conn /\ w2.srv[m] = v2 /\ \A t \in Servers : t # m => w2.srv[t] = w.srv[t]
    <2>1. SrvSet(w, w2, m, v2)
      BY <1>1, <1>4, <1>5, WorldSrv
    <2> QED BY <2>1 DEF SrvSet
  <1>7. MasterOK(m, w2.srv[m])
    <2>1. v2.runid = v.runid
      BY <1>3 DEF Server
    <2> QED BY <1>1, <1>2, <1>4, <1>6, <2>1 DEF MasterOK
  <1>8. SlaveSide(w, w2, m)
    BY <1>6 DEF SlaveSide
  <1>9. SlaveOK(w2, m)
    <2>1. Shape(m, w2.srv[m], w2.conn[m])
      BY <1>1, <1>2, <1>4, <1>6 DEF SlaveOK, Shape, SameRole
    <2>2. ASSUME v2.masterhost # None PROVE Pair(w2, v2.masterhost, m)
      <3>1. PICK r : r = v.masterhost
        OBVIOUS
      <3>2. r = v2.masterhost /\ r # None
        BY <1>4, <2>2, <3>1 DEF SameRole
      <3>3. r \in Servers /\ r # m /\ Pair(w, r, m)
        BY <1>2, <3>1, <3>2, PairFacts
      <3> QED BY <1>2, <1>4, <1>6, <3>2, <3>3 DEF Pair
    <2> QED BY <1>1, <1>2, <1>4, <1>6, <2>1, <2>2 DEF SlaveOK, SameRole
  <1>10. Keeps(MV(w.srv[m]), MV(w2.srv[m]))
    BY <1>2, <1>4, <1>6
  <1>11. WInv(w2)
    BY <1>6, <1>7, <1>8, <1>9, <1>10, SlaveStep
  <1> QED BY <1>2, <1>3, <1>6, <1>11

\* Its slaves are dropped and its backlog too.
LEMMA DroppedInv ==
    ASSUME NEW w, WInv(w), NEW m \in Servers, NEW w2, w2 = freeReplicationBacklog(disconnectSlaves(w, m), m)
    PROVE  /\ WInv(w2) /\ SlavesOf(w2, m) = {} /\ w2.srv[m] = [w.srv[m] EXCEPT !.backlog = None] /\ w2.conn[m] = w.conn[m]
           /\ \A r \in Servers : w2.cl[r][m] = w.cl[r][m]
           /\ \A t \in Servers : t # m => w2.srv[t] = w.srv[t]
  <1>1. PICK d : d = disconnectSlaves(w, m)
    OBVIOUS
  <1>2. WInv(d) /\ d.srv = w.srv /\ SlavesOf(d, m) = {} /\ d.conn[m] = w.conn[m] /\ \A r \in Servers : d.cl[r][m] = w.cl[r][m]
    BY <1>1, DisconnectInv
  <1>3. w2 = freeReplicationBacklog(d, m)
    BY <1>1
  <1>4. /\ WInv(w2) /\ w2.srv[m] = [d.srv[m] EXCEPT !.backlog = None] /\ w2.cl = d.cl /\ w2.conn = d.conn
        /\ \A t \in Servers : t # m => w2.srv[t] = d.srv[t]
    BY <1>2, <1>3, FreeBacklogInv
  <1>5. SlavesOf(w2, m) = {}
    BY <1>2, <1>4 DEF SlavesOf
  <1> QED BY <1>2, <1>4, <1>5

---------------------------------------------------------------------------
(* A slave that closes its connection.                                     *)

Gone(w, w2, s) ==
  w2 \in Worlds /\ SlaveSide(w, w2, s) /\ w2.conn[s] = None /\ \A m \in Servers : w2.cl[m][s] = None

LEMMA Leaves ==
    ASSUME NEW w, WInv(w), NEW s \in Servers, NEW w2, Gone(w, w2, s), NEW y, y = w2.srv[s], MasterOK(s, y), Shape(s, y, None),
           y.masterhost # None => CachedOK(MV(w.srv[y.masterhost]), SV(y)),
           \/ MV(y) = MV(w.srv[s])
           \/ SlavesOf(w, s) = {} /\ Keeps(MV(w.srv[s]), MV(y))
    PROVE  WInv(w2)
  <1>1. w2 \in Worlds /\ SlaveSide(w, w2, s) /\ w2.conn[s] = None /\ \A m \in Servers : w2.cl[m][s] = None
    BY DEF Gone
  <1>2. y \in Server
    BY <1>1, WorldTypes
  <1>3. ASSUME y.masterhost # None PROVE Pair(w2, y.masterhost, s)
    <2>1. PICK m \in Servers : m = y.masterhost
      BY <1>2, <1>3 DEF Server
    <2>2. m # s
      BY <2>1 DEF Shape
    <2>3. w2.srv[m] = w.srv[m] /\ w2.cl[m][s] = None
      BY <1>1, <2>2 DEF SlaveSide
    <2>4. CachedOK(MV(w.srv[m]), SV(y))
      BY <1>3, <2>1
    <2>5. PairOK(MV(w.srv[m]), SV(y), None, None)
      BY <2>4, PairUnconnected
    <2> QED BY <1>1, <2>1, <2>3, <2>5 DEF Pair
  <1>4. SlaveOK(w2, s)
    BY <1>1, <1>3 DEF SlaveOK
  <1> QED BY <1>1, <1>4, SlaveStep

\* CloseConn, after changes of the server of the slave only.
LEMMA ClosesConn ==
    ASSUME NEW w, WInv(w), NEW s \in Servers, NEW y \in Server, NEW e, e = [w EXCEPT !.srv[s] = y], NEW w2, w2 = CloseConn(e, s)
    PROVE  Gone(w, w2, s) /\ w2.srv[s] = y
  <1>1. w \in Worlds
    BY DEF WInv
  <1>2. /\ e \in Worlds /\ e.cl = w.cl /\ e.conn = w.conn
        /\ e.srv[s] = y /\ \A t \in Servers : t # s => e.srv[t] = w.srv[t]
    <2>1. SrvSet(w, e, s, y)
      BY <1>1, WorldSrv
    <2> QED BY <2>1 DEF SrvSet
  <1>3. CASE w.conn[s] = None
    <2>1. w2 = e
      BY <1>2, <1>3 DEF CloseConn
    <2>2. \A m \in Servers : w.cl[m][s] = None
      BY <1>3, NotConnected
    <2> QED BY <1>2, <1>3, <2>1, <2>2 DEF Gone, SlaveSide
  <1>4. CASE w.conn[s] # None
    <2>1. PICK k \in Conns : k = w.conn[s]
      BY <1>1, <1>4, WorldTypes
    <2>2. PICK m \in Servers : m = k.to
      BY DEF Conns
    <2>3. w.srv[s].masterhost = m
      BY <1>4, <2>1, <2>2 DEF WInv, SlaveOK, Shape
    <2>4. \A r \in Servers : r # m => w.cl[r][s] = None
      BY <2>3, NotItsMaster
    <2>5. e = [srv |-> e.srv, cl |-> w.cl, conn |-> w.conn] /\ e.srv \in [Servers -> Server]
      BY <1>2, WorldTypes
    <2>6. w.cl \in [Servers -> [Servers -> Clients \cup {None}]] /\ w.conn \in [Servers -> Conns \cup {None}]
      BY <1>1, WorldTypes
    <2>7. w2 = [e EXCEPT !.conn[s] = None, !.cl[m][s] = None]
      BY <1>2, <1>4, <2>1, <2>2 DEF CloseConn
    <2>8. PICK f : f = [w.cl EXCEPT ![m][s] = None]
      OBVIOUS
    <2>9. PICK g : g = [w.conn EXCEPT ![s] = None]
      OBVIOUS
    <2>10. w2 = [srv |-> e.srv, cl |-> f, conn |-> g]
      BY <2>5, <2>7, <2>8, <2>9
    <2>11. f \in [Servers -> [Servers -> Clients \cup {None}]] /\ f[m][s] = None /\ (\A r \in Servers : r # m => f[r] = w.cl[r])
           /\ (\A t \in Servers : t # s => f[m][t] = w.cl[m][t])
      BY <2>6, <2>8
    <2>12. g \in [Servers -> Conns \cup {None}] /\ g[s] = None /\ (\A t \in Servers : t # s => g[t] = w.conn[t])
      BY <2>6, <2>9
    <2>13. w2 \in Worlds /\ w2.srv = e.srv /\ w2.cl = f /\ w2.conn = g
      <3>1. [srv |-> e.srv, cl |-> f, conn |-> g] \in Worlds
        BY <2>5, <2>11, <2>12 DEF Worlds
      <3> QED BY <2>10, <3>1
    <2>14. SlaveSide(w, w2, s)
      <3>1. \A t \in Servers : t # s => w2.srv[t] = w.srv[t] /\ w2.conn[t] = w.conn[t]
        BY ONLY <1>2, <2>12, <2>13
      <3>2. \A r, t \in Servers : t # s => w2.cl[r][t] = w.cl[r][t]
        BY ONLY <2>11, <2>13
      <3> QED BY ONLY <2>13, <3>1, <3>2 DEF SlaveSide
    <2>15. \A r \in Servers : w2.cl[r][s] = None
      BY ONLY <2>4, <2>11, <2>13
    <2>16. w2.conn[s] = None /\ w2.srv[s] = y
      BY ONLY <1>2, <2>12, <2>13, s \in Servers
    <2> QED BY ONLY <2>13, <2>14, <2>15, <2>16 DEF Gone
  <1> QED BY <1>3, <1>4

LEMMA CancelCloses ==
    ASSUME NEW w, WInv(w), NEW s \in Servers, NEW y \in Server, NEW e, e = [w EXCEPT !.srv[s] = y], NEW w2, w2 = cancelReplicationHandshake(e, s),
           y.repl_state = w.srv[s].repl_state, y.repl_state # "CONNECTED"
    PROVE  /\ Gone(w, w2, s)
           /\ w2.srv[s] = [y EXCEPT !.repl_state = IF y.repl_state = "NONE" THEN "NONE" ELSE "CONNECT"]
  <1>1. w \in Worlds
    BY DEF WInv
  <1>2. /\ e \in Worlds /\ e.cl = w.cl /\ e.conn = w.conn /\ e.srv = [w.srv EXCEPT ![s] = y]
        /\ e.srv[s] = y /\ \A t \in Servers : t # s => e.srv[t] = w.srv[t]
    <2>1. SrvSet(w, e, s, y)
      BY <1>1, WorldSrv
    <2> QED BY <2>1 DEF SrvSet
  <1>3. CASE y.repl_state \in {"CONNECTING", "RECEIVE_PSYNC", "TRANSFER"}
    <2>1. PICK z : z = [y EXCEPT !.repl_state = "CONNECT"]
      OBVIOUS
    <2>2. z \in Server
      BY <2>1 DEF Server
    <2>3. w2 = CloseConn([e EXCEPT !.srv[s].repl_state = "CONNECT"], s)
      BY <1>2, <1>3 DEF cancelReplicationHandshake
    <2>4. [e EXCEPT !.srv[s].repl_state = "CONNECT"] = [w EXCEPT !.srv[s] = z]
      <3>1. [e EXCEPT !.srv[s].repl_state = "CONNECT"] = [e EXCEPT !.srv[s] = [e.srv[s] EXCEPT !.repl_state = "CONNECT"]]
        OBVIOUS
      <3>2. [e EXCEPT !.srv[s] = z] = [w EXCEPT !.srv[s] = z]
        BY <1>1, <2>2, SrvSetTwice, ZenonT(60)
      <3> QED BY <1>2, <2>1, <3>1, <3>2
    <2>5. PICK e2 : e2 = [w EXCEPT !.srv[s] = z]
      OBVIOUS
    <2>6. w2 = CloseConn(e2, s)
      BY <2>3, <2>4, <2>5
    <2>7. Gone(w, w2, s) /\ w2.srv[s] = z
      BY <2>2, <2>5, <2>6, ClosesConn
    <2> QED BY <1>3, <2>1, <2>7
  <1>4. CASE y.repl_state \in {"NONE", "CONNECT"}
    <2>1. w2 = e
      BY <1>2, <1>4 DEF cancelReplicationHandshake
    <2>2. w.conn[s] = None
      BY <1>4 DEF WInv, SlaveOK, Shape
    <2>3. e = CloseConn(e, s)
      BY <1>2, <2>2 DEF CloseConn
    <2>4. Gone(w, w2, s) /\ w2.srv[s] = y
      BY <2>1, <2>3, ClosesConn
    <2>5. [y EXCEPT !.repl_state = IF y.repl_state = "NONE" THEN "NONE" ELSE "CONNECT"] = y
      BY <1>4 DEF Server
    <2> QED BY <2>4, <2>5
  <1>5. y.repl_state \in {"NONE", "CONNECT", "CONNECTING", "RECEIVE_PSYNC", "TRANSFER", "CONNECTED"}
    BY DEF Server
  <1> QED BY <1>3, <1>4, <1>5

LEMMA GoneSet ==
    ASSUME NEW w, NEW s \in Servers, NEW w1, Gone(w, w1, s), NEW y \in Server, NEW w2, SrvSet(w1, w2, s, y)
    PROVE  Gone(w, w2, s) /\ w2.srv[s] = y
  BY DEF Gone, SlaveSide, SrvSet

LEMMA SrvSame ==
    ASSUME NEW w \in Worlds, NEW s \in Servers
    PROVE  w = [w EXCEPT !.srv[s] = w.srv[s]]
  <1>1. w = [srv |-> w.srv, cl |-> w.cl, conn |-> w.conn] /\ w.srv \in [Servers -> Server]
    BY WorldTypes
  <1>2. [w EXCEPT !.srv[s] = w.srv[s]] = [srv |-> [w.srv EXCEPT ![s] = w.srv[s]], cl |-> w.cl, conn |-> w.conn]
    BY <1>1
  <1>3. [w.srv EXCEPT ![s] = w.srv[s]] = w.srv
    BY <1>1
  <1> QED BY <1>1, <1>2, <1>3

\* What Leaves needs of the cached master: the same one, or that of a connected slave.
LEMMA CachedSame ==
    ASSUME NEW w, WInv(w), NEW s \in Servers, NEW y, y.masterhost = w.srv[s].masterhost, y.data = w.srv[s].data,
           y.cached = None \/ y.cached = w.srv[s].cached \/ (w.srv[s].repl_state = "CONNECTED" /\ y.cached = w.srv[s].master)
    PROVE  y.masterhost # None => CachedOK(MV(w.srv[y.masterhost]), SV(y))
  <1> SUFFICES ASSUME y.masterhost # None PROVE CachedOK(MV(w.srv[y.masterhost]), SV(y))
    OBVIOUS
  <1>1. PICK m : m = y.masterhost
    OBVIOUS
  <1>2. m \in Servers /\ Pair(w, m, s) /\ MTyped(MV(w.srv[m])) /\ STyped(SV(w.srv[s]), w.conn[s])
    BY <1>1, PairFacts
  <1>3. PICK v : v = MV(w.srv[m])
    OBVIOUS
  <1>4. PICK x : x = SV(w.srv[s])
    OBVIOUS
  <1>5. PICK k : k = w.conn[s]
    OBVIOUS
  <1>6. PICK c : c = w.cl[m][s]
    OBVIOUS
  <1>7. PICK z : z = SV(y)
    OBVIOUS
  <1>8. PairOK(v, x, c, k) /\ MTyped(v) /\ STyped(x, k)
    BY <1>2, <1>3, <1>4, <1>5, <1>6 DEF Pair
  <1>9. x.data = w.srv[s].data /\ x.cached = w.srv[s].cached /\ x.master = w.srv[s].master /\ x.repl_state = w.srv[s].repl_state
        /\ z.cached = y.cached /\ z.data = y.data
    BY <1>4, <1>7 DEF SV
  <1>10. CASE y.cached = None \/ y.cached = w.srv[s].cached
    BY <1>1, <1>3, <1>7, <1>8, <1>9, <1>10 DEF CachedOK, PairOK
  <1>11. CASE w.srv[s].repl_state = "CONNECTED" /\ y.cached = w.srv[s].master
    <2>1. k # None
      BY <1>5, <1>11 DEF WInv, SlaveOK, Shape
    <2>2. x.repl_state = "CONNECTED" /\ z.cached = x.master /\ z.data = x.data
      BY <1>9, <1>11
    <2>3. CachedOK(v, z)
      BY ONLY <1>8, <2>1, <2>2, PairCached
    <2> QED BY <1>1, <1>3, <1>7, <2>3
  <1> QED BY <1>10, <1>11

CachingMaster(x) == [x EXCEPT !.cached = x.master, !.master = None, !.repl_state = "CONNECT"]

LEMMA CacheMasterInv ==
    ASSUME NEW w, WInv(w), NEW s \in Servers, w.srv[s].repl_state = "CONNECTED", NEW w2, w2 = replicationCacheMaster(w, s)
    PROVE  WInv(w2) /\ Gone(w, w2, s) /\ w2.srv[s] = CachingMaster(w.srv[s])
  <1>1. w \in Worlds /\ SlaveOK(w, s) /\ MasterOK(s, w.srv[s])
    BY DEF WInv
  <1>2. PICK x \in Server : x = w.srv[s]
    BY <1>1, WorldTypes
  <1>3. PICK y : y = [x EXCEPT !.cached = x.master, !.master = None, !.repl_state = "CONNECT"]
    OBVIOUS
  <1>4. y \in Server /\ y.cached = x.master /\ y.master = None /\ y.repl_state = "CONNECT" /\ y.masterhost = x.masterhost /\ y.data = x.data
        /\ y.init = x.init
    BY <1>3 DEF Server
  <1>5. MV(y) = MV(x)
    BY <1>3 DEF MV, Server
  <1>6. PICK e : e = [w EXCEPT !.srv[s] = y]
    OBVIOUS
  <1>7. w2 = CloseConn(e, s)
    <2>1. [w EXCEPT !.srv[s].cached = w.srv[s].master, !.srv[s].master = None, !.srv[s].repl_state = "CONNECT"] = e
      <3>1. w = [srv |-> w.srv, cl |-> w.cl, conn |-> w.conn] /\ w.srv \in [Servers -> Server]
        BY <1>1, WorldTypes
      <3>2. PICK w3 : w3 = [w EXCEPT !.srv[s].cached = w.srv[s].master, !.srv[s].master = None, !.srv[s].repl_state = "CONNECT"]
        OBVIOUS
      <3>3. w3 = [srv |-> [w.srv EXCEPT ![s].cached = w.srv[s].master, ![s].master = None, ![s].repl_state = "CONNECT"], cl |-> w.cl, conn |-> w.conn]
        BY <3>1, <3>2
      <3>4. [w.srv EXCEPT ![s].cached = w.srv[s].master, ![s].master = None, ![s].repl_state = "CONNECT"] = [w.srv EXCEPT ![s] = y]
        BY <1>2, <1>3, <3>1
      <3>5. e = [srv |-> [w.srv EXCEPT ![s] = y], cl |-> w.cl, conn |-> w.conn]
        BY <1>6, <3>1
      <3> QED BY <3>2, <3>3, <3>4, <3>5
    <2> QED BY <2>1 DEF replicationCacheMaster
  <1>8. Gone(w, w2, s) /\ w2.srv[s] = y
    BY <1>4, <1>6, <1>7, ClosesConn
  <1>9. MasterOK(s, y)
    <2>1. y.runid = x.runid /\ y.backlog = x.backlog /\ y.offset = x.offset
      BY <1>3 DEF Server
    <2> QED BY <1>1, <1>2, <1>4, <2>1 DEF MasterOK, BacklogOK, HU
  <1>10. Shape(s, y, None)
    BY <1>1, <1>2, <1>4 DEF SlaveOK, Shape
  <1>11. y.masterhost # None => CachedOK(MV(w.srv[y.masterhost]), SV(y))
    BY <1>2, <1>4, CachedSame
  <1>12. WInv(w2)
    BY <1>2, <1>5, <1>8, <1>9, <1>10, <1>11, Leaves
  <1> QED BY <1>2, <1>3, <1>8, <1>12 DEF CachingMaster

LEMMA CancelInv ==
    ASSUME NEW w, WInv(w), NEW s \in Servers, w.srv[s].repl_state # "CONNECTED", NEW w2, w2 = cancelReplicationHandshake(w, s)
    PROVE  WInv(w2)
  <1>1. w \in Worlds /\ SlaveOK(w, s) /\ MasterOK(s, w.srv[s])
    BY DEF WInv
  <1>2. PICK x \in Server : x = w.srv[s]
    BY <1>1, WorldTypes
  <1>3. w = [w EXCEPT !.srv[s] = x]
    BY <1>1, <1>2, SrvSame
  <1>4. PICK st : st = IF x.repl_state = "NONE" THEN "NONE" ELSE "CONNECT"
    OBVIOUS
  <1>5. PICK y : y = [x EXCEPT !.repl_state = st]
    OBVIOUS
  <1>6. Gone(w, w2, s) /\ w2.srv[s] = y
    BY <1>2, <1>3, <1>4, <1>5, CancelCloses
  <1>7. y.cached = x.cached /\ y.master = x.master /\ y.repl_state = st /\ y.masterhost = x.masterhost /\ y.data = x.data
        /\ y.init = x.init /\ y.runid = x.runid /\ y.backlog = x.backlog /\ y.offset = x.offset
    BY <1>5 DEF Server
  <1>8. MV(y) = MV(x)
    BY <1>5 DEF MV, Server
  <1>9. MasterOK(s, y)
    BY <1>1, <1>2, <1>4, <1>7 DEF MasterOK, BacklogOK, HU
  <1>10. Shape(s, y, None)
    BY <1>1, <1>2, <1>4, <1>7 DEF SlaveOK, Shape
  <1>11. y.masterhost # None => CachedOK(MV(w.srv[y.masterhost]), SV(y))
    BY <1>2, <1>7, CachedSame
  <1> QED BY <1>2, <1>6, <1>8, <1>9, <1>10, <1>11, Leaves

LEMMA PsyncReadErrorInv ==
    ASSUME NEW w, WInv(w), NEW s \in Servers, w.srv[s].repl_state = "RECEIVE_PSYNC", NEW w2, w2 = PsyncReadError(w, s)
    PROVE  WInv(w2)
  <1>1. PICK d : d = freeReplicationBacklog(disconnectSlaves(w, s), s)
    OBVIOUS
  <1>2. WInv(d) /\ SlavesOf(d, s) = {} /\ d.srv[s] = [w.srv[s] EXCEPT !.backlog = None]
    BY <1>1, DroppedInv
  <1>3. d \in Worlds /\ SlaveOK(d, s) /\ MasterOK(s, d.srv[s])
    BY <1>2 DEF WInv
  <1>4. PICK x \in Server : x = d.srv[s]
    BY <1>3, WorldTypes
  <1>5. w.srv[s] \in Server
    BY WorldTypes DEF WInv
  <1>6. x.repl_state = "RECEIVE_PSYNC" /\ x.backlog = None
    BY <1>2, <1>4, <1>5 DEF Server
  <1>7. PICK y : y = [x EXCEPT !.cached = None, !.repl_state = "CONNECT"]
    OBVIOUS
  <1>8. y \in Server /\ y.cached = None /\ y.master = x.master /\ y.repl_state = "CONNECT" /\ y.masterhost = x.masterhost /\ y.data = x.data
        /\ y.init = x.init /\ y.runid = x.runid /\ y.backlog = x.backlog /\ y.offset = x.offset
    BY <1>7 DEF Server
  <1>9. MV(y) = MV(x)
    BY <1>7 DEF MV, Server
  <1>10. PICK e : e = [d EXCEPT !.srv[s] = y]
    OBVIOUS
  <1>11. w2 = CloseConn(e, s)
    <2>1. PICK z \in Server : z = [x EXCEPT !.cached = None]
      <3>1. [x EXCEPT !.cached = None] \in Server
        BY DEF Server
      <3> QED BY <3>1
    <2>2. PICK f : f = replicationDiscardCachedMaster(d, s)
      OBVIOUS
    <2>3. f = [d EXCEPT !.srv[s] = z]
      BY <1>4, <2>1, <2>2 DEF replicationDiscardCachedMaster
    <2>4. SrvSet(d, f, s, z)
      BY <1>3, <2>3, WorldSrv
    <2>5. f.srv[s] = z
      BY <2>4 DEF SrvSet
    <2>6. [f EXCEPT !.srv[s].repl_state = "CONNECT"] = [f EXCEPT !.srv[s] = [f.srv[s] EXCEPT !.repl_state = "CONNECT"]]
      OBVIOUS
    <2>7. [f.srv[s] EXCEPT !.repl_state = "CONNECT"] = y
      BY <1>7, <2>1, <2>5
    <2>8. [f EXCEPT !.srv[s] = y] = e
      BY <1>3, <1>8, <1>10, <2>3, SrvSetTwice
    <2>9. [f EXCEPT !.srv[s].repl_state = "CONNECT"] = e
      BY <2>6, <2>7, <2>8
    <2> QED BY <1>1, <2>2, <2>9 DEF PsyncReadError
  <1>12. Gone(d, w2, s) /\ w2.srv[s] = y
    BY <1>2, <1>8, <1>10, <1>11, ClosesConn
  <1>13. MasterOK(s, y)
    BY <1>3, <1>4, <1>6, <1>8 DEF MasterOK
  <1>14. Shape(s, y, None)
    BY <1>3, <1>4, <1>6, <1>8 DEF SlaveOK, Shape
  <1>15. y.masterhost # None => CachedOK(MV(d.srv[y.masterhost]), SV(y))
    BY <1>2, <1>4, <1>8, CachedSame
  <1> QED BY <1>2, <1>4, <1>9, <1>12, <1>13, <1>14, <1>15, Leaves

---------------------------------------------------------------------------
(* A server that gets another master, or none, or is started again.        *)

\* A server that forgets its slaves and its backlog; its offset may only go back when
\* it is marked.
LEMMA ForgetsKeeps ==
    ASSUME NEW v \in Server, v.backlog # None => BacklogOK(v), NEW v2 \in Server, v2.backlog = None, v2.runid = v.runid,
           v.reused => v2.reused, v2.reused \/ v.offset <= v2.offset
    PROVE  Keeps(MV(v), MV(v2))
  <1>1. PICK a : a = MV(v)
    OBVIOUS
  <1>2. PICK b : b = MV(v2)
    OBVIOUS
  <1>3. MTyped(a) /\ MTyped(b)
    BY <1>1, <1>2, ViewTyped
  <1>4. a.runid = b.runid /\ (a.reused => b.reused) /\ (b.reused \/ a.offset <= b.offset) /\ b.backlog = None
    BY <1>1, <1>2 DEF MV
  <1>5. Severs(a, b)
    BY <1>4 DEF Severs
  <1>6. Keeps(a, b)
    BY <1>3, <1>5, SeversKeeps
  <1> QED BY <1>1, <1>2, <1>6

\* The end of the link with the master, and another master.
LeavesMaster(w, s, w1) == IF w.srv[s].master # None THEN replicationCacheMaster(w1, s) ELSE w1
Follows(h, s, m, x) ==
  [h EXCEPT !.srv[s] = [@ EXCEPT !.masterhost = m, !.repl_state = "CONNECT", !.offset = 0, !.reused = x.reused \/ x.offset > 0]]

LEMMA SetMasterInv ==
    ASSUME NEW w, WInv(w), NEW s \in Servers, NEW m \in Servers, m # s,
           NEW freed, freed = LeavesMaster(w, s, w),
           NEW h, h = cancelReplicationHandshake(freeReplicationBacklog(replicationDiscardCachedMaster(disconnectSlaves(freed, s), s), s), s),
           NEW w2, w2 = Follows(h, s, m, w.srv[s])
    PROVE  WInv(w2)
  <1>1. PICK x0 \in Server : x0 = w.srv[s]
    BY WorldTypes DEF WInv
  <1>2. WInv(freed) /\ freed.srv[s].repl_state # "CONNECTED" /\ freed.srv[s].offset = x0.offset /\ freed.srv[s].reused = x0.reused
    <2>1. CASE w.srv[s].master # None
      <3>1. w.srv[s].repl_state = "CONNECTED"
        BY <2>1 DEF WInv, SlaveOK, Shape
      <3>2. freed = replicationCacheMaster(w, s)
        BY ONLY <2>1, freed = LeavesMaster(w, s, w) DEF LeavesMaster
      <3>3. WInv(freed) /\ freed.srv[s] = CachingMaster(x0)
        BY <1>1, <3>1, <3>2, CacheMasterInv
      <3> QED BY <3>3 DEF CachingMaster, Server
    <2>2. CASE w.srv[s].master = None
      <3>1. freed = w
        BY ONLY <2>2, freed = LeavesMaster(w, s, w) DEF LeavesMaster
      <3>2. Shape(s, w.srv[s], w.conn[s])
        BY ONLY WInv(w), s \in Servers DEF WInv, SlaveOK
      <3>3. w.srv[s].repl_state # "CONNECTED"
        BY ONLY <2>2, <3>2 DEF Shape
      <3> QED BY ONLY <1>1, <3>1, <3>3, WInv(w)
    <2> QED BY <2>1, <2>2
  <1>3. PICK d : d = disconnectSlaves(freed, s)
    OBVIOUS
  <1>4. WInv(d) /\ d.srv = freed.srv /\ SlavesOf(d, s) = {}
    BY <1>2, <1>3, DisconnectInv
  <1>5. d \in Worlds /\ SlaveOK(d, s) /\ MasterOK(s, d.srv[s])
    BY <1>4 DEF WInv
  <1>6. PICK x \in Server : x = d.srv[s]
    BY <1>5, WorldTypes
  <1>7. x.repl_state # "CONNECTED" /\ x.offset = x0.offset /\ x.reused = x0.reused
    BY <1>2, <1>4, <1>6
  <1>8. PICK z1 : z1 = [x EXCEPT !.cached = None]
    OBVIOUS
  <1>9. PICK z : z = [z1 EXCEPT !.backlog = None]
    OBVIOUS
  <1>10. z1 \in Server /\ z \in Server /\ z.cached = None /\ z.backlog = None /\ z.repl_state = x.repl_state /\ z.runid = x.runid
         /\ z.reused = x.reused /\ z.master = x.master /\ z.init = x.init
    <2>1. z1 \in Server /\ z1.cached = None /\ z1.repl_state = x.repl_state /\ z1.runid = x.runid
          /\ z1.reused = x.reused /\ z1.master = x.master /\ z1.init = x.init
      BY <1>8 DEF Server
    <2> QED BY <1>9, <2>1 DEF Server
  <1>11. PICK f : f = replicationDiscardCachedMaster(d, s)
    OBVIOUS
  <1>12. f = [d EXCEPT !.srv[s] = z1]
    BY <1>6, <1>8, <1>11, Zenon DEF replicationDiscardCachedMaster
  <1>13. f \in Worlds /\ f.srv[s] = z1
    <2>1. SrvSet(d, f, s, z1)
      BY <1>5, <1>10, <1>12, WorldSrv
    <2> QED BY <2>1 DEF SrvSet
  <1>14. PICK g : g = freeReplicationBacklog(f, s)
    OBVIOUS
  <1>15. g = [d EXCEPT !.srv[s] = z]
    <2>1. g = [f EXCEPT !.srv[s] = z]
      BY <1>9, <1>13, <1>14, FreeBacklogWorld
    <2>2. [f EXCEPT !.srv[s] = z] = [d EXCEPT !.srv[s] = z]
      BY <1>5, <1>10, <1>12, SrvSetTwice, ZenonT(60)
    <2> QED BY <2>1, <2>2
  <1>16. h = cancelReplicationHandshake(g, s)
    BY <1>3, <1>11, <1>14
  <1>17. Gone(d, h, s) /\ h.srv[s] = [z EXCEPT !.repl_state = IF z.repl_state = "NONE" THEN "NONE" ELSE "CONNECT"]
    BY <1>4, <1>6, <1>7, <1>10, <1>15, <1>16, CancelCloses, SMTT(30)
  <1>18. PICK z2 \in Server : z2 = h.srv[s]
    BY <1>17, WorldTypes DEF Gone
  <1>19. z2.cached = None /\ z2.backlog = None /\ z2.runid = x.runid /\ z2.reused = x.reused /\ z2.master = x.master
    BY <1>10, <1>17, <1>18 DEF Server
  <1>20. PICK b \in BOOLEAN : b = (x0.reused \/ x0.offset > 0)
    BY DEF Server
  <1>21. PICK y : y = [z2 EXCEPT !.masterhost = m, !.repl_state = "CONNECT", !.offset = 0, !.reused = b]
    OBVIOUS
  <1>22. y \in Server /\ y.cached = None /\ y.backlog = None /\ y.runid = x.runid /\ y.reused = b /\ y.master = x.master
         /\ y.masterhost = m /\ y.repl_state = "CONNECT" /\ y.offset = 0
    <2>1. PICK y1 : y1 = [z2 EXCEPT !.masterhost = m, !.repl_state = "CONNECT"]
      OBVIOUS
    <2>2. y1 \in Server /\ y1.cached = z2.cached /\ y1.backlog = z2.backlog /\ y1.runid = z2.runid /\ y1.master = z2.master
          /\ y1.masterhost = m /\ y1.repl_state = "CONNECT"
      BY ONLY <2>1, z2 \in Server, m \in Servers DEF Server
    <2>3. PICK o \in Offsets : o = 0
      BY DEF Offsets
    <2>4. PICK y2 : y2 = [y1 EXCEPT !.offset = o]
      OBVIOUS
    <2>5. y2 \in Server /\ y2.cached = z2.cached /\ y2.backlog = z2.backlog /\ y2.runid = z2.runid /\ y2.master = z2.master
          /\ y2.masterhost = m /\ y2.repl_state = "CONNECT" /\ y2.offset = o
      BY ONLY <2>2, <2>4, o \in Offsets DEF Server
    <2>6. y = [y2 EXCEPT !.reused = b]
      BY ONLY <1>21, <2>1, <2>3, <2>4
    <2>7. y \in Server /\ y.cached = z2.cached /\ y.backlog = z2.backlog /\ y.runid = z2.runid /\ y.master = z2.master
          /\ y.masterhost = m /\ y.repl_state = "CONNECT" /\ y.offset = o /\ y.reused = b
      BY ONLY <2>5, <2>6, b \in BOOLEAN DEF Server
    <2> QED BY ONLY <1>19, <2>3, <2>7
  <1>23. w2 = [h EXCEPT !.srv[s] = y]
    <2>1. y = [h.srv[s] EXCEPT !.masterhost = m, !.repl_state = "CONNECT", !.offset = 0, !.reused = w.srv[s].reused \/ w.srv[s].offset > 0]
      BY ONLY <1>1, <1>18, <1>20, <1>21, Zenon
    <2> QED BY ONLY <2>1, w2 = Follows(h, s, m, w.srv[s]) DEF Follows
  <1>24. Gone(d, w2, s) /\ w2.srv[s] = y
    <2>1. y \in Server /\ h \in Worlds
      BY <1>17, <1>22 DEF Gone
    <2>2. SrvSet(h, w2, s, y)
      BY <1>23, <2>1, WorldSrv
    <2> QED BY ONLY <1>17, <2>1, <2>2, s \in Servers, GoneSet
  <1>25. MasterOK(s, y)
    BY <1>5, <1>6, <1>22 DEF MasterOK
  <1>26. x.master = None
    BY <1>5, <1>6, <1>7 DEF SlaveOK, Shape
  <1>27. Shape(s, y, None)
    BY <1>22, <1>26, NoneAssumption DEF Shape
  <1>28. CachedOK(MV(d.srv[y.masterhost]), SV(y))
    BY <1>22 DEF CachedOK, SV
  <1>29. Keeps(MV(d.srv[s]), MV(y))
    <2>1. (x.reused => y.reused) /\ (y.reused \/ x.offset <= y.offset)
      BY <1>1, <1>7, <1>19, <1>20, <1>22 DEF Server, Offsets
    <2>2. x.backlog # None => BacklogOK(x)
      BY <1>5, <1>6 DEF MasterOK
    <2>3. Keeps(MV(x), MV(y))
      BY <1>22, <2>1, <2>2, ForgetsKeeps
    <2> QED BY <1>6, <2>3
  <1> QED BY <1>4, <1>24, <1>25, <1>27, <1>28, <1>29, Leaves

LEMMA RestartInv ==
    ASSUME NEW w, WInv(w), NEW s \in Servers, NEW y, y = NewServer(<<s, w.srv[s].runid[2] + 1>>, w.srv[s].rdb, w.srv[s].masterhost),
           NEW h, h = disconnectSlaves(CloseConn(w, s), s), NEW w2, w2 = [h EXCEPT !.srv[s] = y]
    PROVE  WInv(w2)
  <1>1. w \in Worlds
    BY DEF WInv
  <1>2. PICK x \in Server : x = w.srv[s]
    BY <1>1, WorldTypes
  <1>3. SlaveOK(w, s) /\ MasterOK(s, x)
    BY <1>2 DEF WInv
  <1>4. PICK n \in Nat : n = x.runid[2]
    BY DEF Server, RunIds
  <1>5. x.runid[1] = s /\ x.runid \in RunIds
    BY <1>3 DEF MasterOK, Server
  <1>6. PICK r \in RunIds : r = <<s, n + 1>>
    <2>1. <<s, n + 1>> \in RunIds
      BY DEF RunIds
    <2> QED BY <2>1
  <1>7. y = NewServer(r, x.rdb, x.masterhost)
    BY <1>2, <1>4, <1>6
  <1>8. y \in Server /\ y.runid = r /\ y.masterhost = x.masterhost /\ y.repl_state = (IF x.masterhost = None THEN "NONE" ELSE "CONNECT")
        /\ y.master = None /\ y.cached = None /\ y.backlog = None
    BY <1>7, SizesAssumption DEF NewServer, Server, Offsets
  <1>9. PICK c : c = CloseConn(w, s)
    OBVIOUS
  <1>10. Gone(w, c, s) /\ c.srv[s] = x
    <2>1. w = [w EXCEPT !.srv[s] = x]
      BY <1>1, <1>2, SrvSame
    <2> QED BY <1>9, <2>1, ClosesConn
  <1>11. c \in Worlds /\ SlaveSide(w, c, s) /\ c.conn[s] = None /\ \A m \in Servers : c.cl[m][s] = None
    BY <1>10 DEF Gone
  <1>12. w.cl[s][s] = None
    BY NotItsOwnMaster
  <1>13. \A t \in Servers : c.cl[s][t] = w.cl[s][t]
    BY <1>11, <1>12 DEF SlaveSide
  <1>14. PICK S : S = SlavesOf(w, s)
    OBVIOUS
  <1>15. S = SlavesOf(c, s) /\ s \notin S
    BY <1>12, <1>13, <1>14 DEF SlavesOf
  <1>16. h = freeSlaves(c, s, S)
    BY <1>9, <1>15 DEF disconnectSlaves
  <1>17. /\ h \in Worlds /\ h.srv = c.srv
         /\ \A t \in Servers : h.conn[t] = IF t \in S THEN Closed(c.conn[t]) ELSE c.conn[t]
         /\ \A t \in Servers : h.cl[s][t] = IF t \in S THEN None ELSE c.cl[s][t]
         /\ \A q \in Servers, t \in Servers : q # s => h.cl[q][t] = c.cl[q][t]
    BY <1>11, <1>16, FreeSlavesWorld
  <1>18. PICK d : d = freeSlaves(w, s, S)
    OBVIOUS
  <1>19. /\ d \in Worlds /\ d.srv = w.srv
         /\ \A t \in Servers : d.conn[t] = IF t \in S THEN Closed(w.conn[t]) ELSE w.conn[t]
         /\ \A t \in Servers : d.cl[s][t] = IF t \in S THEN None ELSE w.cl[s][t]
         /\ \A q \in Servers, t \in Servers : q # s => d.cl[q][t] = w.cl[q][t]
    BY <1>1, <1>18, FreeSlavesWorld
  <1>20. WInv(d) /\ SlavesOf(d, s) = {}
    <2>1. d = disconnectSlaves(w, s)
      BY <1>14, <1>18 DEF disconnectSlaves
    <2> QED BY <2>1, DisconnectInv
  <1>21. Gone(d, h, s)
    <2>1. ASSUME NEW t \in Servers, t # s PROVE h.srv[t] = d.srv[t] /\ h.conn[t] = d.conn[t] /\ \A q \in Servers : h.cl[q][t] = d.cl[q][t]
      <3>1. c.srv[t] = w.srv[t] /\ c.conn[t] = w.conn[t] /\ \A q \in Servers : c.cl[q][t] = w.cl[q][t]
        BY <1>11, <2>1 DEF SlaveSide
      <3>2. h.srv[t] = d.srv[t] /\ h.conn[t] = d.conn[t]
        BY <1>17, <1>19, <3>1
      <3>3. ASSUME NEW q \in Servers PROVE h.cl[q][t] = d.cl[q][t]
        <4>1. CASE q = s
          BY <1>17, <1>19, <3>1, <4>1
        <4>2. CASE q # s
          BY <1>17, <1>19, <3>1, <4>2
        <4> QED BY <4>1, <4>2
      <3> QED BY <3>2, <3>3
    <2>2. h.conn[s] = None
      BY <1>11, <1>15, <1>17
    <2>3. \A q \in Servers : h.cl[q][s] = None
      BY <1>11, <1>15, <1>17
    <2> QED BY <1>17, <2>1, <2>2, <2>3 DEF Gone, SlaveSide
  <1>22. Gone(d, w2, s) /\ w2.srv[s] = y
    <2>1. SrvSet(h, w2, s, y)
      BY <1>8, <1>17, WorldSrv
    <2> QED BY ONLY <1>8, <1>21, <2>1, s \in Servers, GoneSet
  <1>23. MasterOK(s, y)
    BY <1>6, <1>8 DEF MasterOK
  <1>24. Shape(s, y, None)
    BY <1>2, <1>3, <1>8 DEF Shape, SlaveOK
  <1>25. y.masterhost # None => CachedOK(MV(d.srv[y.masterhost]), SV(y))
    BY <1>8 DEF CachedOK, SV
  <1>26. Keeps(MV(d.srv[s]), MV(y))
    <2>1. PICK a : a = MV(x)
      OBVIOUS
    <2>2. PICK b : b = MV(y)
      OBVIOUS
    <2>3. MTyped(a) /\ MTyped(b)
      BY <1>3, <1>8, <2>1, <2>2, ViewTyped DEF MasterOK
    <2>4. a.runid = x.runid /\ b.runid = r /\ r[1] = s /\ r[2] = n + 1
      BY <1>6, <1>8, <2>1, <2>2 DEF MV
    <2>5. b.runid \in RunIds /\ b.runid[1] = a.runid[1] /\ b.runid[2] > a.runid[2]
      BY <1>4, <1>5, <2>4
    <2>6. Severs(a, b)
      BY <2>5 DEF Severs
    <2>7. Keeps(a, b)
      BY <2>3, <2>6, SeversKeeps
    <2> QED BY <1>2, <1>19, <2>1, <2>2, <2>7
  <1> QED BY <1>20, <1>22, <1>23, <1>24, <1>25, <1>26, Leaves

\* A change of a server without slaves.
LEMMA LoneStep ==
    ASSUME NEW w, WInv(w), NEW m \in Servers, SlavesOf(w, m) = {}, NEW y, NEW w2, SrvSet(w, w2, m, y), SameRole(w.srv[m], y),
           MasterOK(m, y), Keeps(MV(w.srv[m]), MV(y))
    PROVE  WInv(w2)
  <1>1. w2 \in Worlds /\ w2.cl = w.cl /\ w2.conn = w.conn /\ w2.srv[m] = y /\ \A t \in Servers : t # m => w2.srv[t] = w.srv[t]
    BY DEF SrvSet
  <1>2. SlaveSide(w, w2, m)
    BY <1>1 DEF SlaveSide
  <1>3. SlaveOK(w, m)
    BY DEF WInv
  <1>4. Shape(m, w2.srv[m], w2.conn[m])
    BY <1>1, <1>3 DEF SlaveOK, Shape, SameRole
  <1>5. ASSUME y.masterhost # None PROVE Pair(w2, y.masterhost, m)
    <2>1. PICK r : r = w.srv[m].masterhost
      OBVIOUS
    <2>2. r = y.masterhost /\ r # None /\ SV(y) = SV(w.srv[m])
      BY <1>5, <2>1 DEF SameRole, SV
    <2>3. r \in Servers /\ r # m /\ Pair(w, r, m)
      BY <2>1, <2>2, PairFacts
    <2>4. Pair(w2, r, m)
      BY <1>1, <2>2, <2>3 DEF Pair
    <2> QED BY <2>2, <2>4
  <1>6. SlaveOK(w2, m)
    BY <1>1, <1>3, <1>4, <1>5 DEF SlaveOK, SameRole
  <1>7. MasterOK(m, w2.srv[m]) /\ Keeps(MV(w.srv[m]), MV(w2.srv[m]))
    BY <1>1
  <1> QED BY <1>1, <1>2, <1>6, <1>7, SlaveStep

LEMMA MasterSame ==
    ASSUME NEW s, NEW x, NEW y, MV(y) = MV(x), MasterOK(s, x), y.repl_state = x.repl_state \/ y.repl_state # "TRANSFER"
    PROVE  MasterOK(s, y)
  <1>1. y.runid = x.runid /\ y.backlog = x.backlog /\ y.offset = x.offset
    BY DEF MV
  <1> QED BY <1>1 DEF MasterOK, BacklogOK, HU

\* The end of SLAVEOF NO ONE.
LEMMA TurnsMaster ==
    ASSUME NEW w, WInv(w), NEW s \in Servers, w.srv[s].repl_state # "CONNECTED",
           NEW f, f = replicationDiscardCachedMaster(w, s), NEW h, h = cancelReplicationHandshake(f, s),
           NEW w2, w2 = [h EXCEPT !.srv[s].masterhost = None, !.srv[s].repl_state = "NONE"]
    PROVE  WInv(w2)
  <1>1. w \in Worlds /\ SlaveOK(w, s) /\ MasterOK(s, w.srv[s])
    BY DEF WInv
  <1>2. PICK x \in Server : x = w.srv[s]
    BY <1>1, WorldTypes
  <1>3. PICK z : z = [x EXCEPT !.cached = None]
    OBVIOUS
  <1>4. z \in Server /\ z.cached = None /\ z.repl_state = x.repl_state /\ z.master = x.master /\ MV(z) = MV(x)
    BY ONLY <1>3, x \in Server DEF Server, MV
  <1>5. f = [w EXCEPT !.srv[s] = z]
    BY <1>2, <1>3 DEF replicationDiscardCachedMaster
  <1>6. PICK st \in {"NONE", "CONNECT"} : st = IF z.repl_state = "NONE" THEN "NONE" ELSE "CONNECT"
    OBVIOUS
  <1>7. PICK z2 : z2 = [z EXCEPT !.repl_state = st]
    OBVIOUS
  <1>8. z.repl_state = w.srv[s].repl_state /\ z.repl_state # "CONNECTED"
    BY ONLY <1>2, <1>4, w.srv[s].repl_state # "CONNECTED"
  <1>9. Gone(w, h, s) /\ h.srv[s] = [z EXCEPT !.repl_state = IF z.repl_state = "NONE" THEN "NONE" ELSE "CONNECT"]
    BY ONLY WInv(w), s \in Servers, <1>4, <1>5, <1>8, h = cancelReplicationHandshake(f, s), CancelCloses
  <1>10. h.srv[s] = z2
    BY ONLY <1>6, <1>7, <1>9
  <1>11. z2 \in Server /\ z2.cached = None /\ z2.master = x.master
    BY ONLY <1>4, <1>6, <1>7 DEF Server
  <1>12. MV(z2) = MV(x)
    BY ONLY <1>4, <1>7 DEF Server, MV
  <1>13. PICK y1 : y1 = [z2 EXCEPT !.masterhost = None]
    OBVIOUS
  <1>14. PICK y : y = [y1 EXCEPT !.repl_state = "NONE"]
    OBVIOUS
  <1>15. y1 \in Server /\ y1.cached = None /\ y1.master = x.master /\ y1.masterhost = None /\ MV(y1) = MV(x)
    BY ONLY <1>11, <1>12, <1>13 DEF Server, MV
  <1>16. y \in Server /\ y.cached = None /\ y.master = x.master /\ y.masterhost = None /\ y.repl_state = "NONE" /\ MV(y) = MV(x)
    BY ONLY <1>14, <1>15 DEF Server, MV
  <1>17. y = [z2 EXCEPT !.masterhost = None, !.repl_state = "NONE"]
    BY ONLY <1>11, <1>13, <1>14 DEF Server
  <1>18. h \in Worlds
    BY <1>9 DEF Gone
  <1>19. w2 = [h EXCEPT !.srv[s] = y]
    <2>1. h = [srv |-> h.srv, cl |-> h.cl, conn |-> h.conn] /\ h.srv \in [Servers -> Server]
      BY <1>18, WorldTypes
    <2>2. w2 = [srv |-> [h.srv EXCEPT ![s].masterhost = None, ![s].repl_state = "NONE"], cl |-> h.cl, conn |-> h.conn]
      BY ONLY <2>1, w2 = [h EXCEPT !.srv[s].masterhost = None, !.srv[s].repl_state = "NONE"]
    <2>3. [h.srv EXCEPT ![s].masterhost = None, ![s].repl_state = "NONE"] = [h.srv EXCEPT ![s] = y]
      BY ONLY <1>10, <1>17, <2>1, s \in Servers
    <2>4. [h EXCEPT !.srv[s] = y] = [srv |-> [h.srv EXCEPT ![s] = y], cl |-> h.cl, conn |-> h.conn]
      BY ONLY <2>1
    <2> QED BY ONLY <2>2, <2>3, <2>4
  <1>20. SrvSet(h, w2, s, y)
    BY ONLY <1>16, <1>18, <1>19, s \in Servers, WorldSrv
  <1>21. Gone(w, w2, s) /\ w2.srv[s] = y
    BY ONLY <1>9, <1>16, <1>20, s \in Servers, GoneSet
  <1>22. MasterOK(s, x)
    BY <1>1, <1>2
  <1>23. y.repl_state # "TRANSFER"
    BY ONLY <1>16
  <1>24. MasterOK(s, y)
    BY ONLY <1>16, <1>22, <1>23, MasterSame
  <1>25. x.master = None
    BY <1>1, <1>2, <1>8 DEF SlaveOK, Shape
  <1>26. Shape(s, y, None)
    BY ONLY <1>16, <1>25, s \in Servers, NoneAssumption DEF Shape
  <1>27. y.masterhost # None => CachedOK(MV(w.srv[y.masterhost]), SV(y))
    BY ONLY <1>16
  <1>28. MV(y) = MV(w.srv[s])
    BY ONLY <1>2, <1>16
  <1>29. y = w2.srv[s]
    BY ONLY <1>21
  <1> QED BY ONLY WInv(w), <1>21, <1>29, <1>24, <1>26, <1>27, <1>28, s \in Servers, Leaves

\* The steps of replicationUnsetMaster: the offset and the log, the link, the rest.
TakesOffset(w, s) ==
  [w EXCEPT !.srv[s] = [@ EXCEPT !.offset = w.srv[s].master.reploff,
                                 !.reused = w.srv[s].reused \/ w.srv[s].master.reploff < w.srv[s].offset]]
Inherits(w, s) ==
  IF w.srv[s].master # None /\ SlavesOf(w, s) = {} THEN freeReplicationBacklog(TakesOffset(w, s), s) ELSE w
NoMaster(h, s) == [h EXCEPT !.srv[s].masterhost = None, !.srv[s].repl_state = "NONE"]

LEMMA UnsetMasterInv ==
    ASSUME NEW w, WInv(w), NEW s \in Servers, w.srv[s].masterhost # None, NEW w1, w1 = Inherits(w, s),
           NEW wb, wb = LeavesMaster(w, s, w1),
           NEW h, h = cancelReplicationHandshake(replicationDiscardCachedMaster(wb, s), s),
           NEW w2, w2 = NoMaster(h, s)
    PROVE  WInv(w2)
  <1>1. w \in Worlds /\ SlaveOK(w, s) /\ MasterOK(s, w.srv[s])
    BY DEF WInv
  <1>2. PICK x0 \in Server : x0 = w.srv[s]
    BY <1>1, WorldTypes
  <1>3. WInv(w1) /\ w1.srv[s].repl_state = x0.repl_state
    <2>1. CASE x0.master # None /\ SlavesOf(w, s) = {}
      <3>1. x0.master \in Masters
        BY <2>1 DEF Server
      <3>2. PICK o \in Offsets : o = x0.master.reploff
        BY <3>1 DEF Masters
      <3>3. PICK b \in BOOLEAN : b = (x0.reused \/ o < x0.offset)
        OBVIOUS
      <3>4. PICK z1 : z1 = [x0 EXCEPT !.offset = o, !.reused = b]
        OBVIOUS
      <3>5. PICK z : z = [z1 EXCEPT !.backlog = None]
        OBVIOUS
      <3>6. z1 \in Server /\ z1.runid = x0.runid /\ SameRole(x0, z1) /\ z1.reused = b /\ z1.offset = o /\ z1.repl_state = x0.repl_state
        BY <3>4 DEF Server, SameRole
      <3>7. z \in Server /\ z.runid = x0.runid /\ SameRole(x0, z) /\ z.reused = b /\ z.offset = o /\ z.backlog = None
            /\ z.repl_state = x0.repl_state
        BY <3>5, <3>6 DEF Server, SameRole
      <3>8. PICK e : e = [w EXCEPT !.srv[s] = z1]
        OBVIOUS
      <3>9. SrvSet(w, e, s, z1)
        BY <1>1, <3>6, <3>8, WorldSrv
      <3>10. e \in Worlds /\ e.srv[s] = z1
        BY <3>9 DEF SrvSet
      <3>11. TakesOffset(w, s) = e
        BY ONLY <1>2, <3>2, <3>3, <3>4, <3>8 DEF TakesOffset
      <3>12. w1 = freeReplicationBacklog(e, s)
        BY ONLY <1>2, <2>1, <3>11, w1 = Inherits(w, s) DEF Inherits
      <3>13. w1 = [e EXCEPT !.srv[s] = z]
        BY <3>5, <3>10, <3>12, FreeBacklogWorld
      <3>14. [e EXCEPT !.srv[s] = z] = [w EXCEPT !.srv[s] = z]
        BY <1>1, <3>6, <3>7, <3>8, SrvSetTwice
      <3>15. w1 = [w EXCEPT !.srv[s] = z]
        BY <3>13, <3>14
      <3>16. SrvSet(w, w1, s, z)
        BY <1>1, <3>7, <3>15, WorldSrv
      <3>17. MasterOK(s, z)
        BY <1>1, <1>2, <3>7 DEF MasterOK
      <3>18. Keeps(MV(x0), MV(z))
        <4>1. x0.reused \in BOOLEAN /\ x0.offset \in Int /\ o \in Int
          BY ONLY x0 \in Server, o \in Offsets DEF Server, Offsets
        <4>2. b <=> (x0.reused \/ o < x0.offset)
          BY ONLY <3>3
        <4>3. z.reused <=> b
          BY ONLY <3>7
        <4>4. z.offset = o
          BY ONLY <3>7
        <4>5. (x0.reused => z.reused) /\ (z.reused \/ x0.offset <= z.offset)
          BY ONLY <4>1, <4>2, <4>3, <4>4
        <4>6. x0.backlog # None => BacklogOK(x0)
          BY <1>1, <1>2 DEF MasterOK
        <4> QED BY <3>7, <4>5, <4>6, ForgetsKeeps
      <3>19. SameRole(w.srv[s], z) /\ Keeps(MV(w.srv[s]), MV(z))
        BY <1>2, <3>7, <3>18
      <3>20. WInv(w1)
        BY ONLY WInv(w), s \in Servers, <2>1, <3>16, <3>17, <3>19, LoneStep
      <3> QED BY <3>7, <3>16, <3>20 DEF SrvSet
    <2>2. CASE ~(x0.master # None /\ SlavesOf(w, s) = {})
      <3>1. w1 = w
        BY ONLY <1>2, <2>2, w1 = Inherits(w, s) DEF Inherits
      <3> QED BY ONLY <1>2, <3>1, WInv(w)
    <2> QED BY <2>1, <2>2
  <1>4. WInv(wb) /\ wb.srv[s].repl_state # "CONNECTED"
    <2>1. CASE x0.master # None
      <3>1. w1.srv[s].repl_state = "CONNECTED"
        BY <1>1, <1>2, <1>3, <2>1 DEF SlaveOK, Shape
      <3>2. wb = replicationCacheMaster(w1, s)
        BY ONLY <1>2, <2>1, wb = LeavesMaster(w, s, w1) DEF LeavesMaster
      <3>3. WInv(wb) /\ wb.srv[s] = CachingMaster(w1.srv[s])
        BY ONLY <1>3, <3>1, <3>2, s \in Servers, CacheMasterInv
      <3>4. w1.srv[s] \in Server
        BY <1>3, WorldTypes DEF WInv
      <3> QED BY <3>3, <3>4 DEF CachingMaster, Server
    <2>2. CASE x0.master = None
      <3>1. wb = w1
        BY ONLY <1>2, <2>2, wb = LeavesMaster(w, s, w1) DEF LeavesMaster
      <3> QED BY <1>1, <1>2, <1>3, <2>2, <3>1 DEF SlaveOK, Shape
    <2> QED BY <2>1, <2>2
  <1>5. PICK f : f = replicationDiscardCachedMaster(wb, s)
    OBVIOUS
  <1>6. h = cancelReplicationHandshake(f, s)
    BY <1>5
  <1>7. w2 = [h EXCEPT !.srv[s].masterhost = None, !.srv[s].repl_state = "NONE"]
    BY ONLY w2 = NoMaster(h, s) DEF NoMaster
  <1> QED BY ONLY <1>4, <1>5, <1>6, <1>7, s \in Servers, TurnsMaster

---------------------------------------------------------------------------
(* What a slave does.                                                      *)

\* The server of a slave, its connection, and the client of the master m for it.
LinkSet(w, w2, s, y, m, c, k) ==
  /\ w2 \in Worlds /\ w2.srv[s] = y /\ w2.conn[s] = k /\ w2.cl[m][s] = c
  /\ \A t \in Servers : t # s => w2.srv[t] = w.srv[t] /\ w2.conn[t] = w.conn[t]
  /\ \A r, t \in Servers : r # m \/ t # s => w2.cl[r][t] = w.cl[r][t]

LEMMA WorldLink ==
    ASSUME NEW w \in Worlds, NEW s \in Servers, NEW y \in Server, NEW m \in Servers, NEW c \in Clients \cup {None},
           NEW k \in Conns \cup {None}, NEW w2,
           w2 = [srv |-> [w.srv EXCEPT ![s] = y], cl |-> [w.cl EXCEPT ![m][s] = c], conn |-> [w.conn EXCEPT ![s] = k]]
    PROVE  LinkSet(w, w2, s, y, m, c, k)
  <1>1. w.srv \in [Servers -> Server] /\ w.cl \in [Servers -> [Servers -> Clients \cup {None}]] /\ w.conn \in [Servers -> Conns \cup {None}]
    BY WorldTypes
  <1>2. PICK f : f = [w.srv EXCEPT ![s] = y]
    OBVIOUS
  <1>3. PICK g : g = [w.cl EXCEPT ![m][s] = c]
    OBVIOUS
  <1>4. PICK h : h = [w.conn EXCEPT ![s] = k]
    OBVIOUS
  <1>5. f \in [Servers -> Server] /\ f[s] = y /\ \A t \in Servers : t # s => f[t] = w.srv[t]
    BY ONLY <1>1, <1>2, s \in Servers, y \in Server
  <1>6. h \in [Servers -> Conns \cup {None}] /\ h[s] = k /\ \A t \in Servers : t # s => h[t] = w.conn[t]
    BY ONLY <1>1, <1>4, s \in Servers, k \in Conns \cup {None}
  <1>7. g \in [Servers -> [Servers -> Clients \cup {None}]] /\ g[m][s] = c
        /\ \A r, t \in Servers : r # m \/ t # s => g[r][t] = w.cl[r][t]
    BY ONLY <1>1, <1>3, s \in Servers, m \in Servers, c \in Clients \cup {None}
  <1>8. w2 = [srv |-> f, cl |-> g, conn |-> h]
    BY ONLY <1>2, <1>3, <1>4,
            w2 = [srv |-> [w.srv EXCEPT ![s] = y], cl |-> [w.cl EXCEPT ![m][s] = c], conn |-> [w.conn EXCEPT ![s] = k]]
  <1>9. w2 \in Worlds /\ w2.srv = f /\ w2.cl = g /\ w2.conn = h
    BY ONLY <1>5, <1>6, <1>7, <1>8 DEF Worlds
  <1> QED BY ONLY <1>5, <1>6, <1>7, <1>9 DEF LinkSet

LEMMA WorldConn ==
    ASSUME NEW w \in Worlds, NEW s \in Servers, NEW y \in Server, NEW m \in Servers, NEW k \in Conns \cup {None}, NEW w2,
           w2 = [srv |-> [w.srv EXCEPT ![s] = y], cl |-> w.cl, conn |-> [w.conn EXCEPT ![s] = k]]
    PROVE  LinkSet(w, w2, s, y, m, w.cl[m][s], k)
  <1>1. w.srv \in [Servers -> Server] /\ w.cl \in [Servers -> [Servers -> Clients \cup {None}]] /\ w.conn \in [Servers -> Conns \cup {None}]
    BY WorldTypes
  <1>2. PICK f : f = [w.srv EXCEPT ![s] = y]
    OBVIOUS
  <1>4. PICK h : h = [w.conn EXCEPT ![s] = k]
    OBVIOUS
  <1>5. f \in [Servers -> Server] /\ f[s] = y /\ \A t \in Servers : t # s => f[t] = w.srv[t]
    BY ONLY <1>1, <1>2, s \in Servers, y \in Server
  <1>6. h \in [Servers -> Conns \cup {None}] /\ h[s] = k /\ \A t \in Servers : t # s => h[t] = w.conn[t]
    BY ONLY <1>1, <1>4, s \in Servers, k \in Conns \cup {None}
  <1>8. w2 = [srv |-> f, cl |-> w.cl, conn |-> h]
    BY ONLY <1>2, <1>4, w2 = [srv |-> [w.srv EXCEPT ![s] = y], cl |-> w.cl, conn |-> [w.conn EXCEPT ![s] = k]]
  <1>9. w2 \in Worlds /\ w2.srv = f /\ w2.cl = w.cl /\ w2.conn = h
    BY ONLY <1>1, <1>5, <1>6, <1>8 DEF Worlds
  <1> QED BY ONLY <1>5, <1>6, <1>9 DEF LinkSet

\* A step of a slave and of its link.
LEMMA SlaveTurn ==
    ASSUME NEW w, WInv(w), NEW s \in Servers, NEW m, m = w.srv[s].masterhost, m # None,
           NEW y, NEW c, NEW k, NEW w2, LinkSet(w, w2, s, y, m, c, k),
           y.masterhost = m, MasterOK(s, y), Shape(s, y, k), PairOK(MV(w.srv[m]), SV(y), c, k),
           \/ MV(y) = MV(w.srv[s])
           \/ SlavesOf(w, s) = {} /\ Keeps(MV(w.srv[s]), MV(y))
    PROVE  WInv(w2)
  <1>1. m \in Servers /\ m # s
    BY PairFacts
  <1>2. /\ w2 \in Worlds /\ w2.srv[s] = y /\ w2.conn[s] = k /\ w2.cl[m][s] = c
        /\ \A t \in Servers : t # s => w2.srv[t] = w.srv[t] /\ w2.conn[t] = w.conn[t]
        /\ \A r, t \in Servers : r # m \/ t # s => w2.cl[r][t] = w.cl[r][t]
    BY DEF LinkSet
  <1>3. SlaveSide(w, w2, s)
    BY <1>2 DEF SlaveSide
  <1>4. Pair(w2, m, s)
    BY <1>1, <1>2 DEF Pair
  <1>5. \A r \in Servers : w2.cl[r][s] # None => y.masterhost = r
    BY <1>2 DEF WInv, SlaveOK
  <1>6. SlaveOK(w2, s)
    BY <1>2, <1>4, <1>5 DEF SlaveOK
  <1>7. MasterOK(s, w2.srv[s])
    BY <1>2
  <1>8. \/ MV(w2.srv[s]) = MV(w.srv[s])
        \/ SlavesOf(w, s) = {} /\ Keeps(MV(w.srv[s]), MV(w2.srv[s]))
    BY <1>2
  <1> QED BY ONLY WInv(w), s \in Servers, <1>2, <1>3, <1>6, <1>7, <1>8, SlaveStep

\* What the proofs of a step of a slave begin with.
LEMMA SlaveFacts ==
    ASSUME NEW w, WInv(w), NEW s \in Servers, w.srv[s].repl_state # "NONE"
    PROVE  /\ w \in Worlds /\ w.srv[s] \in Server /\ w.conn[s] \in Conns \cup {None} /\ MasterOK(s, w.srv[s]) /\ Shape(s, w.srv[s], w.conn[s])
           /\ w.srv[s].masterhost \in Servers /\ w.srv[s].masterhost # s /\ w.srv[s].masterhost # None /\ Pair(w, w.srv[s].masterhost, s)
           /\ MTyped(MV(w.srv[w.srv[s].masterhost])) /\ STyped(SV(w.srv[s]), w.conn[s])
           /\ CachedOK(MV(w.srv[w.srv[s].masterhost]), SV(w.srv[s]))
  <1>1. w \in Worlds /\ MasterOK(s, w.srv[s]) /\ Shape(s, w.srv[s], w.conn[s])
    BY DEF WInv, SlaveOK
  <1>2. w.srv[s] \in Server /\ w.conn[s] \in Conns \cup {None}
    BY <1>1, WorldTypes
  <1>3. PICK m : m = w.srv[s].masterhost
    OBVIOUS
  <1>4. m # None
    BY <1>1, <1>3 DEF Shape
  <1>5. m \in Servers /\ m # s /\ Pair(w, m, s) /\ MTyped(MV(w.srv[m])) /\ STyped(SV(w.srv[s]), w.conn[s])
    BY <1>3, <1>4, PairFacts
  <1>6. CachedOK(MV(w.srv[m]), SV(w.srv[s]))
    BY <1>5 DEF Pair, PairOK, CachedOK
  <1> QED BY <1>1, <1>2, <1>3, <1>4, <1>5, <1>6

LEMMA ConnectInv ==
    ASSUME NEW w, WInv(w), NEW s \in Servers, w.srv[s].repl_state = "CONNECT", NEW w2,
           w2 = [w EXCEPT !.srv[s].repl_state = "CONNECTING",
                          !.conn[s] = [to |-> w.srv[s].masterhost, wire |-> <<>>, open |-> TRUE, req |-> None]]
    PROVE  WInv(w2)
  <1>1. PICK x : x = w.srv[s]
    OBVIOUS
  <1>2. PICK m : m = x.masterhost
    OBVIOUS
  <1>3. w \in Worlds /\ x \in Server /\ MasterOK(s, x) /\ Shape(s, x, w.conn[s]) /\ m \in Servers /\ m # s /\ m # None
        /\ CachedOK(MV(w.srv[m]), SV(x))
    BY <1>1, <1>2, SlaveFacts
  <1>4. PICK y : y = [x EXCEPT !.repl_state = "CONNECTING"]
    OBVIOUS
  <1>5. PICK k : k = [to |-> m, wire |-> <<>>, open |-> TRUE, req |-> None]
    OBVIOUS
  <1>6. y \in Server /\ y.masterhost = m /\ y.repl_state = "CONNECTING" /\ y.master = x.master /\ y.cached = x.cached /\ y.data = x.data
        /\ MV(y) = MV(x)
    BY ONLY <1>2, <1>3, <1>4 DEF Server, MV
  <1>7. k \in Conns /\ k # None /\ k.to = m /\ k.wire = <<>> /\ k.req = None
    <2>1. k.to = m /\ k.wire = <<>> /\ k.req = None /\ k \in Conns
      BY ONLY <1>3, <1>5 DEF Conns
    <2> QED BY <2>1, NoneAssumption
  <1>8. w = [srv |-> w.srv, cl |-> w.cl, conn |-> w.conn] /\ w.srv \in [Servers -> Server]
    BY <1>3, WorldTypes
  <1>9. w2 = [srv |-> [w.srv EXCEPT ![s] = y], cl |-> w.cl, conn |-> [w.conn EXCEPT ![s] = k]]
    BY ONLY <1>1, <1>2, <1>4, <1>5, <1>8, s \in Servers,
            w2 = [w EXCEPT !.srv[s].repl_state = "CONNECTING",
                           !.conn[s] = [to |-> w.srv[s].masterhost, wire |-> <<>>, open |-> TRUE, req |-> None]]
  <1>10. LinkSet(w, w2, s, y, m, w.cl[m][s], k)
    BY ONLY <1>3, <1>6, <1>7, <1>9, s \in Servers, WorldConn
  <1>11. w.cl[m][s] = None
    <2>1. w.conn[s] = None
      BY <1>1, <1>3 DEF Shape
    <2> QED BY <1>3, <2>1, NotConnected
  <1>12. MasterOK(s, y)
    BY ONLY <1>3, <1>6, MasterSame
  <1>13. Shape(s, y, k)
    BY <1>1, <1>2, <1>3, <1>6, <1>7 DEF Shape
  <1>14. CachedOK(MV(w.srv[m]), SV(y)) /\ SV(y).repl_state = "CONNECTING"
    BY <1>3, <1>6 DEF CachedOK, SV
  <1>15. PairOK(MV(w.srv[m]), SV(y), None, k)
    BY ONLY <1>7, <1>14, PairConnects
  <1>16. PairOK(MV(w.srv[m]), SV(y), w.cl[m][s], k)
    BY ONLY <1>11, <1>15
  <1>17. m = w.srv[s].masterhost /\ MV(y) = MV(w.srv[s])
    BY ONLY <1>1, <1>2, <1>6
  <1> QED BY ONLY WInv(w), s \in Servers, <1>3, <1>6, <1>10, <1>12, <1>13, <1>16, <1>17, SlaveTurn

LEMMA AskInv ==
    ASSUME NEW w, WInv(w), NEW s \in Servers, w.srv[s].repl_state = "CONNECTING", NEW req, req = PsyncReq(w.srv[s].cached), NEW w2,
           w2 = [w EXCEPT !.srv[s].repl_state = "RECEIVE_PSYNC", !.srv[s].init.off = -1, !.conn[s].req = req]
    PROVE  WInv(w2)
  <1>1. PICK x : x = w.srv[s]
    OBVIOUS
  <1>2. PICK m : m = x.masterhost
    OBVIOUS
  <1>3. w \in Worlds /\ x \in Server /\ MasterOK(s, x) /\ Shape(s, x, w.conn[s]) /\ m \in Servers /\ m # s /\ m # None
        /\ CachedOK(MV(w.srv[m]), SV(x)) /\ Pair(w, m, s) /\ w.conn[s] \in Conns \cup {None}
    BY <1>1, <1>2, SlaveFacts
  <1>4. PICK k0 \in Conns : k0 = w.conn[s]
    BY <1>1, <1>3 DEF Shape
  <1>5. PICK y1 : y1 = [x EXCEPT !.repl_state = "RECEIVE_PSYNC"]
    OBVIOUS
  <1>6. y1 \in Server /\ y1.masterhost = m /\ y1.repl_state = "RECEIVE_PSYNC" /\ y1.master = x.master /\ y1.cached = x.cached
        /\ y1.data = x.data /\ MV(y1) = MV(x)
    BY ONLY <1>2, <1>3, <1>5 DEF Server, MV
  <1>7. PICK y : y = [y1 EXCEPT !.init.off = -1]
    OBVIOUS
  <1>8. y \in Server /\ y.masterhost = m /\ y.repl_state = "RECEIVE_PSYNC" /\ y.master = x.master /\ y.cached = x.cached
        /\ y.data = x.data /\ MV(y) = MV(x) /\ y.init.off = -1
    BY ONLY <1>6, <1>7 DEF Server, MV, Offsets
  <1>9. PICK k : k = [k0 EXCEPT !.req = req]
    OBVIOUS
  <1>10. req \in Reqs
    <2>1. x.cached \in Masters \cup {None}
      BY <1>3 DEF Server
    <2>2. CASE x.cached = None
      BY <1>1, <2>2 DEF PsyncReq, Reqs
    <2>3. CASE x.cached # None
      <3>1. PICK r : r = x.cached
        OBVIOUS
      <3>2. r.runid \in RunIds \cup {None} /\ r.reploff + 1 \in Int /\ r.pre \in BOOLEAN
        BY <2>1, <2>3, <3>1 DEF Masters, Offsets
      <3>3. req = [cmd |-> "PSYNC", runid |-> r.runid, off |-> r.reploff + 1, pre |-> r.pre]
        BY <1>1, <2>3, <3>1 DEF PsyncReq
      <3> QED BY <3>2, <3>3 DEF Reqs
    <2> QED BY <2>2, <2>3
  <1>11. req # None
    BY <1>10, NoneAssumption
  <1>12. PairOK(MV(w.srv[m]), SV(x), w.cl[m][s], k0) /\ SV(x).repl_state = "CONNECTING"
    BY <1>1, <1>3, <1>4 DEF Pair, SV
  <1>13. w.cl[m][s] = None /\ k0.wire = <<>> /\ k0 # None
    BY <1>4, <1>12, NoneAssumption DEF PairOK, PipeOK
  <1>14. k \in Conns /\ k.to = k0.to /\ k.wire = <<>> /\ k.req = req
    BY <1>9, <1>10, <1>13 DEF Conns
  <1>15. w = [srv |-> w.srv, cl |-> w.cl, conn |-> w.conn] /\ w.srv \in [Servers -> Server] /\ w.conn \in [Servers -> Conns \cup {None}]
    BY <1>3, WorldTypes
  <1>16. w2 = [srv |-> [w.srv EXCEPT ![s] = y], cl |-> w.cl, conn |-> [w.conn EXCEPT ![s] = k]]
    <2>1. w2 = [srv |-> [w.srv EXCEPT ![s].repl_state = "RECEIVE_PSYNC", ![s].init.off = -1], cl |-> w.cl, conn |-> [w.conn EXCEPT ![s].req = req]]
      BY ONLY <1>15, w2 = [w EXCEPT !.srv[s].repl_state = "RECEIVE_PSYNC", !.srv[s].init.off = -1, !.conn[s].req = req]
    <2>2. [w.srv EXCEPT ![s].repl_state = "RECEIVE_PSYNC", ![s].init.off = -1] = [w.srv EXCEPT ![s] = y]
      BY ONLY <1>1, <1>5, <1>7, <1>15, s \in Servers
    <2>3. [w.conn EXCEPT ![s].req = req] = [w.conn EXCEPT ![s] = k]
      BY ONLY <1>4, <1>9, <1>15, s \in Servers
    <2> QED BY ONLY <2>1, <2>2, <2>3
  <1>17. LinkSet(w, w2, s, y, m, w.cl[m][s], k)
    BY ONLY <1>3, <1>8, <1>14, <1>16, s \in Servers, WorldConn
  <1>18. y.repl_state # "TRANSFER"
    BY <1>8
  <1>19. MasterOK(s, y)
    BY ONLY <1>3, <1>8, <1>18, MasterSame
  <1>20. Shape(s, y, k)
    BY <1>1, <1>2, <1>3, <1>4, <1>8, <1>14, NoneAssumption DEF Shape
  <1>21. CachedOK(MV(w.srv[m]), SV(y)) /\ SV(y).repl_state = "RECEIVE_PSYNC" /\ k.req = PsyncReq(SV(y).cached)
    BY <1>1, <1>3, <1>8, <1>14 DEF CachedOK, SV
  <1>22. PairOK(MV(w.srv[m]), SV(y), None, k)
    BY ONLY <1>11, <1>14, <1>21, PairAsks
  <1>23. PairOK(MV(w.srv[m]), SV(y), w.cl[m][s], k)
    BY ONLY <1>13, <1>22
  <1>24. m = w.srv[s].masterhost /\ MV(y) = MV(w.srv[s])
    BY ONLY <1>1, <1>2, <1>8
  <1> QED BY ONLY WInv(w), s \in Servers, <1>3, <1>8, <1>17, <1>19, <1>20, <1>23, <1>24, SlaveTurn

\* The wire without its first item.
LEMMA TailWire ==
    ASSUME NEW k \in Conns, k.wire # <<>>, NEW j, j = [k EXCEPT !.wire = Tail(k.wire)]
    PROVE  j \in Conns /\ j # None /\ k # None /\ j.to = k.to /\ j.wire = Tail(k.wire) /\ j.req = k.req /\ j.open = k.open
  <1>1. k.wire \in Seq(Msgs)
    BY DEF Conns
  <1>2. Tail(k.wire) \in Seq(Msgs)
    BY <1>1
  <1>3. j \in Conns /\ j.to = k.to /\ j.wire = Tail(k.wire) /\ j.req = k.req /\ j.open = k.open
    BY <1>2 DEF Conns
  <1> QED BY <1>3, NoneAssumption

LEMMA LinkedTail ==
    ASSUME NEW v, NEW x, NEW c, NEW k, PairOK(v, x, c, k), NEW j, j # None, j.req = k.req, j.open = k.open
    PROVE  LinkedOK(v, c, j)
  BY DEF PairOK, LinkedOK

\* +CONTINUE.
LEMMA ContInv ==
    ASSUME NEW w, WInv(w), NEW s \in Servers, w.srv[s].repl_state = "RECEIVE_PSYNC", w.conn[s].wire # <<>>, NEW u, u = Head(w.conn[s].wire),
           u.k = "cont", NEW w2, w2 = [replicationResurrectCachedMaster(w, s) EXCEPT !.conn[s].wire = Tail(@)]
    PROVE  WInv(w2)
  <1>1. PICK x : x = w.srv[s]
    OBVIOUS
  <1>2. PICK m : m = x.masterhost
    OBVIOUS
  <1>3. w \in Worlds /\ x \in Server /\ MasterOK(s, x) /\ Shape(s, x, w.conn[s]) /\ m \in Servers /\ m # s /\ m # None
        /\ Pair(w, m, s) /\ w.conn[s] \in Conns \cup {None} /\ MTyped(MV(w.srv[m])) /\ STyped(SV(x), w.conn[s])
    BY <1>1, <1>2, SlaveFacts
  <1>4. PICK k0 \in Conns : k0 = w.conn[s]
    BY <1>1, <1>3 DEF Shape
  <1>5. PICK k : k = [k0 EXCEPT !.wire = Tail(k0.wire)]
    OBVIOUS
  <1>6. k \in Conns /\ k # None /\ k0 # None /\ k.to = k0.to /\ k.wire = Tail(k0.wire) /\ k.req = k0.req /\ k.open = k0.open
    BY <1>4, <1>5, TailWire, SMTT(30)
  <1>7. PICK v : v = MV(w.srv[m])
    OBVIOUS
  <1>8. PICK c : c = w.cl[m][s]
    OBVIOUS
  <1>9. PICK z : z = SV(x)
    OBVIOUS
  <1>10. PairOK(v, z, c, k0) /\ MTyped(v) /\ STyped(z, k0) /\ k0.wire # <<>> /\ u = Head(k0.wire)
    BY <1>1, <1>3, <1>4, <1>7, <1>8, <1>9 DEF Pair
  <1>11. z.repl_state = x.repl_state /\ z.cached = x.cached /\ z.data = x.data /\ z.repl_state = "RECEIVE_PSYNC"
    BY <1>1, <1>9 DEF SV
  <1>12. k0.req = None /\ ~IsStart(c) /\ z.cached # None /\ Follow(c, v, z.cached, z.data, Items(v, c, k))
    <2>1. Answered(v, z, c, k0, u, k)
      BY ONLY <1>6, <1>10, <1>11, PairAnswer
    <2> QED BY ONLY <2>1, u.k = "cont" DEF Answered
  <1>13. LinkedOK(v, c, k)
    BY ONLY <1>6, <1>10, LinkedTail
  <1>14. PICK y : y = [x EXCEPT !.master = x.cached, !.cached = None, !.repl_state = "CONNECTED"]
    OBVIOUS
  <1>15. y \in Server /\ y.masterhost = m /\ y.repl_state = "CONNECTED" /\ y.master = x.cached /\ y.cached = None /\ y.data = x.data
         /\ MV(y) = MV(x)
    BY ONLY <1>2, <1>3, <1>14 DEF Server, MV
  <1>16. w = [srv |-> w.srv, cl |-> w.cl, conn |-> w.conn] /\ w.srv \in [Servers -> Server] /\ w.conn \in [Servers -> Conns \cup {None}]
    BY <1>3, WorldTypes
  <1>17. w2 = [srv |-> [w.srv EXCEPT ![s] = y], cl |-> w.cl, conn |-> [w.conn EXCEPT ![s] = k]]
    <2>1. PICK r : r = replicationResurrectCachedMaster(w, s)
      OBVIOUS
    <2>2. r = [srv |-> [w.srv EXCEPT ![s].master = w.srv[s].cached, ![s].cached = None, ![s].repl_state = "CONNECTED"], cl |-> w.cl, conn |-> w.conn]
      BY ONLY <1>16, <2>1 DEF replicationResurrectCachedMaster
    <2>3. [w.srv EXCEPT ![s].master = w.srv[s].cached, ![s].cached = None, ![s].repl_state = "CONNECTED"] = [w.srv EXCEPT ![s] = y]
      BY ONLY <1>1, <1>14, <1>16, s \in Servers
    <2>4. r = [srv |-> [w.srv EXCEPT ![s] = y], cl |-> w.cl, conn |-> w.conn]
      BY ONLY <2>2, <2>3
    <2>7. w2 = [r EXCEPT !.conn[s].wire = Tail(@)]
      BY <2>1
    <2>5. w2 = [srv |-> [w.srv EXCEPT ![s] = y], cl |-> w.cl, conn |-> [w.conn EXCEPT ![s].wire = Tail(@)]]
      BY ONLY <2>4, <2>7
    <2>6. [w.conn EXCEPT ![s].wire = Tail(@)] = [w.conn EXCEPT ![s] = k]
      BY ONLY <1>4, <1>5, <1>16, s \in Servers
    <2> QED BY ONLY <2>5, <2>6
  <1>18. LinkSet(w, w2, s, y, m, w.cl[m][s], k)
    BY ONLY <1>3, <1>6, <1>15, <1>17, s \in Servers, WorldConn
  <1>19. y.repl_state # "TRANSFER"
    BY <1>15
  <1>20. MasterOK(s, y)
    BY ONLY <1>3, <1>15, <1>19, MasterSame
  <1>21. Shape(s, y, k)
    BY <1>1, <1>2, <1>3, <1>4, <1>6, <1>11, <1>12, <1>15 DEF Shape
  <1>22. PICK z2 : z2 = SV(y)
    OBVIOUS
  <1>23. z2.repl_state = "CONNECTED" /\ z2.cached = None /\ z2.master = z.cached /\ z2.data = z.data
    BY <1>11, <1>15, <1>22 DEF SV
  <1>24. PairOK(v, z2, c, k)
    BY ONLY <1>6, <1>12, <1>13, <1>23, PairContinues
  <1>25. PairOK(MV(w.srv[m]), SV(y), w.cl[m][s], k)
    BY ONLY <1>7, <1>8, <1>22, <1>24
  <1>26. m = w.srv[s].masterhost /\ MV(y) = MV(w.srv[s])
    BY ONLY <1>1, <1>2, <1>15
  <1> QED BY ONLY WInv(w), s \in Servers, <1>3, <1>15, <1>18, <1>20, <1>21, <1>25, <1>26, SlaveTurn

LEMMA NoSlaves ==
    ASSUME NEW w, WInv(w), NEW m \in Servers, w.srv[m].backlog = None
    PROVE  SlavesOf(w, m) = {}
  <1> SUFFICES ASSUME NEW t \in Servers, w.cl[m][t] # None PROVE FALSE
    BY DEF SlavesOf
  <1>1. w.srv[t].masterhost = m /\ m # None
    BY NoneAssumption DEF WInv, SlaveOK
  <1>2. Pair(w, m, t)
    BY <1>1, PairFacts
  <1>3. MV(w.srv[m]).backlog # None
    BY <1>2 DEF Pair, PairOK, LinkedOK
  <1> QED BY <1>3 DEF MV

\* +FULLRESYNC.
LEMMA FullInv ==
    ASSUME NEW w, WInv(w), NEW s \in Servers, w.srv[s].repl_state = "RECEIVE_PSYNC", w.srv[s].backlog = None, w.conn[s].wire # <<>>,
           NEW u, u = Head(w.conn[s].wire), u.k = "full", NEW d, d = replicationDiscardCachedMaster(w, s), NEW w2,
           w2 = [d EXCEPT !.conn[s].wire = Tail(@), !.srv[s].repl_state = "TRANSFER", !.srv[s].init = [runid |-> u.runid, off |-> u.off]]
    PROVE  WInv(w2)
  <1>1. PICK x : x = w.srv[s]
    OBVIOUS
  <1>2. PICK m : m = x.masterhost
    OBVIOUS
  <1>3. w \in Worlds /\ x \in Server /\ MasterOK(s, x) /\ Shape(s, x, w.conn[s]) /\ m \in Servers /\ m # s /\ m # None
        /\ Pair(w, m, s) /\ w.conn[s] \in Conns \cup {None} /\ MTyped(MV(w.srv[m])) /\ STyped(SV(x), w.conn[s])
        /\ CachedOK(MV(w.srv[m]), SV(x))
    BY <1>1, <1>2, SlaveFacts
  <1>4. PICK k0 \in Conns : k0 = w.conn[s]
    BY <1>1, <1>3 DEF Shape
  <1>5. PICK k1 : k1 = [k0 EXCEPT !.wire = Tail(k0.wire)]
    OBVIOUS
  <1>6. k1 \in Conns /\ k1 # None /\ k0 # None /\ k1.to = k0.to /\ k1.wire = Tail(k0.wire) /\ k1.req = k0.req /\ k1.open = k0.open
    BY <1>4, <1>5, TailWire
  <1>7. PICK v : v = MV(w.srv[m])
    OBVIOUS
  <1>8. PICK c : c = w.cl[m][s]
    OBVIOUS
  <1>9. PICK z : z = SV(x)
    OBVIOUS
  <1>10. PairOK(v, z, c, k0) /\ MTyped(v) /\ STyped(z, k0) /\ k0.wire # <<>> /\ u = Head(k0.wire) /\ CachedOK(v, z)
    BY <1>1, <1>3, <1>4, <1>7, <1>8, <1>9 DEF Pair
  <1>11. z.repl_state = x.repl_state /\ z.cached = x.cached /\ z.data = x.data /\ z.init = x.init /\ z.repl_state = w.srv[s].repl_state
    BY <1>1, <1>9 DEF SV
  <1>12. w = [srv |-> w.srv, cl |-> w.cl, conn |-> w.conn] /\ w.srv \in [Servers -> Server] /\ w.conn \in [Servers -> Conns \cup {None}]
    BY <1>3, WorldTypes
  <1>13. PICK init : init = [runid |-> u.runid, off |-> u.off]
    OBVIOUS
  <1>14. k0.req = None /\ ~IsStart(c) /\ init \in [runid : RunIds, off : Nat] /\ TransferOK(v, init, c, Items(v, c, k1))
    <2>1. Answered(v, z, c, k0, u, k1)
      BY ONLY <1>6, <1>10, <1>11, w.srv[s].repl_state = "RECEIVE_PSYNC", PairAnswer
    <2> QED BY ONLY <1>13, <2>1, u.k = "full" DEF Answered
  <1>15. LinkedOK(v, c, k1)
    BY ONLY <1>6, <1>10, LinkedTail
  <1>16. PICK y1 : y1 = [x EXCEPT !.cached = None, !.repl_state = "TRANSFER"]
    OBVIOUS
  <1>17. y1 \in Server /\ y1.masterhost = m /\ y1.repl_state = "TRANSFER" /\ y1.master = x.master /\ y1.cached = None /\ y1.data = x.data
         /\ MV(y1) = MV(x) /\ y1.runid = x.runid /\ y1.backlog = x.backlog
    BY ONLY <1>2, <1>3, <1>16, ZenonT(60) DEF Server, MV
  <1>18. PICK y : y = [y1 EXCEPT !.init = init]
    OBVIOUS
  <1>19. y \in Server /\ y.masterhost = m /\ y.repl_state = "TRANSFER" /\ y.master = x.master /\ y.cached = None /\ y.data = x.data
         /\ MV(y) = MV(x) /\ y.runid = x.runid /\ y.backlog = x.backlog /\ y.init = init
    BY ONLY <1>14, <1>17, <1>18 DEF Server, MV, Offsets
  <1>20. w2 = [srv |-> [w.srv EXCEPT ![s] = y], cl |-> w.cl, conn |-> [w.conn EXCEPT ![s] = k1]]
    <2>1. d = [srv |-> [w.srv EXCEPT ![s].cached = None], cl |-> w.cl, conn |-> w.conn]
      BY ONLY <1>12, d = replicationDiscardCachedMaster(w, s) DEF replicationDiscardCachedMaster
    <2>2. w2 = [srv |-> [[w.srv EXCEPT ![s].cached = None] EXCEPT ![s].repl_state = "TRANSFER", ![s].init = init], cl |-> w.cl,
                conn |-> [w.conn EXCEPT ![s].wire = Tail(@)]]
      BY ONLY <1>13, <2>1,
         w2 = [d EXCEPT !.conn[s].wire = Tail(@), !.srv[s].repl_state = "TRANSFER", !.srv[s].init = [runid |-> u.runid, off |-> u.off]]
    <2>3. [[w.srv EXCEPT ![s].cached = None] EXCEPT ![s].repl_state = "TRANSFER", ![s].init = init] = [w.srv EXCEPT ![s] = y]
      BY ONLY <1>1, <1>12, <1>16, <1>18, s \in Servers
    <2>4. [w.conn EXCEPT ![s].wire = Tail(@)] = [w.conn EXCEPT ![s] = k1]
      BY ONLY <1>4, <1>5, <1>12, s \in Servers
    <2> QED BY ONLY <2>2, <2>3, <2>4
  <1>21. LinkSet(w, w2, s, y, m, w.cl[m][s], k1)
    BY ONLY <1>3, <1>6, <1>19, <1>20, s \in Servers, WorldConn
  <1>22. MasterOK(s, y)
    BY <1>1, <1>3, <1>19 DEF MasterOK
  <1>23. Shape(s, y, k1)
    BY <1>1, <1>2, <1>3, <1>4, <1>6, <1>19 DEF Shape
  <1>24. PICK z2 : z2 = SV(y)
    OBVIOUS
  <1>25. z2.repl_state = "TRANSFER" /\ z2.cached = None /\ z2.init = init
    BY <1>19, <1>24 DEF SV
  <1>26. PairOK(v, z2, c, k1)
    BY ONLY <1>6, <1>14, <1>15, <1>25, PairFull
  <1>27. PairOK(MV(w.srv[m]), SV(y), w.cl[m][s], k1)
    BY ONLY <1>7, <1>8, <1>24, <1>26
  <1>28. m = w.srv[s].masterhost /\ MV(y) = MV(w.srv[s])
    BY ONLY <1>1, <1>2, <1>19
  <1> QED BY ONLY WInv(w), s \in Servers, <1>3, <1>19, <1>21, <1>22, <1>23, <1>27, <1>28, SlaveTurn

\* Anything else: the slave tries SYNC.
LEMMA ErrInv ==
    ASSUME NEW w, WInv(w), NEW s \in Servers, w.srv[s].repl_state = "RECEIVE_PSYNC", w.srv[s].backlog = None, w.conn[s].wire # <<>>,
           NEW u, u = Head(w.conn[s].wire), u.k \notin {"cont", "full"}, NEW d, d = replicationDiscardCachedMaster(w, s), NEW w2,
           w2 = [d EXCEPT !.conn[s].wire = Tail(@), !.srv[s].repl_state = "TRANSFER", !.conn[s].req = [cmd |-> "SYNC"]]
    PROVE  WInv(w2)
  <1>1. PICK x : x = w.srv[s]
    OBVIOUS
  <1>2. PICK m : m = x.masterhost
    OBVIOUS
  <1>3. w \in Worlds /\ x \in Server /\ MasterOK(s, x) /\ Shape(s, x, w.conn[s]) /\ m \in Servers /\ m # s /\ m # None
        /\ Pair(w, m, s) /\ w.conn[s] \in Conns \cup {None} /\ MTyped(MV(w.srv[m])) /\ STyped(SV(x), w.conn[s])
        /\ CachedOK(MV(w.srv[m]), SV(x))
    BY <1>1, <1>2, SlaveFacts
  <1>4. PICK k0 \in Conns : k0 = w.conn[s]
    BY <1>1, <1>3 DEF Shape
  <1>5. PICK k1 : k1 = [k0 EXCEPT !.wire = Tail(k0.wire)]
    OBVIOUS
  <1>6. k1 \in Conns /\ k1 # None /\ k0 # None /\ k1.to = k0.to /\ k1.wire = Tail(k0.wire) /\ k1.req = k0.req /\ k1.open = k0.open
    BY <1>4, <1>5, TailWire
  <1>7. PICK v : v = MV(w.srv[m])
    OBVIOUS
  <1>8. PICK c : c = w.cl[m][s]
    OBVIOUS
  <1>9. PICK z : z = SV(x)
    OBVIOUS
  <1>10. PairOK(v, z, c, k0) /\ MTyped(v) /\ STyped(z, k0) /\ k0.wire # <<>> /\ u = Head(k0.wire) /\ CachedOK(v, z)
    BY <1>1, <1>3, <1>4, <1>7, <1>8, <1>9 DEF Pair
  <1>11. z.repl_state = x.repl_state /\ z.cached = x.cached /\ z.data = x.data /\ z.init = x.init /\ z.repl_state = w.srv[s].repl_state
    BY <1>1, <1>9 DEF SV
  <1>12. w = [srv |-> w.srv, cl |-> w.cl, conn |-> w.conn] /\ w.srv \in [Servers -> Server] /\ w.conn \in [Servers -> Conns \cup {None}]
    BY <1>3, WorldTypes
  <1>14. k0.req = None /\ ~IsStart(c) /\ c = None /\ Tail(k0.wire) = <<>>
    <2>1. Answered(v, z, c, k0, u, k1)
      BY ONLY <1>6, <1>10, <1>11, w.srv[s].repl_state = "RECEIVE_PSYNC", PairAnswer
    <2> QED BY ONLY <2>1, u.k \notin {"cont", "full"} DEF Answered
  <1>15. PICK req : req = [cmd |-> "SYNC"]
    OBVIOUS
  <1>16. req \in Reqs
    BY <1>15 DEF Reqs
  <1>17. PICK k : k = [k1 EXCEPT !.req = req]
    OBVIOUS
  <1>18. k \in Conns /\ k # None /\ k.to = k0.to /\ k.wire = <<>> /\ k.req = req /\ req # None
    <2>1. k \in Conns /\ k.to = k0.to /\ k.wire = <<>> /\ k.req = req
      BY ONLY <1>6, <1>14, <1>16, <1>17 DEF Conns
    <2> QED BY <1>16, <2>1, NoneAssumption
  <1>19. PICK y : y = [x EXCEPT !.cached = None, !.repl_state = "TRANSFER"]
    OBVIOUS
  <1>20. y \in Server /\ y.masterhost = m /\ y.repl_state = "TRANSFER" /\ y.master = x.master /\ y.cached = None /\ y.data = x.data
         /\ MV(y) = MV(x) /\ y.runid = x.runid /\ y.backlog = x.backlog /\ y.init = x.init
    BY ONLY <1>2, <1>3, <1>19, ZenonT(60) DEF Server, MV
  <1>21. w2 = [srv |-> [w.srv EXCEPT ![s] = y], cl |-> w.cl, conn |-> [w.conn EXCEPT ![s] = k]]
    <2>1. d = [srv |-> [w.srv EXCEPT ![s].cached = None], cl |-> w.cl, conn |-> w.conn]
      BY ONLY <1>12, d = replicationDiscardCachedMaster(w, s) DEF replicationDiscardCachedMaster
    <2>2. w2 = [srv |-> [[w.srv EXCEPT ![s].cached = None] EXCEPT ![s].repl_state = "TRANSFER"], cl |-> w.cl,
                conn |-> [w.conn EXCEPT ![s].wire = Tail(@), ![s].req = req]]
      BY ONLY <1>15, <2>1,
         w2 = [d EXCEPT !.conn[s].wire = Tail(@), !.srv[s].repl_state = "TRANSFER", !.conn[s].req = [cmd |-> "SYNC"]]
    <2>3. [[w.srv EXCEPT ![s].cached = None] EXCEPT ![s].repl_state = "TRANSFER"] = [w.srv EXCEPT ![s] = y]
      BY ONLY <1>1, <1>12, <1>19, s \in Servers
    <2>4. [w.conn EXCEPT ![s].wire = Tail(@), ![s].req = req] = [w.conn EXCEPT ![s] = k]
      BY ONLY <1>4, <1>5, <1>12, <1>17, s \in Servers
    <2> QED BY ONLY <2>2, <2>3, <2>4
  <1>22. LinkSet(w, w2, s, y, m, w.cl[m][s], k)
    BY ONLY <1>3, <1>18, <1>20, <1>21, s \in Servers, WorldConn
  <1>23. MasterOK(s, y)
    BY <1>1, <1>3, <1>20 DEF MasterOK
  <1>24. Shape(s, y, k)
    BY <1>1, <1>2, <1>3, <1>4, <1>6, <1>18, <1>20 DEF Shape
  <1>25. PICK z2 : z2 = SV(y)
    OBVIOUS
  <1>26. z2.repl_state = "TRANSFER" /\ z2.cached = None /\ z2.init.off = -1 /\ k.req = [cmd |-> "SYNC"] /\ k.req # None
    BY <1>1, <1>3, <1>15, <1>18, <1>20, <1>25 DEF SV, Shape
  <1>27. CachedOK(v, z2)
    BY <1>26 DEF CachedOK
  <1>28. PairOK(v, z2, None, k)
    BY ONLY <1>18, <1>26, <1>27, PairAsks
  <1>29. PairOK(MV(w.srv[m]), SV(y), w.cl[m][s], k)
    BY ONLY <1>7, <1>8, <1>14, <1>25, <1>28
  <1>30. m = w.srv[s].masterhost /\ MV(y) = MV(w.srv[s])
    BY ONLY <1>1, <1>2, <1>20
  <1> QED BY ONLY WInv(w), s \in Servers, <1>3, <1>20, <1>22, <1>23, <1>24, <1>29, <1>30, SlaveTurn

LEMMA AnswerInv ==
    ASSUME NEW w, WInv(w), NEW s \in Servers, w.srv[s].repl_state = "RECEIVE_PSYNC", w.conn[s].wire # <<>>,
           NEW u, u = Head(w.conn[s].wire), NEW w2, w2 = slaveTryPartialResynchronization(w, s, u)
    PROVE  WInv(w2)
  <1>1. CASE u.k = "cont"
    <2>1. w2 = [replicationResurrectCachedMaster(w, s) EXCEPT !.conn[s].wire = Tail(@)]
      BY <1>1 DEF slaveTryPartialResynchronization
    <2> QED BY ONLY <1>1, <2>1, WInv(w), s \in Servers, w.srv[s].repl_state = "RECEIVE_PSYNC", w.conn[s].wire # <<>>,
                    u = Head(w.conn[s].wire), ContInv
  <1>2. PICK f : f = freeReplicationBacklog(disconnectSlaves(w, s), s)
    OBVIOUS
  <1>3. WInv(f) /\ f.srv[s] = [w.srv[s] EXCEPT !.backlog = None] /\ f.conn[s] = w.conn[s]
    BY ONLY <1>2, WInv(w), s \in Servers, DroppedInv
  <1>4. w.srv[s] \in Server
    BY WorldTypes DEF WInv
  <1>5. f.srv[s].repl_state = "RECEIVE_PSYNC" /\ f.srv[s].backlog = None /\ f.conn[s].wire # <<>> /\ u = Head(f.conn[s].wire)
    BY <1>3, <1>4 DEF Server
  <1>6. PICK d : d = replicationDiscardCachedMaster(f, s)
    OBVIOUS
  <1>7. CASE u.k = "full"
    <2>1. w2 = [d EXCEPT !.conn[s].wire = Tail(@), !.srv[s].repl_state = "TRANSFER", !.srv[s].init = [runid |-> u.runid, off |-> u.off]]
      BY <1>2, <1>6, <1>7 DEF slaveTryPartialResynchronization
    <2> QED BY ONLY <1>3, <1>5, <1>6, <1>7, <2>1, s \in Servers, FullInv
  <1>8. CASE u.k \notin {"cont", "full"}
    <2>1. w2 = [d EXCEPT !.conn[s].wire = Tail(@), !.srv[s].repl_state = "TRANSFER", !.conn[s].req = [cmd |-> "SYNC"]]
      BY <1>2, <1>6, <1>8 DEF slaveTryPartialResynchronization
    <2> QED BY ONLY <1>3, <1>5, <1>6, <1>8, <2>1, s \in Servers, ErrInv
  <1> QED BY <1>1, <1>7, <1>8

\* The file.
LEMMA LoadInv ==
    ASSUME NEW w, WInv(w), NEW s \in Servers, w.srv[s].repl_state = "TRANSFER", w.conn[s].wire # <<>>,
           NEW u, u = Head(w.conn[s].wire), u.k = "rdb", NEW w2, w2 = readSyncBulkPayload(w, s, u)
    PROVE  WInv(w2)
  <1>1. PICK x : x = w.srv[s]
    OBVIOUS
  <1>2. PICK m : m = x.masterhost
    OBVIOUS
  <1>3. w \in Worlds /\ x \in Server /\ MasterOK(s, x) /\ Shape(s, x, w.conn[s]) /\ m \in Servers /\ m # s /\ m # None
        /\ Pair(w, m, s) /\ w.conn[s] \in Conns \cup {None} /\ MTyped(MV(w.srv[m])) /\ STyped(SV(x), w.conn[s])
        /\ CachedOK(MV(w.srv[m]), SV(x))
    BY <1>1, <1>2, SlaveFacts
  <1>4. PICK k0 \in Conns : k0 = w.conn[s]
    BY <1>1, <1>3 DEF Shape
  <1>5. PICK k1 : k1 = [k0 EXCEPT !.wire = Tail(k0.wire)]
    OBVIOUS
  <1>6. k1 \in Conns /\ k1 # None /\ k0 # None /\ k1.to = k0.to /\ k1.wire = Tail(k0.wire) /\ k1.req = k0.req /\ k1.open = k0.open
    BY <1>4, <1>5, TailWire
  <1>7. PICK v : v = MV(w.srv[m])
    OBVIOUS
  <1>8. PICK c : c = w.cl[m][s]
    OBVIOUS
  <1>9. PICK z : z = SV(x)
    OBVIOUS
  <1>10. PairOK(v, z, c, k0) /\ MTyped(v) /\ STyped(z, k0) /\ k0.wire # <<>> /\ u = Head(k0.wire) /\ CachedOK(v, z)
    BY <1>1, <1>3, <1>4, <1>7, <1>8, <1>9 DEF Pair
  <1>11. z.repl_state = x.repl_state /\ z.cached = x.cached /\ z.data = x.data /\ z.init = x.init /\ z.repl_state = w.srv[s].repl_state
    BY <1>1, <1>9 DEF SV
  <1>12. w = [srv |-> w.srv, cl |-> w.cl, conn |-> w.conn] /\ w.srv \in [Servers -> Server] /\ w.conn \in [Servers -> Conns \cup {None}]
    BY <1>3, WorldTypes
  <1>13. PICK rec : rec = Rec(x.init)
    OBVIOUS
  <1>14. k0.req = None /\ ~IsStart(c) /\ u.data \in Data /\ Follow(c, v, rec, u.data, Items(v, c, k1))
    BY ONLY <1>6, <1>10, <1>11, <1>13, u.k = "rdb", w.srv[s].repl_state = "TRANSFER", PairFile
  <1>15. LinkedOK(v, c, k1)
    BY ONLY <1>6, <1>10, LinkedTail
  <1>16. rec \in Masters /\ rec # None
    <2>1. x.init \in [runid : RunIds \cup {None}, off : Offsets]
      BY <1>3 DEF Server
    <2> QED BY <1>13, <2>1, RecIsMaster, NoneAssumption
  <1>17. PICK y1 : y1 = [x EXCEPT !.data = u.data, !.rdb = u.data]
    OBVIOUS
  <1>18. y1 \in Server /\ y1.masterhost = m /\ y1.repl_state = x.repl_state /\ y1.cached = x.cached /\ y1.data = u.data
         /\ y1.runid = x.runid /\ y1.backlog = x.backlog /\ y1.reused = x.reused /\ y1.offset = x.offset /\ y1.init = x.init
    <2>1. PICK D \in Data : D = u.data
      BY ONLY <1>14
    <2>2. x \in Server
      BY ONLY <1>3
    <2>3. PICK y0 : y0 = [x EXCEPT !.data = D]
      OBVIOUS
    <2>4. y0 \in Server /\ y0.masterhost = x.masterhost /\ y0.repl_state = x.repl_state /\ y0.cached = x.cached /\ y0.data = D
          /\ y0.runid = x.runid /\ y0.backlog = x.backlog /\ y0.reused = x.reused /\ y0.offset = x.offset /\ y0.init = x.init
      BY ONLY <2>2, <2>3, D \in Data DEF Server
    <2>5. y1 = [y0 EXCEPT !.rdb = D]
      BY ONLY <1>17, <2>1, <2>3
    <2>6. y1 \in Server /\ y1.masterhost = x.masterhost /\ y1.repl_state = x.repl_state /\ y1.cached = x.cached /\ y1.data = D
          /\ y1.runid = x.runid /\ y1.backlog = x.backlog /\ y1.reused = x.reused /\ y1.offset = x.offset /\ y1.init = x.init
      BY ONLY <2>4, <2>5, D \in Data DEF Server
    <2> QED BY ONLY <1>2, <2>1, <2>6
  <1>19. PICK y : y = [y1 EXCEPT !.repl_state = "CONNECTED", !.master = rec]
    OBVIOUS
  <1>20. y \in Server /\ y.masterhost = m /\ y.repl_state = "CONNECTED" /\ y.master = rec /\ y.cached = x.cached /\ y.data = u.data
         /\ y.runid = x.runid /\ y.backlog = x.backlog /\ y.reused = x.reused /\ y.offset = x.offset /\ y.init = x.init
    BY ONLY <1>16, <1>18, <1>19 DEF Server
  <1>21. w2 = [srv |-> [w.srv EXCEPT ![s] = y], cl |-> w.cl, conn |-> [w.conn EXCEPT ![s] = k1]]
    <2>1. w2 = [w EXCEPT !.conn[s].wire = Tail(@),
                    !.srv[s] = [@ EXCEPT !.data = u.data, !.rdb = u.data, !.repl_state = "CONNECTED", !.master = rec]]
      BY <1>1, <1>13 DEF readSyncBulkPayload, Rec
    <2>2. w2 = [srv |-> [w.srv EXCEPT ![s] = [w.srv[s] EXCEPT !.data = u.data, !.rdb = u.data, !.repl_state = "CONNECTED", !.master = rec]],
                cl |-> w.cl, conn |-> [w.conn EXCEPT ![s].wire = Tail(@)]]
      BY ONLY <1>12, <2>1, s \in Servers
    <2>3. [w.srv[s] EXCEPT !.data = u.data, !.rdb = u.data, !.repl_state = "CONNECTED", !.master = rec] = y
      BY ONLY <1>1, <1>3, <1>17, <1>19 DEF Server
    <2>4. [w.conn EXCEPT ![s].wire = Tail(@)] = [w.conn EXCEPT ![s] = k1]
      BY ONLY <1>4, <1>5, <1>12, s \in Servers
    <2> QED BY ONLY <2>2, <2>3, <2>4
  <1>22. LinkSet(w, w2, s, y, m, w.cl[m][s], k1)
    BY ONLY <1>3, <1>6, <1>20, <1>21, s \in Servers, WorldConn
  <1>23. x.backlog = None
    BY <1>1, <1>3 DEF MasterOK
  <1>24. MasterOK(s, y)
    BY <1>3, <1>20, <1>23 DEF MasterOK
  <1>25. x.cached = None
    BY <1>1, <1>3 DEF Shape
  <1>26. Shape(s, y, k1)
    BY <1>1, <1>2, <1>3, <1>4, <1>6, <1>16, <1>20, <1>25 DEF Shape
  <1>27. PICK z2 : z2 = SV(y)
    OBVIOUS
  <1>28. z2.repl_state = "CONNECTED" /\ z2.cached = None /\ z2.master = rec /\ z2.data = u.data
    BY <1>20, <1>25, <1>27 DEF SV
  <1>29. PairOK(v, z2, c, k1)
    BY ONLY <1>6, <1>14, <1>15, <1>28, PairContinues
  <1>30. PairOK(MV(w.srv[m]), SV(y), w.cl[m][s], k1)
    BY ONLY <1>7, <1>8, <1>27, <1>29
  <1>31. SlavesOf(w, s) = {}
    BY <1>1, <1>23, NoSlaves
  <1>32. Keeps(MV(x), MV(y))
    <2>1. x.reused => y.reused
      BY <1>20
    <2>2. y.reused \/ x.offset <= y.offset
      BY <1>3, <1>20 DEF Server, Offsets
    <2>3. y.backlog = None
      BY <1>20, <1>23
    <2> QED BY ONLY <1>3, <1>20, <1>23, <2>1, <2>2, <2>3, ForgetsKeeps
  <1>33. m = w.srv[s].masterhost /\ SlavesOf(w, s) = {} /\ Keeps(MV(w.srv[s]), MV(y))
    BY ONLY <1>1, <1>2, <1>31, <1>32
  <1> QED BY ONLY WInv(w), s \in Servers, <1>3, <1>20, <1>22, <1>24, <1>26, <1>30, <1>33, SlaveTurn

LEMMA FileInv ==
    ASSUME NEW w, WInv(w), NEW s \in Servers, w.srv[s].repl_state = "TRANSFER", w.conn[s].wire # <<>>,
           NEW u, u = Head(w.conn[s].wire), NEW w2, w2 = readSyncBulkPayload(w, s, u)
    PROVE  WInv(w2)
  <1>1. CASE u.k # "rdb"
    <2>1. w2 = cancelReplicationHandshake(w, s)
      BY <1>1 DEF readSyncBulkPayload
    <2> QED BY <2>1, CancelInv
  <1>2. CASE u.k = "rdb"
    BY <1>2, LoadInv
  <1> QED BY <1>1, <1>2

---------------------------------------------------------------------------
(* A command is fed to the slaves.                                         *)

FedWorld(w, w2, m, v2, E) ==
  /\ w2 \in Worlds /\ w2.srv[m] = v2 /\ \A t \in Servers : t # m => w2.srv[t] = w.srv[t]
  /\ \A t \in Servers : w2.cl[m][t] = ToSlave(w.cl[m][t], E)
  /\ \A r, t \in Servers : r # m => w2.cl[r][t] = w.cl[r][t]
  /\ \A t \in Servers : w2.conn[t] = IF Direct(w.cl[m][t]) THEN Sent(w.conn[t], E) ELSE w.conn[t]

LEMMA SentType ==
    ASSUME NEW k \in Conns \cup {None}, NEW E \in Seq(Msgs)
    PROVE  /\ Sent(k, E) \in Conns \cup {None} /\ (k = None => Sent(k, E) = None)
           /\ k # None => /\ Sent(k, E) \in Conns /\ Sent(k, E) # None /\ Sent(k, E).to = k.to /\ Sent(k, E).wire = k.wire \o E
                          /\ Sent(k, E).req = k.req /\ Sent(k, E).open = k.open
  <1>1. CASE k = None
    BY <1>1 DEF Sent
  <1>2. CASE k # None
    <2>1. k \in Conns /\ Sent(k, E) = [k EXCEPT !.wire = k.wire \o E]
      BY <1>2 DEF Sent
    <2>2. k.wire \in Seq(Msgs)
      BY <2>1 DEF Conns
    <2>7. k.wire \o E \in Seq(Msgs)
      BY <2>2
    <2>3. PICK U \in Seq(Msgs) : U = k.wire \o E
      BY <2>7
    <2>4. PICK j : j = [k EXCEPT !.wire = U]
      OBVIOUS
    <2>5. j \in Conns /\ j.to = k.to /\ j.wire = U /\ j.req = k.req /\ j.open = k.open
      BY ONLY <2>1, <2>4, U \in Seq(Msgs) DEF Conns
    <2>6. j # None /\ Sent(k, E) = j
      BY <2>1, <2>3, <2>4, <2>5, NoneAssumption
    <2> QED BY <1>2, <2>3, <2>5, <2>6
  <1> QED BY <1>1, <1>2

LEMMA ToSlaveType ==
    ASSUME NEW c \in Clients \cup {None}, NEW E \in Seq(Units)
    PROVE  ToSlave(c, E) \in Clients \cup {None} /\ (c = None => ToSlave(c, E) = None)
  <1>1. CASE Fed(c) /\ ~Direct(c)
    <2>1. c \in Clients /\ c # None
      BY <1>1 DEF Fed
    <2>2. c.out \in Seq(Units)
      BY <2>1 DEF Clients
    <2>6. c.out \o E \in Seq(Units)
      BY <2>2
    <2>3. PICK U \in Seq(Units) : U = c.out \o E
      BY <2>6
    <2>4. ToSlave(c, E) = [c EXCEPT !.out = U]
      BY <1>1, <2>3 DEF ToSlave
    <2>5. [c EXCEPT !.out = U] \in Clients
      BY <2>1 DEF Clients
    <2> QED BY <2>1, <2>4, <2>5
  <1>2. CASE ~(Fed(c) /\ ~Direct(c))
    BY <1>2 DEF ToSlave
  <1> QED BY <1>1, <1>2

LEMMA FeedSlavesWorld ==
    ASSUME NEW w \in Worlds, NEW m \in Servers, w.srv[m].backlog # None, NEW db, NEW cmd, NEW E \in Seq(Units),
           E = Selected(w.srv[m].seldb, db) \o cmd, NEW v1, v1 = [w.srv[m] EXCEPT !.seldb = db],
           NEW v2 \in Server, v2 = feedReplicationBacklog(v1, E), NEW w2, w2 = replicationFeedSlaves(w, m, db, cmd)
    PROVE  FedWorld(w, w2, m, v2, E)
  <1>1. /\ w = [srv |-> w.srv, cl |-> w.cl, conn |-> w.conn]
        /\ w.srv \in [Servers -> Server] /\ w.cl \in [Servers -> [Servers -> Clients \cup {None}]] /\ w.conn \in [Servers -> Conns \cup {None}]
    BY WorldTypes
  <1>2. PICK D : D = {t \in Servers : Direct(w.cl[m][t])}
    OBVIOUS
  <1>3. PICK f : f = [w.srv EXCEPT ![m] = v2]
    OBVIOUS
  <1>4. PICK g : g = [t \in Servers |-> ToSlave(w.cl[m][t], E)]
    OBVIOUS
  <1>5. PICK h : h = [t \in Servers |-> IF t \in D THEN Sent(w.conn[t], E) ELSE w.conn[t]]
    OBVIOUS
  <1>6. PICK fed : fed = [w EXCEPT !.srv[m] = v2, !.cl[m] = g]
    OBVIOUS
  <1>7. fed = [srv |-> f, cl |-> [w.cl EXCEPT ![m] = g], conn |-> w.conn]
    BY ONLY <1>1, <1>3, <1>6
  <1>8. w2 = Send(fed, D, E)
    <2>1. (IF w.srv[m].seldb # db THEN <<[k |-> "sel", db |-> db]>> ELSE <<>>) \o cmd = E
      BY ONLY E = Selected(w.srv[m].seldb, db) \o cmd DEF Selected, Sel
    <2>2. fed = [w EXCEPT !.srv[m] = feedReplicationBacklog([@ EXCEPT !.seldb = db], E), !.cl[m] = [t \in Servers |-> ToSlave(w.cl[m][t], E)]]
      BY ONLY <1>1, <1>4, <1>6, v1 = [w.srv[m] EXCEPT !.seldb = db], v2 = feedReplicationBacklog(v1, E)
    <2> QED BY ONLY <1>2, <2>1, <2>2, w2 = replicationFeedSlaves(w, m, db, cmd), w.srv[m].backlog # None DEF replicationFeedSlaves
  <1>9. w2 = [srv |-> f, cl |-> [w.cl EXCEPT ![m] = g], conn |-> h]
    BY ONLY <1>5, <1>7, <1>8 DEF Send
  <1>10. PICK e : e = [w.cl EXCEPT ![m] = g]
    OBVIOUS
  <1>11. f \in [Servers -> Server] /\ f[m] = v2 /\ \A t \in Servers : t # m => f[t] = w.srv[t]
    BY ONLY <1>1, <1>3, m \in Servers, v2 \in Server
  <1>12. g \in [Servers -> Clients \cup {None}] /\ \A t \in Servers : g[t] = ToSlave(w.cl[m][t], E)
    <2>1. \A t \in Servers : ToSlave(w.cl[m][t], E) \in Clients \cup {None}
      BY <1>1, ToSlaveType
    <2> QED BY ONLY <1>4, <2>1
  <1>13. e \in [Servers -> [Servers -> Clients \cup {None}]] /\ e[m] = g /\ \A r \in Servers : r # m => e[r] = w.cl[r]
    BY ONLY <1>1, <1>10, <1>12, m \in Servers
  <1>14. h \in [Servers -> Conns \cup {None}] /\ \A t \in Servers : h[t] = IF Direct(w.cl[m][t]) THEN Sent(w.conn[t], E) ELSE w.conn[t]
    <2>1. E \in Seq(Msgs)
      BY UnitsAreMsgs
    <2>2. \A t \in Servers : Sent(w.conn[t], E) \in Conns \cup {None} /\ w.conn[t] \in Conns \cup {None}
      BY <1>1, <2>1, SentType
    <2>3. \A t \in Servers : h[t] \in Conns \cup {None}
      BY ONLY <1>5, <2>2
    <2>4. \A t \in Servers : h[t] = IF Direct(w.cl[m][t]) THEN Sent(w.conn[t], E) ELSE w.conn[t]
      BY ONLY <1>2, <1>5
    <2> QED BY ONLY <1>5, <2>3, <2>4
  <1>15. w2 \in Worlds /\ w2.srv = f /\ w2.cl = e /\ w2.conn = h
    BY ONLY <1>9, <1>10, <1>11, <1>13, <1>14 DEF Worlds
  <1> QED BY ONLY <1>11, <1>12, <1>13, <1>14, <1>15, m \in Servers DEF FedWorld

\* wr: what was done before, to the server itself.
LEMMA FeedFit ==
    ASSUME NEW w, WInv(w), NEW m \in Servers, NEW wr, wr.cl = w.cl,
           \A t \in Servers : t # m => wr.srv[t] = w.srv[t] /\ wr.conn[t] = w.conn[t],
           NEW v2, NEW E \in Seq(Units), NEW w2, FedWorld(wr, w2, m, v2, E), Moves(MV(w.srv[m]), MV(v2), E), v2.child = w.srv[m].child
    PROVE  OthersAlone(w, w2, m) /\ SlavesFit(w, w2, m)
  <1>1. w \in Worlds
    BY DEF WInv
  <1>2. /\ w2.srv[m] = v2 /\ \A t \in Servers : t # m => w2.srv[t] = w.srv[t]
        /\ \A t \in Servers : w2.cl[m][t] = ToSlave(w.cl[m][t], E)
        /\ \A r, t \in Servers : r # m => w2.cl[r][t] = w.cl[r][t]
        /\ \A t \in Servers : t # m => w2.conn[t] = IF Direct(w.cl[m][t]) THEN Sent(w.conn[t], E) ELSE w.conn[t]
    BY DEF FedWorld
  <1>3. E \in Seq(Msgs)
    BY UnitsAreMsgs
  <1>4. OthersAlone(w, w2, m)
    <2>1. ASSUME NEW t \in Servers, t # m, w.srv[t].masterhost # m PROVE w2.conn[t] = w.conn[t] /\ w2.cl[m][t] = w.cl[m][t]
      <3>1. w.cl[m][t] = None
        BY <2>1, NotItsMaster
      <3> QED BY <1>2, <2>1, <3>1 DEF ToSlave, Direct, Fed
    <2> QED BY <1>2, <2>1 DEF OthersAlone
  <1>5. ASSUME NEW t \in Servers, t # m, w.srv[t].masterhost = m
        PROVE  (w2.conn[t] = None <=> w.conn[t] = None) /\ (w2.conn[t] # None => w2.conn[t].to = m) /\ Pair(w2, m, t)
    <2>1. m # None
      BY NoneAssumption
    <2>2. Pair(w, m, t) /\ MTyped(MV(w.srv[m])) /\ STyped(SV(w.srv[t]), w.conn[t])
      BY <1>5, <2>1, PairFacts
    <2>3. PICK k \in Conns \cup {None} : k = w.conn[t]
      BY <1>1, WorldTypes
    <2>4. k # None => k.to = m
      BY <1>5, <2>3 DEF WInv, SlaveOK, Shape
    <2>5. PICK c : c = w.cl[m][t]
      OBVIOUS
    <2>6. PICK d : d = ToSlave(c, E)
      OBVIOUS
    <2>7. PICK j : j = IF Direct(c) THEN Sent(k, E) ELSE k
      OBVIOUS
    <2>8. (j = None <=> k = None) /\ (j # None => j.to = m)
      <3>1. (k = None => Sent(k, E) = None) /\ (k # None => Sent(k, E) # None /\ Sent(k, E).to = k.to)
        BY <1>3, SentType
      <3> QED BY <2>4, <2>7, <3>1
    <2>9. PICK v : v = MV(w.srv[m])
      OBVIOUS
    <2>10. PICK v3 : v3 = MV(v2)
      OBVIOUS
    <2>11. PICK x : x = SV(w.srv[t])
      OBVIOUS
    <2>12. Moves(v, v3, E) /\ v3.child = v.child /\ MTyped(v) /\ STyped(x, k) /\ PairOK(v, x, c, k)
      BY <2>2, <2>3, <2>5, <2>9, <2>10, <2>11 DEF MV, Pair
    <2>13. PairOK(v3, x, d, j)
      BY ONLY <2>6, <2>7, <2>12, PairFeed
    <2>14. w2.conn[t] = j /\ w2.cl[m][t] = d /\ MV(w2.srv[m]) = v3 /\ SV(w2.srv[t]) = x
      BY <1>2, <1>5, <2>3, <2>5, <2>6, <2>7, <2>10, <2>11
    <2>15. Pair(w2, m, t)
      BY ONLY <2>13, <2>14 DEF Pair
    <2> QED BY <2>3, <2>8, <2>14, <2>15
  <1>6. SlavesFit(w, w2, m)
    BY <1>5 DEF SlavesFit
  <1> QED BY <1>4, <1>6

LEMMA FeedStep ==
    ASSUME NEW w, WInv(w), NEW m \in Servers, NEW wr, wr.cl = w.cl, wr.conn = w.conn, \A t \in Servers : t # m => wr.srv[t] = w.srv[t],
           NEW v2, NEW E \in Seq(Units), NEW w2, FedWorld(wr, w2, m, v2, E), Moves(MV(w.srv[m]), MV(v2), E), v2.child = w.srv[m].child,
           SameRole(w.srv[m], v2), MasterOK(m, v2)
    PROVE  WInv(w2)
  <1>1. OthersAlone(w, w2, m) /\ SlavesFit(w, w2, m)
    BY FeedFit
  <1>2. /\ w2 \in Worlds /\ w2.srv[m] = v2 /\ \A t \in Servers : w2.cl[m][t] = ToSlave(w.cl[m][t], E)
        /\ \A r, t \in Servers : r # m => w2.cl[r][t] = w.cl[r][t]
        /\ \A t \in Servers : w2.conn[t] = IF Direct(w.cl[m][t]) THEN Sent(w.conn[t], E) ELSE w.conn[t]
    BY DEF FedWorld
  <1>3. w.cl[m][m] = None
    BY NotItsOwnMaster
  <1>4. w2.conn[m] = w.conn[m] /\ w2.cl[m][m] = w.cl[m][m]
    BY <1>2, <1>3 DEF ToSlave, Direct, Fed
  <1>5. MasterSide(w, w2, m)
    BY <1>1, <1>2, <1>4 DEF MasterSide, OthersAlone
  <1>6. SameRole(w.srv[m], w2.srv[m]) /\ MasterOK(m, w2.srv[m])
    BY <1>2
  <1> QED BY ONLY WInv(w), m \in Servers, <1>1, <1>2, <1>5, <1>6, MasterStep

\* What feeding leaves alone.
LEMMA FedServer ==
    ASSUME NEW v1 \in Server, NEW v, NEW v2, NEW E, FedBy(v, v1, v2, E)
    PROVE  /\ v2 \in Server /\ v2.backlog # None /\ BacklogOK(v2) /\ Moves(MV(v), MV(v2), E)
           /\ v2.runid = v1.runid /\ v2.masterhost = v1.masterhost /\ v2.repl_state = v1.repl_state /\ v2.master = v1.master
           /\ v2.cached = v1.cached /\ v2.init = v1.init /\ v2.data = v1.data /\ v2.child = v1.child
  <1>1. v2 = [v1 EXCEPT !.offset = v2.offset, !.backlog = v2.backlog] /\ v2 \in Server /\ v2.backlog # None /\ BacklogOK(v2)
        /\ Moves(MV(v), MV(v2), E)
    BY DEF FedBy
  <1>2. PICK a : a = v2.offset
    OBVIOUS
  <1>3. PICK b : b = v2.backlog
    OBVIOUS
  <1>4. v2 = [v1 EXCEPT !.offset = a, !.backlog = b]
    BY ONLY <1>1, <1>2, <1>3
  <1>5. v2.runid = v1.runid /\ v2.masterhost = v1.masterhost /\ v2.repl_state = v1.repl_state /\ v2.master = v1.master
        /\ v2.cached = v1.cached /\ v2.init = v1.init /\ v2.data = v1.data /\ v2.child = v1.child
    BY ONLY <1>4, v1 \in Server DEF Server
  <1> QED BY ONLY <1>1, <1>5

LEMMA WriteInv ==
    ASSUME NEW w, WInv(w), NEW m \in Servers, w.srv[m].masterhost = None, NEW db \in Dbs, NEW id \in Nat,
           NEW wr, wr = [w EXCEPT !.srv[m].data = Append(@, <<id, db>>)], NEW w2, w2 = replicationFeedSlaves(wr, m, db, Halves(id))
    PROVE  WInv(w2)
  <1>1. w \in Worlds /\ MasterOK(m, w.srv[m])
    BY DEF WInv
  <1>2. PICK v \in Server : v = w.srv[m]
    BY <1>1, WorldTypes
  <1>3. v.data \in Data /\ <<id, db>> \in Nat \X Nat
    BY SizesAssumption DEF Server
  <1>4. Append(v.data, <<id, db>>) \in Data
    BY <1>3 DEF Data
  <1>5. PICK data \in Data : data = Append(v.data, <<id, db>>)
    BY <1>4
  <1>6. PICK va : va = [v EXCEPT !.data = data]
    OBVIOUS
  <1>7. /\ va \in Server /\ va.data = data /\ va.masterhost = v.masterhost /\ va.repl_state = v.repl_state /\ va.master = v.master
        /\ va.cached = v.cached /\ va.init = v.init /\ va.runid = v.runid /\ va.reused = v.reused /\ va.offset = v.offset
        /\ va.backlog = v.backlog /\ va.child = v.child /\ va.seldb = v.seldb
    BY ONLY <1>6, v \in Server, data \in Data DEF Server
  <1>8. wr = [w EXCEPT !.srv[m] = va]
    <2>1. wr = [w EXCEPT !.srv[m] = [w.srv[m] EXCEPT !.data = Append(w.srv[m].data, <<id, db>>)]]
      BY ONLY wr = [w EXCEPT !.srv[m].data = Append(@, <<id, db>>)]
    <2> QED BY ONLY <1>2, <1>5, <1>6, <2>1
  <1>9. SrvSet(w, wr, m, va)
    BY ONLY <1>1, <1>7, <1>8, m \in Servers, WorldSrv
  <1>10. wr \in Worlds /\ wr.srv[m] = va /\ wr.cl = w.cl /\ wr.conn = w.conn /\ \A t \in Servers : t # m => wr.srv[t] = w.srv[t]
    BY ONLY <1>9 DEF SrvSet
  <1>11. CASE v.backlog = None
    <2>1. w2 = wr
      BY ONLY <1>7, <1>10, <1>11, w2 = replicationFeedSlaves(wr, m, db, Halves(id)) DEF replicationFeedSlaves
    <2>2. SlavesOf(w, m) = {}
      BY <1>2, <1>11, NoSlaves
    <2>3. va.backlog = None /\ (v.reused => va.reused) /\ (va.reused \/ v.offset <= va.offset)
      BY <1>7, <1>11 DEF Server, Offsets
    <2>4. Keeps(MV(v), MV(va))
      BY ONLY <1>7, <1>11, <2>3, v \in Server, ForgetsKeeps
    <2>5. Keeps(MV(w.srv[m]), MV(va)) /\ SameRole(w.srv[m], va)
      BY <1>2, <1>7, <2>4 DEF SameRole
    <2>6. MasterOK(m, va)
      BY <1>1, <1>2, <1>7, <2>3 DEF MasterOK
    <2>7. WInv(wr)
      BY ONLY WInv(w), m \in Servers, <1>9, <2>2, <2>5, <2>6, LoneStep
    <2> QED BY <2>1, <2>7
  <1>12. CASE v.backlog # None
    <2>1. PICK v1 : v1 = [va EXCEPT !.seldb = db]
      OBVIOUS
    <2>2. /\ v1 \in Server /\ v1.data = data /\ v1.masterhost = v.masterhost /\ v1.repl_state = v.repl_state /\ v1.master = v.master
          /\ v1.cached = v.cached /\ v1.init = v.init /\ v1.runid = v.runid /\ v1.reused = v.reused /\ v1.offset = v.offset
          /\ v1.backlog = v.backlog /\ v1.child = v.child /\ v1.seldb = db
      BY ONLY <1>7, <2>1, db \in Dbs DEF Server
    <2>3. PICK E : E = Selected(v.seldb, db) \o Halves(id)
      OBVIOUS
    <2>4. PICK v2 : v2 = feedReplicationBacklog(v1, E)
      OBVIOUS
    <2>5. BacklogOK(v) /\ v.repl_state # "TRANSFER" /\ v.runid[1] = m
      BY <1>1, <1>2, <1>12 DEF MasterOK
    <2>6. FedBy(v, v1, v2, E) /\ E \in Seq(Units)
      BY ONLY <1>5, <1>12, <2>2, <2>3, <2>4, <2>5, v \in Server, db \in Dbs, id \in Nat, WriteMoves
    <2>7. /\ v2 \in Server /\ v2.backlog # None /\ BacklogOK(v2) /\ Moves(MV(v), MV(v2), E)
          /\ v2.runid = v1.runid /\ v2.masterhost = v1.masterhost /\ v2.repl_state = v1.repl_state /\ v2.master = v1.master
          /\ v2.cached = v1.cached /\ v2.init = v1.init /\ v2.data = v1.data /\ v2.child = v1.child
      BY ONLY <2>2, <2>6, FedServer
    <2>8. E = Selected(wr.srv[m].seldb, db) \o Halves(id) /\ v1 = [wr.srv[m] EXCEPT !.seldb = db] /\ wr.srv[m].backlog # None
      BY ONLY <1>7, <1>10, <1>12, <2>1, <2>3
    <2>9. FedWorld(wr, w2, m, v2, E)
      BY ONLY <1>10, <2>4, <2>6, <2>7, <2>8, m \in Servers, w2 = replicationFeedSlaves(wr, m, db, Halves(id)), FeedSlavesWorld
    <2>10. SameRole(w.srv[m], v2) /\ MasterOK(m, v2) /\ Moves(MV(w.srv[m]), MV(v2), E) /\ v2.child = w.srv[m].child
      BY <1>2, <2>2, <2>5, <2>7 DEF SameRole, MasterOK
    <2> QED BY ONLY WInv(w), m \in Servers, <1>10, <2>6, <2>9, <2>10, FeedStep
  <1> QED BY <1>11, <1>12

LEMMA PingInv ==
    ASSUME NEW w, WInv(w), NEW m \in Servers, w.srv[m].backlog # None,
           NEW w2, w2 = replicationFeedSlaves(w, m, w.srv[m].seldb, <<[k |-> "ping"]>>)
    PROVE  WInv(w2)
  <1>1. w \in Worlds /\ MasterOK(m, w.srv[m])
    BY DEF WInv
  <1>2. PICK v \in Server : v = w.srv[m]
    BY <1>1, WorldTypes
  <1>3. PICK E : E = <<Ping>>
    OBVIOUS
  <1>4. PICK v2 : v2 = feedReplicationBacklog(v, E)
    OBVIOUS
  <1>5. v.backlog # None /\ BacklogOK(v) /\ v.repl_state # "TRANSFER" /\ v.runid[1] = m
    BY <1>1, <1>2 DEF MasterOK
  <1>6. FedBy(v, v, v2, E)
    BY ONLY <1>3, <1>4, <1>5, v \in Server, PingMoves
  <1>7. E \in Seq(Units)
    BY <1>3, SizesAssumption, UnitsOfACommand
  <1>8. /\ v2 \in Server /\ v2.backlog # None /\ BacklogOK(v2) /\ Moves(MV(v), MV(v2), E)
        /\ v2.runid = v.runid /\ v2.masterhost = v.masterhost /\ v2.repl_state = v.repl_state /\ v2.master = v.master
        /\ v2.cached = v.cached /\ v2.init = v.init /\ v2.data = v.data /\ v2.child = v.child
    BY ONLY <1>6, v \in Server, FedServer
  <1>9. PICK db : db = v.seldb
    OBVIOUS
  <1>10. v = [w.srv[m] EXCEPT !.seldb = db]
    BY ONLY <1>2, <1>9, v \in Server DEF Server
  <1>11. E = Selected(w.srv[m].seldb, db) \o <<[k |-> "ping"]>>
    <2>1. <<>> \o E = E
      BY <1>7, EmptyConcat
    <2> QED BY <1>2, <1>3, <1>9, <2>1 DEF Selected, Ping
  <1>12. w2 = replicationFeedSlaves(w, m, db, <<[k |-> "ping"]>>) /\ w.srv[m].backlog # None
    BY <1>2, <1>9
  <1>13. PICK cmd : cmd = <<[k |-> "ping"]>>
    OBVIOUS
  <1>14. E = Selected(w.srv[m].seldb, db) \o cmd /\ w2 = replicationFeedSlaves(w, m, db, cmd)
    BY ONLY <1>11, <1>12, <1>13
  <1>15. FedWorld(w, w2, m, v2, E)
    BY ONLY <1>1, <1>4, <1>7, <1>8, <1>10, <1>12, <1>14, m \in Servers, FeedSlavesWorld, ZenonT(60)
  <1>16. SameRole(w.srv[m], v2) /\ MasterOK(m, v2) /\ Moves(MV(w.srv[m]), MV(v2), E) /\ v2.child = w.srv[m].child
    BY <1>2, <1>5, <1>8 DEF SameRole, MasterOK
  <1>17. w.cl = w.cl /\ w.conn = w.conn /\ \A t \in Servers : t # m => w.srv[t] = w.srv[t]
    OBVIOUS
  <1> QED BY ONLY WInv(w), m \in Servers, <1>7, <1>15, <1>16, <1>17, FeedStep

\* A write is whole; what reading a unit does then: it is executed; else nothing to the data.
WholeWrite(q) == q[1].k = "w" /\ Len(q) # 1
Outcome(q, data, y) ==
  /\ ~WholeWrite(q) => y.data = data
  /\ WholeWrite(q) => q[1].id \in Nat /\ y.db \in Dbs /\ y.data = Append(data, <<q[1].id, y.db>>)

LEMMA ApplyCases ==
    ASSUME NEW data \in Data, NEW rec \in Masters, NEW u \in Units, NEW q, q = Append(rec.querybuf, u), NEW y, y = Apply(Reading(data, rec), u)
    PROVE  Outcome(q, data, y)
  <1> SUFFICES /\ ~(q[1].k = "w" /\ Len(q) # 1) => y.data = data
               /\ q[1].k = "w" /\ Len(q) # 1 => q[1].id \in Nat /\ y.db \in Dbs /\ y.data = Append(data, <<q[1].id, y.db>>)
    BY DEF Outcome, WholeWrite
  <1>1. rec.querybuf \in Seq(Units) /\ rec.db \in Dbs
    BY DEF Masters
  <1>2. q \in Seq(Units) /\ Len(q) = Len(rec.querybuf) + 1
    BY <1>1
  <1>3. q[1] \in Units
    BY <1>1, <1>2
  <1>4. q[1].k \in {"sel", "ping", "w"} /\ (q[1].k = "w" => q[1].id \in Nat)
    BY <1>3 DEF Units
  <1>5. PICK x : x = Reading(data, rec)
    OBVIOUS
  <1>6. x.data = data /\ x.db = rec.db /\ x.querybuf = rec.querybuf /\ x \in [data : Data, db : Dbs, querybuf : Seq(Units)]
    BY <1>1, <1>5 DEF Reading
  <1>7. CASE q[1].k = "w" /\ Len(q) # 1
    <2>1. y = [x EXCEPT !.data = Append(@, <<q[1].id, x.db>>), !.querybuf = <<>>]
      BY <1>5, <1>6, <1>7 DEF Apply
    <2> QED BY <1>1, <1>4, <1>6, <1>7, <2>1
  <1>8. CASE ~(q[1].k = "w" /\ Len(q) # 1)
    BY <1>4, <1>5, <1>6, <1>8 DEF Apply
  <1> QED BY <1>7, <1>8

ReadWorld(w, s, master, x) ==
  [w EXCEPT !.conn[s].wire = Tail(@),
            !.srv[s] = [@ EXCEPT !.data = x.data, !.master = [master EXCEPT !.reploff = @ + 1, !.db = x.db, !.querybuf = x.querybuf]]]
AfterRead(e, s, q, db) == IF WholeWrite(q) THEN replicationFeedSlaves(e, s, db, Halves(q[1].id)) ELSE e

ReadOf(w, s, master, u) ==
  AfterRead(ReadWorld(w, s, master, Apply(Reading(w.srv[s].data, master), u)), s, Append(master.querybuf, u),
            Apply(Reading(w.srv[s].data, master), u).db)

LEMMA ReadStep ==
    ASSUME NEW w, NEW s
    PROVE  readQueryFromMaster(w, s) = ReadOf(w, s, w.srv[s].master, Head(w.conn[s].wire))
  BY DEF readQueryFromMaster, ReadOf, ReadWorld, AfterRead, WholeWrite

\* A unit of the stream, and the slave in turn feeds its own slaves.
LEMMA UnitInv ==
    ASSUME NEW w, WInv(w), NEW s \in Servers, w.srv[s].repl_state = "CONNECTED", w.conn[s].wire # <<>>,
           NEW u, u = Head(w.conn[s].wire), NEW w2, w2 = readQueryFromMaster(w, s)
    PROVE  WInv(w2)
  <1>1. PICK x : x = w.srv[s]
    OBVIOUS
  <1>2. PICK m : m = x.masterhost
    OBVIOUS
  <1>3. w \in Worlds /\ x \in Server /\ MasterOK(s, x) /\ Shape(s, x, w.conn[s]) /\ m \in Servers /\ m # s /\ m # None
        /\ Pair(w, m, s) /\ w.conn[s] \in Conns \cup {None} /\ MTyped(MV(w.srv[m])) /\ STyped(SV(x), w.conn[s])
        /\ CachedOK(MV(w.srv[m]), SV(x))
    BY <1>1, <1>2, SlaveFacts
  <1>4. PICK k0 \in Conns : k0 = w.conn[s]
    BY <1>1, <1>3 DEF Shape
  <1>5. PICK k1 : k1 = [k0 EXCEPT !.wire = Tail(k0.wire)]
    OBVIOUS
  <1>6. k1 \in Conns /\ k1 # None /\ k0 # None /\ k1.to = k0.to /\ k1.wire = Tail(k0.wire) /\ k1.req = k0.req /\ k1.open = k0.open
    BY <1>4, <1>5, TailWire
  <1>7. PICK v : v = MV(w.srv[m])
    OBVIOUS
  <1>8. PICK c : c = w.cl[m][s]
    OBVIOUS
  <1>9. PICK z : z = SV(x)
    OBVIOUS
  <1>10. PairOK(v, z, c, k0) /\ MTyped(v) /\ STyped(z, k0) /\ k0.wire # <<>> /\ u = Head(k0.wire) /\ CachedOK(v, z)
    BY <1>1, <1>3, <1>4, <1>7, <1>8, <1>9 DEF Pair
  <1>11. z.repl_state = x.repl_state /\ z.cached = x.cached /\ z.data = x.data /\ z.init = x.init /\ z.repl_state = w.srv[s].repl_state
    BY <1>1, <1>9 DEF SV
  <1>12. w = [srv |-> w.srv, cl |-> w.cl, conn |-> w.conn] /\ w.srv \in [Servers -> Server] /\ w.conn \in [Servers -> Conns \cup {None}]
    BY <1>3, WorldTypes
  <1>13. PICK rec \in Masters : rec = x.master
    <2>1. x.master # None
      BY <1>1, <1>3 DEF Shape
    <2> QED BY <1>3, <2>1 DEF Server
  <1>14. PICK y0 : y0 = Apply(Reading(x.data, rec), u)
    OBVIOUS
  <1>15. PICK rec2 : rec2 = Advance(rec, y0)
    OBVIOUS
  <1>16. z.master = rec /\ y0 = Apply(Reading(z.data, rec), u)
    BY <1>9, <1>11, <1>13, <1>14 DEF SV
  <1>17. k0.req = None /\ ~IsStart(c) /\ u \in Units /\ y0 \in States /\ rec2 \in Masters /\ Follow(c, v, rec2, y0.data, Items(v, c, k1))
    BY ONLY <1>6, <1>10, <1>11, <1>15, <1>16, rec \in Masters, w.srv[s].repl_state = "CONNECTED", PairUnit
  <1>18. LinkedOK(v, c, k1)
    BY ONLY <1>6, <1>10, LinkedTail
  <1>19. y0.data \in Data /\ x.data \in Data
    BY <1>3, <1>17 DEF States, Server
  <1>38. PICK dx \in Data : dx = x.data
    BY ONLY <1>19
  <1>39. PICK dy \in Data : dy = y0.data
    BY ONLY <1>19
  <1>40. rec2 \in Masters
    BY ONLY <1>17
  <1>20. PICK y : y = [x EXCEPT !.data = dy, !.master = rec2]
    OBVIOUS
  <1>21. /\ y \in Server /\ y.data = y0.data /\ y.masterhost = m /\ y.repl_state = x.repl_state /\ y.master = rec2
         /\ y.cached = x.cached /\ y.init = x.init /\ y.runid = x.runid /\ y.reused = x.reused /\ y.offset = x.offset
         /\ y.backlog = x.backlog /\ y.child = x.child /\ y.seldb = x.seldb
    <2>1. PICK y1 : y1 = [x EXCEPT !.data = dy]
      OBVIOUS
    <2>2. /\ y1 \in Server /\ y1.data = dy /\ y1.masterhost = m /\ y1.repl_state = x.repl_state
          /\ y1.cached = x.cached /\ y1.init = x.init /\ y1.runid = x.runid /\ y1.reused = x.reused /\ y1.offset = x.offset
          /\ y1.backlog = x.backlog /\ y1.child = x.child /\ y1.seldb = x.seldb
      BY ONLY <1>2, <1>3, <2>1, dy \in Data DEF Server
    <2>3. y = [y1 EXCEPT !.master = rec2]
      BY ONLY <1>3, <1>20, <2>1 DEF Server
    <2>4. /\ y \in Server /\ y.data = dy /\ y.masterhost = m /\ y.repl_state = x.repl_state /\ y.master = rec2
          /\ y.cached = x.cached /\ y.init = x.init /\ y.runid = x.runid /\ y.reused = x.reused /\ y.offset = x.offset
          /\ y.backlog = x.backlog /\ y.child = x.child /\ y.seldb = x.seldb
      BY ONLY <1>40, <2>2, <2>3 DEF Server
    <2> QED BY ONLY <1>39, <2>4
  <1>22. PICK wr : wr = [srv |-> [w.srv EXCEPT ![s] = y], cl |-> w.cl, conn |-> [w.conn EXCEPT ![s] = k1]]
    OBVIOUS
  <1>23. PICK q : q = Append(rec.querybuf, u)
    OBVIOUS
  <1>24. w2 = IF WholeWrite(q) THEN replicationFeedSlaves(wr, s, y0.db, Halves(q[1].id)) ELSE wr
    <2>1. PICK e : e = [w EXCEPT !.conn[s].wire = Tail(@), !.srv[s] = [@ EXCEPT !.data = dy, !.master = rec2]]
      OBVIOUS
    <2>2. e = [srv |-> [w.srv EXCEPT ![s] = [w.srv[s] EXCEPT !.data = dy, !.master = rec2]],
               cl |-> w.cl, conn |-> [w.conn EXCEPT ![s].wire = Tail(@)]]
      BY ONLY <1>12, <2>1, s \in Servers
    <2>3. [w.srv[s] EXCEPT !.data = dy, !.master = rec2] = y
      BY ONLY <1>1, <1>20
    <2>4. [w.conn EXCEPT ![s].wire = Tail(@)] = [w.conn EXCEPT ![s] = k1]
      BY ONLY <1>4, <1>5, <1>12, s \in Servers
    <2>5. wr = e
      BY ONLY <1>22, <2>2, <2>3, <2>4
    <2>6. w.srv[s].master = rec /\ Head(w.conn[s].wire) = u /\ w.srv[s].data = dx
      BY <1>1, <1>13, <1>38
    <2>7. y0 = Apply(Reading(w.srv[s].data, rec), u)
      BY ONLY <1>14, <1>38, <2>6
    <2>8. rec2 = [rec EXCEPT !.reploff = @ + 1, !.db = y0.db, !.querybuf = y0.querybuf]
      BY ONLY <1>15 DEF Advance
    <2>9. e = ReadWorld(w, s, rec, y0)
      BY ONLY <1>39, <2>1, <2>8 DEF ReadWorld
    <2>11. rec = w.srv[s].master /\ u = Head(w.conn[s].wire)
      BY ONLY <2>6
    <2>10. readQueryFromMaster(w, s) = AfterRead(e, s, q, y0.db)
      <3>1. readQueryFromMaster(w, s) = ReadOf(w, s, rec, u)
        BY ONLY <2>11, ReadStep
      <3> QED BY ONLY <1>23, <2>7, <2>9, <3>1 DEF ReadOf
    <2> QED BY ONLY <2>5, <2>10, w2 = readQueryFromMaster(w, s) DEF AfterRead
  <1>25. /\ ~WholeWrite(q) => y0.data = x.data
         /\ WholeWrite(q) => q[1].id \in Nat /\ y0.db \in Dbs /\ y0.data = Append(x.data, <<q[1].id, y0.db>>)
    <2>1. y0 = Apply(Reading(dx, rec), u) /\ u \in Units
      BY ONLY <1>14, <1>17, <1>38
    <2>2. Outcome(q, dx, y0)
      BY ONLY <1>23, <2>1, rec \in Masters, dx \in Data, ApplyCases
    <2> QED BY ONLY <1>38, <2>2 DEF Outcome
  <1>26. LinkSet(w, wr, s, y, m, w.cl[m][s], k1)
    BY ONLY <1>3, <1>6, <1>21, <1>22, s \in Servers, WorldConn
  <1>27. rec2 # None
    BY <1>17, NoneAssumption
  <1>28. Shape(s, y, k1)
    BY <1>1, <1>2, <1>3, <1>4, <1>6, <1>21, <1>27 DEF Shape
  <1>29. PICK z2 : z2 = SV(y)
    OBVIOUS
  <1>30. z2.repl_state = "CONNECTED" /\ z2.cached = None /\ z2.master = rec2 /\ z2.data = y0.data
    BY <1>1, <1>3, <1>21, <1>29 DEF SV, Shape
  <1>31. PairOK(v, z2, c, k1)
    BY ONLY <1>6, <1>17, <1>18, <1>30, PairContinues
  <1>32. PairOK(MV(w.srv[m]), SV(y), w.cl[m][s], k1)
    BY ONLY <1>7, <1>8, <1>29, <1>31
  <1>33. m = w.srv[s].masterhost
    BY ONLY <1>1, <1>2
  <1>34. x.runid[1] = s /\ (x.backlog # None => BacklogOK(x)) /\ x.repl_state # "TRANSFER"
    BY <1>1, <1>3 DEF MasterOK
  <1>35. CASE ~WholeWrite(q)
    <2>1. w2 = wr /\ y.data = x.data
      BY ONLY <1>21, <1>24, <1>25, <1>35
    <2>2. MV(y) = MV(w.srv[s])
      BY <1>1, <1>21, <2>1 DEF MV
    <2>3. MasterOK(s, y)
      BY ONLY <1>1, <1>3, <1>21, <2>2, MasterSame
    <2>4. WInv(wr)
      BY ONLY WInv(w), s \in Servers, <1>3, <1>21, <1>26, <1>28, <1>32, <1>33, <2>2, <2>3, SlaveTurn
    <2> QED BY <2>1, <2>4
  <1>36. CASE WholeWrite(q) /\ x.backlog = None
    <2>1. wr.srv[s] = y
      BY ONLY <1>26 DEF LinkSet
    <2>2. w2 = wr
      BY ONLY <1>21, <1>24, <1>36, <2>1 DEF replicationFeedSlaves
    <2>3. SlavesOf(w, s) = {}
      BY <1>1, <1>36, NoSlaves
    <2>4. y.backlog = None /\ (x.reused => y.reused) /\ (y.reused \/ x.offset <= y.offset)
      BY <1>3, <1>21, <1>36 DEF Server, Offsets
    <2>5. Keeps(MV(x), MV(y))
      BY ONLY <1>3, <1>21, <1>36, <2>4, ForgetsKeeps
    <2>6. SlavesOf(w, s) = {} /\ Keeps(MV(w.srv[s]), MV(y))
      BY ONLY <1>1, <2>3, <2>5
    <2>7. MasterOK(s, y)
      BY <1>21, <1>34, <2>4 DEF MasterOK
    <2>8. WInv(wr)
      BY ONLY WInv(w), s \in Servers, <1>3, <1>21, <1>26, <1>28, <1>32, <1>33, <2>6, <2>7, SlaveTurn
    <2> QED BY <2>2, <2>8
  <1>37. CASE WholeWrite(q) /\ x.backlog # None
    <2>1. PICK id \in Nat : id = q[1].id
      BY ONLY <1>25, <1>37
    <2>2. PICK db \in Dbs : db = y0.db
      BY ONLY <1>25, <1>37
    <2>3. y.data = Append(x.data, <<id, db>>)
      BY ONLY <1>21, <1>25, <1>37, <2>1, <2>2
    <2>4. w2 = replicationFeedSlaves(wr, s, db, Halves(id))
      BY ONLY <1>24, <1>37, <2>1, <2>2
    <2>5. PICK v1 : v1 = [y EXCEPT !.seldb = db]
      OBVIOUS
    <2>6. /\ v1 \in Server /\ v1.data = y.data /\ v1.masterhost = y.masterhost /\ v1.repl_state = y.repl_state /\ v1.master = y.master
          /\ v1.cached = y.cached /\ v1.init = y.init /\ v1.runid = x.runid /\ v1.reused = x.reused /\ v1.offset = x.offset
          /\ v1.backlog = x.backlog /\ v1.child = x.child /\ v1.seldb = db
      BY ONLY <1>21, <2>5, db \in Dbs DEF Server
    <2>7. PICK E : E = Selected(x.seldb, db) \o Halves(id)
      OBVIOUS
    <2>8. PICK v2 : v2 = feedReplicationBacklog(v1, E)
      OBVIOUS
    <2>9. v1.data = Append(x.data, <<id, db>>) /\ BacklogOK(x) /\ x.backlog # None
      BY ONLY <1>34, <1>37, <2>3, <2>6
    <2>10. FedBy(x, v1, v2, E) /\ E \in Seq(Units)
      BY ONLY <1>3, <2>6, <2>7, <2>8, <2>9, db \in Dbs, id \in Nat, WriteMoves
    <2>11. /\ v2 \in Server /\ v2.backlog # None /\ BacklogOK(v2) /\ Moves(MV(x), MV(v2), E)
           /\ v2.runid = v1.runid /\ v2.masterhost = v1.masterhost /\ v2.repl_state = v1.repl_state /\ v2.master = v1.master
           /\ v2.cached = v1.cached /\ v2.init = v1.init /\ v2.data = v1.data /\ v2.child = v1.child
      BY ONLY <2>6, <2>10, FedServer
    <2>12. /\ wr \in Worlds /\ wr.srv[s] = y /\ wr.cl = w.cl /\ wr.conn[s] = k1
           /\ \A t \in Servers : t # s => wr.srv[t] = w.srv[t] /\ wr.conn[t] = w.conn[t]
      BY ONLY <1>22, <1>26 DEF LinkSet
    <2>13. E = Selected(wr.srv[s].seldb, db) \o Halves(id) /\ v1 = [wr.srv[s] EXCEPT !.seldb = db] /\ wr.srv[s].backlog # None
      BY ONLY <1>21, <1>37, <2>5, <2>7, <2>12
    <2>14. FedWorld(wr, w2, s, v2, E)
      BY ONLY <2>4, <2>8, <2>10, <2>11, <2>12, <2>13, s \in Servers, FeedSlavesWorld
    <2>15. Moves(MV(w.srv[s]), MV(v2), E) /\ v2.child = w.srv[s].child
      BY ONLY <1>1, <2>6, <2>11
    <2>16. OthersAlone(w, w2, s) /\ SlavesFit(w, w2, s)
      BY ONLY WInv(w), s \in Servers, <2>10, <2>12, <2>14, <2>15, FeedFit
    <2>17. MasterOK(s, v2)
      BY ONLY <1>21, <1>34, <2>6, <2>11 DEF MasterOK
    <2>18. SV(v2) = SV(y)
      BY ONLY <2>6, <2>11 DEF SV
    <2>19. Shape(s, v2, k1)
      BY ONLY <1>28, <2>6, <2>11 DEF Shape
    <2>20. w.cl[s][s] = None
      BY NotItsOwnMaster
    <2>21. w2 \in Worlds /\ w2.srv[s] = v2 /\ w2.conn[s] = k1 /\ w2.srv[m] = w.srv[m] /\ (\A r \in Servers : w2.cl[r][s] = w.cl[r][s])
      <3>1. /\ w2 \in Worlds /\ w2.srv[s] = v2 /\ w2.srv[m] = w.srv[m] /\ w2.cl[s][s] = ToSlave(None, E)
            /\ w2.conn[s] = (IF Direct(None) THEN Sent(k1, E) ELSE k1) /\ \A r \in Servers : r # s => w2.cl[r][s] = w.cl[r][s]
        BY ONLY <1>3, <2>12, <2>14, <2>20, s \in Servers DEF FedWorld
      <3>2. ~Direct(None) /\ ToSlave(None, E) = None
        BY DEF ToSlave, Direct, Fed
      <3> QED BY ONLY <2>20, <3>1, <3>2
    <2>22. Pair(w2, m, s)
      BY ONLY <1>3, <1>32, <2>18, <2>21 DEF Pair
    <2>23. \A r \in Servers : w2.cl[r][s] # None => v2.masterhost = r
      BY <1>21, <1>33, <2>6, <2>11, <2>21 DEF WInv, SlaveOK
    <2>24. SlaveOK(w2, s)
      BY ONLY <1>21, <2>6, <2>11, <2>19, <2>21, <2>22, <2>23 DEF SlaveOK
    <2>25. MasterOK(s, w2.srv[s])
      BY ONLY <2>17, <2>21
    <2> QED BY ONLY WInv(w), s \in Servers, <2>16, <2>21, <2>24, <2>25, StepOfOne
  <1> QED BY <1>35, <1>36, <1>37

---------------------------------------------------------------------------
(* The link of a slave.                                                    *)

LEMMA LinkSetTwice ==
    ASSUME NEW w, NEW s \in Servers, NEW m \in Servers, NEW w1, NEW y1, NEW c1, NEW k1, LinkSet(w, w1, s, y1, m, c1, k1),
           NEW w2, NEW y2, NEW c2, NEW k2, LinkSet(w1, w2, s, y2, m, c2, k2)
    PROVE  LinkSet(w, w2, s, y2, m, c2, k2)
  BY DEF LinkSet

LEMMA LinkSetFacts ==
    ASSUME NEW w, NEW s \in Servers, NEW m \in Servers, NEW w1, NEW y1, NEW c1, NEW k1, LinkSet(w, w1, s, y1, m, c1, k1)
    PROVE  w1 \in Worlds /\ w1.srv[s] = y1 /\ w1.cl[m][s] = c1 /\ w1.conn[s] = k1
  BY DEF LinkSet

LEMMA ClientSet ==
    ASSUME NEW w \in Worlds, NEW s \in Servers, NEW m \in Servers, NEW c \in Clients \cup {None}, NEW w2, w2 = [w EXCEPT !.cl[m][s] = c]
    PROVE  LinkSet(w, w2, s, w.srv[s], m, c, w.conn[s])
  <1>1. /\ w = [srv |-> w.srv, cl |-> w.cl, conn |-> w.conn]
        /\ w.srv \in [Servers -> Server] /\ w.cl \in [Servers -> [Servers -> Clients \cup {None}]] /\ w.conn \in [Servers -> Conns \cup {None}]
    BY WorldTypes
  <1>2. PICK g : g = [w.cl EXCEPT ![m][s] = c]
    OBVIOUS
  <1>3. g \in [Servers -> [Servers -> Clients \cup {None}]] /\ g[m][s] = c
        /\ \A r, t \in Servers : r # m \/ t # s => g[r][t] = w.cl[r][t]
    BY ONLY <1>1, <1>2, s \in Servers, m \in Servers, c \in Clients \cup {None}
  <1>4. w2 = [srv |-> w.srv, cl |-> g, conn |-> w.conn]
    BY ONLY <1>1, <1>2, w2 = [w EXCEPT !.cl[m][s] = c]
  <1>5. w2 \in Worlds /\ w2.srv = w.srv /\ w2.cl = g /\ w2.conn = w.conn
    BY ONLY <1>1, <1>3, <1>4 DEF Worlds
  <1> QED BY ONLY <1>3, <1>5 DEF LinkSet

LEMMA ConnSet ==
    ASSUME NEW w \in Worlds, NEW s \in Servers, NEW m \in Servers, NEW k \in Conns \cup {None}, NEW w2, w2 = [w EXCEPT !.conn[s] = k]
    PROVE  LinkSet(w, w2, s, w.srv[s], m, w.cl[m][s], k)
  <1>1. /\ w = [srv |-> w.srv, cl |-> w.cl, conn |-> w.conn]
        /\ w.srv \in [Servers -> Server] /\ w.cl \in [Servers -> [Servers -> Clients \cup {None}]] /\ w.conn \in [Servers -> Conns \cup {None}]
    BY WorldTypes
  <1>2. PICK h : h = [w.conn EXCEPT ![s] = k]
    OBVIOUS
  <1>3. h \in [Servers -> Conns \cup {None}] /\ h[s] = k /\ \A t \in Servers : t # s => h[t] = w.conn[t]
    BY ONLY <1>1, <1>2, s \in Servers, k \in Conns \cup {None}
  <1>4. w2 = [srv |-> w.srv, cl |-> w.cl, conn |-> h]
    BY ONLY <1>1, <1>2, w2 = [w EXCEPT !.conn[s] = k]
  <1>5. w2 \in Worlds /\ w2.srv = w.srv /\ w2.cl = w.cl /\ w2.conn = h
    BY ONLY <1>1, <1>3, <1>4 DEF Worlds
  <1> QED BY ONLY <1>3, <1>5 DEF LinkSet

LEMMA SendOne ==
    ASSUME NEW w \in Worlds, NEW s \in Servers, NEW m \in Servers, NEW U \in Seq(Msgs), NEW w2, w2 = Send(w, {s}, U)
    PROVE  LinkSet(w, w2, s, w.srv[s], m, w.cl[m][s], Sent(w.conn[s], U))
  <1>1. /\ w = [srv |-> w.srv, cl |-> w.cl, conn |-> w.conn]
        /\ w.srv \in [Servers -> Server] /\ w.cl \in [Servers -> [Servers -> Clients \cup {None}]] /\ w.conn \in [Servers -> Conns \cup {None}]
    BY WorldTypes
  <1>2. PICK h : h = [t \in Servers |-> IF t \in {s} THEN Sent(w.conn[t], U) ELSE w.conn[t]]
    OBVIOUS
  <1>3. \A t \in Servers : Sent(w.conn[t], U) \in Conns \cup {None} /\ w.conn[t] \in Conns \cup {None}
    BY <1>1, SentType
  <1>4. h \in [Servers -> Conns \cup {None}] /\ h[s] = Sent(w.conn[s], U) /\ \A t \in Servers : t # s => h[t] = w.conn[t]
    <2>1. h[s] = Sent(w.conn[s], U) /\ \A t \in Servers : t # s => h[t] = w.conn[t]
      BY ONLY <1>2, s \in Servers
    <2>2. \A t \in Servers : h[t] \in Conns \cup {None}
      BY ONLY <1>3, <2>1
    <2> QED BY ONLY <1>2, <2>1, <2>2
  <1>5. w2 = [srv |-> w.srv, cl |-> w.cl, conn |-> h]
    BY ONLY <1>1, <1>2, w2 = Send(w, {s}, U) DEF Send
  <1>6. w2 \in Worlds /\ w2.srv = w.srv /\ w2.cl = w.cl /\ w2.conn = h
    BY ONLY <1>1, <1>4, <1>5 DEF Worlds
  <1> QED BY ONLY <1>4, <1>6 DEF LinkSet

\* Only the link of a slave changes.
LEMMA LinkTurn ==
    ASSUME NEW w, WInv(w), NEW s \in Servers, NEW m, m = w.srv[s].masterhost, m # None, NEW k0, k0 = w.conn[s], k0 # None,
           NEW x, x = w.srv[s], NEW c, NEW k, NEW w2, LinkSet(w, w2, s, x, m, c, k), k # None, k.to = k0.to,
           PairOK(MV(w.srv[m]), SV(x), c, k)
    PROVE  WInv(w2)
  <1>1. MasterOK(s, x) /\ Shape(s, x, k0)
    BY DEF WInv, SlaveOK
  <1>2. Shape(s, x, k)
    BY ONLY <1>1, k0 # None, k # None, k.to = k0.to DEF Shape
  <1>3. x.masterhost = m /\ MV(x) = MV(w.srv[s])
    BY ONLY x = w.srv[s], m = w.srv[s].masterhost
  <1> QED BY ONLY WInv(w), s \in Servers, m = w.srv[s].masterhost, m # None, LinkSet(w, w2, s, x, m, c, k), <1>1, <1>2, <1>3,
                  PairOK(MV(w.srv[m]), SV(x), c, k), SlaveTurn

\* What the proofs of a step on a link begin with.
LinkOf(w, s, m, x, k, c, v, z) ==
  /\ w \in Worlds /\ x = w.srv[s] /\ x \in Server /\ k = w.conn[s] /\ k \in Conns /\ k # None /\ k.to = m
  /\ m \in Servers /\ m # s /\ m # None /\ m = x.masterhost /\ c = w.cl[m][s] /\ c \in Clients \cup {None}
  /\ v = MV(w.srv[m]) /\ z = SV(x) /\ PairOK(v, z, c, k) /\ MTyped(v) /\ STyped(z, k) /\ CachedOK(v, z)

LEMMA LinkFacts ==
    ASSUME NEW w, WInv(w), NEW s \in Servers, w.conn[s] # None
    PROVE  \E m, x, k, c, v, z : LinkOf(w, s, m, x, k, c, v, z)
  <1>1. PICK x : x = w.srv[s]
    OBVIOUS
  <1>2. PICK m : m = x.masterhost
    OBVIOUS
  <1>3. x.repl_state # "NONE"
    BY <1>1 DEF WInv, SlaveOK, Shape
  <1>4. w \in Worlds /\ x \in Server /\ Shape(s, x, w.conn[s]) /\ m \in Servers /\ m # s /\ m # None
        /\ Pair(w, m, s) /\ w.conn[s] \in Conns \cup {None} /\ MTyped(MV(w.srv[m])) /\ STyped(SV(x), w.conn[s])
        /\ CachedOK(MV(w.srv[m]), SV(x))
    BY <1>1, <1>2, <1>3, SlaveFacts
  <1>5. PICK k \in Conns : k = w.conn[s]
    BY <1>4
  <1>6. k # None /\ k.to = m
    BY <1>2, <1>4, <1>5 DEF Shape
  <1>7. PICK c \in Clients \cup {None} : c = w.cl[m][s]
    BY <1>4, WorldTypes
  <1>8. PICK v : v = MV(w.srv[m])
    OBVIOUS
  <1>9. PICK z : z = SV(x)
    OBVIOUS
  <1>10. PairOK(v, z, c, k)
    BY <1>1, <1>4, <1>5, <1>7, <1>8, <1>9 DEF Pair
  <1>11. LinkOf(w, s, m, x, k, c, v, z)
    BY <1>1, <1>2, <1>4, <1>5, <1>6, <1>7, <1>8, <1>9, <1>10 DEF LinkOf
  <1> QED BY <1>11

LEMMA BreakInv ==
    ASSUME NEW w, WInv(w), NEW s \in Servers, w.conn[s] # None, NEW w2,
           w2 = [w EXCEPT !.conn[s].open = FALSE, !.conn[s].wire = <<>>, !.cl[w.conn[s].to][s] = None]
    PROVE  WInv(w2)
  <1>1. PICK m, x, k, c, v, z : LinkOf(w, s, m, x, k, c, v, z)
    BY LinkFacts
  <1>2. w \in Worlds /\ x \in Server /\ k \in Conns /\ k # None /\ m \in Servers /\ m # s /\ m # None
    BY ONLY <1>1 DEF LinkOf
  <1>a. x = w.srv[s] /\ k = w.conn[s] /\ k.to = m /\ m = x.masterhost
    BY ONLY <1>1 DEF LinkOf
  <1>b. c = w.cl[m][s]
    BY ONLY <1>1 DEF LinkOf
  <1>c. v = MV(w.srv[m]) /\ z = SV(x)
    BY ONLY <1>1 DEF LinkOf
  <1>d. PairOK(v, z, c, k) /\ MTyped(v) /\ STyped(z, k)
    BY ONLY <1>1 DEF LinkOf
  <1>3. PICK j : j = [k EXCEPT !.open = FALSE, !.wire = <<>>]
    OBVIOUS
  <1>4. j \in Conns /\ j.to = k.to /\ j.req = k.req /\ j.wire = <<>>
    <2>1. <<>> \in Seq(Msgs) /\ FALSE \in BOOLEAN
      OBVIOUS
    <2>2. PICK e : e = <<>>
      OBVIOUS
    <2>3. PICK j1 : j1 = [k EXCEPT !.wire = e]
      OBVIOUS
    <2>4. j1 \in Conns /\ j1.to = k.to /\ j1.req = k.req /\ j1.wire = e
      BY ONLY <1>2, <2>1, <2>2, <2>3 DEF Conns
    <2>5. j = [j1 EXCEPT !.open = FALSE]
      BY ONLY <1>2, <1>3, <2>2, <2>3 DEF Conns
    <2>6. j \in Conns /\ j.to = k.to /\ j.req = k.req /\ j.wire = e
      BY ONLY <2>4, <2>5 DEF Conns
    <2> QED BY ONLY <2>2, <2>6
  <1>5. j # None
    BY <1>4, NoneAssumption
  <1>6. PICK w1 : w1 = [w EXCEPT !.conn[s] = j]
    OBVIOUS
  <1>7. LinkSet(w, w1, s, x, m, c, j)
    BY ONLY <1>2, <1>a, <1>b, <1>4, <1>6, s \in Servers, ConnSet
  <1>8. w1 \in Worlds /\ w1.srv[s] = x /\ w1.conn[s] = j
    BY ONLY <1>2, <1>7, s \in Servers, LinkSetFacts
  <1>9. w2 = [w1 EXCEPT !.cl[m][s] = None]
    <2>1. w = [srv |-> w.srv, cl |-> w.cl, conn |-> w.conn] /\ w.conn \in [Servers -> Conns \cup {None}]
      BY <1>2, WorldTypes
    <2>2. w2 = [srv |-> w.srv, cl |-> [w.cl EXCEPT ![m][s] = None], conn |-> [w.conn EXCEPT ![s].open = FALSE, ![s].wire = <<>>]]
      BY ONLY <1>a, <2>1, w2 = [w EXCEPT !.conn[s].open = FALSE, !.conn[s].wire = <<>>, !.cl[w.conn[s].to][s] = None]
    <2>3. [w.conn EXCEPT ![s].open = FALSE, ![s].wire = <<>>] = [w.conn EXCEPT ![s] = j]
      BY ONLY <1>a, <1>3, <2>1, s \in Servers
    <2>4. w1 = [srv |-> w.srv, cl |-> w.cl, conn |-> [w.conn EXCEPT ![s] = j]]
      BY ONLY <1>6, <2>1
    <2>5. [w1 EXCEPT !.cl[m][s] = None] = [srv |-> w.srv, cl |-> [w.cl EXCEPT ![m][s] = None], conn |-> [w.conn EXCEPT ![s] = j]]
      BY ONLY <2>4
    <2> QED BY ONLY <2>2, <2>3, <2>5
  <1>10. None \in Clients \cup {None}
    OBVIOUS
  <1>11. LinkSet(w1, w2, s, x, m, None, j)
    BY ONLY <1>2, <1>8, <1>9, <1>10, s \in Servers, ClientSet
  <1>12. LinkSet(w, w2, s, x, m, None, j)
    BY ONLY <1>2, <1>7, <1>11, s \in Servers, LinkSetTwice
  <1>13. PairOK(v, z, None, j)
    BY ONLY <1>2, <1>d, <1>4, <1>5, PairCut
  <1>14. m = w.srv[s].masterhost /\ PairOK(MV(w.srv[m]), SV(x), None, j)
    BY ONLY <1>a, <1>c, <1>13
  <1> QED BY ONLY WInv(w), s \in Servers, <1>2, <1>a, <1>4, <1>5, <1>12, <1>14, LinkTurn

OnlineConn(k, c) == Sent(IF c.state = "BULK" THEN Sent(k, <<Rdb(c.bulk[1])>>) ELSE k, c.out)
Online(c) == [c EXCEPT !.state = "ONLINE", !.ackwait = FALSE, !.out = <<>>, !.bulk = None]

LEMMA OnlineType ==
    ASSUME NEW c \in Clients, NEW d, d = Online(c)
    PROVE  /\ d \in Clients /\ d # None /\ d.state = "ONLINE" /\ ~d.ackwait /\ d.out = <<>>
           /\ d.pre = c.pre /\ d.unsound = c.unsound
  <1>1. <<>> \in Seq(Units)
    OBVIOUS
  <1>2. PICK e : e = <<>>
    OBVIOUS
  <1>3. PICK d1 : d1 = [c EXCEPT !.state = "ONLINE", !.ackwait = FALSE]
    OBVIOUS
  <1>4. d1 \in Clients /\ d1.state = "ONLINE" /\ ~d1.ackwait /\ d1.pre = c.pre /\ d1.unsound = c.unsound
    BY ONLY <1>3, c \in Clients DEF Clients
  <1>5. PICK d2 : d2 = [d1 EXCEPT !.out = e]
    OBVIOUS
  <1>6. d2 \in Clients /\ d2.state = "ONLINE" /\ ~d2.ackwait /\ d2.pre = c.pre /\ d2.unsound = c.unsound /\ d2.out = e
    BY ONLY <1>1, <1>2, <1>4, <1>5 DEF Clients
  <1>7. d = [d2 EXCEPT !.bulk = None]
    BY ONLY <1>2, <1>3, <1>5, c \in Clients, d = Online(c) DEF Clients, Online
  <1>8. d \in Clients /\ d.state = "ONLINE" /\ ~d.ackwait /\ d.pre = c.pre /\ d.unsound = c.unsound /\ d.out = e
    BY ONLY <1>6, <1>7 DEF Clients
  <1> QED BY <1>2, <1>8, NoneAssumption

LEMMA OnlineLink ==
    ASSUME NEW w \in Worlds, NEW s \in Servers, NEW m \in Servers, NEW c \in Clients, c = w.cl[m][s], NEW d, d = Online(c),
           NEW w2, w2 = putSlaveOnline(w, m, s)
    PROVE  LinkSet(w, w2, s, w.srv[s], m, d, Sent(w.conn[s], c.out))
  <1>1. d \in Clients \cup {None}
    BY OnlineType
  <1>2. PICK w1 : w1 = [w EXCEPT !.cl[m][s] = d]
    OBVIOUS
  <1>3. LinkSet(w, w1, s, w.srv[s], m, d, w.conn[s])
    BY ONLY <1>1, <1>2, w \in Worlds, s \in Servers, m \in Servers, ClientSet
  <1>4. w1 \in Worlds /\ w1.srv[s] = w.srv[s] /\ w1.cl[m][s] = d /\ w1.conn[s] = w.conn[s]
    BY ONLY <1>3, s \in Servers, m \in Servers, LinkSetFacts
  <1>5. PICK U : U = c.out
    OBVIOUS
  <1>6. U \in Seq(Msgs)
    <2>1. U \in Seq(Units)
      BY ONLY <1>5, c \in Clients DEF Clients
    <2> QED BY ONLY <2>1, UnitsAreMsgs
  <1>7. w2 = Send(w1, {s}, U)
    BY ONLY <1>2, <1>5, c = w.cl[m][s], d = Online(c), w2 = putSlaveOnline(w, m, s) DEF putSlaveOnline, Online
  <1>8. LinkSet(w1, w2, s, w1.srv[s], m, w1.cl[m][s], Sent(w1.conn[s], U))
    BY ONLY <1>4, <1>6, <1>7, s \in Servers, m \in Servers, SendOne
  <1>9. LinkSet(w1, w2, s, w.srv[s], m, d, Sent(w.conn[s], c.out))
    BY ONLY <1>4, <1>5, <1>8
  <1>10. PICK j : j = Sent(w.conn[s], c.out)
    OBVIOUS
  <1>11. PICK x : x = w.srv[s]
    OBVIOUS
  <1>12. PICK k : k = w.conn[s]
    OBVIOUS
  <1>13. LinkSet(w, w1, s, x, m, d, k) /\ LinkSet(w1, w2, s, x, m, d, j)
    BY ONLY <1>3, <1>9, <1>10, <1>11, <1>12
  <1>14. LinkSet(w, w2, s, x, m, d, j)
    BY ONLY <1>13, s \in Servers, m \in Servers, LinkSetTwice
  <1> QED BY ONLY <1>10, <1>11, <1>14

\* Nothing happens to the stream of a master.
LEMMA SameMoves ==
    ASSUME NEW v, MTyped(v), v.backlog # None
    PROVE  Moves(v, v, <<>>)
  <1>1. BacklogOK(v)
    BY DEF MTyped
  <1>2. <<>> \in Seq(Units)
    OBVIOUS
  <1>3. \A x \in States : Arrives(v, x) => Arrives(v, Replayed(x, <<>>))
    BY ReplayedEmpty
  <1>4. Grew(v, v, <<>>)
    BY <1>1, GrewNothing
  <1> QED BY <1>1, <1>2, <1>3, <1>4 DEF Moves

LEMMA OnlinePair ==
    ASSUME NEW v, MTyped(v), NEW x, NEW k \in Conns, STyped(x, k), NEW c, c # None, c.state \in {"ONLINE", "BULK"}, PairOK(v, x, c, k),
           NEW d, d = Online(c),
           NEW j, j = OnlineConn(k, c)
    PROVE  PairOK(v, x, d, j) /\ j # None /\ j.to = k.to
  <1>1. v.backlog # None /\ ClientOK(v, c) /\ k # None /\ k.open /\ k.req = None
    BY DEF PairOK, LinkedOK
  <1>2. c \in Clients
    BY <1>1 DEF ClientOK
  <1>3. /\ d \in Clients /\ d # None /\ d.state = "ONLINE" /\ ~d.ackwait /\ d.out = <<>>
        /\ d.pre = c.pre /\ d.unsound = c.unsound
    BY ONLY <1>2, d = Online(c), OnlineType
  <1>4. PICK U \in Seq(Msgs) : U = c.out
    BY <1>1, ClientRest
  <1>5. PICK W \in Seq(Msgs) : W = k.wire
    BY DEF Conns
  <1>6. PICK F \in Seq(Msgs) : F = IF c.state = "BULK" THEN <<Rdb(c.bulk[1])>> ELSE <<>>
    <2>1. CASE c.state = "BULK"
      <3>1. Rdb(c.bulk[1]) \in Msgs
        BY <1>1, <2>1, ClientRest
      <3>2. <<Rdb(c.bulk[1])>> \in Seq(Msgs)
        BY <3>1
      <3> QED BY <2>1, <3>2
    <2>2. CASE c.state # "BULK"
      <3>1. <<>> \in Seq(Msgs)
        OBVIOUS
      <3> QED BY <2>2, <3>1
    <2> QED BY <2>1, <2>2
  <1>7. Rest(v, c) = F \o U
    <2>1. CASE c.state = "BULK"
      BY <1>4, <1>6, <2>1 DEF Rest
    <2>2. CASE c.state = "ONLINE"
      <3>1. <<>> \o U = U
        BY <1>4, EmptyConcat
      <3> QED BY <1>4, <1>6, <2>2, <3>1 DEF Rest
    <2> QED BY <2>1, <2>2
  <1>8. PICK j1 : j1 = IF c.state = "BULK" THEN Sent(k, <<Rdb(c.bulk[1])>>) ELSE k
    OBVIOUS
  <1>9. j1 \in Conns /\ j1 # None /\ j1.to = k.to /\ j1.wire = W \o F /\ j1.req = k.req /\ j1.open = k.open
    <2>1. CASE c.state = "BULK"
      <3>1. j1 = Sent(k, F)
        BY <1>6, <1>8, <2>1
      <3> QED BY <1>1, <1>5, <3>1, SentType
    <2>2. CASE c.state # "BULK"
      <3>1. W \o F = W
        BY <1>6, <2>2, EmptyConcat
      <3> QED BY <1>1, <1>5, <1>8, <2>2, <3>1
    <2> QED BY <2>1, <2>2
  <1>10. j = Sent(j1, U)
    BY <1>4, <1>8 DEF OnlineConn
  <1>11. j \in Conns /\ j # None /\ j.to = k.to /\ j.wire = (W \o F) \o U /\ j.req = k.req /\ j.open = k.open
    <2>1. j1 \in Conns \cup {None}
      BY ONLY <1>9
    <2>2. j \in Conns /\ j # None /\ j.to = j1.to /\ j.wire = j1.wire \o U /\ j.req = j1.req /\ j.open = j1.open
      BY ONLY <1>9, <1>10, <2>1, U \in Seq(Msgs), SentType
    <2> QED BY ONLY <1>9, <2>2
  <1>12. Items(v, d, j) = Items(v, c, k)
    <2>1. (W \o F) \o U \in Seq(Msgs) /\ (W \o F) \o U = W \o (F \o U)
      BY ONLY W \in Seq(Msgs), F \in Seq(Msgs), U \in Seq(Msgs)
    <2>2. ((W \o F) \o U) \o <<>> = (W \o F) \o U
      BY ONLY <2>1, EmptyConcat
    <2>3. Rest(v, d) = <<>>
      BY <1>3 DEF Rest
    <2>4. Items(v, d, j) = ((W \o F) \o U) \o <<>>
      BY ONLY <1>11, <2>3 DEF Items
    <2>5. Items(v, c, k) = W \o (F \o U)
      BY ONLY <1>5, <1>7 DEF Items
    <2> QED BY ONLY <2>1, <2>2, <2>4, <2>5
  <1>13. LinkedOK(v, d, j)
    BY <1>1, <1>3, <1>11 DEF LinkedOK, ClientOK
  <1>14. Alike(c, d)
    BY <1>3 DEF Alike, IsStart
  <1>15. Moves(v, v, <<>>)
    BY <1>1, SameMoves
  <1>16. PairOK(v, x, d, j)
    BY ONLY <1>12, <1>13, <1>14, <1>15, MTyped(v), STyped(x, k), PairOK(v, x, c, k), PairShift
  <1> QED BY <1>11, <1>16

\* The file is sent, and the buffer after it.
BulkSent(w, m, s) == putSlaveOnline(Send(w, {s}, <<[k |-> "rdb", data |-> w.cl[m][s].bulk[1]]>>), m, s)

LEMMA BulkInv ==
    ASSUME NEW w, WInv(w), NEW m \in Servers, NEW s \in Servers, w.cl[m][s] # None, w.cl[m][s].state = "BULK",
           NEW w2, w2 = BulkSent(w, m, s)
    PROVE  WInv(w2)
  <1>1. w.conn[s] # None /\ w.srv[s].masterhost = m
    BY NotConnected DEF WInv, SlaveOK
  <1>2. PICK n, x, k, c, v, z : LinkOf(w, s, n, x, k, c, v, z)
    BY <1>1, LinkFacts
  <1>3. w \in Worlds /\ x \in Server /\ k \in Conns /\ k # None /\ m # s /\ m # None
    BY ONLY <1>1, <1>2 DEF LinkOf
  <1>a. x = w.srv[s] /\ k = w.conn[s] /\ k.to = m /\ m = x.masterhost
    BY ONLY <1>1, <1>2 DEF LinkOf
  <1>b. c = w.cl[m][s] /\ c \in Clients \cup {None}
    BY ONLY <1>1, <1>2 DEF LinkOf
  <1>c. v = MV(w.srv[m]) /\ z = SV(x)
    BY ONLY <1>1, <1>2 DEF LinkOf
  <1>d. PairOK(v, z, c, k) /\ MTyped(v) /\ STyped(z, k)
    BY ONLY <1>2 DEF LinkOf
  <1>4. c \in Clients /\ c # None /\ c.state = "BULK"
    BY ONLY <1>b, w.cl[m][s] # None, w.cl[m][s].state = "BULK"
  <1>5. PICK F : F = <<Rdb(c.bulk[1])>>
    OBVIOUS
  <1>6. F \in Seq(Msgs)
    <2>1. ClientOK(v, c)
      BY ONLY <1>d, <1>4 DEF PairOK, LinkedOK
    <2>2. Rdb(c.bulk[1]) \in Msgs
      BY ONLY <1>d, <1>4, <2>1, ClientRest
    <2> QED BY ONLY <1>5, <2>2
  <1>7. PICK w1 : w1 = Send(w, {s}, F)
    OBVIOUS
  <1>8. w2 = putSlaveOnline(w1, m, s)
    BY ONLY <1>b, <1>5, <1>7, w2 = BulkSent(w, m, s) DEF BulkSent, Rdb
  <1>9. PICK k1 : k1 = Sent(k, F)
    OBVIOUS
  <1>10. LinkSet(w, w1, s, x, m, c, k1)
    BY ONLY <1>3, <1>a, <1>b, <1>6, <1>7, <1>9, s \in Servers, m \in Servers, SendOne
  <1>11. w1 \in Worlds /\ w1.srv[s] = x /\ w1.cl[m][s] = c /\ w1.conn[s] = k1
    BY ONLY <1>10, s \in Servers, m \in Servers, LinkSetFacts
  <1>12. PICK d : d = Online(c)
    OBVIOUS
  <1>13. PICK j : j = Sent(k1, c.out)
    OBVIOUS
  <1>14. c = w1.cl[m][s]
    BY ONLY <1>11
  <1>15. LinkSet(w1, w2, s, w1.srv[s], m, d, Sent(w1.conn[s], c.out))
    BY ONLY <1>4, <1>8, <1>11, <1>12, <1>14, s \in Servers, m \in Servers, OnlineLink
  <1>16. LinkSet(w1, w2, s, x, m, d, j)
    BY ONLY <1>11, <1>13, <1>15
  <1>17. LinkSet(w, w2, s, x, m, d, j)
    BY ONLY <1>10, <1>16, s \in Servers, m \in Servers, LinkSetTwice
  <1>18. j = OnlineConn(k, c) /\ c.state \in {"ONLINE", "BULK"}
    BY ONLY <1>4, <1>5, <1>9, <1>13 DEF OnlineConn
  <1>19. PairOK(v, z, d, j) /\ j # None /\ j.to = k.to
    <2>1. MTyped(v) /\ k \in Conns /\ STyped(z, k) /\ PairOK(v, z, c, k)
      BY ONLY <1>3, <1>d
    <2>2. c # None
      BY ONLY <1>4
    <2> QED BY ONLY <2>1, <2>2, <1>12, <1>18, OnlinePair
  <1>20. m = w.srv[s].masterhost /\ PairOK(MV(w.srv[m]), SV(x), d, j)
    BY ONLY <1>a, <1>c, <1>19
  <1> QED BY ONLY WInv(w), s \in Servers, <1>3, <1>a, <1>17, <1>19, <1>20, LinkTurn

\* An acknowledgement.
Acked(w, m, s) == [w EXCEPT !.cl[m][s].ack = IF w.srv[s].master.reploff > @ THEN w.srv[s].master.reploff ELSE @]
Acknowledged(w, w1, m, s) == IF w.cl[m][s].ackwait THEN putSlaveOnline(w1, m, s) ELSE w1

LEMMA AckInv ==
    ASSUME NEW w, WInv(w), NEW s \in Servers, w.conn[s] # None, w.srv[s].master # None, NEW m, m = w.conn[s].to, w.cl[m][s] # None,
           NEW w1, w1 = Acked(w, m, s), NEW w2, w2 = Acknowledged(w, w1, m, s)
    PROVE  WInv(w2)
  <1>1. PICK n, x, k, c, v, z : LinkOf(w, s, n, x, k, c, v, z)
    BY LinkFacts
  <1>2. m \in Servers /\ w \in Worlds /\ x \in Server /\ k \in Conns /\ k # None
    BY ONLY <1>1, m = w.conn[s].to DEF LinkOf
  <1>a. x = w.srv[s] /\ k = w.conn[s] /\ k.to = m /\ m = x.masterhost
    BY ONLY <1>1, m = w.conn[s].to DEF LinkOf
  <1>b. c = w.cl[m][s] /\ c \in Clients \cup {None}
    BY ONLY <1>1, m = w.conn[s].to DEF LinkOf
  <1>c. v = MV(w.srv[m]) /\ z = SV(x)
    BY ONLY <1>1, m = w.conn[s].to DEF LinkOf
  <1>d. PairOK(v, z, c, k) /\ MTyped(v) /\ STyped(z, k)
    BY ONLY <1>1 DEF LinkOf
  <1>e. m # s /\ m # None
    BY ONLY <1>1, m = w.conn[s].to DEF LinkOf
  <1>3. c \in Clients /\ c # None
    BY ONLY <1>b, w.cl[m][s] # None
  <1>4. v.backlog # None /\ ClientOK(v, c) /\ k.open /\ k.req = None
    BY ONLY <1>d, <1>3 DEF PairOK, LinkedOK
  <1>5. x.repl_state = "CONNECTED"
    <2>1. Shape(s, w.srv[s], w.conn[s])
      BY ONLY WInv(w), s \in Servers DEF WInv, SlaveOK
    <2> QED BY ONLY <1>a, <2>1, w.srv[s].master # None DEF Shape
  <1>6. ~IsStart(c)
    <2>1. z.repl_state = "CONNECTED"
      BY ONLY <1>c, <1>5 DEF SV
    <2> QED BY ONLY <1>2, <1>d, <2>1 DEF PairOK, PipeOK
  <1>7. PICK o \in Int : o = x.master.reploff
    <2>1. x.master \in Masters
      BY ONLY <1>2, <1>a, w.srv[s].master # None DEF Server
    <2>2. x.master.reploff \in Int
      BY ONLY <2>1 DEF Masters, Offsets
    <2> QED BY <2>2
  <1>8. PICK a \in Int : a = IF o > c.ack THEN o ELSE c.ack
    <2>1. c.ack \in Int
      BY ONLY <1>3 DEF Clients
    <2> QED BY <2>1
  <1>9. PICK c1 : c1 = [c EXCEPT !.ack = a]
    OBVIOUS
  <1>10. /\ c1 \in Clients /\ c1.state = c.state /\ c1.out = c.out /\ c1.ackwait = c.ackwait /\ c1.init = c.init /\ c1.bulk = c.bulk
         /\ c1.pre = c.pre /\ c1.unsound = c.unsound
    BY ONLY <1>3, <1>9, a \in Int DEF Clients
  <1>11. c1 # None
    BY <1>10, NoneAssumption
  <1>12. w1 = [w EXCEPT !.cl[m][s] = c1]
    <2>1. w1 = [w EXCEPT !.cl[m][s] = [w.cl[m][s] EXCEPT !.ack = IF w.srv[s].master.reploff > w.cl[m][s].ack THEN w.srv[s].master.reploff ELSE w.cl[m][s].ack]]
      BY ONLY w1 = Acked(w, m, s) DEF Acked
    <2>2. (IF w.srv[s].master.reploff > w.cl[m][s].ack THEN w.srv[s].master.reploff ELSE w.cl[m][s].ack) = a
      BY ONLY <1>a, <1>b, <1>7, <1>8
    <2> QED BY ONLY <1>b, <1>9, <2>1, <2>2
  <1>13. c1 \in Clients \cup {None}
    BY <1>10
  <1>14. LinkSet(w, w1, s, x, m, c1, k)
    BY ONLY <1>2, <1>a, <1>12, <1>13, s \in Servers, ClientSet
  <1>15. PairOK(v, z, c1, k)
    <2>1. ClientOK(v, c1)
      BY ONLY <1>4, <1>10 DEF ClientOK
    <2>2. LinkedOK(v, c1, k)
      BY ONLY <1>d, <1>3, <1>4, <2>1 DEF PairOK, LinkedOK
    <2>3. Alike(c, c1)
      BY ONLY <1>3, <1>6, <1>10, <1>11 DEF Alike, IsStart
    <2>4. Items(v, c1, k) = Items(v, c, k)
      BY ONLY <1>3, <1>10, <1>11 DEF Items, Rest
    <2>5. Moves(v, v, <<>>)
      BY ONLY <1>d, <1>4, SameMoves
    <2> QED BY ONLY <1>d, <2>2, <2>3, <2>4, <2>5, PairShift
  <1>16. m = w.srv[s].masterhost /\ PairOK(MV(w.srv[m]), SV(x), c1, k)
    BY ONLY <1>a, <1>c, <1>15
  <1>17. CASE ~c.ackwait
    <2>1. w2 = w1
      BY ONLY <1>b, <1>17, w2 = Acknowledged(w, w1, m, s) DEF Acknowledged
    <2>2. k.to = k.to
      OBVIOUS
    <2>3. WInv(w1)
      BY ONLY WInv(w), s \in Servers, <1>2, <1>a, <1>e, <1>14, <1>16, <2>2, LinkTurn
    <2> QED BY ONLY <2>1, <2>3
  <1>18. CASE c.ackwait
    <2>1. w1 \in Worlds /\ w1.srv[s] = x /\ w1.cl[m][s] = c1 /\ w1.conn[s] = k
      BY ONLY <1>2, <1>14, s \in Servers, LinkSetFacts
    <2>2. w2 = putSlaveOnline(w1, m, s)
      BY ONLY <1>b, <1>18, w2 = Acknowledged(w, w1, m, s) DEF Acknowledged
    <2>3. PICK d : d = Online(c1)
      OBVIOUS
    <2>4. PICK j : j = Sent(k, c1.out)
      OBVIOUS
    <2>5. c1 = w1.cl[m][s]
      BY ONLY <2>1
    <2>6. LinkSet(w1, w2, s, w1.srv[s], m, d, Sent(w1.conn[s], c1.out))
      BY ONLY <1>2, <1>10, <2>1, <2>2, <2>3, <2>5, s \in Servers, OnlineLink
    <2>7. LinkSet(w1, w2, s, x, m, d, j)
      BY ONLY <2>1, <2>4, <2>6
    <2>8. LinkSet(w, w2, s, x, m, d, j)
      BY ONLY <1>2, <1>14, <2>7, s \in Servers, LinkSetTwice
    <2>9. c1.state = "ONLINE"
      BY ONLY <1>4, <1>10, <1>18 DEF ClientOK
    <2>10. j = OnlineConn(k, c1) /\ c1.state \in {"ONLINE", "BULK"}
      BY ONLY <2>4, <2>9 DEF OnlineConn
    <2>11. PairOK(v, z, d, j) /\ j # None /\ j.to = k.to
      BY ONLY <1>2, <1>d, <1>11, <1>15, <2>3, <2>10, OnlinePair
    <2>12. PairOK(MV(w.srv[m]), SV(x), d, j)
      BY ONLY <1>c, <2>11
    <2> QED BY ONLY WInv(w), s \in Servers, <1>2, <1>a, <1>e, <1>16, <2>8, <2>11, <2>12, LinkTurn
  <1>19. c.ackwait \in BOOLEAN
    BY ONLY <1>3 DEF Clients
  <1> QED BY <1>17, <1>18, <1>19

---------------------------------------------------------------------------
(* What a master does for several slaves.                                  *)

\* A server, its clients and the connections.
ManyWorld(w, w2, m, y, C, K) ==
  /\ w2 \in Worlds /\ w2.srv[m] = y /\ \A t \in Servers : t # m => w2.srv[t] = w.srv[t]
  /\ \A t \in Servers : w2.cl[m][t] = C[t] /\ w2.conn[t] = K[t]
  /\ \A r, t \in Servers : r # m => w2.cl[r][t] = w.cl[r][t]

LEMMA WorldMany ==
    ASSUME NEW w \in Worlds, NEW m \in Servers, NEW y \in Server, NEW C \in [Servers -> Clients \cup {None}],
           NEW K \in [Servers -> Conns \cup {None}], NEW w2,
           w2 = [srv |-> [w.srv EXCEPT ![m] = y], cl |-> [w.cl EXCEPT ![m] = C], conn |-> K]
    PROVE  ManyWorld(w, w2, m, y, C, K)
  <1>1. w.srv \in [Servers -> Server] /\ w.cl \in [Servers -> [Servers -> Clients \cup {None}]]
    BY WorldTypes
  <1>2. PICK f : f = [w.srv EXCEPT ![m] = y]
    OBVIOUS
  <1>3. PICK e : e = [w.cl EXCEPT ![m] = C]
    OBVIOUS
  <1>4. f \in [Servers -> Server] /\ f[m] = y /\ \A t \in Servers : t # m => f[t] = w.srv[t]
    BY ONLY <1>1, <1>2, m \in Servers, y \in Server
  <1>5. e \in [Servers -> [Servers -> Clients \cup {None}]] /\ e[m] = C /\ \A r \in Servers : r # m => e[r] = w.cl[r]
    BY ONLY <1>1, <1>3, m \in Servers, C \in [Servers -> Clients \cup {None}]
  <1>6. w2 \in Worlds /\ w2.srv = f /\ w2.cl = e /\ w2.conn = K
    BY ONLY <1>2, <1>3, <1>4, <1>5, K \in [Servers -> Conns \cup {None}],
            w2 = [srv |-> [w.srv EXCEPT ![m] = y], cl |-> [w.cl EXCEPT ![m] = C], conn |-> K] DEF Worlds
  <1> QED BY ONLY <1>4, <1>5, <1>6, m \in Servers DEF ManyWorld

\* The stream of a server is as it was, but that a SELECT may come next.
Calm(v, y) ==
  /\ y.runid = v.runid /\ y.reused = v.reused /\ y.offset = v.offset /\ y.backlog = v.backlog /\ y.data = v.data
  /\ y.seldb = v.seldb \/ y.seldb = -1

LEMMA CalmMaster ==
    ASSUME NEW m, NEW v, MasterOK(m, v), NEW y, Calm(v, y), y.repl_state = v.repl_state
    PROVE  MasterOK(m, y)
  BY DEF MasterOK, BacklogOK, HU, Calm

LEMMA CalmKeeps ==
    ASSUME NEW v \in Server, v.backlog # None => BacklogOK(v), NEW y \in Server, Calm(v, y)
    PROVE  Keeps(MV(v), MV(y))
  <1>1. CASE v.backlog # None
    <2>1. Moves(MV(v), MV(y), <<>>)
      BY <1>1, StillMoves DEF Calm
    <2> QED BY <2>1, MovesKeeps
  <1>2. CASE v.backlog = None
    <2>1. MTyped(MV(v)) /\ MTyped(MV(y))
      BY <1>2, ViewTyped DEF Calm
    <2>2. v.offset \in Int /\ v.runid \in RunIds
      BY DEF Server, Offsets
    <2>3. Severs(MV(v), MV(y))
      BY <1>2, <2>2 DEF Severs, MV, Calm
    <2> QED BY <2>1, <2>3, SeversKeeps
  <1> QED BY <1>1, <1>2

\* A slave that is left alone.
LEMMA CalmPair ==
    ASSUME NEW w, WInv(w), NEW m \in Servers, NEW y \in Server, Calm(w.srv[m], y), NEW t \in Servers, w.srv[t].masterhost = m,
           NEW c, c = w.cl[m][t], NEW k, k = w.conn[t], c # None /\ c.state = "END" => y.child = w.srv[m].child
    PROVE  PairOK(MV(y), SV(w.srv[t]), c, k)
  <1>1. m # None
    BY NoneAssumption
  <1>2. Pair(w, m, t) /\ MTyped(MV(w.srv[m])) /\ STyped(SV(w.srv[t]), w.conn[t])
    BY <1>1, PairFacts
  <1>3. PICK v : v = w.srv[m]
    OBVIOUS
  <1>4. PICK x : x = SV(w.srv[t])
    OBVIOUS
  <1>5. v \in Server /\ (v.backlog # None => BacklogOK(v))
    <2>1. w \in Worlds /\ MasterOK(m, w.srv[m])
      BY DEF WInv
    <2> QED BY ONLY <2>1, <1>3, m \in Servers, WorldTypes DEF MasterOK
  <1>6. PairOK(MV(v), x, c, k) /\ MTyped(MV(v)) /\ STyped(x, k) /\ Calm(v, y)
    BY ONLY <1>2, <1>3, <1>4, c = w.cl[m][t], k = w.conn[t], Calm(w.srv[m], y) DEF Pair
  <1>7. CASE v.backlog # None
    <2>1. Moves(MV(v), MV(y), <<>>)
      BY ONLY <1>5, <1>6, <1>7, StillMoves DEF Calm
    <2>2. c # None /\ c.state = "END" => MV(y).child = MV(v).child
      BY <1>3 DEF MV
    <2>3. PICK V, Y : V = MV(v) /\ Y = MV(y)
      OBVIOUS
    <2>4. PairOK(Y, x, c, k)
      BY ONLY <1>6, <2>1, <2>2, <2>3, PairStill
    <2> QED BY ONLY <1>4, <2>3, <2>4
  <1>8. CASE v.backlog = None
    <2>1. c = None
      BY <1>3, <1>8, NoSlaves DEF SlavesOf
    <2>2. Keeps(MV(v), MV(y))
      BY ONLY <1>5, <1>6, y \in Server, CalmKeeps
    <2>3. PICK V, Y : V = MV(v) /\ Y = MV(y)
      OBVIOUS
    <2>4. PairOK(Y, x, None, k)
      BY ONLY <1>6, <2>1, <2>2, <2>3, PairKeeps
    <2> QED BY ONLY <1>4, <2>1, <2>3, <2>4
  <1> QED BY <1>7, <1>8

\* The slaves in S are told something.
Touched(w, C, K, m, y, S) ==
  \A t \in Servers :
    /\ t \notin S => C[t] = w.cl[m][t] /\ K[t] = w.conn[t] /\ (C[t] # None /\ C[t].state = "END" => y.child = w.srv[m].child)
    /\ t \in S => K[t] # None /\ K[t].to = w.conn[t].to /\ PairOK(MV(y), SV(w.srv[t]), C[t], K[t])

LEMMA ManyStep ==
    ASSUME NEW w, WInv(w), NEW m \in Servers, NEW y, NEW w2, NEW C, NEW K, ManyWorld(w, w2, m, y, C, K), Calm(w.srv[m], y),
           SameRole(w.srv[m], y), NEW S \in SUBSET SlavesOf(w, m), Touched(w, C, K, m, y, S)
    PROVE  WInv(w2)
  <1>1. w2 \in Worlds /\ w2.srv[m] = y
    BY DEF ManyWorld
  <1>2. y \in Server
    BY <1>1, WorldTypes
  <1>3. w \in Worlds /\ MasterOK(m, w.srv[m])
    BY DEF WInv
  <1>4. MasterOK(m, y)
    BY ONLY <1>3, Calm(w.srv[m], y), SameRole(w.srv[m], y), CalmMaster DEF SameRole
  <1>5. \A t \in Servers : w.srv[t].masterhost # m => t \notin S
    BY NotItsMaster DEF SlavesOf
  <1>6. MasterSide(w, w2, m)
    BY ONLY <1>5, ManyWorld(w, w2, m, y, C, K), Touched(w, C, K, m, y, S) DEF MasterSide, ManyWorld, Touched
  <1>7. SlavesFit(w, w2, m)
    <2>1. ASSUME NEW t \in Servers, w.srv[t].masterhost = m
          PROVE  /\ w.conn[t] = None => w2.conn[t] = None
                 /\ w.conn[t] # None => w2.conn[t] # None /\ w2.conn[t].to = w.conn[t].to
                 /\ Pair(w2, m, t)
      <3>1. t # m
        BY <2>1, NotItsOwnMaster
      <3>2. w2.cl[m][t] = C[t] /\ w2.conn[t] = K[t] /\ w2.srv[t] = w.srv[t]
        BY ONLY <3>1, t \in Servers, m \in Servers, ManyWorld(w, w2, m, y, C, K) DEF ManyWorld
      <3>3. PICK c : c = w.cl[m][t]
        OBVIOUS
      <3>4. PICK k : k = w.conn[t]
        OBVIOUS
      <3>5. CASE t \in S
        <4>1. K[t] # None /\ K[t].to = w.conn[t].to /\ PairOK(MV(y), SV(w.srv[t]), C[t], K[t])
          BY ONLY <3>5, t \in Servers, Touched(w, C, K, m, y, S) DEF Touched
        <4>2. w.conn[t] # None
          BY <3>5, NotConnected DEF SlavesOf
        <4> QED BY ONLY <1>1, <3>2, <4>1, <4>2 DEF Pair
      <3>6. CASE t \notin S
        <4>1. C[t] = c /\ K[t] = k /\ (c # None /\ c.state = "END" => y.child = w.srv[m].child)
          BY ONLY <3>3, <3>4, <3>6, t \in Servers, Touched(w, C, K, m, y, S) DEF Touched
        <4>2. PairOK(MV(y), SV(w.srv[t]), c, k)
          BY ONLY <1>2, <2>1, <3>3, <3>4, <4>1, WInv(w), m \in Servers, t \in Servers, Calm(w.srv[m], y), CalmPair
        <4> QED BY ONLY <1>1, <3>2, <3>4, <4>1, <4>2 DEF Pair
      <3> QED BY <3>5, <3>6
    <2> QED BY ONLY <2>1, WInv(w), m \in Servers, SlavesFitOne
  <1> QED BY ONLY <1>1, <1>4, <1>6, <1>7, WInv(w), m \in Servers, SameRole(w.srv[m], y), MasterStep

\* What the slaves in S are told, and what the connections are then.
Setup(c, off) == [c EXCEPT !.state = "END", !.init = off]
SetupClients(w, m, S, off) == [t \in Servers |-> IF t \in S THEN Setup(w.cl[m][t], off) ELSE w.cl[m][t]]
Sending(w, S, U) == [t \in Servers |-> IF t \in S THEN Sent(w.conn[t], U) ELSE w.conn[t]]
Untold(w, m, S) == {t \in S : ~w.cl[m][t].pre}

LEMMA SendingType ==
    ASSUME NEW w \in Worlds, NEW S, NEW U \in Seq(Msgs)
    PROVE  Sending(w, S, U) \in [Servers -> Conns \cup {None}]
  <1>1. \A t \in Servers : w.conn[t] \in Conns \cup {None}
    BY WorldTypes
  <1>2. \A t \in Servers : Sent(w.conn[t], U) \in Conns \cup {None}
    BY <1>1, SentType
  <1> QED BY ONLY <1>1, <1>2 DEF Sending

LEMMA FullIsMsg ==
    ASSUME NEW r \in RunIds, NEW off \in Nat
    PROVE  Full(r, off) \in Msgs /\ <<Full(r, off)>> \in Seq(Msgs)
  BY DEF Full, Msgs

LEMMA SetupType ==
    ASSUME NEW c \in Clients, NEW off \in Nat
    PROVE  Setup(c, off) \in Clients
  <1>1. PICK d : d = [c EXCEPT !.state = "END"]
    OBVIOUS
  <1>2. d \in Clients
    BY ONLY <1>1, c \in Clients DEF Clients
  <1>3. off \in Int
    OBVIOUS
  <1>4. Setup(c, off) = [d EXCEPT !.init = off]
    BY ONLY <1>1, c \in Clients DEF Setup, Clients
  <1>5. [d EXCEPT !.init = off] \in Clients
    BY ONLY <1>2, <1>3 DEF Clients
  <1> QED BY ONLY <1>4, <1>5

LEMMA NoChild ==
    ASSUME NEW w, WInv(w), NEW m \in Servers, w.srv[m].child = None, NEW t \in Servers, w.cl[m][t] # None
    PROVE  w.cl[m][t].state # "END"
  <1>1. Pair(w, m, t)
    BY NoneAssumption DEF WInv, SlaveOK
  <1>2. ClientOK(MV(w.srv[m]), w.cl[m][t])
    BY <1>1 DEF Pair, PairOK, LinkedOK
  <1> QED BY <1>2 DEF ClientOK, MV

LEMMA SlavesAreClients ==
    ASSUME NEW w \in Worlds, NEW m \in Servers, NEW t \in SlavesOf(w, m)
    PROVE  t \in Servers /\ w.cl[m][t] \in Clients /\ w.cl[m][t] # None
  BY WorldTypes DEF SlavesOf

LEMMA SetupWorld ==
    ASSUME NEW w \in Worlds, NEW m \in Servers, NEW S \in SUBSET SlavesOf(w, m), NEW off \in Nat, NEW y, y = [w.srv[m] EXCEPT !.seldb = -1],
           NEW u, u = Full(w.srv[m].runid, off), NEW w2, w2 = replicationSetupSlaveForFullResync(w, m, S, off)
    PROVE  /\ w2 = [srv |-> [w.srv EXCEPT ![m] = y], cl |-> [w.cl EXCEPT ![m] = SetupClients(w, m, S, off)],
                    conn |-> Sending(w, Untold(w, m, S), <<u>>)]
           /\ y \in Server /\ SetupClients(w, m, S, off) \in [Servers -> Clients \cup {None}]
           /\ Sending(w, Untold(w, m, S), <<u>>) \in [Servers -> Conns \cup {None}] /\ <<u>> \in Seq(Msgs)
  <1>1. /\ w = [srv |-> w.srv, cl |-> w.cl, conn |-> w.conn] /\ w.srv[m] \in Server
        /\ w.srv \in [Servers -> Server] /\ w.cl \in [Servers -> [Servers -> Clients \cup {None}]] /\ w.conn \in [Servers -> Conns \cup {None}]
    BY WorldTypes
  <1>2. PICK C : C = SetupClients(w, m, S, off)
    OBVIOUS
  <1>3. C \in [Servers -> Clients \cup {None}]
    <2>1. \A t \in S : Setup(w.cl[m][t], off) \in Clients
      BY SlavesAreClients, SetupType
    <2>2. \A t \in Servers : w.cl[m][t] \in Clients \cup {None}
      BY ONLY <1>1, m \in Servers
    <2> QED BY ONLY <1>2, <2>1, <2>2 DEF SetupClients
  <1>4. y \in Server
    BY ONLY <1>1, y = [w.srv[m] EXCEPT !.seldb = -1] DEF Server
  <1>5. <<u>> \in Seq(Msgs)
    <2>1. w.srv[m].runid \in RunIds
      BY ONLY <1>1 DEF Server
    <2> QED BY ONLY <2>1, off \in Nat, u = Full(w.srv[m].runid, off), FullIsMsg
  <1>6. Sending(w, Untold(w, m, S), <<u>>) \in [Servers -> Conns \cup {None}]
    BY <1>5, SendingType
  <1>7. PICK e : e = [w EXCEPT !.cl[m] = C, !.srv[m] = y]
    OBVIOUS
  <1>8. e = [srv |-> [w.srv EXCEPT ![m] = y], cl |-> [w.cl EXCEPT ![m] = C], conn |-> w.conn]
    BY ONLY <1>1, <1>7
  <1>9. w2 = Send(e, Untold(w, m, S), <<u>>)
    <2>1. e = [w EXCEPT !.cl[m] = [s \in Servers |-> IF s \in S THEN [w.cl[m][s] EXCEPT !.state = "END", !.init = off] ELSE w.cl[m][s]],
                        !.srv[m].seldb = -1]
      BY ONLY <1>1, <1>2, <1>7, y = [w.srv[m] EXCEPT !.seldb = -1] DEF SetupClients, Setup
    <2> QED BY ONLY <2>1, u = Full(w.srv[m].runid, off), w2 = replicationSetupSlaveForFullResync(w, m, S, off)
            DEF replicationSetupSlaveForFullResync, Untold, Full
  <1>10. w2 = [srv |-> [w.srv EXCEPT ![m] = y], cl |-> [w.cl EXCEPT ![m] = C], conn |-> Sending(w, Untold(w, m, S), <<u>>)]
    BY ONLY <1>8, <1>9 DEF Send, Sending
  <1> QED BY ONLY <1>2, <1>3, <1>4, <1>5, <1>6, <1>10

\* A child that writes the file for the slaves that wait.
Forking(v, type) == [v EXCEPT !.seldb = -1, !.child = [type |-> type, data |-> v.data]]

LEMMA ForkingServer ==
    ASSUME NEW v \in Server, NEW type \in {"DISK", "SOCKET"}, NEW y, y = Forking(v, type)
    PROVE  /\ y \in Server /\ Calm(v, y) /\ SameRole(v, y) /\ y.child # None /\ y.child.data = v.data /\ y.seldb = -1 /\ y.data = v.data
           /\ y.offset = v.offset /\ y.backlog = v.backlog /\ y.runid = v.runid
  <1>1. PICK h : h = [type |-> type, data |-> v.data]
    OBVIOUS
  <1>2. h \in Children /\ h.data = v.data
    BY ONLY <1>1, v \in Server, type \in {"DISK", "SOCKET"} DEF Children, Server
  <1>3. h # None
    BY <1>2, NoneAssumption
  <1>4. y = [v EXCEPT !.seldb = -1, !.child = h]
    BY ONLY <1>1, y = Forking(v, type) DEF Forking
  <1> QED BY ONLY <1>2, <1>3, <1>4, v \in Server DEF Server, Calm, SameRole

\* A slave that waited is told the offset.
LEMMA ForkPair ==
    ASSUME NEW v \in Server, v.backlog # None, BacklogOK(v), NEW type \in {"DISK", "SOCKET"}, NEW y, y = Forking(v, type),
           NEW x, NEW c, NEW k, STyped(x, k), PairOK(MV(v), x, c, k), IsStart(c),
           NEW d, d = Setup(c, v.offset), NEW j, j = IF c.pre THEN k ELSE Sent(k, <<Full(v.runid, v.offset)>>)
    PROVE  PairOK(MV(y), x, d, j)
  <1>1. /\ y \in Server /\ Calm(v, y) /\ SameRole(v, y) /\ y.child # None /\ y.child.data = v.data /\ y.seldb = -1 /\ y.data = v.data
        /\ y.offset = v.offset /\ y.backlog = v.backlog /\ y.runid = v.runid
    BY ForkingServer
  <1>2. BacklogOK(y)
    BY ONLY <1>1, BacklogOK(v) DEF BacklogOK, HU
  <1>3. PICK Y : Y = MV(y)
    OBVIOUS
  <1>4. /\ MTyped(Y) /\ Y.backlog # None /\ Y.child # None /\ Y.child.data = v.data /\ Y.runid = v.runid /\ Y.offset = v.offset
        /\ Y.data = v.data /\ Y.seldb = -1
    <2>1. MTyped(Y)
      BY ONLY <1>1, <1>2, <1>3, ViewTyped
    <2> QED BY ONLY <1>1, <1>3, <2>1, v.backlog # None DEF MV
  <1>5. Waits(x, c, k) /\ CachedOK(MV(v), x)
    BY ONLY STyped(x, k), PairOK(MV(v), x, c, k), IsStart(c), PairWaiting
  <1>6. CachedOK(Y, x)
    <2>1. Keeps(MV(v), Y)
      BY ONLY <1>1, <1>3, v \in Server, BacklogOK(v), CalmKeeps
    <2>2. x.cached \in Masters \cup {None} /\ x.data \in Data
      BY ONLY STyped(x, k) DEF STyped
    <2>3. <<>> \in Seq(Units)
      OBVIOUS
    <2> QED BY ONLY <1>5, <2>1, <2>2, <2>3 DEF Keeps, CachedOK
  <1>7. PICK off \in Nat : off = v.offset
    BY DEF BacklogOK
  <1>8. PICK x0 : x0 = [data |-> v.data, db |-> 0, querybuf |-> <<>>]
    OBVIOUS
  <1>9. Stream(Y, off, x0, <<>>)
    <2>1. Replayed(x0, <<>>) = x0
      BY ReplayedEmpty
    <2>2. Arrives(Y, x0)
      BY ONLY <1>4, <1>8 DEF Arrives
    <2>3. <<>> \in Seq(Units) /\ Len(<<>>) = 0
      OBVIOUS
    <2>4. Len(<<>>) = Y.offset - off
      BY <1>4, <1>7, <2>3
    <2> QED BY <2>1, <2>2, <2>3, <2>4 DEF Stream
  <1>10. Stream(Y, off, [data |-> Y.child.data, db |-> 0, querybuf |-> <<>>], <<>>)
    BY ONLY <1>4, <1>8, <1>9
  <1>11. <<>> \in Seq(Units)
    OBVIOUS
  <1>12. d = [c EXCEPT !.state = "END", !.init = off, !.out = <<>>]
    <2>1. c \in Clients /\ c.out = <<>>
      BY ONLY <1>5 DEF Waits
    <2> QED BY ONLY <1>7, <2>1, d = Setup(c, v.offset) DEF Setup, Clients
  <1>13. j = IF c.pre THEN k ELSE Sent(k, <<Full(Y.runid, off)>>)
    BY ONLY <1>4, <1>7, j = IF c.pre THEN k ELSE Sent(k, <<Full(v.runid, v.offset)>>)
  <1>14. PICK e : e = <<>>
    OBVIOUS
  <1>15. e \in Seq(Units) /\ Stream(Y, off, [data |-> Y.child.data, db |-> 0, querybuf |-> <<>>], e)
         /\ d = [c EXCEPT !.state = "END", !.init = off, !.out = e]
    BY ONLY <1>10, <1>11, <1>12, <1>14
  <1>16. PairOK(Y, x, d, j)
    BY ONLY <1>4, <1>5, <1>6, <1>13, <1>15, off \in Nat, STyped(x, k), PairSetup
  <1> QED BY ONLY <1>3, <1>16

\* A server and the slaves it tells an offset.
Started(w, m, y, S, off) ==
  [srv |-> [w.srv EXCEPT ![m] = y], cl |-> [w.cl EXCEPT ![m] = SetupClients(w, m, S, off)],
   conn |-> Sending(w, Untold(w, m, S), <<Full(w.srv[m].runid, off)>>)]

ChildType == IF left.diskless THEN "SOCKET" ELSE "DISK"

ForkedBgsave(w, m) == startBgsaveForReplication(w, m, TRUE)

LEMMA ForkWorld ==
    ASSUME NEW w \in Worlds, NEW m \in Servers, NEW off \in Nat, off = getPsyncInitialOffset(w.srv[m]), NEW S, S = InState(w, m, "START"),
           NEW type, type = ChildType, NEW w2, w2 = ForkedBgsave(w, m)
    PROVE  w2 = Started(w, m, Forking(w.srv[m], type), S, off)
  <1>1. S \in SUBSET SlavesOf(w, m)
    BY DEF InState
  <1>2. PICK v : v = w.srv[m]
    OBVIOUS
  <1>3. PICK y : y = [v EXCEPT !.seldb = -1]
    OBVIOUS
  <1>4. PICK u : u = Full(v.runid, off)
    OBVIOUS
  <1>5. PICK told : told = replicationSetupSlaveForFullResync(w, m, S, off)
    OBVIOUS
  <1>6. told = [srv |-> [w.srv EXCEPT ![m] = y], cl |-> [w.cl EXCEPT ![m] = SetupClients(w, m, S, off)],
                    conn |-> Sending(w, Untold(w, m, S), <<u>>)]
    BY ONLY <1>1, <1>2, <1>3, <1>4, <1>5, w \in Worlds, m \in Servers, off \in Nat, SetupWorld
  <1>7. w2 = [told EXCEPT !.srv[m] = IF left.diskless THEN rdbSaveToSlavesSockets(@) ELSE rdbSaveBackground(@)]
    BY ONLY <1>5, off = getPsyncInitialOffset(w.srv[m]), S = InState(w, m, "START"), w2 = ForkedBgsave(w, m)
       DEF ForkedBgsave, startBgsaveForReplication
  <1>8. v \in Server /\ w.srv \in [Servers -> Server]
    BY <1>2, WorldTypes
  <1>9. [w.srv EXCEPT ![m] = y][m] = y
    BY ONLY <1>8, m \in Servers
  <1>10. (IF left.diskless THEN rdbSaveToSlavesSockets(y) ELSE rdbSaveBackground(y)) = Forking(v, type)
    BY ONLY <1>3, <1>8, type = ChildType DEF ChildType, rdbSaveToSlavesSockets, rdbSaveBackground, Forking, Server
  <1>11. PICK f : f = [w.srv EXCEPT ![m] = y]
    OBVIOUS
  <1>12. PICK z : z = Forking(v, type)
    OBVIOUS
  <1>13. w2 = [told EXCEPT !.srv[m] = z]
    <2>1. told.srv[m] = y
      BY ONLY <1>6, <1>9
    <2> QED BY ONLY <1>7, <1>10, <1>12, <2>1
  <1>14. [f EXCEPT ![m] = z] = [w.srv EXCEPT ![m] = z]
    BY ONLY <1>8, <1>11, m \in Servers
  <1>15. w2 = [srv |-> [f EXCEPT ![m] = z], cl |-> [w.cl EXCEPT ![m] = SetupClients(w, m, S, off)], conn |-> Sending(w, Untold(w, m, S), <<u>>)]
    BY ONLY <1>6, <1>11, <1>13
  <1> QED BY ONLY <1>2, <1>4, <1>12, <1>14, <1>15 DEF Started

LEMMA StartedWorld ==
    ASSUME NEW w \in Worlds, NEW m \in Servers, NEW y \in Server, NEW S \in SUBSET SlavesOf(w, m), NEW off \in Nat, NEW w2, w2 = Started(w, m, y, S, off),
           NEW C, C = SetupClients(w, m, S, off), NEW K, K = Sending(w, Untold(w, m, S), <<Full(w.srv[m].runid, off)>>)
    PROVE  ManyWorld(w, w2, m, y, C, K)
  <1>1. PICK z : z = [w.srv[m] EXCEPT !.seldb = -1]
    OBVIOUS
  <1>2. PICK u : u = Full(w.srv[m].runid, off)
    OBVIOUS
  <1>3. PICK e : e = replicationSetupSlaveForFullResync(w, m, S, off)
    OBVIOUS
  <1>4. /\ SetupClients(w, m, S, off) \in [Servers -> Clients \cup {None}]
        /\ Sending(w, Untold(w, m, S), <<u>>) \in [Servers -> Conns \cup {None}]
    BY ONLY <1>1, <1>2, <1>3, w \in Worlds, m \in Servers, S \in SUBSET SlavesOf(w, m), off \in Nat, SetupWorld
  <1>5. C \in [Servers -> Clients \cup {None}] /\ K \in [Servers -> Conns \cup {None}]
    BY ONLY <1>2, <1>4, C = SetupClients(w, m, S, off), K = Sending(w, Untold(w, m, S), <<Full(w.srv[m].runid, off)>>)
  <1>6. w2 = [srv |-> [w.srv EXCEPT ![m] = y], cl |-> [w.cl EXCEPT ![m] = C], conn |-> K]
    BY ONLY C = SetupClients(w, m, S, off), K = Sending(w, Untold(w, m, S), <<Full(w.srv[m].runid, off)>>), w2 = Started(w, m, y, S, off) DEF Started
  <1> QED BY ONLY <1>5, <1>6, w \in Worlds, m \in Servers, y \in Server, WorldMany

LEMMA ForkedInv ==
    ASSUME NEW w, WInv(w), NEW m \in Servers, NEW v, v = w.srv[m], v.backlog # None, v.child = None, NEW type \in {"DISK", "SOCKET"},
           NEW S, S = InState(w, m, "START"), NEW y, y = Forking(v, type), NEW w2, w2 = Started(w, m, y, S, v.offset)
    PROVE  WInv(w2) /\ w2.srv[m].backlog # None
  <1>1. w \in Worlds /\ v \in Server /\ BacklogOK(v)
    BY WorldTypes DEF WInv, MasterOK
  <1>2. PICK off \in Nat : off = v.offset
    BY <1>1 DEF BacklogOK
  <1>3. y \in Server /\ Calm(v, y) /\ SameRole(v, y) /\ y.backlog = v.backlog
    BY ONLY <1>1, type \in {"DISK", "SOCKET"}, y = Forking(v, type), ForkingServer
  <1>4. S \in SUBSET SlavesOf(w, m)
    BY DEF InState
  <1>5. PICK C : C = SetupClients(w, m, S, off)
    OBVIOUS
  <1>6. PICK K : K = Sending(w, Untold(w, m, S), <<Full(w.srv[m].runid, off)>>)
    OBVIOUS
  <1>7. w2 = Started(w, m, y, S, off)
    BY ONLY <1>2, w2 = Started(w, m, y, S, v.offset)
  <1>8. ManyWorld(w, w2, m, y, C, K)
    BY ONLY <1>1, <1>3, <1>4, <1>5, <1>6, <1>7, m \in Servers, off \in Nat, StartedWorld
  <1>9. Touched(w, C, K, m, y, S)
    <2>1. ASSUME NEW t \in Servers, t \notin S
          PROVE  C[t] = w.cl[m][t] /\ K[t] = w.conn[t] /\ (C[t] # None /\ C[t].state = "END" => y.child = w.srv[m].child)
      <3>1. C[t] = w.cl[m][t] /\ K[t] = w.conn[t]
        BY ONLY <1>5, <1>6, <2>1, t \in Servers DEF SetupClients, Sending, Untold
      <3>2. w.cl[m][t] # None => w.cl[m][t].state # "END"
        BY ONLY WInv(w), m \in Servers, t \in Servers, v = w.srv[m], v.child = None, NoChild
      <3> QED BY ONLY <3>1, <3>2
    <2>2. ASSUME NEW t \in Servers, t \in S
          PROVE  K[t] # None /\ K[t].to = w.conn[t].to /\ PairOK(MV(y), SV(w.srv[t]), C[t], K[t])
      <3>1. w.cl[m][t] # None /\ w.cl[m][t].state = "START"
        BY <2>2 DEF InState, SlavesOf
      <3>2. w.conn[t] # None /\ w.srv[t].masterhost = m
        BY <3>1, NotConnected DEF WInv, SlaveOK
      <3>3. PICK n, x, k, c, V, z : LinkOf(w, t, n, x, k, c, V, z)
        BY <3>2, LinkFacts
      <3>4. k = w.conn[t] /\ k \in Conns /\ k # None /\ c = w.cl[m][t] /\ c # None /\ IsStart(c) /\ z = SV(w.srv[t]) /\ PairOK(MV(v), z, c, k) /\ STyped(z, k)
        BY ONLY <3>1, <3>2, <3>3, v = w.srv[m] DEF LinkOf, IsStart
      <3>5. PICK d : d = Setup(c, v.offset)
        OBVIOUS
      <3>6. PICK j : j = IF c.pre THEN k ELSE Sent(k, <<Full(v.runid, v.offset)>>)
        OBVIOUS
      <3>7. C[t] = d
        BY ONLY <1>2, <1>5, <2>2, <3>4, <3>5, t \in Servers DEF SetupClients
      <3>8. K[t] = j
        BY ONLY <1>2, <1>6, <2>2, <3>4, <3>6, t \in Servers, v = w.srv[m] DEF Sending, Untold
      <3>9. PairOK(MV(y), z, d, j)
        BY ONLY <1>1, <3>4, <3>5, <3>6, v.backlog # None, type \in {"DISK", "SOCKET"}, y = Forking(v, type), ForkPair
      <3>10. j # None /\ j.to = k.to
        <4>1. v.runid \in RunIds
          BY ONLY <1>1 DEF Server
        <4>2. <<Full(v.runid, off)>> \in Seq(Msgs)
          BY ONLY <4>1, off \in Nat, FullIsMsg
        <4>3. PICK E \in Seq(Msgs) : E = <<Full(v.runid, off)>>
          BY ONLY <4>2
        <4>4. k \in Conns \cup {None}
          BY ONLY <3>4
        <4>5. Sent(k, E) # None /\ Sent(k, E).to = k.to
          BY ONLY <3>4, <4>4, E \in Seq(Msgs), SentType
        <4> QED BY ONLY <1>2, <3>4, <3>6, <4>3, <4>5
      <3> QED BY ONLY <3>4, <3>7, <3>8, <3>9, <3>10
    <2> QED BY ONLY <2>1, <2>2 DEF Touched
  <1>10. Calm(w.srv[m], y) /\ SameRole(w.srv[m], y)
    BY ONLY <1>3, v = w.srv[m]
  <1>11. WInv(w2)
    BY ONLY <1>4, <1>8, <1>9, <1>10, WInv(w), m \in Servers, ManyStep
  <1> QED BY ONLY <1>3, <1>8, <1>11, v.backlog # None DEF ManyWorld

\* startBgsaveForReplication of a server that has a backlog.
LEMMA ForkInv ==
    ASSUME NEW w, WInv(w), NEW m \in Servers, w.srv[m].backlog # None, w.srv[m].child = None, NEW w2, w2 = startBgsaveForReplication(w, m, TRUE)
    PROVE  WInv(w2) /\ w2.srv[m].backlog # None
  <1>1. w \in Worlds /\ BacklogOK(w.srv[m])
    BY DEF WInv, MasterOK
  <1>2. PICK v : v = w.srv[m]
    OBVIOUS
  <1>3. PICK off \in Nat : off = v.offset
    BY <1>1, <1>2 DEF BacklogOK
  <1>4. off = getPsyncInitialOffset(w.srv[m])
    BY <1>2, <1>3 DEF getPsyncInitialOffset
  <1>5. PICK type : type = ChildType
    OBVIOUS
  <1>6. type \in {"DISK", "SOCKET"}
    BY ONLY <1>5 DEF ChildType
  <1>7. PICK S : S = InState(w, m, "START")
    OBVIOUS
  <1>8. w2 = Started(w, m, Forking(w.srv[m], type), S, off)
    <2>1. w2 = ForkedBgsave(w, m)
      BY DEF ForkedBgsave
    <2> QED BY ONLY <1>1, <1>4, <1>5, <1>7, <2>1, m \in Servers, off \in Nat, ForkWorld
  <1>9. PICK y : y = Forking(v, type)
    OBVIOUS
  <1>10. w2 = Started(w, m, y, S, v.offset)
    BY ONLY <1>2, <1>3, <1>8, <1>9
  <1> QED BY ONLY <1>2, <1>6, <1>7, <1>9, <1>10, WInv(w), m \in Servers, w.srv[m].backlog # None, w.srv[m].child = None, ForkedInv

\* BGSAVE: no slave is told.
LEMMA BgsaveInv ==
    ASSUME NEW w, WInv(w), NEW m \in Servers, w.srv[m].child = None, NEW w2, w2 = [w EXCEPT !.srv[m] = rdbSaveBackground(@)]
    PROVE  WInv(w2)
  <1>1. w \in Worlds /\ w.srv[m] \in Server
    BY WorldTypes DEF WInv
  <1>2. PICK v : v = w.srv[m]
    OBVIOUS
  <1>3. PICK h : h = [type |-> "DISK", data |-> v.data]
    OBVIOUS
  <1>4. PICK y : y = [v EXCEPT !.child = h]
    OBVIOUS
  <1>5. h \in Children
    BY ONLY <1>1, <1>2, <1>3 DEF Server, Children
  <1>6. y \in Server /\ Calm(v, y) /\ SameRole(v, y)
    BY ONLY <1>1, <1>2, <1>4, <1>5 DEF Server, Calm, SameRole
  <1>7. w2 = [w EXCEPT !.srv[m] = y]
    BY ONLY <1>2, <1>3, <1>4, w2 = [w EXCEPT !.srv[m] = rdbSaveBackground(@)] DEF rdbSaveBackground
  <1>8. SrvSet(w, w2, m, y)
    BY ONLY <1>1, <1>6, <1>7, m \in Servers, WorldSrv
  <1>9. PICK C : C = w.cl[m]
    OBVIOUS
  <1>10. PICK K : K = w.conn
    OBVIOUS
  <1>11. ManyWorld(w, w2, m, y, C, K)
    BY ONLY <1>8, <1>9, <1>10, m \in Servers DEF SrvSet, ManyWorld
  <1>12. Touched(w, C, K, m, y, {})
    <2>1. \A t \in Servers : w.cl[m][t] # None => w.cl[m][t].state # "END"
      BY NoChild
    <2> QED BY ONLY <1>9, <1>10, <2>1 DEF Touched
  <1>13. Calm(w.srv[m], y) /\ SameRole(w.srv[m], y) /\ {} \in SUBSET SlavesOf(w, m)
    BY <1>2, <1>6
  <1> QED BY ONLY <1>11, <1>12, <1>13, WInv(w), m \in Servers, ManyStep

---------------------------------------------------------------------------
(* SYNC and PSYNC.                                                         *)

\* A slave that asked.
Asks(z, c, k) ==
  /\ c = None /\ k.wire = <<>>
  /\ \/ z.repl_state = "RECEIVE_PSYNC" /\ k.req = PsyncReq(z.cached)
     \/ z.repl_state = "TRANSFER" /\ k.req = [cmd |-> "SYNC"] /\ z.init.off = -1

LEMMA Asked ==
    ASSUME NEW v, NEW z, NEW c, NEW k, k # None, k.req # None, PairOK(v, z, c, k), STyped(z, k)
    PROVE  Asks(z, c, k)
  <1>1. c = None
    BY DEF PairOK, LinkedOK
  <1>2. PipeOK(v, z, c, k) /\ z.repl_state \in {"CONNECTING", "RECEIVE_PSYNC", "TRANSFER", "CONNECTED"}
    BY DEF PairOK, STyped
  <1>3. z.repl_state \in {"RECEIVE_PSYNC", "TRANSFER"}
    BY <1>2 DEF PipeOK
  <1> QED BY <1>1, <1>2, <1>3 DEF PipeOK, PsyncPipe, TransferPipe, Asks

Heard(k) == [k EXCEPT !.req = None]

LEMMA HeardType ==
    ASSUME NEW k \in Conns
    PROVE  /\ Heard(k) \in Conns /\ Heard(k) \in Conns \cup {None} /\ Heard(k) # None /\ Heard(k).req = None /\ Heard(k).to = k.to
           /\ Heard(k).wire = k.wire /\ Heard(k).open = k.open
  <1>1. Heard(k) \in Conns
    BY DEF Heard, Conns
  <1> QED BY <1>1, NoneAssumption DEF Heard, Conns

LEMMA HeardWorld ==
    ASSUME NEW w \in Worlds, NEW s \in Servers, NEW m \in Servers, NEW k \in Conns, k = w.conn[s], NEW w2, w2 = [w EXCEPT !.conn[s].req = None]
    PROVE  LinkSet(w, w2, s, w.srv[s], m, w.cl[m][s], Heard(k))
  <1>1. PICK j \in Conns \cup {None} : j = Heard(k)
    BY HeardType
  <1>2. w2 = [w EXCEPT !.conn[s] = j]
    BY ONLY <1>1, k = w.conn[s], w2 = [w EXCEPT !.conn[s].req = None] DEF Heard
  <1>3. LinkSet(w, w2, s, w.srv[s], m, w.cl[m][s], j)
    BY ONLY <1>1, <1>2, w \in Worlds, s \in Servers, m \in Servers, ConnSet
  <1> QED BY ONLY <1>1, <1>3

Err == [k |-> "err"]

LEMMA ErrIsMsg == Err \in Msgs /\ <<Err>> \in Seq(Msgs)
  BY MsgTypes DEF Err

\* -NOMASTERLINK.
LEMMA SyncErrInv ==
    ASSUME NEW w, WInv(w), NEW s \in Servers, w.conn[s] # None, w.conn[s].req # None, NEW e, e = [w EXCEPT !.conn[s].req = None],
           NEW w2, w2 = Send(e, {s}, <<Err>>)
    PROVE  WInv(w2)
  <1>1. PICK m, x, k, c, v, z : LinkOf(w, s, m, x, k, c, v, z)
    BY LinkFacts
  <1>2. w \in Worlds /\ x \in Server /\ k \in Conns /\ k # None /\ m \in Servers /\ m # s /\ m # None
    BY ONLY <1>1 DEF LinkOf
  <1>a. x = w.srv[s] /\ k = w.conn[s] /\ k.to = m /\ m = x.masterhost
    BY ONLY <1>1 DEF LinkOf
  <1>b. c = w.cl[m][s]
    BY ONLY <1>1 DEF LinkOf
  <1>c. v = MV(w.srv[m]) /\ z = SV(x)
    BY ONLY <1>1 DEF LinkOf
  <1>d. PairOK(v, z, c, k) /\ MTyped(v) /\ STyped(z, k) /\ CachedOK(v, z)
    BY ONLY <1>1 DEF LinkOf
  <1>e. k.req # None
    BY ONLY <1>a, w.conn[s].req # None
  <1>3. Asks(z, c, k)
    BY ONLY <1>2, <1>d, <1>e, Asked
  <1>4. PICK k1 : k1 = Heard(k)
    OBVIOUS
  <1>5. k1 \in Conns /\ k1 \in Conns \cup {None} /\ k1 # None /\ k1.req = None /\ k1.to = k.to /\ k1.wire = k.wire
    BY ONLY <1>2, <1>4, HeardType
  <1>6. LinkSet(w, e, s, x, m, c, k1)
    BY ONLY <1>2, <1>a, <1>b, <1>4, s \in Servers, e = [w EXCEPT !.conn[s].req = None], HeardWorld
  <1>7. e \in Worlds /\ e.srv[s] = x /\ e.cl[m][s] = c /\ e.conn[s] = k1
    BY ONLY <1>2, <1>6, s \in Servers, LinkSetFacts
  <1>8. PICK U \in Seq(Msgs) : U = <<Err>>
    BY ErrIsMsg
  <1>9. PICK j : j = Sent(k1, U)
    OBVIOUS
  <1>10. w2 = Send(e, {s}, U)
    BY <1>8
  <1>11. LinkSet(e, w2, s, x, m, c, j)
    BY ONLY <1>2, <1>7, <1>9, <1>10, s \in Servers, U \in Seq(Msgs), SendOne
  <1>12. LinkSet(w, w2, s, x, m, c, j)
    BY ONLY <1>2, <1>6, <1>11, s \in Servers, LinkSetTwice
  <1>13. j # None /\ j.to = k1.to /\ j.wire = k1.wire \o U /\ j.req = k1.req
    BY ONLY <1>5, <1>9, U \in Seq(Msgs), SentType
  <1>14. j.wire = <<[k |-> "err"]>>
    <2>1. k1.wire = <<>>
      BY ONLY <1>3, <1>5 DEF Asks
    <2>2. <<>> \o U = U
      BY ONLY U \in Seq(Msgs), EmptyConcat
    <2> QED BY ONLY <1>8, <1>13, <2>1, <2>2 DEF Err
  <1>15. c = None /\ z.repl_state \in {"RECEIVE_PSYNC", "TRANSFER"}
    BY ONLY <1>3 DEF Asks
  <1>16. PairOK(v, z, None, j)
    BY ONLY <1>d, <1>5, <1>13, <1>14, <1>15, PairError
  <1>17. PairOK(MV(w.srv[m]), SV(x), c, j) /\ j.to = k.to
    BY ONLY <1>c, <1>5, <1>13, <1>15, <1>16
  <1>18. m = w.srv[s].masterhost
    BY ONLY <1>a
  <1> QED BY ONLY WInv(w), s \in Servers, <1>2, <1>a, <1>12, <1>13, <1>17, <1>18, LinkTurn

\* +CONTINUE and the end of the stream.
LEMMA PartialInv ==
    ASSUME NEW w, WInv(w), NEW s \in Servers, w.conn[s] # None, NEW req, req = w.conn[s].req, req # None, w.conn[s].open, NEW m, m = w.conn[s].to,
           PartialAllowed(w.srv[m], req), NEW e, e = [w EXCEPT !.conn[s].req = None],
           NEW w2, w2 = masterTryPartialResynchronization(e, m, s, req)
    PROVE  WInv(w2)
  <1>1. PICK n, x, k, c, v, z : LinkOf(w, s, n, x, k, c, v, z)
    BY LinkFacts
  <1>2. w \in Worlds /\ x \in Server /\ k \in Conns /\ k # None /\ m \in Servers /\ m # s /\ m # None
    BY ONLY <1>1, m = w.conn[s].to DEF LinkOf
  <1>a. x = w.srv[s] /\ k = w.conn[s] /\ k.to = m /\ m = x.masterhost
    BY ONLY <1>1, m = w.conn[s].to DEF LinkOf
  <1>b. c = w.cl[m][s]
    BY ONLY <1>1, m = w.conn[s].to DEF LinkOf
  <1>c. v = MV(w.srv[m]) /\ z = SV(x)
    BY ONLY <1>1, m = w.conn[s].to DEF LinkOf
  <1>d. PairOK(v, z, c, k) /\ MTyped(v) /\ STyped(z, k) /\ CachedOK(v, z)
    BY ONLY <1>1 DEF LinkOf
  <1>e. k.req = req /\ k.req # None /\ k.open
    BY ONLY <1>a, req = w.conn[s].req, req # None, w.conn[s].open
  <1>3. Asks(z, c, k)
    BY ONLY <1>2, <1>d, <1>e, Asked
  <1>4. PICK k1 : k1 = Heard(k)
    OBVIOUS
  <1>5. k1 \in Conns /\ k1 \in Conns \cup {None} /\ k1 # None /\ k1.req = None /\ k1.to = k.to /\ k1.wire = k.wire
    BY ONLY <1>2, <1>4, HeardType
  <1>6. LinkSet(w, e, s, x, m, c, k1)
    BY ONLY <1>2, <1>a, <1>b, <1>4, s \in Servers, e = [w EXCEPT !.conn[s].req = None], HeardWorld
  <1>7. e \in Worlds /\ e.srv[s] = x /\ e.cl[m][s] = c /\ e.conn[s] = k1
    BY ONLY <1>2, <1>6, s \in Servers, LinkSetFacts
  <1>8. e.srv[m] = w.srv[m]
    BY ONLY <1>2, <1>6 DEF LinkSet
  <1>9. PartialAllowed(v, req)
    BY ONLY <1>c, PartialAllowed(w.srv[m], req) DEF PartialAllowed, MV
  <1>10. v.backlog # None /\ BacklogOK(v) /\ req.off >= v.backlog.off /\ req.off <= v.backlog.off + v.backlog.histlen /\ req.cmd = "PSYNC"
    BY ONLY <1>d, <1>9 DEF PartialAllowed, MTyped
  <1>11. PICK p \in v.backlog.off..(v.offset + 1) : p = req.off
    <2>1. req \in Reqs
      BY ONLY <1>2, <1>e DEF Conns
    <2>2. req.off \in Int
      BY ONLY <1>10, <2>1 DEF Reqs
    <2>3. /\ v.backlog.off \in Int /\ v.backlog.histlen \in Int /\ v.offset \in Int /\ v.backlog.off = v.offset - v.backlog.histlen + 1
      BY ONLY <1>10 DEF BacklogOK, Backlogs
    <2> QED BY ONLY <1>10, <2>2, <2>3
  <1>12. PICK H : H = addReplyReplicationBacklog(v.backlog, p)
    OBVIOUS
  <1>13. H \in Seq(Units)
    BY ONLY <1>10, <1>12, p \in v.backlog.off..(v.offset + 1), HistoryUnits
  <1>14. PICK U \in Seq(Msgs) : U = <<[k |-> "cont"]>> \o H
    <2>1. H \in Seq(Msgs)
      BY ONLY <1>13, UnitsAreMsgs
    <2>2. [k |-> "cont"] \in Msgs
      BY MsgTypes
    <2>3. PICK a \in Msgs : a = [k |-> "cont"]
      BY ONLY <2>2
    <2>4. <<a>> \o H \in Seq(Msgs)
      BY ONLY <2>1, a \in Msgs, OneMoreType
    <2> QED BY ONLY <2>3, <2>4
  <1>15. PICK d : d = [NewClient(FALSE) EXCEPT !.state = "ONLINE", !.unsound = req.pre \/ v.reused]
    OBVIOUS
  <1>16. PICK j : j = Sent(k1, U)
    OBVIOUS
  <1>17. j = Sent([k EXCEPT !.req = None], <<[k |-> "cont"]>> \o addReplyReplicationBacklog(v.backlog, req.off))
    BY ONLY <1>4, <1>11, <1>12, <1>14, <1>16 DEF Heard
  <1>18. PairOK(v, z, d, j)
    <2>1. PairOK(v, z, None, k)
      BY ONLY <1>d, <1>3 DEF Asks
    <2>2. req = k.req
      BY ONLY <1>e
    <2> QED BY ONLY <1>2, <1>d, <1>e, <1>9, <1>15, <1>17, <2>1, <2>2, PairPartial
  <1>19. d \in Clients \cup {None}
    <2>1. CASE d = None
      BY <2>1
    <2>2. CASE d # None
      BY ONLY <1>18, <2>2 DEF PairOK, LinkedOK, ClientOK
    <2> QED BY <2>1, <2>2
  <1>20. PICK f : f = [e EXCEPT !.cl[m][s] = d]
    OBVIOUS
  <1>21. LinkSet(e, f, s, x, m, d, k1)
    BY ONLY <1>2, <1>7, <1>19, <1>20, s \in Servers, ClientSet
  <1>22. f \in Worlds /\ f.srv[s] = x /\ f.cl[m][s] = d /\ f.conn[s] = k1
    BY ONLY <1>2, <1>21, s \in Servers, LinkSetFacts
  <1>23. w2 = Send(f, {s}, U)
    <2>1. v.reused = e.srv[m].reused /\ v.backlog = e.srv[m].backlog
      BY ONLY <1>c, <1>8 DEF MV
    <2> QED BY ONLY <1>11, <1>12, <1>14, <1>15, <1>20, <2>1, w2 = masterTryPartialResynchronization(e, m, s, req) DEF masterTryPartialResynchronization
  <1>24. LinkSet(f, w2, s, x, m, d, j)
    BY ONLY <1>2, <1>16, <1>22, <1>23, s \in Servers, U \in Seq(Msgs), SendOne
  <1>25. LinkSet(w, f, s, x, m, d, k1)
    BY ONLY <1>2, <1>6, <1>21, s \in Servers, LinkSetTwice
  <1>26. LinkSet(w, w2, s, x, m, d, j)
    BY ONLY <1>2, <1>24, <1>25, s \in Servers, LinkSetTwice
  <1>27. j # None /\ j.to = k1.to
    BY ONLY <1>5, <1>16, U \in Seq(Msgs), SentType
  <1>28. PairOK(MV(w.srv[m]), SV(x), d, j) /\ j.to = k.to /\ m = w.srv[s].masterhost
    BY ONLY <1>a, <1>c, <1>5, <1>18, <1>27
  <1> QED BY ONLY WInv(w), s \in Servers, <1>2, <1>a, <1>26, <1>27, <1>28, LinkTurn

LEMMA SetupStarted ==
    ASSUME NEW w \in Worlds, NEW m \in Servers, NEW S \in SUBSET SlavesOf(w, m), NEW off \in Nat, NEW v, v = w.srv[m],
           NEW y, y = [v EXCEPT !.seldb = -1], NEW w2, w2 = replicationSetupSlaveForFullResync(w, m, S, off)
    PROVE  y \in Server /\ w2 = Started(w, m, y, S, off)
  <1>1. PICK u : u = Full(v.runid, off)
    OBVIOUS
  <1>2. w2 = [srv |-> [w.srv EXCEPT ![m] = y], cl |-> [w.cl EXCEPT ![m] = SetupClients(w, m, S, off)],
              conn |-> Sending(w, Untold(w, m, S), <<u>>)]
    BY ONLY <1>1, w \in Worlds, m \in Servers, S \in SUBSET SlavesOf(w, m), off \in Nat, v = w.srv[m], y = [v EXCEPT !.seldb = -1],
            w2 = replicationSetupSlaveForFullResync(w, m, S, off), SetupWorld
  <1>3. y \in Server
    <2>1. v \in Server
      BY WorldTypes
    <2> QED BY ONLY <2>1, y = [v EXCEPT !.seldb = -1] DEF Server
  <1> QED BY ONLY <1>1, <1>2, <1>3, v = w.srv[m] DEF Started

\* The fork failed: what a slave that waited gets.
Told(c, k, r, off) == IF c.pre THEN k ELSE Sent(k, <<Full(r, off)>>)
Failed(k) == Closed(Sent(k, <<Err>>))

LEMMA FailedType ==
    ASSUME NEW k \in Conns
    PROVE  Failed(k) # None /\ Failed(k).to = k.to /\ Failed(k).req = k.req /\ Failed(k).wire = k.wire \o <<Err>>
  <1>1. PICK U \in Seq(Msgs) : U = <<Err>>
    BY ErrIsMsg
  <1>2. k \in Conns \cup {None} /\ k # None
    BY NoneAssumption
  <1>3. PICK j : j = Sent(k, U)
    OBVIOUS
  <1>4. j \in Conns /\ j # None /\ j.to = k.to /\ j.wire = k.wire \o U /\ j.req = k.req
    BY ONLY <1>2, <1>3, U \in Seq(Msgs), SentType
  <1>5. j \in Conns \cup {None}
    BY ONLY <1>4
  <1>6. Closed(j) # None /\ Closed(j).to = j.to /\ Closed(j).req = j.req /\ Closed(j).wire = j.wire
    BY ONLY <1>4, <1>5, ClosedType
  <1> QED BY ONLY <1>1, <1>3, <1>4, <1>6 DEF Failed

LEMMA FailedPair ==
    ASSUME NEW v, NEW x, CachedOK(v, x), NEW c, NEW k, Waits(x, c, k), NEW r \in RunIds, NEW off \in Nat,
           NEW j, j = Failed(k) \/ j = Failed(Told(c, k, r, off))
    PROVE  PairOK(v, x, None, j) /\ j # None /\ j.to = k.to
  <1>1. k \in Conns /\ k.req = None /\ k.wire = <<>> /\ x.repl_state \in {"RECEIVE_PSYNC", "TRANSFER"} /\ (~c.pre => x.repl_state = "RECEIVE_PSYNC")
        /\ c \in Clients
    BY ONLY Waits(x, c, k) DEF Waits
  <1>2. <<>> \o <<Err>> = <<Err>>
    <2>1. <<Err>> \in Seq(Msgs)
      BY ErrIsMsg
    <2> QED BY ONLY <2>1, EmptyConcat
  <1>3. CASE j = Failed(k)
    <2>1. j # None /\ j.to = k.to /\ j.req = None /\ j.wire = <<[k |-> "err"]>>
      BY ONLY <1>1, <1>2, <1>3, FailedType DEF Err
    <2>2. PairOK(v, x, None, j)
      BY ONLY <1>1, <2>1, CachedOK(v, x), PairError
    <2> QED BY ONLY <2>1, <2>2
  <1>4. CASE j = Failed(Told(c, k, r, off)) /\ ~c.pre
    <2>1. PICK U \in Seq(Msgs) : U = <<Full(r, off)>>
      BY FullIsMsg
    <2>2. PICK h : h = Sent(k, U)
      OBVIOUS
    <2>3. k \in Conns \cup {None} /\ k # None
      BY <1>1, NoneAssumption
    <2>4. h \in Conns /\ h.to = k.to /\ h.wire = k.wire \o U /\ h.req = k.req
      BY ONLY <2>2, <2>3, U \in Seq(Msgs), SentType
    <2>5. h.wire = U
      <3>1. <<>> \o U = U
        BY ONLY U \in Seq(Msgs), EmptyConcat
      <3> QED BY ONLY <1>1, <2>4, <3>1
    <2>6. j = Failed(h)
      BY ONLY <1>4, <2>1, <2>2 DEF Told
    <2>7. j # None /\ j.to = k.to /\ j.req = None /\ j.wire = U \o <<Err>>
      BY ONLY <1>1, <2>4, <2>5, <2>6, FailedType
    <2>8. PICK init \in [runid : RunIds, off : Nat] : init = [runid |-> r, off |-> off]
      OBVIOUS
    <2>9. j.wire = <<[k |-> "full", runid |-> init.runid, off |-> init.off]>> \o <<[k |-> "err"]>>
      BY ONLY <2>1, <2>7, <2>8 DEF Full, Err
    <2>10. x.repl_state = "RECEIVE_PSYNC"
      BY ONLY <1>1, <1>4
    <2>11. PairOK(v, x, None, j)
      BY ONLY <2>7, <2>9, <2>10, init \in [runid : RunIds, off : Nat], CachedOK(v, x), PairErrorTold
    <2> QED BY ONLY <2>7, <2>11
  <1>5. CASE j = Failed(Told(c, k, r, off)) /\ c.pre
    BY ONLY <1>3, <1>5 DEF Told
  <1>6. c.pre \in BOOLEAN
    BY ONLY <1>1 DEF Clients
  <1> QED BY ONLY <1>3, <1>4, <1>5, <1>6, j = Failed(k) \/ j = Failed(Told(c, k, r, off))

\* b: what it was before the error is sent.
LEMMA FailedWorld ==
    ASSUME NEW b \in Worlds, NEW m \in Servers, NEW S, NEW w2, w2 = freeSlaves(Send(b, S, <<Err>>), m, S)
    PROVE  /\ w2 \in Worlds /\ w2.srv = b.srv
           /\ \A t \in Servers : w2.conn[t] = IF t \in S THEN Failed(b.conn[t]) ELSE b.conn[t]
           /\ \A t \in Servers : w2.cl[m][t] = IF t \in S THEN None ELSE b.cl[m][t]
           /\ \A r \in Servers, t \in Servers : r # m => w2.cl[r][t] = b.cl[r][t]
  <1>1. PICK h : h = Send(b, S, <<Err>>)
    OBVIOUS
  <1>2. /\ b = [srv |-> b.srv, cl |-> b.cl, conn |-> b.conn]
        /\ b.srv \in [Servers -> Server] /\ b.cl \in [Servers -> [Servers -> Clients \cup {None}]] /\ b.conn \in [Servers -> Conns \cup {None}]
    BY WorldTypes
  <1>3. PICK g : g = Sending(b, S, <<Err>>)
    OBVIOUS
  <1>4. g \in [Servers -> Conns \cup {None}]
    BY <1>3, ErrIsMsg, SendingType
  <1>5. h = [srv |-> b.srv, cl |-> b.cl, conn |-> g]
    BY ONLY <1>1, <1>2, <1>3 DEF Send, Sending
  <1>6. h \in Worlds /\ h.srv = b.srv /\ h.cl = b.cl /\ h.conn = g
    BY ONLY <1>2, <1>4, <1>5 DEF Worlds
  <1>7. w2 = freeSlaves(h, m, S)
    BY <1>1
  <1>8. /\ w2 \in Worlds /\ w2.srv = h.srv
        /\ \A t \in Servers : w2.conn[t] = IF t \in S THEN Closed(h.conn[t]) ELSE h.conn[t]
        /\ \A t \in Servers : w2.cl[m][t] = IF t \in S THEN None ELSE h.cl[m][t]
        /\ \A r \in Servers, t \in Servers : r # m => w2.cl[r][t] = h.cl[r][t]
    BY ONLY <1>6, <1>7, m \in Servers, FreeSlavesWorld
  <1>9. \A t \in Servers : g[t] = IF t \in S THEN Sent(b.conn[t], <<Err>>) ELSE b.conn[t]
    BY ONLY <1>3 DEF Sending
  <1> QED BY ONLY <1>6, <1>8, <1>9 DEF Failed

\* The server, and the connections before the error.
Before(w, b, m, y, S, off) ==
  /\ b \in Worlds /\ b.srv[m] = y /\ \A t \in Servers : t # m => b.srv[t] = w.srv[t]
  /\ \A t \in Servers : t \notin S => b.conn[t] = w.conn[t] /\ b.cl[m][t] = w.cl[m][t]
  /\ \A t \in S : b.conn[t] = w.conn[t] \/ b.conn[t] = Told(w.cl[m][t], w.conn[t], w.srv[m].runid, off)
  /\ \A r, t \in Servers : r # m => b.cl[r][t] = w.cl[r][t]

LEMMA FailedInv ==
    ASSUME NEW w, WInv(w), NEW m \in Servers, w.srv[m].child = None, NEW y, Calm(w.srv[m], y), SameRole(w.srv[m], y), NEW off \in Nat,
           NEW S, S = InState(w, m, "START"), NEW b, Before(w, b, m, y, S, off), NEW w2, w2 = freeSlaves(Send(b, S, <<Err>>), m, S)
    PROVE  WInv(w2) /\ w2.srv[m] = y
  <1>1. w \in Worlds /\ w.srv[m] \in Server /\ MasterOK(m, w.srv[m]) /\ b \in Worlds /\ b.srv[m] = y
    BY WorldTypes DEF WInv, Before
  <1>2. y \in Server
    BY ONLY <1>1, m \in Servers, WorldTypes
  <1>3. /\ w2 \in Worlds /\ w2.srv = b.srv
        /\ \A t \in Servers : w2.conn[t] = IF t \in S THEN Failed(b.conn[t]) ELSE b.conn[t]
        /\ \A t \in Servers : w2.cl[m][t] = IF t \in S THEN None ELSE b.cl[m][t]
        /\ \A r \in Servers, t \in Servers : r # m => w2.cl[r][t] = b.cl[r][t]
    BY ONLY <1>1, m \in Servers, w2 = freeSlaves(Send(b, S, <<Err>>), m, S), FailedWorld
  <1>4. PICK C : C = w2.cl[m]
    OBVIOUS
  <1>5. PICK K : K = w2.conn
    OBVIOUS
  <1>6. ManyWorld(w, w2, m, y, C, K)
    BY ONLY <1>3, <1>4, <1>5, m \in Servers, Before(w, b, m, y, S, off) DEF ManyWorld, Before
  <1>7. S \in SUBSET SlavesOf(w, m)
    BY DEF InState
  <1>8. Touched(w, C, K, m, y, S)
    <2>1. ASSUME NEW t \in Servers, t \notin S
          PROVE  C[t] = w.cl[m][t] /\ K[t] = w.conn[t] /\ (C[t] # None /\ C[t].state = "END" => y.child = w.srv[m].child)
      <3>1. C[t] = w.cl[m][t] /\ K[t] = w.conn[t]
        BY ONLY <1>3, <1>4, <1>5, <2>1, t \in Servers, Before(w, b, m, y, S, off) DEF Before
      <3>2. w.cl[m][t] # None => w.cl[m][t].state # "END"
        BY ONLY WInv(w), m \in Servers, t \in Servers, w.srv[m].child = None, NoChild
      <3> QED BY ONLY <3>1, <3>2
    <2>2. ASSUME NEW t \in Servers, t \in S
          PROVE  K[t] # None /\ K[t].to = w.conn[t].to /\ PairOK(MV(y), SV(w.srv[t]), C[t], K[t])
      <3>1. w.cl[m][t] # None /\ w.cl[m][t].state = "START"
        BY <2>2 DEF InState, SlavesOf
      <3>2. w.conn[t] # None /\ w.srv[t].masterhost = m
        BY <3>1, NotConnected DEF WInv, SlaveOK
      <3>3. PICK n, x, k, c, V, z : LinkOf(w, t, n, x, k, c, V, z)
        BY <3>2, LinkFacts
      <3>4. /\ k = w.conn[t] /\ k \in Conns /\ k # None /\ c = w.cl[m][t] /\ c # None /\ IsStart(c) /\ z = SV(w.srv[t])
            /\ PairOK(MV(w.srv[m]), z, c, k) /\ STyped(z, k)
        BY ONLY <3>1, <3>2, <3>3 DEF LinkOf, IsStart
      <3>5. Waits(z, c, k) /\ CachedOK(MV(w.srv[m]), z)
        BY ONLY <3>4, PairWaiting
      <3>6. CachedOK(MV(y), z)
        <4>1. Keeps(MV(w.srv[m]), MV(y))
          BY ONLY <1>1, <1>2, Calm(w.srv[m], y), CalmKeeps DEF MasterOK
        <4>2. z.cached \in Masters \cup {None} /\ z.data \in Data
          BY ONLY <3>4 DEF STyped
        <4>3. <<>> \in Seq(Units)
          OBVIOUS
        <4> QED BY ONLY <3>5, <4>1, <4>2, <4>3 DEF Keeps, CachedOK
      <3>7. PICK r \in RunIds : r = w.srv[m].runid
        BY <1>1 DEF Server
      <3>8. PICK j : j = K[t]
        OBVIOUS
      <3>9. j = Failed(k) \/ j = Failed(Told(c, k, r, off))
        BY ONLY <1>3, <1>5, <2>2, <3>4, <3>7, <3>8, t \in Servers, Before(w, b, m, y, S, off) DEF Before
      <3>10. PICK Y : Y = MV(y)
        OBVIOUS
      <3>11. PairOK(Y, z, None, j) /\ j # None /\ j.to = k.to
        BY ONLY <3>5, <3>6, <3>9, <3>10, r \in RunIds, off \in Nat, FailedPair
      <3>12. C[t] = None
        BY ONLY <1>3, <1>4, <2>2, t \in Servers
      <3> QED BY ONLY <3>4, <3>8, <3>10, <3>11, <3>12
    <2> QED BY ONLY <2>1, <2>2 DEF Touched
  <1>9. WInv(w2)
    BY ONLY <1>6, <1>7, <1>8, WInv(w), m \in Servers, Calm(w.srv[m], y), SameRole(w.srv[m], y), ManyStep
  <1> QED BY ONLY <1>6, <1>9 DEF ManyWorld

UnforkedBgsave(w, m) == startBgsaveForReplication(w, m, FALSE)

\* startBgsaveForReplication when the fork fails.
LEMMA UnforkedInv ==
    ASSUME NEW w, WInv(w), NEW m \in Servers, w.srv[m].backlog # None, w.srv[m].child = None, NEW w2, w2 = UnforkedBgsave(w, m)
    PROVE  WInv(w2) /\ w2.srv[m].backlog # None
  <1>1. w \in Worlds /\ w.srv[m] \in Server /\ BacklogOK(w.srv[m])
    BY WorldTypes DEF WInv, MasterOK
  <1>2. PICK v : v = w.srv[m]
    OBVIOUS
  <1>3. PICK off \in Nat : off = v.offset
    BY <1>1, <1>2 DEF BacklogOK
  <1>4. off = getPsyncInitialOffset(w.srv[m])
    BY <1>2, <1>3 DEF getPsyncInitialOffset
  <1>5. PICK S : S = InState(w, m, "START")
    OBVIOUS
  <1>6. S \in SUBSET SlavesOf(w, m)
    BY <1>5 DEF InState
  <1>7. PICK told : told = replicationSetupSlaveForFullResync(w, m, S, off)
    OBVIOUS
  <1>8. PICK b : b = IF left.diskless THEN told ELSE w
    OBVIOUS
  <1>9. w2 = freeSlaves(Send(b, S, <<Err>>), m, S)
    BY ONLY <1>4, <1>5, <1>7, <1>8, w2 = UnforkedBgsave(w, m) DEF UnforkedBgsave, startBgsaveForReplication, Err
  <1>10. CASE left.diskless
    <2>1. PICK y : y = [v EXCEPT !.seldb = -1]
      OBVIOUS
    <2>2. w \in Worlds
      BY ONLY <1>1
    <2>3. PICK C : C = SetupClients(w, m, S, off)
      OBVIOUS
    <2>4. PICK K : K = Sending(w, Untold(w, m, S), <<Full(w.srv[m].runid, off)>>)
      OBVIOUS
    <2>5. y \in Server /\ told = Started(w, m, y, S, off)
      BY ONLY <1>2, <1>6, <1>7, <2>1, <2>2, m \in Servers, off \in Nat, SetupStarted
    <2>6. ManyWorld(w, told, m, y, C, K)
      BY ONLY <1>6, <2>2, <2>3, <2>4, <2>5, m \in Servers, off \in Nat, StartedWorld
    <2>7. \A t \in Servers : /\ t \notin S => C[t] = w.cl[m][t] /\ K[t] = w.conn[t]
                             /\ t \in S => K[t] = Told(w.cl[m][t], w.conn[t], w.srv[m].runid, off)
      BY ONLY <2>3, <2>4 DEF SetupClients, Sending, Untold, Told
    <2>8. S \subseteq Servers
      BY <1>6 DEF SlavesOf
    <2>9. b = told
      BY ONLY <1>8, <1>10
    <2>10. Before(w, b, m, y, S, off)
      BY ONLY <2>6, <2>7, <2>8, <2>9 DEF ManyWorld, Before
    <2>11. Calm(w.srv[m], y) /\ SameRole(w.srv[m], y) /\ y.backlog = w.srv[m].backlog
      BY ONLY <1>1, <1>2, <2>1 DEF Server, Calm, SameRole
    <2>12. WInv(w2) /\ w2.srv[m] = y
      BY ONLY <1>5, <1>9, <2>10, <2>11, WInv(w), m \in Servers, w.srv[m].child = None, off \in Nat, FailedInv
    <2> QED BY ONLY <2>11, <2>12, w.srv[m].backlog # None
  <1>11. CASE ~left.diskless
    <2>1. b = w
      BY ONLY <1>8, <1>11
    <2>2. PICK y : y = w.srv[m]
      OBVIOUS
    <2>3. Before(w, b, m, y, S, off)
      BY ONLY <1>1, <2>1, <2>2 DEF Before
    <2>4. Calm(w.srv[m], y) /\ SameRole(w.srv[m], y)
      BY ONLY <2>2 DEF Calm, SameRole
    <2>5. WInv(w2) /\ w2.srv[m] = y
      BY ONLY <1>5, <1>9, <2>3, <2>4, WInv(w), m \in Servers, w.srv[m].child = None, off \in Nat, FailedInv
    <2> QED BY ONLY <2>2, <2>5, w.srv[m].backlog # None
  <1> QED BY ONLY <1>10, <1>11

Hearing(w, s) == [w EXCEPT !.conn[s].req = None]
Joining(e, m, s, req) == [e EXCEPT !.cl[m][s] = NewClient(req.cmd = "SYNC")]
Joined(w, w2, s, m) ==
  \E d, j : LinkSet(w, w2, s, w.srv[s], m, d, j) /\ Waits(SV(w.srv[s]), d, j) /\ j.to = m /\ d # None

\* The slave waits for a save.
LEMMA JoinLink ==
    ASSUME NEW w, WInv(w), NEW s \in Servers, w.conn[s] # None, NEW req, req = w.conn[s].req, req # None, w.conn[s].open, NEW m, m = w.conn[s].to,
           NEW e, e = Hearing(w, s),
           NEW w2, w2 = Joining(e, m, s, req)
    PROVE  Joined(w, w2, s, m)
  <1>0. e = [w EXCEPT !.conn[s].req = None]
    BY DEF Hearing
  <1>1. PICK n, x, k, c, v, z : LinkOf(w, s, n, x, k, c, v, z)
    BY LinkFacts
  <1>2. w \in Worlds /\ x \in Server /\ k \in Conns /\ k # None /\ m \in Servers /\ m # s /\ m # None
    BY ONLY <1>1, m = w.conn[s].to DEF LinkOf
  <1>a. x = w.srv[s] /\ k = w.conn[s] /\ k.to = m /\ m = x.masterhost
    BY ONLY <1>1, m = w.conn[s].to DEF LinkOf
  <1>b. c = w.cl[m][s]
    BY ONLY <1>1, m = w.conn[s].to DEF LinkOf
  <1>c. v = MV(w.srv[m]) /\ z = SV(x)
    BY ONLY <1>1, m = w.conn[s].to DEF LinkOf
  <1>d. PairOK(v, z, c, k) /\ MTyped(v) /\ STyped(z, k) /\ CachedOK(v, z)
    BY ONLY <1>1 DEF LinkOf
  <1>e. k.req = req /\ k.req # None /\ k.open
    BY ONLY <1>a, req = w.conn[s].req, req # None, w.conn[s].open
  <1>3. Asks(z, c, k)
    BY ONLY <1>2, <1>d, <1>e, Asked
  <1>4. PICK k1 : k1 = Heard(k)
    OBVIOUS
  <1>5. k1 \in Conns /\ k1 # None /\ k1.req = None /\ k1.to = k.to /\ k1.wire = k.wire /\ k1.open = k.open
    BY ONLY <1>2, <1>4, HeardType
  <1>6. LinkSet(w, e, s, x, m, c, k1)
    BY ONLY <1>2, <1>a, <1>b, <1>4, s \in Servers, <1>0, HeardWorld
  <1>7. e \in Worlds /\ e.srv[s] = x /\ e.cl[m][s] = c /\ e.conn[s] = k1
    BY ONLY <1>2, <1>6, s \in Servers, LinkSetFacts
  <1>8. PICK p \in BOOLEAN : p <=> req.cmd = "SYNC"
    OBVIOUS
  <1>9. PICK d : d = NewClient(req.cmd = "SYNC")
    OBVIOUS
  <1>10. d \in Clients /\ d.state = "START" /\ d.out = <<>> /\ ~d.unsound /\ ~d.ackwait /\ (d.pre <=> req.cmd = "SYNC")
    <2>1. <<>> \in Seq(Units)
      OBVIOUS
    <2>2. (req.cmd = "SYNC") \in BOOLEAN
      OBVIOUS
    <2>3. -1 \in Int /\ 0 \in Int
      OBVIOUS
    <2> QED BY ONLY <1>9, <2>1, <2>2, <2>3 DEF NewClient, Clients
  <1>11. d # None /\ d \in Clients \cup {None}
    BY <1>10, NoneAssumption
  <1>12. LinkSet(e, w2, s, x, m, d, k1)
    <2>1. w2 = [e EXCEPT !.cl[m][s] = d]
      BY ONLY <1>9, w2 = Joining(e, m, s, req) DEF Joining
    <2> QED BY ONLY <1>2, <1>7, <1>11, <2>1, s \in Servers, ClientSet
  <1>13. LinkSet(w, w2, s, x, m, d, k1)
    BY ONLY <1>2, <1>6, <1>12, s \in Servers, LinkSetTwice
  <1>14. Waits(z, d, k1)
    <2>1. z.repl_state = "RECEIVE_PSYNC" /\ k.req = PsyncReq(z.cached) => req.cmd # "SYNC"
      BY ONLY <1>e DEF PsyncReq
    <2>2. k.req = [cmd |-> "SYNC"] => req.cmd = "SYNC"
      BY ONLY <1>e
    <2> QED BY ONLY <1>2, <1>d, <1>e, <1>3, <1>5, <1>10, <2>1, <2>2 DEF Asks, Waits
  <1>15. LinkSet(w, w2, s, w.srv[s], m, d, k1) /\ Waits(SV(w.srv[s]), d, k1) /\ k1.to = m /\ d # None
    BY ONLY <1>a, <1>c, <1>5, <1>11, <1>13, <1>14
  <1> QED BY ONLY <1>15 DEF Joined

LEMMA JoinInv ==
    ASSUME NEW w, WInv(w), NEW s \in Servers, w.conn[s] # None, NEW m, m = w.conn[s].to, w.srv[m].backlog # None,
           NEW w2, NEW d, NEW j, LinkSet(w, w2, s, w.srv[s], m, d, j), Waits(SV(w.srv[s]), d, j), j.to = m, d # None
    PROVE  WInv(w2) /\ w2.srv = w.srv /\ w2.cl[m][s] # None /\ w2.cl[m][s].state = "START"
  <1>1. PICK n, x, k, c, v, z : LinkOf(w, s, n, x, k, c, v, z)
    BY LinkFacts
  <1>2. /\ w \in Worlds /\ x = w.srv[s] /\ k = w.conn[s] /\ k # None /\ k.to = m
        /\ m \in Servers /\ m # s /\ m # None /\ m = x.masterhost /\ v = MV(w.srv[m]) /\ z = SV(x) /\ CachedOK(v, z)
    BY ONLY <1>1, m = w.conn[s].to DEF LinkOf
  <1>3. v.backlog # None
    BY ONLY <1>2, w.srv[m].backlog # None DEF MV
  <1>4. Waits(z, d, j)
    BY ONLY <1>2, Waits(SV(w.srv[s]), d, j)
  <1>5. PairOK(v, z, d, j)
    BY ONLY <1>2, <1>3, <1>4, WaitingPair
  <1>6. j # None /\ d.state = "START"
    BY <1>4, NoneAssumption DEF Waits
  <1>7. LinkSet(w, w2, s, x, m, d, j) /\ PairOK(MV(w.srv[m]), SV(x), d, j) /\ j.to = k.to /\ m = w.srv[s].masterhost
    BY ONLY <1>2, <1>5, LinkSet(w, w2, s, w.srv[s], m, d, j), j.to = m
  <1>8. WInv(w2)
    BY ONLY WInv(w), s \in Servers, <1>2, <1>6, <1>7, LinkTurn
  <1>9. w2.srv = w.srv
    <2>1. w2 \in Worlds /\ \A t \in Servers : w2.srv[t] = w.srv[t]
      BY ONLY <1>2, <1>7 DEF LinkSet
    <2>2. w2.srv \in [Servers -> Server] /\ w.srv \in [Servers -> Server]
      BY ONLY <1>2, <2>1, WorldTypes
    <2> QED BY ONLY <2>1, <2>2
  <1>10. w2.cl[m][s] = d
    BY ONLY <1>7 DEF LinkSet
  <1> QED BY ONLY <1>6, <1>8, <1>9, <1>10, d # None

Copied(w, m, s, out) == [w EXCEPT !.cl[m][s].out = out]
SetupOne(w, m, s, off) == replicationSetupSlaveForFullResync(w, m, {s}, off)

\* A slave joins the save another one waits for.
LEMMA CopyInv ==
    ASSUME NEW w, WInv(w), NEW m \in Servers, NEW s \in Servers, w.cl[m][s] # None, w.cl[m][s].state = "START", w.srv[m].child # None,
           NEW a \in InState(w, m, "END"), NEW out, out = w.cl[m][a].out, NEW off, off = w.cl[m][a].init,
           NEW e, e = Copied(w, m, s, out), NEW w2, w2 = SetupOne(e, m, s, off)
    PROVE  WInv(w2) /\ w2.srv[m].backlog # None
  <1>1. w.conn[s] # None /\ w.srv[s].masterhost = m
    BY NotConnected DEF WInv, SlaveOK
  <1>2. PICK n, x, k, c, v, z : LinkOf(w, s, n, x, k, c, v, z)
    BY <1>1, LinkFacts
  <1>3. /\ w \in Worlds /\ x = w.srv[s] /\ k = w.conn[s] /\ k \in Conns /\ k # None /\ c = w.cl[m][s] /\ c # None /\ IsStart(c)
        /\ v = MV(w.srv[m]) /\ z = SV(w.srv[s]) /\ PairOK(v, z, c, k) /\ STyped(z, k) /\ MTyped(v) /\ CachedOK(v, z)
    BY ONLY <1>1, <1>2, w.cl[m][s] # None, w.cl[m][s].state = "START" DEF LinkOf, IsStart
  <1>4. Waits(z, c, k)
    BY ONLY <1>3, PairWaiting
  <1>5. c \in Clients /\ c.out = <<>> /\ c.pre \in BOOLEAN
    BY ONLY <1>4 DEF Waits, Clients
  <1>6. a \in Servers /\ w.cl[m][a] # None /\ w.cl[m][a].state = "END" /\ a # s
    BY ONLY a \in InState(w, m, "END"), w.cl[m][s].state = "START" DEF InState, SlavesOf
  <1>7. w.conn[a] # None /\ w.srv[a].masterhost = m
    BY <1>6, NotConnected DEF WInv, SlaveOK
  <1>8. ClientOK(v, w.cl[m][a]) /\ v.backlog # None
    <2>1. Pair(w, m, a)
      BY <1>6, <1>7, NoneAssumption DEF WInv, SlaveOK
    <2> QED BY ONLY <1>3, <1>6, <2>1 DEF Pair, PairOK, LinkedOK
  <1>9. PICK x0 : x0 = [data |-> v.child.data, db |-> 0, querybuf |-> <<>>]
    OBVIOUS
  <1>10. off \in Nat /\ Stream(v, off, x0, out) /\ v.child # None
    BY ONLY <1>6, <1>8, <1>9, off = w.cl[m][a].init, out = w.cl[m][a].out DEF ClientOK
  <1>11. out \in Seq(Units)
    BY ONLY <1>10 DEF Stream
  <1>12. PICK u : u = w.srv[m]
    OBVIOUS
  <1>13. u \in Server /\ BacklogOK(u) /\ u.backlog # None
    <2>1. w.srv[m] \in Server /\ MasterOK(m, w.srv[m])
      BY WorldTypes DEF WInv
    <2> QED BY ONLY <1>3, <1>8, <1>12, <2>1 DEF MasterOK, MV
  <1>14. PICK y : y = [u EXCEPT !.seldb = -1]
    OBVIOUS
  <1>15. /\ y \in Server /\ Calm(u, y) /\ SameRole(u, y) /\ y.child = u.child /\ y.runid = u.runid /\ y.backlog = u.backlog /\ y.data = u.data
         /\ y.offset = u.offset /\ y.reused = u.reused /\ y.seldb = -1
    BY ONLY <1>13, <1>14 DEF Server, Calm, SameRole
  <1>16. PICK Y : Y = MV(y)
    OBVIOUS
  <1>17. MTyped(Y) /\ Y.backlog # None /\ Y.child = v.child /\ Y.runid = u.runid
    <2>1. BacklogOK(y)
      BY ONLY <1>13, <1>15 DEF BacklogOK, HU
    <2>2. MTyped(Y)
      BY ONLY <1>15, <1>16, <2>1, ViewTyped
    <2> QED BY ONLY <1>3, <1>12, <1>13, <1>15, <1>16, <2>2 DEF MV
  <1>18. Moves(v, Y, <<>>)
    BY ONLY <1>3, <1>12, <1>13, <1>15, <1>16, StillMoves
  <1>19. Stream(Y, off, x0, out)
    <2>1. x0 \in States
      <3>1. v.child.data \in Data
        BY ONLY <1>3, <1>10 DEF MTyped, Children
      <3> QED BY ONLY <1>9, <3>1, LoadedState
    <2>2. PICK E : E = <<>>
      OBVIOUS
    <2>3. off \in Int /\ Moves(v, Y, E)
      BY <1>10, <1>18, <2>2
    <2>4. Stream(Y, off, x0, out \o E)
      BY ONLY <1>10, <2>1, <2>3, StreamMoves
    <2>5. out \o E = out
      BY ONLY <1>11, <2>2, EmptyConcat
    <2> QED BY ONLY <2>4, <2>5
  <1>20. CachedOK(Y, z)
    <2>1. Keeps(v, Y)
      BY ONLY <1>18, MovesKeeps
    <2>2. z.cached \in Masters \cup {None} /\ z.data \in Data
      BY ONLY <1>3 DEF STyped
    <2>3. <<>> \in Seq(Units)
      OBVIOUS
    <2> QED BY ONLY <1>3, <2>1, <2>2, <2>3 DEF Keeps, CachedOK
  <1>21. PICK c1 : c1 = [c EXCEPT !.out = out]
    OBVIOUS
  <1>22. c1 \in Clients /\ c1.pre = c.pre
    BY ONLY <1>5, <1>11, <1>21 DEF Clients
  <1>23. c1 # None /\ c1 \in Clients \cup {None}
    BY <1>22, NoneAssumption
  <1>24. e = [w EXCEPT !.cl[m][s] = c1]
    BY ONLY <1>3, <1>21, e = Copied(w, m, s, out) DEF Copied
  <1>25. LinkSet(w, e, s, x, m, c1, k)
    BY ONLY <1>3, <1>23, <1>24, s \in Servers, m \in Servers, ClientSet
  <1>26. e \in Worlds /\ e.cl[m][s] = c1 /\ e.conn[s] = k /\ e.srv[m] = u
    BY ONLY <1>3, <1>12, <1>25, m \in Servers DEF LinkSet
  <1>27. {s} \in SUBSET SlavesOf(e, m)
    BY ONLY <1>23, <1>26, s \in Servers DEF SlavesOf
  <1>28. PICK S \in SUBSET SlavesOf(e, m) : S = {s}
    BY ONLY <1>27
  <1>29. w2 = Started(e, m, y, S, off)
    <2>1. w2 = replicationSetupSlaveForFullResync(e, m, S, off) /\ u = e.srv[m] /\ off \in Nat
      BY <1>10, <1>26, <1>28 DEF SetupOne
    <2> QED BY ONLY <1>14, <1>26, <2>1, S \in SUBSET SlavesOf(e, m), m \in Servers, SetupStarted
  <1>30. PICK C : C = SetupClients(e, m, S, off)
    OBVIOUS
  <1>31. PICK K : K = Sending(e, Untold(e, m, S), <<Full(e.srv[m].runid, off)>>)
    OBVIOUS
  <1>32. ManyWorld(e, w2, m, y, C, K)
    BY ONLY <1>10, <1>15, <1>26, <1>29, <1>30, <1>31, S \in SUBSET SlavesOf(e, m), m \in Servers, StartedWorld
  <1>33. ManyWorld(w, w2, m, y, C, K)
    <2>1. /\ \A t \in Servers : e.srv[t] = w.srv[t]
          /\ \A r, t \in Servers : r # m => e.cl[r][t] = w.cl[r][t]
      BY ONLY <1>3, <1>25 DEF LinkSet
    <2> QED BY ONLY <1>32, <2>1 DEF ManyWorld
  <1>34. PICK d : d = [c EXCEPT !.state = "END", !.init = off, !.out = out]
    OBVIOUS
  <1>35. PICK j : j = IF c.pre THEN k ELSE Sent(k, <<Full(Y.runid, off)>>)
    OBVIOUS
  <1>36. C[s] = d /\ K[s] = j
    <2>1. C[s] = Setup(c1, off)
      BY ONLY <1>26, <1>28, <1>30, s \in Servers DEF SetupClients
    <2>2. Setup(c1, off) = d
      BY ONLY <1>5, <1>21, <1>34 DEF Setup, Clients
    <2>3. K[s] = IF c1.pre THEN k ELSE Sent(k, <<Full(u.runid, off)>>)
      BY ONLY <1>26, <1>28, <1>31, s \in Servers DEF Sending, Untold
    <2> QED BY ONLY <1>17, <1>22, <1>35, <2>1, <2>2, <2>3
  <1>37. PairOK(Y, z, d, j)
    <2>1. Y.child # None /\ Stream(Y, off, [data |-> Y.child.data, db |-> 0, querybuf |-> <<>>], out)
      BY ONLY <1>9, <1>10, <1>17, <1>19
    <2> QED BY ONLY <1>3, <1>4, <1>10, <1>11, <1>17, <1>20, <1>34, <1>35, <2>1, PairSetup
  <1>38. j # None /\ j.to = k.to
    <2>1. u.runid \in RunIds
      BY ONLY <1>13 DEF Server
    <2>2. <<Full(Y.runid, off)>> \in Seq(Msgs)
      BY ONLY <1>10, <1>17, <2>1, FullIsMsg
    <2>3. PICK E \in Seq(Msgs) : E = <<Full(Y.runid, off)>>
      BY ONLY <2>2
    <2>4. k \in Conns \cup {None}
      BY ONLY <1>3
    <2>5. Sent(k, E) # None /\ Sent(k, E).to = k.to
      BY ONLY <1>3, <2>4, E \in Seq(Msgs), SentType
    <2> QED BY ONLY <1>3, <1>35, <2>3, <2>5
  <1>39. Touched(w, C, K, m, y, S)
    <2>1. ASSUME NEW t \in Servers, t \notin S
          PROVE  C[t] = w.cl[m][t] /\ K[t] = w.conn[t] /\ (C[t] # None /\ C[t].state = "END" => y.child = w.srv[m].child)
      <3>1. t # s
        BY <1>28, <2>1
      <3>2. e.cl[m][t] = w.cl[m][t] /\ e.conn[t] = w.conn[t]
        BY ONLY <1>25, <3>1, t \in Servers, m \in Servers DEF LinkSet
      <3>3. C[t] = e.cl[m][t] /\ K[t] = e.conn[t]
        BY ONLY <1>30, <1>31, <2>1, t \in Servers DEF SetupClients, Sending, Untold
      <3> QED BY ONLY <1>12, <1>15, <3>2, <3>3
    <2>2. ASSUME NEW t \in Servers, t \in S
          PROVE  K[t] # None /\ K[t].to = w.conn[t].to /\ PairOK(MV(y), SV(w.srv[t]), C[t], K[t])
      <3>1. t = s
        BY <1>28, <2>2
      <3> QED BY ONLY <1>3, <1>16, <1>36, <1>37, <1>38, <3>1
    <2> QED BY ONLY <2>1, <2>2 DEF Touched
  <1>40. S \in SUBSET SlavesOf(w, m) /\ Calm(w.srv[m], y) /\ SameRole(w.srv[m], y)
    <2>1. s \in SlavesOf(w, m)
      BY DEF SlavesOf
    <2> QED BY ONLY <1>12, <1>15, <1>28, <2>1
  <1>41. WInv(w2)
    BY ONLY <1>33, <1>39, <1>40, WInv(w), m \in Servers, ManyStep
  <1> QED BY ONLY <1>13, <1>15, <1>33, <1>41 DEF ManyWorld

\* What happens to the slave that waits, when the server has a backlog.
LEMMA ChildInv ==
    ASSUME NEW w, WInv(w), NEW m \in Servers, NEW s \in Servers, w.cl[m][s] # None, w.cl[m][s].state = "START", w.srv[m].backlog # None,
           NEW forked \in BOOLEAN, NEW w2, w2 = SyncWithChild(w, m, s, forked)
    PROVE  WInv(w2) /\ w2.srv[m].backlog # None
  <1>1. CASE w.srv[m].child = None /\ ~left.diskless
    <2>1. w2 = startBgsaveForReplication(w, m, forked)
      BY ONLY <1>1, w2 = SyncWithChild(w, m, s, forked) DEF SyncWithChild
    <2>2. CASE forked
      <3>1. w2 = startBgsaveForReplication(w, m, TRUE)
        BY ONLY <2>1, <2>2 DEF startBgsaveForReplication
      <3> QED BY ONLY <1>1, <3>1, WInv(w), m \in Servers, w.srv[m].backlog # None, ForkInv
    <2>3. CASE ~forked
      <3>1. w2 = UnforkedBgsave(w, m)
        BY ONLY <2>1, <2>3 DEF UnforkedBgsave, startBgsaveForReplication
      <3> QED BY ONLY <1>1, <3>1, WInv(w), m \in Servers, w.srv[m].backlog # None, UnforkedInv
    <2> QED BY <2>2, <2>3
  <1>2. CASE w.srv[m].child # None /\ w.srv[m].child.type = "DISK" /\ InState(w, m, "END") # {}
    <2>1. PICK a : a = CHOOSE b \in InState(w, m, "END") : TRUE
      OBVIOUS
    <2>2. a \in InState(w, m, "END")
      BY <1>2, <2>1
    <2>3. PICK out : out = w.cl[m][a].out
      OBVIOUS
    <2>4. PICK off : off = w.cl[m][a].init
      OBVIOUS
    <2>5. PICK e : e = Copied(w, m, s, out)
      OBVIOUS
    <2>6. w2 = SetupOne(e, m, s, off)
      BY ONLY <1>2, <2>1, <2>3, <2>4, <2>5, w2 = SyncWithChild(w, m, s, forked) DEF SyncWithChild, Copied, SetupOne
    <2>7. w.srv[m].child # None
      BY ONLY <1>2
    <2> QED BY ONLY <2>7, <2>2, <2>3, <2>4, <2>5, <2>6, WInv(w), m \in Servers, s \in Servers, w.cl[m][s] # None, w.cl[m][s].state = "START", CopyInv
  <1>3. CASE \/ w.srv[m].child # None /\ ~(w.srv[m].child.type = "DISK" /\ InState(w, m, "END") # {})
             \/ w.srv[m].child = None /\ left.diskless
    <2>1. w2 = w
      BY ONLY <1>3, w2 = SyncWithChild(w, m, s, forked) DEF SyncWithChild
    <2> QED BY ONLY <2>1, WInv(w), w.srv[m].backlog # None
  <1> QED BY ONLY <1>1, <1>2, <1>3

\* A new backlog.
LEMMA NewBacklog ==
    ASSUME NEW m, NEW v \in Server, MasterOK(m, v), v.repl_state # "TRANSFER", v.backlog = None, NEW y, y = createReplicationBacklog(v)
    PROVE  /\ y \in Server /\ y.backlog # None /\ y.offset = v.offset + 1 /\ y.child = v.child /\ y.runid = v.runid /\ y.repl_state = v.repl_state
           /\ SameRole(v, y) /\ MasterOK(m, y) /\ Keeps(MV(v), MV(y))
  <1>1. PICK o \in Nat : o = v.offset + 2
    BY DEF Server, Offsets
  <1>2. v.offset \in Int /\ v.offset + 1 \in Nat /\ v.offset + 1 = o - 1 /\ v.runid \in RunIds
    BY <1>1 DEF Server, Offsets
  <1>3. PICK b : b = [buf |-> [i \in 0..(repl_backlog_size - 1) |-> None], idx |-> 0, histlen |-> 0, off |-> o]
    OBVIOUS
  <1>4. b \in Backlogs
    <2>1. [i \in 0..(repl_backlog_size - 1) |-> None] \in [0..(repl_backlog_size - 1) -> Units \cup {None}]
      OBVIOUS
    <2>2. 0 \in 0..(repl_backlog_size - 1) /\ 0 \in 0..repl_backlog_size
      BY SizesAssumption
    <2> QED BY ONLY <1>3, <2>1, <2>2, o \in Nat DEF Backlogs
  <1>5. b # None /\ b.off = o /\ b.histlen = 0
    BY <1>3, <1>4, NoneAssumption
  <1>6. y = [v EXCEPT !.offset = v.offset + 1, !.backlog = b]
    BY ONLY <1>1, <1>3, y = createReplicationBacklog(v) DEF createReplicationBacklog
  <1>7. v.offset + 1 \in Offsets
    BY <1>2 DEF Offsets
  <1>8. PICK v1 : v1 = [v EXCEPT !.offset = v.offset + 1]
    OBVIOUS
  <1>9. v1 \in Server
    BY ONLY <1>7, <1>8, v \in Server DEF Server
  <1>10. y = [v1 EXCEPT !.backlog = b]
    BY ONLY <1>6, <1>8, v \in Server DEF Server
  <1>11. y \in Server
    BY ONLY <1>4, <1>9, <1>10 DEF Server
  <1>12. /\ y.backlog = b /\ y.offset = v.offset + 1 /\ y.child = v.child /\ y.runid = v.runid /\ y.repl_state = v.repl_state /\ SameRole(v, y)
         /\ y.reused = v.reused
    BY ONLY <1>6, v \in Server DEF Server, SameRole
  <1>13. BacklogOK(y)
    BY ONLY <1>2, <1>4, <1>5, <1>12, o \in Nat DEF BacklogOK
  <1>14. MasterOK(m, y)
    BY ONLY <1>12, <1>13, MasterOK(m, v), v.repl_state # "TRANSFER" DEF MasterOK
  <1>15. MTyped(MV(v)) /\ MTyped(MV(y))
    BY ONLY <1>11, <1>13, v \in Server, v.backlog = None, ViewTyped
  <1>16. Severs(MV(v), MV(y))
    BY ONLY <1>2, <1>5, <1>12, o \in Nat DEF Severs, MV
  <1>17. Keeps(MV(v), MV(y))
    BY ONLY <1>15, <1>16, SeversKeeps
  <1> QED BY ONLY <1>5, <1>11, <1>12, <1>14, <1>17

LEMMA CreateInv ==
    ASSUME NEW w, WInv(w), NEW m \in Servers, NEW v, v = w.srv[m], v.backlog = None, v.repl_state # "TRANSFER", NEW y, y = createReplicationBacklog(v),
           NEW w2, w2 = [w EXCEPT !.srv[m] = y]
    PROVE  /\ WInv(w2) /\ SrvSet(w, w2, m, y) /\ y \in Server /\ y.backlog # None /\ y.offset = v.offset + 1 /\ y.child = v.child
           /\ y.runid = v.runid
  <1>1. w \in Worlds /\ v \in Server /\ MasterOK(m, v)
    BY WorldTypes DEF WInv
  <1>2. /\ y \in Server /\ y.backlog # None /\ y.offset = v.offset + 1 /\ y.child = v.child /\ y.runid = v.runid
        /\ SameRole(v, y) /\ MasterOK(m, y) /\ Keeps(MV(v), MV(y))
    BY ONLY <1>1, v.backlog = None, v.repl_state # "TRANSFER", y = createReplicationBacklog(v), NewBacklog
  <1>3. SrvSet(w, w2, m, y)
    BY ONLY <1>1, <1>2, m \in Servers, w2 = [w EXCEPT !.srv[m] = y], WorldSrv
  <1>4. SlavesOf(w, m) = {}
    BY NoSlaves
  <1>5. SameRole(w.srv[m], y) /\ Keeps(MV(w.srv[m]), MV(y))
    BY ONLY <1>2, v = w.srv[m]
  <1>6. WInv(w2)
    BY ONLY <1>2, <1>3, <1>4, <1>5, WInv(w), m \in Servers, LoneStep
  <1> QED BY ONLY <1>2, <1>3, <1>6

\* The backlog is created after the slave was told.
Finished(W, m, s) ==
  IF Cardinality(SlavesOf(W, m)) = 1 /\ W.cl[m][s] # None /\ W.srv[m].backlog = None
  THEN [W EXCEPT !.srv[m] = createReplicationBacklog(@)] ELSE W

LEMMA FinishedFirst ==
    ASSUME NEW W, NEW m, NEW s, SlavesOf(W, m) = {s}, W.cl[m][s] # None, NEW v, v = W.srv[m], v.backlog = None
    PROVE  Finished(W, m, s) = [W EXCEPT !.srv[m] = createReplicationBacklog(v)]
  <1>1. Cardinality({s}) = 1
    BY FS_Singleton
  <1> QED BY <1>1 DEF Finished

LEMMA SyncFullParts ==
    ASSUME NEW e, NEW m, NEW s, NEW req, NEW forked
    PROVE  syncFull(e, m, s, req, forked) = Finished(SyncWithChild([e EXCEPT !.cl[m][s] = NewClient(req.cmd = "SYNC")], m, s, forked), m, s)
  BY DEF syncFull, Finished

\* The first slave: w1 is the world with it, wb the one in which the backlog is there already.
First(w, w1, m, s, v, d, j) ==
  /\ WInv(w) /\ m \in Servers /\ s \in Servers /\ m # s /\ v = w.srv[m] /\ v \in Server /\ MasterOK(m, v) /\ v.backlog = None
  /\ v.repl_state # "TRANSFER" /\ w.conn[s] # None /\ w.conn[s].to = m /\ LinkSet(w, w1, s, w.srv[s], m, d, j)
  /\ Waits(SV(w.srv[s]), d, j) /\ j.to = m /\ d # None

LEMMA FirstFacts ==
    ASSUME NEW w, NEW w1, NEW m, NEW s, NEW v, NEW d, NEW j, First(w, w1, m, s, v, d, j)
    PROVE  /\ w1 \in Worlds /\ w1.srv = w.srv /\ SlavesOf(w1, m) = {s} /\ InState(w1, m, "END") = {} /\ InState(w1, m, "START") = {s}
           /\ w1.cl[m][s] = d /\ d # None /\ d \in Clients /\ w1.conn[s] = j /\ j \in Conns /\ w1.srv[m] = v
  <1>1. w \in Worlds /\ WInv(w) /\ m \in Servers /\ s \in Servers /\ v = w.srv[m]
    BY DEF First, WInv
  <1>2. w1 \in Worlds /\ w1.cl[m][s] = d /\ w1.conn[s] = j
    BY DEF First, LinkSet
  <1>3. w1.srv = w.srv
    <2>1. \A t \in Servers : w1.srv[t] = w.srv[t]
      BY DEF First, LinkSet
    <2>2. w1.srv \in [Servers -> Server] /\ w.srv \in [Servers -> Server]
      BY ONLY <1>1, <1>2, WorldTypes
    <2> QED BY ONLY <2>1, <2>2
  <1>4. SlavesOf(w, m) = {}
    BY <1>1, NoSlaves DEF First
  <1>5. \A t \in Servers : t # s => w1.cl[m][t] = None
    <2>1. \A t \in Servers : t # s => w1.cl[m][t] = w.cl[m][t]
      BY <1>1 DEF First, LinkSet
    <2> QED BY ONLY <1>4, <2>1 DEF SlavesOf
  <1>6. d # None /\ d.state = "START" /\ d \in Clients /\ j \in Conns
    BY DEF First, Waits
  <1>7. SlavesOf(w1, m) = {s}
    BY ONLY <1>1, <1>2, <1>5, <1>6 DEF SlavesOf
  <1>8. InState(w1, m, "END") = {} /\ InState(w1, m, "START") = {s}
    BY ONLY <1>2, <1>6, <1>7 DEF InState
  <1> QED BY ONLY <1>1, <1>2, <1>3, <1>6, <1>7, <1>8

LEMMA FirstBacklog ==
    ASSUME NEW w, NEW w1, NEW m, NEW s, NEW v, NEW d, NEW j, First(w, w1, m, s, v, d, j), NEW y, y = createReplicationBacklog(v),
           NEW wb, wb = [w1 EXCEPT !.srv[m] = y]
    PROVE  WInv(wb) /\ SrvSet(w1, wb, m, y) /\ y \in Server /\ y.backlog # None /\ y.offset = v.offset + 1 /\ y.child = v.child /\ y.runid = v.runid
  <1>1. /\ WInv(w) /\ m \in Servers /\ s \in Servers /\ m # s /\ v = w.srv[m] /\ v.backlog = None /\ v.repl_state # "TRANSFER"
        /\ w.conn[s] # None /\ w.conn[s].to = m /\ LinkSet(w, w1, s, w.srv[s], m, d, j) /\ Waits(SV(w.srv[s]), d, j) /\ j.to = m /\ d # None
    BY DEF First
  <1>2. w1 \in Worlds /\ w1.srv = w.srv
    BY FirstFacts
  <1>3. PICK u : u = [w EXCEPT !.srv[m] = y]
    OBVIOUS
  <1>4. /\ WInv(u) /\ SrvSet(w, u, m, y) /\ y \in Server /\ y.backlog # None /\ y.offset = v.offset + 1 /\ y.child = v.child
        /\ y.runid = v.runid
    BY ONLY <1>1, <1>3, y = createReplicationBacklog(v), CreateInv
  <1>5. SrvSet(w1, wb, m, y)
    BY ONLY <1>1, <1>2, <1>4, wb = [w1 EXCEPT !.srv[m] = y], WorldSrv
  <1>6. u.srv[s] = w.srv[s] /\ u.conn = w.conn /\ u.srv[m] = y
    BY ONLY <1>1, <1>4 DEF SrvSet
  <1>7. LinkSet(u, wb, s, u.srv[s], m, d, j)
    BY ONLY <1>1, <1>2, <1>4, <1>5, <1>6 DEF LinkSet, SrvSet
  <1>8. u.conn[s] # None /\ m = u.conn[s].to /\ u.srv[m].backlog # None /\ Waits(SV(u.srv[s]), d, j)
    BY ONLY <1>1, <1>4, <1>6
  <1>9. WInv(wb)
    BY ONLY <1>1, <1>4, <1>7, <1>8, JoinInv, ZenonT(60)
  <1> QED BY ONLY <1>4, <1>5, <1>9

\* It waits.
LEMMA FirstWaits ==
    ASSUME NEW w, NEW w1, NEW m, NEW s, NEW v, NEW d, NEW j, First(w, w1, m, s, v, d, j), NEW forked, v.child # None \/ left.diskless,
           NEW W, W = SyncWithChild(w1, m, s, forked)
    PROVE  WInv(Finished(W, m, s))
  <1>1. /\ w1 \in Worlds /\ SlavesOf(w1, m) = {s} /\ InState(w1, m, "END") = {} /\ w1.cl[m][s] = d /\ d # None /\ w1.srv[m] = v
    BY FirstFacts
  <1>2. W = w1
    BY ONLY <1>1, v.child # None \/ left.diskless, W = SyncWithChild(w1, m, s, forked) DEF SyncWithChild
  <1>3. v.backlog = None
    BY DEF First
  <1>4. PICK y : y = createReplicationBacklog(v)
    OBVIOUS
  <1>5. PICK wb : wb = [w1 EXCEPT !.srv[m] = y]
    OBVIOUS
  <1>6. WInv(wb)
    BY ONLY <1>4, <1>5, First(w, w1, m, s, v, d, j), FirstBacklog
  <1>7. Finished(W, m, s) = [w1 EXCEPT !.srv[m] = createReplicationBacklog(v)]
    BY ONLY <1>1, <1>2, <1>3, FinishedFirst
  <1> QED BY ONLY <1>4, <1>5, <1>6, <1>7

\* A save starts for it.
LEMMA FirstForks ==
    ASSUME NEW w, NEW w1, NEW m, NEW s, NEW v, NEW d, NEW j, First(w, w1, m, s, v, d, j), v.child = None,
           NEW W, W = ForkedBgsave(w1, m)
    PROVE  WInv(Finished(W, m, s))
  <1>1. /\ w1 \in Worlds /\ SlavesOf(w1, m) = {s} /\ InState(w1, m, "START") = {s} /\ w1.cl[m][s] = d /\ d # None /\ d \in Clients /\ w1.srv[m] = v
    BY FirstFacts
  <1>2. m \in Servers /\ s \in Servers /\ v \in Server /\ v.backlog = None
    BY DEF First
  <1>3. PICK off \in Nat : off = v.offset + 1
    BY <1>2 DEF Server, Offsets
  <1>4. PICK type : type = ChildType
    OBVIOUS
  <1>5. type \in {"DISK", "SOCKET"}
    BY ONLY <1>4 DEF ChildType
  <1>6. PICK S : S = InState(w1, m, "START")
    OBVIOUS
  <1>7. off = getPsyncInitialOffset(w1.srv[m])
    BY ONLY <1>1, <1>2, <1>3 DEF getPsyncInitialOffset
  <1>8. PICK f : f = Forking(v, type)
    OBVIOUS
  <1>9. W = Started(w1, m, f, S, off)
    <2>1. W = Started(w1, m, Forking(w1.srv[m], type), S, off)
      BY ONLY <1>1, <1>2, <1>4, <1>6, <1>7, off \in Nat, W = ForkedBgsave(w1, m), ForkWorld
    <2> QED BY ONLY <1>1, <1>8, <2>1
  <1>10. f \in Server /\ f.backlog = None
    BY ONLY <1>2, <1>5, <1>8, ForkingServer
  <1>11. PICK C : C = SetupClients(w1, m, S, off)
    OBVIOUS
  <1>12. PICK K : K = Sending(w1, Untold(w1, m, S), <<Full(w1.srv[m].runid, off)>>)
    OBVIOUS
  <1>13. S \in SUBSET SlavesOf(w1, m) /\ S = {s}
    BY ONLY <1>1, <1>6
  <1>14. ManyWorld(w1, W, m, f, C, K)
    BY ONLY <1>1, <1>2, <1>9, <1>10, <1>11, <1>12, <1>13, off \in Nat, StartedWorld
  <1>15. W.srv[m] = f /\ SlavesOf(W, m) = {s} /\ W.cl[m][s] # None
    <2>1. Setup(d, off) # None
      BY <1>1, SetupType, NoneAssumption
    <2>2. \A t \in Servers : C[t] = IF t = s THEN Setup(d, off) ELSE w1.cl[m][t]
      BY ONLY <1>1, <1>11, <1>13 DEF SetupClients
    <2>3. \A t \in Servers : t # s => w1.cl[m][t] = None
      BY ONLY <1>1 DEF SlavesOf
    <2>4. W.srv[m] = f /\ \A t \in Servers : W.cl[m][t] = C[t]
      BY ONLY <1>14 DEF ManyWorld
    <2> QED BY ONLY <1>2, <2>1, <2>2, <2>3, <2>4 DEF SlavesOf
  <1>16. Finished(W, m, s) = [W EXCEPT !.srv[m] = createReplicationBacklog(f)]
    BY ONLY <1>10, <1>15, FinishedFirst
  <1>17. PICK y : y = createReplicationBacklog(v)
    OBVIOUS
  <1>18. PICK wb : wb = [w1 EXCEPT !.srv[m] = y]
    OBVIOUS
  <1>19. WInv(wb) /\ SrvSet(w1, wb, m, y) /\ y \in Server /\ y.backlog # None /\ y.offset = v.offset + 1 /\ y.child = v.child /\ y.runid = v.runid
    BY ONLY <1>17, <1>18, First(w, w1, m, s, v, d, j), FirstBacklog
  <1>20. PICK z : z = Forking(y, type)
    OBVIOUS
  <1>21. createReplicationBacklog(f) = z
    BY ONLY <1>2, <1>8, <1>17, <1>20 DEF createReplicationBacklog, Forking, Server
  <1>22. wb.srv = [w1.srv EXCEPT ![m] = y] /\ wb.cl = w1.cl /\ wb.conn = w1.conn /\ wb.srv[m] = y
    BY ONLY <1>19 DEF SrvSet
  <1>23. Started(wb, m, z, S, off) = [srv |-> [w1.srv EXCEPT ![m] = z], cl |-> [w1.cl EXCEPT ![m] = C], conn |-> K]
    <2>1. [wb.srv EXCEPT ![m] = z] = [w1.srv EXCEPT ![m] = z]
      <3>1. w1.srv \in [Servers -> Server]
        BY ONLY <1>1, WorldTypes
      <3> QED BY ONLY <1>22, <3>1
    <2>2. SetupClients(wb, m, S, off) = C
      BY ONLY <1>11, <1>22 DEF SetupClients
    <2>3. Sending(wb, Untold(wb, m, S), <<Full(wb.srv[m].runid, off)>>) = K
      BY ONLY <1>1, <1>12, <1>19, <1>22 DEF Sending, Untold
    <2> QED BY ONLY <1>22, <2>1, <2>2, <2>3 DEF Started
  <1>24. Finished(W, m, s) = [srv |-> [w1.srv EXCEPT ![m] = z], cl |-> [w1.cl EXCEPT ![m] = C], conn |-> K]
    <2>1. W = [srv |-> [w1.srv EXCEPT ![m] = f], cl |-> [w1.cl EXCEPT ![m] = C], conn |-> K]
      BY ONLY <1>9, <1>11, <1>12 DEF Started
    <2>2. PICK g : g = [w1.srv EXCEPT ![m] = f]
      OBVIOUS
    <2>3. [W EXCEPT !.srv[m] = z] = [srv |-> [g EXCEPT ![m] = z], cl |-> [w1.cl EXCEPT ![m] = C], conn |-> K]
      BY ONLY <2>1, <2>2
    <2>4. [g EXCEPT ![m] = z] = [w1.srv EXCEPT ![m] = z]
      <3>1. w1.srv \in [Servers -> Server]
        BY ONLY <1>1, WorldTypes
      <3> QED BY ONLY <2>2, <3>1
    <2> QED BY ONLY <1>16, <1>21, <2>3, <2>4
  <1>25. PICK w2 : w2 = Finished(W, m, s)
    OBVIOUS
  <1>26. w2 = Started(wb, m, z, S, y.offset)
    BY ONLY <1>3, <1>19, <1>23, <1>24, <1>25
  <1>27. S = InState(wb, m, "START") /\ y = wb.srv[m] /\ y.child = None
    BY ONLY <1>6, <1>19, <1>22, v.child = None DEF InState, SlavesOf
  <1>28. WInv(w2)
    BY ONLY <1>2, <1>5, <1>19, <1>20, <1>26, <1>27, ForkedInv
  <1> QED BY ONLY <1>25, <1>28

\* The fork fails.
LEMMA FirstFails ==
    ASSUME NEW w, NEW w1, NEW m, NEW s, NEW v, NEW d, NEW j, First(w, w1, m, s, v, d, j), ~left.diskless,
           NEW W, W = UnforkedBgsave(w1, m)
    PROVE  WInv(Finished(W, m, s))
  <1>1. /\ w1 \in Worlds /\ w1.srv = w.srv /\ InState(w1, m, "START") = {s} /\ w1.cl[m][s] = d /\ w1.conn[s] = j /\ j \in Conns /\ SlavesOf(w1, m) = {s}
    BY FirstFacts
  <1>2. /\ WInv(w) /\ m \in Servers /\ s \in Servers /\ m # s /\ v \in Server /\ w.conn[s] # None /\ w.conn[s].to = m /\ LinkSet(w, w1, s, w.srv[s], m, d, j)
        /\ Waits(SV(w.srv[s]), d, j) /\ j.to = m
    BY DEF First
  <1>3. PICK S : S = InState(w1, m, "START")
    OBVIOUS
  <1>4. W = freeSlaves(Send(w1, S, <<Err>>), m, S)
    BY ONLY <1>3, ~left.diskless, W = UnforkedBgsave(w1, m) DEF UnforkedBgsave, startBgsaveForReplication, Err
  <1>5. /\ W \in Worlds /\ W.srv = w1.srv
        /\ \A t \in Servers : W.conn[t] = IF t \in S THEN Failed(w1.conn[t]) ELSE w1.conn[t]
        /\ \A t \in Servers : W.cl[m][t] = IF t \in S THEN None ELSE w1.cl[m][t]
        /\ \A r \in Servers, t \in Servers : r # m => W.cl[r][t] = w1.cl[r][t]
    BY ONLY <1>1, <1>2, <1>4, FailedWorld
  <1>6. PICK k : k = Failed(j)
    OBVIOUS
  <1>7. LinkSet(w, W, s, w.srv[s], m, None, k)
    BY ONLY <1>1, <1>2, <1>3, <1>5, <1>6 DEF LinkSet
  <1>8. PICK n, x, q, c, u, z : LinkOf(w, s, n, x, q, c, u, z)
    BY ONLY <1>2, LinkFacts
  <1>9. /\ x = w.srv[s] /\ q = w.conn[s] /\ q # None /\ q.to = m /\ m # None /\ m = x.masterhost /\ u = MV(w.srv[m]) /\ z = SV(x) /\ CachedOK(u, z)
    BY ONLY <1>2, <1>8 DEF LinkOf
  <1>10. PICK r \in RunIds : r = v.runid
    BY ONLY <1>2 DEF Server
  <1>11. PICK off \in Nat : off = 0
    OBVIOUS
  <1>12. PairOK(u, z, None, k) /\ k # None /\ k.to = j.to
    <2>1. Waits(z, d, j)
      BY ONLY <1>2, <1>9
    <2>2. k = Failed(j) \/ k = Failed(Told(d, j, r, off))
      BY ONLY <1>6
    <2> QED BY ONLY <1>9, <2>1, <2>2, r \in RunIds, off \in Nat, FailedPair
  <1>13. LinkSet(w, W, s, x, m, None, k) /\ PairOK(MV(w.srv[m]), SV(x), None, k) /\ k.to = q.to /\ m = w.srv[s].masterhost
    BY ONLY <1>2, <1>7, <1>9, <1>12
  <1>14. WInv(W)
    BY ONLY <1>2, <1>9, <1>12, <1>13, LinkTurn
  <1>15. Finished(W, m, s) = W
    <2>1. W.cl[m][s] = None
      BY ONLY <1>7 DEF LinkSet
    <2> QED BY ONLY <2>1 DEF Finished
  <1> QED BY ONLY <1>14, <1>15

LEMMA SyncFullInv ==
    ASSUME NEW w, WInv(w), NEW s \in Servers, w.conn[s] # None, NEW req, req = w.conn[s].req, req # None, w.conn[s].open, NEW m, m = w.conn[s].to,
           w.srv[m].repl_state # "TRANSFER", NEW forked \in BOOLEAN, NEW e, e = [w EXCEPT !.conn[s].req = None],
           NEW w2, w2 = syncFull(e, m, s, req, forked)
    PROVE  WInv(w2)
  <1>1. PICK w1 : w1 = [e EXCEPT !.cl[m][s] = NewClient(req.cmd = "SYNC")]
    OBVIOUS
  <1>2. PICK W : W = SyncWithChild(w1, m, s, forked)
    OBVIOUS
  <1>3. w2 = Finished(W, m, s)
    BY ONLY <1>1, <1>2, w2 = syncFull(e, m, s, req, forked), SyncFullParts
  <1>4. Joined(w, w1, s, m)
    <2>1. e = Hearing(w, s) /\ w1 = Joining(e, m, s, req)
      BY ONLY <1>1, e = [w EXCEPT !.conn[s].req = None] DEF Hearing, Joining
    <2> QED BY ONLY <2>1, WInv(w), s \in Servers, w.conn[s] # None, req = w.conn[s].req, req # None, w.conn[s].open, m = w.conn[s].to, JoinLink
  <1>5. PICK d, j : LinkSet(w, w1, s, w.srv[s], m, d, j) /\ Waits(SV(w.srv[s]), d, j) /\ j.to = m /\ d # None
    BY ONLY <1>4 DEF Joined
  <1>6. PICK n, x, k, c, u, z : LinkOf(w, s, n, x, k, c, u, z)
    BY LinkFacts
  <1>7. m \in Servers /\ m # s
    BY ONLY <1>6, m = w.conn[s].to DEF LinkOf
  <1>8. CASE w.srv[m].backlog # None
    <2>1. WInv(w1) /\ w1.srv[m] = w.srv[m] /\ w1.cl[m][s] # None /\ w1.cl[m][s].state = "START"
      <3>1. LinkSet(w, w1, s, w.srv[s], m, d, j) /\ Waits(SV(w.srv[s]), d, j) /\ j.to = m /\ d # None
        BY ONLY <1>5
      <3>2. WInv(w1)
        BY ONLY <3>1, <1>8, WInv(w), s \in Servers, w.conn[s] # None, m = w.conn[s].to, JoinInv
      <3>3. w1.srv[m] = w.srv[m]
        BY ONLY <1>7, <3>1 DEF LinkSet
      <3>4. w1.cl[m][s] = d /\ d.state = "START"
        BY ONLY <3>1 DEF LinkSet, Waits
      <3> QED BY ONLY <3>1, <3>2, <3>3, <3>4
    <2>2. w1.srv[m].backlog # None
      BY ONLY <1>8, <2>1
    <2>3. WInv(W) /\ W.srv[m].backlog # None
      BY ONLY <1>2, <1>7, <2>1, <2>2, s \in Servers, forked \in BOOLEAN, ChildInv
    <2>4. w2 = W
      BY ONLY <1>3, <2>3 DEF Finished
    <2> QED BY ONLY <2>3, <2>4
  <1>9. CASE w.srv[m].backlog = None
    <2>1. PICK v : v = w.srv[m]
      OBVIOUS
    <2>2. v \in Server /\ MasterOK(m, v)
      BY <1>7, <2>1, WorldTypes DEF WInv
    <2>3. First(w, w1, m, s, v, d, j)
      BY ONLY <1>5, <1>7, <1>9, <2>1, <2>2, WInv(w), s \in Servers, w.conn[s] # None, m = w.conn[s].to, w.srv[m].repl_state # "TRANSFER" DEF First
    <2>4. w1.srv[m] = v
      BY ONLY <2>3, FirstFacts
    <2>5. CASE v.child # None \/ left.diskless
      BY ONLY <1>2, <1>3, <2>3, <2>5, FirstWaits
    <2>6. CASE v.child = None /\ ~left.diskless
      <3>1. W = startBgsaveForReplication(w1, m, forked)
        BY ONLY <1>2, <2>4, <2>6 DEF SyncWithChild
      <3>2. CASE forked
        <4>1. W = ForkedBgsave(w1, m)
          BY ONLY <3>1, <3>2 DEF ForkedBgsave, startBgsaveForReplication
        <4> QED BY ONLY <1>3, <2>3, <2>6, <4>1, FirstForks
      <3>3. CASE ~forked
        <4>1. W = UnforkedBgsave(w1, m)
          BY ONLY <3>1, <3>3 DEF UnforkedBgsave, startBgsaveForReplication
        <4> QED BY ONLY <1>3, <2>3, <2>6, <4>1, FirstFails
      <3> QED BY <3>2, <3>3
    <2> QED BY ONLY <2>5, <2>6
  <1> QED BY ONLY <1>8, <1>9

LEMMA SyncInv ==
    ASSUME NEW w, WInv(w), NEW s \in Servers, w.conn[s] # None, w.conn[s].req # None, w.conn[s].open, NEW m, m = w.conn[s].to,
           NEW forked \in BOOLEAN, NEW w2, w2 = syncCommand(w, m, s, forked)
    PROVE  WInv(w2)
  <1>1. PICK req : req = w.conn[s].req
    OBVIOUS
  <1>2. PICK e : e = [w EXCEPT !.conn[s].req = None]
    OBVIOUS
  <1>3. PICK n, x, k, c, u, z : LinkOf(w, s, n, x, k, c, u, z)
    BY LinkFacts
  <1>4. w \in Worlds /\ m \in Servers /\ m # s /\ k \in Conns /\ k = w.conn[s]
    BY ONLY <1>3, m = w.conn[s].to DEF LinkOf
  <1>5. LinkSet(w, e, s, w.srv[s], m, w.cl[m][s], Heard(k))
    BY ONLY <1>2, <1>4, s \in Servers, HeardWorld
  <1>6. e.srv[m] = w.srv[m]
    BY ONLY <1>4, <1>5 DEF LinkSet
  <1>7. PICK v : v = w.srv[m]
    OBVIOUS
  <1>8. w2 = IF v.masterhost # None /\ v.repl_state # "CONNECTED" THEN Send(e, {s}, <<Err>>)
             ELSE IF PartialAllowed(v, req) THEN masterTryPartialResynchronization(e, m, s, req)
             ELSE syncFull(e, m, s, req, forked)
    BY ONLY <1>1, <1>2, <1>6, <1>7, w2 = syncCommand(w, m, s, forked) DEF syncCommand, Err
  <1>9. CASE v.masterhost # None /\ v.repl_state # "CONNECTED"
    <2>1. w2 = Send(e, {s}, <<Err>>)
      BY ONLY <1>8, <1>9
    <2> QED BY <1>2, <2>1, SyncErrInv
  <1>10. CASE ~(v.masterhost # None /\ v.repl_state # "CONNECTED") /\ PartialAllowed(v, req)
    <2>1. w2 = masterTryPartialResynchronization(e, m, s, req)
      BY ONLY <1>8, <1>10
    <2>2. PartialAllowed(w.srv[m], req)
      BY ONLY <1>7, <1>10
    <2> QED BY <1>1, <1>2, <2>1, <2>2, PartialInv
  <1>11. CASE ~(v.masterhost # None /\ v.repl_state # "CONNECTED") /\ ~PartialAllowed(v, req)
    <2>1. w2 = syncFull(e, m, s, req, forked)
      BY ONLY <1>8, <1>11
    <2>2. w.srv[m].repl_state # "TRANSFER"
      <3>1. Shape(m, w.srv[m], w.conn[m])
        BY <1>4 DEF WInv, SlaveOK
      <3> QED BY ONLY <1>7, <1>11, <3>1 DEF Shape
    <2>3. req # None
      BY <1>1
    <2> QED BY ONLY <1>1, <1>2, <2>1, <2>2, <2>3, WInv(w), s \in Servers, w.conn[s] # None, w.conn[s].open, m = w.conn[s].to, forked \in BOOLEAN, SyncFullInv
  <1> QED BY ONLY <1>9, <1>10, <1>11

---------------------------------------------------------------------------
(* The end of a save.                                                      *)

Ready(c, disk, data) ==
  IF disk THEN [c EXCEPT !.state = "BULK", !.bulk = <<data>>] ELSE [c EXCEPT !.state = "ONLINE", !.ackwait = TRUE]
Having(ending, disk, good, ok) == IF disk THEN IF good THEN ending ELSE {} ELSE ending \cap ok
Childless(v, good) == [v EXCEPT !.child = None, !.rdb = IF good /\ v.child.type = "DISK" THEN v.child.data ELSE v.rdb]
Distributed(w, m, have, disk, data) ==
  Send([w EXCEPT !.cl[m] = [s \in Servers |-> IF s \in have THEN Ready(w.cl[m][s], disk, data) ELSE w.cl[m][s]]],
       IF disk THEN {} ELSE have, <<Rdb(data)>>)
Again(w, m) == IF InState(w, m, "START") # {} THEN ForkedBgsave(w, m) ELSE w
EndedOf(w, m, y) == [w EXCEPT !.srv[m] = y]
FromDisk(v) == v.child.type = "DISK"
Updated(w, m, good, ok) == updateSlavesWaitingBgsave(w, m, good, ok, TRUE)
AllTold(w, m, y, lost, have, disk, data) == Distributed(freeSlaves(EndedOf(w, m, y), m, lost), m, have, disk, data)

LEMMA UpdateParts ==
    ASSUME NEW w, NEW m, NEW good, NEW ok, NEW v, v = w.srv[m], NEW disk, disk = FromDisk(v), NEW ending, ending = InState(w, m, "END"),
           NEW have, have = Having(ending, disk, good, ok), NEW y, y = Childless(v, good), NEW lost, lost = ending \ have,
           NEW data, data = v.child.data
    PROVE  Updated(w, m, good, ok) = Again(AllTold(w, m, y, lost, have, disk, data), m)
  <1>1. EndedOf(w, m, y) = [w EXCEPT !.srv[m] = [@ EXCEPT !.child = None, !.rdb = IF good /\ disk THEN v.child.data ELSE w.srv[m].rdb]]
    BY ONLY v = w.srv[m], disk = FromDisk(v), y = Childless(v, good) DEF EndedOf, Childless, FromDisk
  <1> QED BY ONLY <1>1, v = w.srv[m], disk = FromDisk(v), ending = InState(w, m, "END"), have = Having(ending, disk, good, ok),
                  lost = ending \ have, data = v.child.data, ZenonT(60)
          DEF updateSlavesWaitingBgsave, Again, Distributed, Ready, Having, ForkedBgsave, Rdb, FromDisk, Updated, AllTold

LEMMA ReadyType ==
    ASSUME NEW c \in Clients, NEW disk \in BOOLEAN, NEW data \in Data, NEW d, d = Ready(c, disk, data)
    PROVE  /\ d \in Clients /\ d # None /\ d.out = c.out /\ d.pre = c.pre /\ d.unsound = c.unsound
           /\ disk => d.state = "BULK" /\ d.bulk \in [1..1 -> Data] /\ d.bulk[1] = data /\ d.ackwait = c.ackwait
           /\ ~disk => d.state = "ONLINE" /\ d.ackwait
  <1>1. CASE disk
    <2>1. PICK b : b = <<data>>
      OBVIOUS
    <2>2. b \in [1..1 -> Data] /\ b[1] = data
      BY ONLY <2>1, data \in Data
    <2>4. PICK c1 : c1 = [c EXCEPT !.state = "BULK"]
      OBVIOUS
    <2>5. c1 \in Clients
      BY ONLY <2>4, c \in Clients DEF Clients
    <2>6. d = [c1 EXCEPT !.bulk = b]
      BY ONLY <1>1, <2>1, <2>4, c \in Clients, d = Ready(c, disk, data) DEF Ready, Clients
    <2>7. d \in Clients /\ d.state = c1.state /\ d.bulk = b /\ d.out = c1.out /\ d.pre = c1.pre /\ d.unsound = c1.unsound /\ d.ackwait = c1.ackwait
      BY ONLY <2>2, <2>5, <2>6 DEF Clients
    <2>8. c1.state = "BULK" /\ c1.out = c.out /\ c1.pre = c.pre /\ c1.unsound = c.unsound /\ c1.ackwait = c.ackwait
      BY ONLY <2>4, c \in Clients DEF Clients
    <2> QED BY <1>1, <2>2, <2>7, <2>8, NoneAssumption
  <1>2. CASE ~disk
    <2>1. d = [c EXCEPT !.state = "ONLINE", !.ackwait = TRUE]
      BY ONLY <1>2, d = Ready(c, disk, data) DEF Ready
    <2>2. d \in Clients /\ d.state = "ONLINE" /\ d.ackwait /\ d.out = c.out /\ d.pre = c.pre /\ d.unsound = c.unsound
      BY ONLY <2>1, c \in Clients DEF Clients
    <2> QED BY <1>2, <2>2, NoneAssumption
  <1> QED BY <1>1, <1>2

\* The file is sent to a slave that waited for it, or is about to be.
ReadyConn(k, disk, data) == IF disk THEN k ELSE Sent(k, <<Rdb(data)>>)

LEMMA ReadyPair ==
    ASSUME NEW v, MTyped(v), NEW Y, Moves(v, Y, <<>>), NEW x, NEW c, NEW k \in Conns, STyped(x, k), PairOK(v, x, c, k), c # None, c.state = "END",
           NEW disk \in BOOLEAN, NEW data, data = v.child.data, NEW d, d = Ready(c, disk, data), NEW j, j = ReadyConn(k, disk, data)
    PROVE  PairOK(Y, x, d, j) /\ j # None /\ j.to = k.to
  <1>1. v.backlog # None /\ ClientOK(v, c) /\ k # None /\ k.open /\ k.req = None
    BY ONLY PairOK(v, x, c, k), c # None DEF PairOK, LinkedOK
  <1>2. c \in Clients /\ ~c.ackwait /\ ~c.unsound
    BY ONLY <1>1, c.state = "END" DEF ClientOK, Clients
  <1>3. data \in Data /\ Rdb(data) \in Msgs /\ c.out \in Seq(Msgs)
    BY ONLY <1>1, MTyped(v), c # None, c.state = "END", data = v.child.data, ClientRest
  <1>4. /\ d \in Clients /\ d # None /\ d.out = c.out /\ d.pre = c.pre /\ d.unsound = c.unsound
        /\ disk => d.state = "BULK" /\ d.bulk \in [1..1 -> Data] /\ d.bulk[1] = data /\ d.ackwait = c.ackwait
        /\ ~disk => d.state = "ONLINE" /\ d.ackwait
    BY ONLY <1>2, <1>3, disk \in BOOLEAN, d = Ready(c, disk, data), ReadyType
  <1>14. <<Rdb(data)>> \in Seq(Msgs)
    BY ONLY <1>3
  <1>5. PICK F \in Seq(Msgs) : F = <<Rdb(data)>>
    BY ONLY <1>14
  <1>6. PICK W \in Seq(Msgs) : W = k.wire
    BY ONLY k \in Conns DEF Conns
  <1>7. PICK U \in Seq(Msgs) : U = c.out
    BY ONLY <1>3
  <1>8. Items(v, c, k) = W \o (F \o U)
    <2>1. Rest(v, c) = F \o U
      BY ONLY <1>5, <1>7, c # None, c.state = "END", data = v.child.data DEF Rest
    <2> QED BY ONLY <1>6, <2>1 DEF Items
  <1>9. j \in Conns /\ j # None /\ j.to = k.to /\ j.req = k.req /\ j.open = k.open /\ j.wire = IF disk THEN W ELSE W \o F
    <2>1. CASE disk
      BY ONLY <1>1, <1>6, <2>1, k \in Conns, j = ReadyConn(k, disk, data) DEF ReadyConn
    <2>2. CASE ~disk
      <3>1. j = Sent(k, F)
        BY ONLY <1>5, <2>2, j = ReadyConn(k, disk, data) DEF ReadyConn
      <3>2. k \in Conns \cup {None}
        BY ONLY k \in Conns
      <3>3. j \in Conns /\ j # None /\ j.to = k.to /\ j.wire = k.wire \o F /\ j.req = k.req /\ j.open = k.open
        BY ONLY <1>1, <3>1, <3>2, F \in Seq(Msgs), SentType
      <3> QED BY ONLY <1>6, <2>2, <3>3
    <2> QED BY <2>1, <2>2
  <1>10. Items(Y, d, j) = Items(v, c, k)
    <2>1. (W \o F) \o U = W \o (F \o U)
      BY ONLY W \in Seq(Msgs), F \in Seq(Msgs), U \in Seq(Msgs)
    <2>2. CASE disk
      <3>1. Rest(Y, d) = F \o U
        BY ONLY <1>4, <1>5, <1>7, <2>2 DEF Rest
      <3> QED BY ONLY <1>8, <1>9, <2>2, <3>1 DEF Items
    <2>3. CASE ~disk
      <3>1. Rest(Y, d) = U
        BY ONLY <1>4, <1>7, <2>3 DEF Rest
      <3> QED BY ONLY <1>8, <1>9, <2>1, <2>3, <3>1 DEF Items
    <2> QED BY <2>2, <2>3
  <1>11. LinkedOK(Y, d, j)
    <2>1. ClientOK(Y, d)
      <3>1. CASE disk
        BY ONLY <1>2, <1>4, <3>1 DEF ClientOK
      <3>2. CASE ~disk
        BY ONLY <1>4, <3>2 DEF ClientOK
      <3> QED BY <3>1, <3>2
    <2>2. Y.backlog # None
      BY ONLY Moves(v, Y, <<>>) DEF Moves
    <2> QED BY ONLY <1>1, <1>9, <2>1, <2>2 DEF LinkedOK
  <1>12. Alike(c, d)
    BY ONLY <1>4, c # None, c.state = "END", disk \in BOOLEAN DEF Alike, IsStart
  <1>13. PairOK(Y, x, d, j)
    BY ONLY <1>10, <1>11, <1>12, MTyped(v), Moves(v, Y, <<>>), STyped(x, k), PairOK(v, x, c, k), PairShift
  <1> QED BY ONLY <1>9, <1>13

TellsAll(w, w2, m, have, disk, data) ==
  /\ w2 \in Worlds /\ w2.srv = w.srv
  /\ \A t \in Servers : w2.cl[m][t] = IF t \in have THEN Ready(w.cl[m][t], disk, data) ELSE w.cl[m][t]
  /\ \A t \in Servers : w2.conn[t] = IF t \in have THEN ReadyConn(w.conn[t], disk, data) ELSE w.conn[t]
  /\ \A r \in Servers, t \in Servers : r # m => w2.cl[r][t] = w.cl[r][t]

LEMMA DistributedWorld ==
    ASSUME NEW w \in Worlds, NEW m \in Servers, NEW have \in SUBSET SlavesOf(w, m), NEW disk \in BOOLEAN, NEW data \in Data,
           NEW w2, w2 = Distributed(w, m, have, disk, data)
    PROVE  TellsAll(w, w2, m, have, disk, data)
  <1>1. /\ w = [srv |-> w.srv, cl |-> w.cl, conn |-> w.conn]
        /\ w.srv \in [Servers -> Server] /\ w.cl \in [Servers -> [Servers -> Clients \cup {None}]] /\ w.conn \in [Servers -> Conns \cup {None}]
    BY WorldTypes
  <1>2. PICK C : C = [s \in Servers |-> IF s \in have THEN Ready(w.cl[m][s], disk, data) ELSE w.cl[m][s]]
    OBVIOUS
  <1>3. PICK T : T = IF disk THEN {} ELSE have
    OBVIOUS
  <1>4. PICK K : K = Sending(w, T, <<Rdb(data)>>)
    OBVIOUS
  <1>5. C \in [Servers -> Clients \cup {None}]
    <2>1. \A t \in have : Ready(w.cl[m][t], disk, data) \in Clients
      <3>1. \A t \in have : w.cl[m][t] \in Clients
        BY SlavesAreClients
      <3> QED BY <3>1, ReadyType
    <2>2. \A t \in Servers : w.cl[m][t] \in Clients \cup {None}
      BY ONLY <1>1, m \in Servers
    <2> QED BY ONLY <1>2, <2>1, <2>2
  <1>6. K \in [Servers -> Conns \cup {None}]
    <2>1. Rdb(data) \in Msgs
      BY MsgTypes
    <2>2. <<Rdb(data)>> \in Seq(Msgs)
      BY ONLY <2>1
    <2> QED BY ONLY <1>4, <2>2, w \in Worlds, SendingType
  <1>7. PICK e : e = [w EXCEPT !.cl[m] = C]
    OBVIOUS
  <1>8. e = [srv |-> w.srv, cl |-> [w.cl EXCEPT ![m] = C], conn |-> w.conn]
    BY ONLY <1>1, <1>7
  <1>9. w2 = Send(e, T, <<Rdb(data)>>)
    BY ONLY <1>2, <1>3, <1>7, w2 = Distributed(w, m, have, disk, data) DEF Distributed
  <1>10. w2 = [srv |-> w.srv, cl |-> [w.cl EXCEPT ![m] = C], conn |-> K]
    BY ONLY <1>4, <1>8, <1>9 DEF Send, Sending
  <1>11. PICK f : f = [w.cl EXCEPT ![m] = C]
    OBVIOUS
  <1>12. f \in [Servers -> [Servers -> Clients \cup {None}]] /\ f[m] = C /\ \A r \in Servers : r # m => f[r] = w.cl[r]
    BY ONLY <1>1, <1>5, <1>11, m \in Servers
  <1>13. w2 \in Worlds /\ w2.srv = w.srv /\ w2.cl = f /\ w2.conn = K
    BY ONLY <1>1, <1>6, <1>10, <1>11, <1>12 DEF Worlds
  <1>14. \A t \in Servers : K[t] = IF t \in have THEN ReadyConn(w.conn[t], disk, data) ELSE w.conn[t]
    BY ONLY <1>3, <1>4 DEF Sending, ReadyConn
  <1> QED BY ONLY <1>2, <1>12, <1>13, <1>14 DEF TellsAll

LEMMA ChildlessServer ==
    ASSUME NEW v \in Server, v.child # None, NEW good, NEW y, y = Childless(v, good)
    PROVE  y \in Server /\ Calm(v, y) /\ SameRole(v, y) /\ y.child = None /\ v.child \in Children /\ v.child.data \in Data
  <1>1. v.child \in Children /\ v.child.data \in Data /\ v.rdb \in Data
    BY ONLY v \in Server, v.child # None DEF Server, Children
  <1>2. PICK r \in Data : r = IF good /\ v.child.type = "DISK" THEN v.child.data ELSE v.rdb
    BY ONLY <1>1
  <1>3. PICK a : a = [v EXCEPT !.child = None]
    OBVIOUS
  <1>4. a \in Server
    BY ONLY <1>3, v \in Server DEF Server
  <1>5. y = [a EXCEPT !.rdb = r]
    BY ONLY <1>2, <1>3, v \in Server, y = Childless(v, good) DEF Childless, Server
  <1>6. y \in Server
    BY ONLY <1>2, <1>4, <1>5 DEF Server
  <1>7. /\ a.runid = v.runid /\ a.reused = v.reused /\ a.offset = v.offset /\ a.backlog = v.backlog /\ a.data = v.data /\ a.seldb = v.seldb
        /\ a.masterhost = v.masterhost /\ a.repl_state = v.repl_state /\ a.master = v.master /\ a.cached = v.cached /\ a.init = v.init
        /\ a.child = None
    BY ONLY <1>3, v \in Server DEF Server
  <1>8. /\ y.runid = a.runid /\ y.reused = a.reused /\ y.offset = a.offset /\ y.backlog = a.backlog /\ y.data = a.data /\ y.seldb = a.seldb
        /\ y.masterhost = a.masterhost /\ y.repl_state = a.repl_state /\ y.master = a.master /\ y.cached = a.cached /\ y.init = a.init
        /\ y.child = a.child
    BY ONLY <1>4, <1>5 DEF Server
  <1>9. Calm(v, y) /\ SameRole(v, y)
    BY ONLY <1>7, <1>8 DEF Calm, SameRole
  <1> QED BY ONLY <1>1, <1>6, <1>7, <1>8, <1>9

NoChildNow(w, m) == w.srv[m].child = None
Parted(ending, have, lost) == have \in SUBSET ending /\ lost = ending \ have

\* The slaves that have the file go on, those that have not are closed.
LEMMA EndedInv ==
    ASSUME NEW w, WInv(w), NEW m \in Servers, NEW v, v = w.srv[m], v.child # None, NEW good, NEW y, y = Childless(v, good),
           NEW disk \in BOOLEAN, NEW data, data = v.child.data, NEW ending, ending = InState(w, m, "END"), NEW have,
           NEW lost, Parted(ending, have, lost),
           NEW w2, w2 = AllTold(w, m, y, lost, have, disk, data)
    PROVE  WInv(w2) /\ NoChildNow(w2, m)
  <1>1. w \in Worlds /\ v \in Server
    BY WorldTypes DEF WInv
  <1>2. y \in Server /\ Calm(v, y) /\ SameRole(v, y) /\ y.child = None /\ v.child \in Children /\ data \in Data
    BY ONLY <1>1, v.child # None, y = Childless(v, good), data = v.child.data, ChildlessServer
  <1>3. PICK w1 : w1 = freeSlaves(w, m, lost)
    OBVIOUS
  <1>4. lost \in SUBSET SlavesOf(w, m)
    BY DEF InState, Parted
  <1>5. WInv(w1)
    BY ONLY <1>3, <1>4, WInv(w), m \in Servers, FreeSlavesInv
  <1>6. /\ w1 \in Worlds /\ w1.srv = w.srv
        /\ \A t \in Servers : w1.conn[t] = IF t \in lost THEN Closed(w.conn[t]) ELSE w.conn[t]
        /\ \A t \in Servers : w1.cl[m][t] = IF t \in lost THEN None ELSE w.cl[m][t]
        /\ \A r \in Servers, t \in Servers : r # m => w1.cl[r][t] = w.cl[r][t]
    BY ONLY <1>1, <1>3, m \in Servers, FreeSlavesWorld
  <1>7. PICK a : a = EndedOf(w, m, y)
    OBVIOUS
  <1>8. SrvSet(w, a, m, y)
    BY ONLY <1>1, <1>2, <1>7, m \in Servers, WorldSrv DEF EndedOf
  <1>9. PICK b : b = freeSlaves(a, m, lost)
    OBVIOUS
  <1>10. a \in Worlds /\ a.cl = w.cl /\ a.conn = w.conn /\ a.srv[m] = y /\ \A t \in Servers : t # m => a.srv[t] = w.srv[t]
    BY ONLY <1>8 DEF SrvSet
  <1>11. /\ b \in Worlds /\ b.srv = a.srv
         /\ \A t \in Servers : b.conn[t] = IF t \in lost THEN Closed(a.conn[t]) ELSE a.conn[t]
         /\ \A t \in Servers : b.cl[m][t] = IF t \in lost THEN None ELSE a.cl[m][t]
         /\ \A r \in Servers, t \in Servers : r # m => b.cl[r][t] = a.cl[r][t]
    BY ONLY <1>9, <1>10, m \in Servers, FreeSlavesWorld
  <1>12. /\ \A t \in Servers : b.conn[t] = w1.conn[t] /\ b.cl[m][t] = w1.cl[m][t]
         /\ \A r \in Servers, t \in Servers : r # m => b.cl[r][t] = w1.cl[r][t]
    BY ONLY <1>6, <1>10, <1>11
  <1>13. b.srv[m] = y /\ \A t \in Servers : t # m => b.srv[t] = w1.srv[t]
    BY ONLY <1>6, <1>10, <1>11
  <1>14. \A t \in have : t \in Servers /\ w.cl[m][t] # None /\ w.cl[m][t].state = "END" /\ t \notin lost
    BY DEF InState, SlavesOf, Parted
  <1>15. have \in SUBSET SlavesOf(b, m) /\ have \in SUBSET SlavesOf(w1, m)
    BY ONLY <1>6, <1>12, <1>14 DEF SlavesOf
  <1>16. w2 = Distributed(b, m, have, disk, data)
    BY ONLY <1>7, <1>9, w2 = AllTold(w, m, y, lost, have, disk, data) DEF AllTold
  <1>17. /\ w2 \in Worlds /\ w2.srv = b.srv
         /\ \A t \in Servers : w2.cl[m][t] = IF t \in have THEN Ready(b.cl[m][t], disk, data) ELSE b.cl[m][t]
         /\ \A t \in Servers : w2.conn[t] = IF t \in have THEN ReadyConn(b.conn[t], disk, data) ELSE b.conn[t]
         /\ \A r \in Servers, t \in Servers : r # m => w2.cl[r][t] = b.cl[r][t]
    <2>1. b \in Worlds /\ have \in SUBSET SlavesOf(b, m) /\ data \in Data
      BY ONLY <1>2, <1>11, <1>15
    <2>2. TellsAll(b, w2, m, have, disk, data)
      BY ONLY <1>16, <2>1, m \in Servers, disk \in BOOLEAN, DistributedWorld
    <2> QED BY ONLY <2>2 DEF TellsAll
  <1>18. PICK C : C = w2.cl[m]
    OBVIOUS
  <1>19. PICK K : K = w2.conn
    OBVIOUS
  <1>20. ManyWorld(w1, w2, m, y, C, K)
    BY ONLY <1>12, <1>13, <1>17, <1>18, <1>19 DEF ManyWorld
  <1>21. w1.srv[m] = v
    BY ONLY <1>6, v = w.srv[m]
  <1>22. Touched(w1, C, K, m, y, have)
    <2>1. ASSUME NEW t \in Servers, t \notin have
          PROVE  C[t] = w1.cl[m][t] /\ K[t] = w1.conn[t] /\ (C[t] # None /\ C[t].state = "END" => y.child = w1.srv[m].child)
      <3>1. C[t] = w1.cl[m][t] /\ K[t] = w1.conn[t]
        BY ONLY <1>12, <1>17, <1>18, <1>19, <2>1
      <3>2. C[t] # None => C[t].state # "END"
        <4>1. w1.cl[m][t] # None => w1.cl[m][t] = w.cl[m][t] /\ t \notin lost
          BY ONLY <1>6, <2>1
        <4>2. w.cl[m][t] # None /\ w.cl[m][t].state = "END" => t \in ending
          BY ONLY <2>1, ending = InState(w, m, "END") DEF InState, SlavesOf
        <4> QED BY ONLY <2>1, <3>1, <4>1, <4>2, Parted(ending, have, lost) DEF Parted
      <3> QED BY ONLY <3>1, <3>2
    <2>2. ASSUME NEW t \in Servers, t \in have
          PROVE  K[t] # None /\ K[t].to = w1.conn[t].to /\ PairOK(MV(y), SV(w1.srv[t]), C[t], K[t])
      <3>1. w1.cl[m][t] # None /\ w1.cl[m][t].state = "END"
        BY ONLY <1>6, <1>14, <2>2
      <3>2. w1.conn[t] # None /\ w1.srv[t].masterhost = m
        BY <1>5, <3>1, NotConnected DEF WInv, SlaveOK
      <3>3. PICK n, x, k, c, V, z : LinkOf(w1, t, n, x, k, c, V, z)
        BY ONLY <1>5, <3>2, t \in Servers, LinkFacts
      <3>4. /\ k = w1.conn[t] /\ k \in Conns /\ k # None /\ c = w1.cl[m][t] /\ c # None /\ c.state = "END" /\ z = SV(w1.srv[t])
            /\ V = MV(w1.srv[m]) /\ PairOK(V, z, c, k) /\ STyped(z, k) /\ MTyped(V)
        BY ONLY <3>1, <3>2, <3>3 DEF LinkOf
      <3>5. v.backlog # None
        BY ONLY <1>21, <3>4 DEF PairOK, LinkedOK, MV
      <3>6. BacklogOK(v)
        BY ONLY <1>5, <1>21, <3>5, m \in Servers DEF WInv, MasterOK
      <3>7. PICK Y : Y = MV(y)
        OBVIOUS
      <3>8. Moves(V, Y, <<>>)
        BY ONLY <1>2, <1>21, <3>4, <3>5, <3>6, <3>7, StillMoves DEF Calm
      <3>9. data = V.child.data
        BY ONLY <1>21, <3>4, data = v.child.data DEF MV
      <3>10. PICK d : d = Ready(c, disk, data)
        OBVIOUS
      <3>11. PICK j : j = ReadyConn(k, disk, data)
        OBVIOUS
      <3>12. PairOK(Y, z, d, j) /\ j # None /\ j.to = k.to
        BY ONLY <3>4, <3>8, <3>9, <3>10, <3>11, disk \in BOOLEAN, ReadyPair
      <3>13. C[t] = d /\ K[t] = j
        BY ONLY <1>12, <1>17, <1>18, <1>19, <2>2, <3>4, <3>10, <3>11
      <3> QED BY ONLY <3>4, <3>7, <3>12, <3>13
    <2> QED BY ONLY <2>1, <2>2 DEF Touched
  <1>23. WInv(w2)
    BY ONLY <1>2, <1>5, <1>15, <1>20, <1>21, <1>22, m \in Servers, ManyStep
  <1>24. w2.srv[m] = y
    BY ONLY <1>13, <1>17
  <1> QED BY ONLY <1>2, <1>23, <1>24 DEF NoChildNow

\* A save for the slaves that wait, if there are any.
LEMMA AgainInv ==
    ASSUME NEW w, WInv(w), NEW m \in Servers, w.srv[m].child = None, NEW w2, w2 = Again(w, m)
    PROVE  WInv(w2)
  <1>1. CASE InState(w, m, "START") # {}
    <2>1. SlavesOf(w, m) # {}
      BY ONLY <1>1 DEF InState
    <2>2. w.srv[m].backlog # None
      BY ONLY <2>1, WInv(w), m \in Servers, NoSlaves
    <2>3. w2 = startBgsaveForReplication(w, m, TRUE)
      BY ONLY <1>1, w2 = Again(w, m) DEF Again, ForkedBgsave
    <2> QED BY ONLY <2>2, <2>3, WInv(w), m \in Servers, w.srv[m].child = None, ForkInv
  <1>2. CASE InState(w, m, "START") = {}
    BY ONLY <1>2, WInv(w), w2 = Again(w, m) DEF Again
  <1> QED BY <1>1, <1>2

LEMMA UpdateInv ==
    ASSUME NEW w, WInv(w), NEW m \in Servers, w.srv[m].child # None, NEW good, NEW ok,
           NEW w2, w2 = Updated(w, m, good, ok)
    PROVE  WInv(w2)
  <1>1. PICK v : v = w.srv[m]
    OBVIOUS
  <1>2. PICK disk \in BOOLEAN : disk = FromDisk(v)
    BY DEF FromDisk
  <1>3. PICK ending : ending = InState(w, m, "END")
    OBVIOUS
  <1>4. PICK have : have = Having(ending, disk, good, ok)
    OBVIOUS
  <1>5. PICK y : y = Childless(v, good)
    OBVIOUS
  <1>6. PICK data : data = v.child.data
    OBVIOUS
  <1>7. PICK lost : lost = ending \ have
    OBVIOUS
  <1>8. PICK all : all = AllTold(w, m, y, lost, have, disk, data)
    OBVIOUS
  <1>9. Updated(w, m, good, ok) = Again(AllTold(w, m, y, lost, have, disk, data), m)
    BY ONLY <1>1, <1>2, <1>3, <1>4, <1>5, <1>6, <1>7, UpdateParts
  <1>10. w2 = Again(all, m)
    BY ONLY <1>8, <1>9, w2 = Updated(w, m, good, ok)
  <1>11. Parted(ending, have, lost)
    BY ONLY <1>4, <1>7 DEF Having, Parted
  <1>12. v.child # None
    BY ONLY <1>1, w.srv[m].child # None
  <1>13. WInv(all) /\ all.srv[m].child = None
    <2>1. WInv(all)
      BY ONLY <1>1, <1>3, <1>5, <1>6, <1>8, <1>11, <1>12, disk \in BOOLEAN, WInv(w), m \in Servers, EndedInv
    <2>2. NoChildNow(all, m)
      BY ONLY <1>1, <1>3, <1>5, <1>6, <1>8, <1>11, <1>12, disk \in BOOLEAN, WInv(w), m \in Servers, EndedInv
    <2> QED BY ONLY <2>1, <2>2 DEF NoChildNow
  <1>14. all.srv[m].child = None
    BY ONLY <1>13
  <1> QED BY ONLY <1>10, <1>13, <1>14, m \in Servers, AgainInv

---------------------------------------------------------------------------
(* The specification.                                                      *)

Lefts == [servers : SUBSET Servers, writes : Nat, pings : Nat, breaks : Nat, slaveofs : Nat, crashes : Nat,
          saves : Nat, fails : Nat, frees : Nat, diskless : BOOLEAN]
Bounds == {"writes", "pings", "breaks", "slaveofs", "crashes", "saves", "fails", "frees"}

LEMMA Spends ==
    ASSUME left \in Lefts, NEW what \in Bounds, Spend(what)
    PROVE  left' \in Lefts
  BY DEF Lefts, Spend, Bounds

Written == [at : Servers, runid : RunIds, off : Offsets, reused : BOOLEAN]

\* The inductive invariant of the specification.
RInv == WInv(World) /\ left \in Lefts /\ writes \in Seq(Written)

\* The world a step makes is the next state.
LEMMA Becomes ==
    ASSUME NEW w, WInv(w), Become(w)
    PROVE  WInv(World)' /\ srv' = w.srv
  <1>1. w = [srv |-> w.srv, cl |-> w.cl, conn |-> w.conn]
    BY ONLY WInv(w), WorldTypes DEF WInv
  <1>2. World' = w /\ srv' = w.srv
    BY ONLY <1>1, Become(w) DEF Become, World
  <1> QED BY ONLY <1>2, WInv(w)

\* What the proof of a step begins with.
Now(w) == WInv(w) /\ w = World /\ w.srv = srv /\ w.cl = cl /\ w.conn = conn

LEMMA NowIs ==
    ASSUME RInv
    PROVE  \E w : Now(w)
  <1>1. WInv(World) /\ World.srv = srv /\ World.cl = cl /\ World.conn = conn
    BY DEF RInv, World
  <1> QED BY ONLY <1>1 DEF Now

\* A step that makes a world of the invariant, and no write.
LEMMA StepKeeps ==
    ASSUME RInv, NEW w2, WInv(w2), Become(w2), left' \in Lefts, UNCHANGED writes
    PROVE  RInv'
  <1>1. WInv(World)'
    BY ONLY WInv(w2), Become(w2), Becomes
  <1>2. left' \in Lefts /\ writes' \in Seq(Written)
    BY ONLY RInv, left' \in Lefts, UNCHANGED writes DEF RInv
  <1>3. Lefts' = Lefts /\ Written' = Written
    BY DEF Lefts, Written, RunIds, Offsets
  <1> QED BY ONLY <1>1, <1>2, <1>3 DEF RInv

\* The bounds.
LEMMA SpendKeeps ==
    ASSUME RInv, NEW what \in Bounds, Spend(what)
    PROVE  left' \in Lefts
  BY ONLY RInv, what \in Bounds, Spend(what), Spends DEF RInv

LEMMA WriteKeeps ==
    ASSUME RInv, NEW m \in Servers, NEW db \in Dbs, Write(m, db)
    PROVE  RInv'
  <1>1. PICK w : Now(w)
    BY ONLY RInv, NowIs
  <1>2. PICK id \in Nat : id = Len(writes) + 1
    <2>1. Len(writes) \in Nat
      BY ONLY RInv, LenProperties DEF RInv
    <2>2. Len(writes) + 1 \in Nat
      BY ONLY <2>1
    <2> QED BY ONLY <2>2
  <1>3. PICK wr : wr = [w EXCEPT !.srv[m].data = Append(@, <<id, db>>)]
    OBVIOUS
  <1>4. PICK w2 : w2 = replicationFeedSlaves(wr, m, db, Halves(id))
    OBVIOUS
  <1>5. /\ w.srv[m].masterhost = None /\ Spend("writes") /\ Become(w2)
        /\ writes' = Append(writes, [at |-> m, runid |-> w.srv[m].runid, off |-> w2.srv[m].offset, reused |-> w.srv[m].reused])
    BY ONLY <1>1, <1>2, <1>3, <1>4, Write(m, db) DEF Write, Now
  <1>6. WInv(w)
    BY ONLY <1>1 DEF Now
  <1>7. WInv(w2)
    BY ONLY <1>3, <1>4, <1>5, <1>6, m \in Servers, db \in Dbs, id \in Nat, WriteInv
  <1>8. w.srv[m].runid \in RunIds /\ w.srv[m].reused \in BOOLEAN /\ w2.srv[m].offset \in Offsets
    <2>1. w.srv[m] \in Server /\ w2.srv[m] \in Server
      BY ONLY <1>6, <1>7, m \in Servers, WorldTypes DEF WInv
    <2> QED BY ONLY <2>1 DEF Server
  <1>9. PICK e : e = [at |-> m, runid |-> w.srv[m].runid, off |-> w2.srv[m].offset, reused |-> w.srv[m].reused]
    OBVIOUS
  <1>10. e \in Written
    BY ONLY <1>8, <1>9, m \in Servers DEF Written
  <1>11. writes' \in Seq(Written)
    <2>1. writes \in Seq(Written)
      BY ONLY RInv DEF RInv
    <2> QED BY ONLY <1>5, <1>9, <1>10, <2>1
  <1>12. left' \in Lefts
    <2>1. "writes" \in Bounds
      BY DEF Bounds
    <2> QED BY ONLY <1>5, <2>1, RInv, SpendKeeps
  <1>13. WInv(World)'
    BY ONLY <1>5, <1>7, Becomes
  <1>14. Lefts' = Lefts /\ Written' = Written
    BY DEF Lefts, Written, RunIds, Offsets
  <1> QED BY ONLY <1>11, <1>12, <1>13, <1>14 DEF RInv

LEMMA CronPingKeeps ==
    ASSUME RInv, NEW m \in Servers, CronPing(m)
    PROVE  RInv'
  <1>1. PICK w : Now(w)
    BY ONLY RInv, NowIs
  <1>2. PICK w2 : w2 = replicationFeedSlaves(w, m, w.srv[m].seldb, <<[k |-> "ping"]>>)
    OBVIOUS
  <1>3. w.srv[m].backlog # None /\ Spend("pings") /\ Become(w2) /\ UNCHANGED writes /\ WInv(w)
    BY ONLY <1>1, <1>2, CronPing(m) DEF CronPing, Now
  <1>4. WInv(w2)
    BY ONLY <1>2, <1>3, m \in Servers, PingInv
  <1>5. "pings" \in Bounds
    BY DEF Bounds
  <1>6. left' \in Lefts
    BY ONLY <1>3, <1>5, RInv, SpendKeeps
  <1> QED BY ONLY <1>3, <1>4, <1>6, RInv, StepKeeps

LEMMA CronFreeBacklogKeeps ==
    ASSUME RInv, NEW m \in Servers, CronFreeBacklog(m)
    PROVE  RInv'
  <1>1. PICK w : Now(w)
    BY ONLY RInv, NowIs
  <1>2. PICK w2 : w2 = freeReplicationBacklog(w, m)
    OBVIOUS
  <1>3. SlavesOf(w, m) = {} /\ Spend("frees") /\ Become(w2) /\ UNCHANGED writes /\ WInv(w)
    BY ONLY <1>1, <1>2, CronFreeBacklog(m) DEF CronFreeBacklog, Now
  <1>4. WInv(w2)
    BY ONLY <1>2, <1>3, m \in Servers, FreeBacklogInv
  <1>5. "frees" \in Bounds
    BY DEF Bounds
  <1>6. left' \in Lefts
    BY ONLY <1>3, <1>5, RInv, SpendKeeps
  <1> QED BY ONLY <1>3, <1>4, <1>6, RInv, StepKeeps

LEMMA LeftSame ==
    ASSUME RInv, UNCHANGED left
    PROVE  left' \in Lefts
  BY ONLY RInv, UNCHANGED left DEF RInv

LEMMA CronBgsaveKeeps ==
    ASSUME RInv, NEW m \in Servers, CronBgsave(m)
    PROVE  RInv'
  <1>1. PICK w : Now(w)
    BY ONLY RInv, NowIs
  <1>2. PICK w2 : w2 = Again(w, m)
    OBVIOUS
  <1>3. w.srv[m].child = None /\ Become(w2) /\ UNCHANGED <<left, writes>> /\ WInv(w)
    BY ONLY <1>1, <1>2, CronBgsave(m) DEF CronBgsave, Now, Again, ForkedBgsave
  <1>4. WInv(w2)
    BY ONLY <1>2, <1>3, m \in Servers, AgainInv
  <1>6. left' \in Lefts /\ UNCHANGED writes
    BY ONLY <1>3, RInv, LeftSame
  <1> QED BY ONLY <1>3, <1>4, <1>6, RInv, StepKeeps

LEMMA BgsaveKeeps ==
    ASSUME RInv, NEW m \in Servers, bgsaveCommand(m)
    PROVE  RInv'
  <1>1. PICK w : Now(w)
    BY ONLY RInv, NowIs
  <1>2. PICK w2 : w2 = [w EXCEPT !.srv[m] = rdbSaveBackground(@)]
    OBVIOUS
  <1>3. w.srv[m].child = None /\ Spend("saves") /\ Become(w2) /\ UNCHANGED writes /\ WInv(w)
    BY ONLY <1>1, <1>2, bgsaveCommand(m) DEF bgsaveCommand, Now
  <1>4. WInv(w2)
    BY ONLY <1>2, <1>3, m \in Servers, BgsaveInv
  <1>5. "saves" \in Bounds
    BY DEF Bounds
  <1>6. left' \in Lefts
    BY ONLY <1>3, <1>5, RInv, SpendKeeps
  <1> QED BY ONLY <1>3, <1>4, <1>6, RInv, StepKeeps

LEMMA SaveDoneKeeps ==
    ASSUME RInv, NEW m \in Servers, NEW good \in BOOLEAN, backgroundSaveDoneHandler(m, good)
    PROVE  RInv'
  <1>1. PICK w : Now(w)
    BY ONLY RInv, NowIs
  <1>2. PICK ok : Become(updateSlavesWaitingBgsave(World, m, good, IF good THEN ok ELSE {}, TRUE))
    BY ONLY backgroundSaveDoneHandler(m, good) DEF backgroundSaveDoneHandler
  <1>3. PICK some : some = IF good THEN ok ELSE {}
    OBVIOUS
  <1>4. PICK w2 : w2 = Updated(w, m, good, some)
    OBVIOUS
  <1>5. Become(w2) /\ WInv(w)
    BY ONLY <1>1, <1>2, <1>3, <1>4 DEF Now, Updated
  <1>6. w.srv[m].child # None /\ UNCHANGED writes
    BY ONLY <1>1, backgroundSaveDoneHandler(m, good) DEF Now, backgroundSaveDoneHandler
  <1>7. WInv(w2)
    BY ONLY <1>4, <1>5, <1>6, m \in Servers, UpdateInv
  <1>8. left' \in Lefts
    <2>1. UNCHANGED left \/ Spend("fails")
      BY ONLY backgroundSaveDoneHandler(m, good) DEF backgroundSaveDoneHandler
    <2>2. "fails" \in Bounds
      BY DEF Bounds
    <2> QED BY ONLY <2>1, <2>2, RInv, SpendKeeps, LeftSame
  <1> QED BY ONLY <1>5, <1>6, <1>7, <1>8, RInv, StepKeeps

LEMMA SendBulkKeeps ==
    ASSUME RInv, NEW m \in Servers, NEW s \in Servers, sendBulkToSlave(m, s)
    PROVE  RInv'
  <1>1. PICK w : Now(w)
    BY ONLY RInv, NowIs
  <1>2. PICK w2 : w2 = BulkSent(w, m, s)
    OBVIOUS
  <1>3. w.cl[m][s] # None /\ w.cl[m][s].state = "BULK" /\ Become(w2) /\ UNCHANGED <<left, writes>> /\ WInv(w)
    BY ONLY <1>1, <1>2, sendBulkToSlave(m, s) DEF sendBulkToSlave, Now, BulkSent
  <1>4. WInv(w2)
    BY ONLY <1>2, <1>3, m \in Servers, s \in Servers, BulkInv
  <1>6. left' \in Lefts /\ UNCHANGED writes
    BY ONLY <1>3, RInv, LeftSame
  <1> QED BY ONLY <1>3, <1>4, <1>6, RInv, StepKeeps

LEMMA SendAckKeeps ==
    ASSUME RInv, NEW s \in Servers, replicationSendAck(s)
    PROVE  RInv'
  <1>1. PICK w : Now(w)
    BY ONLY RInv, NowIs
  <1>2. PICK m : m = w.conn[s].to
    OBVIOUS
  <1>3. PICK w1 : w1 = Acked(w, m, s)
    OBVIOUS
  <1>4. PICK w2 : w2 = Acknowledged(w, w1, m, s)
    OBVIOUS
  <1>5. w.srv[s].master # None /\ w.conn[s] # None /\ w.cl[m][s] # None /\ Become(w2) /\ UNCHANGED <<left, writes>> /\ WInv(w)
    BY ONLY <1>1, <1>2, <1>3, <1>4, replicationSendAck(s) DEF replicationSendAck, Linked, Now, Acked, Acknowledged
  <1>6. WInv(w2)
    BY ONLY <1>2, <1>3, <1>4, <1>5, s \in Servers, AckInv
  <1>7. left' \in Lefts /\ UNCHANGED writes
    BY ONLY <1>5, RInv, LeftSame
  <1> QED BY ONLY <1>5, <1>6, <1>7, RInv, StepKeeps

LEMMA ConnectKeeps ==
    ASSUME RInv, NEW s \in Servers, connectWithMaster(s)
    PROVE  RInv'
  <1>1. PICK w : Now(w)
    BY ONLY RInv, NowIs
  <1>2. PICK w2 : w2 = [w EXCEPT !.srv[s].repl_state = "CONNECTING",
                                 !.conn[s] = [to |-> w.srv[s].masterhost, wire |-> <<>>, open |-> TRUE, req |-> None]]
    OBVIOUS
  <1>3. w.srv[s].repl_state = "CONNECT" /\ Become(w2) /\ UNCHANGED <<left, writes>> /\ WInv(w)
    BY ONLY <1>1, <1>2, connectWithMaster(s) DEF connectWithMaster, Now
  <1>4. WInv(w2)
    BY ONLY <1>2, <1>3, s \in Servers, ConnectInv
  <1>5. left' \in Lefts /\ UNCHANGED writes
    BY ONLY <1>3, RInv, LeftSame
  <1> QED BY ONLY <1>3, <1>4, <1>5, RInv, StepKeeps

LEMMA SyncWithMasterKeeps ==
    ASSUME RInv, NEW s \in Servers, syncWithMaster(s)
    PROVE  RInv'
  <1>1. PICK w : Now(w)
    BY ONLY RInv, NowIs
  <1>2. PICK req : req = PsyncReq(w.srv[s].cached)
    OBVIOUS
  <1>3. PICK w2 : w2 = [w EXCEPT !.srv[s].repl_state = "RECEIVE_PSYNC", !.srv[s].init.off = -1, !.conn[s].req = req]
    OBVIOUS
  <1>4. w.srv[s].repl_state = "CONNECTING" /\ Become(w2) /\ UNCHANGED <<left, writes>> /\ WInv(w)
    BY ONLY <1>1, <1>2, <1>3, syncWithMaster(s) DEF syncWithMaster, PsyncReq, Now
  <1>5. WInv(w2)
    BY ONLY <1>2, <1>3, <1>4, s \in Servers, AskInv
  <1>6. left' \in Lefts /\ UNCHANGED writes
    BY ONLY <1>4, RInv, LeftSame
  <1> QED BY ONLY <1>4, <1>5, <1>6, RInv, StepKeeps

LEMMA SyncKeeps ==
    ASSUME RInv, NEW s \in Servers, NEW forked \in BOOLEAN, Sync(s, forked)
    PROVE  RInv'
  <1>1. PICK w : Now(w)
    BY ONLY RInv, NowIs
  <1>2. PICK m : m = w.conn[s].to
    OBVIOUS
  <1>3. PICK w2 : w2 = syncCommand(w, m, s, forked)
    OBVIOUS
  <1>4. w.conn[s] # None /\ w.conn[s].req # None /\ w.conn[s].open /\ Become(w2) /\ UNCHANGED writes /\ WInv(w)
    BY ONLY <1>1, <1>2, <1>3, Sync(s, forked) DEF Sync, Now
  <1>5. WInv(w2)
    BY ONLY <1>2, <1>3, <1>4, s \in Servers, forked \in BOOLEAN, SyncInv
  <1>6. left' \in Lefts
    <2>1. UNCHANGED left \/ Spend("fails")
      BY ONLY Sync(s, forked) DEF Sync
    <2>2. "fails" \in Bounds
      BY DEF Bounds
    <2> QED BY ONLY <2>1, <2>2, RInv, SpendKeeps, LeftSame
  <1> QED BY ONLY <1>4, <1>5, <1>6, RInv, StepKeeps

LEMMA ReceiveKeeps ==
    ASSUME RInv, NEW s \in Servers, Receive(s)
    PROVE  RInv'
  <1>1. PICK w : Now(w)
    BY ONLY RInv, NowIs
  <1>2. PICK u : u = Head(w.conn[s].wire)
    OBVIOUS
  <1>3. w.conn[s] # None /\ w.conn[s].wire # <<>> /\ UNCHANGED <<left, writes>> /\ WInv(w)
    BY ONLY <1>1, Receive(s) DEF Receive, Now
  <1>4. left' \in Lefts /\ UNCHANGED writes
    BY ONLY <1>3, RInv, LeftSame
  <1>5. CASE w.srv[s].repl_state = "RECEIVE_PSYNC"
    <2>1. PICK w2 : w2 = slaveTryPartialResynchronization(w, s, u)
      OBVIOUS
    <2>2. Become(w2)
      BY ONLY <1>1, <1>2, <1>5, <2>1, Receive(s) DEF Receive, Now
    <2>3. WInv(w2)
      BY ONLY <1>2, <1>3, <1>5, <2>1, s \in Servers, AnswerInv
    <2> QED BY ONLY <1>4, <2>2, <2>3, RInv, StepKeeps
  <1>6. CASE w.srv[s].repl_state = "TRANSFER"
    <2>1. PICK w2 : w2 = readSyncBulkPayload(w, s, u)
      OBVIOUS
    <2>2. Become(w2)
      BY ONLY <1>1, <1>2, <1>6, <2>1, Receive(s) DEF Receive, Now
    <2>3. WInv(w2)
      BY ONLY <1>2, <1>3, <1>6, <2>1, s \in Servers, FileInv
    <2> QED BY ONLY <1>4, <2>2, <2>3, RInv, StepKeeps
  <1>7. CASE w.srv[s].repl_state = "CONNECTED"
    <2>1. PICK w2 : w2 = readQueryFromMaster(w, s)
      OBVIOUS
    <2>2. Become(w2)
      BY ONLY <1>1, <1>7, <2>1, Receive(s) DEF Receive, Now
    <2>3. WInv(w2)
      BY ONLY <1>2, <1>3, <1>7, <2>1, s \in Servers, UnitInv
    <2> QED BY ONLY <1>4, <2>2, <2>3, RInv, StepKeeps
  <1>8. w.srv[s].repl_state \in {"RECEIVE_PSYNC", "TRANSFER", "CONNECTED"}
    BY ONLY <1>1, Receive(s) DEF Receive, Now
  <1> QED BY ONLY <1>5, <1>6, <1>7, <1>8

\* A slave gives up its connection.
LEMMA GivesUp ==
    ASSUME RInv, NEW s \in Servers, NEW w, Now(w), w.conn[s] # None, left' \in Lefts, UNCHANGED writes,
           \/ w.srv[s].repl_state = "CONNECTED" /\ Become(replicationCacheMaster(w, s))
           \/ w.srv[s].repl_state = "RECEIVE_PSYNC" /\ Become(PsyncReadError(w, s))
           \/ w.srv[s].repl_state # "CONNECTED" /\ Become(cancelReplicationHandshake(w, s))
    PROVE  RInv'
  <1>1. WInv(w)
    BY ONLY Now(w) DEF Now
  <1>2. CASE w.srv[s].repl_state = "CONNECTED" /\ Become(replicationCacheMaster(w, s))
    <2>1. PICK w2 : w2 = replicationCacheMaster(w, s)
      OBVIOUS
    <2>2. WInv(w2)
      BY ONLY <1>1, <1>2, <2>1, s \in Servers, CacheMasterInv
    <2>3. Become(w2)
      BY ONLY <1>2, <2>1
    <2> QED BY ONLY <2>2, <2>3, RInv, left' \in Lefts, UNCHANGED writes, StepKeeps
  <1>3. CASE w.srv[s].repl_state = "RECEIVE_PSYNC" /\ Become(PsyncReadError(w, s))
    <2>1. PICK w2 : w2 = PsyncReadError(w, s)
      OBVIOUS
    <2>2. WInv(w2)
      BY ONLY <1>1, <1>3, <2>1, s \in Servers, PsyncReadErrorInv
    <2>3. Become(w2)
      BY ONLY <1>3, <2>1
    <2> QED BY ONLY <2>2, <2>3, RInv, left' \in Lefts, UNCHANGED writes, StepKeeps
  <1>4. CASE w.srv[s].repl_state # "CONNECTED" /\ Become(cancelReplicationHandshake(w, s))
    <2>1. PICK w2 : w2 = cancelReplicationHandshake(w, s)
      OBVIOUS
    <2>2. WInv(w2)
      BY ONLY <1>1, <1>4, <2>1, s \in Servers, CancelInv
    <2>3. Become(w2)
      BY ONLY <1>4, <2>1
    <2> QED BY ONLY <2>2, <2>3, RInv, left' \in Lefts, UNCHANGED writes, StepKeeps
  <1> QED BY <1>2, <1>3, <1>4

LEMMA EofKeeps ==
    ASSUME RInv, NEW s \in Servers, Eof(s)
    PROVE  RInv'
  <1>1. PICK w : Now(w)
    BY ONLY RInv, NowIs
  <1>2. w.conn[s] # None /\ UNCHANGED <<left, writes>>
    BY ONLY <1>1, Eof(s) DEF Eof, Now
  <1>3. \/ w.srv[s].repl_state = "CONNECTED" /\ Become(replicationCacheMaster(w, s))
        \/ w.srv[s].repl_state = "RECEIVE_PSYNC" /\ Become(PsyncReadError(w, s))
        \/ w.srv[s].repl_state # "CONNECTED" /\ Become(cancelReplicationHandshake(w, s))
    BY ONLY <1>1, Eof(s) DEF Eof, Now
  <1>4. left' \in Lefts /\ UNCHANGED writes
    BY ONLY <1>2, RInv, LeftSame
  <1> QED BY ONLY <1>1, <1>2, <1>3, <1>4, RInv, s \in Servers, GivesUp

LEMMA TimeoutKeeps ==
    ASSUME RInv, NEW s \in Servers, CronTimeout(s)
    PROVE  RInv'
  <1>1. PICK w : Now(w)
    BY ONLY RInv, NowIs
  <1>2. w.conn[s] # None /\ Spend("breaks") /\ UNCHANGED writes
    BY ONLY <1>1, CronTimeout(s) DEF CronTimeout, Now
  <1>3. \/ w.srv[s].repl_state = "CONNECTED" /\ Become(replicationCacheMaster(w, s))
        \/ w.srv[s].repl_state = "RECEIVE_PSYNC" /\ Become(PsyncReadError(w, s))
        \/ w.srv[s].repl_state # "CONNECTED" /\ Become(cancelReplicationHandshake(w, s))
    BY ONLY <1>1, CronTimeout(s) DEF CronTimeout, Now
  <1>4. "breaks" \in Bounds
    BY DEF Bounds
  <1>5. left' \in Lefts
    BY ONLY <1>2, <1>4, RInv, SpendKeeps
  <1> QED BY ONLY <1>1, <1>2, <1>3, <1>5, RInv, s \in Servers, GivesUp

LEMMA BreakKeeps ==
    ASSUME RInv, NEW s \in Servers, Break(s)
    PROVE  RInv'
  <1>1. PICK w : Now(w)
    BY ONLY RInv, NowIs
  <1>2. PICK w2 : w2 = [w EXCEPT !.conn[s].open = FALSE, !.conn[s].wire = <<>>, !.cl[w.conn[s].to][s] = None]
    OBVIOUS
  <1>3. w.conn[s] # None /\ Spend("breaks") /\ Become(w2) /\ UNCHANGED writes /\ WInv(w)
    BY ONLY <1>1, <1>2, Break(s) DEF Break, Now
  <1>4. WInv(w2)
    BY ONLY <1>2, <1>3, s \in Servers, BreakInv
  <1>5. "breaks" \in Bounds
    BY DEF Bounds
  <1>6. left' \in Lefts
    BY ONLY <1>3, <1>5, RInv, SpendKeeps
  <1> QED BY ONLY <1>3, <1>4, <1>6, RInv, StepKeeps

LEMMA SetMasterKeeps ==
    ASSUME RInv, NEW s \in Servers, NEW m \in Servers, replicationSetMaster(s, m)
    PROVE  RInv'
  <1>1. PICK w : Now(w)
    BY ONLY RInv, NowIs
  <1>2. PICK freed : freed = LeavesMaster(w, s, w)
    OBVIOUS
  <1>3. PICK h : h = cancelReplicationHandshake(freeReplicationBacklog(replicationDiscardCachedMaster(disconnectSlaves(freed, s), s), s), s)
    OBVIOUS
  <1>4. PICK w2 : w2 = Follows(h, s, m, w.srv[s])
    OBVIOUS
  <1>5. Spend("slaveofs") /\ Become(w2) /\ UNCHANGED writes /\ WInv(w)
    BY ONLY <1>1, <1>2, <1>3, <1>4, replicationSetMaster(s, m) DEF replicationSetMaster, Now, LeavesMaster, Follows
  <1>6. m # s
    BY ONLY replicationSetMaster(s, m) DEF replicationSetMaster, MastersOf
  <1>7. WInv(w2)
    BY ONLY <1>2, <1>3, <1>4, <1>5, <1>6, s \in Servers, m \in Servers, SetMasterInv
  <1>8. "slaveofs" \in Bounds
    BY DEF Bounds
  <1>9. left' \in Lefts
    BY ONLY <1>5, <1>8, RInv, SpendKeeps
  <1> QED BY ONLY <1>5, <1>7, <1>9, RInv, StepKeeps

LEMMA UnsetMasterKeeps ==
    ASSUME RInv, NEW s \in Servers, replicationUnsetMaster(s)
    PROVE  RInv'
  <1>1. PICK w : Now(w)
    BY ONLY RInv, NowIs
  <1>2. PICK w1 : w1 = Inherits(w, s)
    OBVIOUS
  <1>3. PICK wb : wb = LeavesMaster(w, s, w1)
    OBVIOUS
  <1>4. PICK h : h = cancelReplicationHandshake(replicationDiscardCachedMaster(wb, s), s)
    OBVIOUS
  <1>5. PICK w2 : w2 = NoMaster(h, s)
    OBVIOUS
  <1>6. w.srv[s].masterhost # None /\ Spend("slaveofs") /\ Become(w2) /\ UNCHANGED writes /\ WInv(w)
    <2>1. w.srv[s].masterhost # None /\ Spend("slaveofs") /\ UNCHANGED writes /\ WInv(w)
      BY ONLY <1>1, replicationUnsetMaster(s) DEF replicationUnsetMaster, Now
    <2>2. Become(w2)
      BY ONLY <1>1, <1>2, <1>3, <1>4, <1>5, replicationUnsetMaster(s), ZenonT(60)
         DEF replicationUnsetMaster, Now, TakesOffset, Inherits, LeavesMaster, NoMaster
    <2> QED BY ONLY <2>1, <2>2
  <1>7. WInv(w2)
    BY ONLY <1>2, <1>3, <1>4, <1>5, <1>6, s \in Servers, UnsetMasterInv
  <1>8. "slaveofs" \in Bounds
    BY DEF Bounds
  <1>9. left' \in Lefts
    BY ONLY <1>6, <1>8, RInv, SpendKeeps
  <1> QED BY ONLY <1>6, <1>7, <1>9, RInv, StepKeeps

LEMMA RestartKeeps ==
    ASSUME RInv, NEW s \in Servers, Restart(s)
    PROVE  RInv'
  <1>1. PICK w : Now(w)
    BY ONLY RInv, NowIs
  <1>2. PICK y : y = NewServer(<<s, w.srv[s].runid[2] + 1>>, w.srv[s].rdb, w.srv[s].masterhost)
    OBVIOUS
  <1>3. PICK h : h = disconnectSlaves(CloseConn(w, s), s)
    OBVIOUS
  <1>4. PICK w2 : w2 = [h EXCEPT !.srv[s] = y]
    OBVIOUS
  <1>5. Spend("crashes") /\ Become(w2) /\ UNCHANGED writes /\ WInv(w)
    BY ONLY <1>1, <1>2, <1>3, <1>4, Restart(s) DEF Restart, Now
  <1>6. WInv(w2)
    BY ONLY <1>2, <1>3, <1>4, <1>5, s \in Servers, RestartInv
  <1>7. "crashes" \in Bounds
    BY DEF Bounds
  <1>8. left' \in Lefts
    BY ONLY <1>5, <1>7, RInv, SpendKeeps
  <1> QED BY ONLY <1>5, <1>6, <1>8, RInv, StepKeeps

LEMMA InitKeeps == Init => RInv
  <1> SUFFICES ASSUME Init PROVE RInv
    OBVIOUS
  <1>1. PICK scene \in Scenes :
          /\ left = scene.left
          /\ srv = [s \in Servers |-> NewServer(<<s, 0>>, <<>>, scene.master[s])]
          /\ cl = [m \in Servers |-> [s \in Servers |-> None]]
          /\ conn = [s \in Servers |-> None] /\ writes = <<>>
    BY ONLY Init DEF Init
  <1>2. left \in Lefts
    BY ONLY <1>1, ScenesAssumption DEF Lefts
  <1>3. writes \in Seq(Written)
    BY ONLY <1>1
  <1>4. PICK w : w = World
    OBVIOUS
  <1>5. w = [srv |-> srv, cl |-> cl, conn |-> conn] /\ w.srv = srv /\ w.cl = cl /\ w.conn = conn
    BY ONLY <1>4 DEF World
  <1>6. \A s \in Servers : scene.master[s] \in Servers \cup {None} /\ scene.master[s] # s
    BY ONLY <1>1, ScenesAssumption
  <1>7. ASSUME NEW s \in Servers, NEW y, y = srv[s]
        PROVE  /\ y \in Server /\ y.runid[1] = s /\ y.masterhost \in Servers \cup {None} /\ y.masterhost # s
               /\ y.repl_state = (IF y.masterhost = None THEN "NONE" ELSE "CONNECT")
               /\ y.master = None /\ y.cached = None /\ y.backlog = None
    <2>1. PICK M \in Servers \cup {None} : M = scene.master[s] /\ M # s
      BY ONLY <1>6, <1>7
    <2>2. <<s, 0>> \in RunIds
      BY ONLY s \in Servers DEF RunIds
    <2>3. PICK r \in RunIds : r = <<s, 0>>
      BY ONLY <2>2
    <2>4. <<>> \in Data
      BY DEF Data
    <2>5. PICK e \in Data : e = <<>>
      BY ONLY <2>4
    <2>6. y = NewServer(r, e, M)
      BY ONLY <1>1, <1>7, <2>1, <2>3, <2>5
    <2>7. y \in Server /\ y.runid = r /\ y.masterhost = M /\ y.repl_state = (IF M = None THEN "NONE" ELSE "CONNECT")
          /\ y.master = None /\ y.cached = None /\ y.backlog = None
      BY ONLY <2>6, r \in RunIds, e \in Data, M \in Servers \cup {None}, SizesAssumption DEF NewServer, Server, Offsets
    <2>8. r[1] = s
      BY ONLY <2>3
    <2> QED BY ONLY <2>1, <2>7, <2>8
  <1>8. w \in Worlds
    <2>1. srv \in [Servers -> Server]
      <3>1. \A s \in Servers : srv[s] \in Server
        BY ONLY <1>7
      <3>2. srv = [s \in Servers |-> srv[s]]
        BY ONLY <1>1
      <3> QED BY ONLY <3>1, <3>2
    <2>2. cl \in [Servers -> [Servers -> Clients \cup {None}]] /\ conn \in [Servers -> Conns \cup {None}]
      BY ONLY <1>1
    <2> QED BY ONLY <1>5, <2>1, <2>2 DEF Worlds
  <1>9. \A m, s \in Servers : w.cl[m][s] = None /\ w.conn[s] = None
    BY ONLY <1>1, <1>5
  <1>10. ASSUME NEW s \in Servers
         PROVE  MasterOK(s, w.srv[s]) /\ SlaveOK(w, s)
    <2>1. PICK y : y = w.srv[s]
      OBVIOUS
    <2>2. /\ y \in Server /\ y.runid[1] = s /\ y.masterhost \in Servers \cup {None} /\ y.masterhost # s
          /\ y.repl_state = (IF y.masterhost = None THEN "NONE" ELSE "CONNECT")
          /\ y.master = None /\ y.cached = None /\ y.backlog = None
      BY ONLY <1>5, <1>7, <2>1, s \in Servers
    <2>3. MasterOK(s, y)
      BY ONLY <2>2 DEF MasterOK
    <2>4. Shape(s, y, None)
      BY ONLY <2>2 DEF Shape
    <2>5. y.masterhost # None => Pair(w, y.masterhost, s)
      BY ONLY <1>9, <2>1, <2>2, s \in Servers DEF Pair, PairOK, LinkedOK, SV
    <2>6. SlaveOK(w, s)
      BY ONLY <1>9, <2>1, <2>4, <2>5, s \in Servers DEF SlaveOK
    <2> QED BY ONLY <2>1, <2>3, <2>6
  <1>11. WInv(w)
    BY ONLY <1>8, <1>10 DEF WInv
  <1> QED BY ONLY <1>2, <1>3, <1>4, <1>11 DEF RInv

LEMMA NextKeeps == RInv /\ [Next]_vars => RInv'
  <1>1. ASSUME RInv, Next PROVE RInv'
    <2>1. left.servers \in SUBSET Servers
      BY ONLY <1>1 DEF RInv, Lefts
    <2>2. ASSUME NEW m \in left.servers, NEW db \in Dbs, Write(m, db) PROVE RInv'
      BY ONLY <1>1, <2>1, <2>2, WriteKeeps
    <2>3. ASSUME NEW m \in left.servers, CronPing(m) \/ CronFreeBacklog(m) \/ CronBgsave(m) \/ bgsaveCommand(m) PROVE RInv'
      BY ONLY <1>1, <2>1, <2>3, CronPingKeeps, CronFreeBacklogKeeps, CronBgsaveKeeps, BgsaveKeeps
    <2>4. ASSUME NEW m \in left.servers, NEW good \in BOOLEAN, backgroundSaveDoneHandler(m, good) PROVE RInv'
      BY ONLY <1>1, <2>1, <2>4, SaveDoneKeeps
    <2>5. ASSUME NEW m \in left.servers, NEW s \in left.servers, sendBulkToSlave(m, s) \/ replicationSetMaster(s, m) PROVE RInv'
      BY ONLY <1>1, <2>1, <2>5, SendBulkKeeps, SetMasterKeeps
    <2>6. ASSUME NEW s \in left.servers, replicationSendAck(s) \/ connectWithMaster(s) \/ syncWithMaster(s) \/ Receive(s) \/ Eof(s) PROVE RInv'
      BY ONLY <1>1, <2>1, <2>6, SendAckKeeps, ConnectKeeps, SyncWithMasterKeeps, ReceiveKeeps, EofKeeps
    <2>7. ASSUME NEW s \in left.servers, NEW forked \in BOOLEAN, Sync(s, forked) PROVE RInv'
      BY ONLY <1>1, <2>1, <2>7, SyncKeeps
    <2>8. ASSUME NEW s \in left.servers, Break(s) \/ CronTimeout(s) \/ replicationUnsetMaster(s) \/ Restart(s) PROVE RInv'
      BY ONLY <1>1, <2>1, <2>8, BreakKeeps, TimeoutKeeps, UnsetMasterKeeps, RestartKeeps
    <2> QED BY ONLY <1>1, <2>2, <2>3, <2>4, <2>5, <2>6, <2>7, <2>8 DEF Next
  <1>2. ASSUME RInv, UNCHANGED vars PROVE RInv'
    BY ONLY <1>2 DEF RInv, vars, World
  <1> QED BY <1>1, <1>2

\* A file is not a unit of the stream: a connected slave has been sent it.
LEMMA NoFile ==
    ASSUME NEW v, MTyped(v), NEW c, c # None, ClientOK(v, c), ~IsStart(c), NEW W \in Seq(Msgs), W \o Rest(v, c) \in Seq(Units)
    PROVE  Rest(v, c) = c.out /\ c.out \in Seq(Units)
  <1>1. c.out \in Seq(Msgs) /\ c.out \in Seq(Units)
    BY ONLY MTyped(v), c # None, ClientOK(v, c), ClientRest
  <1>2. ASSUME NEW r, r.k = "rdb", r \in Msgs, NEW o \in Seq(Msgs), W \o (<<r>> \o o) \in Seq(Units)
        PROVE  FALSE
    <2>1. PICK I \in Seq(Units) : I = W \o (<<r>> \o o)
      BY ONLY <1>2
    <2>2. PICK n \in Nat : n = Len(W)
      BY ONLY W \in Seq(Msgs), LenProperties
    <2>3. PICK p \in Seq(Msgs) : p = <<r>> \o o
      BY ONLY <1>2, OneMoreType
    <2>4. Len(p) = 1 + Len(o) /\ p[1] = r /\ Len(o) \in Nat
      BY ONLY <1>2, <2>3
    <2>5. Len(I) = n + Len(p) /\ I[n + 1] = p[1]
      BY ONLY <2>1, <2>2, <2>3, <2>4, W \in Seq(Msgs), p \in Seq(Msgs)
    <2>6. n + 1 \in 1..Len(I)
      BY ONLY <2>4, <2>5, n \in Nat
    <2>7. I[n + 1] \in Units
      BY ONLY <2>6, I \in Seq(Units)
    <2>8. r \in Units
      BY ONLY <2>4, <2>5, <2>7
    <2> QED BY ONLY <1>2, <2>8 DEF Units
  <1>3. c.state # "END"
    <2> SUFFICES ASSUME c.state = "END" PROVE FALSE
      OBVIOUS
    <2>1. PICK r : r = Rdb(v.child.data)
      OBVIOUS
    <2>2. r \in Msgs
      BY ONLY <2>1, c.state = "END", MTyped(v), c # None, ClientOK(v, c), ClientRest
    <2>3. r.k = "rdb"
      BY ONLY <2>1 DEF Rdb
    <2>4. Rest(v, c) = <<r>> \o c.out
      BY ONLY <2>1, c # None, c.state = "END" DEF Rest
    <2>5. W \o (<<r>> \o c.out) \in Seq(Units)
      BY ONLY <2>4, W \o Rest(v, c) \in Seq(Units)
    <2> QED BY ONLY <1>1, <1>2, <2>2, <2>3, <2>5
  <1>4. c.state # "BULK"
    <2> SUFFICES ASSUME c.state = "BULK" PROVE FALSE
      OBVIOUS
    <2>1. PICK r : r = Rdb(c.bulk[1])
      OBVIOUS
    <2>2. r \in Msgs
      BY ONLY <2>1, c.state = "BULK", MTyped(v), c # None, ClientOK(v, c), ClientRest
    <2>3. r.k = "rdb"
      BY ONLY <2>1 DEF Rdb
    <2>4. Rest(v, c) = <<r>> \o c.out
      BY ONLY <2>1, c # None, c.state = "BULK" DEF Rest
    <2>5. W \o (<<r>> \o c.out) \in Seq(Units)
      BY ONLY <2>4, W \o Rest(v, c) \in Seq(Units)
    <2> QED BY ONLY <1>1, <1>2, <2>2, <2>3, <2>5
  <1>5. Rest(v, c) = c.out
    BY ONLY <1>3, <1>4, c # None, ~IsStart(c) DEF Rest, IsStart
  <1> QED BY ONLY <1>1, <1>5

\* A slave x would be in state y after the units.
Completed(v, x, c, y, units) ==
  y.data = v.data /\ y.querybuf = <<>> /\ (c.pre \/ x.master.reploff + Len(units) = v.offset)

LEMMA PairConsistent ==
    ASSUME NEW v, MTyped(v), NEW x, NEW c, c # None, NEW k \in Conns, STyped(x, k), PairOK(v, x, c, k), x.repl_state = "CONNECTED",
           NEW units, units = k.wire \o c.out, NEW y, y = Replayed(Reading(x.data, x.master), units), ~c.unsound
    PROVE  Completed(v, x, c, y, units)
  <1>1. k # None /\ ClientOK(v, c)
    BY ONLY c # None, PairOK(v, x, c, k) DEF PairOK, LinkedOK
  <1>2. ~IsStart(c) /\ Follow(c, v, x.master, x.data, Items(v, c, k))
    BY ONLY <1>1, PairOK(v, x, c, k), x.repl_state = "CONNECTED" DEF PairOK, PipeOK
  <1>3. PICK W \in Seq(Msgs) : W = k.wire
    BY ONLY k \in Conns DEF Conns
  <1>4. W \o Rest(v, c) \in Seq(Units)
    BY ONLY <1>2, <1>3 DEF Follow, Items
  <1>5. Rest(v, c) = c.out
    BY ONLY <1>1, <1>2, <1>4, MTyped(v), c # None, W \in Seq(Msgs), NoFile
  <1>6. Items(v, c, k) = units
    BY ONLY <1>5, units = k.wire \o c.out DEF Items
  <1>7. Follow(c, v, x.master, x.data, units)
    BY ONLY <1>2, <1>6
  <1>8. Arrives(v, y)
    BY ONLY <1>7, c # None, ~c.unsound, y = Replayed(Reading(x.data, x.master), units) DEF Follow
  <1>9. c.pre \/ x.master.reploff + Len(units) = v.offset
    <2> SUFFICES ASSUME ~c.pre PROVE x.master.reploff + Len(units) = v.offset
      OBVIOUS
    <2>1. Len(units) = v.offset - x.master.reploff
      BY ONLY <1>7, c # None, ~c.unsound, ~c.pre DEF Follow, Stream
    <2>2. x.master.reploff \in Int /\ v.offset \in Int
      <3>1. x.master \in Masters /\ v.offset \in Offsets
        BY ONLY MTyped(v), STyped(x, k), x.repl_state = "CONNECTED" DEF MTyped, STyped
      <3> QED BY ONLY <3>1 DEF Masters, Offsets
    <2> QED BY ONLY <2>1, <2>2
  <1> QED BY ONLY <1>8, <1>9 DEF Arrives, Completed

LEMMA RInvConsistent == RInv => LinkConsistent
  <1> SUFFICES ASSUME RInv PROVE LinkConsistent
    OBVIOUS
  <1>1. PICK w : Now(w)
    BY ONLY RInv, NowIs
  <1>2. WInv(w) /\ w = World /\ w.srv = srv /\ w.cl = cl /\ w.conn = conn
    BY ONLY <1>1 DEF Now
  <1>3. TypeOK
    <2>1. \A m \in Servers : SlavesOf(World, m) # {} => srv[m].backlog # None
      BY ONLY <1>2, NoSlaves
    <2>2. ASSUME NEW s \in Servers
          PROVE  /\ srv[s].repl_state \in {"NONE", "CONNECT", "CONNECTING", "RECEIVE_PSYNC", "TRANSFER", "CONNECTED"}
                 /\ (srv[s].master # None) <=> (srv[s].repl_state = "CONNECTED")
                 /\ (srv[s].masterhost = None) <=> (srv[s].repl_state = "NONE")
                 /\ (conn[s] # None) <=> (srv[s].repl_state \notin {"NONE", "CONNECT"})
                 /\ srv[s].cached # None => srv[s].repl_state \in {"CONNECT", "CONNECTING", "RECEIVE_PSYNC"}
      <3>1. Shape(s, srv[s], conn[s])
        BY ONLY <1>2, s \in Servers DEF WInv, SlaveOK
      <3>2. srv[s] \in Server
        BY ONLY <1>2, s \in Servers, WorldTypes DEF WInv
      <3>3. srv[s].repl_state \in {"NONE", "CONNECT", "CONNECTING", "RECEIVE_PSYNC", "TRANSFER", "CONNECTED"}
        BY ONLY <3>2 DEF Server
      <3> QED BY ONLY <3>1, <3>3 DEF Shape
    <2> QED BY ONLY <2>1, <2>2 DEF TypeOK
  <1>4. ASSUME NEW m \in Servers, NEW s \in Servers, Linked(m, s), srv[s].repl_state = "CONNECTED",
               NEW units, units = conn[s].wire \o cl[m][s].out, NEW y, y = Replayed(Reading(srv[s].data, srv[s].master), units)
        PROVE  cl[m][s].unsound \/
                 /\ y.data = srv[m].data /\ y.querybuf = <<>>
                 /\ cl[m][s].pre \/ srv[s].master.reploff + Len(units) = srv[m].offset
    <2> SUFFICES ASSUME ~cl[m][s].unsound
                 PROVE  /\ y.data = srv[m].data /\ y.querybuf = <<>>
                        /\ cl[m][s].pre \/ srv[s].master.reploff + Len(units) = srv[m].offset
      OBVIOUS
    <2>1. w.conn[s] # None /\ w.cl[m][s] # None /\ w.conn[s].to = m
      BY ONLY <1>2, <1>4 DEF Linked
    <2>2. PICK n, x, k, c, v, z : LinkOf(w, s, n, x, k, c, v, z)
      BY ONLY <1>2, <2>1, s \in Servers, LinkFacts
    <2>3. n = m
      BY ONLY <2>1, <2>2 DEF LinkOf
    <2>4. /\ x = srv[s] /\ k = conn[s] /\ c = cl[m][s] /\ v = MV(srv[m]) /\ z = SV(x) /\ k \in Conns /\ MTyped(v) /\ STyped(z, k)
          /\ PairOK(v, z, c, k) /\ c # None
      BY ONLY <1>2, <2>1, <2>2, <2>3 DEF LinkOf
    <2>5. z.repl_state = "CONNECTED" /\ z.data = srv[s].data /\ z.master = srv[s].master /\ v.data = srv[m].data /\ v.offset = srv[m].offset
      BY ONLY <1>4, <2>4 DEF SV, MV
    <2>6. units = k.wire \o c.out /\ y = Replayed(Reading(z.data, z.master), units) /\ ~c.unsound
      BY ONLY <1>4, <2>4, <2>5, ~cl[m][s].unsound
    <2>7. Completed(v, z, c, y, units)
      BY ONLY <2>4, <2>5, <2>6, PairConsistent
    <2> QED BY ONLY <2>4, <2>5, <2>7 DEF Completed
  <1> QED BY ONLY <1>3, <1>4 DEF LinkConsistent

\* LinkConsistent: a connected slave, what is on its way to it and what its master holds for
\* it are the data and the offset of the master, after any sequence of writes, lost connections,
\* partial and full synchronizations, failed saves, changes of role and restarts, with slaves of
\* slaves (replication.c).
THEOREM LinkConsistentHolds == Spec => []LinkConsistent
  <1>1. Init => RInv
    BY InitKeeps
  <1>2. RInv /\ [Next]_vars => RInv'
    BY NextKeeps
  <1>3. RInv => LinkConsistent
    BY RInvConsistent
  <1> QED BY <1>1, <1>2, <1>3, PTL DEF Spec
=============================================================================
