---------------------------- MODULE AgentProofs ----------------------------
(***************************************************************************)
(* Theorems about Agent, for every content of agent.yaml, every set of     *)
(* commands, every application and every load.                             *)
(***************************************************************************)
EXTENDS Agent, TLAPS

USE DEF loopVars, ringVars, fileVars, procVars, hostVars

-----------------------------------------------------------------------------
(* Arithmetic of the ring's index, currentSnapshot % snapshotSize.         *)

\* Quotient and remainder put the number back together.
LEMMA DivMod ==
    ASSUME NEW S \in Nat \ {0}, NEW a \in Nat
    PROVE  /\ a \div S \in Nat
           /\ a % S \in 0..(S - 1)
           /\ a = S * (a \div S) + (a % S)
  OBVIOUS

\* Quotient and remainder are unique.
LEMMA DivModUnique ==
    ASSUME NEW S \in Nat \ {0}, NEW p \in Int, NEW q \in Int,
           NEW r \in 0..(S - 1), NEW t \in 0..(S - 1),
           S * p + r = S * q + t
    PROVE  p = q /\ r = t
  <1>1. S * (p - q) = t - r
    OBVIOUS
  <1>2. CASE p - q >= 1
    <2>1. S * (p - q) >= S * 1
      BY <1>2
    <2> QED BY <1>1, <2>1
  <1>3. CASE p - q <= -1
    <2>1. S * (p - q) <= S * (-1)
      BY <1>3
    <2> QED BY <1>1, <2>1
  <1>4. CASE p = q
    BY <1>4
  <1> QED BY <1>2, <1>3, <1>4

\* A number below the modulus is its own remainder.
LEMMA ModSmall ==
    ASSUME NEW S \in Nat \ {0}, NEW a \in Nat, a < S
    PROVE  a % S = a
  OBVIOUS

\* One turn round the ring comes back to the same index.
LEMMA ModTurn ==
    ASSUME NEW S \in Nat \ {0}, NEW a \in Nat
    PROVE  (a + S) % S = a % S
  <1> DEFINE b == a + S
             p == a \div S
             r == a % S
             q == b \div S
             t == b % S
  <1>1. a = S * p + r /\ p \in Nat /\ r \in 0..(S - 1)
    BY DivMod
  <1>2. b = S * q + t /\ q \in Nat /\ t \in 0..(S - 1)
    <2>1. b \in Nat
      OBVIOUS
    <2> HIDE DEF b
    <2> QED BY <2>1, DivMod
  <1>3. b = a + S
    OBVIOUS
  <1> HIDE DEF b, p, r, q, t
  <1>4. S * (p + 1) + r = S * q + t
    BY <1>1, <1>2, <1>3
  <1>5. r = t
    BY <1>1, <1>2, <1>4, DivModUnique
  <1> QED BY <1>5 DEF r, t, b

\* Less than one turn apart, different samples have different indexes.
LEMMA ModDistinct ==
    ASSUME NEW S \in Nat \ {0}, NEW a \in Nat, NEW b \in Nat,
           a <= b, b < a + S, a % S = b % S
    PROVE  a = b
  <1> DEFINE r == a % S
             p == a \div S
             q == b \div S
  <1>1. a = S * p + r /\ b = S * q + r /\ p \in Nat /\ q \in Nat /\ r \in 0..(S - 1)
    BY DivMod
  <1> HIDE DEF r, p, q
  <1>2. S * q + 0 = S * p + (b - a)
    BY <1>1
  <1> QED BY <1>1, <1>2, DivModUnique

\* In the second turn the remainder is the distance from its start.
LEMMA ModSecondTurn ==
    ASSUME NEW S \in Nat \ {0}, NEW k \in Nat, S <= k, k < 2 * S
    PROVE  k % S = k - S
  <1>1. k - S \in Nat /\ k - S < S /\ (k - S) + S = k
    OBVIOUS
  <1>2. ((k - S) + S) % S = (k - S) % S
    BY <1>1, ModTurn
  <1>3. (k - S) % S = k - S
    BY <1>1, ModSmall
  <1> QED BY <1>1, <1>2, <1>3
-----------------------------------------------------------------------------
(* What Store does to the ring.                                            *)

\* While the list is not full, the sample becomes its last element.
LEMMA AppendKeepsRing ==
    ASSUME NEW size \in Nat \ {0}, NEW n \in Nat, NEW ring, RingOK(ring, n, size),
           NEW sndict \in Snapshot, sndict.at = n + 1, n + 1 <= size
    PROVE  RingOK(Append(ring, sndict), n + 1, size)
  <1>1. /\ ring \in Seq(Snapshot)
        /\ Len(ring) = n
        /\ \A i \in 1..n : SlotOK(ring[i], i, n, size)
    BY DEF RingOK
  <1> DEFINE new == Append(ring, sndict)
  <1>2. /\ new \in Seq(Snapshot) /\ Len(new) = n + 1
        /\ new[n + 1] = sndict /\ \A i \in 1..n : new[i] = ring[i]
    BY <1>1
  <1> HIDE DEF new
  <1>3. ASSUME NEW i \in 1..n PROVE SlotOK(new[i], i, n + 1, size)
    <2>1. SlotOK(ring[i], i, n, size) /\ new[i] = ring[i]
      BY <1>1, <1>2
    <2> QED BY <2>1 DEF SlotOK, NextWrite
  <1>4. SlotOK(new[n + 1], n + 1, n + 1, size)
    BY <1>2 DEF SlotOK, NextWrite
  <1>5. RingOK(new, n + 1, size)
    BY <1>2, <1>3, <1>4 DEF RingOK
  <1> QED BY <1>5 DEF new

\* Once it is full, the sample replaces the one whose turn it is, and no other.
LEMMA WrapKeepsRing ==
    ASSUME NEW size \in Nat \ {0}, NEW n \in Nat, NEW ring, RingOK(ring, n, size),
           NEW sndict \in Snapshot, sndict.at = n + 1, n + 1 > size
    PROVE  RingOK([ring EXCEPT ![((n + 1) % size) + 1] = sndict], n + 1, size)
  <1> DEFINE m == n + 1
             r == m % size
             new == [ring EXCEPT ![r + 1] = sndict]
  <1>1. /\ ring \in Seq(Snapshot)
        /\ Len(ring) = size
        /\ \A i \in 1..size : SlotOK(ring[i], i, n, size)
    BY DEF RingOK
  <1>2. m \in Nat /\ m = n + 1
    OBVIOUS
  <1>3. r \in 0..(size - 1)
    <2> HIDE DEF m
    <2> QED BY <1>2, DivMod
  <1>r. m % size = r
    OBVIOUS
  <1> HIDE DEF m, r
  <1>4. /\ new \in Seq(Snapshot) /\ Len(new) = size
        /\ new[r + 1] = sndict /\ \A i \in 1..size : i # r + 1 => new[i] = ring[i]
    BY <1>1, <1>3
  <1> HIDE DEF new
  <1>5. SlotOK(new[r + 1], r + 1, m, size)
    BY <1>2, <1>3, <1>4, <1>r DEF SlotOK, NextWrite
  <1>6. ASSUME NEW i \in 1..size, i # r + 1 PROVE SlotOK(new[i], i, m, size)
    <2> DEFINE at == ring[i].at
    <2>1. SlotOK(ring[i], i, n, size) /\ new[i] = ring[i]
      BY <1>1, <1>4, <1>6
    <2>2. at \in 1..n /\ at \in Nat
      BY <2>1 DEF SlotOK
    <2>3. m # NextWrite(at, i, size)
      <3>1. CASE at > size
        <4>1. at % size = i - 1
          BY <2>1, <3>1 DEF SlotOK
        <4>2. (at + size) % size = at % size
          BY <2>2, ModTurn
        <4> QED BY <3>1, <4>1, <4>2, <1>r, <1>3, <1>6 DEF NextWrite
      <3>2. CASE at <= size /\ i = 1
        <4>1. (2 * size) % size = 0
          <5>1. size + size = 2 * size
            OBVIOUS
          <5>2. (size + size) % size = size % size
            BY ModTurn
          <5>3. size % size = 0
            OBVIOUS
          <5> QED BY <5>1, <5>2, <5>3
        <4>2. NextWrite(at, i, size) = 2 * size
          BY <2>2, <3>2 DEF NextWrite
        <4>3. m # 2 * size
          BY <3>2, <4>1, <1>r, <1>3, <1>6
        <4> QED BY <4>2, <4>3
      <3>3. CASE at <= size /\ i # 1
        <4>1. (size + i - 1) % size = i - 1
          <5>1. i - 1 \in Nat /\ i - 1 < size /\ (i - 1) + size = size + i - 1
            OBVIOUS
          <5>2. ((i - 1) + size) % size = (i - 1) % size
            BY <5>1, ModTurn
          <5>3. (i - 1) % size = i - 1
            BY <5>1, ModSmall
          <5> QED BY <5>1, <5>2, <5>3
        <4>2. NextWrite(at, i, size) = size + i - 1
          BY <2>2, <3>3 DEF NextWrite
        <4>3. m # size + i - 1
          BY <4>1, <1>r, <1>3, <1>6
        <4> QED BY <4>2, <4>3
      <3> QED BY <2>2, <3>1, <3>2, <3>3
    <2>4. n < NextWrite(at, i, size)
      BY <2>1 DEF SlotOK
    <2>5. NextWrite(at, i, size) \in Int
      BY <2>2 DEF NextWrite
    <2>6. m < NextWrite(at, i, size)
      BY <2>3, <2>4, <2>5, <1>2
    <2> QED BY <2>1, <2>2, <2>6, <1>2 DEF SlotOK
  <1>7. \A i \in 1..size : SlotOK(new[i], i, m, size)
    BY <1>3, <1>5, <1>6
  <1>8. RingOK(new, m, size)
    BY <1>2, <1>4, <1>7 DEF RingOK
  <1> QED BY <1>8 DEF new, m, r

\* The n-th Store keeps the ring in order, whichever branch it takes.
LEMMA StoreKeepsRing ==
    ASSUME NEW size \in Nat \ {0}, NEW n \in Nat, NEW ring, RingOK(ring, n, size),
           NEW sndict \in Snapshot, sndict.at = n + 1
    PROVE  RingOK(Store(ring, n + 1, size, sndict), n + 1, size)
  <1>1. CASE n + 1 <= size
    BY <1>1, AppendKeepsRing DEF Store
  <1>2. CASE n + 1 > size
    BY <1>2, WrapKeepsRing DEF Store
  <1> QED BY <1>1, <1>2
-----------------------------------------------------------------------------
(* What a ring that is in order holds.                                     *)

\* A sample of the last turn that was stored by index is where it was stored.
LEMMA WrappedSample ==
    ASSUME NEW size \in Nat \ {0}, NEW n \in Nat, NEW ring, RingOK(ring, n, size),
           NEW k \in Nat, size < k, k <= n, n - size < k
    PROVE  /\ (k % size) + 1 \in 1..Len(ring)
           /\ ring[(k % size) + 1].at = k
  <1> DEFINE r == k % size
             i == r + 1
             at == ring[i].at
  <1>1. r \in 0..(size - 1)
    BY DivMod
  <1>r. k % size = r
    OBVIOUS
  <1> HIDE DEF r
  <1>2. i \in 1..size /\ Len(ring) = size /\ SlotOK(ring[i], i, n, size)
    BY <1>1 DEF RingOK
  <1>3. at \in 1..n /\ at \in Nat /\ n < NextWrite(at, i, size)
    BY <1>2 DEF SlotOK
  <1>4. CASE at > size
    <2>1. at % size = k % size
      BY <1>2, <1>4, <1>1, <1>r DEF SlotOK
    <2>2. n < at + size
      BY <1>3, <1>4 DEF NextWrite
    <2>3. CASE at <= k
      <3>1. k < at + size
        BY <2>2, <1>3
      <3>2. at = k
        BY <2>1, <2>3, <3>1, <1>3, ModDistinct
      <3> QED BY <3>2, <1>2 DEF r
    <2>4. CASE k <= at
      <3>1. at < k + size
        BY <1>3
      <3>2. at = k
        BY <2>1, <2>4, <3>1, <1>3, ModDistinct
      <3> QED BY <3>2, <1>2 DEF r
    <2> QED BY <1>3, <2>3, <2>4
  <1>5. CASE at <= size
    <2>1. n < 2 * size
      BY <1>2, <1>3, <1>5 DEF NextWrite
    <2>2. k % size = k - size
      <3>1. size <= k /\ k < 2 * size
        BY <2>1
      <3> QED BY <3>1, ModSecondTurn
    <2>3. k = size + i - 1
      BY <2>2, <1>r, <1>1
    <2>4. n < size + i - 1
      <3>1. i # 1
        BY <2>3
      <3> QED BY <3>1, <1>3, <1>5 DEF NextWrite
    <2> QED BY <2>3, <2>4, <1>2
  <1> QED BY <1>3, <1>4, <1>5

\* An appended sample stays where it was appended until its slot's next turn.
LEMMA AppendedSample ==
    ASSUME NEW size \in Nat \ {0}, NEW n \in Nat, NEW ring, RingOK(ring, n, size),
           NEW k \in 1..n, k <= size, n < NextWrite(k, k, size)
    PROVE  k \in 1..Len(ring) /\ ring[k].at = k
  <1> DEFINE at == ring[k].at
  <1>1. k \in 1..Len(ring) /\ SlotOK(ring[k], k, n, size)
    BY DEF RingOK
  <1>2. at \in 1..n /\ (at <= size => at = k)
    BY <1>1 DEF SlotOK
  <1>3. ASSUME at > size PROVE FALSE
    <2>1. at % size = k - 1
      BY <1>1, <1>3 DEF SlotOK
    <2>2. n < 2 * size
      BY DEF NextWrite
    <2>3. at % size = at - size
      BY <1>2, <1>3, <2>2, ModSecondTurn
    <2> QED BY <1>2, <1>3, <2>1, <2>3 DEF NextWrite
  <1> QED BY <1>1, <1>2, <1>3

\* The ring holds exactly the window, and nothing twice.
LEMMA RingHoldsWindow ==
    ASSUME NEW size \in Nat \ {0}, NEW n \in Nat, NEW ring, RingOK(ring, n, size)
    PROVE  /\ {ring[i].at : i \in 1..Len(ring)} = Window(n, size)
           /\ \A i, j \in 1..Len(ring) : ring[i].at = ring[j].at => i = j
  <1>0. Len(ring) \in Nat /\ Len(ring) = IF n <= size THEN n ELSE size
    BY DEF RingOK
  <1>1. ASSUME NEW i \in 1..Len(ring) PROVE ring[i].at \in Window(n, size)
    <2> DEFINE at == ring[i].at
    <2>1. SlotOK(ring[i], i, n, size)
      BY DEF RingOK
    <2>2. at \in 1..n /\ (at <= size => at = i) /\ n < NextWrite(at, i, size)
      BY <2>1 DEF SlotOK
    <2> HIDE DEF at
    <2>3. at \in Window(n, size)
      BY <1>0, <2>2 DEF NextWrite, Window
    <2> QED BY <2>3 DEF at
  <1>2. ASSUME NEW k \in Window(n, size)
        PROVE  \E i \in 1..Len(ring) : ring[i].at = k
    <2>1. k \in 1..n
      BY DEF Window
    <2>2. CASE k <= size
      <3>1. n < NextWrite(k, k, size)
        BY <2>1, <2>2 DEF Window, NextWrite
      <3> QED BY <2>1, <2>2, <3>1, AppendedSample
    <2>3. CASE k > size
      <3>1. n - size < k
        BY <2>1, <2>3 DEF Window
      <3> QED BY <2>1, <2>3, <3>1, WrappedSample
    <2> QED BY <2>1, <2>2, <2>3
  <1>3. ASSUME NEW i \in 1..Len(ring), NEW j \in 1..Len(ring), ring[i].at = ring[j].at
        PROVE  i = j
    <2>1. SlotOK(ring[i], i, n, size) /\ SlotOK(ring[j], j, n, size)
      BY DEF RingOK
    <2>2. CASE ring[i].at <= size
      BY <1>3, <2>1, <2>2 DEF SlotOK
    <2>3. CASE ring[i].at > size
      BY <1>3, <2>1, <2>3, <1>0 DEF SlotOK
    <2> QED BY <2>1, <2>2, <2>3 DEF SlotOK
  <1> QED BY <1>1, <1>2, <1>3
-----------------------------------------------------------------------------
(* The inductive invariant.                                                *)

\* It holds before the agent has a message.
LEMMA InitInv == Init => IInv
  <1> SUFFICES ASSUME Init PROVE IInv
    OBVIOUS
  <1>1. pc = "blpop" /\ report = None
    BY DEF Init
  <1>2. /\ msgdict \in Messages
        /\ config \in [snapshotSize : Nat, maxSnapshots : Nat]
    BY CommandsAssumption DEF Init, Messages, NoMessage
  <1>3. readable \in BOOLEAN
    BY DEF Init
  <1>4. snapshots \in Seq(Snapshot) /\ firstSnapshot \in Snapshot \cup {None}
    BY DEF Init
  <1>5. /\ Application \in ProcessStates /\ Test \in ProcessStates
        /\ forked \subseteq Descendants /\ toMeasure \subseteq Descendants
        /\ logs \subseteq {"app.log", "test.log"}
        /\ container \in {"running", "exited"}
    BY DEF Init, ProcessStates
  <1>6. packets \in Nat /\ total_cpu_percent \in Nat /\ currentSnapshot \in Nat
    BY DEF Init
  <1>7. TypeOK
    BY <1>1, <1>2, <1>3, <1>4, <1>5, <1>6 DEF TypeOK, Sampling, Ended
  <1> QED BY <1>1, <1>7 DEF IInv, Sampling

\* A sample is well-typed.
LEMMA SampleType ==
    ASSUME TypeOK, NEW rss \in Rss, NEW moved \in PacketMoves
    PROVE  /\ [at |-> currentSnapshot + 1, cpu |-> total_cpu_percent, memory |-> rss,
               packets |-> packets + moved] \in Snapshot
           /\ packets + moved \in Nat
  <1>1. rss \in Nat /\ moved \in Nat
    BY ReadingsAssumption DEF Rss
  <1>2. packets \in Nat /\ total_cpu_percent \in Nat /\ currentSnapshot \in Nat
    BY DEF TypeOK
  <1> QED BY <1>1, <1>2 DEF Snapshot

\* The interesting step: a sample is taken and stored.
LEMMA TakeSnapshotInv == IInv /\ TakeSnapshot => IInv'
  <1> SUFFICES ASSUME IInv, TakeSnapshot PROVE IInv'
    OBVIOUS
  <1> DEFINE n == currentSnapshot
             size == config.snapshotSize
  <1>1. /\ TypeOK /\ pc = "measure" /\ pc \in Sampling
        /\ config \in Configs /\ n < config.maxSnapshots
        /\ RingOK(snapshots, n, size) /\ EndsOK
        /\ report = None
    BY DEF IInv, TakeSnapshot, Sampling
  <1>2. n \in Nat /\ size \in Nat /\ config.maxSnapshots \in Nat
    BY <1>1 DEF TypeOK
  <1>3. PICK rss \in Rss, moved \in PacketMoves :
          LET sndict == [at |-> n + 1, cpu |-> total_cpu_percent, memory |-> rss,
                         packets |-> packets + moved]
          IN /\ packets' = packets + moved
             /\ currentSnapshot' = n + 1
             /\ \/ /\ size > 0
                   /\ snapshots' = Store(snapshots, n + 1, size, sndict)
                   /\ firstSnapshot' = IF firstSnapshot = None THEN sndict ELSE firstSnapshot
                   /\ pc' = "loop"
                \/ /\ size = 0
                   /\ pc' = "crashed"
                   /\ UNCHANGED <<snapshots, firstSnapshot>>
    BY DEF TakeSnapshot
  <1> DEFINE sndict == [at |-> n + 1, cpu |-> total_cpu_percent, memory |-> rss,
                        packets |-> packets + moved]
  <1>4. sndict \in Snapshot /\ packets + moved \in Nat
    BY <1>1, SampleType
  <1>5. sndict.at = n + 1 /\ sndict.packets = packets + moved
    OBVIOUS
  <1>6. UNCHANGED <<msgdict, config, toMeasure, total_cpu_percent, logs, report,
                    Application, Test, forked, readable, container>>
    BY DEF TakeSnapshot, procVars
  <1> HIDE DEF sndict
  <1>7. CASE size = 0
    <2>1. pc' = "crashed" /\ UNCHANGED <<snapshots, firstSnapshot>>
      BY <1>3, <1>7, <1>2
    <2>2. TypeOK'
      BY <1>1, <1>2, <1>3, <1>4, <1>6, <2>1 DEF TypeOK, Sampling, Ended
    <2> QED BY <1>1, <1>6, <2>1, <2>2 DEF IInv, Sampling
  <1>8. CASE size > 0
    <2>1. /\ pc' = "loop" /\ packets' = packets + moved /\ currentSnapshot' = n + 1
          /\ snapshots' = Store(snapshots, n + 1, size, sndict)
          /\ firstSnapshot' = IF firstSnapshot = None THEN sndict ELSE firstSnapshot
      BY <1>3, <1>8, <1>2 DEF sndict
    <2>2. RingOK(snapshots', n + 1, size)
      BY <1>1, <1>2, <1>4, <1>5, <1>8, <2>1, StoreKeepsRing
    <2>3. snapshots' \in Seq(Snapshot)
      BY <2>2 DEF RingOK
    <2>4. TypeOK'
      BY <1>1, <1>2, <1>4, <1>6, <2>1, <2>3 DEF TypeOK, Sampling, Ended
    <2>5. EndsOK'
      <3>0. None \notin Snapshot
        BY CommandsAssumption DEF Snapshot
      <3>1. (currentSnapshot = 0 <=> firstSnapshot = None)'
        BY <1>1, <1>2, <1>4, <2>1, <3>0 DEF EndsOK
      <3>2. ASSUME NEW i \in 1..Len(snapshots')
            PROVE  \/ snapshots'[i] = sndict
                   \/ i \in 1..Len(snapshots) /\ snapshots'[i] = snapshots[i]
        <4>1. snapshots \in Seq(Snapshot)
          BY <1>1 DEF TypeOK
        <4>2. CASE n + 1 <= size
          BY <1>4, <2>1, <4>1, <4>2 DEF Store
        <4>3. CASE ~(n + 1 <= size)
          <5>1. snapshots' = [snapshots EXCEPT ![((n + 1) % size) + 1] = sndict]
            BY <2>1, <4>3 DEF Store
          <5> HIDE DEF size, n
          <5> QED BY <4>1, <5>1
        <4> QED BY <4>2, <4>3
      <3>3. ASSUME NEW i \in 1..Len(snapshots)
            PROVE  snapshots[i].at \in 1..n
        BY <1>1 DEF RingOK, SlotOK
      <3>4. ASSUME NEW i \in 1..Len(snapshots')
            PROVE  /\ snapshots'[i].at = n + 1 => snapshots'[i].packets = packets'
                   /\ snapshots'[i].at = 1 => snapshots'[i] = firstSnapshot'
        <4>1. CASE snapshots'[i] = sndict
          BY <4>1, <1>1, <1>2, <1>5, <2>1 DEF EndsOK
        <4>2. CASE i \in 1..Len(snapshots) /\ snapshots'[i] = snapshots[i]
          <5>1. snapshots[i].at \in 1..n
            BY <4>2, <3>3
          <5>2. n # 0 /\ firstSnapshot' = firstSnapshot
            BY <5>1, <1>1, <1>2, <2>1 DEF EndsOK
          <5>3. snapshots[i].at = 1 => snapshots[i] = firstSnapshot
            BY <4>2, <1>1 DEF EndsOK
          <5> QED BY <4>2, <5>1, <5>2, <5>3, <1>2
        <4> QED BY <3>2, <4>1, <4>2
      <3> QED BY <2>1, <3>1, <3>4 DEF EndsOK
    <2>6. config' = config /\ n + 1 <= config.maxSnapshots
      BY <1>1, <1>2, <1>6
    <2> QED BY <1>1, <1>6, <2>1, <2>2, <2>4, <2>5, <2>6 DEF IInv
  <1> QED BY <1>2, <1>7, <1>8

\* Steps that leave the ring, the counter and the configuration alone preserve
\* the invariant when their move of pc stays on the same side of the loop.
LEMMA QuietStepInv ==
    ASSUME IInv, TypeOK',
           UNCHANGED <<config, packets, snapshots, currentSnapshot, firstSnapshot>>,
           pc' \in Sampling => pc \in Sampling,
           pc' = "measure" => currentSnapshot < config.maxSnapshots,
           pc' \in {"report", "remove"} => currentSnapshot = config.maxSnapshots,
           report' # None => pc' \in {"remove", "exited"}
    PROVE  IInv'
  BY DEF IInv, EndsOK

\* The report of a ring that holds a sample is well-typed: in particular the
\* index of the last snapshot is inside the ring.
LEMMA ReportType ==
    ASSUME NEW ring \in Seq(Snapshot), ring # <<>>, NEW first \in Snapshot, NEW n \in Nat
    PROVE  /\ ReportOf(ring, first, n).cpuData \in Seq(Nat)
           /\ ReportOf(ring, first, n).memoryData \in Seq(Nat)
           /\ ReportOf(ring, first, n).packetData \in Seq(Nat)
           /\ Len(ReportOf(ring, first, n).cpuData) = Len(ring)
           /\ ReportOf(ring, first, n).totalPackets \in Int
           /\ ReportOf(ring, first, n).totalPackets
                = ring[(n % Len(ring)) + 1].packets - first.packets
  <1> DEFINE len == Len(ring)
             r == n % len
  <1>1. len \in Nat \ {0} /\ \A i \in 1..len : ring[i] \in Snapshot
    OBVIOUS
  <1>2. r \in 0..(len - 1)
    <2> HIDE DEF len
    <2> QED BY <1>1, DivMod
  <1>3. ring[r + 1].packets \in Nat /\ first.packets \in Nat
    <2>1. ring[r + 1] \in Snapshot
      <3> HIDE DEF r
      <3> QED BY <1>1, <1>2
    <2> QED BY <2>1 DEF Snapshot
  <1>4. ReportOf(ring, first, n).totalPackets = ring[r + 1].packets - first.packets
    BY DEF ReportOf, LastSnapshot
  <1>5. /\ [i \in 1..len |-> ring[i].cpu] \in Seq(Nat)
        /\ [i \in 1..len |-> ring[i].memory] \in Seq(Nat)
        /\ [i \in 1..len |-> ring[i].packets] \in Seq(Nat)
        /\ Len([i \in 1..len |-> ring[i].cpu]) = len
    <2> HIDE DEF len
    <2> QED BY <1>1 DEF Snapshot
  <1>6. /\ ReportOf(ring, first, n).cpuData = [i \in 1..len |-> ring[i].cpu]
        /\ ReportOf(ring, first, n).memoryData = [i \in 1..len |-> ring[i].memory]
        /\ ReportOf(ring, first, n).packetData = [i \in 1..len |-> ring[i].packets]
    BY DEF ReportOf
  <1>7. ring[r + 1].packets - first.packets \in Int
    BY <1>3
  <1> QED BY <1>4, <1>5, <1>6, <1>7

\* Writing the report preserves the invariant.
LEMMA ReportInv == IInv /\ ComputePerformanceReport => IInv'
  <1> SUFFICES ASSUME IInv, ComputePerformanceReport PROVE IInv'
    OBVIOUS
  <1>1. TypeOK /\ pc = "report" /\ pc \in Sampling
    BY DEF IInv, ComputePerformanceReport, Sampling
  <1>2. UNCHANGED <<msgdict, config, toMeasure, total_cpu_percent, snapshots, currentSnapshot,
                    firstSnapshot, logs, Application, Test, forked, readable, packets, container>>
    BY DEF ComputePerformanceReport, procVars
  <1>3. CASE snapshots # <<>> /\ report' = ReportOf(snapshots, firstSnapshot, currentSnapshot)
             /\ pc' = "remove"
    <2>1. snapshots \in Seq(Snapshot) /\ currentSnapshot \in Nat
      BY <1>1 DEF TypeOK
    <2>2. firstSnapshot \in Snapshot
      <3>1. Len(snapshots) # 0
        BY <1>3, <2>1
      <3>2. currentSnapshot # 0
        <4>1. RingOK(snapshots, currentSnapshot, config.snapshotSize) /\ config.snapshotSize \in Nat
          BY <1>1 DEF IInv, TypeOK
        <4> QED BY <3>1, <4>1, <2>1 DEF RingOK
      <3>3. firstSnapshot # None
        BY <1>1, <3>2 DEF IInv, EndsOK
      <3> QED BY <1>1, <3>3 DEF TypeOK
    <2>3. /\ report'.cpuData \in Seq(Nat) /\ report'.memoryData \in Seq(Nat)
          /\ report'.packetData \in Seq(Nat) /\ report'.totalPackets \in Int
      BY <1>3, <2>1, <2>2, ReportType
    <2>4. TypeOK'
      BY <1>1, <1>2, <1>3, <2>3 DEF TypeOK, Sampling
    <2> QED BY <1>1, <1>2, <1>3, <2>4, QuietStepInv DEF IInv, Sampling
  <1>4. CASE report' = report /\ pc' = "crashed"
    <2>1. TypeOK'
      BY <1>1, <1>2, <1>4 DEF TypeOK, Ended
    <2>2. report' = None
      BY <1>1, <1>4 DEF IInv
    <2> QED BY <1>2, <1>4, <2>1, <2>2, QuietStepInv DEF Sampling
  <1> QED BY <1>3, <1>4 DEF ComputePerformanceReport

\* Every step of the agent preserves the invariant.
LEMMA AgentStepInv == IInv /\ AgentStep => IInv'
  <1> SUFFICES ASSUME IInv, AgentStep PROVE IInv'
    OBVIOUS
  <1>0. TypeOK /\ (report # None => pc \in {"remove", "exited"})
    BY DEF IInv
  <1>1. CASE StartNothing
    <2>1. TypeOK'
      BY <1>0, <1>1 DEF StartNothing, TypeOK, Sampling, Ended, procVars
    <2> QED BY <1>0, <1>1, <2>1, QuietStepInv DEF StartNothing, Sampling
  <1>2. CASE StartApplication
    <2>1. TypeOK'
      BY <1>0, <1>2 DEF StartApplication, TypeOK, Sampling, Ended, ProcessStates
    <2> QED BY <1>0, <1>2, <2>1, QuietStepInv DEF StartApplication, Sampling
  <1>3. CASE StartTest
    <2>1. TypeOK'
      BY <1>0, <1>3 DEF StartTest, TypeOK, Sampling, Ended, ProcessStates
    <2> QED BY <1>0, <1>3, <2>1, QuietStepInv DEF StartTest, Sampling
  <1>4. ASSUME NEW c \in Configs, LoadConfig(c) PROVE IInv'
    <2>0. c \in [snapshotSize : Nat, maxSnapshots : Nat]
      BY ConfigsAssumption
    <2>1. /\ pc' = "loop" /\ config' = c /\ snapshots' = <<>> /\ currentSnapshot' = 0
          /\ firstSnapshot' = None
          /\ UNCHANGED <<msgdict, toMeasure, total_cpu_percent, logs, report, Application,
                         Test, forked, readable, packets, container>>
      BY <1>4 DEF LoadConfig, procVars
    <2>2. snapshots' \in Seq(Snapshot) /\ Len(snapshots') = 0
      BY <2>1
    <2>3. TypeOK'
      BY <1>0, <2>0, <2>1, <2>2 DEF TypeOK, Sampling
    <2>4. RingOK(snapshots', currentSnapshot', config'.snapshotSize)
      BY <2>0, <2>1, <2>2 DEF RingOK
    <2>5. EndsOK'
      BY <2>1, <2>2 DEF EndsOK
    <2> QED BY <1>0, <1>4, <2>0, <2>1, <2>3, <2>4, <2>5 DEF IInv, LoadConfig
  <1>5. CASE BeginSnapshot
    <2>1. TypeOK'
      BY <1>0, <1>5 DEF BeginSnapshot, TypeOK, Sampling, Children, procVars
    <2> QED BY <1>0, <1>5, <2>1, QuietStepInv DEF BeginSnapshot, Sampling
  <1>6. ASSUME NEW c \in Descendants, MeasureChild(c) PROVE IInv'
    <2>1. total_cpu_percent' \in Nat
      BY <1>0, <1>6, ReadingsAssumption DEF MeasureChild, TypeOK
    <2>2. TypeOK'
      BY <1>0, <1>6, <2>1 DEF MeasureChild, TypeOK, procVars
    <2> QED BY <1>0, <1>6, <2>2, QuietStepInv DEF MeasureChild, IInv, Sampling
  <1>7. CASE TakeSnapshot
    BY <1>7, TakeSnapshotInv
  <1>8. CASE KillProcesses
    <2>1. TypeOK'
      BY <1>0, <1>8 DEF KillProcesses, TestKilled, TypeOK, Sampling, Kill, ProcessStates
    <2>2. currentSnapshot = config.maxSnapshots
      BY <1>0, <1>8 DEF KillProcesses, LoopDone, IInv, Sampling, TypeOK
    <2> QED BY <1>0, <1>8, <2>1, <2>2, QuietStepInv DEF KillProcesses, Sampling
  <1>10. CASE RemoveLogs
    <2>1. TypeOK'
      BY <1>0, <1>10 DEF RemoveLogs, TypeOK, Sampling, Ended, procVars
    <2> QED BY <1>0, <1>10, <2>1, QuietStepInv DEF RemoveLogs, Sampling
  <1>11. CASE ContainerExits
    <2>1. TypeOK'
      BY <1>0, <1>11 DEF ContainerExits, TypeOK, agentVars, Kill, ProcessStates
    <2> QED BY <1>0, <1>11, <2>1, QuietStepInv DEF ContainerExits, agentVars, Sampling, Ended
  <1>9. CASE ComputePerformanceReport
    BY <1>9, ReportInv
  <1> QED BY <1>1, <1>2, <1>3, <1>4, <1>5, <1>6, <1>7, <1>8, <1>9, <1>10, <1>11 DEF AgentStep

\* Nothing the queue, the application or the test does breaks it.
LEMMA EnvironmentInv == IInv /\ Environment => IInv'
  <1> SUFFICES ASSUME IInv, Environment PROVE IInv'
    OBVIOUS
  <1>0. TypeOK /\ (report # None => pc \in {"remove", "exited"})
    BY DEF IInv
  <1>1. ASSUME NEW m \in Messages, Receive(m) PROVE IInv'
    <2>1. TypeOK'
      BY <1>0, <1>1 DEF Receive, TypeOK, Sampling, procVars
    <2> QED BY <1>0, <1>1, <2>1, QuietStepInv DEF Receive, Sampling
  <1>2. CASE ConnectionError
    <2>1. TypeOK'
      BY <1>0, <1>2 DEF ConnectionError, TypeOK, Ended, procVars
    <2> QED BY <1>0, <1>2, <2>1, QuietStepInv DEF ConnectionError, Sampling
  <1>3. ASSUME \/ ApplicationEnds \/ TestEnds
               \/ \E c \in Descendants : Fork(c) \/ ForkedEnds(c)
        PROVE  IInv'
    <2>1. UNCHANGED <<agentVars, readable, packets, container>>
      BY <1>3 DEF ApplicationEnds, TestEnds, Fork, ForkedEnds
    <2>2. /\ Application' \in ProcessStates /\ Test' \in ProcessStates
          /\ forked' \subseteq Descendants
      BY <1>0, <1>3 DEF ApplicationEnds, TestEnds, Fork, ForkedEnds, TypeOK, ProcessStates
    <2>3. TypeOK'
      BY <1>0, <2>1, <2>2 DEF TypeOK, agentVars
    <2>4. /\ UNCHANGED <<config, packets, snapshots, currentSnapshot, firstSnapshot>>
          /\ pc' = pc /\ report' = report
      BY <2>1 DEF agentVars
    <2> QED BY <2>3, <2>4, QuietStepInv DEF IInv
  <1> QED BY <1>1, <1>2, <1>3 DEF Environment

\* The inductive step.
LEMMA NextInv == IInv /\ [Next]_vars => IInv'
  <1> SUFFICES ASSUME IInv, [Next]_vars PROVE IInv'
    OBVIOUS
  <1>1. CASE Next
    BY <1>1, AgentStepInv, EnvironmentInv DEF Next
  <1>2. CASE UNCHANGED vars
    BY <1>2 DEF vars, agentVars, procVars, IInv, TypeOK, EndsOK
  <1> QED BY <1>1, <1>2

\* The ring, the counter and the first sample are what the invariant says in
\* every reachable state.
THEOREM InductiveInvariant == Spec => []IInv
  BY InitInv, NextInv, PTL DEF Spec
-----------------------------------------------------------------------------
(* The theorems.                                                           *)

\* Whatever agent.yaml, the queue and the processes do, the agent's state stays
\* well-typed; the report's series and totals are the interesting part.
THEOREM TypeCorrect == Spec => []TypeOK
  <1>1. IInv => TypeOK
    BY DEF IInv
  <1> QED BY <1>1, InductiveInvariant, PTL

\* For every snapshotSize and maxSnapshots, the ring of agent.py:129-132 holds
\* exactly the samples of the window, each once.
THEOREM RetainedWindowHolds == Spec => []RetainedWindow
  <1>1. IInv => RetainedWindow
    <2> SUFFICES ASSUME IInv, pc \in Sampling
                 PROVE  /\ Retained = Window(currentSnapshot, config.snapshotSize)
                        /\ \A i, j \in 1..Len(snapshots) :
                             snapshots[i].at = snapshots[j].at => i = j
      BY DEF RetainedWindow
    <2>1. /\ RingOK(snapshots, currentSnapshot, config.snapshotSize)
          /\ currentSnapshot \in Nat /\ config.snapshotSize \in Nat
      BY DEF IInv, TypeOK
    <2>2. CASE config.snapshotSize # 0
      BY <2>1, <2>2, RingHoldsWindow DEF Retained
    <2>3. CASE config.snapshotSize = 0
      <3>1. Len(snapshots) = 0
        BY <2>1, <2>3 DEF RingOK
      <3>2. Window(currentSnapshot, 0) = {}
        BY <2>1 DEF Window
      <3>3. Retained = {}
        BY <3>1 DEF Retained
      <3> QED BY <2>3, <3>1, <3>2, <3>3
    <2> QED BY <2>2, <2>3
  <1> QED BY <1>1, InductiveInvariant, PTL

\* What is written is never disturbed: a predicate of the report, the counter
\* and the first sample that holds when the report is written holds ever after.
LEMMA AfterReport ==
    ASSUME IInv, [Next]_vars, report # None
    PROVE  UNCHANGED <<report, packets, firstSnapshot, currentSnapshot, config>>
  <1>1. pc \in {"remove", "exited"}
    BY DEF IInv
  <1>2. CASE AgentStep
    BY <1>1, <1>2 DEF AgentStep, StartNothing, StartApplication, StartTest, LoadConfig,
         BeginSnapshot, MeasureChild, TakeSnapshot, KillProcesses, ComputePerformanceReport,
         RemoveLogs, ContainerExits, agentVars
  <1>3. CASE Environment
    BY <1>1, <1>3 DEF Environment, Receive, ConnectionError, ApplicationEnds, TestEnds,
         Fork, ForkedEnds, agentVars
  <1>4. CASE UNCHANGED vars
    BY <1>4 DEF vars, agentVars
  <1> QED BY <1>2, <1>3, <1>4 DEF Next

\* The only step that writes a report, and what it puts in the totals.
LEMMA ReportWritten ==
    ASSUME IInv, [Next]_vars, report = None, report' # None
    PROVE  /\ pc = "report" /\ pc' = "remove"
           /\ snapshots \in Seq(Snapshot) /\ snapshots # <<>>
           /\ UNCHANGED <<packets, firstSnapshot, currentSnapshot, config, Application, Test>>
           /\ firstSnapshot \in Snapshot
           /\ Len(report'.cpuData) = Len(snapshots)
           /\ report'.totalPackets
                = snapshots[(currentSnapshot % Len(snapshots)) + 1].packets - firstSnapshot.packets
  <1>1. CASE ComputePerformanceReport
    <2>1. /\ pc = "report" /\ pc' = "remove" /\ snapshots # <<>>
          /\ UNCHANGED <<packets, firstSnapshot, currentSnapshot, config, Application, Test>>
          /\ report' = ReportOf(snapshots, firstSnapshot, currentSnapshot)
      BY <1>1 DEF ComputePerformanceReport, ringVars, hostVars, procVars
    <2>2. /\ snapshots \in Seq(Snapshot) /\ currentSnapshot \in Nat
          /\ firstSnapshot \in Snapshot \cup {None} /\ config.snapshotSize \in Nat
      BY DEF IInv, TypeOK
    <2>3. RingOK(snapshots, currentSnapshot, config.snapshotSize) /\ EndsOK
      BY <2>1 DEF IInv, Sampling
    <2>4. Len(snapshots) # 0
      BY <2>1, <2>2
    <2>5. currentSnapshot # 0
      BY <2>2, <2>3, <2>4 DEF RingOK
    <2>6. firstSnapshot \in Snapshot
      BY <2>2, <2>3, <2>5 DEF EndsOK
    <2> QED BY <2>1, <2>2, <2>6, ReportType
  <1>2. CASE AgentStep /\ ~ComputePerformanceReport
    BY <1>2 DEF AgentStep, StartNothing, StartApplication, StartTest, LoadConfig,
         BeginSnapshot, MeasureChild, TakeSnapshot, KillProcesses, RemoveLogs, ContainerExits,
         agentVars
  <1>3. CASE Environment
    BY <1>3 DEF Environment, Receive, ConnectionError, ApplicationEnds, TestEnds,
         Fork, ForkedEnds, agentVars
  <1>4. CASE UNCHANGED vars
    BY <1>4 DEF vars, agentVars
  <1> QED BY <1>1, <1>2, <1>3, <1>4 DEF Next

\* The totals the report prints (agent.py:31-41) span the run when the ring is smaller
\* than the number of samples: index currentSnapshot % snapshotSize is where the newest
\* sample went.  When every sample fits, as with the shipped agent.yaml, they are 0
\* whatever the traffic: the index is that of the first sample.
THEOREM TotalPacketsHolds == Spec => []TotalPackets
  <1>1. Init => TotalPackets
    BY DEF Init, TotalPackets
  <1>2. IInv /\ TotalPackets /\ [Next]_vars => TotalPackets'
    <2> SUFFICES ASSUME IInv, TotalPackets, [Next]_vars, report' # None
                 PROVE  report'.totalPackets = IF config'.maxSnapshots > config'.snapshotSize
                                               THEN packets' - firstSnapshot'.packets ELSE 0
      BY DEF TotalPackets
    <2>1. CASE report # None
      BY <2>1, AfterReport DEF TotalPackets
    <2>2. CASE report = None
      <3> DEFINE n == currentSnapshot
                 size == config.snapshotSize
                 last == snapshots[(n % size) + 1]
      <3>1. /\ pc = "report" /\ snapshots \in Seq(Snapshot) /\ snapshots # <<>>
            /\ UNCHANGED <<packets, firstSnapshot, config>>
            /\ firstSnapshot \in Snapshot
            /\ report'.totalPackets
                 = snapshots[(n % Len(snapshots)) + 1].packets - firstSnapshot.packets
        BY <2>2, ReportWritten
      <3>2. /\ config \in Configs /\ n = config.maxSnapshots /\ EndsOK
            /\ RingOK(snapshots, n, size)
        BY <3>1 DEF IInv, Sampling
      <3>3. n \in Nat /\ size \in Nat
        BY DEF IInv, TypeOK
      <3>4. CASE size < n
        <4>1. Len(snapshots) = size
          BY <3>2, <3>3, <3>4 DEF RingOK
        <4>2. size # 0
          BY <3>1, <4>1
        <4>3. (n % size) + 1 \in 1..Len(snapshots) /\ last.at = n
          BY <3>2, <3>3, <3>4, <4>2, WrappedSample
        <4>4. last.packets = packets
          BY <3>2, <4>3 DEF EndsOK
        <4> QED BY <3>1, <3>2, <3>4, <4>1, <4>4
      <3>5. CASE n <= size
        <4>1. Len(snapshots) = n /\ n # 0
          BY <3>1, <3>2, <3>3, <3>5 DEF RingOK
        <4>2. n % n = 0
          <5> HIDE DEF n
          <5> QED BY <3>3, <4>1
        <4>3. SlotOK(snapshots[1], 1, n, size)
          BY <3>2, <3>3, <4>1 DEF RingOK
        <4>4. snapshots[1].at = 1
          BY <3>3, <3>5, <4>3 DEF SlotOK
        <4>5. snapshots[1] = firstSnapshot
          BY <3>2, <3>3, <4>1, <4>4 DEF EndsOK
        <4>6. firstSnapshot.packets \in Nat
          BY <3>1 DEF Snapshot
        <4>7. report'.totalPackets = 0
          BY <3>1, <4>1, <4>2, <4>5, <4>6
        <4>8. ~(config'.maxSnapshots > config'.snapshotSize)
          BY <3>1, <3>2, <3>3, <3>5
        <4> QED BY <4>7, <4>8
      <3> QED BY <3>3, <3>4, <3>5
    <2> QED BY <2>1, <2>2
  <1> QED BY <1>1, <1>2, InductiveInvariant, PTL DEF Spec
-----------------------------------------------------------------------------
(* A report comes of a complete run.                                       *)

\* Processes start where the code starts them and are killed before the report.
LEMMA ProcessInvStep == TypeOK /\ ProcessInv /\ [Next]_vars => ProcessInv'
  <1> SUFFICES ASSUME TypeOK, ProcessInv, [Next]_vars PROVE ProcessInv'
    OBVIOUS
  <1> USE DEF ProcessInv, Sampling
  <1>0. Application \in ProcessStates /\ Test \in ProcessStates
    BY DEF TypeOK
  <1>1. CASE StartNothing \/ StartApplication \/ StartTest
    BY <1>1, CommandsAssumption DEF StartNothing, StartApplication, StartTest, procVars
  <1>2. CASE \/ \E c \in Configs : LoadConfig(c)
             \/ BeginSnapshot
             \/ \E c \in Descendants : MeasureChild(c)
    BY <1>2 DEF LoadConfig, BeginSnapshot, MeasureChild, procVars
  <1>3. CASE TakeSnapshot
    BY <1>3 DEF TakeSnapshot, procVars
  <1>4. CASE KillProcesses
    BY <1>0, <1>4 DEF KillProcesses, TestKilled, Kill, ProcessStates
  <1>5. CASE ComputePerformanceReport \/ RemoveLogs
    BY <1>5 DEF ComputePerformanceReport, RemoveLogs, procVars
  <1>6. CASE ContainerExits
    BY <1>6 DEF ContainerExits, Kill, Ended, agentVars
  <1>7. CASE Environment
    BY <1>7 DEF Environment, Receive, ConnectionError, ApplicationEnds, TestEnds,
         Fork, ForkedEnds, agentVars, procVars
  <1>8. CASE UNCHANGED vars
    BY <1>8 DEF vars, agentVars, procVars
  <1> QED BY <1>1, <1>2, <1>3, <1>4, <1>5, <1>6, <1>7, <1>8 DEF Next, AgentStep

\* Once there is a report nothing starts the application or the test again.
LEMMA StaysDead ==
    ASSUME IInv, [Next]_vars, report # None, Application = "ended", Test # "running"
    PROVE  Application' = "ended" /\ Test' # "running"
  <1>1. pc \in {"remove", "exited"}
    BY DEF IInv
  <1>2. CASE AgentStep
    BY <1>1, <1>2 DEF AgentStep, StartNothing, StartApplication, StartTest, LoadConfig,
         BeginSnapshot, MeasureChild, TakeSnapshot, KillProcesses, ComputePerformanceReport,
         RemoveLogs, ContainerExits, Kill, procVars
  <1>3. CASE Environment
    BY <1>1, <1>3 DEF Environment, Receive, ConnectionError, ApplicationEnds, TestEnds,
         Fork, ForkedEnds, procVars
  <1>4. CASE UNCHANGED vars
    BY <1>4 DEF vars, procVars
  <1> QED BY <1>2, <1>3, <1>4 DEF Next

\* The agent dies only of what it cannot work with, and that stays as it is.
LEMMA CauseOfDeath ==
    ASSUME IInv, ProcessInv, [Next]_vars, pc' = "crashed", pc = "crashed" => CannotWork
    PROVE  CannotWork'
  <1>1. CASE pc = "crashed"
    <2>1. UNCHANGED <<msgdict, config, readable>>
      <3>1. CASE AgentStep
        BY <1>1, <3>1 DEF AgentStep, StartNothing, StartApplication, StartTest, LoadConfig,
             BeginSnapshot, MeasureChild, TakeSnapshot, KillProcesses, RemoveLogs,
             ComputePerformanceReport, ContainerExits, agentVars, ringVars
      <3>2. CASE Environment
        BY <1>1, <3>2 DEF Environment, Receive, ConnectionError, ApplicationEnds, TestEnds,
             Fork, ForkedEnds, agentVars, ringVars, hostVars
      <3>3. CASE UNCHANGED vars
        BY <3>3 DEF vars, agentVars, ringVars, hostVars
      <3> QED BY <3>1, <3>2, <3>3 DEF Next
    <2> QED BY <1>1, <2>1 DEF CannotWork
  <1>2. CASE ConnectionError
    BY <1>2 DEF ConnectionError, ProcessInv, CannotWork
  <1>3. CASE StartNothing
    <2>1. msgdict.Application \notin Runnable \/ msgdict.Test \notin Runnable \cup {Empty}
      BY <1>3, CommandsAssumption DEF StartNothing, MagicRaises
    <2>2. msgdict' = msgdict
      BY <1>3 DEF StartNothing
    <2> QED BY <2>1, <2>2 DEF CannotWork
  <1>4. CASE StartTest
    BY <1>4 DEF StartTest, CannotWork
  <1>5. CASE TakeSnapshot
    <2>1. pc = "measure" /\ config' = config /\ config.snapshotSize = 0
      BY <1>5 DEF TakeSnapshot
    <2>2. config \in Configs
      BY <2>1 DEF IInv, Sampling
    <2> QED BY <2>1, <2>2 DEF CannotWork
  <1>6. CASE ComputePerformanceReport
    <2>1. /\ pc = "report" /\ config' = config /\ readable' = readable
          /\ snapshots = <<>> \/ ~readable
      BY <1>6 DEF ComputePerformanceReport, ringVars, hostVars
    <2>2. CASE ~readable
      BY <2>1, <2>2 DEF CannotWork
    <2>3. CASE snapshots = <<>>
      <3>1. /\ config \in Configs /\ currentSnapshot = config.maxSnapshots
            /\ RingOK(snapshots, currentSnapshot, config.snapshotSize)
        BY <2>1 DEF IInv, Sampling
      <3>2. Len(snapshots) = 0
        BY <2>3
      <3>3. config.snapshotSize = 0 \/ config.maxSnapshots = 0
        BY <3>1, <3>2 DEF RingOK
      <3> QED BY <2>1, <3>1, <3>3 DEF CannotWork
    <2> QED BY <2>1, <2>2, <2>3
  <1>7. CASE UNCHANGED vars
    BY <1>1, <1>7 DEF vars, agentVars
  <1>8. CASE AgentStep /\ pc # "crashed"
    <2>1. CASE \/ StartApplication \/ BeginSnapshot \/ KillProcesses \/ RemoveLogs
               \/ \E c \in Configs : LoadConfig(c)
               \/ \E c \in Descendants : MeasureChild(c)
               \/ ContainerExits
      BY <1>8, <2>1 DEF StartApplication, BeginSnapshot, KillProcesses, RemoveLogs, LoadConfig,
           MeasureChild, ContainerExits, agentVars
    <2> QED BY <1>3, <1>4, <1>5, <1>6, <1>8, <2>1 DEF AgentStep
  <1>9. CASE Environment /\ pc # "crashed"
    <2>1. CASE \/ \E m \in Messages : Receive(m)
               \/ ApplicationEnds \/ TestEnds
               \/ \E c \in Descendants : Fork(c) \/ ForkedEnds(c)
      BY <1>9, <2>1 DEF Receive, ApplicationEnds, TestEnds, Fork, ForkedEnds, agentVars
    <2> QED BY <1>2, <1>9, <2>1 DEF Environment
  <1> QED BY <1>1, <1>7, <1>8, <1>9 DEF Next

\* Whatever exception ends the agent (agent.py:65-147), it has left no temp-plot.html,
\* and it died of its message, its configuration or its host, never of a process that
\* went while it was measured; a report has all the samples the ring keeps of a complete run, and was written
\* after the application and the test were killed.
THEOREM ReportOnlyFromACompleteRunHolds == Spec => []ReportOnlyFromACompleteRun
  <1>1. Init => ProcessInv /\ ReportOnlyFromACompleteRun
    BY DEF Init, ProcessInv, ReportOnlyFromACompleteRun, Sampling
  <1>2. IInv /\ ProcessInv /\ [Next]_vars => ProcessInv'
    BY ProcessInvStep DEF IInv
  <1>3. IInv /\ IInv' /\ ProcessInv /\ ReportOnlyFromACompleteRun /\ [Next]_vars
          => ReportOnlyFromACompleteRun'
    <2> SUFFICES ASSUME IInv, IInv', ProcessInv, ReportOnlyFromACompleteRun, [Next]_vars
                 PROVE  ReportOnlyFromACompleteRun'
      OBVIOUS
    <2>1. pc' = "crashed" => report' = None /\ CannotWork'
      <3>1. pc' = "crashed" => report' = None
        BY DEF IInv
      <3>2. pc = "crashed" => CannotWork
        BY DEF ReportOnlyFromACompleteRun
      <3> QED BY <3>1, <3>2, CauseOfDeath
    <2>2. CASE report' = None
      BY <2>1, <2>2 DEF ReportOnlyFromACompleteRun
    <2>3. CASE report # None /\ report' # None
      BY <2>1, <2>3, AfterReport, StaysDead DEF ReportOnlyFromACompleteRun
    <2>4. CASE report = None /\ report' # None
      <3>1. /\ pc = "report" /\ Len(report'.cpuData) = Len(snapshots)
            /\ UNCHANGED <<currentSnapshot, config, Application, Test>>
        BY <2>4, ReportWritten
      <3>2. Application = "ended" /\ Test # "running"
        BY <3>1 DEF ProcessInv
      <3>3. /\ currentSnapshot = config.maxSnapshots
            /\ RingOK(snapshots, currentSnapshot, config.snapshotSize)
        BY <3>1 DEF IInv, Sampling
      <3>4. Len(snapshots) = currentSnapshot \/ Len(snapshots) = config.snapshotSize
        BY <3>3 DEF RingOK
      <3> QED BY <2>1, <3>1, <3>2, <3>3, <3>4 DEF ReportOnlyFromACompleteRun
    <2> QED BY <2>2, <2>3, <2>4
  <1> QED BY <1>1, <1>2, <1>3, InductiveInvariant, PTL DEF Spec
-----------------------------------------------------------------------------
(* Agent implements AgentPromise.                                          *)

\* What a container's phase depends on is set only where the code sets it.
LEMMA PhaseInvStep == PhaseInv /\ [Next]_vars => PhaseInv'
  <1> SUFFICES ASSUME PhaseInv, [Next]_vars PROVE PhaseInv'
    OBVIOUS
  <1> USE DEF PhaseInv, Sampling, Ended
  <1>1. CASE StartNothing \/ StartApplication \/ StartTest
    BY <1>1 DEF StartNothing, StartApplication, StartTest
  <1>2. CASE \/ \E c \in Configs : LoadConfig(c)
             \/ BeginSnapshot
             \/ \E c \in Descendants : MeasureChild(c)
    BY <1>2 DEF LoadConfig, BeginSnapshot, MeasureChild
  <1>3. CASE TakeSnapshot \/ KillProcesses
    BY <1>3 DEF TakeSnapshot, KillProcesses
  <1>4. CASE ComputePerformanceReport \/ RemoveLogs \/ ContainerExits
    BY <1>4 DEF ComputePerformanceReport, RemoveLogs, ContainerExits, agentVars
  <1>5. CASE Environment
    BY <1>5 DEF Environment, Receive, ConnectionError, ApplicationEnds, TestEnds,
         Fork, ForkedEnds, agentVars
  <1>6. CASE UNCHANGED vars
    BY <1>6 DEF vars, agentVars
  <1> QED BY <1>1, <1>2, <1>3, <1>4, <1>5, <1>6 DEF Next, AgentStep

\* A step of the agent is a step of the promise or leaves it alone.
LEMMA PromiseStep ==
    IInv /\ PhaseInv /\ [Next]_vars => [Promise!Next]_(Promise!vars)
  <1> SUFFICES ASSUME IInv, PhaseInv, [Next]_vars
               PROVE  [Promise!Next]_(Promise!vars)
    OBVIOUS
  <1> DEFINE written == report # None
  <1>0. /\ pc \in {"blpop", "start", "test", "config"} \cup Sampling \cup Ended
        /\ container \in {"running", "exited"}
        /\ written => pc \in {"remove", "exited"}
    BY DEF IInv, TypeOK
  <1>a. None \notin Runnable
    BY CommandsAssumption
  <1>s. ASSUME Phase' = Phase, written' = written
        PROVE  [Promise!Next]_(Promise!vars)
    BY <1>s DEF Promise!vars
  <1>1. CASE \E m \in Messages : Receive(m)
    <2>1. Phase = "waiting" /\ Phase' = "working" /\ written' = written
      BY <1>0, <1>1 DEF Receive, Phase, PhaseInv, Ended
    <2> QED BY <2>1 DEF Promise!Next, Promise!Take
  <1>2. CASE ConnectionError
    <2>1. Phase = "waiting" /\ Phase' \in {"waiting", "working"} /\ written' = written
      BY <1>0, <1>2 DEF ConnectionError, Phase, PhaseInv, Ended
    <2> QED BY <2>1 DEF Promise!Next, Promise!Take, Promise!vars
  <1>3. CASE ContainerExits
    <2>1. Phase \in {"waiting", "working"} /\ Phase' = "gone" /\ written' = written
      BY <1>3 DEF ContainerExits, Phase, agentVars
    <2> QED BY <2>1 DEF Promise!Next, Promise!End, Promise!Refused
  <1>4. CASE ComputePerformanceReport
    <2>1. /\ pc = "report" /\ container' = container /\ msgdict' = msgdict
          /\ pc' \in {"remove", "crashed"}
          /\ pc' = "crashed" => report' = report
      BY <1>4 DEF ComputePerformanceReport
    <2>2. container # "exited" /\ msgdict # NoMessage /\ ~written
      BY <1>0, <1>a, <2>1 DEF PhaseInv, Sampling, Ended, NoMessage
    <2>3. Phase = "working" /\ Phase' = "working"
      BY <2>1, <2>2 DEF Phase
    <2> QED BY <2>2, <2>3 DEF Promise!Next, Promise!WriteReport, Promise!vars
  <1>5. CASE StartNothing
    <2>1. /\ pc = "start" /\ pc' \in {"crashed", "exited"}
          /\ pc' = "crashed" => msgdict # NoMessage
          /\ UNCHANGED <<report, msgdict, container>>
      BY <1>5 DEF StartNothing, MagicRaises, NoMessage
    <2>2. Phase' = Phase
      BY <2>1 DEF Phase
    <2> QED BY <2>1, <2>2, <1>s
  <1>6. CASE StartApplication \/ StartTest
    <2>1. /\ pc \in {"start", "test"} /\ pc' \in {"test", "config", "crashed"}
          /\ pc' = "crashed" => msgdict # NoMessage
          /\ UNCHANGED <<report, msgdict, container>>
      BY <1>6 DEF StartApplication, StartTest, NoMessage
    <2>2. Phase' = Phase
      BY <2>1 DEF Phase
    <2> QED BY <2>1, <2>2, <1>s
  <1>7. CASE \/ \E c \in Configs : LoadConfig(c)
             \/ BeginSnapshot
             \/ \E c \in Descendants : MeasureChild(c)
             \/ TakeSnapshot \/ KillProcesses
    <2>1. /\ pc \in {"config", "loop", "measure"}
          /\ pc' \in {"loop", "measure", "report", "crashed"}
          /\ UNCHANGED <<report, msgdict, container>>
      BY <1>7 DEF LoadConfig, BeginSnapshot, MeasureChild, TakeSnapshot, KillProcesses
    <2>2. msgdict # NoMessage
      BY <1>a, <2>1 DEF PhaseInv, Sampling, NoMessage
    <2>3. Phase' = Phase
      BY <2>1, <2>2 DEF Phase
    <2> QED BY <2>1, <2>3, <1>s
  <1>8. CASE RemoveLogs
    <2>1. pc = "remove" /\ pc' = "exited" /\ UNCHANGED <<report, msgdict, container>>
      BY <1>8 DEF RemoveLogs
    <2>2. Phase' = Phase
      BY <2>1 DEF Phase
    <2> QED BY <2>1, <2>2, <1>s
  <1>9. CASE \/ ApplicationEnds \/ TestEnds
             \/ \E c \in Descendants : Fork(c) \/ ForkedEnds(c)
             \/ UNCHANGED vars
    <2>1. UNCHANGED <<pc, report, msgdict, container>>
      BY <1>9 DEF ApplicationEnds, TestEnds, Fork, ForkedEnds, vars, agentVars
    <2>2. Phase' = Phase
      BY <2>1 DEF Phase
    <2> QED BY <2>1, <2>2, <1>s
  <1> QED BY <1>1, <1>2, <1>3, <1>4, <1>5, <1>6, <1>7, <1>8, <1>9
          DEF Next, AgentStep, Environment

\* The agent keeps the safety part of the promise LaunchAgent.sh relies on: one
\* message, at most one report, written before the container exits.
THEOREM AgentKeepsPromise == Spec => Promise!SafeSpec
  <1>1. Init => Promise!Init
    BY DEF Init, Promise!Init, Phase
  <1>2. Init => PhaseInv
    BY DEF Init, PhaseInv, Sampling, Ended
  <1>3. Spec => []PhaseInv
    BY <1>2, PhaseInvStep, PTL DEF Spec
  <1> QED BY <1>1, <1>3, InductiveInvariant, PromiseStep, PTL DEF Spec, Promise!SafeSpec
=============================================================================
