----------------------- MODULE ReplicationLinkProofs -----------------------
(***************************************************************************)
(* Lemmas about one slave and its master, as Replication models them: what *)
(* the slave makes of the stream, the ring of the backlog, and the         *)
(* invariant PairOK of the two and of what is on its way between them,     *)
(* under all that either may do.                                           *)
(***************************************************************************)
EXTENDS Replication, FiniteSetTheorems, SequenceTheorems, WellFoundedInduction, TLAPS

---------------------------------------------------------------------------
(* Induction and loops.                                                    *)

LEMMA LeastNatural ==
    ASSUME NEW S \in SUBSET Nat, S # {}
    PROVE  \E x \in S : \A y \in S : x <= y
  <1> DEFINE R == OpToRel(<, Nat)
  <1>1. IsWellFoundedOn(R, Nat)
    BY NatLessThanWellFounded
  <1>2. \A x, y \in Nat : <<x, y>> \in R <=> x < y
    BY DEF OpToRel
  <1> HIDE DEF R
  <1>3. PICK x \in S : \A y \in S : ~(<<y, x>> \in R)
    BY <1>1, WFMin
  <1>4. \A y \in S : x \in Nat /\ y \in Nat /\ ~(y < x)
    BY <1>2, <1>3
  <1> QED BY <1>4

LEMMA IntervalInduction ==
    ASSUME NEW n \in Nat, NEW G, 0 \in G, \A i \in 1..n : i - 1 \in G => i \in G
    PROVE  0..n \subseteq G
  <1> DEFINE Bad == {i \in 0..n : i \notin G}
  <1> SUFFICES ASSUME Bad # {} PROVE FALSE
    OBVIOUS
  <1>1. PICK i \in Bad : \A y \in Bad : i <= y
    <2>1. Bad \in SUBSET Nat
      OBVIOUS
    <2> QED BY <2>1, LeastNatural
  <1>2. i \in 1..n /\ i \notin G
    BY <1>1
  <1>3. i - 1 \in 0..n /\ i - 1 < i
    BY <1>2
  <1>4. i - 1 \in G
    BY <1>1, <1>2, <1>3
  <1> QED BY <1>2, <1>4

LEMMA SequencesInduction ==
    ASSUME NEW S, NEW G, <<>> \in G, \A s \in Seq(S), u \in S : s \in G => Append(s, u) \in G
    PROVE  Seq(S) \subseteq G
  <1> DEFINE Bad == {n \in Nat : \E s \in Seq(S) : Len(s) = n /\ s \notin G}
  <1> SUFFICES ASSUME Bad # {} PROVE FALSE
    OBVIOUS
  <1>1. PICK n \in Bad : \A y \in Bad : n <= y
    BY LeastNatural
  <1>2. PICK s \in Seq(S) : Len(s) = n /\ s \notin G
    BY <1>1
  <1>3. s # <<>>
    BY <1>2
  <1>4. PICK r \in Seq(S), u \in S : s = Append(r, u)
    BY <1>3, SequenceEmptyOrAppend
  <1>5. Len(r) \in Nat /\ Len(r) < n /\ n \in Nat
    BY <1>1, <1>2, <1>4, AppendProperties, LenProperties
  <1>6. r \in G
    BY <1>1, <1>5
  <1> QED BY <1>2, <1>4, <1>6

\* The values a loop of the module goes through.
ReplayLoop(f, x, units, n) == f = [i \in 0..n |-> IF i = 0 THEN x ELSE Apply(f[i - 1], units[i])]
FeedLoop(f, v, units, n) == f = [i \in 0..n |-> IF i = 0 THEN v ELSE FeedUnit(f[i - 1], units[i])]

LEMMA ReplayLoopExists ==
    ASSUME NEW x, NEW units, NEW n \in Nat
    PROVE  \E f : ReplayLoop(f, x, units, n)
  <1> DEFINE Bad == {m \in Nat : ~\E f : ReplayLoop(f, x, units, m)}
  <1> SUFFICES ASSUME Bad # {} PROVE FALSE
    OBVIOUS
  <1>1. PICK m \in Bad : \A y \in Bad : m <= y
    BY LeastNatural
  <1>2. m # 0
    <2>1. ReplayLoop([i \in 0..0 |-> x], x, units, 0)
      BY DEF ReplayLoop
    <2> QED BY <2>1
  <1>3. m - 1 \in Nat /\ m \in Nat /\ m - 1 \notin Bad
    BY <1>1, <1>2
  <1>4. PICK f : ReplayLoop(f, x, units, m - 1)
    BY <1>3
  <1> DEFINE g == [i \in 0..m |-> IF i = m THEN Apply(f[m - 1], units[m]) ELSE f[i]]
  <1>5. ReplayLoop(g, x, units, m)
    <2>1. \A i \in 0..(m - 1) : g[i] = f[i]
      BY <1>3
    <2>2. \A i \in 0..(m - 1) : f[i] = IF i = 0 THEN x ELSE Apply(f[i - 1], units[i])
      BY <1>4 DEF ReplayLoop
    <2>3. \A i \in 0..m : g[i] = IF i = 0 THEN x ELSE Apply(g[i - 1], units[i])
      <3> SUFFICES ASSUME NEW i \in 0..m PROVE g[i] = IF i = 0 THEN x ELSE Apply(g[i - 1], units[i])
        OBVIOUS
      <3>1. CASE i = m
        <4>1. g[i] = Apply(f[m - 1], units[m]) /\ g[m - 1] = f[m - 1] /\ i # 0
          BY <1>2, <1>3, <2>1, <3>1
        <4> QED BY <3>1, <4>1
      <3>2. CASE i # m
        <4>1. i \in 0..(m - 1) /\ (i # 0 => i - 1 \in 0..(m - 1))
          BY <1>3, <3>2
        <4> QED BY <2>1, <2>2, <4>1
      <3> QED BY <3>1, <3>2
    <2> QED BY <2>3 DEF ReplayLoop
  <1> QED BY <1>1, <1>5

LEMMA FeedLoopExists ==
    ASSUME NEW v, NEW units, NEW n \in Nat
    PROVE  \E f : FeedLoop(f, v, units, n)
  <1> DEFINE Bad == {m \in Nat : ~\E f : FeedLoop(f, v, units, m)}
  <1> SUFFICES ASSUME Bad # {} PROVE FALSE
    OBVIOUS
  <1>1. PICK m \in Bad : \A y \in Bad : m <= y
    BY LeastNatural
  <1>2. m # 0
    <2>1. FeedLoop([i \in 0..0 |-> v], v, units, 0)
      BY DEF FeedLoop
    <2> QED BY <2>1
  <1>3. m - 1 \in Nat /\ m \in Nat /\ m - 1 \notin Bad
    BY <1>1, <1>2
  <1>4. PICK f : FeedLoop(f, v, units, m - 1)
    BY <1>3
  <1> DEFINE g == [i \in 0..m |-> IF i = m THEN FeedUnit(f[m - 1], units[m]) ELSE f[i]]
  <1>5. FeedLoop(g, v, units, m)
    <2>1. \A i \in 0..(m - 1) : g[i] = f[i]
      BY <1>3
    <2>2. \A i \in 0..(m - 1) : f[i] = IF i = 0 THEN v ELSE FeedUnit(f[i - 1], units[i])
      BY <1>4 DEF FeedLoop
    <2>3. \A i \in 0..m : g[i] = IF i = 0 THEN v ELSE FeedUnit(g[i - 1], units[i])
      <3> SUFFICES ASSUME NEW i \in 0..m PROVE g[i] = IF i = 0 THEN v ELSE FeedUnit(g[i - 1], units[i])
        OBVIOUS
      <3>1. CASE i = m
        <4>1. g[i] = FeedUnit(f[m - 1], units[m]) /\ g[m - 1] = f[m - 1] /\ i # 0
          BY <1>2, <1>3, <2>1, <3>1
        <4> QED BY <3>1, <4>1
      <3>2. CASE i # m
        <4>1. i \in 0..(m - 1) /\ (i # 0 => i - 1 \in 0..(m - 1))
          BY <1>3, <3>2
        <4> QED BY <2>1, <2>2, <4>1
      <3> QED BY <3>1, <3>2
    <2> QED BY <2>3 DEF FeedLoop
  <1> QED BY <1>1, <1>5

LEMMA ReplayedIsLoop ==
    ASSUME NEW x, NEW units, Len(units) \in Nat
    PROVE  \E f : ReplayLoop(f, x, units, Len(units)) /\ Replayed(x, units) = f[Len(units)]
  <1> DEFINE f == CHOOSE f : ReplayLoop(f, x, units, Len(units))
  <1>1. ReplayLoop(f, x, units, Len(units))
    BY ReplayLoopExists
  <1>2. Replayed(x, units) = f[Len(units)]
    BY DEF Replayed, ReplayLoop
  <1> QED BY <1>1, <1>2

LEMMA FeedIsLoop ==
    ASSUME NEW v, NEW units, Len(units) \in Nat
    PROVE  \E f : FeedLoop(f, v, units, Len(units)) /\ feedReplicationBacklog(v, units) = f[Len(units)]
  <1> DEFINE f == CHOOSE f : FeedLoop(f, v, units, Len(units))
  <1>1. FeedLoop(f, v, units, Len(units))
    BY FeedLoopExists
  <1>2. feedReplicationBacklog(v, units) = f[Len(units)]
    BY DEF feedReplicationBacklog, FeedLoop
  <1> QED BY <1>1, <1>2

---------------------------------------------------------------------------
(* What a slave makes of the stream.                                       *)

States == [data : Data, db : Dbs, querybuf : Seq(Units)]

LEMMA ReplayedEmpty ==
    ASSUME NEW x
    PROVE  Replayed(x, <<>>) = x
  <1>1. Len(<<>>) = 0
    OBVIOUS
  <1>2. PICK f : ReplayLoop(f, x, <<>>, 0) /\ Replayed(x, <<>>) = f[0]
    BY <1>1, ReplayedIsLoop
  <1>3. f[0] = x
    BY <1>2 DEF ReplayLoop
  <1> QED BY <1>2, <1>3

LEMMA ReplayedAppend ==
    ASSUME NEW S, NEW x, NEW U \in Seq(S), NEW u \in S
    PROVE  Replayed(x, Append(U, u)) = Apply(Replayed(x, U), u)
  <1>1. PICK n \in Nat : n = Len(U)
    BY LenProperties
  <1>2. PICK V : V = Append(U, u)
    OBVIOUS
  <1>3. Len(V) = n + 1 /\ V[n + 1] = u /\ \A i \in 1..n : V[i] = U[i]
    BY <1>1, <1>2, AppendProperties
  <1>4. PICK f : ReplayLoop(f, x, V, n + 1) /\ Replayed(x, V) = f[n + 1]
    BY <1>3, ReplayedIsLoop
  <1>5. PICK g : ReplayLoop(g, x, U, n) /\ Replayed(x, U) = g[n]
    BY <1>1, ReplayedIsLoop
  <1> DEFINE G == {i \in 0..n : f[i] = g[i]}
  <1>6. 0 \in G
    BY <1>4, <1>5 DEF ReplayLoop
  <1>7. \A i \in 1..n : i - 1 \in G => i \in G
    <2> SUFFICES ASSUME NEW i \in 1..n, i - 1 \in G PROVE f[i] = g[i]
      OBVIOUS
    <2>1. f[i] = Apply(f[i - 1], V[i]) /\ g[i] = Apply(g[i - 1], U[i])
      BY <1>4, <1>5 DEF ReplayLoop
    <2>2. V[i] = U[i] /\ f[i - 1] = g[i - 1]
      BY <1>3
    <2> QED BY <2>1, <2>2
  <1> HIDE DEF G
  <1>8. n \in G
    <2>1. 0..n \subseteq G
      BY <1>6, <1>7, IntervalInduction
    <2> QED BY <2>1
  <1>9. f[n] = g[n]
    BY <1>8 DEF G
  <1>10. f[n + 1] = Apply(f[(n + 1) - 1], V[n + 1])
    BY <1>4 DEF ReplayLoop
  <1>11. (n + 1) - 1 = n
    OBVIOUS
  <1>12. f[n + 1] = Apply(f[n], u)
    BY <1>3, <1>10, <1>11, Zenon
  <1> QED BY <1>2, <1>4, <1>5, <1>9, <1>12

LEMMA ReplayedConcat ==
    ASSUME NEW S, NEW x, NEW U \in Seq(S), NEW V \in Seq(S)
    PROVE  Replayed(x, U \o V) = Replayed(Replayed(x, U), V)
  <1> DEFINE G == {W \in Seq(S) : Replayed(x, U \o W) = Replayed(Replayed(x, U), W)}
  <1>1. <<>> \in G
    <2>1. U \o <<>> = U /\ <<>> \in Seq(S)
      BY ConcatEmptySeq
    <2> QED BY <2>1, ReplayedEmpty
  <1>2. \A W \in Seq(S), u \in S : W \in G => Append(W, u) \in G
    <2> SUFFICES ASSUME NEW W \in Seq(S), NEW u \in S, W \in G
                 PROVE  Append(W, u) \in Seq(S) /\ Replayed(x, U \o Append(W, u)) = Replayed(Replayed(x, U), Append(W, u))
      OBVIOUS
    <2>1. U \o Append(W, u) = Append(U \o W, u) /\ U \o W \in Seq(S) /\ Append(W, u) \in Seq(S)
      OBVIOUS
    <2>2. Replayed(x, Append(U \o W, u)) = Apply(Replayed(x, U \o W), u)
      <3>1. PICK Y \in Seq(S) : Y = U \o W
        BY <2>1
      <3>2. Replayed(x, Append(Y, u)) = Apply(Replayed(x, Y), u)
        BY ONLY Y \in Seq(S), u \in S, ReplayedAppend
      <3> QED BY <3>1, <3>2
    <2>3. Replayed(Replayed(x, U), Append(W, u)) = Apply(Replayed(Replayed(x, U), W), u)
      BY ReplayedAppend
    <2>4. Replayed(x, U \o W) = Replayed(Replayed(x, U), W)
      OBVIOUS
    <2> QED BY <2>1, <2>2, <2>3, <2>4
  <1> HIDE DEF G
  <1>3. V \in G
    BY <1>1, <1>2, SequencesInduction
  <1> QED BY <1>3 DEF G

LEMMA ReplayedOne ==
    ASSUME NEW x, NEW u
    PROVE  Replayed(x, <<u>>) = Apply(x, u)
  <1>1. <<>> \in Seq({u}) /\ Append(<<>>, u) = <<u>>
    OBVIOUS
  <1>2. Replayed(x, Append(<<>>, u)) = Apply(Replayed(x, <<>>), u)
    <2>1. PICK S : S = {u}
      OBVIOUS
    <2>2. PICK E \in Seq(S) : E = <<>>
      <3>1. <<>> \in Seq(S)
        OBVIOUS
      <3> QED BY <3>1
    <2>3. u \in S
      BY <2>1
    <2>4. Replayed(x, Append(E, u)) = Apply(Replayed(x, E), u)
      BY ONLY E \in Seq(S), <2>3, ReplayedAppend
    <2> QED BY <2>2, <2>4
  <1> QED BY <1>1, <1>2, ReplayedEmpty

LEMMA ReplayedHead ==
    ASSUME NEW S, NEW x, NEW U \in Seq(S), U # <<>>
    PROVE  Replayed(x, U) = Replayed(Apply(x, Head(U)), Tail(U))
  <1>1. Head(U) \in S /\ Tail(U) \in Seq(S) /\ <<Head(U)>> \in Seq(S) /\ U = <<Head(U)>> \o Tail(U)
    OBVIOUS
  <1>2. Replayed(x, <<Head(U)>> \o Tail(U)) = Replayed(Replayed(x, <<Head(U)>>), Tail(U))
    <2>1. PICK A \in Seq(S) : A = <<Head(U)>>
      BY <1>1
    <2>2. PICK B \in Seq(S) : B = Tail(U)
      BY <1>1
    <2>3. Replayed(x, A \o B) = Replayed(Replayed(x, A), B)
      BY ONLY A \in Seq(S), B \in Seq(S), ReplayedConcat
    <2> QED BY <2>1, <2>2, <2>3
  <1> QED BY <1>1, <1>2, ReplayedOne

LEMMA ApplyType ==
    ASSUME NEW x \in States, NEW u \in Units
    PROVE  Apply(x, u) \in States
  <1>1. x.data \in Data /\ x.db \in Dbs /\ x.querybuf \in Seq(Units) /\ x.db \in Nat
    BY SizesAssumption DEF States
  <1>2. PICK q : q = Append(x.querybuf, u)
    OBVIOUS
  <1>3. q \in Seq(Units) /\ q # <<>> /\ q[1] \in Units
    BY <1>1, <1>2
  <1>4. CASE q[1].k = "ping"
    <2>1. Apply(x, u) = [data |-> x.data, db |-> x.db, querybuf |-> <<>>]
      BY <1>2, <1>4 DEF Apply, States
    <2> QED BY <1>1, <2>1 DEF States
  <1>5. CASE q[1].k = "sel"
    <2>1. q[1].db \in Dbs
      BY <1>3, <1>5 DEF Units
    <2>2. Apply(x, u) = [data |-> x.data, db |-> q[1].db, querybuf |-> <<>>]
      BY <1>2, <1>5 DEF Apply, States
    <2> QED BY <1>1, <2>1, <2>2 DEF States
  <1>6. CASE q[1].k = "w" /\ Len(q) = 1
    <2>1. Apply(x, u) = [data |-> x.data, db |-> x.db, querybuf |-> q]
      BY <1>2, <1>6 DEF Apply, States
    <2> QED BY <1>1, <1>3, <2>1 DEF States
  <1>7. CASE q[1].k = "w" /\ Len(q) # 1
    <2>1. q[1].id \in Nat
      BY <1>3, <1>7 DEF Units
    <2>2. Append(x.data, <<q[1].id, x.db>>) \in Data
      BY <1>1, <2>1 DEF Data
    <2>3. Apply(x, u) = [data |-> Append(x.data, <<q[1].id, x.db>>), db |-> x.db, querybuf |-> <<>>]
      BY <1>2, <1>7 DEF Apply, States
    <2> QED BY <1>1, <2>2, <2>3 DEF States
  <1>8. q[1].k \in {"ping", "sel", "w"}
    BY <1>3 DEF Units
  <1> QED BY <1>4, <1>5, <1>6, <1>7, <1>8

LEMMA ReplayedType ==
    ASSUME NEW x \in States, NEW U \in Seq(Units)
    PROVE  Replayed(x, U) \in States
  <1> DEFINE G == {W \in Seq(Units) : Replayed(x, W) \in States}
  <1>1. <<>> \in G
    BY ReplayedEmpty
  <1>2. \A W \in Seq(Units), u \in Units : W \in G => Append(W, u) \in G
    <2> SUFFICES ASSUME NEW W \in Seq(Units), NEW u \in Units, W \in G
                 PROVE  Append(W, u) \in Seq(Units) /\ Replayed(x, Append(W, u)) \in States
      OBVIOUS
    <2>1. Replayed(x, Append(W, u)) = Apply(Replayed(x, W), u)
      BY ReplayedAppend
    <2> QED BY <2>1, ApplyType
  <1> HIDE DEF G
  <1>3. U \in G
    BY <1>1, <1>2, SequencesInduction
  <1> QED BY <1>3 DEF G

\* The slave has executed all it was sent: it has the data of the master and has
\* selected the database the master takes for selected.
Arrives(v, x) == x.data = v.data /\ x.querybuf = <<>> /\ (v.seldb = -1 \/ x.db = v.seldb)

Ping == [k |-> "ping"]
Sel(db) == [k |-> "sel", db |-> db]
Selected(seldb, db) == IF seldb # db THEN <<Sel(db)>> ELSE <<>>

LEMMA UnitsOfACommand ==
    ASSUME NEW db \in Dbs, NEW id \in Nat
    PROVE  /\ <<Ping>> \in Seq(Units) /\ <<Sel(db)>> \in Seq(Units) /\ Halves(id) \in Seq(Units)
           /\ Len(<<Ping>>) = 1 /\ Len(Halves(id)) = 2
  BY DEF Ping, Sel, Halves, Units

LEMMA ApplySelect ==
    ASSUME NEW x \in States, x.querybuf = <<>>, NEW db \in Dbs
    PROVE  Replayed(x, <<Sel(db)>>) = [x EXCEPT !.db = db]
  <1>1. Replayed(x, <<Sel(db)>>) = Apply(x, Sel(db))
    BY ReplayedOne
  <1>2. PICK u : u = Sel(db)
    OBVIOUS
  <1>3. u.k = "sel" /\ u.db = db /\ Append(x.querybuf, u) = <<u>> /\ <<u>>[1] = u
    BY <1>2 DEF Sel
  <1>4. Apply(x, u) = [x EXCEPT !.db = db, !.querybuf = <<>>]
    BY <1>3 DEF Apply
  <1> QED BY <1>1, <1>2, <1>4 DEF States

LEMMA ApplyPing ==
    ASSUME NEW x \in States, x.querybuf = <<>>
    PROVE  Replayed(x, <<Ping>>) = x
  <1>1. Replayed(x, <<Ping>>) = Apply(x, Ping)
    BY ReplayedOne
  <1>2. Append(x.querybuf, Ping) = <<Ping>>
    OBVIOUS
  <1>3. Apply(x, Ping) = [x EXCEPT !.querybuf = <<>>]
    BY <1>2 DEF Apply, Ping
  <1> QED BY <1>1, <1>3 DEF States

LEMMA ApplyWrite ==
    ASSUME NEW x \in States, x.querybuf = <<>>, NEW id \in Nat
    PROVE  Replayed(x, Halves(id)) = [x EXCEPT !.data = Append(@, <<id, x.db>>)]
  <1>1. PICK h : h = [k |-> "w", id |-> id, part |-> 1]
    OBVIOUS
  <1>2. PICK g : g = [k |-> "w", id |-> id, part |-> 2]
    OBVIOUS
  <1>3. h.k = "w" /\ g.k = "w" /\ h.id = id /\ Halves(id) = Append(<<h>>, g)
    BY <1>1, <1>2 DEF Halves
  <1>4. Replayed(x, Append(<<h>>, g)) = Apply(Replayed(x, <<h>>), g)
    <2>1. PICK S : S = {h, g}
      OBVIOUS
    <2>2. PICK E \in Seq(S) : E = <<h>>
      <3>1. h \in S
        BY <2>1
      <3>2. <<h>> \in Seq(S)
        BY <3>1
      <3> QED BY <3>2
    <2>3. g \in S
      BY <2>1
    <2>4. Replayed(x, Append(E, g)) = Apply(Replayed(x, E), g)
      BY ONLY E \in Seq(S), <2>3, ReplayedAppend
    <2> QED BY <2>2, <2>4
  <1>5. PICK y : y = Replayed(x, <<h>>)
    OBVIOUS
  <1>6. y = [data |-> x.data, db |-> x.db, querybuf |-> <<h>>]
    <2>1. Append(x.querybuf, h) = <<h>>
      OBVIOUS
    <2>2. Apply(x, h) = [x EXCEPT !.querybuf = <<h>>]
      BY <1>3, <2>1 DEF Apply
    <2> QED BY <1>5, <2>2, ReplayedOne DEF States
  <1>7. PICK q : q = Append(y.querybuf, g)
    OBVIOUS
  <1>8. Apply(y, g) = [y EXCEPT !.data = Append(@, <<id, y.db>>), !.querybuf = <<>>]
    <2>1. PICK e \in Seq({h, g}) : e = <<h>> /\ Len(e) = 1 /\ e[1] = h
      <3>1. <<h>> \in Seq({h, g}) /\ Len(<<h>>) = 1 /\ <<h>>[1] = h
        OBVIOUS
      <3> QED BY <3>1
    <2>2. y.querybuf = e
      BY <1>6, <2>1
    <2>3. Len(Append(e, g)) = 2 /\ Append(e, g)[1] = h
      BY <2>1, AppendProperties
    <2>4. Len(q) = 2 /\ q[1] = h
      BY <1>7, <2>2, <2>3
    <2>5. q[1].k # "ping" /\ q[1].k # "sel" /\ Len(q) # 1 /\ q[1].id = id
      BY <1>3, <2>4
    <2> QED BY <1>7, <2>5, Zenon DEF Apply
  <1>9. Apply(y, g) = [data |-> Append(x.data, <<id, x.db>>), db |-> x.db, querybuf |-> <<>>]
    BY <1>6, <1>8
  <1>10. Replayed(x, Halves(id)) = Apply(y, g)
    BY <1>3, <1>4, <1>5
  <1>11. [x EXCEPT !.data = Append(@, <<id, x.db>>)] = [data |-> Append(x.data, <<id, x.db>>), db |-> x.db, querybuf |-> <<>>]
    <2>1. PICK d : d = Append(x.data, <<id, x.db>>)
      OBVIOUS
    <2>2. [x EXCEPT !.data = d] = [data |-> d, db |-> x.db, querybuf |-> <<>>]
      BY DEF States
    <2> QED BY <2>1, <2>2, Zenon
  <1> QED BY <1>9, <1>10, <1>11

\* A command the master propagates, with its SELECT, does to a slave what it did to the
\* master.
LEMMA PingArrives ==
    ASSUME NEW v, NEW x \in States, Arrives(v, x)
    PROVE  Arrives(v, Replayed(x, <<Ping>>))
  BY ApplyPing DEF Arrives

LEMMA WriteArrives ==
    ASSUME NEW v, NEW v2, NEW x \in States, Arrives(v, x), NEW db \in Dbs, NEW id \in Nat,
           v2.data = Append(v.data, <<id, db>>), v2.seldb = db
    PROVE  Arrives(v2, Replayed(x, Selected(v.seldb, db) \o Halves(id)))
  <1>1. x.querybuf = <<>> /\ x.data = v.data
    BY DEF Arrives
  <1>2. PICK y : y = [x EXCEPT !.db = db]
    OBVIOUS
  <1>3. y \in States /\ y.querybuf = <<>> /\ y.data = v.data /\ y.db = db
    BY <1>1, <1>2 DEF States
  <1>4. Replayed(x, Selected(v.seldb, db)) = y
    <2>1. CASE v.seldb # db
      BY <1>1, <1>2, <2>1, ApplySelect DEF Selected
    <2>2. CASE v.seldb = db
      <3>1. x.db = db
        BY <2>2, SizesAssumption DEF Arrives
      <3>2. y = x
        BY <1>2, <3>1 DEF States
      <3> QED BY <2>2, <3>2, ReplayedEmpty DEF Selected
    <2> QED BY <2>1, <2>2
  <1>5. PICK A \in Seq(Units) : A = Selected(v.seldb, db)
    <2>1. <<Sel(db)>> \in Seq(Units) /\ <<>> \in Seq(Units)
      BY UnitsOfACommand
    <2> QED BY <2>1 DEF Selected
  <1>6. PICK B \in Seq(Units) : B = Halves(id)
    BY UnitsOfACommand
  <1>7. Replayed(x, A \o B) = Replayed(Replayed(x, A), B)
    BY ONLY A \in Seq(Units), B \in Seq(Units), ReplayedConcat
  <1>8. Replayed(y, B) = [y EXCEPT !.data = Append(@, <<id, y.db>>)]
    BY <1>3, <1>6, ApplyWrite
  <1>9. Arrives(v2, Replayed(y, B))
    BY <1>3, <1>8 DEF Arrives, States
  <1> QED BY <1>4, <1>5, <1>6, <1>7, <1>9

---------------------------------------------------------------------------
(* The ring.                                                               *)

Server == [runid : RunIds, masterhost : Servers \cup {None},
           repl_state : {"NONE", "CONNECT", "CONNECTING", "RECEIVE_PSYNC", "TRANSFER", "CONNECTED"},
           master : Masters \cup {None}, cached : Masters \cup {None}, init : [runid : RunIds \cup {None}, off : Offsets],
           data : Data, rdb : Data, offset : Offsets, backlog : Backlogs \cup {None}, seldb : Dbs \cup {-1},
           child : Children \cup {None}, reused : BOOLEAN]

\* The unit of the stream that ends at offset p.
HU(v, p) == v.backlog.buf[(v.backlog.idx + repl_backlog_size - (v.offset + 1 - p)) % repl_backlog_size]

BacklogOK(v) ==
  /\ v.backlog \in Backlogs /\ v.offset \in Nat /\ v.backlog.off = v.offset - v.backlog.histlen + 1
  /\ \A p \in v.backlog.off..v.offset : HU(v, p) \in Units

\* The stream grew by some units; the backlog may have lost its oldest.
Grew(v, v2, units) ==
  /\ BacklogOK(v2) /\ v2.offset = v.offset + Len(units) /\ v2.backlog.off >= v.backlog.off
  /\ \A p \in v2.backlog.off..v.offset : HU(v2, p) = HU(v, p)
  /\ \A i \in 1..Len(units) : v.offset + i >= v2.backlog.off => HU(v2, v.offset + i) = units[i]

LEMMA SmallModulo ==
    ASSUME NEW K \in Nat \ {0}, NEW x \in 0..(2 * K - 1)
    PROVE  x % K = IF x < K THEN x ELSE x - K
  OBVIOUS

LEMMA RingStep ==
    ASSUME NEW K \in Nat \ {0}, NEW idx \in 0..(K - 1), NEW d \in 1..K
    PROVE  /\ (idx + 1) % K \in 0..(K - 1)
           /\ (((idx + 1) % K) + K - d) % K = (idx + K - (d - 1)) % K
           /\ (((idx + 1) % K) + K - d) % K \in 0..(K - 1)
           /\ d = 1 => (((idx + 1) % K) + K - d) % K = idx
           /\ d # 1 => (((idx + 1) % K) + K - d) % K # idx
  <1>1. (idx + 1) % K = IF idx + 1 < K THEN idx + 1 ELSE 0
    <2>1. PICK y \in 0..(2 * K - 1) : y = idx + 1
      OBVIOUS
    <2>2. y % K = IF y < K THEN y ELSE y - K
      BY SmallModulo
    <2> QED BY <2>1, <2>2
  <1>2. PICK j \in 0..(K - 1) : j = (idx + 1) % K
    BY <1>1
  <1>3. (j + K - d) % K = IF j + K - d < K THEN j + K - d ELSE j - d
    <2>1. PICK y \in 0..(2 * K - 1) : y = j + K - d
      OBVIOUS
    <2>2. y % K = IF y < K THEN y ELSE y - K
      BY SmallModulo
    <2> QED BY <2>1, <2>2
  <1>4. (idx + K - (d - 1)) % K = IF idx + K - (d - 1) < K THEN idx + K - (d - 1) ELSE idx - (d - 1)
    <2>1. PICK y \in 0..(2 * K - 1) : y = idx + K - (d - 1)
      OBVIOUS
    <2>2. y % K = IF y < K THEN y ELSE y - K
      BY SmallModulo
    <2> QED BY <2>1, <2>2
  <1> QED BY <1>1, <1>2, <1>3, <1>4

LEMMA FeedUnitGrows ==
    ASSUME NEW v \in Server, BacklogOK(v), NEW u \in Units, NEW v2, v2 = FeedUnit(v, u)
    PROVE  /\ v2 \in Server /\ v2 = [v EXCEPT !.offset = v2.offset, !.backlog = v2.backlog]
           /\ Grew(v, v2, <<u>>)
  <1>1. PICK K \in Nat \ {0} : K = repl_backlog_size
    BY SizesAssumption
  <1>2. PICK b \in Backlogs : b = v.backlog
    BY DEF BacklogOK
  <1>3. PICK o \in Nat : o = v.offset
    BY DEF BacklogOK
  <1>4. b.idx \in 0..(K - 1) /\ b.histlen \in 0..K /\ b.off \in Nat /\ b.buf \in [0..(K - 1) -> Units \cup {None}]
    BY <1>1, <1>2 DEF Backlogs
  <1>5. PICK h \in 1..K : h = IF b.histlen < K THEN b.histlen + 1 ELSE K
    BY <1>4
  <1>6. PICK idx \in 0..(K - 1) : idx = b.idx
    BY <1>4
  <1>7. PICK c : c = [buf |-> [b.buf EXCEPT ![b.idx] = u], idx |-> (b.idx + 1) % K, histlen |-> h, off |-> o + 1 - h + 1]
    OBVIOUS
  <1>8. v2 = [v EXCEPT !.offset = o + 1, !.backlog = c]
    BY <1>1, <1>2, <1>3, <1>5, <1>7 DEF FeedUnit
  <1>9. b.off = o - b.histlen + 1
    BY <1>2, <1>3 DEF BacklogOK
  <1>10. c.off \in Nat /\ c.off = (o + 1) - h + 1 /\ c.off >= b.off
    <2>1. c.off = o + 1 - h + 1
      BY <1>7
    <2>2. PICK g \in 0..K : g = b.histlen
      BY <1>4
    <2>3. o - g + 1 \in Nat /\ h <= g + 1
      BY <1>4, <1>5, <1>9, <2>2
    <2>4. o + 1 - h + 1 \in Nat /\ o + 1 - h + 1 >= o - g + 1
      BY <2>3
    <2> QED BY <1>9, <2>1, <2>2, <2>4
  <1>11. c \in Backlogs
    <2>1. (b.idx + 1) % K \in 0..(K - 1)
      <3>1. 1 \in 1..K
        OBVIOUS
      <3> QED BY <1>6, <3>1, RingStep
    <2>2. [b.buf EXCEPT ![b.idx] = u] \in [0..(K - 1) -> Units \cup {None}]
      BY <1>4
    <2>3. o + 1 - h + 1 \in Nat
      BY <1>7, <1>10
    <2> QED BY <1>1, <1>7, <2>1, <2>2, <2>3 DEF Backlogs
  <1>12. v2 \in Server /\ v2.offset = o + 1 /\ v2.backlog = c /\ v2 = [v EXCEPT !.offset = v2.offset, !.backlog = v2.backlog]
    <2>1. o + 1 \in Offsets
      BY ONLY o \in Nat DEF Offsets
    <2>2. PICK g : g = o + 1
      OBVIOUS
    <2>3. g \in Offsets
      BY ONLY <2>1, <2>2
    <2>4. PICK v1 : v1 = [v EXCEPT !.offset = g]
      OBVIOUS
    <2>5. v1 \in Server /\ v1.offset = g
      BY ONLY <2>3, <2>4, v \in Server DEF Server
    <2>6. v2 = [v1 EXCEPT !.backlog = c]
      BY ONLY <1>8, <2>2, <2>4, v \in Server DEF Server
    <2>7. v2 \in Server /\ v2.offset = g /\ v2.backlog = c
      BY ONLY <1>11, <2>5, <2>6 DEF Server
    <2>8. v2 = [v EXCEPT !.offset = g, !.backlog = c]
      BY ONLY <1>8, <2>2
    <2> QED BY ONLY <2>2, <2>7, <2>8
  <1>13. ASSUME NEW p \in c.off..(o + 1)
         PROVE  HU(v2, p) = IF p = o + 1 THEN u ELSE HU(v, p)
    <2>1. PICK d \in 1..K : d = o + 1 + 1 - p
      BY <1>5, <1>10
    <2>2. PICK j : j = (((idx + 1) % K) + K - d) % K
      OBVIOUS
    <2>3. j \in 0..(K - 1) /\ j = (idx + K - (d - 1)) % K /\ (d = 1 => j = idx) /\ (d # 1 => j # idx)
      BY <2>2, RingStep
    <2>4. HU(v2, p) = c.buf[j]
      BY <1>1, <1>6, <1>7, <1>12, <2>1, <2>2 DEF HU
    <2>5. HU(v, p) = b.buf[j]
      <3>1. d - 1 = o + 1 - p
        BY <2>1
      <3> QED BY <1>1, <1>2, <1>3, <1>6, <2>3, <3>1 DEF HU
    <2>6. c.buf[j] = IF j = idx THEN u ELSE b.buf[j]
      BY <1>4, <1>6, <1>7, <2>3
    <2>7. (d = 1) <=> (p = o + 1)
      BY <2>1
    <2> QED BY <2>3, <2>4, <2>5, <2>6, <2>7
  <1>14. BacklogOK(v2)
    <2>1. ASSUME NEW p \in c.off..(o + 1) PROVE HU(v2, p) \in Units
      <3>1. CASE p = o + 1
        BY <1>13, <3>1
      <3>2. CASE p # o + 1
        <4>1. p \in b.off..o
          BY <1>10, <1>4, <3>2
        <4>2. HU(v, p) \in Units
          BY <1>2, <1>3, <4>1 DEF BacklogOK
        <4> QED BY <1>13, <3>2, <4>2
      <3> QED BY <3>1, <3>2
    <2> QED BY <1>7, <1>10, <1>11, <1>12, <2>1 DEF BacklogOK
  <1>15. Grew(v, v2, <<u>>)
    <2>1. Len(<<u>>) = 1 /\ <<u>>[1] = u
      OBVIOUS
    <2>2. ASSUME NEW p \in c.off..o PROVE HU(v2, p) = HU(v, p)
      <3>1. p \in c.off..(o + 1) /\ p # o + 1
        BY <1>10
      <3> QED BY <1>13, <3>1
    <2>3. HU(v2, o + 1) = u
      <3>1. o + 1 \in c.off..(o + 1)
        BY <1>5, <1>10
      <3> QED BY <1>13, <3>1
    <2>4. ASSUME NEW i \in 1..Len(<<u>>) PROVE HU(v2, v.offset + i) = <<u>>[i]
      <3>1. i = 1
        BY <2>1
      <3> QED BY <1>3, <2>1, <2>3, <3>1
    <2> QED BY <1>2, <1>3, <1>10, <1>12, <1>14, <2>1, <2>2, <2>4 DEF Grew
  <1> QED BY <1>12, <1>15

LEMMA GrewNothing ==
    ASSUME NEW v, BacklogOK(v)
    PROVE  Grew(v, v, <<>>)
  <1>1. v.offset \in Nat /\ v.backlog.off \in Nat
    BY DEF BacklogOK, Backlogs
  <1> QED BY <1>1 DEF Grew

LEMMA GrewMore ==
    ASSUME NEW v, NEW v1, NEW v2, NEW U \in Seq(Units), NEW u \in Units, BacklogOK(v), Grew(v, v1, U), Grew(v1, v2, <<u>>)
    PROVE  Grew(v, v2, Append(U, u))
  <1>1. PICK o \in Nat : o = v.offset
    BY DEF BacklogOK
  <1>2. PICK n \in Nat : n = Len(U)
    BY LenProperties
  <1>3. PICK W : W = Append(U, u)
    OBVIOUS
  <1>4. Len(W) = n + 1 /\ W[n + 1] = u /\ \A i \in 1..n : W[i] = U[i]
    BY <1>2, <1>3, AppendProperties
  <1>5. v1.offset = o + n /\ v2.offset = o + (n + 1)
    <2>1. Len(<<u>>) = 1
      OBVIOUS
    <2>2. v1.offset = v.offset + Len(U)
      BY ONLY Grew(v, v1, U) DEF Grew
    <2>3. v2.offset = v1.offset + Len(<<u>>)
      BY ONLY Grew(v1, v2, <<u>>) DEF Grew
    <2> QED BY ONLY <1>1, <1>2, <2>1, <2>2, <2>3, o \in Nat, n \in Nat
  <1>6. BacklogOK(v2) /\ v2.backlog.off \in Nat /\ v1.backlog.off \in Nat /\ v.backlog.off \in Nat
    BY ONLY BacklogOK(v), Grew(v, v1, U), Grew(v1, v2, <<u>>) DEF Grew, BacklogOK, Backlogs
  <1>7. v2.backlog.off >= v1.backlog.off /\ v1.backlog.off >= v.backlog.off
    BY ONLY Grew(v, v1, U), Grew(v1, v2, <<u>>) DEF Grew
  <1>8. ASSUME NEW p \in v2.backlog.off..o PROVE HU(v2, p) = HU(v, p)
    <2>1. p \in v2.backlog.off..(o + n) /\ p \in v1.backlog.off..o
      BY <1>6, <1>7
    <2>2. HU(v2, p) = HU(v1, p)
      BY <1>5, <2>1 DEF Grew
    <2>3. HU(v1, p) = HU(v, p)
      BY <1>1, <2>1 DEF Grew
    <2> QED BY <2>2, <2>3
  <1>9. ASSUME NEW i \in 1..(n + 1), o + i >= v2.backlog.off PROVE HU(v2, o + i) = W[i]
    <2>1. CASE i = n + 1
      <3>1. Len(<<u>>) = 1 /\ <<u>>[1] = u /\ 1 \in 1..1 /\ v1.offset + 1 = o + i
        BY <1>5, <2>1
      <3>2. HU(v2, v1.offset + 1) = <<u>>[1]
        <4>1. PICK e : e = <<u>>
          OBVIOUS
        <4>2. Grew(v1, v2, e) /\ Len(e) = 1 /\ v1.offset + 1 >= v2.backlog.off
          BY <1>9, <3>1, <4>1
        <4>3. HU(v2, v1.offset + 1) = e[1]
          BY <3>1, <4>2 DEF Grew
        <4> QED BY <4>1, <4>3
      <3> QED BY <1>4, <2>1, <3>1, <3>2
    <2>2. CASE i # n + 1
      <3>1. i \in 1..n /\ o + i \in v2.backlog.off..(o + n) /\ o + i >= v1.backlog.off
        BY <1>6, <1>7, <1>9, <2>2
      <3>2. HU(v2, o + i) = HU(v1, o + i)
        BY <1>5, <3>1 DEF Grew
      <3>3. HU(v1, o + i) = U[i]
        BY <1>1, <1>2, <3>1 DEF Grew
      <3> QED BY <1>4, <3>1, <3>2, <3>3
    <2> QED BY <2>1, <2>2
  <1>10. Grew(v, v2, W)
    <2>1. v2.offset = v.offset + Len(W) /\ v2.backlog.off >= v.backlog.off
      BY ONLY <1>1, <1>4, <1>5, <1>6, <1>7, o \in Nat, n \in Nat
    <2>2. \A p \in v2.backlog.off..v.offset : HU(v2, p) = HU(v, p)
      BY ONLY <1>1, <1>8
    <2>3. \A i \in 1..Len(W) : v.offset + i >= v2.backlog.off => HU(v2, v.offset + i) = W[i]
      BY ONLY <1>1, <1>4, <1>9
    <2> QED BY ONLY <1>6, <2>1, <2>2, <2>3 DEF Grew
  <1> QED BY <1>3, <1>10

\* What the loop has done after i units.
FedTo(f, v, units, i) ==
  /\ f[i] \in Server /\ f[i] = [v EXCEPT !.offset = f[i].offset, !.backlog = f[i].backlog]
  /\ Grew(v, f[i], SubSeq(units, 1, i))

LEMMA FeedGrows ==
    ASSUME NEW v \in Server, BacklogOK(v), NEW units \in Seq(Units), NEW v2, v2 = feedReplicationBacklog(v, units)
    PROVE  /\ v2 \in Server /\ v2 = [v EXCEPT !.offset = v2.offset, !.backlog = v2.backlog]
           /\ Grew(v, v2, units)
  <1>1. PICK n \in Nat : n = Len(units)
    BY LenProperties
  <1>2. PICK f : FeedLoop(f, v, units, n) /\ v2 = f[n]
    BY <1>1, FeedIsLoop
  <1> DEFINE G == {i \in 0..n : FedTo(f, v, units, i)}
  <1>3. 0 \in G
    <2>1. f[0] = v
      BY <1>2 DEF FeedLoop
    <2>2. v = [v EXCEPT !.offset = v.offset, !.backlog = v.backlog]
      BY DEF Server
    <2>3. SubSeq(units, 1, 0) = <<>>
      OBVIOUS
    <2>4. FedTo(f, v, units, 0)
      BY <2>1, <2>2, <2>3, GrewNothing DEF FedTo
    <2> QED BY <2>4
  <1>4. \A i \in 1..n : i - 1 \in G => i \in G
    <2> SUFFICES ASSUME NEW i \in 1..n, FedTo(f, v, units, i - 1) PROVE FedTo(f, v, units, i)
      OBVIOUS
    <2>1. PICK y \in Server : y = f[i - 1]
      BY DEF FedTo
    <2>2. PICK z : z = f[i]
      OBVIOUS
    <2>3. PICK u \in Units : u = units[i]
      <3>1. units[i] \in Units
        BY <1>1
      <3> QED BY <3>1
    <2>4. PICK U \in Seq(Units) : U = SubSeq(units, 1, i - 1)
      <3>1. SubSeq(units, 1, i - 1) \in Seq(Units)
        BY <1>1
      <3> QED BY <3>1
    <2>5. z = FeedUnit(y, u)
      <3>1. \A j \in 0..n : f[j] = IF j = 0 THEN v ELSE FeedUnit(f[j - 1], units[j])
        BY <1>2 DEF FeedLoop
      <3>2. i \in 0..n /\ i # 0
        OBVIOUS
      <3>3. f[i] = FeedUnit(f[i - 1], units[i])
        BY <3>1, <3>2, Zenon
      <3> QED BY <2>1, <2>2, <2>3, <3>3, Zenon
    <2>6. y = [v EXCEPT !.offset = y.offset, !.backlog = y.backlog] /\ Grew(v, y, U)
      BY <2>1, <2>4 DEF FedTo
    <2>7. BacklogOK(y)
      BY <2>6 DEF Grew
    <2>8. z \in Server /\ z = [y EXCEPT !.offset = z.offset, !.backlog = z.backlog] /\ Grew(y, z, <<u>>)
      BY ONLY <2>5, <2>7, y \in Server, u \in Units, FeedUnitGrows
    <2>9. Grew(v, z, Append(U, u))
      BY ONLY <2>6, <2>8, U \in Seq(Units), u \in Units, BacklogOK(v), GrewMore
    <2>10. SubSeq(units, 1, i) = Append(U, u)
      BY <1>1, <2>3, <2>4
    <2>11. z = [v EXCEPT !.offset = z.offset, !.backlog = z.backlog]
      BY <2>6, <2>8 DEF Server
    <2> QED BY <2>2, <2>8, <2>9, <2>10, <2>11 DEF FedTo
  <1> HIDE DEF G
  <1>5. n \in G
    <2>1. 0..n \subseteq G
      BY <1>3, <1>4, IntervalInduction
    <2> QED BY <2>1
  <1>6. SubSeq(units, 1, n) = units
    BY <1>1
  <1> QED BY <1>2, <1>5, <1>6 DEF G, FedTo

\* The units a partial resynchronization sends are those from an offset on.
LEMMA HistoryUnits ==
    ASSUME NEW v, BacklogOK(v), NEW p \in v.backlog.off..(v.offset + 1), NEW U, U = addReplyReplicationBacklog(v.backlog, p)
    PROVE  U \in Seq(Units) /\ Len(U) = v.offset + 1 - p /\ \A i \in 1..Len(U) : U[i] = HU(v, p + i - 1)
  <1>1. PICK K \in Nat \ {0} : K = repl_backlog_size
    BY SizesAssumption
  <1>2. PICK b \in Backlogs : b = v.backlog
    BY DEF BacklogOK
  <1>3. PICK o \in Nat : o = v.offset
    BY DEF BacklogOK
  <1>4. b.idx \in 0..(K - 1) /\ b.histlen \in 0..K /\ b.off \in Nat /\ b.off = o - b.histlen + 1 /\ p \in Nat
    BY <1>1, <1>2, <1>3 DEF Backlogs, BacklogOK
  <1>5. PICK idx \in 0..(K - 1) : idx = b.idx
    BY <1>4
  <1>6. PICK n \in 0..K : n = o + 1 - p
    BY <1>2, <1>3, <1>4
  <1>7. b.histlen - (p - b.off) = n /\ idx + (K - b.histlen) + (p - b.off) = idx + K - n
    BY <1>4, <1>6
  <1>8. U = [i \in 1..n |-> b.buf[(((idx + K - n) % K) + i - 1) % K]]
    BY <1>1, <1>2, <1>5, <1>7 DEF addReplyReplicationBacklog
  <1>9. ASSUME NEW i \in 1..n PROVE (((idx + K - n) % K) + i - 1) % K = (idx + K - (n - i + 1)) % K
    <2>1. PICK y \in 0..(2 * K - 1) : y = idx + K - n
      OBVIOUS
    <2>2. (idx + K - n) % K = IF idx + K - n < K THEN idx + K - n ELSE idx - n
      <3>1. y % K = IF y < K THEN y ELSE y - K
        BY SmallModulo
      <3> QED BY <2>1, <3>1
    <2>3. PICK j \in 0..(K - 1) : j = (idx + K - n) % K
      BY <2>2
    <2>4. PICK z \in 0..(2 * K - 1) : z = j + i - 1
      OBVIOUS
    <2>5. (j + i - 1) % K = IF j + i - 1 < K THEN j + i - 1 ELSE j + i - 1 - K
      <3>1. z % K = IF z < K THEN z ELSE z - K
        BY SmallModulo
      <3> QED BY <2>4, <3>1
    <2>6. PICK t \in 0..(2 * K - 1) : t = idx + K - (n - i + 1)
      OBVIOUS
    <2>7. (idx + K - (n - i + 1)) % K = IF idx + K - (n - i + 1) < K THEN idx + K - (n - i + 1) ELSE idx - (n - i + 1)
      <3>1. t % K = IF t < K THEN t ELSE t - K
        BY SmallModulo
      <3> QED BY <2>6, <3>1
    <2> QED BY <2>2, <2>3, <2>5, <2>7
  <1>10. ASSUME NEW i \in 1..n PROVE U[i] = HU(v, p + i - 1) /\ U[i] \in Units
    <2>1. U[i] = b.buf[(idx + K - (n - i + 1)) % K]
      <3>1. U[i] = b.buf[(((idx + K - n) % K) + i - 1) % K]
        BY <1>8
      <3> QED BY <1>9, <3>1, Zenon
    <2>2. n - i + 1 = o + 1 - (p + i - 1)
      BY <1>4, <1>6
    <2>3. HU(v, p + i - 1) = b.buf[(idx + K - (n - i + 1)) % K]
      BY <1>1, <1>2, <1>3, <1>5, <2>2 DEF HU
    <2>4. p + i - 1 \in b.off..o
      BY <1>2, <1>4, <1>6
    <2>5. HU(v, p + i - 1) \in Units
      BY <1>2, <1>3, <2>4 DEF BacklogOK
    <2> QED BY <2>1, <2>3, <2>5
  <1>11. U = [i \in 1..n |-> U[i]]
    BY <1>8
  <1>12. U \in Seq(Units) /\ Len(U) = n
    BY <1>10, <1>11
  <1> QED BY <1>3, <1>6, <1>10, <1>12

---------------------------------------------------------------------------
(* The stream and those who follow it.                                     *)

\* S is the rest of the stream, up to now, for a slave in state x at offset pos: with it
\* the slave gets to the data of the master, and the backlog has the end of it.
Stream(v, pos, x, S) ==
  /\ S \in Seq(Units) /\ Len(S) = v.offset - pos /\ Arrives(v, Replayed(x, S))
  /\ \A j \in 1..Len(S) : pos + j >= v.backlog.off => S[j] = HU(v, pos + j)

Begins(U, S) == Len(U) <= Len(S) /\ \A j \in 1..Len(U) : U[j] = S[j]

\* A slave without a link that still has U to read could continue afterwards, if the
\* backlog reaches back as far.
Resumes(v, pos, x, U) ==
  /\ pos + Len(U) <= v.offset
  /\ v.backlog # None /\ pos + Len(U) + 1 >= v.backlog.off => \E S \in Seq(Units) : Stream(v, pos, x, S) /\ Begins(U, S)

\* A run id that the server of v has had, or that is not one of its own.
Known(v, r) == IF r = None THEN TRUE ELSE r[1] # v.runid[1] \/ r[2] <= v.runid[2]

\* A slave with the client rec of its master and some data, to be sent U by c.
Follow(c, v, rec, data, U) ==
  /\ U \in Seq(Units)
  /\ ~rec.pre => Known(v, rec.runid)
  /\ c = None => (~rec.pre /\ rec.runid = v.runid /\ ~v.reused => Resumes(v, rec.reploff, Reading(data, rec), U))
  /\ c # None => /\ c.unsound => rec.pre \/ v.reused
                 /\ rec.pre => c.pre \/ c.unsound
                 /\ ~rec.pre => rec.runid = v.runid
                 /\ ~c.unsound => Arrives(v, Replayed(Reading(data, rec), U))
                 /\ ~c.unsound /\ ~rec.pre => Stream(v, rec.reploff, Reading(data, rec), U)

\* The master goes on, by the units E.
Moves(v, v2, E) ==
  /\ E \in Seq(Units) /\ v2.runid = v.runid /\ (v.reused => v2.reused)
  /\ \A x \in States : Arrives(v, x) => Arrives(v2, Replayed(x, E))
  /\ v.backlog # None /\ BacklogOK(v) /\ v2.backlog # None /\ Grew(v, v2, E)

\* The master begins something new, as far as those without a link can tell.
Severs(v, v2) ==
  \/ v2.runid \in RunIds /\ v2.runid[1] = v.runid[1] /\ v2.runid[2] > v.runid[2]
  \/ /\ v2.runid = v.runid /\ (v.reused => v2.reused)
     /\ v2.reused \/ (v.offset <= v2.offset /\ (v2.backlog # None => v2.backlog.off > v.offset + 1))

LEMMA ReadingState ==
    ASSUME NEW data \in Data, NEW rec \in Masters
    PROVE  Reading(data, rec) \in States
  BY DEF Reading, States, Masters

LEMMA StreamMoves ==
    ASSUME NEW v, NEW v2, NEW E, Moves(v, v2, E), NEW x \in States, NEW pos \in Int, NEW S, Stream(v, pos, x, S)
    PROVE  Stream(v2, pos, x, S \o E)
  <1>1. S \in Seq(Units) /\ E \in Seq(Units)
    BY DEF Stream, Moves
  <1>2. PICK o \in Nat : o = v.offset
    BY DEF Moves, BacklogOK
  <1>3. PICK n \in Nat : n = Len(S)
    BY <1>1, LenProperties
  <1>4. PICK k \in Nat : k = Len(E)
    BY <1>1, LenProperties
  <1>5. n = o - pos /\ v2.offset = o + k
    BY <1>2, <1>3, <1>4 DEF Stream, Moves, Grew
  <1>6. PICK T : T = S \o E
    OBVIOUS
  <1>7. T \in Seq(Units) /\ Len(T) = n + k /\ \A j \in 1..(n + k) : T[j] = IF j <= n THEN S[j] ELSE E[j - n]
    BY <1>1, <1>3, <1>4, <1>6, ConcatProperties
  <1>8. Arrives(v2, Replayed(x, T))
    <2>1. Replayed(x, S \o E) = Replayed(Replayed(x, S), E)
      BY ONLY <1>1, ReplayedConcat
    <2>2. PICK y \in States : y = Replayed(x, S)
      BY <1>1, ReplayedType
    <2>3. Arrives(v, y)
      BY <2>2 DEF Stream
    <2>4. Arrives(v2, Replayed(y, E))
      BY <2>3 DEF Moves
    <2> QED BY <1>6, <2>1, <2>2, <2>4
  <1>9. v.backlog.off \in Nat /\ v2.backlog.off \in Nat /\ v2.backlog.off >= v.backlog.off
    BY DEF Moves, Grew, BacklogOK, Backlogs
  <1>10. ASSUME NEW j \in 1..(n + k), pos + j >= v2.backlog.off PROVE T[j] = HU(v2, pos + j)
    <2>1. CASE j <= n
      <3>1. j \in 1..n /\ pos + j >= v.backlog.off /\ pos + j \in v2.backlog.off..o
        BY <1>5, <1>9, <1>10, <2>1
      <3>2. S[j] = HU(v, pos + j)
        BY <1>3, <3>1 DEF Stream
      <3>3. HU(v2, pos + j) = HU(v, pos + j)
        BY <1>2, <3>1 DEF Moves, Grew
      <3> QED BY <1>7, <2>1, <3>2, <3>3
    <2>2. CASE ~(j <= n)
      <3>1. PICK i \in 1..k : i = j - n
        BY <2>2
      <3>2. pos + j = o + i
        BY <1>5, <3>1
      <3>3. HU(v2, o + i) = E[i]
        BY <1>2, <1>4, <1>10, <3>2 DEF Moves, Grew
      <3>4. T[j] = E[i]
        BY <1>7, <2>2, <3>1
      <3> QED BY <3>2, <3>3, <3>4
    <2> QED BY <2>1, <2>2
  <1>11. Len(T) = v2.offset - pos
    BY <1>5, <1>7
  <1>12. Stream(v2, pos, x, T)
    BY <1>7, <1>8, <1>10, <1>11 DEF Stream
  <1> QED BY <1>6, <1>12

LEMMA ResumesMoves ==
    ASSUME NEW v, NEW v2, NEW E, Moves(v, v2, E), NEW x \in States, NEW pos \in Int, NEW U \in Seq(Units), Resumes(v, pos, x, U)
    PROVE  Resumes(v2, pos, x, U)
  <1>1. PICK n \in Nat : n = Len(U)
    BY LenProperties
  <1>2. PICK o \in Nat : o = v.offset
    BY DEF Moves, BacklogOK
  <1>3. PICK k \in Nat : k = Len(E)
    BY LenProperties DEF Moves
  <1>4. pos + n <= o /\ v2.offset = o + k
    BY <1>1, <1>2, <1>3 DEF Moves, Grew, Resumes
  <1>5. v.backlog.off \in Nat /\ v2.backlog.off \in Nat /\ v2.backlog.off >= v.backlog.off /\ v.backlog # None
    BY DEF Moves, Grew, BacklogOK, Backlogs
  <1>6. ASSUME pos + n + 1 >= v2.backlog.off PROVE \E S \in Seq(Units) : Stream(v2, pos, x, S) /\ Begins(U, S)
    <2>1. pos + Len(U) + 1 >= v.backlog.off
      BY <1>1, <1>5, <1>6
    <2>2. PICK S \in Seq(Units) : Stream(v, pos, x, S) /\ Begins(U, S)
      BY <1>5, <2>1 DEF Resumes
    <2>3. PICK T : T = S \o E
      OBVIOUS
    <2>4. Stream(v2, pos, x, T)
      BY <2>2, <2>3, StreamMoves
    <2>5. Begins(U, T)
      <3>1. PICK m \in Nat : m = Len(S)
        BY LenProperties
      <3>2. Len(T) = m + k /\ \A j \in 1..m : T[j] = S[j]
        BY <1>3, <2>3, <3>1, ConcatProperties DEF Moves
      <3>3. n <= m /\ \A j \in 1..n : U[j] = S[j]
        BY <1>1, <2>2, <3>1 DEF Begins
      <3> QED BY <1>1, <3>2, <3>3 DEF Begins
    <2> QED BY <2>4, <2>5 DEF Stream
  <1>7. pos + n <= v2.offset
    BY <1>4
  <1> QED BY <1>1, <1>6, <1>7 DEF Resumes

LEMMA StreamResumes ==
    ASSUME NEW v, NEW x, NEW pos \in Int, NEW S, Stream(v, pos, x, S), v.offset \in Int, NEW U \in Seq(Units), Begins(U, S)
    PROVE  Resumes(v, pos, x, U)
  <1>1. PICK n \in Nat : n = Len(U)
    BY LenProperties
  <1>2. S \in Seq(Units)
    BY DEF Stream
  <1>3. PICK k \in Nat : k = Len(S)
    BY <1>2, LenProperties
  <1>4. n <= k /\ k = v.offset - pos
    BY <1>1, <1>3 DEF Begins, Stream
  <1> QED BY <1>1, <1>2, <1>4 DEF Resumes

LEMMA ResumesCut ==
    ASSUME NEW v, NEW x, NEW pos \in Int, NEW U \in Seq(Units), Resumes(v, pos, x, U), NEW T \in Seq(Units), Begins(T, U),
           v.offset \in Int, v.backlog # None => v.backlog.off \in Int
    PROVE  Resumes(v, pos, x, T)
  <1>1. PICK n \in Nat : n = Len(U)
    BY LenProperties
  <1>2. PICK k \in Nat : k = Len(T)
    BY LenProperties
  <1>3. k <= n /\ (\A j \in 1..k : T[j] = U[j]) /\ pos + n <= v.offset
    BY <1>1, <1>2 DEF Begins, Resumes
  <1>4. ASSUME v.backlog # None, pos + k + 1 >= v.backlog.off
        PROVE  \E S \in Seq(Units) : Stream(v, pos, x, S) /\ Begins(T, S)
    <2>1. pos + Len(U) + 1 >= v.backlog.off
      BY <1>1, <1>3, <1>4
    <2>2. PICK S \in Seq(Units) : Stream(v, pos, x, S) /\ Begins(U, S)
      BY <1>4, <2>1 DEF Resumes
    <2>3. Len(S) \in Nat /\ n <= Len(S) /\ \A j \in 1..n : U[j] = S[j]
      BY <1>1, <2>2, LenProperties DEF Begins
    <2>4. Begins(T, S)
      BY <1>2, <1>3, <2>3 DEF Begins
    <2> QED BY <2>2, <2>4
  <1>5. pos + k <= v.offset
    BY <1>3
  <1> QED BY <1>2, <1>4, <1>5 DEF Resumes

\* What a slave that may continue lacks is what the backlog has from its offset on.
LEMMA ResumesHistory ==
    ASSUME NEW v, NEW x, NEW pos \in Int, Resumes(v, pos, x, <<>>), v.backlog # None, BacklogOK(v),
           pos + 1 >= v.backlog.off, NEW U, U = addReplyReplicationBacklog(v.backlog, pos + 1)
    PROVE  Stream(v, pos, x, U)
  <1>1. PICK o \in Nat : o = v.offset
    BY DEF BacklogOK
  <1>2. v.backlog.off \in Nat /\ Len(<<>>) = 0
    BY DEF BacklogOK, Backlogs
  <1>3. pos <= o /\ pos + Len(<<>>) + 1 >= v.backlog.off
    BY <1>1, <1>2 DEF Resumes
  <1>4. PICK S \in Seq(Units) : Stream(v, pos, x, S)
    BY <1>3 DEF Resumes
  <1>5. PICK p \in v.backlog.off..(v.offset + 1) : p = pos + 1
    BY <1>1, <1>2, <1>3
  <1>6. U \in Seq(Units) /\ Len(U) = v.offset + 1 - p /\ \A i \in 1..Len(U) : U[i] = HU(v, p + i - 1)
    BY <1>5, HistoryUnits
  <1>7. PICK n \in Nat : n = Len(S)
    BY LenProperties
  <1>8. n = o - pos /\ Len(U) = n
    BY <1>1, <1>4, <1>5, <1>6, <1>7 DEF Stream
  <1>9. ASSUME NEW j \in 1..n PROVE U[j] = S[j]
    <2>1. pos + j >= v.backlog.off /\ p + j - 1 = pos + j
      BY <1>2, <1>5
    <2>2. S[j] = HU(v, pos + j)
      BY <1>4, <1>7, <2>1 DEF Stream
    <2>3. U[j] = HU(v, p + j - 1)
      BY <1>6, <1>8
    <2> QED BY <2>1, <2>2, <2>3
  <1>10. U = S
    BY <1>6, <1>7, <1>8, <1>9, SeqEqual
  <1> QED BY <1>4, <1>10

LEMMA StreamRead ==
    ASSUME NEW v, v.offset \in Int, NEW x \in States, NEW pos \in Int, NEW S, Stream(v, pos, x, S), S # <<>>
    PROVE  Stream(v, pos + 1, Apply(x, Head(S)), Tail(S))
  <1>1. S \in Seq(Units)
    BY DEF Stream
  <1>2. PICK n \in Nat : n = Len(S)
    BY <1>1, LenProperties
  <1>3. n = v.offset - pos /\ n # 0
    BY <1>1, <1>2, EmptySeq DEF Stream
  <1>4. PICK T : T = Tail(S)
    OBVIOUS
  <1>5. T \in Seq(Units) /\ Len(T) = n - 1 /\ \A j \in 1..(n - 1) : T[j] = S[j + 1]
    BY <1>1, <1>2, <1>3, <1>4, HeadTailProperties
  <1>6. Replayed(x, S) = Replayed(Apply(x, Head(S)), T)
    BY <1>1, <1>4, ReplayedHead
  <1>7. ASSUME NEW j \in 1..(n - 1), (pos + 1) + j >= v.backlog.off PROVE T[j] = HU(v, (pos + 1) + j)
    <2>1. PICK i \in 1..n : i = j + 1
      OBVIOUS
    <2>2. pos + i = (pos + 1) + j
      BY <2>1
    <2>3. S[i] = HU(v, pos + i)
      BY <1>2, <1>7, <2>2 DEF Stream
    <2> QED BY <1>5, <2>1, <2>2, <2>3
  <1>8. n - 1 = v.offset - (pos + 1)
    BY <1>3
  <1>9. Stream(v, pos + 1, Apply(x, Head(S)), T)
    BY <1>5, <1>6, <1>7, <1>8 DEF Stream
  <1> QED BY <1>4, <1>9

LEMMA ResumesRead ==
    ASSUME NEW v, v.offset \in Int, v.backlog # None => v.backlog.off \in Int, NEW x \in States, NEW pos \in Int,
           NEW U \in Seq(Units), Resumes(v, pos, x, U), U # <<>>
    PROVE  Resumes(v, pos + 1, Apply(x, Head(U)), Tail(U))
  <1>1. PICK n \in Nat : n = Len(U)
    BY LenProperties
  <1>2. PICK T : T = Tail(U)
    OBVIOUS
  <1>3. n # 0 /\ T \in Seq(Units) /\ Len(T) = n - 1 /\ (\A j \in 1..(n - 1) : T[j] = U[j + 1]) /\ Head(U) = U[1]
    BY <1>1, <1>2, HeadTailProperties, EmptySeq
  <1>4. pos + n <= v.offset
    BY <1>1 DEF Resumes
  <1>5. ASSUME v.backlog # None, (pos + 1) + (n - 1) + 1 >= v.backlog.off
        PROVE  \E S \in Seq(Units) : Stream(v, pos + 1, Apply(x, Head(U)), S) /\ Begins(T, S)
    <2>1. pos + Len(U) + 1 >= v.backlog.off
      BY <1>1, <1>5
    <2>2. PICK S \in Seq(Units) : Stream(v, pos, x, S) /\ Begins(U, S)
      BY <1>5, <2>1 DEF Resumes
    <2>3. PICK m \in Nat : m = Len(S)
      BY LenProperties
    <2>4. n <= m /\ \A j \in 1..n : U[j] = S[j]
      BY <1>1, <2>2, <2>3 DEF Begins
    <2>5. S # <<>> /\ Head(S) = Head(U)
      <3>1. S # <<>>
        BY <1>3, <2>3, <2>4
      <3>2. Head(S) = S[1] /\ 1 \in 1..n
        BY <1>3, <3>1, HeadTailProperties
      <3> QED BY <1>3, <2>4, <3>1, <3>2
    <2>6. PICK R : R = Tail(S)
      OBVIOUS
    <2>7. R \in Seq(Units) /\ Len(R) = m - 1 /\ \A j \in 1..(m - 1) : R[j] = S[j + 1]
      BY <2>3, <2>5, <2>6, HeadTailProperties
    <2>8. Stream(v, pos + 1, Apply(x, Head(U)), R)
      BY <2>2, <2>5, <2>6, StreamRead
    <2>9. ASSUME NEW j \in 1..(n - 1) PROVE T[j] = R[j]
      <3>1. j + 1 \in 1..n /\ j \in 1..(m - 1)
        BY <2>4
      <3> QED BY <1>3, <2>4, <2>7, <3>1
    <2>10. Begins(T, R)
      BY <1>3, <2>4, <2>7, <2>9 DEF Begins
    <2> QED BY <2>7, <2>8, <2>10
  <1>6. (pos + 1) + (n - 1) <= v.offset
    BY <1>4
  <1>7. Resumes(v, pos + 1, Apply(x, Head(U)), T)
    BY <1>3, <1>5, <1>6 DEF Resumes
  <1> QED BY <1>2, <1>7

LEMMA FollowMoves ==
    ASSUME NEW v, NEW v2, NEW E, Moves(v, v2, E), NEW rec \in Masters, NEW data \in Data, NEW c, c # None, NEW U,
           Follow(c, v, rec, data, U)
    PROVE  Follow(c, v2, rec, data, U \o E)
  <1>1. PICK x \in States : x = Reading(data, rec)
    BY ReadingState
  <1>2. PICK pos \in Int : pos = rec.reploff
    BY DEF Masters, Offsets
  <1>3. U \in Seq(Units) /\ E \in Seq(Units) /\ v2.runid = v.runid /\ (v.reused => v2.reused)
    BY DEF Follow, Moves
  <1>4. PICK T \in Seq(Units) : T = U \o E
    <2>1. U \o E \in Seq(Units)
      BY <1>3, ConcatProperties
    <2> QED BY <2>1
  <1>5. ~rec.pre => Known(v2, rec.runid)
    BY <1>3 DEF Follow, Known
  <1>6. ASSUME ~c.unsound PROVE Arrives(v2, Replayed(x, T))
    <2>1. PICK y \in States : y = Replayed(x, U)
      BY <1>3, ReplayedType
    <2>2. Arrives(v, y)
      BY <1>1, <1>6, <2>1 DEF Follow
    <2>3. Arrives(v2, Replayed(y, E))
      BY <2>2 DEF Moves
    <2>4. Replayed(x, U \o E) = Replayed(Replayed(x, U), E)
      BY ONLY <1>3, ReplayedConcat
    <2> QED BY <1>4, <2>1, <2>3, <2>4
  <1>7. ASSUME ~c.unsound, ~rec.pre PROVE Stream(v2, pos, x, T)
    <2>1. Stream(v, pos, x, U)
      BY <1>1, <1>2, <1>7 DEF Follow
    <2> QED BY <1>4, <2>1, StreamMoves
  <1>8. (c.unsound => rec.pre \/ v2.reused) /\ (rec.pre => c.pre \/ c.unsound) /\ (~rec.pre => rec.runid = v2.runid)
    BY <1>3 DEF Follow
  <1>9. Follow(c, v2, rec, data, T)
    BY <1>1, <1>2, <1>5, <1>6, <1>7, <1>8 DEF Follow
  <1> QED BY <1>4, <1>9

LEMMA FollowMovesUnlinked ==
    ASSUME NEW v, NEW v2, NEW E, Moves(v, v2, E), NEW rec \in Masters, NEW data \in Data, NEW U, Follow(None, v, rec, data, U)
    PROVE  Follow(None, v2, rec, data, U)
  <1>1. PICK x \in States : x = Reading(data, rec)
    BY ReadingState
  <1>2. PICK pos \in Int : pos = rec.reploff
    BY DEF Masters, Offsets
  <1>3. U \in Seq(Units) /\ v2.runid = v.runid /\ (v.reused => v2.reused)
    BY DEF Follow, Moves
  <1>4. ~rec.pre => Known(v2, rec.runid)
    BY <1>3 DEF Follow, Known
  <1>5. ASSUME ~rec.pre, rec.runid = v2.runid, ~v2.reused PROVE Resumes(v2, pos, x, U)
    <2>1. Resumes(v, pos, x, U)
      BY <1>1, <1>2, <1>3, <1>5 DEF Follow
    <2> QED BY <1>3, <2>1, ResumesMoves
  <1> QED BY <1>1, <1>2, <1>3, <1>4, <1>5 DEF Follow

LEMMA FollowSevers ==
    ASSUME NEW v, NEW v2, Severs(v, v2), v.offset \in Int, v2.offset \in Int, v2.backlog # None => v2.backlog.off \in Int,
           NEW rec \in Masters, NEW data \in Data, NEW U, Follow(None, v, rec, data, U), v.runid \in RunIds
    PROVE  Follow(None, v2, rec, data, U)
  <1>1. U \in Seq(Units)
    BY DEF Follow
  <1>2. rec.runid = None \/ rec.runid \in RunIds
    BY DEF Masters
  <1>3. v.runid[2] \in Nat /\ (rec.runid # None => rec.runid[2] \in Nat)
    BY <1>2 DEF RunIds
  <1>4. CASE v2.runid \in RunIds /\ v2.runid[1] = v.runid[1] /\ v2.runid[2] > v.runid[2]
    <2>1. v2.runid[2] \in Nat
      BY <1>4 DEF RunIds
    <2>2. ASSUME ~rec.pre PROVE Known(v2, rec.runid) /\ rec.runid # v2.runid
      <3>1. Known(v, rec.runid)
        BY <2>2 DEF Follow
      <3>2. CASE rec.runid = None
        BY <1>4, <3>2, NoneAssumption DEF Known
      <3>3. CASE rec.runid # None
        BY <1>3, <1>4, <2>1, <3>1, <3>3 DEF Known
      <3> QED BY <3>2, <3>3
    <2> QED BY <1>1, <2>2 DEF Follow
  <1>5. CASE /\ v2.runid = v.runid /\ (v.reused => v2.reused)
             /\ v2.reused \/ (v.offset <= v2.offset /\ (v2.backlog # None => v2.backlog.off > v.offset + 1))
    <2>1. ~rec.pre => Known(v2, rec.runid)
      BY <1>5 DEF Follow, Known
    <2>2. PICK pos \in Int : pos = rec.reploff
      BY DEF Masters, Offsets
    <2>3. PICK n \in Nat : n = Len(U)
      BY <1>1, LenProperties
    <2>4. ASSUME ~rec.pre, rec.runid = v2.runid, ~v2.reused PROVE Resumes(v2, pos, Reading(data, rec), U)
      <3>1. pos + n <= v.offset
        BY <1>5, <2>2, <2>3, <2>4 DEF Follow, Resumes
      <3>2. pos + n <= v2.offset /\ (v2.backlog # None => ~(pos + n + 1 >= v2.backlog.off))
        BY <1>5, <2>4, <3>1
      <3> QED BY <2>3, <3>2 DEF Resumes
    <2> QED BY <1>1, <2>1, <2>2, <2>4 DEF Follow
  <1> QED BY <1>4, <1>5 DEF Severs

\* A link that is lost, and perhaps what was on it.
LEMMA FollowCut ==
    ASSUME NEW v, v.offset \in Int, v.backlog # None => v.backlog.off \in Int, NEW rec \in Masters, NEW data \in Data, NEW c,
           NEW U, Follow(c, v, rec, data, U), NEW T \in Seq(Units), Begins(T, U)
    PROVE  Follow(None, v, rec, data, T)
  <1>1. U \in Seq(Units)
    BY DEF Follow
  <1>2. PICK pos \in Int : pos = rec.reploff
    BY DEF Masters, Offsets
  <1>3. ASSUME ~rec.pre, rec.runid = v.runid, ~v.reused PROVE Resumes(v, pos, Reading(data, rec), T)
    <2>1. CASE c = None
      <3>1. Resumes(v, pos, Reading(data, rec), U)
        BY <1>2, <1>3, <2>1 DEF Follow
      <3> QED BY <1>1, <3>1, ResumesCut
    <2>2. CASE c # None
      <3>1. Stream(v, pos, Reading(data, rec), U)
        BY <1>2, <1>3, <2>2 DEF Follow
      <3> QED BY <3>1, StreamResumes
    <2> QED BY <2>1, <2>2
  <1> QED BY <1>2, <1>3 DEF Follow

LEMMA FollowRead ==
    ASSUME NEW v, v.offset \in Int, v.backlog # None => v.backlog.off \in Int, NEW rec \in Masters, NEW data \in Data, NEW c,
           NEW U, Follow(c, v, rec, data, U), U # <<>>, NEW y, y = Apply(Reading(data, rec), Head(U)),
           NEW rec2 \in Masters, rec2.runid = rec.runid, rec2.pre = rec.pre, rec2.reploff = rec.reploff + 1, rec2.db = y.db,
           rec2.querybuf = y.querybuf
    PROVE  Follow(c, v, rec2, y.data, Tail(U))
  <1>1. PICK x \in States : x = Reading(data, rec)
    BY ReadingState
  <1>2. PICK pos \in Int : pos = rec.reploff
    BY DEF Masters, Offsets
  <1>3. U \in Seq(Units) /\ Head(U) \in Units /\ Tail(U) \in Seq(Units)
    BY HeadTailProperties DEF Follow
  <1>4. y \in States /\ y = Apply(x, Head(U))
    BY <1>1, <1>3, ApplyType
  <1>5. Reading(y.data, rec2) = y
    BY <1>4 DEF Reading, States
  <1>6. ASSUME c = None, ~rec.pre, rec.runid = v.runid, ~v.reused PROVE Resumes(v, pos + 1, y, Tail(U))
    <2>1. Resumes(v, pos, x, U)
      BY <1>1, <1>2, <1>6 DEF Follow
    <2>2. Resumes(v, pos + 1, Apply(x, Head(U)), Tail(U))
      BY <1>3, <2>1, ResumesRead
    <2> QED BY <1>4, <2>2
  <1>7. ASSUME c # None, ~c.unsound PROVE Arrives(v, Replayed(y, Tail(U)))
    <2>1. Arrives(v, Replayed(x, U))
      BY <1>1, <1>7 DEF Follow
    <2>2. Replayed(x, U) = Replayed(Apply(x, Head(U)), Tail(U))
      BY <1>3, ReplayedHead
    <2> QED BY <1>4, <2>1, <2>2
  <1>8. ASSUME c # None, ~c.unsound, ~rec.pre PROVE Stream(v, pos + 1, y, Tail(U))
    <2>1. Stream(v, pos, x, U)
      BY <1>1, <1>2, <1>8 DEF Follow
    <2>2. Stream(v, pos + 1, Apply(x, Head(U)), Tail(U))
      BY <2>1, StreamRead
    <2> QED BY <1>4, <2>2
  <1>9. rec2.reploff = pos + 1
    BY <1>2
  <1>10. (~rec.pre => Known(v, rec.runid)) /\ (c # None => (c.unsound => rec.pre \/ v.reused) /\ (rec.pre => c.pre \/ c.unsound) /\ (~rec.pre => rec.runid = v.runid))
    BY DEF Follow
  <1> QED BY <1>3, <1>5, <1>6, <1>7, <1>8, <1>9, <1>10 DEF Follow

LEMMA FollowClient ==
    ASSUME NEW v, NEW rec, NEW data, NEW c, NEW U, Follow(c, v, rec, data, U), c # None,
           NEW d, d # None, d.unsound = c.unsound, d.pre = c.pre
    PROVE  Follow(d, v, rec, data, U)
  BY DEF Follow

\* The fields of a master that a slave depends on, and those of a slave.
MV(v) == [runid |-> v.runid, offset |-> v.offset, backlog |-> v.backlog, seldb |-> v.seldb, data |-> v.data, child |-> v.child,
          reused |-> v.reused]
SV(x) == [repl_state |-> x.repl_state, cached |-> x.cached, data |-> x.data, master |-> x.master, init |-> x.init]

---------------------------------------------------------------------------
(* A slave and its master: the invariant.                                  *)

\* The client of the master a slave makes when it has loaded the file.
Rec(init) == [runid |-> init.runid, reploff |-> init.off, db |-> 0, querybuf |-> <<>>, pre |-> init.off = -1]

\* What a master will still send: the file, when it has not yet, and its buffer.
IsStart(c) == IF c = None THEN FALSE ELSE c.state = "START"
Rdb(data) == [k |-> "rdb", data |-> data]
Rest(v, c) ==
  IF c = None THEN <<>>
  ELSE IF c.state = "START" THEN <<>>
  ELSE IF c.state = "END" THEN <<Rdb(v.child.data)>> \o c.out
  ELSE IF c.state = "BULK" THEN <<Rdb(c.bulk[1])>> \o c.out
  ELSE c.out
Items(v, c, k) == k.wire \o Rest(v, c)

ClientOK(v, c) ==
  /\ c \in Clients
  /\ c.state = "START" => c.out = <<>> /\ ~c.unsound
  /\ c.ackwait => c.state = "ONLINE"
  /\ c.state = "ONLINE" /\ ~c.ackwait => c.out = <<>>
  /\ c.state = "BULK" => c.bulk \in [1..1 -> Data]
  /\ c.state = "END" => /\ v.child # None /\ c.init \in Nat /\ ~c.unsound
                        /\ Stream(v, c.init, [data |-> v.child.data, db |-> 0, querybuf |-> <<>>], c.out)

\* What comes after SYNC or +FULLRESYNC, and what comes after PSYNC.
TransferOK(v, init, c, I) ==
  \/ c = None /\ I = <<>>
  \/ c = None /\ I = <<[k |-> "err"]>>
  \/ \E data \in Data, U \in Seq(Units) : I = <<Rdb(data)>> \o U /\ Follow(c, v, Rec(init), data, U)
PsyncOK(v, x, c, I) ==
  \/ c = None /\ I = <<>>
  \/ c = None /\ I = <<[k |-> "err"]>>
  \/ x.cached # None /\ \E U \in Seq(Units) : I = <<[k |-> "cont"]>> \o U /\ Follow(c, v, x.cached, x.data, U)
  \/ \E init \in [runid : RunIds, off : Nat], J \in Seq(Msgs) :
       I = <<[k |-> "full", runid |-> init.runid, off |-> init.off]>> \o J /\ TransferOK(v, init, c, J)

PsyncReq(cached) ==
  IF cached = None THEN [cmd |-> "PSYNC", runid |-> None, off |-> -1, pre |-> FALSE]
  ELSE [cmd |-> "PSYNC", runid |-> cached.runid, off |-> cached.reploff + 1, pre |-> cached.pre]

\* The connection of the slave, by the state of the slave.
PsyncPipe(v, x, c, k) ==
  /\ k.req # None => k.wire = <<>> /\ k.req = PsyncReq(x.cached)
  /\ IsStart(c) => k.wire = <<>> /\ ~c.pre
  /\ k.req = None /\ ~IsStart(c) => PsyncOK(v, x, c, Items(v, c, k))
TransferPipe(v, x, c, k) ==
  /\ k.req # None => k.wire = <<>> /\ k.req = [cmd |-> "SYNC"] /\ x.init.off = -1
  /\ IsStart(c) => k.wire = <<>> /\ c.pre /\ x.init.off = -1
  /\ k.req = None /\ ~IsStart(c) => TransferOK(v, x.init, c, Items(v, c, k))
PipeOK(v, x, c, k) ==
  /\ x.repl_state = "CONNECTING" => c = None /\ k.wire = <<>> /\ k.req = None
  /\ x.repl_state = "RECEIVE_PSYNC" => PsyncPipe(v, x, c, k)
  /\ x.repl_state = "TRANSFER" => TransferPipe(v, x, c, k)
  /\ x.repl_state = "CONNECTED" => k.req = None /\ ~IsStart(c) /\ Follow(c, v, x.master, x.data, Items(v, c, k))

LinkedOK(v, c, k) == c # None => k # None /\ k.open /\ k.req = None /\ v.backlog # None /\ ClientOK(v, c)

PairOK(v, x, c, k) ==
  /\ LinkedOK(v, c, k)
  /\ x.cached # None => Follow(None, v, x.cached, x.data, <<>>)
  /\ k # None => PipeOK(v, x, c, k)

\* What the records are that a pair consists of.
MTyped(v) ==
  /\ v.runid \in RunIds /\ v.offset \in Offsets /\ v.data \in Data /\ v.seldb \in Dbs \cup {-1} /\ v.reused \in BOOLEAN
  /\ v.child \in Children \cup {None} /\ v.backlog \in Backlogs \cup {None} /\ (v.backlog # None => BacklogOK(v))
STyped(x, k) ==
  /\ x.master \in Masters \cup {None} /\ x.cached \in Masters \cup {None} /\ x.data \in Data
  /\ x.init \in [runid : RunIds \cup {None}, off : Offsets]
  /\ x.repl_state = "CONNECTED" => x.master # None
  /\ k \in Conns \cup {None}
  /\ k # None => x.repl_state \in {"CONNECTING", "RECEIVE_PSYNC", "TRANSFER", "CONNECTED"}

---------------------------------------------------------------------------
(* A slave and its master: what may happen to them.                        *)

LEMMA UnitsAreMsgs ==
    ASSUME NEW U \in Seq(Units)
    PROVE  U \in Seq(Msgs)
  <1>1. Units \subseteq Msgs
    BY DEF Msgs
  <1> QED BY <1>1

LEMMA RecIsMaster ==
    ASSUME NEW init \in [runid : RunIds \cup {None}, off : Offsets]
    PROVE  Rec(init) \in Masters
  BY SizesAssumption DEF Rec, Masters

LEMMA LoadedState ==
    ASSUME NEW data \in Data
    PROVE  [data |-> data, db |-> 0, querybuf |-> <<>>] \in States
  <1>1. <<>> \in Seq(Units)
    OBVIOUS
  <1> QED BY <1>1, SizesAssumption DEF States

LEMMA OneMoreType ==
    ASSUME NEW S, NEW a \in S, NEW U \in Seq(S)
    PROVE  <<a>> \o U \in Seq(S) /\ <<a>> \o U # <<>> /\ Head(<<a>> \o U) = a /\ Tail(<<a>> \o U) = U /\ Len(<<a>> \o U) = Len(U) + 1
  <1>1. PICK e \in Seq(S) : e = <<a>> /\ Len(e) = 1 /\ e[1] = a
    <2>1. <<a>> \in Seq(S) /\ Len(<<a>>) = 1 /\ <<a>>[1] = a
      OBVIOUS
    <2> QED BY <2>1
  <1>2. PICK n \in Nat : n = Len(U)
    BY LenProperties
  <1>3. PICK T : T = e \o U
    OBVIOUS
  <1>4. T \in Seq(S) /\ Len(T) = n + 1 /\ T[1] = a /\ \A j \in 2..(n + 1) : T[j] = U[j - 1]
    BY <1>1, <1>2, <1>3, ConcatProperties
  <1>5. T # <<>>
    BY <1>4
  <1>6. Head(T) = a /\ Tail(T) \in Seq(S) /\ Len(Tail(T)) = n /\ \A j \in 1..n : Tail(T)[j] = T[j + 1]
    BY <1>4, <1>5, HeadTailProperties
  <1>7. ASSUME NEW j \in 1..n PROVE Tail(T)[j] = U[j]
    <2>1. j + 1 \in 2..(n + 1) /\ (j + 1) - 1 = j
      OBVIOUS
    <2>2. T[j + 1] = U[(j + 1) - 1]
      BY <1>4, <2>1
    <2> QED BY <1>6, <2>1, <2>2
  <1>8. Tail(T) = U
    BY <1>2, <1>6, <1>7, SeqEqual
  <1> QED BY <1>1, <1>2, <1>3, <1>4, <1>5, <1>6, <1>8

\* A beginning of a sequence with a known head.
LEMMA BeginsHead ==
    ASSUME NEW S, NEW a \in S, NEW U \in Seq(S), NEW J \in Seq(S), Begins(J, <<a>> \o U), J # <<>>
    PROVE  J = <<a>> \o Tail(J) /\ Tail(J) \in Seq(S) /\ Begins(Tail(J), U)
  <1>1. PICK T \in Seq(S) : T = <<a>> \o U
    BY OneMoreType
  <1>2. T # <<>> /\ Head(T) = a /\ Tail(T) = U
    BY <1>1, OneMoreType
  <1>3. PICK n \in Nat : n = Len(J)
    BY LenProperties
  <1>4. PICK m \in Nat : m = Len(T)
    BY LenProperties
  <1>5. n # 0 /\ n <= m /\ \A j \in 1..n : J[j] = T[j]
    BY <1>1, <1>3, <1>4, EmptySeq DEF Begins
  <1>6. Head(J) = J[1] /\ Tail(J) \in Seq(S) /\ Len(Tail(J)) = n - 1 /\ \A j \in 1..(n - 1) : Tail(J)[j] = J[j + 1]
    BY <1>3, HeadTailProperties
  <1>7. T[1] = a /\ Len(U) = m - 1 /\ \A j \in 1..(m - 1) : U[j] = T[j + 1]
    <2>1. Head(T) = T[1] /\ Len(Tail(T)) = m - 1 /\ \A j \in 1..(m - 1) : Tail(T)[j] = T[j + 1]
      BY <1>2, <1>4, HeadTailProperties
    <2> QED BY <1>2, <2>1
  <1>8. Head(J) = a
    BY <1>5, <1>6, <1>7
  <1>9. J = <<Head(J)>> \o Tail(J)
    OBVIOUS
  <1>10. ASSUME NEW j \in 1..(n - 1) PROVE Tail(J)[j] = U[j]
    <2>1. j + 1 \in 1..n /\ j \in 1..(m - 1)
      BY <1>5
    <2> QED BY <1>5, <1>6, <1>7, <2>1
  <1>11. Begins(Tail(J), U)
    BY <1>5, <1>6, <1>7, <1>10 DEF Begins
  <1> QED BY <1>6, <1>8, <1>9, <1>11

LEMMA BeginsOne ==
    ASSUME NEW S, NEW a \in S, NEW J \in Seq(S), Begins(J, <<a>>)
    PROVE  J = <<>> \/ J = <<a>>
  <1>1. CASE J # <<>>
    <2>1. PICK n \in Nat : n = Len(J)
      BY LenProperties
    <2>2. n # 0 /\ n <= 1 /\ J[1] = a
      <3>1. n # 0
        BY <1>1, <2>1, EmptySeq
      <3>2. Len(<<a>>) = 1 /\ <<a>>[1] = a
        OBVIOUS
      <3>3. n <= 1 /\ \A j \in 1..n : J[j] = <<a>>[j]
        BY <2>1, <3>2 DEF Begins
      <3> QED BY <3>1, <3>2, <3>3
    <2>3. Len(J) = 1 /\ J[1] = a
      BY <2>1, <2>2
    <2>4. J = <<a>>
      BY <2>3
    <2> QED BY <2>4
  <1> QED BY <1>1

LEMMA MsgTypes ==
    /\ [k |-> "err"] \in Msgs /\ [k |-> "cont"] \in Msgs
    /\ \A data \in Data : Rdb(data) \in Msgs
    /\ \A init \in [runid : RunIds, off : Nat] : [k |-> "full", runid |-> init.runid, off |-> init.off] \in Msgs
  BY DEF Msgs, Rdb

LEMMA UnitsOfMsgs ==
    ASSUME NEW J \in Seq(Msgs), NEW U \in Seq(Units), Begins(J, U)
    PROVE  J \in Seq(Units)
  <1>1. PICK n \in Nat : n = Len(J)
    BY LenProperties
  <1>2. Len(U) \in Nat /\ n <= Len(U) /\ \A j \in 1..n : J[j] = U[j]
    BY <1>1, LenProperties DEF Begins
  <1>3. \A j \in 1..n : J[j] \in Units
    BY <1>2
  <1>4. J = [j \in 1..n |-> J[j]]
    BY <1>1
  <1> QED BY <1>3, <1>4

LEMMA TransferCut ==
    ASSUME NEW v, v.offset \in Int, v.backlog # None => v.backlog.off \in Int, NEW init \in [runid : RunIds \cup {None}, off : Offsets],
           NEW c, NEW I, TransferOK(v, init, c, I), NEW J \in Seq(Msgs), Begins(J, I)
    PROVE  TransferOK(v, init, None, J)
  <1>1. CASE I = <<>>
    <2>1. Len(J) \in Nat /\ Len(J) <= Len(<<>>) /\ Len(<<>>) = 0
      BY <1>1, LenProperties DEF Begins
    <2>2. J = <<>>
      BY <2>1, EmptySeq
    <2> QED BY <2>2 DEF TransferOK
  <1>2. CASE I = <<[k |-> "err"]>>
    BY <1>2, BeginsOne, MsgTypes DEF TransferOK
  <1>3. CASE \E data \in Data, U \in Seq(Units) : I = <<Rdb(data)>> \o U /\ Follow(c, v, Rec(init), data, U)
    <2>1. PICK data \in Data, U \in Seq(Units) : I = <<Rdb(data)>> \o U /\ Follow(c, v, Rec(init), data, U)
      BY <1>3
    <2>2. CASE J = <<>>
      BY <2>2 DEF TransferOK
    <2>3. CASE J # <<>>
      <3>1. PICK a \in Msgs : a = Rdb(data)
        BY MsgTypes
      <3>2. U \in Seq(Msgs)
        BY UnitsAreMsgs
      <3>3. J = <<a>> \o Tail(J) /\ Tail(J) \in Seq(Msgs) /\ Begins(Tail(J), U)
        BY <2>1, <2>3, <3>1, <3>2, BeginsHead
      <3>4. PICK T : T = Tail(J)
        OBVIOUS
      <3>5. T \in Seq(Units)
        BY <3>3, <3>4, UnitsOfMsgs
      <3>6. Follow(None, v, Rec(init), data, T)
        BY <2>1, <3>3, <3>4, <3>5, RecIsMaster, FollowCut
      <3> QED BY <3>1, <3>3, <3>4, <3>5, <3>6, Zenon DEF TransferOK
    <2> QED BY <2>2, <2>3
  <1> QED BY <1>1, <1>2, <1>3 DEF TransferOK

LEMMA PsyncCut ==
    ASSUME NEW v, v.offset \in Int, v.backlog # None => v.backlog.off \in Int, NEW x, x.cached \in Masters \cup {None}, x.data \in Data,
           NEW c, NEW I, PsyncOK(v, x, c, I), NEW J \in Seq(Msgs), Begins(J, I)
    PROVE  PsyncOK(v, x, None, J)
  <1>1. CASE I = <<>>
    <2>1. Len(J) \in Nat /\ Len(J) <= Len(<<>>) /\ Len(<<>>) = 0
      BY <1>1, LenProperties DEF Begins
    <2>2. J = <<>>
      BY <2>1, EmptySeq
    <2> QED BY <2>2 DEF PsyncOK
  <1>2. CASE I = <<[k |-> "err"]>>
    BY <1>2, BeginsOne, MsgTypes DEF PsyncOK
  <1>3. CASE J = <<>>
    BY <1>3 DEF PsyncOK
  <1>4. CASE J # <<>> /\ x.cached # None /\ \E U \in Seq(Units) : I = <<[k |-> "cont"]>> \o U /\ Follow(c, v, x.cached, x.data, U)
    <2>1. PICK U \in Seq(Units) : I = <<[k |-> "cont"]>> \o U /\ Follow(c, v, x.cached, x.data, U)
      BY <1>4
    <2>2. PICK a \in Msgs : a = [k |-> "cont"]
      BY MsgTypes
    <2>3. U \in Seq(Msgs)
      BY UnitsAreMsgs
    <2>4. J = <<a>> \o Tail(J) /\ Tail(J) \in Seq(Msgs) /\ Begins(Tail(J), U)
      BY <1>4, <2>1, <2>2, <2>3, BeginsHead, ZenonT(60)
    <2>5. PICK T : T = Tail(J)
      OBVIOUS
    <2>6. T \in Seq(Units)
      BY <2>4, <2>5, UnitsOfMsgs
    <2>7. PICK rec \in Masters : rec = x.cached
      BY <1>4
    <2>8. PICK data \in Data : data = x.data
      OBVIOUS
    <2>9. Follow(None, v, rec, data, T)
      <3>1. Follow(c, v, rec, data, U) /\ Begins(T, U)
        BY <2>1, <2>4, <2>5, <2>7, <2>8
      <3> QED BY <2>6, <3>1, FollowCut
    <2> QED BY <1>4, <2>2, <2>4, <2>5, <2>6, <2>7, <2>8, <2>9, Zenon DEF PsyncOK
  <1>5. CASE J # <<>> /\ \E init \in [runid : RunIds, off : Nat], L \in Seq(Msgs) :
               I = <<[k |-> "full", runid |-> init.runid, off |-> init.off]>> \o L /\ TransferOK(v, init, c, L)
    <2>1. PICK init \in [runid : RunIds, off : Nat], L \in Seq(Msgs) :
            I = <<[k |-> "full", runid |-> init.runid, off |-> init.off]>> \o L /\ TransferOK(v, init, c, L)
      BY <1>5
    <2>2. PICK a \in Msgs : a = [k |-> "full", runid |-> init.runid, off |-> init.off]
      BY MsgTypes
    <2>3. J = <<a>> \o Tail(J) /\ Tail(J) \in Seq(Msgs) /\ Begins(Tail(J), L)
      <3>1. Begins(J, <<a>> \o L)
        BY <2>1, <2>2
      <3> QED BY ONLY <1>5, <3>1, J \in Seq(Msgs), L \in Seq(Msgs), a \in Msgs, BeginsHead
    <2>4. PICK T \in Seq(Msgs) : T = Tail(J)
      BY <2>3
    <2>5. init \in [runid : RunIds \cup {None}, off : Offsets]
      BY DEF Offsets
    <2>6. TransferOK(v, init, None, T)
      BY <2>1, <2>3, <2>4, <2>5, TransferCut
    <2> QED BY <2>2, <2>3, <2>4, <2>6, Zenon DEF PsyncOK
  <1> QED BY <1>1, <1>2, <1>3, <1>4, <1>5 DEF PsyncOK

\* For a slave without a link nothing changes.
Keeps(v, v2) ==
  \A rec \in Masters, data \in Data, U \in Seq(Units) : Follow(None, v, rec, data, U) => Follow(None, v2, rec, data, U)

LEMMA MovesKeeps ==
    ASSUME NEW v, NEW v2, NEW E, Moves(v, v2, E)
    PROVE  Keeps(v, v2)
  BY FollowMovesUnlinked DEF Keeps

LEMMA SeversKeeps ==
    ASSUME NEW v, NEW v2, Severs(v, v2), MTyped(v), MTyped(v2)
    PROVE  Keeps(v, v2)
  <1>1. v.offset \in Int /\ v2.offset \in Int /\ (v2.backlog # None => v2.backlog.off \in Int) /\ v.runid \in RunIds
    BY DEF MTyped, Offsets, Backlogs
  <1> QED BY <1>1, FollowSevers DEF Keeps

LEMMA TransferKeeps ==
    ASSUME NEW v, NEW v2, Keeps(v, v2), NEW init \in [runid : RunIds \cup {None}, off : Offsets], NEW I, TransferOK(v, init, None, I)
    PROVE  TransferOK(v2, init, None, I)
  BY RecIsMaster DEF TransferOK, Keeps

LEMMA PsyncKeeps ==
    ASSUME NEW v, NEW v2, Keeps(v, v2), NEW x, x.cached \in Masters \cup {None}, x.data \in Data, NEW I, PsyncOK(v, x, None, I)
    PROVE  PsyncOK(v2, x, None, I)
  <1>1. CASE x.cached # None /\ \E U \in Seq(Units) : I = <<[k |-> "cont"]>> \o U /\ Follow(None, v, x.cached, x.data, U)
    <2>1. PICK U \in Seq(Units) : I = <<[k |-> "cont"]>> \o U /\ Follow(None, v, x.cached, x.data, U)
      BY <1>1
    <2>2. x.cached \in Masters
      BY <1>1
    <2>3. Follow(None, v2, x.cached, x.data, U)
      BY <2>1, <2>2 DEF Keeps
    <2> QED BY <1>1, <2>1, <2>3 DEF PsyncOK
  <1>2. CASE \E init \in [runid : RunIds, off : Nat], J \in Seq(Msgs) :
               I = <<[k |-> "full", runid |-> init.runid, off |-> init.off]>> \o J /\ TransferOK(v, init, None, J)
    <2>1. PICK init \in [runid : RunIds, off : Nat], J \in Seq(Msgs) :
            I = <<[k |-> "full", runid |-> init.runid, off |-> init.off]>> \o J /\ TransferOK(v, init, None, J)
      BY <1>2
    <2>2. init \in [runid : RunIds \cup {None}, off : Offsets]
      BY DEF Offsets
    <2>3. TransferOK(v2, init, None, J)
      BY <2>1, <2>2, TransferKeeps
    <2> QED BY <2>1, <2>3 DEF PsyncOK
  <1> QED BY <1>1, <1>2 DEF PsyncOK

LEMMA PairKeeps ==
    ASSUME NEW v, NEW v2, Keeps(v, v2), NEW x, NEW k, STyped(x, k), PairOK(v, x, None, k)
    PROVE  PairOK(v2, x, None, k)
  <1>1. x.cached # None => Follow(None, v2, x.cached, x.data, <<>>)
    <2>1. <<>> \in Seq(Units)
      OBVIOUS
    <2> QED BY <2>1 DEF PairOK, STyped, Keeps
  <1>2. Items(v2, None, k) = Items(v, None, k)
    BY DEF Items, Rest
  <1>3. ASSUME k # None, x.repl_state = "RECEIVE_PSYNC" PROVE PsyncPipe(v2, x, None, k)
    <2>1. PsyncPipe(v, x, None, k)
      BY <1>3 DEF PairOK, PipeOK
    <2>2. PICK I : I = Items(v, None, k)
      OBVIOUS
    <2>3. PsyncOK(v, x, None, I) => PsyncOK(v2, x, None, I)
      BY PsyncKeeps DEF STyped
    <2> QED BY <1>2, <2>1, <2>2, <2>3 DEF PsyncPipe
  <1>4. ASSUME k # None, x.repl_state = "TRANSFER" PROVE TransferPipe(v2, x, None, k)
    <2>1. TransferPipe(v, x, None, k)
      BY <1>4 DEF PairOK, PipeOK
    <2>2. PICK I : I = Items(v, None, k)
      OBVIOUS
    <2>3. PICK init \in [runid : RunIds \cup {None}, off : Offsets] : init = x.init
      BY DEF STyped
    <2>4. TransferOK(v, init, None, I) => TransferOK(v2, init, None, I)
      BY TransferKeeps
    <2> QED BY <1>2, <2>1, <2>2, <2>3, <2>4 DEF TransferPipe
  <1>5. ASSUME k # None, x.repl_state = "CONNECTED" PROVE k.req = None /\ ~IsStart(None) /\ Follow(None, v2, x.master, x.data, Items(v2, None, k))
    <2>1. k.req = None /\ ~IsStart(None) /\ Follow(None, v, x.master, x.data, Items(v, None, k))
      BY <1>5 DEF PairOK, PipeOK
    <2>2. x.master \in Masters /\ x.data \in Data
      BY <1>5 DEF STyped
    <2>3. PICK I : I = Items(v, None, k)
      OBVIOUS
    <2>4. I \in Seq(Units)
      BY <2>1, <2>3 DEF Follow
    <2>5. Follow(None, v2, x.master, x.data, I)
      BY <2>1, <2>2, <2>3, <2>4 DEF Keeps
    <2> QED BY <1>2, <2>1, <2>3, <2>5
  <1>6. k # None /\ x.repl_state = "CONNECTING" => k.wire = <<>> /\ k.req = None
    BY DEF PairOK, PipeOK
  <1>7. k # None => PipeOK(v2, x, None, k)
    BY <1>3, <1>4, <1>5, <1>6 DEF PipeOK
  <1>8. LinkedOK(v2, None, k)
    BY DEF LinkedOK
  <1> QED BY <1>1, <1>7, <1>8 DEF PairOK

\* A link closed by the master, or broken; what was on it arrives, or is lost.
LEMMA PairCut ==
    ASSUME NEW v, MTyped(v), NEW x, NEW c, NEW k, STyped(x, k), PairOK(v, x, c, k), k # None,
           NEW j, j # None, j.req = k.req, j.wire = k.wire \/ j.wire = <<>>
    PROVE  PairOK(v, x, None, j)
  <1>1. v.offset \in Int /\ (v.backlog # None => v.backlog.off \in Int)
    BY DEF MTyped, Offsets, Backlogs
  <1>2. k.wire \in Seq(Msgs) /\ j.wire \in Seq(Msgs)
    <2>1. k.wire \in Seq(Msgs) /\ <<>> \in Seq(Msgs)
      BY DEF STyped, Conns
    <2> QED BY <2>1
  <1>3. PICK J \in Seq(Msgs) : J = j.wire
    BY <1>2
  <1>4. Items(v, None, j) = J
    BY <1>2, <1>3 DEF Items, Rest
  <1>5. PICK I : I = Items(v, c, k)
    OBVIOUS
  <1>6. ASSUME I \in Seq(Msgs) PROVE Begins(J, I)
    <2>1. PICK R : R = Rest(v, c)
      OBVIOUS
    <2>2. CASE J = <<>>
      <3>1. Len(I) \in Nat /\ Len(J) = 0
        BY <1>6, <2>2, LenProperties
      <3> QED BY <3>1 DEF Begins
    <2>3. CASE J # <<>>
      <3>1. J = k.wire
        BY <1>3, <2>3
      <3>2. CASE R = <<>>
        <4>1. I = J
          BY <1>5, <2>1, <3>1, <3>2 DEF Items
        <4>2. Len(J) \in Nat
          BY LenProperties
        <4> QED BY <4>1, <4>2 DEF Begins
      <3>3. CASE R \in Seq(Msgs)
        <4>1. I = J \o R
          BY <1>5, <2>1, <3>1 DEF Items
        <4>2. Len(I) = Len(J) + Len(R) /\ Len(J) \in Nat /\ Len(R) \in Nat /\ \A i \in 1..Len(J) : I[i] = J[i]
          BY <3>3, <4>1, ConcatProperties, LenProperties
        <4> QED BY <4>2 DEF Begins
      <3>4. R = <<>> \/ R \in Seq(Msgs)
        <4>1. CASE c = None
          BY <2>1, <4>1 DEF Rest
        <4>2. CASE c # None
          <5>1. ClientOK(v, c) /\ c.out \in Seq(Units)
            BY <4>2 DEF PairOK, LinkedOK, ClientOK, Clients
          <5>2. c.out \in Seq(Msgs)
            BY <5>1, UnitsAreMsgs
          <5>3. c.state = "END" => Rdb(v.child.data) \in Msgs
            <6>1. c.state = "END" => v.child \in Children
              BY <5>1 DEF ClientOK, MTyped
            <6>2. c.state = "END" => v.child.data \in Data
              BY <6>1 DEF Children
            <6> QED BY <6>2, MsgTypes
          <5>4. c.state = "BULK" => Rdb(c.bulk[1]) \in Msgs
            <6>1. c.state = "BULK" => c.bulk \in [1..1 -> Data]
              BY <5>1 DEF ClientOK, Clients
            <6>2. 1 \in 1..1
              OBVIOUS
            <6>3. c.state = "BULK" => c.bulk[1] \in Data
              BY <6>1, <6>2
            <6> QED BY <6>3, MsgTypes
          <5>5. PICK o \in Seq(Msgs) : o = c.out
            BY <5>2
          <5>6. \A a \in Msgs : <<a>> \o o \in Seq(Msgs)
            BY OneMoreType
          <5>7. CASE c.state = "START"
            BY <2>1, <4>2, <5>7 DEF Rest
          <5>8. CASE c.state = "END"
            BY <2>1, <4>2, <5>3, <5>5, <5>6, <5>8 DEF Rest
          <5>9. CASE c.state = "BULK"
            BY <2>1, <4>2, <5>4, <5>5, <5>6, <5>9 DEF Rest
          <5>10. CASE c.state \notin {"START", "END", "BULK"}
            BY <2>1, <4>2, <5>5, <5>10 DEF Rest
          <5> QED BY <5>7, <5>8, <5>9, <5>10
        <4> QED BY <4>1, <4>2
      <3> QED BY <3>2, <3>3, <3>4
    <2> QED BY <2>2, <2>3
  <1>7. x.cached # None => Follow(None, v, x.cached, x.data, <<>>)
    BY DEF PairOK
  <1>8. k.req # None => c = None
    BY DEF PairOK, LinkedOK
  <1>9. ~IsStart(None) /\ PipeOK(v, x, c, k)
    BY DEF IsStart, PairOK
  <1>10. ASSUME x.repl_state = "RECEIVE_PSYNC" PROVE PsyncPipe(v, x, None, j)
    <2>1. PsyncPipe(v, x, c, k)
      BY <1>9, <1>10 DEF PipeOK
    <2>2. j.req # None => j.wire = <<>> /\ j.req = PsyncReq(x.cached)
      BY <2>1 DEF PsyncPipe
    <2>3. ASSUME j.req = None PROVE PsyncOK(v, x, None, J)
      <3>1. CASE IsStart(c)
        BY <1>3, <2>1, <3>1 DEF PsyncPipe, PsyncOK
      <3>2. CASE ~IsStart(c)
        <4>1. PsyncOK(v, x, c, I)
          BY <1>5, <2>1, <2>3, <3>2 DEF PsyncPipe
        <4>2. I \in Seq(Msgs)
          <5>1. \A U \in Seq(Units) : <<[k |-> "cont"]>> \o U \in Seq(Msgs)
            BY OneMoreType, MsgTypes, UnitsAreMsgs
          <5>2. \A init \in [runid : RunIds, off : Nat], L \in Seq(Msgs) :
                  <<[k |-> "full", runid |-> init.runid, off |-> init.off]>> \o L \in Seq(Msgs)
            BY OneMoreType, MsgTypes
          <5>3. <<>> \in Seq(Msgs) /\ <<[k |-> "err"]>> \in Seq(Msgs)
            BY MsgTypes
          <5> QED BY <4>1, <5>1, <5>2, <5>3 DEF PsyncOK
        <4>3. Begins(J, I)
          BY <1>6, <4>2
        <4>4. x.cached \in Masters \cup {None} /\ x.data \in Data
          BY DEF STyped
        <4> QED BY <1>1, <4>1, <4>3, <4>4, PsyncCut
      <3> QED BY <3>1, <3>2
    <2> QED BY <1>4, <1>9, <2>2, <2>3 DEF PsyncPipe
  <1>11. ASSUME x.repl_state = "TRANSFER" PROVE TransferPipe(v, x, None, j)
    <2>1. TransferPipe(v, x, c, k)
      BY <1>9, <1>11 DEF PipeOK
    <2>2. j.req # None => j.wire = <<>> /\ j.req = [cmd |-> "SYNC"] /\ x.init.off = -1
      BY <2>1 DEF TransferPipe
    <2>3. ASSUME j.req = None PROVE TransferOK(v, x.init, None, J)
      <3>1. CASE IsStart(c)
        BY <1>3, <2>1, <3>1 DEF TransferPipe, TransferOK
      <3>2. CASE ~IsStart(c)
        <4>1. PICK init \in [runid : RunIds \cup {None}, off : Offsets] : init = x.init
          BY DEF STyped
        <4>2. TransferOK(v, init, c, I)
          BY <1>5, <2>1, <2>3, <3>2, <4>1 DEF TransferPipe
        <4>3. I \in Seq(Msgs)
          <5>1. \A data \in Data, U \in Seq(Units) : <<Rdb(data)>> \o U \in Seq(Msgs)
            BY OneMoreType, MsgTypes, UnitsAreMsgs
          <5>2. <<>> \in Seq(Msgs) /\ <<[k |-> "err"]>> \in Seq(Msgs)
            BY MsgTypes
          <5> QED BY <4>2, <5>1, <5>2 DEF TransferOK
        <4>4. Begins(J, I)
          BY <1>6, <4>3
        <4>5. TransferOK(v, init, None, J)
          BY <1>1, <4>2, <4>4, TransferCut
        <4> QED BY <4>1, <4>5
      <3> QED BY <3>1, <3>2
    <2> QED BY <1>4, <1>9, <2>2, <2>3 DEF TransferPipe
  <1>12. ASSUME x.repl_state = "CONNECTED" PROVE j.req = None /\ Follow(None, v, x.master, x.data, J)
    <2>1. k.req = None /\ Follow(c, v, x.master, x.data, I)
      BY <1>5, <1>9, <1>12 DEF PipeOK
    <2>2. I \in Seq(Units)
      BY <2>1 DEF Follow
    <2>3. Begins(J, I)
      BY <1>6, <2>2, UnitsAreMsgs
    <2>4. J \in Seq(Units)
      BY <2>2, <2>3, UnitsOfMsgs
    <2>5. PICK rec \in Masters : rec = x.master
      BY <1>12 DEF STyped
    <2>6. PICK data \in Data : data = x.data
      BY DEF STyped
    <2>7. Follow(c, v, rec, data, I)
      BY <2>1, <2>5, <2>6
    <2>8. Follow(None, v, rec, data, J)
      BY ONLY <1>1, <2>3, <2>4, <2>7, rec \in Masters, data \in Data, FollowCut
    <2> QED BY <2>1, <2>5, <2>6, <2>8
  <1>13. x.repl_state = "CONNECTING" => j.wire = <<>> /\ j.req = None
    BY <1>9 DEF PipeOK
  <1>14. PipeOK(v, x, None, j)
    BY <1>4, <1>9, <1>10, <1>11, <1>12, <1>13 DEF PipeOK
  <1> QED BY <1>7, <1>14 DEF PairOK, LinkedOK

\* Another client for the same slave, as far as the slave can tell.
Alike(c, d) == c # None /\ d # None /\ d.unsound = c.unsound /\ d.pre = c.pre /\ ~IsStart(c) /\ ~IsStart(d)

LEMMA TransferMoves ==
    ASSUME NEW v, NEW v2, NEW E, Moves(v, v2, E), NEW init \in [runid : RunIds \cup {None}, off : Offsets], NEW c, NEW d, Alike(c, d),
           NEW I, TransferOK(v, init, c, I)
    PROVE  TransferOK(v2, init, d, I \o E) /\ I \in Seq(Msgs)
  <1>1. PICK data \in Data, U \in Seq(Units) : I = <<Rdb(data)>> \o U /\ Follow(c, v, Rec(init), data, U)
    BY DEF TransferOK, Alike
  <1>2. PICK a \in Msgs : a = Rdb(data)
    BY MsgTypes
  <1>3. U \in Seq(Msgs) /\ E \in Seq(Msgs) /\ E \in Seq(Units)
    BY UnitsAreMsgs DEF Moves
  <1>4. PICK T \in Seq(Units) : T = U \o E
    <2>1. U \o E \in Seq(Units)
      BY <1>3, ConcatProperties
    <2> QED BY <2>1
  <1>5. <<a>> \in Seq(Msgs)
    OBVIOUS
  <1>6. (<<a>> \o U) \o E = <<a>> \o (U \o E)
    BY <1>3, <1>5, ConcatAssociative
  <1>7. Follow(c, v2, Rec(init), data, T)
    <2>1. PICK rec \in Masters : rec = Rec(init)
      BY RecIsMaster
    <2>2. Follow(c, v, rec, data, U) /\ c # None
      BY <1>1, <2>1 DEF Alike
    <2>3. Follow(c, v2, rec, data, U \o E)
      BY ONLY <2>2, Moves(v, v2, E), rec \in Masters, data \in Data, FollowMoves
    <2> QED BY <1>4, <2>1, <2>3
  <1>8. Follow(d, v2, Rec(init), data, T)
    BY <1>7, FollowClient DEF Alike
  <1>9. I \o E = <<Rdb(data)>> \o T
    BY <1>1, <1>2, <1>4, <1>6
  <1>10. I \in Seq(Msgs)
    BY <1>1, <1>2, <1>3, OneMoreType
  <1> QED BY <1>8, <1>9, <1>10 DEF TransferOK

LEMMA PsyncMoves ==
    ASSUME NEW v, NEW v2, NEW E, Moves(v, v2, E), NEW x, x.cached \in Masters \cup {None}, x.data \in Data, NEW c, NEW d, Alike(c, d),
           NEW I, PsyncOK(v, x, c, I)
    PROVE  PsyncOK(v2, x, d, I \o E)
  <1>1. E \in Seq(Units) /\ E \in Seq(Msgs)
    BY UnitsAreMsgs DEF Moves
  <1>2. CASE x.cached # None /\ \E U \in Seq(Units) : I = <<[k |-> "cont"]>> \o U /\ Follow(c, v, x.cached, x.data, U)
    <2>1. PICK U \in Seq(Units) : I = <<[k |-> "cont"]>> \o U /\ Follow(c, v, x.cached, x.data, U)
      BY <1>2
    <2>2. PICK a \in Msgs : a = [k |-> "cont"]
      BY MsgTypes
    <2>3. PICK T \in Seq(Units) : T = U \o E
      <3>1. U \o E \in Seq(Units)
        BY <1>1, ConcatProperties
      <3> QED BY <3>1
    <2>4. (<<a>> \o U) \o E = <<a>> \o (U \o E)
      <3>1. <<a>> \in Seq(Msgs) /\ U \in Seq(Msgs)
        BY UnitsAreMsgs
      <3> QED BY <1>1, <3>1, ConcatAssociative
    <2>5. Follow(d, v2, x.cached, x.data, T)
      <3>1. PICK rec \in Masters : rec = x.cached
        BY <1>2
      <3>2. PICK data \in Data : data = x.data
        OBVIOUS
      <3>3. Follow(c, v, rec, data, U) /\ c # None
        BY <2>1, <3>1, <3>2 DEF Alike
      <3>4. Follow(c, v2, rec, data, U \o E)
        BY ONLY <3>3, Moves(v, v2, E), rec \in Masters, data \in Data, FollowMoves
      <3>5. Follow(c, v2, rec, data, T)
        BY <2>3, <3>4
      <3>6. Follow(d, v2, rec, data, T)
        BY <3>5, FollowClient DEF Alike
      <3> QED BY <3>1, <3>2, <3>6
    <2>6. I \o E = <<[k |-> "cont"]>> \o T
      BY <2>1, <2>2, <2>3, <2>4
    <2> QED BY <1>2, <2>5, <2>6 DEF PsyncOK
  <1>3. CASE \E init \in [runid : RunIds, off : Nat], J \in Seq(Msgs) :
               I = <<[k |-> "full", runid |-> init.runid, off |-> init.off]>> \o J /\ TransferOK(v, init, c, J)
    <2>1. PICK init \in [runid : RunIds, off : Nat], J \in Seq(Msgs) :
            I = <<[k |-> "full", runid |-> init.runid, off |-> init.off]>> \o J /\ TransferOK(v, init, c, J)
      BY <1>3
    <2>2. PICK a \in Msgs : a = [k |-> "full", runid |-> init.runid, off |-> init.off]
      BY MsgTypes
    <2>3. init \in [runid : RunIds \cup {None}, off : Offsets]
      BY DEF Offsets
    <2>4. TransferOK(v2, init, d, J \o E)
      BY <2>1, <2>3, TransferMoves
    <2>5. PICK L \in Seq(Msgs) : L = J \o E
      <3>1. J \o E \in Seq(Msgs)
        BY <1>1, ConcatProperties
      <3> QED BY <3>1
    <2>6. (<<a>> \o J) \o E = <<a>> \o (J \o E)
      <3>1. <<a>> \in Seq(Msgs)
        OBVIOUS
      <3> QED BY <1>1, <3>1, ConcatAssociative
    <2>7. I \o E = <<[k |-> "full", runid |-> init.runid, off |-> init.off]>> \o L
      BY <2>1, <2>2, <2>5, <2>6
    <2>8. TransferOK(v2, init, d, L)
      BY <2>4, <2>5
    <2> QED BY <2>7, <2>8 DEF PsyncOK
  <1> QED BY <1>2, <1>3 DEF PsyncOK, Alike

\* The master goes on, and its client for the slave, and what the slave is sent, do too.
LEMMA PairMoves ==
    ASSUME NEW v, NEW v2, NEW E, Moves(v, v2, E), NEW x, NEW c, NEW k, STyped(x, k), PairOK(v, x, c, k),
           NEW d, NEW j, Alike(c, d), LinkedOK(v2, d, j), Items(v2, d, j) = Items(v, c, k) \o E
    PROVE  PairOK(v2, x, d, j)
  <1>1. k # None /\ k.req = None /\ j # None /\ j.req = None /\ ~IsStart(c) /\ ~IsStart(d)
    BY DEF PairOK, LinkedOK, Alike
  <1>2. PipeOK(v, x, c, k)
    BY <1>1 DEF PairOK
  <1>3. PICK I : I = Items(v, c, k)
    OBVIOUS
  <1>4. PICK J : J = Items(v2, d, j)
    OBVIOUS
  <1>5. J = I \o E
    BY <1>3, <1>4
  <1>6. x.cached # None => Follow(None, v2, x.cached, x.data, <<>>)
    <2>1. <<>> \in Seq(Units) /\ Keeps(v, v2)
      BY MovesKeeps
    <2> QED BY <2>1 DEF PairOK, STyped, Keeps
  <1>7. ASSUME x.repl_state = "RECEIVE_PSYNC" PROVE PsyncPipe(v2, x, d, j)
    <2>1. PsyncOK(v, x, c, I)
      BY <1>1, <1>2, <1>3, <1>7 DEF PipeOK, PsyncPipe
    <2>2. PsyncOK(v2, x, d, I \o E)
      BY <2>1, PsyncMoves DEF STyped
    <2> QED BY <1>1, <1>4, <1>5, <2>2 DEF PsyncPipe
  <1>8. ASSUME x.repl_state = "TRANSFER" PROVE TransferPipe(v2, x, d, j)
    <2>1. PICK init \in [runid : RunIds \cup {None}, off : Offsets] : init = x.init
      BY DEF STyped
    <2>2. TransferOK(v, init, c, I)
      BY <1>1, <1>2, <1>3, <1>8, <2>1 DEF PipeOK, TransferPipe
    <2>3. TransferOK(v2, init, d, I \o E)
      BY <2>2, TransferMoves
    <2> QED BY <1>1, <1>4, <1>5, <2>1, <2>3 DEF TransferPipe
  <1>9. ASSUME x.repl_state = "CONNECTED" PROVE Follow(d, v2, x.master, x.data, J)
    <2>1. PICK rec \in Masters : rec = x.master
      BY <1>9 DEF STyped
    <2>2. PICK data \in Data : data = x.data
      BY DEF STyped
    <2>3. Follow(c, v, rec, data, I) /\ c # None
      BY <1>2, <1>3, <1>9, <2>1, <2>2 DEF PipeOK, Alike
    <2>4. Follow(c, v2, rec, data, I \o E)
      BY ONLY <2>3, Moves(v, v2, E), rec \in Masters, data \in Data, FollowMoves
    <2>5. Follow(c, v2, rec, data, J)
      BY <1>5, <2>4
    <2>6. Follow(d, v2, rec, data, J)
      BY <2>5, FollowClient DEF Alike
    <2> QED BY <2>1, <2>2, <2>6
  <1>10. x.repl_state # "CONNECTING"
    BY <1>2 DEF PipeOK, Alike
  <1>11. PipeOK(v2, x, d, j)
    BY <1>1, <1>4, <1>7, <1>8, <1>9, <1>10 DEF PipeOK
  <1> QED BY <1>6, <1>11 DEF PairOK

\* A client that waits for a save takes no part in the stream.
LEMMA PairWaits ==
    ASSUME NEW v, NEW v2, Keeps(v, v2), v2.backlog # None, NEW x, NEW c, NEW k, STyped(x, k), PairOK(v, x, c, k), IsStart(c), c # None
    PROVE  PairOK(v2, x, c, k)
  <1>1. LinkedOK(v2, c, k)
    BY DEF PairOK, LinkedOK, ClientOK, IsStart
  <1>2. x.cached # None => Follow(None, v2, x.cached, x.data, <<>>)
    <2>1. <<>> \in Seq(Units)
      OBVIOUS
    <2> QED BY <2>1 DEF PairOK, STyped, Keeps
  <1>3. PipeOK(v2, x, c, k)
    <2>1. PipeOK(v, x, c, k)
      BY DEF PairOK, LinkedOK
    <2> QED BY <2>1 DEF PipeOK, PsyncPipe, TransferPipe
  <1> QED BY <1>1, <1>2, <1>3 DEF PairOK

LEMMA EmptyConcat ==
    ASSUME NEW S, NEW U \in Seq(S)
    PROVE  U \o <<>> = U /\ <<>> \o U = U
  OBVIOUS

LEMMA ClientRest ==
    ASSUME NEW v, MTyped(v), NEW c, c # None, ClientOK(v, c)
    PROVE  /\ c.out \in Seq(Msgs) /\ c.out \in Seq(Units) /\ Rest(v, c) \in Seq(Msgs)
           /\ c.state = "END" => Rdb(v.child.data) \in Msgs /\ v.child.data \in Data
           /\ c.state = "BULK" => Rdb(c.bulk[1]) \in Msgs /\ c.bulk[1] \in Data
  <1>1. c.out \in Seq(Units) /\ c.out \in Seq(Msgs)
    <2>1. c.out \in Seq(Units)
      BY DEF ClientOK, Clients
    <2> QED BY <2>1, UnitsAreMsgs
  <1>2. c.state = "END" => v.child.data \in Data
    <2>1. c.state = "END" => v.child \in Children
      BY DEF ClientOK, MTyped
    <2> QED BY <2>1 DEF Children
  <1>3. c.state = "BULK" => c.bulk[1] \in Data
    <2>1. c.state = "BULK" => c.bulk \in [1..1 -> Data]
      BY DEF ClientOK, Clients
    <2>2. 1 \in 1..1
      OBVIOUS
    <2> QED BY <2>1, <2>2
  <1>4. (c.state = "END" => Rdb(v.child.data) \in Msgs) /\ (c.state = "BULK" => Rdb(c.bulk[1]) \in Msgs)
    BY <1>2, <1>3, MsgTypes
  <1>5. Rest(v, c) \in Seq(Msgs)
    <2>1. PICK o \in Seq(Msgs) : o = c.out
      BY <1>1
    <2>2. (\A a \in Msgs : <<a>> \o o \in Seq(Msgs)) /\ <<>> \in Seq(Msgs)
      BY OneMoreType
    <2>3. CASE c.state = "START"
      BY <2>2, <2>3 DEF Rest
    <2>4. CASE c.state = "END"
      BY <1>4, <2>1, <2>2, <2>4 DEF Rest
    <2>5. CASE c.state = "BULK"
      BY <1>4, <2>1, <2>2, <2>5 DEF Rest
    <2>6. CASE c.state \notin {"START", "END", "BULK"}
      BY <2>1, <2>6 DEF Rest
    <2> QED BY <2>3, <2>4, <2>5, <2>6
  <1> QED BY <1>1, <1>2, <1>3, <1>4, <1>5

\* A command is fed to a slave.
LEMMA PairFeed ==
    ASSUME NEW v, NEW v2, NEW E, Moves(v, v2, E), v2.child = v.child, MTyped(v), NEW x, NEW c, NEW k, STyped(x, k), PairOK(v, x, c, k),
           NEW d, d = ToSlave(c, E), NEW j, j = IF Direct(c) THEN Sent(k, E) ELSE k
    PROVE  PairOK(v2, x, d, j)
  <1>1. CASE c = None
    <2>1. d = None /\ j = k
      BY <1>1 DEF ToSlave, Fed, Direct
    <2> QED BY <1>1, <2>1, MovesKeeps, PairKeeps
  <1>2. CASE c # None /\ IsStart(c)
    <2>1. d = c /\ j = k
      BY <1>2 DEF ToSlave, Fed, Direct, IsStart
    <2>2. v2.backlog # None
      BY DEF Moves
    <2> QED BY <1>2, <2>1, <2>2, MovesKeeps, PairWaits
  <1>3. CASE c # None /\ ~IsStart(c)
    <2>1. ClientOK(v, c) /\ k # None /\ k.open /\ k.req = None /\ c \in Clients /\ Fed(c) /\ c.state # "START"
      BY <1>3 DEF PairOK, LinkedOK, ClientOK, IsStart, Fed
    <2>2. k \in Conns /\ k.wire \in Seq(Msgs) /\ E \in Seq(Units) /\ E \in Seq(Msgs)
      BY <2>1, UnitsAreMsgs DEF STyped, Conns, Moves
    <2>3. PICK R \in Seq(Msgs) : R = Rest(v, c)
      BY <1>3, <2>1, ClientRest
    <2>4. PICK o \in Seq(Units) : o = c.out
      BY <1>3, <2>1, ClientRest
    <2>5. o \in Seq(Msgs)
      BY UnitsAreMsgs
    <2>6. PICK y \in Seq(Msgs) : y = k.wire
      BY <2>2
    <2>7. CASE Direct(c)
      <3>1. d = c /\ j = [k EXCEPT !.wire = y \o E] /\ c.state = "ONLINE" /\ ~c.ackwait /\ c.out = <<>>
        BY <2>1, <2>6, <2>7 DEF ToSlave, Direct, Sent, ClientOK
      <3>2. y \o E \in Seq(Msgs)
        BY <2>2, ConcatProperties
      <3>3. j \in Conns /\ j # None /\ j.open /\ j.req = None /\ j.wire = y \o E
        <4>1. j \in Conns /\ j.open = k.open /\ j.req = k.req /\ j.wire = y \o E
          BY <2>2, <3>1, <3>2 DEF Conns
        <4> QED BY <2>1, <4>1, NoneAssumption
      <3>4. Rest(v, c) = <<>> /\ Rest(v2, c) = <<>>
        BY <3>1, <1>3 DEF Rest
      <3>5. Items(v, c, k) = y /\ Items(v2, d, j) = y \o E
        BY <2>6, <3>1, <3>2, <3>3, <3>4, EmptyConcat DEF Items
      <3>6. ClientOK(v2, d)
        BY <2>1, <3>1 DEF ClientOK
      <3>7. LinkedOK(v2, d, j)
        BY <3>3, <3>6 DEF LinkedOK, Moves
      <3>8. Alike(c, d)
        BY <1>3, <3>1 DEF Alike
      <3>9. Items(v2, d, j) = Items(v, c, k) \o E
        BY <3>5
      <3> QED BY <3>7, <3>8, <3>9, PairMoves
    <2>8. CASE ~Direct(c)
      <3>1. PICK p \in Seq(Units) : p = o \o E
        <4>1. o \o E \in Seq(Units)
          BY <2>2, ConcatProperties
        <4> QED BY <4>1
      <3>2. d = [c EXCEPT !.out = p] /\ j = k
        BY <2>1, <2>4, <2>8, <3>1 DEF ToSlave
      <3>3. d \in Clients /\ d.out = p /\ d.state = c.state /\ d.ackwait = c.ackwait /\ d.init = c.init /\ d.bulk = c.bulk
            /\ d.pre = c.pre /\ d.unsound = c.unsound
        BY <2>1, <3>2 DEF Clients
      <3>4. d # None
        BY <3>3, NoneAssumption
      <3>5. c.state # "ONLINE" \/ c.ackwait
        BY <2>1, <2>8 DEF Direct
      <3>6. ASSUME c.state = "END"
            PROVE  v2.child # None /\ d.init \in Nat /\ ~d.unsound
                   /\ Stream(v2, d.init, [data |-> v2.child.data, db |-> 0, querybuf |-> <<>>], d.out)
        <4>1. v.child # None /\ c.init \in Nat /\ ~c.unsound /\ Stream(v, c.init, [data |-> v.child.data, db |-> 0, querybuf |-> <<>>], o)
          BY <2>1, <2>4, <3>6 DEF ClientOK
        <4>2. PICK n \in Int : n = c.init
          BY <4>1
        <4>3. PICK z \in States : z = [data |-> v.child.data, db |-> 0, querybuf |-> <<>>]
          <5>1. v.child.data \in Data
            BY <1>3, <2>1, <3>6, ClientRest
          <5>2. [data |-> v.child.data, db |-> 0, querybuf |-> <<>>] \in States
            BY <5>1, LoadedState
          <5> QED BY <5>2
        <4>4. Stream(v, n, z, o)
          BY <4>1, <4>2, <4>3
        <4>5. Stream(v2, n, z, o \o E)
          BY <4>4, StreamMoves
        <4> QED BY <3>1, <3>3, <4>1, <4>2, <4>3, <4>5
      <3>7. ClientOK(v2, d)
        BY <2>1, <3>3, <3>5, <3>6 DEF ClientOK
      <3>8. LinkedOK(v2, d, j)
        BY <2>1, <3>2, <3>7 DEF LinkedOK, Moves
      <3>9. Alike(c, d)
        BY <1>3, <3>3, <3>4 DEF Alike, IsStart
      <3>10. Rest(v2, d) = R \o E
        <4>1. \A a \in Msgs : (<<a>> \o o) \o E = <<a>> \o (o \o E)
          <5> SUFFICES ASSUME NEW a \in Msgs PROVE (<<a>> \o o) \o E = <<a>> \o (o \o E)
            OBVIOUS
          <5>1. <<a>> \in Seq(Msgs)
            OBVIOUS
          <5> QED BY <2>2, <2>5, <5>1, ConcatAssociative
        <4>2. CASE c.state = "END"
          <5>1. PICK a \in Msgs : a = Rdb(v.child.data)
            BY <1>3, <2>1, <4>2, ClientRest
          <5>2. R = <<a>> \o o
            BY <1>3, <2>3, <2>4, <4>2, <5>1 DEF Rest
          <5>3. Rest(v2, d) = <<a>> \o p
            BY <3>3, <3>4, <4>2, <5>1 DEF Rest
          <5> QED BY <3>1, <4>1, <5>2, <5>3
        <4>3. CASE c.state = "BULK"
          <5>1. PICK a \in Msgs : a = Rdb(c.bulk[1])
            BY <1>3, <2>1, <4>3, ClientRest
          <5>2. R = <<a>> \o o
            BY <1>3, <2>3, <2>4, <4>3, <5>1 DEF Rest
          <5>3. Rest(v2, d) = <<a>> \o p
            BY <3>3, <3>4, <4>3, <5>1 DEF Rest
          <5> QED BY <3>1, <4>1, <5>2, <5>3
        <4>4. CASE c.state \notin {"END", "BULK"}
          <5>1. R = o /\ Rest(v2, d) = p
            BY <1>3, <2>1, <2>3, <2>4, <3>3, <3>4, <4>4 DEF Rest
          <5> QED BY <3>1, <5>1
        <4> QED BY <4>2, <4>3, <4>4
      <3>11. Items(v2, d, j) = Items(v, c, k) \o E
        <4>1. Items(v, c, k) = y \o R /\ Items(v2, d, j) = y \o (R \o E)
          BY <2>3, <2>6, <3>2, <3>10 DEF Items
        <4>2. (y \o R) \o E = y \o (R \o E)
          <5>1. E \in Seq(Msgs)
            BY ONLY <2>2
          <5> QED BY ONLY <5>1, y \in Seq(Msgs), R \in Seq(Msgs), ConcatAssociative
        <4> QED BY <4>1, <4>2
      <3> QED BY <3>8, <3>9, <3>11, PairMoves
    <2> QED BY <2>7, <2>8
  <1> QED BY <1>1, <1>2, <1>3

\* Nothing is sent: the next command will be preceded by a SELECT, or a child starts or
\* ends that no slave waits for.
LEMMA PairStill ==
    ASSUME NEW v, NEW v2, Moves(v, v2, <<>>), MTyped(v), NEW x, NEW c, NEW k, STyped(x, k), PairOK(v, x, c, k),
           c # None /\ c.state = "END" => v2.child = v.child
    PROVE  PairOK(v2, x, c, k)
  <1>1. CASE c = None
    BY <1>1, MovesKeeps, PairKeeps
  <1>2. CASE c # None /\ IsStart(c)
    <2>1. v2.backlog # None
      BY DEF Moves
    <2> QED BY <1>2, <2>1, MovesKeeps, PairWaits
  <1>3. CASE c # None /\ ~IsStart(c)
    <2>1. ClientOK(v, c) /\ k # None /\ k.open /\ k.req = None /\ c \in Clients /\ c.state # "START"
      BY <1>3 DEF PairOK, LinkedOK, ClientOK, IsStart
    <2>2. k.wire \in Seq(Msgs)
      BY <2>1 DEF STyped, Conns
    <2>3. PICK R \in Seq(Msgs) : R = Rest(v, c)
      BY <1>3, <2>1, ClientRest
    <2>4. PICK y \in Seq(Msgs) : y = k.wire
      BY <2>2
    <2>5. Rest(v2, c) = R
      BY <1>3, <2>3 DEF Rest
    <2>6. Items(v2, c, k) = Items(v, c, k) \o <<>>
      <3>1. Items(v, c, k) = y \o R /\ Items(v2, c, k) = y \o R
        BY <2>3, <2>4, <2>5 DEF Items
      <3>2. PICK z \in Seq(Msgs) : z = y \o R
        <4>1. y \o R \in Seq(Msgs)
          BY ConcatProperties
        <4> QED BY <4>1
      <3>3. z \o <<>> = z
        BY EmptyConcat
      <3> QED BY <3>1, <3>2, <3>3
    <2>7. ASSUME c.state = "END" PROVE v2.child # None /\ Stream(v2, c.init, [data |-> v2.child.data, db |-> 0, querybuf |-> <<>>], c.out)
      <3>1. v.child # None /\ c.init \in Nat /\ Stream(v, c.init, [data |-> v.child.data, db |-> 0, querybuf |-> <<>>], c.out)
        BY <2>1, <2>7 DEF ClientOK
      <3>2. PICK n \in Int : n = c.init
        BY <3>1
      <3>3. PICK z \in States : z = [data |-> v.child.data, db |-> 0, querybuf |-> <<>>]
        <4>1. v.child.data \in Data
          BY <1>3, <2>1, <2>7, ClientRest
        <4>2. [data |-> v.child.data, db |-> 0, querybuf |-> <<>>] \in States
          BY <4>1, LoadedState
        <4> QED BY <4>2
      <3>4. PICK o \in Seq(Units) : o = c.out
        BY <1>3, <2>1, ClientRest
      <3>5. Stream(v, n, z, o)
        BY <3>1, <3>2, <3>3, <3>4
      <3>6. Stream(v2, n, z, o \o <<>>)
        BY <3>5, StreamMoves
      <3>7. o \o <<>> = o
        BY EmptyConcat
      <3> QED BY <1>3, <2>7, <3>1, <3>2, <3>3, <3>4, <3>6, <3>7
    <2>8. ClientOK(v2, c)
      BY <2>1, <2>7 DEF ClientOK
    <2>9. LinkedOK(v2, c, k)
      BY <2>1, <2>8 DEF LinkedOK, Moves
    <2>10. Alike(c, c)
      BY <1>3 DEF Alike
    <2> QED BY <2>6, <2>9, <2>10, PairMoves
  <1> QED BY <1>1, <1>2, <1>3

---------------------------------------------------------------------------
(* What a master does for one slave.                                       *)

CachedOK(v, x) == x.cached # None => Follow(None, v, x.cached, x.data, <<>>)

\* A slave that waits for a save.
Waits(x, c, k) ==
  /\ c \in Clients /\ c.state = "START" /\ c.out = <<>> /\ ~c.unsound /\ ~c.ackwait
  /\ k \in Conns /\ k.open /\ k.req = None /\ k.wire = <<>>
  /\ \/ x.repl_state = "RECEIVE_PSYNC" /\ ~c.pre
     \/ x.repl_state = "TRANSFER" /\ c.pre /\ x.init.off = -1

LEMMA PairWaiting ==
    ASSUME NEW v, NEW x, NEW c, NEW k, STyped(x, k), PairOK(v, x, c, k), IsStart(c)
    PROVE  Waits(x, c, k) /\ CachedOK(v, x)
  <1>1. c # None /\ c.state = "START"
    BY DEF IsStart
  <1>2. k # None /\ k.open /\ k.req = None /\ ClientOK(v, c) /\ PipeOK(v, x, c, k)
    BY <1>1 DEF PairOK, LinkedOK
  <1>3. k \in Conns /\ x.repl_state \in {"CONNECTING", "RECEIVE_PSYNC", "TRANSFER", "CONNECTED"}
    BY <1>2 DEF STyped
  <1>4. c \in Clients /\ c.out = <<>> /\ ~c.unsound /\ ~c.ackwait
    BY <1>1, <1>2 DEF ClientOK, Clients
  <1>5. CASE x.repl_state = "RECEIVE_PSYNC"
    BY <1>1, <1>2, <1>3, <1>4, <1>5 DEF PipeOK, PsyncPipe, Waits, PairOK, CachedOK
  <1>6. CASE x.repl_state = "TRANSFER"
    BY <1>1, <1>2, <1>3, <1>4, <1>6 DEF PipeOK, TransferPipe, Waits, PairOK, CachedOK
  <1> QED BY <1>1, <1>2, <1>3, <1>5, <1>6 DEF PipeOK

LEMMA WaitingPair ==
    ASSUME NEW v, v.backlog # None, NEW x, CachedOK(v, x), NEW c, NEW k, Waits(x, c, k)
    PROVE  PairOK(v, x, c, k)
  <1>1. c # None /\ k # None /\ IsStart(c)
    BY NoneAssumption DEF Waits, IsStart
  <1>2. LinkedOK(v, c, k)
    BY <1>1 DEF LinkedOK, ClientOK, Waits
  <1>3. PipeOK(v, x, c, k)
    BY <1>1 DEF PipeOK, PsyncPipe, TransferPipe, Waits
  <1> QED BY <1>2, <1>3 DEF PairOK, CachedOK

Full(runid, off) == [k |-> "full", runid |-> runid, off |-> off]

\* It is told the offset from which on its buffer has the stream.
LEMMA PairSetup ==
    ASSUME NEW v, MTyped(v), v.backlog # None, v.child # None, NEW x, NEW c, NEW k, STyped(x, k), Waits(x, c, k), CachedOK(v, x),
           NEW off \in Nat, NEW out \in Seq(Units), Stream(v, off, [data |-> v.child.data, db |-> 0, querybuf |-> <<>>], out),
           NEW d, d = [c EXCEPT !.state = "END", !.init = off, !.out = out],
           NEW j, j = IF c.pre THEN k ELSE Sent(k, <<Full(v.runid, off)>>)
    PROVE  PairOK(v, x, d, j)
  <1>1. c \in Clients /\ k \in Conns /\ k # None /\ k.open /\ k.req = None /\ k.wire = <<>>
    BY NoneAssumption DEF Waits
  <1>2. d \in Clients /\ d.state = "END" /\ d.init = off /\ d.out = out /\ d.pre = c.pre /\ d.unsound = c.unsound /\ d.ackwait = c.ackwait
    <2>1. off \in Int
      OBVIOUS
    <2>2. PICK e : e = [c EXCEPT !.state = "END"]
      OBVIOUS
    <2>3. e \in Clients /\ e.state = "END" /\ e.pre = c.pre /\ e.unsound = c.unsound /\ e.ackwait = c.ackwait
      BY <1>1, <2>2 DEF Clients
    <2>4. PICK f : f = [e EXCEPT !.init = off]
      OBVIOUS
    <2>5. f \in Clients /\ f.state = "END" /\ f.init = off /\ f.pre = c.pre /\ f.unsound = c.unsound /\ f.ackwait = c.ackwait
      BY <2>1, <2>3, <2>4 DEF Clients
    <2>6. d = [f EXCEPT !.out = out]
      BY <2>2, <2>4
    <2> QED BY <2>5, <2>6 DEF Clients
  <1>3. d # None /\ ~d.unsound /\ ~IsStart(d) /\ ~d.ackwait
    BY <1>2, NoneAssumption DEF Waits, IsStart
  <1>4. PICK data \in Data : data = v.child.data
    <2>1. v.child \in Children
      BY DEF MTyped
    <2> QED BY <2>1 DEF Children
  <1>5. ClientOK(v, d)
    BY <1>2, <1>3 DEF ClientOK
  <1>6. v.runid \in RunIds /\ v.runid # None
    BY NoneAssumption DEF MTyped
  <1>7. PICK a \in Msgs : a = Full(v.runid, off)
    BY <1>6 DEF Full, Msgs
  <1>8. PICK b \in Msgs : b = Rdb(data)
    BY MsgTypes
  <1>9. PICK R \in Seq(Msgs) : R = <<b>> \o out
    <2>1. out \in Seq(Msgs)
      BY UnitsAreMsgs
    <2>2. <<b>> \o out \in Seq(Msgs)
      BY <2>1, OneMoreType
    <2> QED BY <2>2
  <1>10. Rest(v, d) = R
    BY <1>2, <1>3, <1>4, <1>8, <1>9 DEF Rest
  <1>11. ASSUME NEW init \in [runid : RunIds \cup {None}, off : Offsets],
                IF c.pre THEN init.off = -1 ELSE init.off = off /\ init.runid = v.runid
         PROVE  TransferOK(v, init, d, R)
    <2>1. Reading(data, Rec(init)) = [data |-> v.child.data, db |-> 0, querybuf |-> <<>>]
      BY <1>4 DEF Reading, Rec
    <2>2. PICK z : z = Reading(data, Rec(init))
      OBVIOUS
    <2>3. Stream(v, off, z, out)
      BY <2>1, <2>2
    <2>4. PICK rec : rec = Rec(init)
      OBVIOUS
    <2>5. (rec.pre <=> init.off = -1) /\ rec.runid = init.runid /\ rec.reploff = init.off
      BY <2>4 DEF Rec
    <2>6. Arrives(v, Replayed(z, out))
      BY <2>3 DEF Stream
    <2>7. CASE c.pre
      <3>1. rec.pre /\ d.pre
        BY <1>2, <1>11, <2>5, <2>7
      <3>2. Follow(d, v, rec, data, out)
        BY <1>3, <2>2, <2>4, <2>6, <3>1 DEF Follow
      <3> QED BY <1>8, <1>9, <2>4, <3>2 DEF TransferOK
    <2>8. CASE ~c.pre
      <3>1. ~rec.pre /\ rec.runid = v.runid /\ rec.reploff = off
        BY <1>11, <2>5, <2>8
      <3>2. Known(v, rec.runid)
        BY <1>6, <3>1 DEF Known, RunIds
      <3>3. Follow(d, v, rec, data, out)
        BY <1>3, <2>2, <2>3, <2>4, <2>6, <3>1, <3>2 DEF Follow
      <3> QED BY <1>8, <1>9, <2>4, <3>3 DEF TransferOK
    <2> QED BY <2>7, <2>8
  <1>12. CASE c.pre
    <2>1. j = k /\ x.repl_state = "TRANSFER" /\ x.init.off = -1
      BY <1>12 DEF Waits
    <2>2. Items(v, d, j) = R
      BY <1>1, <1>10, <2>1, EmptyConcat DEF Items
    <2>3. PICK init \in [runid : RunIds \cup {None}, off : Offsets] : init = x.init
      BY DEF STyped
    <2>4. TransferOK(v, x.init, d, R)
      BY <1>11, <1>12, <2>1, <2>3
    <2>5. PipeOK(v, x, d, j)
      BY <1>1, <1>3, <2>1, <2>2, <2>4 DEF PipeOK, TransferPipe
    <2>6. LinkedOK(v, d, j)
      BY <1>1, <1>5, <2>1 DEF LinkedOK
    <2> QED BY <2>5, <2>6 DEF PairOK, CachedOK
  <1>13. CASE ~c.pre
    <2>1. j = [k EXCEPT !.wire = <<>> \o <<a>>] /\ x.repl_state = "RECEIVE_PSYNC"
      BY <1>1, <1>7, <1>13 DEF Waits, Sent
    <2>2. <<>> \o <<a>> = <<a>> /\ <<a>> \in Seq(Msgs)
      OBVIOUS
    <2>3. j \in Conns /\ j.wire = <<a>> /\ j.open /\ j.req = None
      BY <1>1, <2>1, <2>2, ZenonT(60) DEF Conns
    <2>4. j # None
      BY <2>3, NoneAssumption
    <2>5. Items(v, d, j) = <<a>> \o R
      BY <1>10, <2>3 DEF Items
    <2>6. PICK init \in [runid : RunIds, off : Nat] : init = [runid |-> v.runid, off |-> off]
      BY <1>6
    <2>7. init \in [runid : RunIds \cup {None}, off : Offsets] /\ init.runid = v.runid /\ init.off = off
      BY <2>6 DEF Offsets
    <2>8. TransferOK(v, init, d, R)
      BY <1>11, <1>13, <2>7
    <2>9. PICK I : I = Items(v, d, j)
      OBVIOUS
    <2>10. I = <<[k |-> "full", runid |-> init.runid, off |-> init.off]>> \o R
      BY <1>7, <2>5, <2>7, <2>9 DEF Full
    <2>11. PsyncOK(v, x, d, I)
      BY <2>8, <2>10 DEF PsyncOK
    <2>12. PipeOK(v, x, d, j)
      BY <1>3, <2>1, <2>3, <2>9, <2>11 DEF PipeOK, PsyncPipe
    <2>13. LinkedOK(v, d, j)
      BY <1>5, <2>3, <2>4 DEF LinkedOK
    <2> QED BY <2>12, <2>13 DEF PairOK, CachedOK
  <1> QED BY <1>12, <1>13

\* It gets an error, perhaps after the offset, and no more.
LEMMA PairError ==
    ASSUME NEW v, NEW x, CachedOK(v, x), NEW k, k # None, k.req = None, k.wire = <<[k |-> "err"]>>,
           x.repl_state \in {"RECEIVE_PSYNC", "TRANSFER"}
    PROVE  PairOK(v, x, None, k)
  <1>1. k.wire \in Seq(Msgs)
    BY MsgTypes
  <1>2. Items(v, None, k) = <<[k |-> "err"]>>
    BY <1>1, EmptyConcat DEF Items, Rest
  <1>3. PipeOK(v, x, None, k)
    BY <1>2 DEF PipeOK, PsyncPipe, TransferPipe, PsyncOK, TransferOK, IsStart
  <1> QED BY <1>3 DEF PairOK, LinkedOK, CachedOK

LEMMA PairErrorTold ==
    ASSUME NEW v, NEW x, CachedOK(v, x), NEW k, k # None, k.req = None, x.repl_state = "RECEIVE_PSYNC",
           NEW init \in [runid : RunIds, off : Nat],
           k.wire = <<[k |-> "full", runid |-> init.runid, off |-> init.off]>> \o <<[k |-> "err"]>>
    PROVE  PairOK(v, x, None, k)
  <1>1. PICK J \in Seq(Msgs) : J = <<[k |-> "err"]>>
    <2>1. <<[k |-> "err"]>> \in Seq(Msgs)
      BY MsgTypes
    <2> QED BY <2>1
  <1>2. PICK a \in Msgs : a = [k |-> "full", runid |-> init.runid, off |-> init.off]
    BY MsgTypes
  <1>3. PICK I \in Seq(Msgs) : I = <<a>> \o J
    <2>1. <<a>> \o J \in Seq(Msgs)
      BY OneMoreType
    <2> QED BY <2>1
  <1>4. Items(v, None, k) = I
    BY <1>1, <1>2, <1>3, EmptyConcat DEF Items, Rest
  <1>5. TransferOK(v, init, None, J)
    BY <1>1 DEF TransferOK
  <1>6. PsyncOK(v, x, None, I)
    BY <1>2, <1>3, <1>5 DEF PsyncOK
  <1>7. PipeOK(v, x, None, k)
    BY <1>4, <1>6 DEF PipeOK, PsyncPipe, IsStart
  <1> QED BY <1>7 DEF PairOK, LinkedOK, CachedOK

\* It continues where it left off.
LEMMA PairPartial ==
    ASSUME NEW v, MTyped(v), NEW x, NEW k, STyped(x, k), k # None, k.open, k.req # None, PairOK(v, x, None, k), NEW req, req = k.req,
           PartialAllowed(v, req), NEW d, d = [NewClient(FALSE) EXCEPT !.state = "ONLINE", !.unsound = req.pre \/ v.reused],
           NEW j, j = Sent([k EXCEPT !.req = None], <<[k |-> "cont"]>> \o addReplyReplicationBacklog(v.backlog, req.off))
    PROVE  PairOK(v, x, d, j)
  <1>1. k \in Conns /\ PipeOK(v, x, None, k) /\ x.repl_state \in {"CONNECTING", "RECEIVE_PSYNC", "TRANSFER", "CONNECTED"}
    BY DEF STyped, PairOK
  <1>2. v.runid \in RunIds /\ v.runid # None /\ v.reused \in BOOLEAN
    BY NoneAssumption DEF MTyped
  <1>3. req.cmd = "PSYNC" /\ req.runid = v.runid /\ v.backlog # None /\ req.off >= v.backlog.off /\ req.off <= v.backlog.off + v.backlog.histlen
    BY DEF PartialAllowed
  <1>4. x.repl_state = "RECEIVE_PSYNC"
    <2>1. x.repl_state = "TRANSFER" => req = [cmd |-> "SYNC"]
      BY <1>1 DEF PipeOK, TransferPipe
    <2>2. [cmd |-> "SYNC"].cmd = "SYNC"
      OBVIOUS
    <2> QED BY <1>1, <1>3, <2>1, <2>2 DEF PipeOK
  <1>5. k.wire = <<>> /\ req = PsyncReq(x.cached)
    BY <1>1, <1>4 DEF PipeOK, PsyncPipe
  <1>6. x.cached # None
    <2>1. x.cached = None => req.runid = None
      BY <1>5 DEF PsyncReq
    <2> QED BY <1>2, <1>3, <2>1
  <1>7. PICK rec \in Masters : rec = x.cached
    BY <1>6 DEF STyped
  <1>8. req.runid = rec.runid /\ req.off = rec.reploff + 1 /\ req.pre = rec.pre /\ rec.pre \in BOOLEAN /\ rec.reploff \in Int
    BY <1>5, <1>6, <1>7 DEF PsyncReq, Masters, Offsets
  <1>9. BacklogOK(v) /\ v.backlog \in Backlogs /\ v.offset \in Nat /\ v.backlog.off = v.offset - v.backlog.histlen + 1 /\ v.backlog.histlen \in Nat
        /\ v.backlog.off \in Nat
    BY <1>3, SizesAssumption DEF MTyped, BacklogOK, Backlogs
  <1>10. PICK p \in Int : p = rec.reploff + 1
    BY <1>8
  <1>11. PICK U : U = addReplyReplicationBacklog(v.backlog, p)
    OBVIOUS
  <1>12. p \in v.backlog.off..(v.offset + 1)
    BY <1>3, <1>8, <1>9, <1>10
  <1>13. U \in Seq(Units)
    BY <1>9, <1>11, <1>12, HistoryUnits
  <1>14. PICK a \in Msgs : a = [k |-> "cont"]
    BY MsgTypes
  <1>15. PICK I \in Seq(Msgs) : I = <<a>> \o U
    <2>1. <<a>> \o U \in Seq(Msgs)
      BY <1>13, OneMoreType, UnitsAreMsgs
    <2> QED BY <2>1
  <1>16. d \in Clients /\ d.state = "ONLINE" /\ d.out = <<>> /\ ~d.ackwait /\ (d.unsound <=> rec.pre \/ v.reused)
    <2>1. PICK e : e = NewClient(FALSE)
      OBVIOUS
    <2>2. <<>> \in Seq(Units)
      OBVIOUS
    <2>3. e \in Clients /\ e.out = <<>> /\ e.ackwait = FALSE
      BY <2>1, <2>2 DEF NewClient, Clients
    <2>4. PICK b \in BOOLEAN : b = (req.pre \/ v.reused)
      OBVIOUS
    <2>5. d = [e EXCEPT !.state = "ONLINE", !.unsound = b]
      BY <2>1, <2>4
    <2>6. d \in Clients /\ d.state = "ONLINE" /\ d.out = <<>> /\ d.ackwait = FALSE /\ d.unsound = b
      BY <2>3, <2>5 DEF Clients
    <2> QED BY <1>8, <2>4, <2>6
  <1>17. d # None /\ ~IsStart(d)
    BY <1>16, NoneAssumption DEF IsStart
  <1>18. j \in Conns /\ j.wire = I /\ j.open /\ j.req = None
    <2>1. PICK l : l = [k EXCEPT !.req = None]
      OBVIOUS
    <2>2. l \in Conns /\ l.wire = <<>> /\ l.open /\ l.req = None
      BY <1>1, <1>5, <2>1 DEF Conns
    <2>3. l # None
      BY <2>2, NoneAssumption
    <2>4. <<>> \o I = I
      BY EmptyConcat
    <2>5. j = Sent(l, I)
      BY <1>8, <1>10, <1>11, <1>14, <1>15, <2>1
    <2>6. j = [l EXCEPT !.wire = I]
      BY <2>2, <2>3, <2>4, <2>5 DEF Sent
    <2> QED BY <2>2, <2>6 DEF Conns
  <1>19. j # None
    BY <1>18, NoneAssumption
  <1>20. Items(v, d, j) = I
    BY <1>16, <1>17, <1>18, EmptyConcat DEF Items, Rest
  <1>21. Follow(d, v, rec, x.data, U)
    <2>1. Follow(None, v, rec, x.data, <<>>)
      BY <1>6, <1>7 DEF PairOK
    <2>2. rec.runid = v.runid /\ Known(v, rec.runid)
      BY <1>2, <1>3, <1>8 DEF Known, RunIds
    <2>3. ASSUME ~d.unsound PROVE Stream(v, rec.reploff, Reading(x.data, rec), U)
      <3>1. ~rec.pre /\ ~v.reused
        BY <1>16, <2>3
      <3>2. Resumes(v, rec.reploff, Reading(x.data, rec), <<>>)
        BY <2>1, <2>2, <3>1 DEF Follow
      <3>3. PICK z : z = Reading(x.data, rec)
        OBVIOUS
      <3>4. PICK pos \in Int : pos = rec.reploff
        BY <1>8
      <3>5. U = addReplyReplicationBacklog(v.backlog, pos + 1) /\ pos + 1 >= v.backlog.off
        BY <1>9, <1>10, <1>11, <1>12, <3>4
      <3>6. Resumes(v, pos, z, <<>>)
        BY <3>2, <3>3, <3>4
      <3>7. Stream(v, pos, z, U)
        BY ONLY <1>3, <1>9, <3>5, <3>6, pos \in Int, ResumesHistory
      <3> QED BY <3>3, <3>4, <3>7
    <2>4. ~d.unsound => Arrives(v, Replayed(Reading(x.data, rec), U))
      BY <2>3 DEF Stream
    <2> QED BY <1>13, <1>16, <1>17, <2>2, <2>3, <2>4 DEF Follow
  <1>22. PsyncOK(v, x, d, I)
    BY <1>6, <1>7, <1>13, <1>14, <1>15, <1>21 DEF PsyncOK
  <1>23. PipeOK(v, x, d, j)
    BY <1>4, <1>17, <1>18, <1>20, <1>22 DEF PipeOK, PsyncPipe
  <1>24. LinkedOK(v, d, j)
    BY <1>3, <1>16, <1>18, <1>19 DEF LinkedOK, ClientOK
  <1> QED BY <1>23, <1>24 DEF PairOK

\* The items of a link, the first on the wire.
LEMMA ItemsType ==
    ASSUME NEW v, MTyped(v), NEW x, NEW c, NEW k, STyped(x, k), PairOK(v, x, c, k), k # None
    PROVE  k.wire \in Seq(Msgs) /\ Rest(v, c) \in Seq(Msgs) /\ Items(v, c, k) \in Seq(Msgs)
  <1>1. k.wire \in Seq(Msgs)
    BY DEF STyped, Conns
  <1>2. Rest(v, c) \in Seq(Msgs)
    <2>1. CASE c = None
      BY <2>1 DEF Rest
    <2>2. CASE c # None
      BY <2>2, ClientRest DEF PairOK, LinkedOK
    <2> QED BY <2>1, <2>2
  <1>3. PICK R \in Seq(Msgs) : R = Rest(v, c)
    BY <1>2
  <1>4. PICK y \in Seq(Msgs) : y = k.wire
    BY <1>1
  <1>5. y \o R \in Seq(Msgs)
    BY ConcatProperties
  <1> QED BY <1>1, <1>2, <1>3, <1>4, <1>5 DEF Items

\* The file or the buffer goes on the wire: what the slave is to be sent is the same.
LEMMA PairShift ==
    ASSUME NEW v, NEW v2, Moves(v, v2, <<>>), MTyped(v), NEW x, NEW c, NEW k, STyped(x, k), PairOK(v, x, c, k),
           NEW d, NEW j, Alike(c, d), LinkedOK(v2, d, j), Items(v2, d, j) = Items(v, c, k)
    PROVE  PairOK(v2, x, d, j)
  <1>1. k # None
    BY DEF PairOK, LinkedOK, Alike
  <1>2. PICK I \in Seq(Msgs) : I = Items(v, c, k)
    BY <1>1, ItemsType
  <1>3. I \o <<>> = I
    BY EmptyConcat
  <1>4. Items(v2, d, j) = Items(v, c, k) \o <<>>
    BY <1>2, <1>3
  <1> QED BY <1>4, PairMoves

LEMMA ItemsHead ==
    ASSUME NEW v, MTyped(v), NEW x, NEW c, NEW k, STyped(x, k), PairOK(v, x, c, k), k # None, k.wire # <<>>,
           NEW j, j.wire = Tail(k.wire)
    PROVE  Head(k.wire) \in Msgs /\ Tail(k.wire) \in Seq(Msgs) /\ Items(v, c, k) = <<Head(k.wire)>> \o Items(v, c, j)
           /\ Items(v, c, j) \in Seq(Msgs)
  <1>1. PICK y \in Seq(Msgs) : y = k.wire
    BY ItemsType
  <1>2. PICK R \in Seq(Msgs) : R = Rest(v, c)
    BY ItemsType
  <1>3. PICK t \in Seq(Msgs) : t = Tail(y)
    BY <1>1, HeadTailProperties
  <1>4. PICK a \in Msgs : a = Head(y)
    BY <1>1, HeadTailProperties
  <1>5. y = <<a>> \o t
    BY <1>1, <1>3, <1>4
  <1>6. <<a>> \in Seq(Msgs)
    OBVIOUS
  <1>7. (<<a>> \o t) \o R = <<a>> \o (t \o R) /\ t \o R \in Seq(Msgs)
    BY <1>6, ConcatAssociative, ConcatProperties
  <1>8. Items(v, c, k) = y \o R /\ Items(v, c, j) = t \o R
    BY <1>1, <1>2, <1>3 DEF Items
  <1> QED BY <1>1, <1>3, <1>4, <1>5, <1>7, <1>8

LEMMA SameHead ==
    ASSUME NEW a \in Msgs, NEW I \in Seq(Msgs), NEW b \in Msgs, NEW J \in Seq(Msgs), <<a>> \o I = <<b>> \o J
    PROVE  a = b /\ I = J
  <1>1. Head(<<a>> \o I) = a /\ Tail(<<a>> \o I) = I
    BY OneMoreType
  <1>2. Head(<<b>> \o J) = b /\ Tail(<<b>> \o J) = J
    BY OneMoreType
  <1> QED BY ONLY <1>1, <1>2, <<a>> \o I = <<b>> \o J, Zenon

---------------------------------------------------------------------------
(* What a slave does.                                                      *)

LEMMA PairUnconnected ==
    ASSUME NEW v, NEW x, CachedOK(v, x)
    PROVE  PairOK(v, x, None, None)
  BY DEF PairOK, LinkedOK, CachedOK

LEMMA PairConnects ==
    ASSUME NEW v, NEW x, CachedOK(v, x), x.repl_state = "CONNECTING", NEW k, k.wire = <<>>, k.req = None
    PROVE  PairOK(v, x, None, k)
  BY DEF PairOK, LinkedOK, CachedOK, PipeOK

LEMMA PairAsks ==
    ASSUME NEW v, NEW x, CachedOK(v, x), NEW k, k.wire = <<>>, k.req # None,
           \/ x.repl_state = "RECEIVE_PSYNC" /\ k.req = PsyncReq(x.cached)
           \/ x.repl_state = "TRANSFER" /\ k.req = [cmd |-> "SYNC"] /\ x.init.off = -1
    PROVE  PairOK(v, x, None, k)
  BY DEF PairOK, LinkedOK, CachedOK, PipeOK, PsyncPipe, TransferPipe, IsStart

\* The kinds of the messages.
LEMMA Kinds ==
    /\ [k |-> "cont"].k = "cont" /\ [k |-> "err"].k = "err"
    /\ \A data \in Data : Rdb(data).k = "rdb" /\ Rdb(data).data = data
    /\ \A init \in [runid : RunIds, off : Nat] :
         LET u == [k |-> "full", runid |-> init.runid, off |-> init.off] IN u.k = "full" /\ u.runid = init.runid /\ u.off = init.off
  BY DEF Rdb

\* The answer to PSYNC.
Answered(v, x, c, k, u, j) ==
  /\ k.req = None /\ ~IsStart(c)
  /\ u.k = "cont" => x.cached # None /\ Follow(c, v, x.cached, x.data, Items(v, c, j))
  /\ u.k = "full" => /\ [runid |-> u.runid, off |-> u.off] \in [runid : RunIds, off : Nat]
                     /\ TransferOK(v, [runid |-> u.runid, off |-> u.off], c, Items(v, c, j))
  /\ u.k \notin {"cont", "full"} => c = None /\ Tail(k.wire) = <<>>

LEMMA PairAnswer ==
    ASSUME NEW v, MTyped(v), NEW x, NEW c, NEW k, STyped(x, k), PairOK(v, x, c, k), k # None, k.wire # <<>>,
           x.repl_state = "RECEIVE_PSYNC", NEW u, u = Head(k.wire), NEW j, j.wire = Tail(k.wire)
    PROVE  Answered(v, x, c, k, u, j)
  <1> SUFFICES /\ k.req = None /\ ~IsStart(c)
               /\ u.k = "cont" => x.cached # None /\ Follow(c, v, x.cached, x.data, Items(v, c, j))
               /\ u.k = "full" => /\ [runid |-> u.runid, off |-> u.off] \in [runid : RunIds, off : Nat]
                                  /\ TransferOK(v, [runid |-> u.runid, off |-> u.off], c, Items(v, c, j))
               /\ u.k \notin {"cont", "full"} => c = None /\ Tail(k.wire) = <<>>
    BY DEF Answered
  <1>1. PipeOK(v, x, c, k)
    BY DEF PairOK
  <1>2. k.req = None /\ ~IsStart(c) /\ PsyncOK(v, x, c, Items(v, c, k))
    BY <1>1 DEF PipeOK, PsyncPipe
  <1>3. PICK J \in Seq(Msgs) : J = Items(v, c, j)
    BY ItemsHead
  <1>4. u \in Msgs
    BY ItemsHead
  <1>5. Items(v, c, k) = <<u>> \o J
    BY <1>3, ItemsHead
  <1>6. PICK I : I = Items(v, c, k)
    OBVIOUS
  <1>7. I = <<u>> \o J /\ I # <<>> /\ PsyncOK(v, x, c, I)
    <2>1. <<u>> \o J # <<>>
      BY <1>4, OneMoreType
    <2> QED BY <1>2, <1>5, <1>6, <2>1
  <1>8. CASE c = None /\ I = <<[k |-> "err"]>>
    <2>1. PICK b \in Msgs : b = [k |-> "err"]
      BY MsgTypes
    <2>2. PICK e \in Seq(Msgs) : e = <<>>
      <3>1. <<>> \in Seq(Msgs)
        OBVIOUS
      <3> QED BY <3>1
    <2>3. <<b>> \in Seq(Msgs)
      OBVIOUS
    <2>4. <<b>> = <<b>> \o e
      BY <2>2, <2>3, EmptyConcat
    <2>5. <<u>> \o J = <<b>> \o e
      BY <1>7, <1>8, <2>1, <2>4
    <2>6. u = b /\ J = <<>>
      BY ONLY <2>2, <2>5, u \in Msgs, b \in Msgs, J \in Seq(Msgs), <1>4, SameHead, ZenonT(60)
    <2>7. u.k = "err"
      BY <2>1, <2>6, Kinds
    <2>8. Items(v, c, j) = Tail(k.wire)
      <3>1. Tail(k.wire) \in Seq(Msgs)
        BY ItemsHead
      <3> QED BY <1>8, <3>1, EmptyConcat DEF Items, Rest
    <2> QED BY <1>2, <1>3, <1>8, <2>6, <2>7, <2>8
  <1>9. CASE x.cached # None /\ \E U \in Seq(Units) : I = <<[k |-> "cont"]>> \o U /\ Follow(c, v, x.cached, x.data, U)
    <2>1. PICK U \in Seq(Units) : I = <<[k |-> "cont"]>> \o U /\ Follow(c, v, x.cached, x.data, U)
      BY <1>9
    <2>2. PICK b \in Msgs : b = [k |-> "cont"]
      BY MsgTypes
    <2>3. U \in Seq(Msgs)
      BY UnitsAreMsgs
    <2>4. <<u>> \o J = <<b>> \o U
      BY <1>7, <2>1, <2>2
    <2>5. u = b /\ J = U
      BY ONLY <2>3, <2>4, b \in Msgs, J \in Seq(Msgs), <1>4, SameHead
    <2>6. u.k = "cont"
      BY <2>2, <2>5, Kinds
    <2> QED BY <1>2, <1>3, <1>9, <2>1, <2>5, <2>6
  <1>10. CASE \E init \in [runid : RunIds, off : Nat], L \in Seq(Msgs) :
                I = <<[k |-> "full", runid |-> init.runid, off |-> init.off]>> \o L /\ TransferOK(v, init, c, L)
    <2>1. PICK init \in [runid : RunIds, off : Nat], L \in Seq(Msgs) :
            I = <<[k |-> "full", runid |-> init.runid, off |-> init.off]>> \o L /\ TransferOK(v, init, c, L)
      BY <1>10
    <2>2. PICK b \in Msgs : b = [k |-> "full", runid |-> init.runid, off |-> init.off]
      BY MsgTypes
    <2>3. <<u>> \o J = <<b>> \o L
      BY <1>7, <2>1, <2>2
    <2>4. u = b /\ J = L
      BY ONLY <2>3, b \in Msgs, J \in Seq(Msgs), L \in Seq(Msgs), <1>4, SameHead
    <2>5. u.k = "full" /\ u.runid = init.runid /\ u.off = init.off
      BY <2>2, <2>4, Kinds
    <2>6. [runid |-> u.runid, off |-> u.off] = init
      BY <2>5
    <2> QED BY <1>2, <1>3, <2>1, <2>4, <2>5, <2>6
  <1> QED BY <1>7, <1>8, <1>9, <1>10 DEF PsyncOK

\* The slave has the offset and waits for the file; or continues.
LEMMA PairFull ==
    ASSUME NEW v, NEW x, x.repl_state = "TRANSFER", x.cached = None, NEW c, NEW k, k # None, k.req = None, ~IsStart(c), LinkedOK(v, c, k),
           TransferOK(v, x.init, c, Items(v, c, k))
    PROVE  PairOK(v, x, c, k)
  BY DEF PairOK, PipeOK, TransferPipe

LEMMA PairContinues ==
    ASSUME NEW v, NEW x, x.repl_state = "CONNECTED", x.cached = None, NEW c, NEW k, k # None, k.req = None, ~IsStart(c), LinkedOK(v, c, k),
           Follow(c, v, x.master, x.data, Items(v, c, k))
    PROVE  PairOK(v, x, c, k)
  BY DEF PairOK, PipeOK

\* The file.
LEMMA PairFile ==
    ASSUME NEW v, MTyped(v), NEW x, NEW c, NEW k, STyped(x, k), PairOK(v, x, c, k), k # None, k.wire # <<>>,
           x.repl_state = "TRANSFER", NEW u, u = Head(k.wire), u.k = "rdb", NEW j, j.wire = Tail(k.wire)
    PROVE  k.req = None /\ ~IsStart(c) /\ u.data \in Data /\ Follow(c, v, Rec(x.init), u.data, Items(v, c, j))
  <1>1. PipeOK(v, x, c, k)
    BY DEF PairOK
  <1>2. k.req = None /\ ~IsStart(c) /\ TransferOK(v, x.init, c, Items(v, c, k))
    BY <1>1 DEF PipeOK, TransferPipe
  <1>3. PICK J \in Seq(Msgs) : J = Items(v, c, j)
    BY ItemsHead
  <1>4. u \in Msgs
    BY ItemsHead
  <1>5. Items(v, c, k) = <<u>> \o J
    BY <1>3, ItemsHead
  <1>6. PICK I : I = Items(v, c, k)
    OBVIOUS
  <1>7. I = <<u>> \o J /\ I # <<>> /\ TransferOK(v, x.init, c, I)
    <2>1. <<u>> \o J # <<>>
      BY <1>4, OneMoreType
    <2> QED BY <1>2, <1>5, <1>6, <2>1
  <1>8. I # <<[k |-> "err"]>>
    <2>1. Head(I) = u
      BY <1>4, <1>7, OneMoreType
    <2>2. Head(<<[k |-> "err"]>>) = [k |-> "err"]
      OBVIOUS
    <2> QED BY <2>1, <2>2, Kinds
  <1>9. PICK data \in Data, U \in Seq(Units) : I = <<Rdb(data)>> \o U /\ Follow(c, v, Rec(x.init), data, U)
    BY <1>7, <1>8 DEF TransferOK
  <1>10. PICK b \in Msgs : b = Rdb(data)
    BY MsgTypes
  <1>11. U \in Seq(Msgs)
    BY UnitsAreMsgs
  <1>12. <<u>> \o J = <<b>> \o U
    BY <1>7, <1>9, <1>10
  <1>13. u = b /\ J = U
    BY ONLY <1>11, <1>12, b \in Msgs, J \in Seq(Msgs), <1>4, SameHead
  <1>14. u.data = data
    BY <1>10, <1>13, Kinds
  <1> QED BY <1>2, <1>3, <1>9, <1>13, <1>14

\* A unit of the stream.
Advance(rec, y) == [rec EXCEPT !.reploff = @ + 1, !.db = y.db, !.querybuf = y.querybuf]

LEMMA PairUnit ==
    ASSUME NEW v, MTyped(v), NEW x, NEW c, NEW k, STyped(x, k), PairOK(v, x, c, k), k # None, k.wire # <<>>,
           x.repl_state = "CONNECTED", NEW u, u = Head(k.wire), NEW j, j.wire = Tail(k.wire), NEW rec \in Masters, rec = x.master,
           NEW y, y = Apply(Reading(x.data, rec), u), NEW rec2, rec2 = Advance(rec, y)
    PROVE  /\ k.req = None /\ ~IsStart(c) /\ u \in Units /\ y \in States
           /\ rec2 \in Masters /\ Follow(c, v, rec2, y.data, Items(v, c, j))
  <1>1. PipeOK(v, x, c, k)
    BY DEF PairOK
  <1>2. k.req = None /\ ~IsStart(c) /\ Follow(c, v, rec, x.data, Items(v, c, k))
    BY <1>1 DEF PipeOK
  <1>3. PICK J \in Seq(Msgs) : J = Items(v, c, j)
    BY ItemsHead
  <1>4. u \in Msgs
    BY ItemsHead
  <1>5. Items(v, c, k) = <<u>> \o J
    BY <1>3, ItemsHead
  <1>6. PICK I : I = Items(v, c, k)
    OBVIOUS
  <1>7. I = <<u>> \o J /\ I # <<>> /\ Head(I) = u /\ Tail(I) = J
    <2>1. <<u>> \o J # <<>> /\ Head(<<u>> \o J) = u /\ Tail(<<u>> \o J) = J
      BY <1>4, OneMoreType
    <2> QED BY <1>5, <1>6, <2>1
  <1>8. Follow(c, v, rec, x.data, I) /\ I \in Seq(Units)
    BY <1>2, <1>6 DEF Follow
  <1>9. u \in Units
    BY <1>7, <1>8, HeadTailProperties
  <1>10. PICK data \in Data : data = x.data
    BY DEF STyped
  <1>11. Reading(data, rec) \in States
    BY ReadingState
  <1>12. y \in States
    BY <1>9, <1>10, <1>11, ApplyType
  <1>13. y.db \in Dbs /\ y.querybuf \in Seq(Units)
    BY <1>12 DEF States
  <1>14. rec.reploff + 1 \in Offsets
    BY DEF Masters, Offsets
  <1>15. rec2 \in Masters /\ rec2.runid = rec.runid /\ rec2.pre = rec.pre /\ rec2.reploff = rec.reploff + 1 /\ rec2.db = y.db
         /\ rec2.querybuf = y.querybuf
    BY <1>13, <1>14 DEF Masters, Advance
  <1>16. v.offset \in Int /\ (v.backlog # None => v.backlog.off \in Int)
    BY DEF MTyped, Offsets, Backlogs
  <1>17. y = Apply(Reading(data, rec), Head(I)) /\ Follow(c, v, rec, data, I) /\ I # <<>>
    BY <1>7, <1>8, <1>10
  <1>18. Follow(c, v, rec2, y.data, Tail(I))
    BY ONLY <1>15, <1>16, <1>17, rec \in Masters, data \in Data, FollowRead
  <1> QED BY <1>2, <1>3, <1>7, <1>9, <1>12, <1>15, <1>18

\* The connection of a connected slave is lost: its master is cached.
LEMMA PairCached ==
    ASSUME NEW v, MTyped(v), NEW x, NEW c, NEW k, STyped(x, k), PairOK(v, x, c, k), k # None, x.repl_state = "CONNECTED",
           NEW y, y.cached = x.master, y.data = x.data
    PROVE  CachedOK(v, y)
  <1>1. Follow(c, v, x.master, x.data, Items(v, c, k))
    BY DEF PairOK, PipeOK
  <1>2. PICK U : U = Items(v, c, k)
    OBVIOUS
  <1>3. U \in Seq(Units)
    BY <1>1, <1>2 DEF Follow
  <1>4. v.offset \in Int /\ (v.backlog # None => v.backlog.off \in Int)
    BY DEF MTyped, Offsets, Backlogs
  <1>5. PICK rec \in Masters : rec = x.master
    BY DEF STyped
  <1>6. PICK data \in Data : data = x.data
    BY DEF STyped
  <1>7. PICK T \in Seq(Units) : T = <<>>
    <2>1. <<>> \in Seq(Units)
      OBVIOUS
    <2> QED BY <2>1
  <1>8. Begins(T, U)
    <2>1. Len(U) \in Nat /\ Len(T) = 0
      BY <1>3, <1>7, LenProperties
    <2> QED BY <2>1 DEF Begins
  <1>9. Follow(c, v, rec, data, U)
    BY <1>1, <1>2, <1>5, <1>6
  <1>10. Follow(None, v, rec, data, T)
    BY ONLY <1>4, <1>8, <1>9, rec \in Masters, data \in Data, T \in Seq(Units), FollowCut
  <1> QED BY <1>5, <1>6, <1>7, <1>10 DEF CachedOK

---------------------------------------------------------------------------
(* What a server does to its stream.                                       *)

LEMMA ViewTyped ==
    ASSUME NEW v \in Server, v.backlog # None => BacklogOK(v)
    PROVE  MTyped(MV(v)) /\ (v.backlog # None => BacklogOK(MV(v)))
  <1>1. v.backlog # None => BacklogOK(MV(v))
    BY DEF BacklogOK, MV, HU
  <1> QED BY <1>1 DEF MTyped, MV, Server

\* The units do to a slave what was done to the master.
Carries(v, v1, E) == \A x \in States : Arrives(v, x) => Arrives(v1, Replayed(x, E))

FedBy(v, v1, v2, E) ==
  /\ v2 \in Server /\ v2 = [v1 EXCEPT !.offset = v2.offset, !.backlog = v2.backlog]
  /\ v2.backlog # None /\ BacklogOK(v2) /\ Moves(MV(v), MV(v2), E)

\* Feeding some units to the backlog of a server that has executed their command.
LEMMA FeedMoves ==
    ASSUME NEW v \in Server, v.backlog # None, BacklogOK(v), NEW E \in Seq(Units), NEW v1 \in Server, v1.runid = v.runid,
           v1.reused = v.reused, v1.offset = v.offset, v1.backlog = v.backlog, NEW v2, v2 = feedReplicationBacklog(v1, E),
           Carries(v, v1, E)
    PROVE  FedBy(v, v1, v2, E)
  <1>1. BacklogOK(v1)
    BY DEF BacklogOK, HU
  <1>2. v2 \in Server /\ v2 = [v1 EXCEPT !.offset = v2.offset, !.backlog = v2.backlog] /\ Grew(v1, v2, E)
    BY ONLY <1>1, v1 \in Server, E \in Seq(Units), v2 = feedReplicationBacklog(v1, E), FeedGrows
  <1>3. BacklogOK(v2)
    BY <1>2 DEF Grew
  <1>4. v2.backlog # None
    BY <1>3, NoneAssumption DEF BacklogOK
  <1>5. v2.runid = v.runid /\ v2.reused = v.reused /\ v2.data = v1.data /\ v2.seldb = v1.seldb
    BY <1>2 DEF Server
  <1>6. PICK a : a = MV(v)
    OBVIOUS
  <1>7. PICK b : b = MV(v2)
    OBVIOUS
  <1>8. BacklogOK(a) /\ BacklogOK(b)
    BY <1>3, <1>6, <1>7 DEF BacklogOK, MV, HU
  <1>9. (\A p : HU(a, p) = HU(v1, p)) /\ (\A p : HU(b, p) = HU(v2, p))
    BY <1>6, <1>7 DEF HU, MV
  <1>10. a.offset = v1.offset /\ a.backlog = v1.backlog /\ b.offset = v2.offset /\ b.backlog = v2.backlog
    BY <1>6, <1>7 DEF MV
  <1>11. Grew(a, b, E)
    BY <1>2, <1>8, <1>9, <1>10 DEF Grew
  <1>12. ASSUME NEW x \in States, Arrives(a, x) PROVE Arrives(b, Replayed(x, E))
    <2>1. Arrives(v, x)
      BY <1>6, <1>12 DEF Arrives, MV
    <2>2. Arrives(v1, Replayed(x, E))
      BY <2>1 DEF Carries
    <2> QED BY <1>5, <1>7, <2>2 DEF Arrives, MV
  <1>13. a.runid = b.runid /\ a.reused = b.reused /\ a.backlog # None /\ b.backlog # None
    BY <1>4, <1>5, <1>6, <1>7 DEF MV
  <1>14. Moves(a, b, E)
    BY <1>8, <1>11, <1>12, <1>13 DEF Moves
  <1> QED BY <1>2, <1>3, <1>4, <1>6, <1>7, <1>14 DEF FedBy

LEMMA WriteMoves ==
    ASSUME NEW v \in Server, v.backlog # None, BacklogOK(v), NEW v1 \in Server, v1.runid = v.runid,
           v1.reused = v.reused, v1.offset = v.offset, v1.backlog = v.backlog, NEW db \in Dbs, NEW id \in Nat,
           v1.data = Append(v.data, <<id, db>>), v1.seldb = db,
           NEW E, E = Selected(v.seldb, db) \o Halves(id), NEW v2, v2 = feedReplicationBacklog(v1, E)
    PROVE  FedBy(v, v1, v2, E) /\ E \in Seq(Units)
  <1>1. PICK A \in Seq(Units) : A = Selected(v.seldb, db)
    <2>1. <<>> \in Seq(Units) /\ <<Sel(db)>> \in Seq(Units)
      BY UnitsOfACommand
    <2>2. Selected(v.seldb, db) \in Seq(Units)
      BY <2>1 DEF Selected
    <2> QED BY <2>2
  <1>2. PICK B \in Seq(Units) : B = Halves(id)
    BY UnitsOfACommand
  <1>3. A \o B \in Seq(Units)
    BY ConcatProperties
  <1>4. E \in Seq(Units)
    BY <1>1, <1>2, <1>3
  <1>5. ASSUME NEW x \in States, Arrives(v, x) PROVE Arrives(v1, Replayed(x, E))
    BY <1>5, WriteArrives
  <1>6. Carries(v, v1, E)
    BY <1>5 DEF Carries
  <1>7. FedBy(v, v1, v2, E)
    BY ONLY <1>4, <1>6, v \in Server, v1 \in Server, v.backlog # None, BacklogOK(v), v1.runid = v.runid, v1.reused = v.reused,
       v1.offset = v.offset, v1.backlog = v.backlog, v2 = feedReplicationBacklog(v1, E), FeedMoves
  <1> QED BY <1>4, <1>7

LEMMA PingMoves ==
    ASSUME NEW v \in Server, v.backlog # None, BacklogOK(v), NEW v2, v2 = feedReplicationBacklog(v, <<Ping>>)
    PROVE  FedBy(v, v, v2, <<Ping>>)
  <1>1. PICK E \in Seq(Units) : E = <<Ping>>
    <2>1. <<Ping>> \in Seq(Units)
      BY SizesAssumption, UnitsOfACommand
    <2> QED BY <2>1
  <1>2. ASSUME NEW x \in States, Arrives(v, x) PROVE Arrives(v, Replayed(x, E))
    BY <1>1, <1>2, PingArrives
  <1>3. v2 = feedReplicationBacklog(v, E) /\ Carries(v, v, E)
    BY <1>1, <1>2 DEF Carries
  <1>4. FedBy(v, v, v2, E)
    BY ONLY <1>3, E \in Seq(Units), v \in Server, v.backlog # None, BacklogOK(v), FeedMoves
  <1> QED BY <1>1, <1>4

\* Nothing of the stream changes; the next command may be preceded by a SELECT.
LEMMA StillMoves ==
    ASSUME NEW v, v.backlog # None, BacklogOK(v), NEW v2, v2.runid = v.runid, v2.reused = v.reused, v2.offset = v.offset,
           v2.backlog = v.backlog, v2.data = v.data, v2.seldb = v.seldb \/ v2.seldb = -1
    PROVE  Moves(MV(v), MV(v2), <<>>)
  <1>1. PICK a : a = MV(v)
    OBVIOUS
  <1>2. PICK b : b = MV(v2)
    OBVIOUS
  <1>3. BacklogOK(a) /\ BacklogOK(b)
    BY <1>1, <1>2 DEF BacklogOK, MV, HU
  <1>4. \A p : HU(a, p) = HU(b, p)
    BY <1>1, <1>2 DEF HU, MV
  <1>5. a.offset = b.offset /\ a.backlog = b.backlog /\ a.runid = b.runid /\ a.reused = b.reused /\ a.data = b.data
        /\ (b.seldb = a.seldb \/ b.seldb = -1) /\ a.backlog # None
    BY <1>1, <1>2 DEF MV
  <1>6. Len(<<>>) = 0 /\ <<>> \in Seq(Units) /\ a.offset \in Nat /\ a.backlog.off \in Nat
    BY <1>3 DEF BacklogOK, Backlogs
  <1>7. Grew(a, b, <<>>)
    BY <1>3, <1>4, <1>5, <1>6 DEF Grew
  <1>8. ASSUME NEW x \in States, Arrives(a, x) PROVE Arrives(b, Replayed(x, <<>>))
    BY <1>5, <1>8, ReplayedEmpty DEF Arrives
  <1>9. Moves(a, b, <<>>)
    BY <1>3, <1>5, <1>6, <1>7, <1>8 DEF Moves
  <1> QED BY <1>1, <1>2, <1>9

LEMMA SameKeeps ==
    ASSUME NEW v
    PROVE  Keeps(v, v)
  BY DEF Keeps
============================================================================
