--------------------------- MODULE MCClusterSlots ---------------------------
(* Three masters; the first owns the slot, with a time to live on one key.  *)
EXTENDS ClusterSlots, TLC

View(n, db, epoch) ==
  [db |-> IF n = 1 THEN db ELSE <<>>, owner |-> 1, cepoch |-> epoch, cur |-> Max({epoch[m] : m \in Nodes}),
   importing |-> Null, migrating |-> Null]
Start(db, epoch) == [n \in Nodes |-> View(n, db, epoch)]
Left(writes, moves, fixes, stops, faults, restarts) ==
  [writes |-> writes, moves |-> moves, fixes |-> fixes, stops |-> stops, faults |-> faults, restarts |-> restarts]

Both == (1 :> [v |-> 8, ttl |-> TRUE]) @@ (2 :> [v |-> 9, ttl |-> FALSE])
One == 1 :> [v |-> 8, ttl |-> FALSE]
Epochs == [n \in Nodes |-> n]

\* Clients while redis-trib is stopped and fixes; a socket that fails; restarts; two moves
\* in a row; a slot that nobody owns although a node has its keys.
Unassigned == [n \in Nodes |-> [View(n, Both, Epochs) EXCEPT !.owner = Null]]
Scene(node0, left0) == [node |-> node0, left |-> left0]
MCScenes ==
  {Scene(Start(Both, Epochs), Left(2, 1, 1, 1, 0, 0)), Scene(Start(Both, Epochs), Left(1, 1, 1, 1, 1, 0)),
   Scene(Start(Both, Epochs), Left(1, 1, 1, 0, 2, 0)), Scene(Start(Both, Epochs), Left(1, 1, 1, 0, 0, 1)), 
   Scene(Start(One, Epochs), Left(1, 2, 0, 0, 0, 0)), Scene(Unassigned, Left(1, 0, 0, 0, 0, 1))}

EpochScenes == {Scene(Start(One, Epochs), Left(0, 2, 0, 0, 0, 0))}
FaultScenes == {Scene(Start(Both, Epochs), Left(0, 1, 0, 0, 1, 0))}
=============================================================================
