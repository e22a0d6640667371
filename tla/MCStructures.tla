--------------------------- MODULE MCStructures ---------------------------
(* One data structure at a time; the others stay as they were created. *)
EXTENDS SortedSets, Dict, Intset, Ziplist

VARIABLE structure

MCNumbers == {-40, -9, -8, -1, 0, 3, 7, 8, 50}
MCHalfRange == [n \in IntSizes |-> IF n = 8 THEN 2^15 ELSE 2^(2 * n - 1)]
MCElements == {[int |-> 0], [int |-> -3], [int |-> 200], [len |-> 3, name |-> "m"], [len |-> 16384, name |-> "b"]}

Init == ZInit /\ DInit /\ IInit /\ LInit /\ structure \in {"zset", "dict", "intset", "ziplist"}

Next == /\ UNCHANGED structure
        /\ \/ structure = "zset" /\ ZNext /\ UNCHANGED <<dvars, ivars, lvars>>
           \/ structure = "dict" /\ DNext /\ UNCHANGED <<zvars, ivars, lvars>>
           \/ structure = "intset" /\ INext /\ UNCHANGED <<zvars, dvars, lvars>>
           \/ structure = "ziplist" /\ LNext /\ UNCHANGED <<zvars, dvars, ivars>>

Spec == Init /\ [][Next]_<<zvars, dvars, ivars, lvars, structure>>
===========================================================================
