----------------------------- MODULE MCCluster ------------------------------
(* Three masters and a slave of the first, or two masters and two slaves of *)
(* the first, with what may happen to each.                                 *)
EXTENDS Cluster, TLC

ThreeMasters(m) ==
    [master |-> (1 :> 0 @@ 2 :> 0 @@ 3 :> 0 @@ 4 :> 1), epoch |-> (1 :> 1 @@ 2 :> 2 @@ 3 :> 3 @@ 4 :> 0),
     owner |-> (1 :> 1 @@ 2 :> 2 @@ 3 :> 3), may |-> m]
TwoMasters(m) ==
    [master |-> (1 :> 0 @@ 2 :> 0 @@ 3 :> 1 @@ 4 :> 1), epoch |-> (1 :> 1 @@ 2 :> 3 @@ 3 :> 0 @@ 4 :> 0),
     owner |-> (1 :> 1 @@ 2 :> 2 @@ 3 :> 2), may |-> m]
Times(k, s) == [d \in Disturbances |-> IF d \in s THEN k ELSE 0]

FailoverScenarios ==
    {ThreeMasters(Times(1, {"cut", "takeover"})), ThreeMasters(Times(1, {"takeover", "restart"})),
     TwoMasters(Times(2, {"force"})), TwoMasters(Times(2, {"takeover"}))}

ElectionScenarios == {TwoMasters(Times(2, {"force", "restart"}))}
=============================================================================
