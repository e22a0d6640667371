------------------------------ MODULE MCAgent ------------------------------
(* An instance of Agent for TLC. *)
EXTENDS Agent

\* Contents of agent.yaml: the degenerate ones, those for which every sample fits
\* (the shipped proportion, maxSnapshots = snapshotSize, included) and those for
\* which the ring wraps, some more than twice.
MCConfigs == [snapshotSize : 0..2, maxSnapshots : 0..5]
               \cup {[snapshotSize |-> 3, maxSnapshots |-> 3], [snapshotSize |-> 3, maxSnapshots |-> 4]}
=============================================================================
