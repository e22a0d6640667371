----------------------------- MODULE MCSentinel -----------------------------
(* Sentinels that differ only in their names, for TLC.                     *)
EXTENDS Sentinel, TLC

Alike == Permutations(Sentinels)
=============================================================================
