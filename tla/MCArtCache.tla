----------------------------- MODULE MCArtCache -----------------------------
(* ArtCache for TLC: which instances the runs check.                       *)
EXTENDS ArtCache, TLC

Symmetry == Permutations(StreamKeys) \cup Permutations(Sources) \cup Permutations(Objects)

(* Removals that fail are left to Collector's run.                         *)
AllFaults == Calls \ {"rm"}
NoFaults == {}
=============================================================================
