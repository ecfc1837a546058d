---------------------------- MODULE MCCollector ----------------------------
(* Collector for TLC: which instances the runs check.                      *)
EXTENDS Collector, TLC

SameKeys == Permutations(StreamKeys)

RemovalFaults == {"rm"}
Noon == <<1, 0>>
Evening == <<1, 0>>
=============================================================================
