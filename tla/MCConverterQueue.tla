-------------------------- MODULE MCConverterQueue --------------------------
(* ConverterQueue for TLC: which instances the runs check.                 *)
EXTENDS ConverterQueue, TLC

SameKeys == Permutations(StreamKeys)

NoFaults == {}
LinkFaults == {"link"}
=============================================================================
