-------------------------- MODULE MC_ChainAnalyzer --------------------------
(* Instantiation of ChainAnalyzer for TLC: two slots per epoch, a rewind   *)
(* distance of one epoch, a chain that starts at slot FirstSlot.           *)
EXTENDS ChainAnalyzer

CONSTANTS w1, w2

MCWorkers == {w1}

MCTwoWorkers == {w1, w2}
=============================================================================
