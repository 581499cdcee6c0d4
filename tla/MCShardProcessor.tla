-------------------------- MODULE MCShardProcessor --------------------------
(* ShardProcessor on small instances: items of two flows in two bands.     *)
EXTENDS ShardProcessor, FiniteSetsExt

CONSTANTS i1, i2, i3, f1, f2

\* Two items of the low band's flow, one of the high band's.
MCFlowOf == [i \in Items |-> IF i = i3 THEN f1 ELSE f2]
MCSize(i) == IF i = i2 THEN 2 ELSE 1
MCBytes == [S \in SUBSET Items |-> MapThenSumSet(MCSize, S)]
MCBandOf == [f \in Flows |-> IF f = f1 THEN 1 ELSE 2]
MCBandCapRequests == <<0, 2>>
MCBandCapBytes == <<1, 0>>
=============================================================================
