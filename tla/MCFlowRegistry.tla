-------------------------- MODULE MCFlowRegistry --------------------------
(***************************************************************************)
(* Small instances of FlowRegistry: one flow of a priority that is not     *)
(* configured, two goroutines, a shard that is added and drained.          *)
(***************************************************************************)
EXTENDS FlowRegistry, TLC

CONSTANTS f1, lo, c1, c2

MCPrioOf == [f \in Flows |-> lo]
Symmetric == Permutations(Clients)
=============================================================================
