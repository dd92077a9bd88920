------------------------- MODULE MCPlan44Coordinator -------------------------
(* Instances of the coordinator for TLC. *)
EXTENDS Plan44Coordinator, TLC

Symmetry == Permutations(Sock) \union Permutations(Forwarders) \union Permutations(Loops)
===============================================================================
