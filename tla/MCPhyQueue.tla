----------------------------- MODULE MCPhyQueue -----------------------------
(***************************************************************************)
(* Instances of PhyQueue for TLC: a permanent operation and three that run *)
(* once, two of them of one priority.                                      *)
(***************************************************************************)
EXTENDS PhyQueue, TLC

CONSTANTS scan, low, twin, high

MCPriority == [op \in Ops |-> CASE op = scan -> PRIORITY_PERMANENT
                                [] op \in {low, twin} -> 1
                                [] op = high -> 2]

Symmetry == Permutations(Clients) \cup Permutations(Blocks)
=============================================================================
