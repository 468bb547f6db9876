----------------------------- MODULE MCRingsQueue -----------------------------
(* A list of at most two buffers and its first node, so that pushes and pops
   cross from one node to the next while others are in the middle of theirs.  *)
EXTENDS RingsQueue, TLC

Symmetry == Permutations(Threads) \cup Permutations(Nodes) \cup Permutations(Values)
=============================================================================
