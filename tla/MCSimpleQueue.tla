---------------------------- MODULE MCSimpleQueue ----------------------------
(* Three threads that push, pop and ask, with few addresses, so that malloc
   returns freed ones.                                                       *)
EXTENDS SimpleQueue, TLC

Symmetry == Permutations(Threads) \cup Permutations(Nodes) \cup Permutations(Values)
=============================================================================
