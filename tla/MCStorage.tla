------------------------------ MODULE MCStorage ------------------------------
(* Small storage systems for TLC. *)
EXTENDS StorageSystem, TLC

CONSTANTS a, b, c

OneSlotEach == [d \in Devices |-> 1]

Symmetry == Permutations(Threads) \cup Permutations(Components)
              \cup Permutations(Devices)

(* For liveness: each caller moves a component of its own and every call is a
   legal one; one component comes and goes, the other two only move about.  That
   leaves all the hand-over patterns and removes the refused calls and the
   permutations of callers.                                                  *)
CONSTANTS t1, t2, t3, x, y, z, w

Own == [t \in Threads |-> IF t = t1 THEN x ELSE IF t = t2 THEN y ELSE z]

Roams(q) == IF q = x THEN {a, b, NoDevice} ELSE {a, b, c}

PinnedInit == Init /\ \A q \in Components : componentPlacement[q] \in Roams(q)

PinnedNext ==
  /\ Next
  /\ \A t \in Threads :
       pc'[t] = "idle" \/ (req'[t].comp = Own[t] /\ req'[t].dst \in Roams(Own[t]))

PinnedSpec == PinnedInit /\ [][PinnedNext]_vars /\ Fairness
=============================================================================
