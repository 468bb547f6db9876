---------------------------- MODULE HazardPointer ----------------------------
(***************************************************************************)
(* HazardPointer.c of PW/projekt3, as the lock-free queues of one program  *)
(* use it: pointer[t] is the address thread t has reserved, retired[t] the *)
(* addresses it still has to free.  HazardPointer_retire looks at the      *)
(* reservations of the other threads one by one; it is called from pop,    *)
(* and scan[t] says how far the call of t has got.                         *)
(***************************************************************************)
EXTENDS Naturals

CONSTANTS
  num_threads,
  RETIRED_THRESHOLD,
  Nodes, Null

ASSUME HazardPointerAssumption ==
  /\ num_threads \in Nat \ {0}
  /\ RETIRED_THRESHOLD \in Nat \ {0}
  /\ Null \notin Nodes

Threads == 0..(num_threads - 1)

\* _retired of one thread: it has room for the own reservation besides the threshold.
Row(t) == 0..RETIRED_THRESHOLD

VARIABLES
  pointer,
  retired,      \* retired[t][i]: _retired[t][i]
  scan,         \* scan[t]: _retired_count and the locals of HazardPointer_retire
  allocated     \* the nodes malloc has returned and free has not got back

hpVars == <<pointer, retired, scan>>

HPInit ==
  /\ pointer = [t \in Threads |-> Null]
  /\ retired = [t \in Threads |-> [i \in Row(t) |-> Null]]
  /\ scan = [t \in Threads |-> [pc |-> "out", count |-> 0, i |-> 0, j |-> 0, rptr |-> Null]]

\* HazardPointer_protect, given the address of a local variable that holds p:
\* what it reads again is p.
Protect(t, p) ==
  /\ pointer' = [pointer EXCEPT ![t] = p]
  /\ UNCHANGED <<retired, scan>>

\* Lines 62-66: the call either stores ptr at once or starts a scan.
Retire(t, ptr) ==
  /\ scan[t].pc = "out"
  /\ IF scan[t].count < RETIRED_THRESHOLD
       THEN /\ retired' = [retired EXCEPT ![t][scan[t].count] = ptr]
            /\ scan' = [scan EXCEPT ![t].count = @ + 1]
       ELSE /\ retired' = [retired EXCEPT ![t][0] = Null]
            /\ scan' = [scan EXCEPT ![t] = [pc |-> "scan", count |-> 0, i |-> 0, j |-> 0,
                                            rptr |-> retired[t][0]]]
  /\ UNCHANGED <<pointer, allocated>>

\* The next round of the loop of line 64, or its end.
NextRetired(t) ==
  LET i == scan[t].i + 1 IN
  IF i < RETIRED_THRESHOLD
    THEN /\ scan' = [scan EXCEPT ![t].i = i, ![t].j = 0, ![t].rptr = retired[t][i]]
         /\ retired' = [retired EXCEPT ![t][i] = Null]
    ELSE /\ scan' = [scan EXCEPT ![t].pc = "store"]
         /\ UNCHANGED retired

\* Line 69: one load of a reservation.  A reserved address is dropped from the
\* array, an address that nobody has reserved is freed.
ScanPointer(t) ==
  LET j == scan[t].j
      rptr == scan[t].rptr
  IN  /\ scan[t].pc = "scan"
      /\ \/ pointer[j] = rptr /\ NextRetired(t) /\ UNCHANGED allocated
         \/ /\ pointer[j] # rptr /\ j + 1 < num_threads
            /\ scan' = [scan EXCEPT ![t].j = j + 1]
            /\ UNCHANGED <<retired, allocated>>
         \/ /\ pointer[j] # rptr /\ j + 1 = num_threads
            /\ allocated' = allocated \ {rptr}
            /\ NextRetired(t)
      /\ UNCHANGED pointer

\* Lines 78-83: the own reservation goes first into the emptied array, then ptr.
RetireStore(t, ptr) ==
  LET own == pointer[t]
      k == IF own = Null THEN 0 ELSE 1
  IN  /\ scan[t].pc = "store"
      /\ retired' = [retired EXCEPT ![t][0] = own, ![t][k] = ptr]
      /\ scan' = [scan EXCEPT ![t] = [pc |-> "out", count |-> k + 1, i |-> 0, j |-> 0,
                                      rptr |-> Null]]
      /\ UNCHANGED <<pointer, allocated>>

\* What HazardPointer_finalize frees.
Retired == {retired[t][i] : t \in Threads, i \in 0..(RETIRED_THRESHOLD - 1)} \ {Null}

HPFinalize ==
  /\ pointer' = [t \in Threads |-> Null]
  /\ retired' = [t \in Threads |-> [i \in Row(t) |-> Null]]
  /\ UNCHANGED scan

\* The part of the type invariant of LLQueue and BLQueue that is about this module.
HPTypeOK ==
  /\ pointer \in [Threads -> Nodes \cup {Null}]
  /\ DOMAIN retired = Threads
  /\ \A t \in Threads : retired[t] \in [Row(t) -> Nodes \cup {Null}]
  /\ scan \in [Threads -> [pc : {"out", "scan", "store"}, count : 0..(RETIRED_THRESHOLD + 1),
                           i : 0..RETIRED_THRESHOLD, j : Threads, rptr : Nodes \cup {Null}]]
  /\ allocated \subseteq Nodes
=============================================================================
