------------------------------- MODULE RowSums -------------------------------
(***************************************************************************)
(* The row sums of a matrix in PW/mikro/java, three ways:                   *)
(*   barrier   a thread for each column and a CyclicBarrier whose action    *)
(*             adds up the row (MatrixRowSumsConcurrent)                    *)
(*   map       a thread for each column that adds to an AtomicInteger in a  *)
(*             ConcurrentHashMap (MatrixRowSumsThreadsafe)                  *)
(*   pool      a job for each cell on a pool of threads (...Threadpool)     *)
(* Threads that are interrupted are left out.                               *)
(***************************************************************************)
EXTENDS Integers, FiniteSetsExt

CONSTANTS numRows, numColumns

VARIABLES pc, shared     \* shared: sums, row, and per thread its row, cell or number of futures

vars == <<pc, shared>>

Rows == 0..numRows - 1
Columns == 0..numColumns - 1
Main == numColumns
Cells == 0..numRows * numColumns - 1

definition(r, c) == LET a == 2 * c + 1 IN (r + 1) * ((a % 4) - 2) * a

Init ==
  /\ pc = [t \in Columns \cup {Main} |-> "start"]
  /\ \E v \in {"barrier", "map", "pool"} :
       shared = [variant |-> v, sums |-> [r \in (IF v = "map" THEN {} ELSE Rows) |-> 0],
                 row |-> [c \in Columns |-> 0], at |-> [t \in Columns \cup {Main} |-> 0],
                 next |-> 0, result |-> [i \in {} |-> 0]]

Goto(t, label) == pc' = [pc EXCEPT ![t] = label]

\* PerColumnDefinitionApplier.run with the barrier: the last to come runs RowSummer,
\* then all go on.
Apply(c) ==
  /\ shared.variant = "barrier" /\ pc[c] = "start"
  /\ shared' = [shared EXCEPT !.row[c] = definition(shared.at[c], c)]
  /\ Goto(c, "await")

\* Fault: the last to come does not wait for the sums to be made.
AwaitLate(c) ==
  /\ pc[c] = "await"
  /\ shared' = [shared EXCEPT !.at[c] = @ + 1,
                  !.sums[shared.at[c]] = MapThenSumSet(LAMBDA k : shared.row[k], Columns)]
  /\ Goto(c, IF shared.at[c] + 1 = numRows THEN "done" ELSE "start")

Await(c) ==
  /\ pc[c] = "await"
  /\ IF \E k \in Columns \ {c} : pc[k] # "arrived" THEN Goto(c, "arrived") /\ UNCHANGED shared
     ELSE /\ shared' = [shared EXCEPT
               !.sums[shared.at[c]] = @ + MapThenSumSet(LAMBDA k : shared.row[k], Columns),
               !.at = [t \in DOMAIN @ |-> IF t = Main THEN @[t] ELSE @[t] + 1]]
          /\ pc' = [t \in DOMAIN pc |-> CASE t = Main -> pc[t]
                                          [] shared.at[c] + 1 = numRows -> "done"
                                          [] OTHER -> "start"]

\* PerColumnDefinitionApplier.run with the map: computeIfAbsent, then addAndGet.
ComputeIfAbsent(c) ==
  /\ shared.variant = "map" /\ pc[c] = "start"
  /\ shared' = [shared EXCEPT !.sums = [r \in DOMAIN @ \cup {shared.at[c]} |->
                                          IF r \in DOMAIN @ THEN @[r] ELSE 0]]
  /\ Goto(c, "add")

AddAndGet(c) ==
  /\ pc[c] = "add"
  /\ shared' = [shared EXCEPT !.sums[shared.at[c]] = @ + definition(shared.at[c], c), !.at[c] = @ + 1]
  /\ Goto(c, IF shared.at[c] + 1 = numRows THEN "done" ELSE "start")

\* A thread of the pool takes the next job, and later its future is complete.
TakeJob(t) ==
  /\ shared.variant = "pool" /\ pc[t] = "start"
  /\ IF shared.next \in Cells
     THEN shared' = [shared EXCEPT !.at[t] = shared.next, !.next = @ + 1] /\ Goto(t, "job")
     ELSE Goto(t, "done") /\ UNCHANGED shared

Call(t) ==
  LET i == shared.at[t] IN
  /\ pc[t] = "job" /\ Goto(t, "start")
  /\ shared' = [shared EXCEPT !.result = [k \in DOMAIN @ \cup {i} |->
                  IF k = i THEN definition(i \div numColumns, i % numColumns) ELSE @[k]]]

\* rowSums: the future of each cell is waited for in turn; the others join.
MainStep ==
  LET i == shared.at[Main] IN
  /\ pc[Main] = "start"
  /\ IF shared.variant = "pool" /\ i \in Cells
     THEN /\ i \in DOMAIN shared.result
          /\ shared' = [shared EXCEPT !.sums[i \div numColumns] = @ + shared.result[i], !.at[Main] = @ + 1]
          /\ UNCHANGED pc
     ELSE /\ shared.variant # "pool" => \A c \in Columns : pc[c] = "done"
          /\ Goto(Main, "done") /\ UNCHANGED shared

Step(t) == IF t = Main THEN MainStep
           ELSE Apply(t) \/ Await(t) \/ ComputeIfAbsent(t) \/ AddAndGet(t) \/ TakeJob(t) \/ Call(t)

Next == \E t \in DOMAIN pc : Step(t)

Done == \A t \in DOMAIN pc : pc[t] = "done"
-----------------------------------------------------------------------------
\* What main returns are the sums of the rows.
SumsRight ==
  pc[Main] = "done" =>
    shared.sums = [r \in Rows |-> MapThenSumSet(LAMBDA c : definition(r, c), Columns)]
=============================================================================
