---------------------------- MODULE BlockingQueue ----------------------------
(***************************************************************************)
(* PW/mikro/java/BlockingQueue.java with threads that put and take.  A      *)
(* synchronized method runs to its end or to wait() in one step; wait() may *)
(* return without a notification.                                           *)
(***************************************************************************)
EXTENDS Integers, Sequences

CONSTANTS Putters, Takers,   \* numbers of threads
          capacity, Each     \* Each: calls of a thread

VARIABLES pc, shared     \* shared: the queue, the items put and taken, calls left

vars == <<pc, shared>>

Threads == 0..Putters + Takers - 1

Init ==
  /\ pc = [t \in Threads |-> "call"]
  /\ shared = [queue |-> <<>>, added |-> <<>>, taken |-> <<>>, left |-> [t \in Threads |-> Each]]

\* notifyAll, and the call of t is over.
NotifyAll(t) ==
  pc' = [u \in Threads |->
           CASE u = t -> IF shared.left[t] = 1 THEN "done" ELSE "call"
             [] pc[u] = "waiting" -> "woken"
             [] OTHER -> pc[u]]

Wait(t) == pc' = [pc EXCEPT ![t] = "waiting"] /\ UNCHANGED shared

take(t) ==
  /\ pc[t] \in {"call", "woken"}
  /\ IF shared.queue = <<>> THEN Wait(t)
     ELSE /\ shared' = [shared EXCEPT !.queue = Tail(@), !.left[t] = @ - 1,
                                      !.taken = Append(@, Head(shared.queue))]
          /\ NotifyAll(t)

put(t) ==
  LET item == <<t, shared.left[t]>> IN
  /\ pc[t] \in {"call", "woken"}
  /\ IF Len(shared.queue) = capacity THEN Wait(t)
     ELSE /\ shared' = [shared EXCEPT !.queue = Append(@, item), !.left[t] = @ - 1,
                                      !.added = Append(@, item)]
          /\ NotifyAll(t)

Spurious(t) == pc[t] = "waiting" /\ pc' = [pc EXCEPT ![t] = "woken"] /\ UNCHANGED shared

Step(t) == IF t < Putters THEN put(t) ELSE take(t)

Next == \E t \in Threads : Step(t) \/ Spurious(t)

Done == \A t \in Threads : pc[t] = "done"
-----------------------------------------------------------------------------
\* Items leave in the order in which they came, and never more than capacity of
\* them are inside.
QueueInOrder == shared.added = shared.taken \o shared.queue /\ Len(shared.queue) <= capacity
=============================================================================
