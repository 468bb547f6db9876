------------------------------ MODULE WakeSearch ------------------------------
(***************************************************************************)
(* The two recursive searches of StorageSystemImpl, wakeChain and          *)
(* wakeCycle, as the recursive procedures they are, and their agreement    *)
(* with the relations IsWakeChain and IsWakeCycle that StorageSystem uses. *)
(* A result is the list of FrozenTransfers the call wakes, outermost first *)
(* (a caller gets the semaphore of the first and gives its own to the      *)
(* last); <<>> stands for the null the code returns.                       *)
(***************************************************************************)
EXTENDS StorageSystem

RECURSIVE wakeChain(_, _)

\* Fault: the search takes the newest transfer of the queue, not the oldest.
wakeChainLast(start, queues) ==
  IF start = NoDevice \/ queues[start] = <<>> THEN <<>>
  ELSE LET ft == Last(queues[start])
       IN  <<ft>> \o wakeChain(req[ft].src, [queues EXCEPT ![start] = Front(@)])

wakeChain(start, queues) ==
  IF start = NoDevice \/ queues[start] = <<>> THEN <<>>
  ELSE LET ft == Head(queues[start])
       IN  <<ft>> \o wakeChain(req[ft].src, [queues EXCEPT ![start] = Tail(@)])

\* visited is a reference in the code: a call returns what it has grown to.
Found(woken, visited) == [woken |-> woken, visited |-> visited]

RECURSIVE wakeCycle(_, _, _)
RECURSIVE VisitEach(_, _, _)

\* Fault: a queue is searched no further than its first unvisited transfer.
VisitFirst(rest, visited, target) ==
  IF rest = <<>> THEN Found(<<>>, visited)
  ELSE LET ft == Head(rest) IN
       IF ft \in visited THEN VisitEach(Tail(rest), visited, target)
       ELSE IF req[ft].src = target THEN Found(<<ft>>, visited \cup {ft})
       ELSE LET deeper == wakeCycle(req[ft].src, visited \cup {ft}, target)
            IN  IF deeper.woken = <<>> THEN deeper
                ELSE Found(<<ft>> \o deeper.woken, deeper.visited)

\* The loop of wakeCycle over what is left of one queue.
VisitEach(rest, visited, target) ==
  IF rest = <<>> THEN Found(<<>>, visited)
  ELSE LET ft == Head(rest) IN
       IF ft \in visited THEN VisitEach(Tail(rest), visited, target)
       ELSE IF req[ft].src = target THEN Found(<<ft>>, visited \cup {ft})
       ELSE LET deeper == wakeCycle(req[ft].src, visited \cup {ft}, target)
            IN  IF deeper.woken = <<>>
                  THEN VisitEach(Tail(rest), deeper.visited, target)
                  ELSE Found(<<ft>> \o deeper.woken, deeper.visited)

wakeCycle(start, visited, target) ==
  IF start = NoDevice THEN Found(<<>>, visited)
  ELSE VisitEach(waitingTransfers[start], visited, target)
-----------------------------------------------------------------------------
\* wakeChain wakes exactly the chain of queue heads that IsWakeChain describes,
\* though it polls the queues while it descends and links the semaphores on the
\* way back (lines 208-220).
ChainAgrees ==
  \A start \in Places :
    {s \in WaiterLists : IsWakeChain(start, s)} = {wakeChain(start, waitingTransfers)}

\* wakeCycle finds a cycle whenever there is one, though a transfer in visited is
\* never looked at again, and the cycle it wakes is the first in queue order
\* (lines 223-247).
CycleAgrees ==
  \A start, target \in Devices :
    start # target =>
      LET found == wakeCycle(start, {}, target).woken
      IN  {s \in WaiterLists : IsWakeCycle(start, target, s)}
            = IF found = <<>> THEN {} ELSE {found}
=============================================================================
