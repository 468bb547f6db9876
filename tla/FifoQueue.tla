------------------------------ MODULE FifoQueue ------------------------------
(***************************************************************************)
(* What the four queues of PW/projekt3 promise (readme.md, lines 8-9 and   *)
(* 17): push, pop and is_empty behave as if they were indivisible.  An     *)
(* operation is called, takes effect at one moment and returns.  A pop     *)
(* that returns EMPTY_VALUE, or an is_empty, must have seen its answer at  *)
(* some moment between its call and its return: seen[t] collects whether   *)
(* the queue was empty at the moments of the operation that t runs.        *)
(***************************************************************************)
EXTENDS Sequences

CONSTANTS Threads, Values, EMPTY_VALUE, None

VARIABLES
  queue,   \* the values in the queue, oldest first
  call,    \* call[t]: the operation t runs, and its argument or its result
  seen

vars == <<queue, call, seen>>

Idle == [op |-> "idle", val |-> None]

Init ==
  /\ queue = <<>>
  /\ call = [t \in Threads |-> Idle]
  /\ seen = [t \in Threads |-> {}]

\* The history: what each running operation has seen of the queue.
Witness ==
  seen' = [t \in Threads |->
             IF call'[t] = Idle THEN {}
             ELSE (IF call[t] = Idle THEN {} ELSE seen[t]) \cup {queue' = <<>>}]

Becomes(t, op, val) == call' = [call EXCEPT ![t] = [op |-> op, val |-> val]]

Invoke(t) ==
  /\ call[t] = Idle
  /\ \/ \E v \in Values : Becomes(t, "push", v)
     \/ Becomes(t, "pop", None)
     \/ Becomes(t, "is_empty", None)
  /\ UNCHANGED queue

Push(t) ==
  /\ call[t].op = "push"
  /\ queue' = Append(queue, call[t].val)
  /\ Becomes(t, "pushed", None)

Pop(t) ==
  /\ call[t].op = "pop"
  /\ queue # <<>>
  /\ queue' = Tail(queue)
  /\ Becomes(t, "popped", Head(queue))

PopEmpty(t) ==
  /\ call[t].op = "pop"
  /\ TRUE \in seen[t]
  /\ Becomes(t, "popped", EMPTY_VALUE)
  /\ UNCHANGED queue

IsEmpty(t) ==
  /\ call[t].op = "is_empty"
  /\ \E answer \in seen[t] : Becomes(t, "answered", answer)
  /\ UNCHANGED queue

Return(t) ==
  /\ call[t].op \in {"pushed", "popped", "answered"}
  /\ call' = [call EXCEPT ![t] = Idle]
  /\ UNCHANGED queue

Step(t) == Invoke(t) \/ Push(t) \/ Pop(t) \/ PopEmpty(t) \/ IsEmpty(t) \/ Return(t)

Next == /\ \E t \in Threads : Step(t)
        /\ Witness

Spec == Init /\ [][Next]_vars
=============================================================================
