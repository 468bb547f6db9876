-------------------------------- MODULE Gifts --------------------------------
(***************************************************************************)
(* PW/mikro/c/9/gifts.c: elves put gifts into a storage of BUFFSIZE places  *)
(* and reindeers take them, with semaphores in shared memory.  What lies    *)
(* between sem_wait(mutex) and sem_post(mutex) is one step.                 *)
(***************************************************************************)
EXTENDS Integers, Sequences, SequencesExt

CONSTANTS N_ELFS, N_REINDEERS, BUFFSIZE, LOOPS

VARIABLES pc, shared     \* shared: the SharedStorage, and the gifts put and taken so far

vars == <<pc, shared>>

Elfs == 0..N_ELFS - 1
Reindeers == N_ELFS..N_ELFS + N_REINDEERS - 1

Init ==
  /\ pc = [p \in Elfs |-> "produce"] @@ [p \in Reindeers |-> "wait"]
  /\ shared = [buff |-> [i \in 0..BUFFSIZE - 1 |-> <<>>], begin |-> 0, end |-> 0,
               free |-> BUFFSIZE, filled |-> 0, toDeliver |-> LOOPS * N_ELFS - 1,
               made |-> [e \in Elfs |-> 0], put |-> <<>>, taken |-> <<>>]

Goto(p, label) == pc' = [pc EXCEPT ![p] = label]

\* elf_main: wait for a free slot, enqueue, post a filled one.
WaitFree(e) ==
  /\ pc[e] = "produce" /\ shared.free > 0
  /\ shared' = [shared EXCEPT !.free = @ - 1] /\ Goto(e, "enqueue")

Enqueue(e) ==
  LET gift == <<e, shared.made[e]>> IN
  /\ pc[e] = "enqueue"
  /\ shared' = [shared EXCEPT !.buff[shared.end] = gift, !.end = (@ + 1) % BUFFSIZE,
                              !.made[e] = @ + 1, !.put = Append(@, gift)]
  /\ Goto(e, "post")

PostFilled(e) ==
  /\ pc[e] = "post"
  /\ shared' = [shared EXCEPT !.filled = @ + 1]
  /\ Goto(e, IF shared.made[e] < LOOPS THEN "produce" ELSE "done")

\* reindeer_main: wait for a filled slot, take the gift or go home.
WaitFilled(r) ==
  /\ pc[r] = "wait" /\ shared.filled > 0
  /\ shared' = [shared EXCEPT !.filled = @ - 1] /\ Goto(r, "look")

Take(r) ==
  /\ pc[r] = "look"
  /\ IF shared.toDeliver <= 0 THEN Goto(r, "home") /\ UNCHANGED shared
     ELSE /\ shared' = [shared EXCEPT !.toDeliver = @ - 1, !.begin = (@ + 1) % BUFFSIZE,
                                      !.taken = Append(@, shared.buff[shared.begin])]
          /\ Goto(r, "free")

PostFree(r) == pc[r] = "free" /\ shared' = [shared EXCEPT !.free = @ + 1] /\ Goto(r, "wait")

\* Who goes home lets the next one in.
GoHome(r) == pc[r] = "home" /\ shared' = [shared EXCEPT !.filled = @ + 1] /\ Goto(r, "done")

Step(p) == \/ p \in Elfs /\ (WaitFree(p) \/ Enqueue(p) \/ PostFilled(p))
           \/ p \in Reindeers /\ (WaitFilled(p) \/ Take(p) \/ PostFree(p) \/ GoHome(p))

Next == \E p \in DOMAIN pc : Step(p)

\* main has waited for everybody, and its assertion holds.
Done == (\A p \in DOMAIN pc : pc[p] = "done") /\ shared.toDeliver = 0
-----------------------------------------------------------------------------
\* Gifts are taken in the order in which they were put, each once, and none is
\* written over.
GiftsInOrder == IsPrefix(shared.taken, shared.put) /\ Len(shared.put) - Len(shared.taken) <= BUFFSIZE
=============================================================================
