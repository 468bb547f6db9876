------------------------------- MODULE Dekker -------------------------------
(***************************************************************************)
(* PW/mikro/c/11/dekker.c: Dekker's algorithm for two threads.  Every       *)
(* atomic operation is a step, and so is every access to the volatile x.    *)
(***************************************************************************)
EXTENDS Integers

CONSTANT counter         \* how often each thread enters its critical section

VARIABLES pc, shared     \* shared: the globals, and each thread's i and y

vars == <<pc, shared>>

Init ==
  /\ pc = [nr \in {0, 1} |-> "want"]
  /\ shared = [wants |-> [nr \in {0, 1} |-> 0], priority |-> 0, x |-> 0,
               i |-> [nr \in {0, 1} |-> 0], y |-> [nr \in {0, 1} |-> 0]]

Goto(nr, label) == pc' = [pc EXCEPT ![nr] = label]

\* Fault: wants[nr] is not raised again after the other's turn.
entry_protocolLowered(nr) ==
  LET other == 1 - nr IN
  \/ pc[nr] = "want" /\ shared' = [shared EXCEPT !.wants[nr] = 1] /\ Goto(nr, "test")
  \/ /\ pc[nr] = "test" /\ UNCHANGED shared
     /\ Goto(nr, IF shared.wants[other] = 1 THEN "turn" ELSE "read")
  \/ pc[nr] = "turn" /\ Goto(nr, IF shared.priority = other THEN "yield" ELSE "test") /\ UNCHANGED shared
  \/ pc[nr] = "yield" /\ shared' = [shared EXCEPT !.wants[nr] = 0] /\ Goto(nr, "spin")
  \/ pc[nr] = "spin" /\ shared.priority = nr /\ Goto(nr, "test") /\ UNCHANGED shared

\* The busy wait of the inner loop is a step that is enabled when it ends.
entry_protocol(nr) ==
  LET other == 1 - nr IN
  \/ pc[nr] = "want" /\ shared' = [shared EXCEPT !.wants[nr] = 1] /\ Goto(nr, "test")
  \/ /\ pc[nr] = "test" /\ UNCHANGED shared
     /\ Goto(nr, IF shared.wants[other] = 1 THEN "turn" ELSE "read")
  \/ pc[nr] = "turn" /\ Goto(nr, IF shared.priority = other THEN "yield" ELSE "test") /\ UNCHANGED shared
  \/ pc[nr] = "yield" /\ shared' = [shared EXCEPT !.wants[nr] = 0] /\ Goto(nr, "spin")
  \/ pc[nr] = "spin" /\ shared.priority = nr /\ Goto(nr, "want") /\ UNCHANGED shared

critical_section(nr) ==
  \/ pc[nr] = "read" /\ shared' = [shared EXCEPT !.y[nr] = shared.x] /\ Goto(nr, "write")
  \/ pc[nr] = "write" /\ shared' = [shared EXCEPT !.x = shared.y[nr] + 1] /\ Goto(nr, "leave")

exit_protocol(nr) ==
  \/ pc[nr] = "leave" /\ shared' = [shared EXCEPT !.wants[nr] = 0] /\ Goto(nr, "pass")
  \/ /\ pc[nr] = "pass"
     /\ shared' = [shared EXCEPT !.priority = 1 - nr, !.i[nr] = @ + 1]
     /\ Goto(nr, IF shared.i[nr] + 1 < counter THEN "want" ELSE "done")

Step(nr) == entry_protocol(nr) \/ critical_section(nr) \/ exit_protocol(nr)

Next == \E nr \in {0, 1} : Step(nr)

Done == \A nr \in {0, 1} : pc[nr] = "done"
-----------------------------------------------------------------------------
\* One thread at a time is in its critical section, so no increment is lost.
NothingLost ==
  /\ ~\A nr \in {0, 1} : pc[nr] \in {"read", "write", "leave"}
  /\ Done => shared.x = 2 * counter
=============================================================================
