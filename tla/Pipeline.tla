------------------------------ MODULE Pipeline ------------------------------
(***************************************************************************)
(* PW/mikro/c/7/pipeline.c: the parent starts Programs programs, each with  *)
(* its output in a pipe to the next.  A program ends when it has read its   *)
(* input to the end, which comes when nobody holds the writing end.         *)
(***************************************************************************)
EXTENDS Integers

CONSTANT Programs

VARIABLES pc, shared     \* shared: fds[p], the ends that p holds beside stdin and stdout;
                         \* std[p], the ends that are its stdin and stdout; i of the loop

vars == <<pc, shared>>

Children == 1..Programs
Parent == 0
R(i) == <<i, "read">>
W(i) == <<i, "write">>
Terminal == <<0, "terminal">>

Init ==
  /\ pc = [p \in {Parent} \cup Children |-> IF p = Parent THEN "pipe" ELSE "none"]
  /\ shared = [fds |-> [p \in {Parent} \cup Children |-> {}],
               std |-> [p \in {Parent} \cup Children |-> {Terminal}], i |-> 1]

Goto(p, label) == pc' = [pc EXCEPT ![p] = label]
Close(p, e) == shared' = [shared EXCEPT !.fds[p] = @ \ {e}]

\* Replaces one of the standard descriptors of p by end e, and closes the copy.
Dup2(p, e) == shared' = [shared EXCEPT !.fds[p] = @ \ {e}, !.std[p] = @ \cup {e}]

MakePipe ==
  /\ pc[Parent] = "pipe" /\ Goto(Parent, "fork")
  /\ shared' = IF shared.i < Programs
               THEN [shared EXCEPT !.fds[Parent] = @ \cup {R(shared.i), W(shared.i)}] ELSE shared

Fork ==
  /\ pc[Parent] = "fork"
  /\ pc' = [pc EXCEPT ![Parent] = "close read", ![shared.i] = "stdin"]
  /\ shared' = [shared EXCEPT !.fds[shared.i] = shared.fds[Parent]]

CloseRead ==
  /\ pc[Parent] = "close read" /\ Goto(Parent, "close write")
  /\ IF shared.i > 1 THEN Close(Parent, R(shared.i - 1)) ELSE UNCHANGED shared

\* Fault: the parent keeps the writing end of the pipe.
CloseWriteNot ==
  /\ pc[Parent] = "close write"
  /\ shared' = [shared EXCEPT !.i = @ + 1]
  /\ Goto(Parent, IF shared.i = Programs THEN "wait" ELSE "pipe")

CloseWrite ==
  /\ pc[Parent] = "close write"
  /\ shared' = [shared EXCEPT !.fds[Parent] = @ \ {W(shared.i)}, !.i = @ + 1]
  /\ Goto(Parent, IF shared.i = Programs THEN "wait" ELSE "pipe")

Wait == /\ pc[Parent] = "wait" /\ \A c \in Children : pc[c] = "done"
        /\ Goto(Parent, "done") /\ UNCHANGED shared

Child(c) ==
  \/ /\ pc[c] = "stdin" /\ Goto(c, "stdout")
     /\ IF c > 1 THEN Dup2(c, R(c - 1)) ELSE UNCHANGED shared
  \/ /\ pc[c] = "stdout" /\ c < Programs
     /\ Close(c, R(c)) /\ Goto(c, "dup")
  \/ pc[c] = "dup" /\ Dup2(c, W(c)) /\ Goto(c, "exec")
  \/ pc[c] \in {"stdout", "exec"} /\ (pc[c] = "stdout" => c = Programs)
     /\ Goto(c, "program") /\ UNCHANGED shared

\* The program has read all its input, ends, and its descriptors are closed.
EndOfInput(c) ==
  /\ pc[c] = "program"
  /\ c > 1 => \A p \in DOMAIN pc : W(c - 1) \notin shared.fds[p] \cup shared.std[p]
  /\ shared' = [shared EXCEPT !.fds[c] = {}, !.std[c] = {}]
  /\ Goto(c, "done")

Step(p) == \/ p = Parent /\ (MakePipe \/ Fork \/ CloseRead \/ CloseWrite \/ Wait)
           \/ p \in Children /\ (Child(p) \/ EndOfInput(p))

Next == \E p \in DOMAIN pc : Step(p)

Done == \A p \in DOMAIN pc : pc[p] = "done"
-----------------------------------------------------------------------------
\* A program is started with the two ends that it needs and no other, however far
\* the parent has come.
NoSpareEnds ==
  \A c \in Children : pc[c] = "program" =>
    /\ shared.fds[c] = {}
    /\ shared.std[c] \ {Terminal} = {R(c - 1) : x \in {c} \ {1}} \cup {W(c) : x \in {c} \ {Programs}}
=============================================================================
