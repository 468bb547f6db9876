------------------------------- MODULE MCMimpi -------------------------------
(* Two processes; tag -1 stands for the tags of the collective operations. *)
EXTENDS Mimpi

Kind(tag, count) == [tag |-> tag, count |-> count]

SomeSends == {Kind(1, 0), Kind(-1, 1)}
SomeReceives == {Kind(-1, 1), Kind(MIMPI_ANY_TAG, 0)}

TwoAndOne == [p \in Procs |-> IF p = 0 THEN 2 ELSE 1]
=============================================================================
