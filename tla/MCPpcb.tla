------------------------------- MODULE MCPpcb -------------------------------
(* Two clients; a byte of two values, so that the third packet has a number of *)
(* two bytes.                                                                 *)
EXTENDS Ppcb

CONSTANTS c1, c2

Plan(t1, n1, t2, n2) ==
  [c \in {c1, c2} |-> IF c = c1 THEN [type |-> t1, length |-> n1]
                               ELSE [type |-> t2, length |-> n2]]

SomePlans == {Plan("TCP", 2, "TCP", 1), Plan("UDP", 2, "UDPR", 0),
              Plan("UDPR", 2, "UDP", 1), Plan("UDPR", 3, "UDPR", 1)}
=============================================================================
