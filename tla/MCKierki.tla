------------------------------ MODULE MCKierki ------------------------------
(* Two games of two tricks; in the first somebody cannot follow suit.  Most  *)
(* properties speak of the threads while they are in step: with InStepSoFar  *)
(* what comes after a state that is not smooth is left out.                  *)
EXTENDS Kierki

C(suit, rank) == [suit |-> suit, rank |-> rank]

Deal1 == (0 :> {C("H", 11), C("S", 2)}) @@ (1 :> {C("H", 3), C("S", 9)})
           @@ (2 :> {C("S", 10), C("S", 4)}) @@ (3 :> {C("H", 5), C("D", 9)})
Deal2 == (0 :> {C("H", 2), C("H", 4)}) @@ (1 :> {C("H", 3), C("S", 9)})
           @@ (2 :> {C("D", 10), C("H", 8)}) @@ (3 :> {C("H", 5), C("D", 1)})

TwoGames == <<[rule |-> "ALL", first |-> 2, hands |-> Deal1],
              [rule |-> "NO_HEARTS", first |-> 0, hands |-> Deal2]>>

InStepSoFar == smooth

\* taken.back() of an empty vector means nothing: what comes after it is left out.
BackExists == taken = <<>> => \A p \in Seats : th[p].pc # "tell"
=============================================================================
