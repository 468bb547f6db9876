---------------------------- MODULE KierkiDialog ----------------------------
(***************************************************************************)
(* The card game of SIK/projekt2 between one player and its thread: the      *)
(* server asks again when no answer comes in time (server.cpp, lines 91-103), *)
(* an automatic client answers every question (kierki-klient.cpp), a person   *)
(* may type a card at any time, and the lines of both pass in order.  The     *)
(* other three players are the suit led and the time that passes.             *)
(***************************************************************************)
EXTENDS Integers, Sequences, FiniteSets, SequencesExt

CONSTANTS
  Deals,           \* the player's hand in each game
  NoSuit,
  MaxTimeouts, MaxTyped   \* bounds: questions repeated, lines typed unasked

VARIABLES pc, shared
\* pc[0]: the thread; pc[1]: the client.  shared: the lines under way, the hands the
\* two know of, and trick_id, the trick the client answers for.

vars == <<pc, shared>>

Deck == UNION {Deals[g] : g \in DOMAIN Deals}
Suits == {c.suit : c \in Deck}

Init ==
  /\ pc = [p \in {0, 1} |-> IF p = 0 THEN "deal" ELSE "poll"]
  /\ \E automatic \in BOOLEAN :
       shared = [automatic |-> automatic, toClient |-> <<>>, toServer |-> <<>>,
                 game |-> 1, draw |-> 0, lead |-> NoSuit, cards |-> {},
                 hand |-> {}, trick_id |-> 0, table |-> NoSuit, prompted |-> FALSE, line |-> "none", games |-> 0,
                 played |-> <<>>, timeouts |-> 0, typed |-> 0]

Sent(s, line) == [s EXCEPT !.toClient = Append(@, line)]
Line(name, draw, content) == [name |-> name, draw |-> draw, content |-> content]

\* play_card of gamefile.cpp, for the suit led.
play_card(card) ==
  /\ card \in shared.cards
  /\ shared.lead = NoSuit \/ card.suit = shared.lead \/ \A c \in shared.cards : c.suit # shared.lead
-----------------------------------------------------------------------------
(* The thread *)

Deal ==
  /\ pc[0] = "deal"
  /\ IF shared.game \in DOMAIN Deals
     THEN /\ shared' = [Sent(shared, Line("DEAL", 0, Deals[shared.game]))
                          EXCEPT !.cards = Deals[shared.game], !.draw = 0]
          /\ pc' = [pc EXCEPT ![0] = "turn"]
     ELSE pc' = [pc EXCEPT ![0] = "done"] /\ UNCHANGED shared

\* Sync::wait, where the thread waits for its turn or for the others: a line that comes
\* meanwhile is answered WRONG and thrown away.
Wait ==
  /\ pc[0] \in {"deal", "turn", "taken"} /\ shared.toServer # <<>>
  /\ shared' = Sent([shared EXCEPT !.toServer = Tail(@)], Line("WRONG", shared.draw, NoSuit))
  /\ UNCHANGED pc

\* The turn has come: nothing or a card lies on the table.
Turn ==
  /\ pc[0] = "turn"
  /\ \E suit \in Suits \cup {NoSuit} : shared' = [shared EXCEPT !.lead = suit]
  /\ pc' = [pc EXCEPT ![0] = "ask"]

Ask ==
  /\ pc[0] = "ask"
  /\ shared' = Sent(shared, Line("TRICK", shared.draw, shared.lead))
  /\ pc' = [pc EXCEPT ![0] = "read"]

Timeout ==
  /\ pc[0] = "read" /\ shared.toServer = <<>> /\ shared.timeouts < MaxTimeouts
  /\ shared' = [shared EXCEPT !.timeouts = @ + 1]
  /\ pc' = [pc EXCEPT ![0] = "ask"]

\* Fault: the number of the trick is not looked at.
AnswersAny(line) == TRUE

\* parseline: the line is of this trick; the card of another one is none.
Answers(line) == line.draw = shared.draw

Read ==
  /\ pc[0] = "read" /\ shared.toServer # <<>>
  /\ LET line == Head(shared.toServer)
         rest == [shared EXCEPT !.toServer = Tail(@)]
     IN IF Answers(line) /\ play_card(line.content)
        THEN /\ shared' = [rest EXCEPT !.cards = @ \ {line.content},
                                 !.played = <<[game |-> shared.game, draw |-> shared.draw, line |-> line]>>]
             /\ pc' = [pc EXCEPT ![0] = "taken"]
        ELSE /\ shared' = Sent(rest, Line("WRONG", shared.draw, NoSuit))
             /\ pc' = [pc EXCEPT ![0] = "ask"]

\* The trick has been played; after the last one SCORE and TOTAL, and the next game.
Taken ==
  LET told == Sent([shared EXCEPT !.played = <<>>], Line("TAKEN", shared.draw, shared.played[1].line.content))
      last == shared.draw + 1 = Cardinality(Deals[shared.game])
  IN /\ pc[0] = "taken"
     /\ shared' = IF last THEN [Sent(told, Line("TOTAL", 0, NoSuit)) EXCEPT !.game = @ + 1]
                  ELSE [told EXCEPT !.draw = @ + 1]
     /\ pc' = [pc EXCEPT ![0] = IF last THEN "deal" ELSE "turn"]

Thread == Deal \/ Wait \/ Turn \/ Ask \/ Timeout \/ Read \/ Taken
-----------------------------------------------------------------------------
(* The client *)

\* writeline of an answer; games says in which game it was written.
Written(s, card) ==
  [s EXCEPT !.toServer = Append(@, [draw |-> s.trick_id, content |-> card, game |-> s.games])]

\* A card that the rules allow, as AutoPlay chooses one.
Fits(s) == LET suited == {c \in s.hand : c.suit = s.table} IN IF suited = {} THEN s.hand ELSE suited

\* The client has read a line: an automatic one answers a question at once.
Understood(s, line) ==
  CASE line.name = "DEAL" -> {[s EXCEPT !.hand = line.content, !.games = @ + 1]}
    [] line.name = "TAKEN" -> {[s EXCEPT !.hand = @ \ {line.content}]}
    [] line.name = "TRICK" ->
         LET asked == [s EXCEPT !.trick_id = line.draw, !.table = line.content, !.prompted = ~s.automatic]
         IN IF s.automatic THEN {Written(asked, card) : card \in Fits(asked)} ELSE {asked}
    [] OTHER -> {s}

ReadLine ==
  /\ pc[1] = "poll" /\ shared.toClient # <<>>
  /\ LET line == Head(shared.toClient) IN
     \E s \in Understood([shared EXCEPT !.toClient = Tail(@)], line) : shared' = [s EXCEPT !.line = line.name]
  /\ UNCHANGED pc

\* A person answers the question that stands there.
TypeAnswer ==
  /\ pc[1] = "poll" /\ shared.prompted /\ shared.toClient = <<>>
  /\ \E card \in Fits(shared) : shared' = [Written(shared, card) EXCEPT !.prompted = FALSE]
  /\ UNCHANGED pc

\* A card typed unasked or too early, or one the rules forbid; what is typed before
\* the first DEAL is read after it.
TypeCard ==
  /\ pc[1] = "poll" /\ pc[0] # "done" /\ shared.games > 0
  /\ ~shared.automatic /\ shared.typed < MaxTyped
  /\ \E card \in Deck : shared' = [Written(shared, card) EXCEPT !.typed = @ + 1]
  /\ UNCHANGED pc

\* The connection has ended: well if the last line was TOTAL.
Closed ==
  /\ pc[1] = "poll" /\ pc[0] = "done" /\ shared.toClient = <<>>
  /\ pc' = [pc EXCEPT ![1] = IF shared.line = "TOTAL" THEN "done" ELSE "error"]
  /\ UNCHANGED shared

Step(p) ==
  \/ p = 0 /\ Thread
  \/ p = 1 /\ (ReadLine \/ TypeAnswer \/ Closed)

Next == Step(0) \/ Step(1) \/ TypeCard

Done == pc[0] = "done" /\ pc[1] \in {"done", "error"}
-----------------------------------------------------------------------------
\* A card is played in the trick and in the game that the client answered for, however
\* many answers and questions have crossed; when a player is asked and all has been
\* read, both ends know of the same cards; and the client takes the end of the game for
\* a failure only when a line too many was answered WRONG behind the last TOTAL.
DialogAgrees ==
  /\ \A i \in DOMAIN shared.played :
       LET p == shared.played[i] IN p.game = p.line.game /\ p.draw = p.line.draw
  /\ pc[0] = "read" /\ shared.toClient = <<>> => shared.hand = shared.cards
  /\ pc[1] = "error" => shared.line = "WRONG" /\ shared.timeouts + shared.typed > 0
=============================================================================
