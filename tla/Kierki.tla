------------------------------- MODULE Kierki -------------------------------
(***************************************************************************)
(* The card-game server of SIK/projekt2: one thread per seat (server.cpp,  *)
(* handle_new and handle_game), which keep step by a barrier and by        *)
(* semaphores made of bytes in pipes (sync.cpp), and the games they play   *)
(* (gamefile.cpp).                                                         *)
(*                                                                         *)
(* A step of a thread is everything between two of its waits, or between   *)
(* two places where it looks at what the others write.  Messages of a      *)
(* player out of turn, wrong cards and answers that come too late leave    *)
(* the state as it was and are left out.  MaxLeaves bounds how often a     *)
(* player goes away.                                                       *)
(***************************************************************************)
EXTENDS Integers, Sequences, SequencesExt, FiniteSetsExt, Functions

CONSTANTS
  Games,       \* the games file: rule, first seat and hands of each game
  Tricks,      \* tricks in a game, 13 in the code
  MaxLeaves,   \* bound
  NoCard

Seats == 0..3

Card == [suit : STRING, rank : Nat]
Game == [rule : STRING, first : Seats, hands : [Seats -> SUBSET Card]]

\* The games file is well formed (README.md, line 161): nobody holds the card of
\* somebody else, and there is one card of each player for each trick.
ASSUME GamesAssumption ==
  /\ Tricks \in Nat \ {0} /\ MaxLeaves \in Nat /\ NoCard \notin Card
  /\ Games \in Seq(Game)
  /\ \A g \in DOMAIN Games :
       /\ \A p \in Seats : IsFiniteSet(Games[g].hands[p])
                          /\ Cardinality(Games[g].hands[p]) = Tricks
       /\ \A p, q \in Seats : p # q => Games[g].hands[p] \cap Games[g].hands[q] = {}

VARIABLES
  th,             \* th[p]: the thread of seat p and its local variables
  state,          \* clients[p].state
  bytes, sem,     \* bytes[p], sem[p]: bytes for p in the pipes of the barrier
                  \* (with those it has read in this wait) and of the semaphore
  current_game, current_player, current_draw,
  loaded, first_seat, hands, table,      \* Gamefile::current_game and the game
  score, total,   \* score[p], total[p]: GAME_SCORE and TOTAL_SCORE
  taken,
  told,           \* told[p]: the last TAKEN and TOTAL that p was sent
  held,           \* held[p]: the hand that the client of p knows of
  over,           \* the main thread has been woken and the program ends
  leaves,
  smooth          \* no thread was overtaken, and nobody left but on its turn

sync == <<current_game, current_player, current_draw>>
game == <<loaded, first_seat, hands, table>>
vars == <<th, state, bytes, sem, sync, game, score, total, taken, told, held, over,
          leaves, smooth>>

Gone == [pc |-> "out", gid |-> 0, draw |-> 0, player |-> 0, loser |-> 0, next |-> 0]

Message(draw, cards, loser) == [draw |-> draw, cards |-> cards, loser |-> loser]

Init ==
  /\ th = [p \in Seats |-> Gone] /\ state = [p \in Seats |-> "BEFORE_DRAW"]
  /\ bytes = [p \in Seats |-> 0] /\ sem = [p \in Seats |-> 0]
  /\ current_game = 1 /\ current_player = 0 /\ current_draw = 0
  /\ loaded = 0 /\ first_seat = 0
  /\ hands = [p \in Seats |-> {}] /\ table = [i \in Seats |-> NoCard]
  /\ score = [p \in Seats |-> 0] /\ total = [p \in Seats |-> 0]
  /\ taken = <<>>
  /\ told = [p \in Seats |-> [trick |-> Message(0, <<>>, 0), total |-> total]]
  /\ held = [p \in Seats |-> {}]
  /\ over = FALSE /\ leaves = 0 /\ smooth = TRUE
-----------------------------------------------------------------------------
(* gamefile.cpp and card.cpp *)

\* operator> of cards: it orders cards of one suit.
Beats(c, d) == c # NoCard /\ (d = NoCard \/ (c.suit = d.suit /\ c.rank > d.rank))

\* What play_card accepts.
Allowed(c, hand) ==
  table[0] # NoCard =>
    c.suit = table[0].suit \/ \A d \in hand : d.suit # table[0].suit

\* The place of the greatest card of the suit led.
Best(cards) ==
  FoldLeft(LAMBDA max, i : IF Beats(cards[i], cards[max]) THEN i ELSE max, 0, <<0, 1, 2, 3>>)

\* Fault: The loser is counted from the first player, not from the first seat.
get_loserOfPlace(cards, first) == Best(cards)

get_loser(cards, first) == (Best(cards) + first) % 4

\* Ranks are numbered as in card.h: jack 9, queen 10, king 11.
calculate_score(rule, cards, deal) ==
  LET played == {i \in Seats : cards[i] # NoCard}
      of(S, R) == Cardinality({i \in played : cards[i].suit \in S /\ cards[i].rank \in R})
      suits == {cards[i].suit : i \in played}
      ranks == {cards[i].rank : i \in played}
      for(r, points) == IF rule \in {r, "ALL"} THEN points ELSE 0
  IN for("ANY", 1)
       + for("NO_HEARTS", of({"H"}, ranks))
       + for("NO_QUEENS", 5 * of(suits, {10}))
       + for("NO_MEN", 2 * of(suits, {9, 11}))
       + for("NO_KING_OF_HEARTS", 18 * of({"H"}, {11}))
       + for("NO_7_13", IF deal \in {6, 12} THEN 10 ELSE 0)
-----------------------------------------------------------------------------
(* The automatic client: kierki-klient.cpp and autoplayer.cpp *)

\* All cards of the tricks taken in this game.
Taken == UNION {Range(taken[i].cards) : i \in DOMAIN taken}

Highest(S) == {c \in S : \A d \in S : d.suit = c.suit => d.rank <= c.rank}

\* Fault: the greatest lower card, of any suit.
AutoPlayLower(cards, hand) ==
  LET top == cards[Best(cards)]
      below == {c \in hand : c.rank < top.rank}
  IN IF cards[0] # NoCard /\ below # {} THEN Highest(below) ELSE Highest(hand)

\* The cards AutoPlayer may choose; the order of the hand decides between them.
AutoPlay(cards, hand) ==
  LET top == cards[Best(cards)]
      suited == {c \in hand : c.suit = top.suit}
      below == {c \in suited : c.rank < top.rank}
  IN CASE cards[0] = NoCard -> {c \in hand : \A d \in hand : c.rank <= d.rank}
       [] cards[0] # NoCard /\ below # {} -> Highest(below)
       [] cards[0] # NoCard /\ below = {} /\ suited # {} -> Highest(suited)
       [] OTHER -> Highest(hand)
-----------------------------------------------------------------------------
(* sync.cpp *)

At(p, place) == th[p].pc = place /\ ~over

\* The thread of p goes on with some of its variables changed.
Step(p, record) == th' = [th EXCEPT ![p] = record]

AllBytes(n) == [q \in Seats |-> bytes[q] + n]

\* barrier: p goes on once four bytes have come; again: straight to the next.
Passes(p, again) ==
  /\ bytes[p] >= 4
  /\ bytes' = [AllBytes(IF again THEN 1 ELSE 0) EXCEPT ![p] = @ - 4]

Wakes(p) == sem' = [sem EXCEPT ![p] = @ + 1]

Sleeps(p) == sem[p] > 0 /\ sem' = [sem EXCEPT ![p] = @ - 1]
-----------------------------------------------------------------------------
(* handle_new and handle_game *)

\* Fault: who comes back in a game waits at the barrier of its start.
JoinWaits(p) ==
  /\ At(p, "out")
  /\ Step(p, [Gone EXCEPT !.gid = current_game, !.pc = "start"])
  /\ bytes' = AllBytes(1)
  /\ UNCHANGED <<state, sem, sync, game, score, total, taken, told, held, over, leaves, smooth>>

\* IAM on a free seat; the thread begins where the seat and the counters are.
Join(p) ==
  /\ At(p, "out")
  /\ Step(p, [Gone EXCEPT !.gid = current_game,
                          !.pc = IF state[p] = "BEFORE_DRAW" THEN "start" ELSE "deal"])
  /\ bytes' = IF state[p] = "BEFORE_DRAW" THEN AllBytes(1) ELSE bytes
  /\ UNCHANGED <<state, sem, sync, game, score, total, taken, told, held, over, leaves, smooth>>

Start(p) ==
  /\ At(p, "start")
  /\ Passes(p, FALSE)
  /\ Step(p, [th[p] EXCEPT !.pc = "deal"])
  /\ UNCHANGED <<state, sem, sync, game, score, total, taken, told, held, over, leaves, smooth>>

\* get_game, and DEAL unless there are no more games.  Who comes back before a
\* trick is sent all the tricks taken in this game again.
Deal(p) ==
  /\ At(p, "deal")
  /\ LET g == th[p].gid IN
     /\ IF g > loaded
          THEN /\ loaded' = g
               /\ IF g \in DOMAIN Games
                    THEN /\ first_seat' = Games[g].first /\ hands' = Games[g].hands
                         /\ table' = [i \in Seats |-> NoCard]
                    ELSE UNCHANGED <<first_seat, hands, table>>
          ELSE UNCHANGED game
     /\ IF loaded' \in DOMAIN Games
          THEN /\ state' = [state EXCEPT ![p] = "BEFORE_TRICK"]
               /\ held' = [held EXCEPT ![p] =
                    Games[loaded'].hands[p] \ (IF state[p] = "BEFORE_TRICK" THEN Taken ELSE {})]
               /\ told' = [told EXCEPT ![p].trick =
                    IF state[p] = "BEFORE_TRICK" /\ taken # <<>> THEN Last(taken) ELSE @]
               /\ Step(p, [th[p] EXCEPT !.pc = "turn", !.draw = current_draw])
               /\ UNCHANGED over
          ELSE over' = TRUE /\ UNCHANGED <<th, state, told, held>>
  /\ UNCHANGED <<bytes, sem, sync, score, total, taken, leaves, smooth>>

\* A byte that should wake p is in the pipe or about to be written there.
Called(p) == sem[p] > 0 \/ \E q \in Seats : th[q].pc = "wake" /\ th[q].next = p

\* Lines 80-89.  A thread that comes when its turn has come already does not
\* sleep, and leaves the byte that should wake it in the pipe.
Turn(p) ==
  /\ At(p, "turn")
  /\ LET player == (4 + p - first_seat) % 4
         asleep == player > current_player
     IN /\ current_draw' = th[p].draw
        /\ Step(p, [th[p] EXCEPT !.player = player, !.pc = IF asleep THEN "sleep" ELSE "card"])
        /\ table' = IF player = 0 THEN [i \in Seats |-> NoCard] ELSE table
        /\ smooth' = (smooth /\ (asleep \/ ~Called(p)))
  /\ UNCHANGED <<state, bytes, sem, current_game, current_player, loaded, first_seat, hands,
                 score, total, taken, told, held, over, leaves>>

WakeUp(p) ==
  /\ At(p, "sleep")
  /\ Sleeps(p)
  /\ current_player' = th[p].player
  /\ Step(p, [th[p] EXCEPT !.pc = "card"])
  /\ UNCHANGED <<state, bytes, current_game, current_draw, game, score, total, taken, told,
                 held, over, leaves, smooth>>

\* play_card, and whose turn is next; the last player goes on to the first barrier.
PlayCard(p) ==
  /\ At(p, "card")
  /\ \E c \in hands[p] :
       /\ Allowed(c, hands[p])
       /\ table' = [table EXCEPT ![IF table[0] = NoCard THEN 0
                                   ELSE (4 + p - first_seat) % 4] = c]
       /\ hands' = [hands EXCEPT ![p] = @ \ {c}]
  /\ state' = [state EXCEPT ![p] = "AFTER_TRICK"]
  /\ IF th[p].player < 3
       THEN /\ current_player' = th[p].player + 1
            /\ Step(p, [th[p] EXCEPT !.pc = "wake",
                                     !.next = (th[p].player + 1 + first_seat) % 4])
            /\ UNCHANGED bytes
       ELSE /\ current_player' = 0
            /\ Step(p, [th[p] EXCEPT !.pc = "played"])
            /\ bytes' = AllBytes(1)
  /\ UNCHANGED <<sem, current_game, current_draw, loaded, first_seat, score, total, taken,
                 told, held, over, leaves, smooth>>

\* Line 110, after the next player's number was stored, and the first barrier.
WakeNext(p) ==
  /\ At(p, "wake")
  /\ Wakes(th[p].next)
  /\ bytes' = AllBytes(1)
  /\ Step(p, [th[p] EXCEPT !.pc = "played"])
  /\ UNCHANGED <<state, sync, game, score, total, taken, told, held, over, leaves, smooth>>

\* Fault: The second barrier is left out, as if the loser were final at once.
PlayedOnce(p) ==
  /\ At(p, "played")
  /\ bytes[p] >= 4
  /\ bytes' = [bytes EXCEPT ![p] = @]
  /\ Step(p, [th[p] EXCEPT !.pc = "known", !.loser = get_loser(table, first_seat),
                           !.next = (th[p].player + 1 + first_seat) % 4])
  /\ UNCHANGED <<state, sem, sync, game, score, total, taken, told, held, over, leaves, smooth>>

\* Between the first two barriers everybody finds the loser.
Played(p) ==
  /\ At(p, "played")
  /\ Passes(p, TRUE)
  /\ Step(p, [th[p] EXCEPT !.pc = "known", !.loser = get_loser(table, first_seat),
                           !.next = (th[p].player + 1 + first_seat) % 4])
  /\ UNCHANGED <<state, sem, sync, game, score, total, taken, told, held, over, leaves, smooth>>

\* The loser takes the trick; the first player makes the message.
Known(p) ==
  /\ At(p, "known")
  /\ Passes(p, FALSE)
  /\ IF th[p].loser = p
       THEN LET points == calculate_score(Games[loaded].rule, table, th[p].draw) IN
            /\ score' = [score EXCEPT ![p] = @ + points]
            /\ total' = [total EXCEPT ![p] = @ + points]
            /\ first_seat' = p
       ELSE UNCHANGED <<score, total, first_seat>>
  /\ IF th[p].player = 0
       THEN /\ taken' = Append(taken, Message(th[p].draw, table, th[p].loser))
            /\ Step(p, [th[p] EXCEPT !.pc = "tell"])
       ELSE Step(p, [th[p] EXCEPT !.pc = "sleepTell"]) /\ UNCHANGED taken
  /\ UNCHANGED <<state, sem, sync, loaded, hands, table, told, held, over, leaves, smooth>>

WakeUpTell(p) ==
  /\ At(p, "sleepTell")
  /\ Sleeps(p)
  /\ Step(p, [th[p] EXCEPT !.pc = "tell"])
  /\ UNCHANGED <<state, bytes, sync, game, score, total, taken, told, held, over, leaves, smooth>>

\* Fault: SCORE and TOTAL are sent by a thread that does not wait for the others.
TrickDoneAlone(p) ==
  /\ At(p, "tell")
  /\ IF taken = <<>> THEN UNCHANGED <<told, held>>
     ELSE /\ told' = [told EXCEPT ![p].trick = Last(taken)]
          /\ held' = [held EXCEPT ![p] = @ \ Range(Last(taken).cards)]
  /\ IF th[p].player < 3 THEN Wakes(th[p].next) ELSE UNCHANGED sem
  /\ UNCHANGED bytes
  /\ state' = [state EXCEPT ![p] = "BEFORE_TRICK"]
  /\ Step(p, IF th[p].draw + 1 < Tricks THEN [th[p] EXCEPT !.pc = "turn", !.draw = @ + 1]
             ELSE [th[p] EXCEPT !.pc = "score"])
  /\ UNCHANGED <<sync, game, score, total, taken, over, leaves, smooth>>

\* TAKEN is sent, in the order of the players.
Tell(p) ==
  /\ At(p, "tell")
  /\ IF taken = <<>> THEN UNCHANGED <<told, held>>
     ELSE /\ told' = [told EXCEPT ![p].trick = Last(taken)]
          /\ held' = [held EXCEPT ![p] = @ \ Range(Last(taken).cards)]
  /\ IF th[p].player < 3 THEN Wakes(th[p].next) ELSE UNCHANGED sem
  /\ bytes' = AllBytes(1)
  /\ state' = [state EXCEPT ![p] = "BEFORE_TRICK"]
  /\ Step(p, [th[p] EXCEPT !.pc = "done"])
  /\ UNCHANGED <<sync, game, score, total, taken, over, leaves, smooth>>

TrickDone(p) ==
  /\ At(p, "done")
  /\ Passes(p, FALSE)
  /\ Step(p, IF th[p].draw + 1 < Tricks THEN [th[p] EXCEPT !.pc = "turn", !.draw = @ + 1]
             ELSE [th[p] EXCEPT !.pc = "score"])
  /\ UNCHANGED <<state, sem, sync, game, score, total, taken, told, held, over, leaves, smooth>>

\* SCORE and TOTAL, and the barrier before the next game.
Score(p) ==
  /\ At(p, "score")
  /\ UNCHANGED held
  /\ state' = [state EXCEPT ![p] = "BEFORE_DRAW"]
  /\ current_draw' = 0 /\ current_game' = th[p].gid + 1
  /\ score' = [score EXCEPT ![p] = 0]
  /\ taken' = IF p = 0 THEN <<>> ELSE taken
  /\ told' = [told EXCEPT ![p].total = total]
  /\ bytes' = AllBytes(1)
  /\ Step(p, [th[p] EXCEPT !.pc = "start", !.gid = @ + 1])
  /\ UNCHANGED <<sem, current_player, game, total, over, leaves, smooth>>

\* The connection ends: what the thread has read in this wait is lost, and the
\* seat is free.  A thread whose bytes are all there does not notice.
Leave(p) ==
  /\ leaves < MaxLeaves
  /\ \/ At(p, "card")
     \/ At(p, "sleep") /\ sem[p] = 0
     \/ At(p, "sleepTell") /\ sem[p] = 0
     \/ th[p].pc \in {"start", "played", "known", "done"} /\ bytes[p] < 4 /\ ~over
  /\ bytes' = IF th[p].pc \in {"start", "played", "known", "done"}
                THEN [bytes EXCEPT ![p] = 0] ELSE bytes
  /\ Step(p, Gone)
  /\ leaves' = leaves + 1
  /\ smooth' = (smooth /\ th[p].pc = "card")
  /\ UNCHANGED <<state, sem, sync, game, score, total, taken, told, held, over>>

\* TAKEN cannot be sent: the others are woken, and the thread ends.
LeaveTell(p) ==
  /\ leaves < MaxLeaves
  /\ At(p, "tell")
  /\ IF th[p].player < 3 THEN Wakes(th[p].next) ELSE UNCHANGED sem
  /\ Step(p, Gone)
  /\ leaves' = leaves + 1 /\ smooth' = FALSE
  /\ UNCHANGED <<state, bytes, sync, game, score, total, taken, told, held, over>>

Thread(p) ==
  \/ Join(p) \/ Start(p) \/ Deal(p) \/ Turn(p) \/ WakeUp(p) \/ PlayCard(p) \/ WakeNext(p)
  \/ Played(p) \/ Known(p) \/ WakeUpTell(p) \/ Tell(p) \/ TrickDone(p) \/ Score(p)

Terminated == over /\ UNCHANGED vars

Next == (\E p \in Seats : Thread(p) \/ Leave(p) \/ LeaveTell(p)) \/ Terminated

\* Threads are scheduled, players answer, and those who left come back.
Spec == Init /\ [][Next]_vars /\ \A p \in Seats : WF_vars(Thread(p))
-----------------------------------------------------------------------------
(* The properties speak of the runs in which the threads stay in step.      *)

InStep(P) == smooth => P

\* Players are asked for a card one at a time and in turn: when a thread asks,
\* nobody else asks, and the cards on the table are those of the players before
\* it (README.md, line 5).  Whether a thread waits is decided by a counter that the
\* others move, and by bytes without a name (server.cpp, lines 84-113).
TurnOrder ==
  \A p \in Seats : th[p].pc = "card" =>
    /\ \A q \in Seats \ {p} : th[q].pc # "card"
    /\ \A i \in Seats : (table[i] # NoCard) <=> (i < th[p].player)

\* The TAKEN that a player was sent is of the trick it played in: the four cards,
\* and as the loser the player of the highest card of the suit led, who also
\* begins the next trick (server.cpp, lines 115-152, and get_loser: four threads
\* compute the loser while one of them writes first_seat, which get_loser reads).
TakenRight == InStep(
  \A p \in Seats : th[p].pc = "done" =>
    LET m == told[p].trick
        place == (m.loser + th[p].player - p) % 4
    IN /\ m.draw = th[p].draw
       /\ bytes[p] >= 4 => first_seat = m.loser
       /\ m.cards[place].suit = m.cards[0].suit
       /\ \A i \in Seats : m.cards[i].suit = m.cards[0].suit
                              => m.cards[i].rank <= m.cards[place].rank)

\* The points of a whole game do not depend on who takes them.
GamePoints(g) ==
  LET cards == UNION {Games[g].hands[p] : p \in Seats}
      rule == Games[g].rule
      Number(S) == Cardinality(S)
  IN (IF rule \in {"ANY", "ALL"} THEN Tricks ELSE 0)
   + (IF rule \in {"NO_HEARTS", "ALL"} THEN Number({c \in cards : c.suit = "H"}) ELSE 0)
   + (IF rule \in {"NO_QUEENS", "ALL"} THEN 5 * Number({c \in cards : c.rank = 10}) ELSE 0)
   + (IF rule \in {"NO_MEN", "ALL"} THEN 2 * Number({c \in cards : c.rank \in {9, 11}}) ELSE 0)
   + (IF rule \in {"NO_KING_OF_HEARTS", "ALL"}
        THEN 18 * Number({c \in cards : c.suit = "H" /\ c.rank = 11}) ELSE 0)
   + (IF rule \in {"NO_7_13", "ALL"} THEN 10 * Number({6, 12} \cap 0..(Tricks - 1)) ELSE 0)

Shared(points) == MapThenSumSet(LAMBDA q : points[q], Seats)

\* When a game has ended every player has been sent the same TOTAL, and it shares
\* out exactly the points of the games played: no trick is counted twice or lost;
\* the program does not end before everybody has the last one (server.cpp, lines
\* 119-123 and 156-167).
TotalsRight == InStep(
  \A p \in Seats : (th[p].pc = "start" /\ th[p].gid > 1) \/ over =>
    LET games == IF over THEN Len(Games) ELSE th[p].gid - 1 IN
    /\ told[p].total = total
    /\ Shared(total) = MapThenSumSet(GamePoints, 1..games))

\* Whoever is asked for a card can answer: its client knows the hand that the
\* server has for it, also after it went away and came back, and each card that
\* the automatic player may choose is accepted, whatever is read into the places
\* of the table that have no card yet (an automatic player does not answer WRONG,
\* the server would wait for it for ever: kierki-klient.cpp, lines 182-229;
\* trick.cpp, lines 18-19, reads past the end of the line).
AutoPlays == InStep(
  \A p \in Seats : th[p].pc = "card" =>
    /\ held[p] = hands[p]
    /\ \A junk \in {NoCard} \cup UNION {hands[q] : q \in Seats} :
         LET read == [i \in Seats |-> IF i > th[p].player THEN junk ELSE table[i]]
         IN \A c \in AutoPlay(read, held[p]) : Allowed(c, hands[p]))

\* If the threads stay in step, the games are played to the end, also when
\* players go away on their turn and come back.
GameEnds == <>(over \/ ~smooth)
=============================================================================
