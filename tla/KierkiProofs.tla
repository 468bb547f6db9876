---------------------------- MODULE KierkiProofs ----------------------------
(***************************************************************************)
(* Proofs about Kierki, for any well-formed games file, any number of      *)
(* tricks and of departures: while the threads stay in step, players can   *)
(* answer when they are asked, what they are told of a trick is right, and *)
(* the totals are the points of the games played.                          *)
(*                                                                         *)
(* The threads go through stages that four barriers separate: cards are    *)
(* put down (Card), the loser is found (Known), the loser takes the trick  *)
(* and all are told (Tell), and after the last trick of a game all wait    *)
(* for the next one (End).  Four things are said of each stage: where the  *)
(* threads are, with their bytes (CardRound, ...), what they were told     *)
(* (DoneTold, TakenNow), which cards are where (CardHands, ...), and what  *)
(* points were given (CardPoints, ...).                                    *)
(***************************************************************************)
EXTENDS Kierki, TLAPS, FiniteSetTheorems, WellFoundedInduction

(* The fold that finds the greatest card, and its first step to last       *)

Greater(cards, max, i) == IF Beats(cards[i], cards[max]) THEN i ELSE max

Rounds == 1..4
Folds(f, cards) ==
  f = [s \in SUBSET Rounds |-> IF s = {} THEN 0
         ELSE Greater(cards, f[s \ {Max(s)}], <<0, 1, 2, 3>>[Max(s)])]

Folded(cards) == CHOOSE f : Folds(f, cards)

LEMMA BestFolded == ASSUME NEW cards PROVE Best(cards) = Folded(cards)[Rounds]
<1>1. DOMAIN <<0, 1, 2, 3>> = Rounds
  BY DEF Rounds
<1> QED BY <1>1 DEF Best, FoldLeft, MapThenFoldSet, Folded, Folds, Greater

LEMMA MaxOfRounds ==
  ASSUME NEW s \in SUBSET Rounds, NEW n \in Rounds, n \in s, \A m \in s : m <= n
  PROVE  Max(s) = n
<1>1. n \in s /\ \A y \in s : n >= y
  BY DEF Rounds
<1>2. ASSUME NEW x \in s, \A y \in s : x >= y PROVE x = n
  BY <1>1, <1>2 DEF Rounds
<1>3. Max(s) \in s /\ \A y \in s : Max(s) >= y
  BY <1>1 DEF Max
<1> QED BY <1>2, <1>3

\* The fold, place by place.
F1(cards, s) == IF 1 \in s THEN Greater(cards, 0, 0) ELSE 0
F2(cards, s) == IF 2 \in s THEN Greater(cards, F1(cards, s), 1) ELSE F1(cards, s)
F3(cards, s) == IF 3 \in s THEN Greater(cards, F2(cards, s), 2) ELSE F2(cards, s)
F4(cards, s) == IF 4 \in s THEN Greater(cards, F3(cards, s), 3) ELSE F3(cards, s)

LEMMA FoldExists == ASSUME NEW cards PROVE Folds(Folded(cards), cards)
<1> DEFINE f == [s \in SUBSET Rounds |-> F4(cards, s)]
<1>1. ASSUME NEW s \in SUBSET Rounds, s # {}
      PROVE  f[s] = Greater(cards, f[s \ {Max(s)}], <<0, 1, 2, 3>>[Max(s)])
  <2>1. CASE 4 \in s
    <3>1. Max(s) = 4
      BY <2>1, MaxOfRounds DEF Rounds
    <3>2. F3(cards, s \ {4}) = F3(cards, s)
      BY DEF F1, F2, F3
    <3>3. f[s \ {4}] = F3(cards, s)
      BY <3>2 DEF F4
    <3>4. f[s] = Greater(cards, F3(cards, s), 3)
      BY <2>1 DEF F4
    <3> QED BY <3>1, <3>3, <3>4
  <2>2. CASE 4 \notin s /\ 3 \in s
    <3>1. Max(s) = 3
      BY <2>2, MaxOfRounds DEF Rounds
    <3>2. F2(cards, s \ {3}) = F2(cards, s)
      BY DEF F1, F2
    <3>3. f[s \ {3}] = F2(cards, s)
      BY <2>2, <3>2 DEF F3, F4
    <3>4. f[s] = Greater(cards, F2(cards, s), 2)
      BY <2>2 DEF F3, F4
    <3> QED BY <3>1, <3>3, <3>4
  <2>3. CASE 4 \notin s /\ 3 \notin s /\ 2 \in s
    <3>1. Max(s) = 2
      BY <2>3, MaxOfRounds DEF Rounds
    <3>2. F1(cards, s \ {2}) = F1(cards, s)
      BY DEF F1
    <3>3. f[s \ {2}] = F1(cards, s)
      BY <2>3, <3>2 DEF F2, F3, F4
    <3>4. f[s] = Greater(cards, F1(cards, s), 1)
      BY <2>3 DEF F2, F3, F4
    <3> QED BY <3>1, <3>3, <3>4
  <2>4. CASE s = {1}
    <3>1. Max(s) = 1
      BY <2>4, MaxOfRounds DEF Rounds
    <3> QED BY <2>4, <3>1 DEF F1, F2, F3, F4
  <2>5. 4 \in s \/ 3 \in s \/ 2 \in s \/ s = {1}
    <3>1. s \subseteq {1, 2, 3, 4} /\ s # {}
      BY <1>1 DEF Rounds
    <3> QED BY <3>1
  <2> HIDE DEF f
  <2> QED BY <2>1, <2>2, <2>3, <2>4, <2>5
<1>2. f[{}] = 0
  BY DEF F1, F2, F3, F4
<1>3. Folds(f, cards)
  BY <1>1, <1>2 DEF Folds
<1> QED BY <1>3 DEF Folded

LEMMA BestIs ==
  ASSUME NEW cards
  PROVE  LET a == Greater(cards, 0, 0)  b == Greater(cards, a, 1)  c == Greater(cards, b, 2)
         IN Best(cards) = Greater(cards, c, 3)
<1> DEFINE f == Folded(cards)
<1>1. f = [s \in SUBSET Rounds |-> IF s = {} THEN 0
            ELSE Greater(cards, f[s \ {Max(s)}], <<0, 1, 2, 3>>[Max(s)])]
  BY FoldExists DEF Folds
<1> HIDE DEF f
<1>0. ASSUME NEW s \in SUBSET Rounds, s # {}, NEW n, n = Max(s), NEW r, r = s \ {n}
      PROVE  f[s] = Greater(cards, f[r], <<0, 1, 2, 3>>[n])
  BY <1>0, <1>1
<1>2. f[{}] = 0
  BY <1>1
<1>3. f[{1}] = Greater(cards, f[{}], 0)
  <2>1. Max({1}) = 1 /\ {1} \ {1} = {} /\ {1} \in SUBSET Rounds
    BY MaxOfRounds DEF Rounds
  <2> QED BY <1>0, <2>1
<1>4. f[{1, 2}] = Greater(cards, f[{1}], 1)
  <2>1. Max({1, 2}) = 2 /\ {1, 2} \ {2} = {1} /\ {1, 2} \in SUBSET Rounds
    BY MaxOfRounds DEF Rounds
  <2> QED BY <1>0, <2>1
<1>5. f[{1, 2, 3}] = Greater(cards, f[{1, 2}], 2)
  <2>1. Max({1, 2, 3}) = 3 /\ {1, 2, 3} \ {3} = {1, 2} /\ {1, 2, 3} \in SUBSET Rounds
    BY MaxOfRounds DEF Rounds
  <2> QED BY <1>0, <2>1
<1>6. f[Rounds] = Greater(cards, f[{1, 2, 3}], 3)
  <2>1. Max(Rounds) = 4 /\ Rounds \ {4} = {1, 2, 3} /\ Rounds \in SUBSET Rounds
    BY MaxOfRounds DEF Rounds
  <2> QED BY <1>0, <2>1
<1> QED BY <1>2, <1>3, <1>4, <1>5, <1>6, BestFolded DEF f

\* Each step of it keeps a card of the suit led, the greatest of those seen.
Leads(cards, m) ==
  m \in Seats /\ (cards[0] # NoCard => cards[m] # NoCard /\ cards[m].suit = cards[0].suit)

HighestOf(cards, m, n) ==
  \A i \in Seats : i < n /\ cards[i].suit = cards[0].suit => cards[i].rank <= cards[m].rank

LEMMA GreaterLeads ==
  ASSUME NEW cards, NEW m, Leads(cards, m), NEW i \in Seats
  PROVE  Leads(cards, Greater(cards, m, i))
<1>1. CASE Beats(cards[i], cards[m])
  <2>1. Greater(cards, m, i) = i
    BY <1>1 DEF Greater
  <2>2. cards[i] # NoCard /\ (cards[m] = NoCard \/ cards[i].suit = cards[m].suit)
    BY <1>1 DEF Beats
  <2> QED BY <2>1, <2>2 DEF Leads
<1>2. CASE ~Beats(cards[i], cards[m])
  BY <1>2 DEF Greater
<1> QED BY <1>1, <1>2

LEMMA GreaterIsHighest ==
  ASSUME NEW cards, NEW m, Leads(cards, m), NEW n \in Seats, HighestOf(cards, m, n),
         \A i \in Seats : cards[i] # NoCard /\ cards[i].rank \in Nat
  PROVE  HighestOf(cards, Greater(cards, m, n), n + 1)
<1>1. m \in Seats /\ 0 \in Seats /\ cards[m].suit = cards[0].suit
  BY DEF Leads, Seats
<1>2. \A i \in Seats : i < n + 1 => i < n \/ i = n
  BY DEF Seats
<1>3. CASE Beats(cards[n], cards[m])
  <2>1. Greater(cards, m, n) = n
    BY <1>3 DEF Greater
  <2>2. cards[n].rank > cards[m].rank
    BY <1>1, <1>3 DEF Beats
  <2>3. ASSUME NEW i \in Seats, i < n + 1, cards[i].suit = cards[0].suit
        PROVE  cards[i].rank <= cards[n].rank
    <3>1. CASE i = n
      BY <3>1
    <3>2. CASE i < n
      <4>1. cards[i].rank <= cards[m].rank
        BY <2>3, <3>2 DEF HighestOf
      <4>2. cards[i].rank \in Nat /\ cards[m].rank \in Nat /\ cards[n].rank \in Nat
        BY <1>1
      <4> QED BY <2>2, <4>1, <4>2
    <3> QED BY <1>2, <2>3, <3>1, <3>2
  <2> QED BY <2>1, <2>3 DEF HighestOf
<1>4. CASE ~Beats(cards[n], cards[m])
  <2>1. Greater(cards, m, n) = m
    BY <1>4 DEF Greater
  <2>2. cards[n].suit = cards[0].suit => ~(cards[n].rank > cards[m].rank)
    BY <1>1, <1>4 DEF Beats
  <2>3. cards[m].rank \in Nat /\ cards[n].rank \in Nat
    BY <1>1
  <2>4. cards[n].suit = cards[0].suit => cards[n].rank <= cards[m].rank
    BY <2>2, <2>3
  <2> QED BY <1>2, <2>1, <2>4 DEF HighestOf
<1> QED BY <1>3, <1>4

LEMMA BestLeads ==
  ASSUME NEW cards, NEW b, b = Best(cards)
  PROVE  /\ b \in Seats
         /\ cards[0] # NoCard => cards[b] # NoCard /\ cards[b].suit = cards[0].suit
<1>1. 0 \in Seats /\ 1 \in Seats /\ 2 \in Seats /\ 3 \in Seats
  BY DEF Seats
<1>2. Leads(cards, 0)
  BY <1>1 DEF Leads
<1> DEFINE a == Greater(cards, 0, 0)
           c == Greater(cards, a, 1)
           d == Greater(cards, c, 2)
           e == Greater(cards, d, 3)
<1>3. Leads(cards, a)
  BY <1>1, <1>2, GreaterLeads
<1>4. Leads(cards, c)
  BY <1>1, <1>3, GreaterLeads
<1>5. Leads(cards, d)
  BY <1>1, <1>4, GreaterLeads
<1>6. Leads(cards, e)
  BY <1>1, <1>5, GreaterLeads
<1>7. b = e
  BY BestIs
<1> HIDE DEF e
<1> QED BY <1>6, <1>7 DEF Leads

LEMMA BestIsHighest ==
  ASSUME NEW cards, NEW b, b = Best(cards),
         \A i \in Seats : cards[i] # NoCard /\ cards[i].rank \in Nat
  PROVE  \A i \in Seats : cards[i].suit = cards[0].suit => cards[i].rank <= cards[b].rank
<1>1. 0 \in Seats /\ 1 \in Seats /\ 2 \in Seats /\ 3 \in Seats
        /\ 0 + 1 = 1 /\ 1 + 1 = 2 /\ 2 + 1 = 3 /\ \A i \in Seats : i < 3 + 1
  BY DEF Seats
<1>2. Leads(cards, 0) /\ HighestOf(cards, 0, 0)
  BY <1>1 DEF Leads, HighestOf, Seats
<1> DEFINE a == Greater(cards, 0, 0)
           c == Greater(cards, a, 1)
           d == Greater(cards, c, 2)
           e == Greater(cards, d, 3)
<1>3. Leads(cards, a) /\ HighestOf(cards, a, 1)
  <2>1. HighestOf(cards, a, 0 + 1)
    BY <1>1, <1>2, GreaterIsHighest
  <2> QED BY <1>1, <1>2, <2>1, GreaterLeads
<1> HIDE DEF a
<1>4. Leads(cards, c) /\ HighestOf(cards, c, 2)
  <2>1. HighestOf(cards, c, 1 + 1)
    BY <1>1, <1>3, GreaterIsHighest
  <2> QED BY <1>1, <1>3, <2>1, GreaterLeads
<1> HIDE DEF c
<1>5. Leads(cards, d) /\ HighestOf(cards, d, 3)
  <2>1. HighestOf(cards, d, 2 + 1)
    BY <1>1, <1>4, GreaterIsHighest
  <2> QED BY <1>1, <1>4, <2>1, GreaterLeads
<1> HIDE DEF d
<1>6. HighestOf(cards, e, 3 + 1)
  BY <1>1, <1>5, GreaterIsHighest
<1>7. b = e
  BY BestIs DEF a, c, d
<1> HIDE DEF e
<1> QED BY <1>1, <1>6, <1>7 DEF HighestOf
-----------------------------------------------------------------------------
(* Types                                                                   *)

Places == {"out", "start", "deal", "turn", "sleep", "card", "wake", "played", "known",
           "sleepTell", "tell", "done", "score"}
Threads == [pc : Places, gid : Nat, draw : Nat, player : Seats, loser : Seats, next : Seats]
Messages == [draw : Nat, cards : [Seats -> Card \cup {NoCard}] \cup {<<>>}, loser : Seats]
Points == [Seats -> Nat]

ThreadTypes ==
  /\ th \in [Seats -> Threads]
  /\ state \in [Seats -> {"BEFORE_DRAW", "BEFORE_TRICK", "AFTER_TRICK"}]
  /\ bytes \in [Seats -> Nat] /\ sem \in [Seats -> Nat]
  /\ current_game \in Nat /\ current_player \in Seats /\ current_draw \in Nat
  /\ over \in BOOLEAN /\ leaves \in Nat /\ smooth \in BOOLEAN

GameTypes ==
  /\ loaded \in Nat /\ first_seat \in Seats
  /\ hands \in [Seats -> SUBSET Card] /\ table \in [Seats -> Card \cup {NoCard}]
  /\ score \in Points /\ total \in Points
  /\ taken \in Seq(Messages) /\ held \in [Seats -> SUBSET Card]
  /\ told \in [Seats -> [trick : Messages, total : Points]]

Types == ThreadTypes /\ GameTypes

LEMMA OfGame ==
  ASSUME NEW g \in DOMAIN Games
  PROVE  Games[g] \in Game /\ Games[g].first \in Seats /\ Games[g].hands \in [Seats -> SUBSET Card]
<1>1. Games[g] \in Game
  BY GamesAssumption
<1> QED BY <1>1 DEF Game

LEMMA LoserType == ASSUME NEW cards, NEW first \in Seats PROVE get_loser(cards, first) \in Seats
<1>1. get_loser(cards, first) = (Best(cards) + first) % 4
  BY DEF get_loser
<1>2. Best(cards) \in Seats
  BY BestLeads
<1> QED BY <1>1, <1>2 DEF Seats

LEMMA ScoreType ==
  ASSUME NEW rule, NEW cards, NEW deal
  PROVE  calculate_score(rule, cards, deal) \in Nat
<1> DEFINE played == {i \in Seats : cards[i] # NoCard}
           of(S, R) == Cardinality({i \in played : cards[i].suit \in S /\ cards[i].rank \in R})
           suits == {cards[i].suit : i \in played}
           ranks == {cards[i].rank : i \in played}
<1>1. IsFiniteSet(Seats)
  <2>1. IsFiniteSet(0..3)
    <3>1. 0 \in Int /\ 3 \in Int
      OBVIOUS
    <3> QED BY <3>1, FS_Interval, Zenon
  <2> QED BY <2>1 DEF Seats
<1>2. ASSUME NEW S, NEW R PROVE of(S, R) \in Nat
  <2>1. {i \in played : cards[i].suit \in S /\ cards[i].rank \in R} \subseteq Seats
    OBVIOUS
  <2> QED BY <1>1, <2>1, FS_Subset, FS_CardinalityType
<1>3. of({"H"}, ranks) \in Nat /\ of(suits, {10}) \in Nat /\ of(suits, {9, 11}) \in Nat
        /\ of({"H"}, {11}) \in Nat
  BY <1>2
<1> HIDE DEF of
<1> DEFINE a == of({"H"}, ranks)  b == of(suits, {10})  c == of(suits, {9, 11})
           e == of({"H"}, {11})
           for(r, points) == IF rule \in {r, "ALL"} THEN points ELSE 0
<1>4. calculate_score(rule, cards, deal) =
        for("ANY", 1) + for("NO_HEARTS", a) + for("NO_QUEENS", 5 * b)
          + for("NO_MEN", 2 * c) + for("NO_KING_OF_HEARTS", 18 * e)
          + for("NO_7_13", IF deal \in {6, 12} THEN 10 ELSE 0)
  BY DEF calculate_score, of
<1>5. a \in Nat /\ b \in Nat /\ c \in Nat /\ e \in Nat
  BY <1>3
<1> HIDE DEF a, b, c, e
<1> QED BY <1>4, <1>5

LEMMA SeatIsNat == Seats \subseteq Nat /\ 0 \in Seats
BY DEF Seats

LEMMA TypesInit == Init => Types
<1> SUFFICES ASSUME Init PROVE Types
  OBVIOUS
<1>1. Gone \in Threads
  BY DEF Gone, Threads, Places, Seats
<1>2. Message(0, <<>>, 0) \in Messages
  BY DEF Message, Messages, Seats
<1>3. ThreadTypes
  BY <1>1, SeatIsNat DEF Init, ThreadTypes
<1>4. total \in Points
  BY DEF Init, Points
<1>5. GameTypes
  BY <1>2, <1>4 DEF Init, GameTypes, Points, Seats
<1> QED BY <1>3, <1>5 DEF Types

LEMMA PassesType ==
  ASSUME bytes \in [Seats -> Nat], NEW p \in Seats, NEW again, Passes(p, again)
  PROVE  bytes' \in [Seats -> Nat]
<1>1. bytes[p] \in Nat /\ bytes[p] - 4 \in Nat /\ bytes[p] + 1 - 4 \in Nat
  BY DEF Passes
<1> QED BY <1>1 DEF Passes, AllBytes

LEMMA AllBytesType ==
  ASSUME bytes \in [Seats -> Nat] PROVE AllBytes(1) \in [Seats -> Nat]
BY DEF AllBytes

LEMMA WakesType ==
  ASSUME sem \in [Seats -> Nat], NEW p \in Seats, Wakes(p) PROVE sem' \in [Seats -> Nat]
<1>1. sem[p] \in Nat /\ sem[p] + 1 \in Nat
  OBVIOUS
<1> QED BY <1>1 DEF Wakes

LEMMA SleepsType ==
  ASSUME sem \in [Seats -> Nat], NEW p \in Seats, Sleeps(p) PROVE sem' \in [Seats -> Nat]
<1>1. sem[p] \in Nat /\ sem[p] - 1 \in Nat
  BY DEF Sleeps
<1> QED BY <1>1 DEF Sleeps

LEMMA ModTypes ==
  ASSUME NEW i \in Seats, NEW first \in Seats
  PROVE  (4 + i - first) % 4 \in Seats /\ (i + 1 + first) % 4 \in Seats
BY DEF Seats

LEMMA LastType == ASSUME NEW S, NEW s \in Seq(S), s # <<>> PROVE Last(s) \in S
BY DEF Last

LEMMA TypesStep ==
  ASSUME Types, [Next]_vars
  PROVE  Types'
<1> USE DEF Types
<1>0. /\ "out" \in Places /\ "start" \in Places /\ "deal" \in Places /\ "turn" \in Places
      /\ "sleep" \in Places /\ "card" \in Places /\ "played" \in Places /\ "known" \in Places
      /\ "sleepTell" \in Places /\ "tell" \in Places /\ "done" \in Places
      /\ "score" \in Places /\ "wake" \in Places
  BY DEF Places
<1>1. \A p \in Seats : th[p] \in Threads
  BY DEF ThreadTypes
<1>2. ASSUME NEW p \in Seats, NEW r \in Threads PROVE [th EXCEPT ![p] = r] \in [Seats -> Threads]
  BY DEF ThreadTypes
<1>3. ASSUME NEW p \in Seats, Join(p) PROVE Types'
  <2>1. [Gone EXCEPT !.gid = current_game,
                     !.pc = IF state[p] = "BEFORE_DRAW" THEN "start" ELSE "deal"] \in Threads
    <3>1. Gone \in Threads /\ current_game \in Nat
      BY <1>0, <1>1 DEF Gone, Threads, Seats, ThreadTypes
    <3> QED BY <1>0, <3>1 DEF Threads
  <2>2. ThreadTypes'
    BY <1>2, <1>3, <2>1, AllBytesType DEF ThreadTypes, Join, Step, sync
  <2>3. GameTypes'
    BY <1>3 DEF GameTypes, Join, game
  <2> QED BY <2>2, <2>3
<1>4. ASSUME NEW p \in Seats, Start(p) PROVE Types'
  <2>1. [th[p] EXCEPT !.pc = "deal"] \in Threads
    <3>1. th[p] \in Threads
      BY <1>0, <1>1 DEF Threads, ThreadTypes
    <3> QED BY <1>0, <3>1 DEF Threads
  <2>2. ThreadTypes'
    BY <1>2, <1>4, <2>1, PassesType DEF ThreadTypes, Start, Step, sync
  <2>3. GameTypes'
    BY <1>4 DEF GameTypes, Start, game
  <2> QED BY <2>2, <2>3
<1>5. ASSUME NEW p \in Seats, Deal(p) PROVE Types'
  <2>1. [th[p] EXCEPT !.pc = "turn", !.draw = current_draw] \in Threads
    <3>1. th[p] \in Threads /\ current_draw \in Nat
      BY <1>0, <1>1 DEF Threads, ThreadTypes
    <3> QED BY <1>0, <3>1 DEF Threads
  <2>2. ThreadTypes'
    BY <1>2, <1>5, <2>1 DEF ThreadTypes, Deal, Step, sync
  <2>3. GameTypes'
    <3>1. loaded' \in Nat
      BY <1>1, <1>5 DEF Deal, game, GameTypes, Threads
    <3>2. first_seat' \in Seats /\ hands' \in [Seats -> SUBSET Card]
            /\ table' \in [Seats -> Card \cup {NoCard}]
      BY <1>5, OfGame DEF Deal, game, GameTypes
    <3>3. held' \in [Seats -> SUBSET Card]
      <4>1. ASSUME loaded' \in DOMAIN Games PROVE Games[loaded'].hands[p] \subseteq Card
        BY <4>1, OfGame
      <4> QED BY <1>5, <4>1 DEF Deal, GameTypes
    <3>4. told' \in [Seats -> [trick : Messages, total : Points]]
      <4>1. told[p] \in [trick : Messages, total : Points]
        BY DEF GameTypes
      <4>2. ASSUME taken # <<>> PROVE Last(taken) \in Messages
        BY <4>2, LastType DEF GameTypes
      <4> QED BY <1>5, <4>1, <4>2 DEF Deal, GameTypes
    <3> QED BY <1>5, <3>1, <3>2, <3>3, <3>4 DEF Deal, GameTypes
  <2> QED BY <2>2, <2>3
<1>6. ASSUME NEW p \in Seats, Turn(p) PROVE Types'
  <2>1. [th[p] EXCEPT !.player = (4 + p - first_seat) % 4,
                       !.pc = IF (4 + p - first_seat) % 4 > current_player THEN "sleep" ELSE "card"] \in Threads
    <3>1. th[p] \in Threads /\ (4 + p - first_seat) % 4 \in Seats
      BY <1>1, ModTypes DEF GameTypes
    <3> QED BY <1>0, <3>1 DEF Threads
  <2>2. ThreadTypes'
    BY <1>2, <1>6, <2>1 DEF ThreadTypes, Turn, Step, sync, Threads
  <2>3. GameTypes'
    BY <1>6 DEF GameTypes, Turn, game
  <2> QED BY <2>2, <2>3
<1>7. ASSUME NEW p \in Seats, WakeUp(p) PROVE Types'
  <2>1. [th[p] EXCEPT !.pc = "card"] \in Threads
    <3>1. th[p] \in Threads
      BY <1>0, <1>1 DEF Threads, ThreadTypes
    <3> QED BY <1>0, <3>1 DEF Threads
  <2>2. ThreadTypes'
    BY <1>2, <1>7, <2>1, SleepsType DEF ThreadTypes, WakeUp, Step, sync, Threads
  <2>3. GameTypes'
    BY <1>7 DEF GameTypes, WakeUp, game
  <2> QED BY <2>2, <2>3
<1>8. ASSUME NEW p \in Seats, PlayCard(p) PROVE Types'
  <2>1. [th[p] EXCEPT !.pc = "played"] \in Threads
    <3>1. th[p] \in Threads
      BY <1>0, <1>1 DEF Threads, ThreadTypes
    <3> QED BY <1>0, <3>1 DEF Threads
  <2>2. th[p].player \in Seats /\ first_seat \in Seats
    BY <1>1 DEF Threads, GameTypes
  <2>3. [th[p] EXCEPT !.pc = "wake", !.next = (th[p].player + 1 + first_seat) % 4] \in Threads
    <3>1. th[p] \in Threads /\ (th[p].player + 1 + first_seat) % 4 \in Seats
      BY <1>1, <2>2, ModTypes
    <3> QED BY <1>0, <3>1 DEF Threads
  <2>4. current_player' \in Seats
    BY <1>8, <2>2 DEF PlayCard, Seats
  <2>5. ThreadTypes'
    BY <1>2, <1>8, <2>1, <2>3, <2>4, AllBytesType DEF ThreadTypes, PlayCard, Step
  <2>6. table' \in [Seats -> Card \cup {NoCard}] /\ hands' \in [Seats -> SUBSET Card]
    <3>1. (4 + p - first_seat) % 4 \in Seats /\ 0 \in Seats
      BY <2>2, ModTypes, SeatIsNat
    <3> DEFINE place == IF table[0] = NoCard THEN 0 ELSE (4 + p - first_seat) % 4
    <3>2. place \in Seats
      BY <3>1
    <3> HIDE DEF place
    <3>3. PICK c \in hands[p] : /\ table' = [table EXCEPT ![place] = c]
                               /\ hands' = [hands EXCEPT ![p] = @ \ {c}]
      BY <1>8 DEF PlayCard, place
    <3>4. c \in Card /\ hands[p] \ {c} \subseteq Card
      BY DEF GameTypes
    <3> QED BY <3>2, <3>3, <3>4 DEF GameTypes
  <2>7. GameTypes'
    BY <1>8, <2>6 DEF GameTypes, PlayCard
  <2> QED BY <2>5, <2>7
<1>9. ASSUME NEW p \in Seats, Played(p) PROVE Types'
  <2>1. [th[p] EXCEPT !.pc = "known", !.loser = get_loser(table, first_seat),
                       !.next = (th[p].player + 1 + first_seat) % 4] \in Threads
    <3>0. th[p] \in Threads /\ th[p].player \in Seats /\ first_seat \in Seats
      BY <1>1 DEF Threads, GameTypes
    <3>1. th[p] \in Threads /\ get_loser(table, first_seat) \in Seats
            /\ (th[p].player + 1 + first_seat) % 4 \in Seats
      BY <3>0, LoserType, ModTypes
    <3> QED BY <1>0, <3>1 DEF Threads
  <2>2. ThreadTypes'
    BY <1>2, <1>9, <2>1, PassesType DEF ThreadTypes, Played, Step, sync
  <2>3. GameTypes'
    BY <1>9 DEF GameTypes, Played, game
  <2> QED BY <2>2, <2>3
<1>10. ASSUME NEW p \in Seats, Known(p) PROVE Types'
  <2>1. [th[p] EXCEPT !.pc = "tell"] \in Threads
    <3>1. th[p] \in Threads
      BY <1>0, <1>1 DEF Threads, ThreadTypes
    <3> QED BY <1>0, <3>1 DEF Threads
  <2>2. [th[p] EXCEPT !.pc = "sleepTell"] \in Threads
    <3>1. th[p] \in Threads
      BY <1>0, <1>1 DEF Threads, ThreadTypes
    <3> QED BY <1>0, <3>1 DEF Threads
  <2>3. ThreadTypes'
    BY <1>2, <1>10, <2>1, <2>2, PassesType DEF ThreadTypes, Known, Step, sync
  <2>4. GameTypes'
    <3>1. Message(th[p].draw, table, th[p].loser) \in Messages
      BY <1>1 DEF Message, Messages, Threads, GameTypes
    <3>2. taken' \in Seq(Messages)
      <4> DEFINE m == Message(th[p].draw, table, th[p].loser)
      <4>1. taken \in Seq(Messages) /\ (taken' = taken \/ taken' = Append(taken, m))
        BY <1>10 DEF Known, GameTypes
      <4> HIDE DEF m
      <4>2. Append(taken, m) \in Seq(Messages)
        BY <3>1, <4>1 DEF m
      <4> QED BY <4>1, <4>2
    <3> DEFINE points == calculate_score(Games[loaded].rule, table, th[p].draw)
    <3>3. points \in Nat
      BY ScoreType
    <3>4. ASSUME NEW f \in Points PROVE [f EXCEPT ![p] = @ + points] \in Points
      BY <3>3 DEF Points
    <3> HIDE DEF points
    <3>5. score' \in Points /\ total' \in Points /\ first_seat' \in Seats
      BY <1>10, <3>4 DEF Known, GameTypes, points
    <3> QED BY <1>10, <3>2, <3>5 DEF Known, GameTypes
  <2> QED BY <2>3, <2>4
<1>11. ASSUME NEW p \in Seats, WakeUpTell(p) PROVE Types'
  <2>1. [th[p] EXCEPT !.pc = "tell"] \in Threads
    <3>1. th[p] \in Threads
      BY <1>0, <1>1 DEF Threads, ThreadTypes
    <3> QED BY <1>0, <3>1 DEF Threads
  <2>2. ThreadTypes'
    BY <1>2, <1>11, <2>1, SleepsType DEF ThreadTypes, WakeUpTell, Step, sync
  <2>3. GameTypes'
    BY <1>11 DEF GameTypes, WakeUpTell, game
  <2> QED BY <2>2, <2>3
<1>12. ASSUME NEW p \in Seats, Tell(p) PROVE Types'
  <2>1. [th[p] EXCEPT !.pc = "done"] \in Threads
    <3>1. th[p] \in Threads
      BY <1>0, <1>1 DEF Threads, ThreadTypes
    <3> QED BY <1>0, <3>1 DEF Threads
  <2>4. th[p].next \in Seats
    BY <1>1 DEF Threads
  <2>5. sem' \in [Seats -> Nat]
    BY <1>12, <2>4, WakesType DEF Tell, ThreadTypes
  <2>2. ThreadTypes'
    BY <1>2, <1>12, <2>1, <2>5, AllBytesType DEF ThreadTypes, Tell, Step, sync
  <2>3. GameTypes'
    <3>1. ASSUME taken # <<>> PROVE Last(taken) \in Messages
      BY <3>1, LastType DEF GameTypes
    <3>2. told[p] \in [trick : Messages, total : Points] /\ held[p] \subseteq Card
      BY DEF GameTypes
    <3>3. told' \in [Seats -> [trick : Messages, total : Points]]
      BY <1>12, <3>1, <3>2 DEF Tell, GameTypes
    <3>4. held' \in [Seats -> SUBSET Card]
      BY <1>12, <3>2 DEF Tell, GameTypes
    <3> QED BY <1>12, <3>3, <3>4 DEF Tell, GameTypes, game
  <2> QED BY <2>2, <2>3
<1>13. ASSUME NEW p \in Seats, TrickDone(p) PROVE Types'
  <2>1. [th[p] EXCEPT !.pc = "turn", !.draw = @ + 1] \in Threads
    <3>1. th[p] \in Threads /\ th[p].draw + 1 \in Nat
      BY <1>0, <1>1 DEF Threads, ThreadTypes
    <3> QED BY <1>0, <3>1 DEF Threads
  <2>2. [th[p] EXCEPT !.pc = "score"] \in Threads
    <3>1. th[p] \in Threads
      BY <1>0, <1>1 DEF Threads, ThreadTypes
    <3> QED BY <1>0, <3>1 DEF Threads
  <2>3. ThreadTypes'
    BY <1>2, <1>13, <2>1, <2>2, PassesType DEF ThreadTypes, TrickDone, Step, sync
  <2>4. GameTypes'
    BY <1>13 DEF GameTypes, TrickDone, game
  <2> QED BY <2>3, <2>4
<1>14. ASSUME NEW p \in Seats, Score(p) PROVE Types'
  <2>1. [th[p] EXCEPT !.pc = "start", !.gid = @ + 1] \in Threads
    <3>1. th[p] \in Threads /\ th[p].gid + 1 \in Nat
      BY <1>0, <1>1 DEF Threads, ThreadTypes
    <3> QED BY <1>0, <3>1 DEF Threads
  <2>2. ThreadTypes'
    BY <1>2, <1>14, <2>1, AllBytesType DEF ThreadTypes, Score, Step, sync, Threads
  <2>3. GameTypes'
    <3>1. told[p] \in [trick : Messages, total : Points]
      BY DEF GameTypes
    <3>2. score' \in Points
      BY <1>14 DEF Score, GameTypes, Points
    <3> QED BY <1>14, <3>1, <3>2 DEF Score, GameTypes, game
  <2> QED BY <2>2, <2>3
<1>15. ASSUME NEW p \in Seats, Leave(p) PROVE Types'
  <2>1. Gone \in Threads
    <3>1. Gone \in Threads
      BY <1>0, <1>1 DEF Gone, Threads, Seats, ThreadTypes
    <3> QED BY <1>0, <3>1 DEF Threads
  <2>2. ThreadTypes'
    BY <1>2, <1>15, <2>1 DEF ThreadTypes, Leave, Step, sync
  <2>3. GameTypes'
    BY <1>15 DEF GameTypes, Leave, game
  <2> QED BY <2>2, <2>3
<1>16. ASSUME NEW p \in Seats, LeaveTell(p) PROVE Types'
  <2>1. Gone \in Threads
    <3>1. Gone \in Threads
      BY <1>0, <1>1 DEF Gone, Threads, Seats, ThreadTypes
    <3> QED BY <1>0, <3>1 DEF Threads
  <2>4. th[p].next \in Seats
    BY <1>1 DEF Threads
  <2>5. sem' \in [Seats -> Nat]
    BY <1>16, <2>4, WakesType DEF LeaveTell, ThreadTypes
  <2>2. ThreadTypes'
    <3>1. th' \in [Seats -> Threads] /\ leaves' \in Nat /\ smooth' \in BOOLEAN
      <4>1. th' \in [Seats -> Threads]
        BY <1>2, <1>16, <2>1 DEF LeaveTell, Step
      <4>2. leaves' = leaves + 1 /\ smooth' = FALSE
        BY <1>16 DEF LeaveTell
      <4>3. leaves' \in Nat
        BY <4>2 DEF ThreadTypes
      <4>4. smooth' \in BOOLEAN
        BY <4>2, Zenon
      <4> QED BY <4>1, <4>3, <4>4
    <3> QED BY <1>16, <2>5, <3>1 DEF ThreadTypes, LeaveTell, sync
  <2>3. GameTypes'
    BY <1>16 DEF GameTypes, LeaveTell, game
  <2> QED BY <2>2, <2>3
<1>17. ASSUME NEW p \in Seats, WakeNext(p) PROVE Types'
  <2>1. [th[p] EXCEPT !.pc = "played"] \in Threads
    BY <1>0, <1>1 DEF Threads
  <2>2. th[p].next \in Seats
    BY <1>1 DEF Threads
  <2>3. sem' \in [Seats -> Nat]
    BY <1>17, <2>2, WakesType DEF WakeNext, ThreadTypes
  <2>4. ThreadTypes'
    BY <1>2, <1>17, <2>1, <2>3, AllBytesType DEF ThreadTypes, WakeNext, Step, sync
  <2>5. GameTypes'
    BY <1>17 DEF GameTypes, WakeNext, game
  <2> QED BY <2>4, <2>5
<1>18. ASSUME UNCHANGED vars PROVE Types'
  BY <1>18 DEF vars, sync, game, ThreadTypes, GameTypes
<1> QED BY <1>3, <1>4, <1>5, <1>6, <1>7, <1>8, <1>9, <1>10, <1>11, <1>12, <1>13, <1>14, <1>15, <1>16, <1>17, <1>18
       DEF Next, Thread, Terminated

THEOREM TypesHold == Spec => []Types
BY TypesInit, TypesStep, PTL DEF Spec

-----------------------------------------------------------------------------
(* The rounds of the barrier                                               *)

\* The place of seat p among the players, and the seat of player i.
Place(p, first) == (4 + p - first) % 4
SeatAt(i, first) == (i + first) % 4

LEMMA PlaceFacts ==
  ASSUME NEW first \in Seats
  PROVE  /\ \A p \in Seats : Place(p, first) \in Seats /\ SeatAt(Place(p, first), first) = p
         /\ \A i \in Seats : SeatAt(i, first) \in Seats /\ Place(SeatAt(i, first), first) = i
         /\ \A p, q \in Seats : Place(p, first) = Place(q, first) => p = q
BY DEF Place, SeatAt, Seats

\* Four bytes are there for who waits at the barrier that all have entered.
Ready(p) == IF th[p].pc \in {"start", "done"} THEN 4 ELSE 0

\* The thread has not asked for its card of trick d yet ...
Coming(p, d) ==
  \/ th[p].pc \in {"start", "deal"} /\ d = 0 /\ state[p] = "BEFORE_DRAW"
  \/ th[p].pc = "done" /\ th[p].draw + 1 = d /\ state[p] = "BEFORE_TRICK"
  \/ th[p].pc = "turn" /\ th[p].draw = d /\ state[p] = "BEFORE_TRICK"
  \/ /\ th[p].pc = "sleep" /\ th[p].draw = d /\ state[p] = "BEFORE_TRICK"
     /\ th[p].player = Place(p, first_seat) /\ th[p].player # 0

\* ... it asks, or its player went away while it did ...
Asked(p, d) ==
  /\ state[p] = "BEFORE_TRICK" /\ current_draw = d /\ loaded = current_game
  /\ \/ th[p].pc \in {"out", "deal"}
     \/ th[p].pc = "turn" /\ th[p].draw = d
     \/ th[p].pc = "card" /\ th[p].draw = d /\ th[p].player = Place(p, first_seat)

\* ... or the card is on the table, and the next player is woken or about to be.
Answered(p, d) ==
  /\ th[p].draw = d /\ th[p].player = Place(p, first_seat)
  /\ \/ th[p].pc = "played"
     \/ /\ th[p].pc = "wake" /\ Place(p, first_seat) + 1 = current_player
        /\ th[p].next = SeatAt(current_player, first_seat)

\* Whether a byte is on its way that the counter and the barrier wait for.
Waking == IF \E p \in Seats : th[p].pc = "wake" THEN 1 ELSE 0

InTurn(p, d) ==
  LET i == Place(p, first_seat)
      n == current_player
  IN \/ i < n /\ sem[p] = 0 /\ Answered(p, d)
     \/ i = n /\ sem[p] = (IF n = 0 THEN 0 ELSE 1 - Waking) /\ Coming(p, d)
     \/ i = n /\ sem[p] = 0 /\ Waking = 0 /\ Asked(p, d)
     \/ i > n /\ sem[p] = 0 /\ Coming(p, d)

CardThread(p, g, d) ==
  /\ bytes[p] + Waking = current_player + Ready(p)
  /\ th[p].pc = "out" \/ th[p].gid = g
  /\ InTurn(p, d)

DrawKnown(d) ==
  current_draw = d \/ (d > 0 /\ \A p \in Seats : th[p].pc \in {"done", "turn"})

GameKnown(g, d) ==
  \/ loaded = g /\ g \in DOMAIN Games
  \/ /\ loaded < g /\ d = 0 /\ current_player = 0
     /\ \A p \in Seats : th[p].pc \in {"start", "deal"} /\ state[p] = "BEFORE_DRAW"

OnTable(cards, n) == \A i \in Seats : (cards[i] # NoCard) <=> (i < n)

\* The cards of trick d of game g are asked for and put down.
CardRound(g, d) ==
  /\ d < Tricks /\ ~over /\ current_game = g
  /\ DrawKnown(d) /\ GameKnown(g, d)
  /\ \A p \in Seats : CardThread(p, g, d)
  /\ \A p \in Seats : current_player > 0 \/ th[p].pc = "card" => OnTable(table, current_player)

LEMMA Moves ==
  ASSUME Types, NEW p \in Seats, NEW r, Step(p, r)
  PROVE  th'[p] = r /\ \A q \in Seats \ {p} : th'[q] = th[q]
BY DEF Types, ThreadTypes, Step

LEMMA WakingIs ==
  /\ Waking \in {0, 1}
  /\ Waking = 0 <=> \A p \in Seats : th[p].pc # "wake"
BY DEF Waking

LEMMA WakingKept ==
  ASSUME NEW p \in Seats, th[p].pc # "wake", th'[p].pc # "wake",
         \A q \in Seats \ {p} : th'[q] = th[q]
  PROVE  Waking' = Waking
BY DEF Waking

LEMMA ThreadIs ==
  ASSUME Types, NEW p \in Seats
  PROVE  /\ th[p] \in Threads /\ th[p].gid \in Nat /\ th[p].draw \in Nat
         /\ th[p].player \in Seats /\ th[p].loser \in Seats /\ th[p].next \in Seats
         /\ bytes[p] \in Nat /\ sem[p] \in Nat
BY DEF Types, ThreadTypes, Threads

LEMMA ChangePc ==
  ASSUME NEW t \in Threads, NEW pc
  PROVE  LET r == [t EXCEPT !.pc = pc] IN
         /\ r.pc = pc /\ r.gid = t.gid /\ r.draw = t.draw /\ r.player = t.player
         /\ r.loser = t.loser /\ r.next = t.next
BY DEF Threads

LEMMA MovesTo ==
  ASSUME Types, NEW p \in Seats, NEW pc, Step(p, [th[p] EXCEPT !.pc = pc])
  PROVE  /\ th'[p].pc = pc /\ th'[p].gid = th[p].gid /\ th'[p].draw = th[p].draw
         /\ th'[p].player = th[p].player /\ th'[p].loser = th[p].loser
         /\ th'[p].next = th[p].next
         /\ \A q \in Seats \ {p} : th'[q] = th[q]
<1> DEFINE r == [th[p] EXCEPT !.pc = pc]
<1>1. /\ r.pc = pc /\ r.gid = th[p].gid /\ r.draw = th[p].draw /\ r.player = th[p].player
      /\ r.loser = th[p].loser /\ r.next = th[p].next
  BY ThreadIs, ChangePc
<1>2. Step(p, r)
  OBVIOUS
<1> HIDE DEF r
<1> QED BY <1>1, <1>2, Moves

LEMMA JoinCard ==
  ASSUME Types, NEW g \in Nat, NEW d \in Nat, CardRound(g, d), NEW p \in Seats, Join(p)
  PROVE  CardRound(g, d)'
<1> DEFINE n == current_player
           r == [Gone EXCEPT !.gid = current_game,
                             !.pc = IF state[p] = "BEFORE_DRAW" THEN "start" ELSE "deal"]
<1>1. th[p].pc = "out" /\ CardThread(p, g, d) /\ current_game = g
  BY DEF Join, At, CardRound
<1>2. Place(p, first_seat) = n /\ sem[p] = 0 /\ Waking = 0 /\ Asked(p, d)
  BY <1>1 DEF CardThread, InTurn, Coming, Answered
<1>3. r.pc = "deal" /\ r.gid = g
  BY <1>1, <1>2 DEF Gone, Asked
<1>4. th'[p] = r /\ \A q \in Seats \ {p} : th'[q] = th[q]
  BY Moves DEF Join
<1> HIDE DEF r
<1>5. UNCHANGED <<state, bytes, sem, sync, game, over>>
  BY <1>2 DEF Join, Asked
<1>9. Waking' = Waking
  BY <1>1, <1>3, <1>4, WakingKept
<1>6. CardThread(p, g, d)'
  BY <1>1, <1>2, <1>3, <1>4, <1>5, <1>9 DEF CardThread, InTurn, Asked, Ready, sync, game
<1>7. \A q \in Seats \ {p} : CardThread(q, g, d)'
  BY <1>4, <1>5, <1>9 DEF CardRound, CardThread, InTurn, Asked, Coming, Answered, Ready, sync, game
<1>8. DrawKnown(d)' /\ GameKnown(g, d)'
  BY <1>1, <1>2, <1>3, <1>4, <1>5 DEF CardRound, DrawKnown, GameKnown, Asked, sync, game
<1> QED BY <1>3, <1>4, <1>5, <1>6, <1>7, <1>8 DEF CardRound, OnTable, sync, game

LEMMA PassesOnce ==
  ASSUME Types, NEW p \in Seats, Passes(p, FALSE)
  PROVE  /\ bytes[p] >= 4 /\ bytes'[p] = bytes[p] - 4
         /\ \A q \in Seats \ {p} : bytes'[q] = bytes[q]
<1>1. bytes \in [Seats -> Nat]
  BY DEF Types, ThreadTypes
<1>2. AllBytes(0) = bytes
  BY <1>1 DEF AllBytes
<1> QED BY <1>1, <1>2 DEF Passes

LEMMA PassesOn ==
  ASSUME Types, NEW p \in Seats, Passes(p, TRUE)
  PROVE  /\ bytes[p] >= 4 /\ bytes'[p] = bytes[p] - 3
         /\ \A q \in Seats \ {p} : bytes'[q] = bytes[q] + 1
<1>1. bytes \in [Seats -> Nat]
  BY DEF Types, ThreadTypes
<1>2. (bytes[p] + 1) - 4 = bytes[p] - 3
  BY <1>1
<1> QED BY <1>1, <1>2 DEF Passes, AllBytes

LEMMA StartCard ==
  ASSUME Types, NEW g \in Nat, NEW d \in Nat, CardRound(g, d), NEW p \in Seats, Start(p)
  PROVE  CardRound(g, d)'
<1> DEFINE r == [th[p] EXCEPT !.pc = "deal"]
<1>1. th[p].pc = "start" /\ CardThread(p, g, d) /\ current_player \in Seats
  BY DEF Start, At, CardRound, Types, ThreadTypes
<1>2. r.pc = "deal" /\ r.gid = th[p].gid
  BY ThreadIs, ChangePc
<1>3. th'[p] = r /\ \A q \in Seats \ {p} : th'[q] = th[q]
  BY Moves DEF Start
<1> HIDE DEF r
<1>4. bytes'[p] = bytes[p] - 4 /\ \A q \in Seats \ {p} : bytes'[q] = bytes[q]
  BY PassesOnce DEF Start
<1>5. UNCHANGED <<state, sem, sync, game, over>>
  BY DEF Start
<1>9. Waking' = Waking /\ Waking \in {0, 1} /\ bytes[p] \in Nat
  BY <1>1, <1>2, <1>3, WakingKept, WakingIs, ThreadIs
<1>6. CardThread(p, g, d)'
  BY <1>1, <1>2, <1>3, <1>4, <1>5, <1>9
     DEF CardThread, InTurn, Coming, Asked, Answered, Ready, sync, game, Seats
<1>7. \A q \in Seats \ {p} : CardThread(q, g, d)'
  BY <1>3, <1>4, <1>5, <1>9 DEF CardRound, CardThread, InTurn, Asked, Coming, Answered, Ready, sync, game
<1>8. DrawKnown(d)' /\ GameKnown(g, d)'
  BY <1>1, <1>2, <1>3, <1>4, <1>5 DEF CardRound, DrawKnown, GameKnown, sync, game
<1> QED BY <1>2, <1>3, <1>5, <1>6, <1>7, <1>8 DEF CardRound, OnTable, sync, game

\* The first to come loads the game; if there is none, the program ends.
LEMMA DealCard ==
  ASSUME Types, NEW g \in Nat, NEW d \in Nat, CardRound(g, d), NEW p \in Seats, Deal(p)
  PROVE  \/ CardRound(g, d)' /\ ~over'
         \/ over' /\ \A q \in Seats : th'[q].pc \in {"start", "deal"}
<1>1. th[p].pc = "deal" /\ CardThread(p, g, d) /\ current_player \in Seats /\ th[p].gid = g
        /\ current_game = g /\ first_seat \in Seats /\ th[p] \in Threads /\ ~over
        /\ loaded \in Nat /\ current_draw \in Nat
  BY DEF Deal, At, CardRound, CardThread, Types, ThreadTypes, GameTypes
<1>2. CASE loaded' \notin DOMAIN Games
  <2>1. over' = TRUE /\ th' = th
    BY <1>2 DEF Deal
  <2>2. ~(loaded = g /\ g \in DOMAIN Games)
    BY <1>1, <1>2 DEF Deal, game
  <2> QED BY <2>1, <2>2 DEF CardRound, GameKnown
<1>3. CASE loaded' \in DOMAIN Games
  <2> DEFINE r == [th[p] EXCEPT !.pc = "turn", !.draw = current_draw]
  <2>1. r.pc = "turn" /\ r.gid = g /\ r.draw = current_draw
    BY <1>1 DEF Threads
  <2>2. th'[p] = r /\ \A q \in Seats \ {p} : th'[q] = th[q]
    BY <1>3, Moves DEF Deal
  <2> HIDE DEF r
  <2>3. UNCHANGED <<bytes, sem, sync, over>>
    BY <1>3 DEF Deal
  <2>4. state'[p] = "BEFORE_TRICK" /\ \A q \in Seats \ {p} : state'[q] = state[q]
    BY <1>3 DEF Deal, Types, ThreadTypes
  <2>5. loaded' = g /\ g \in DOMAIN Games
    BY <1>1, <1>3 DEF Deal, CardRound, GameKnown, game
  <2>6. current_draw = d
    BY <1>1 DEF CardRound, DrawKnown
  <2>9. Waking' = Waking
    BY <1>1, <2>1, <2>2, WakingKept
  <2>7. CASE loaded = g
    <3>1. UNCHANGED <<first_seat, table, loaded>>
      BY <1>1, <2>7 DEF Deal, game
    <3>2. CardThread(p, g, d)'
      BY <1>1, <2>1, <2>2, <2>3, <2>4, <2>5, <2>6, <2>9, <3>1
         DEF CardThread, InTurn, Coming, Asked, Answered, Ready, sync, Seats
    <3>3. \A q \in Seats \ {p} : CardThread(q, g, d)'
      BY <2>2, <2>3, <2>4, <2>5, <2>9, <3>1
         DEF CardRound, CardThread, InTurn, Asked, Coming, Answered, Ready, sync
    <3>4. DrawKnown(d)' /\ GameKnown(g, d)'
      BY <2>3, <2>5, <2>6 DEF DrawKnown, GameKnown, sync
    <3> QED BY <1>1, <2>1, <2>2, <2>3, <3>1, <3>2, <3>3, <3>4 DEF CardRound, OnTable, sync
  <2>8. CASE loaded # g
    <3>1. /\ d = 0 /\ current_player = 0
          /\ \A q \in Seats : th[q].pc \in {"start", "deal"} /\ state[q] = "BEFORE_DRAW"
      BY <2>8 DEF CardRound, GameKnown
    <3>8. Waking = 0
      BY <3>1, WakingIs
    <3>2. first_seat' \in Seats
      BY <1>1, <1>3, <2>5, <2>8, OfGame DEF CardRound, GameKnown, Deal
    <3>3. \A q \in Seats : Place(q, first_seat') \in Seats
      BY <3>2, PlaceFacts
    <3>4. \A q \in Seats : sem[q] = 0 /\ bytes[q] = Ready(q) /\ th[q].gid = g
      <4>1. ASSUME NEW q \in Seats PROVE sem[q] = 0 /\ bytes[q] = Ready(q) /\ th[q].gid = g
        <5>1. CardThread(q, g, d) /\ Place(q, first_seat) \in Seats /\ bytes[q] \in Nat
          BY <1>1, PlaceFacts, ThreadIs DEF CardRound
        <5> QED BY <3>1, <3>8, <5>1 DEF CardThread, InTurn, Answered, Coming, Asked, Ready, Seats
      <4> QED BY <4>1
    <3>5. ASSUME NEW q \in Seats PROVE CardThread(q, g, d)'
      <4>1. Place(q, first_seat') \in Seats
        BY <3>3
      <4>2. sem'[q] = 0 /\ current_player' = 0 /\ bytes'[q] = Ready(q) /\ th[q].gid = g
              /\ current_draw' = d /\ d = 0 /\ Waking' = 0
        BY <2>3, <2>6, <2>9, <3>1, <3>4, <3>8 DEF sync
      <4>3. CASE q = p
        BY <1>1, <2>1, <2>2, <2>4, <2>6, <4>1, <4>2, <4>3 DEF CardThread, InTurn, Coming, Ready, Seats
      <4>4. CASE q # p
        <5>1. th'[q] = th[q] /\ state'[q] = "BEFORE_DRAW" /\ th[q].pc \in {"start", "deal"}
          BY <2>2, <2>4, <3>1, <4>4
        <5> QED BY <4>1, <4>2, <5>1 DEF CardThread, InTurn, Coming, Ready, Seats
      <4> QED BY <4>3, <4>4
    <3>6. \A q \in Seats : th'[q].pc # "card"
      BY <2>1, <2>2, <3>1
    <3>7. DrawKnown(d)' /\ GameKnown(g, d)'
      BY <2>3, <2>5, <2>6 DEF DrawKnown, GameKnown, sync
    <3>9. d < Tricks /\ ~over' /\ current_game' = g /\ current_player' = 0
      BY <2>3, <3>1 DEF CardRound, sync
    <3>10. \A q \in Seats : ~(current_player' > 0 \/ th'[q].pc = "card")
      BY <3>6, <3>9
    <3> QED BY <3>5, <3>7, <3>9, <3>10 DEF CardRound
  <2> QED BY <2>7, <2>8
<1> QED BY <1>2, <1>3

LEMMA TrickDoneCard ==
  ASSUME Types, NEW g \in Nat, NEW d \in Nat, CardRound(g, d), NEW p \in Seats, TrickDone(p)
  PROVE  CardRound(g, d)'
<1>1. th[p].pc = "done" /\ CardThread(p, g, d) /\ current_player \in Seats /\ th[p] \in Threads
        /\ th[p].draw \in Nat
  BY ThreadIs DEF TrickDone, At, CardRound, Types, ThreadTypes
<1>2. th[p].draw + 1 = d /\ state[p] = "BEFORE_TRICK" /\ d > 0 /\ d < Tricks
  BY <1>1 DEF CardThread, InTurn, Answered, Coming, Asked, CardRound
<1> DEFINE r == [th[p] EXCEPT !.pc = "turn", !.draw = @ + 1]
<1>3. r.pc = "turn" /\ r.gid = th[p].gid /\ r.draw = d
  BY <1>1, <1>2 DEF Threads
<1>4. th'[p] = r /\ \A q \in Seats \ {p} : th'[q] = th[q]
  BY <1>2, Moves DEF TrickDone
<1> HIDE DEF r
<1>5. bytes'[p] = bytes[p] - 4 /\ \A q \in Seats \ {p} : bytes'[q] = bytes[q]
  BY PassesOnce DEF TrickDone
<1>6. UNCHANGED <<state, sem, sync, game, over>>
  BY DEF TrickDone
<1>10. Waking' = Waking /\ Waking \in {0, 1} /\ bytes[p] \in Nat
  BY <1>1, <1>3, <1>4, WakingKept, WakingIs, ThreadIs
<1>7. CardThread(p, g, d)'
  BY <1>1, <1>2, <1>3, <1>4, <1>5, <1>6, <1>10
     DEF CardThread, InTurn, Coming, Asked, Answered, Ready, sync, game, Seats
<1>8. \A q \in Seats \ {p} : CardThread(q, g, d)'
  BY <1>4, <1>5, <1>6, <1>10 DEF CardRound, CardThread, InTurn, Asked, Coming, Answered, Ready, sync, game
<1>9. DrawKnown(d)' /\ GameKnown(g, d)'
  BY <1>1, <1>2, <1>3, <1>4, <1>6 DEF CardRound, DrawKnown, GameKnown, sync, game
<1> QED BY <1>3, <1>4, <1>6, <1>7, <1>8, <1>9 DEF CardRound, OnTable, sync, game

\* Whose turn has come asks at once, if its byte is not left in the pipe.
LEMMA TurnCard ==
  ASSUME Types, NEW g \in Nat, NEW d \in Nat, CardRound(g, d), NEW p \in Seats, Turn(p), smooth'
  PROVE  CardRound(g, d)'
<1> DEFINE i == Place(p, first_seat)
           r == [th[p] EXCEPT !.player = i, !.pc = IF i > current_player THEN "sleep" ELSE "card"]
<1>1. th[p].pc = "turn" /\ CardThread(p, g, d) /\ current_player \in Seats /\ th[p] \in Threads
        /\ th[p].draw \in Nat /\ first_seat \in Seats /\ i \in Seats
  BY ThreadIs, PlaceFacts DEF Turn, At, CardRound, Types, ThreadTypes, GameTypes
<1>2. th[p].draw = d /\ state[p] = "BEFORE_TRICK"
  BY <1>1 DEF CardThread, InTurn, Answered, Coming, Asked
<1>3. loaded = g /\ g \in DOMAIN Games /\ current_game = g
  BY <1>1 DEF CardRound, GameKnown
<1>4. r.pc = (IF i > current_player THEN "sleep" ELSE "card") /\ r.gid = th[p].gid /\ r.draw = d
        /\ r.player = i
  BY <1>1, <1>2 DEF Threads
<1>5. th'[p] = r /\ \A q \in Seats \ {p} : th'[q] = th[q]
  BY Moves DEF Turn, Place
<1> HIDE DEF r
<1>6. current_draw' = d /\ (i > current_player \/ ~Called(p))
        /\ table' = IF i = 0 THEN [k \in Seats |-> NoCard] ELSE table
  BY <1>2 DEF Turn, Place
<1>14. i = current_player /\ ~Called(p) => sem[p] = 0 /\ Waking = 0
  <2>1. ASSUME i = current_player, NEW q \in Seats, th[q].pc = "wake" PROVE th[q].next = p
    <3>1. CardThread(q, g, d)
      BY DEF CardRound
    <3>2. th[q].next = SeatAt(current_player, first_seat)
      BY <2>1, <3>1 DEF CardThread, InTurn, Coming, Asked, Answered
    <3> QED BY <1>1, <2>1, <3>2, PlaceFacts
  <2>2. sem[p] \in Nat
    BY ThreadIs
  <2> QED BY <2>1, <2>2, WakingIs DEF Called
<1>15. Waking' = Waking
  BY <1>1, <1>4, <1>5, WakingKept
<1>7. UNCHANGED <<state, bytes, sem, current_game, current_player, loaded, first_seat, over>>
  BY DEF Turn
<1> HIDE DEF i
<1>8. i = Place(p, first_seat)
  BY DEF i
<1>9. CardThread(p, g, d)'
  BY <1>1, <1>2, <1>3, <1>4, <1>5, <1>6, <1>7, <1>8, <1>14, <1>15
     DEF CardThread, InTurn, Coming, Asked, Answered, Ready, Seats
<1>10. ASSUME NEW q \in Seats \ {p} PROVE CardThread(q, g, d)'
  <2>1. th'[q] = th[q] /\ CardThread(q, g, d)
    BY <1>5 DEF CardRound
  <2>2. Asked(q, d) => Asked(q, d)'
    BY <1>6, <1>7, <2>1 DEF Asked
  <2>3. (Coming(q, d) => Coming(q, d)') /\ (Answered(q, d) => Answered(q, d)')
    BY <1>7, <2>1 DEF Coming, Answered
  <2> QED BY <1>7, <1>15, <2>1, <2>2, <2>3 DEF CardThread, InTurn, Ready
<1>11. DrawKnown(d)' /\ GameKnown(g, d)'
  BY <1>3, <1>6, <1>7 DEF DrawKnown, GameKnown
<1>12. i >= current_player
  BY <1>1, <1>8 DEF CardThread, InTurn, Answered, Seats
<1>13. ASSUME NEW q \in Seats, current_player > 0 \/ th'[q].pc = "card" PROVE OnTable(table, current_player)'
  <2>1. CASE current_player > 0
    <3>1. table' = table
      BY <1>1, <1>6, <1>12, <2>1 DEF Seats
    <3> QED BY <1>7, <2>1, <3>1 DEF CardRound, OnTable
  <2>2. CASE current_player = 0 /\ i = 0
    BY <1>6, <1>7, <2>2 DEF OnTable, Seats
  <2>3. CASE current_player = 0 /\ i # 0
    <3>1. q # p /\ th[q].pc = "card"
      BY <1>1, <1>4, <1>5, <1>13, <2>3 DEF Seats
    <3> QED BY <1>6, <1>7, <2>3, <3>1 DEF CardRound, OnTable
  <2> QED BY <1>1, <2>1, <2>2, <2>3 DEF Seats
<1> QED BY <1>7, <1>9, <1>10, <1>11, <1>13 DEF CardRound

LEMMA WakeUpCard ==
  ASSUME Types, NEW g \in Nat, NEW d \in Nat, CardRound(g, d), NEW p \in Seats, WakeUp(p)
  PROVE  CardRound(g, d)'
<1> DEFINE r == [th[p] EXCEPT !.pc = "card"]
<1>1. th[p].pc = "sleep" /\ CardThread(p, g, d) /\ current_player \in Seats /\ sem[p] > 0
        /\ first_seat \in Seats /\ sem \in [Seats -> Nat]
  BY DEF WakeUp, At, CardRound, Types, ThreadTypes, GameTypes, Sleeps
<1>2. Place(p, first_seat) = current_player /\ sem[p] = 1 /\ Waking = 0 /\ Coming(p, d)
  BY <1>1, WakingIs DEF CardThread, InTurn, Asked, Answered, Seats
<1>3. th[p].draw = d /\ state[p] = "BEFORE_TRICK" /\ th[p].player = current_player
        /\ current_player > 0
  BY <1>1, <1>2 DEF Coming, Seats
<1>4. r.pc = "card" /\ r.gid = th[p].gid /\ r.draw = th[p].draw /\ r.player = th[p].player
  BY ThreadIs, ChangePc
<1>5. th'[p] = r /\ \A q \in Seats \ {p} : th'[q] = th[q]
  BY Moves DEF WakeUp
<1> HIDE DEF r
<1>6. sem'[p] = 0 /\ \A q \in Seats \ {p} : sem'[q] = sem[q]
  BY <1>1, <1>2 DEF WakeUp, Sleeps
<1>7. UNCHANGED <<state, bytes, current_game, current_player, current_draw, game, over>>
  BY <1>3 DEF WakeUp
<1>8. current_draw = d /\ loaded = g /\ g \in DOMAIN Games /\ current_game = g
  BY <1>1 DEF CardRound, DrawKnown, GameKnown
<1>12. Waking' = Waking
  BY <1>1, <1>4, <1>5, WakingKept
<1>9. CardThread(p, g, d)'
  BY <1>1, <1>2, <1>3, <1>4, <1>5, <1>6, <1>7, <1>8, <1>12
     DEF CardThread, InTurn, Asked, Ready, game
<1>10. \A q \in Seats \ {p} : CardThread(q, g, d)'
  BY <1>5, <1>6, <1>7, <1>12
     DEF CardRound, CardThread, InTurn, Asked, Coming, Answered, Ready, game
<1>11. DrawKnown(d)' /\ GameKnown(g, d)'
  BY <1>7, <1>8 DEF DrawKnown, GameKnown, game
<1> QED BY <1>1, <1>3, <1>7, <1>9, <1>10, <1>11 DEF CardRound, OnTable, game

LEMMA LeaveCard ==
  ASSUME Types, NEW g \in Nat, NEW d \in Nat, CardRound(g, d), NEW p \in Seats, Leave(p), smooth'
  PROVE  CardRound(g, d)'
<1>1. th[p].pc = "card" /\ CardThread(p, g, d)
  BY DEF Leave, CardRound
<1>2. Place(p, first_seat) = current_player /\ sem[p] = 0 /\ Waking = 0 /\ Asked(p, d)
  BY <1>1 DEF CardThread, InTurn, Coming, Answered
<1>3. th'[p] = Gone /\ \A q \in Seats \ {p} : th'[q] = th[q]
  BY Moves DEF Leave
<1>4. Gone.pc = "out"
  BY DEF Gone
<1>5. UNCHANGED <<state, bytes, sem, sync, game, over>>
  BY <1>1 DEF Leave
<1>6. current_draw = d /\ loaded = g /\ g \in DOMAIN Games /\ current_game = g
  BY <1>1, <1>2 DEF CardRound, GameKnown, Asked
<1>10. Waking' = Waking
  BY <1>1, <1>3, <1>4, WakingKept
<1>7. CardThread(p, g, d)'
  BY <1>1, <1>2, <1>3, <1>4, <1>5, <1>10 DEF CardThread, InTurn, Asked, Ready, sync, game
<1>8. \A q \in Seats \ {p} : CardThread(q, g, d)'
  BY <1>3, <1>5, <1>10 DEF CardRound, CardThread, InTurn, Asked, Coming, Answered, Ready, sync, game
<1>9. DrawKnown(d)' /\ GameKnown(g, d)'
  BY <1>5, <1>6 DEF DrawKnown, GameKnown, sync, game
<1> QED BY <1>3, <1>4, <1>5, <1>7, <1>8, <1>9 DEF CardRound, OnTable, sync, game

\* How many threads are at a place.
Count(place) ==
  LET one(p) == IF th[p].pc = place THEN 1 ELSE 0 IN one(0) + one(1) + one(2) + one(3)

Playing(g, d, p, first) ==
  th[p].gid = g /\ th[p].draw = d /\ th[p].player = Place(p, first)

KnownThread(p, g, d) ==
  /\ sem[p] = 0 /\ Playing(g, d, p, first_seat)
  /\ th[p].pc \in {"played", "known"}
  /\ bytes[p] = Count("known") + (IF th[p].pc = "played" THEN 4 ELSE 0)
  /\ th[p].pc = "known" => /\ th[p].loser = get_loser(table, first_seat)
                           /\ th[p].next = SeatAt(th[p].player + 1, first_seat)

\* All cards of the trick are on the table and the loser is computed.
KnownRound(g, d) ==
  /\ d < Tricks /\ ~over /\ current_game = g /\ current_player = 0
  /\ loaded = g /\ g \in DOMAIN Games /\ OnTable(table, 4)
  /\ \E p \in Seats : th[p].pc = "played"
  /\ \A p \in Seats : KnownThread(p, g, d)

LEMMA NoneThere ==
  ASSUME NEW place, \A p \in Seats : th[p].pc # place
  PROVE  Count(place) = 0
BY DEF Count, Seats

\* What PlayCard does to the thread, the pipes and the table.
LEMMA PlayCardDoes ==
  ASSUME Types, NEW g \in Nat, NEW d \in Nat, CardRound(g, d), NEW p \in Seats, PlayCard(p)
  PROVE  /\ th[p].pc = "card" /\ Place(p, first_seat) = current_player /\ th[p].player = current_player
         /\ sem[p] = 0 /\ th[p].draw = d /\ current_draw = d /\ loaded = g /\ g \in DOMAIN Games
         /\ Waking = 0 /\ sem' = sem
         /\ th'[p].gid = g /\ th'[p].draw = d /\ th'[p].player = current_player
         /\ th'[p].pc = IF th[p].player < 3 THEN "wake" ELSE "played"
         /\ th[p].player < 3 => th'[p].next = SeatAt(current_player + 1, first_seat)
         /\ \A q \in Seats \ {p} : th'[q] = th[q]
         /\ \A q \in Seats : bytes'[q] = bytes[q] + (IF th[p].player < 3 THEN 0 ELSE 1)
         /\ \E c \in hands[p] : /\ c # NoCard /\ Allowed(c, hands[p])
                                /\ table' = [table EXCEPT ![current_player] = c]
                                /\ hands' = [hands EXCEPT ![p] = @ \ {c}]
         /\ OnTable(table, current_player)
         /\ \A q \in Seats \ {p} : state'[q] = state[q]
<1> DEFINE r == IF th[p].player < 3
                  THEN [th[p] EXCEPT !.pc = "wake", !.next = (th[p].player + 1 + first_seat) % 4]
                  ELSE [th[p] EXCEPT !.pc = "played"]
<1>1. th[p].pc = "card" /\ CardThread(p, g, d) /\ current_player \in Seats /\ first_seat \in Seats
        /\ th[p] \in Threads
  BY ThreadIs DEF PlayCard, At, CardRound, Types, ThreadTypes, GameTypes
<1>2. Place(p, first_seat) = current_player /\ sem[p] = 0 /\ Waking = 0 /\ Asked(p, d)
        /\ th[p].gid = g
  BY <1>1 DEF CardThread, InTurn, Coming, Answered
<1>3. th[p].draw = d /\ th[p].player = current_player /\ current_draw = d /\ loaded = g
        /\ g \in DOMAIN Games
  BY <1>1, <1>2 DEF Asked, CardRound, GameKnown
<1>4. /\ r.gid = th[p].gid /\ r.draw = th[p].draw /\ r.player = th[p].player
      /\ r.pc = IF th[p].player < 3 THEN "wake" ELSE "played"
      /\ th[p].player < 3 => r.next = SeatAt(th[p].player + 1, first_seat)
  BY <1>1 DEF Threads, SeatAt
<1>5. th'[p] = r /\ \A q \in Seats \ {p} : th'[q] = th[q]
  <2>1. Step(p, r)
    BY DEF PlayCard
  <2> HIDE DEF r
  <2> QED BY <2>1, Moves
<1> HIDE DEF r
<1>6. \A q \in Seats : bytes'[q] = bytes[q] + (IF th[p].player < 3 THEN 0 ELSE 1)
  BY DEF PlayCard, AllBytes, Types, ThreadTypes
<1>10. sem' = sem
  BY DEF PlayCard
<1>7. OnTable(table, current_player)
  BY <1>1 DEF CardRound
<1>8. \E c \in hands[p] : /\ c # NoCard /\ Allowed(c, hands[p])
                          /\ table' = [table EXCEPT ![current_player] = c]
                          /\ hands' = [hands EXCEPT ![p] = @ \ {c}]
  <2>1. \A c \in hands[p] : c # NoCard
    BY GamesAssumption DEF Types, GameTypes
  <2>2. (IF table[0] = NoCard THEN 0 ELSE (4 + p - first_seat) % 4) = current_player
    BY <1>1, <1>2, <1>7 DEF OnTable, Place, Seats
  <2> QED BY <2>1, <2>2 DEF PlayCard
<1>9. \A q \in Seats \ {p} : state'[q] = state[q]
  BY DEF PlayCard, Types, ThreadTypes
<1> QED BY <1>1, <1>2, <1>3, <1>4, <1>5, <1>6, <1>7, <1>8, <1>9, <1>10

LEMMA OnTableNext ==
  ASSUME Types, NEW n \in Seats, OnTable(table, n), NEW c, c # NoCard, table' = [table EXCEPT ![n] = c]
  PROVE  OnTable(table', n + 1)
BY DEF OnTable, Types, GameTypes, Seats

LEMMA PlayCardCard ==
  ASSUME Types, NEW g \in Nat, NEW d \in Nat, CardRound(g, d), NEW p \in Seats, PlayCard(p),
         th[p].player < 3
  PROVE  CardRound(g, d)'
<1> DEFINE n == current_player
<1>1. /\ Place(p, first_seat) = n /\ th[p].pc = "card" /\ th[p].player = n
      /\ sem[p] = 0 /\ th[p].draw = d /\ current_draw = d /\ loaded = g /\ g \in DOMAIN Games
      /\ th'[p].pc = "wake" /\ th'[p].gid = g /\ th'[p].draw = d /\ th'[p].player = n
      /\ th'[p].next = SeatAt(n + 1, first_seat)
      /\ OnTable(table, n) /\ Waking = 0 /\ sem' = sem
  BY PlayCardDoes
<1>2. /\ \A q \in Seats \ {p} : th'[q] = th[q] /\ state'[q] = state[q]
      /\ \A q \in Seats : bytes'[q] = bytes[q] + 0
  BY PlayCardDoes
<1>3. PICK c : c # NoCard /\ table' = [table EXCEPT ![n] = c]
  BY PlayCardDoes
<1>4. n \in 0..2 /\ first_seat \in Seats /\ sem \in [Seats -> Nat] /\ n \in Seats
  BY <1>1 DEF Types, ThreadTypes, GameTypes, Seats
<1>5. current_player' = n + 1 /\ n + 1 \in Seats
  BY <1>1, <1>4 DEF PlayCard, Seats
<1>6. Waking' = 1
  BY <1>1 DEF Waking
<1>7. UNCHANGED <<current_game, current_draw, loaded, first_seat, over>>
  BY DEF PlayCard
<1>8. CardThread(p, g, d) /\ ~over /\ current_game = g
  BY DEF CardRound
<1>14. \A q \in Seats : bytes[q] \in Nat /\ bytes'[q] = bytes[q]
  BY <1>2, ThreadIs
<1>9. CardThread(p, g, d)'
  <2>1. Answered(p, d)'
    BY <1>1, <1>5, <1>7 DEF Answered
  <2>2. bytes'[p] + 1 = (n + 1) + Ready(p)'
    BY <1>1, <1>4, <1>8, <1>14 DEF CardThread, Ready
  <2> QED BY <1>1, <1>4, <1>5, <1>6, <1>7, <2>1, <2>2 DEF CardThread, InTurn
<1>10. ASSUME NEW q \in Seats \ {p} PROVE CardThread(q, g, d)'
  <2>1. CardThread(q, g, d) /\ Place(q, first_seat) \in Seats /\ Place(q, first_seat) # n
    <3>1. CardThread(q, g, d)
      BY DEF CardRound
    <3>2. Place(q, first_seat) \in Seats /\ (Place(q, first_seat) = Place(p, first_seat) => q = p)
      BY <1>4, PlaceFacts
    <3> QED BY <1>1, <3>1, <3>2
  <2>2. Coming(q, d) => Coming(q, d)'
    BY <1>2, <1>7 DEF Coming
  <2>3. Answered(q, d) => Answered(q, d)'
    <3>1. th[q].pc # "wake"
      BY <1>1, WakingIs
    <3> QED BY <1>2, <1>7, <3>1 DEF Answered
  <2>4. bytes'[q] + Waking' = current_player' + Ready(q)' /\ (th'[q].pc = "out" \/ th'[q].gid = g)
    <3>1. Ready(q)' = Ready(q) /\ Ready(q) \in Nat
      BY <1>2 DEF Ready
    <3>2. bytes[q] + 0 = n + Ready(q) /\ (th[q].pc = "out" \/ th[q].gid = g)
      BY <1>1, <2>1 DEF CardThread
    <3>3. \A b, r, m \in Nat : b + 0 = m + r => b + 1 = (m + 1) + r
      OBVIOUS
    <3>4. n \in Nat /\ bytes[q] \in Nat
      BY <1>4, <1>14
    <3>5. bytes[q] + 1 = (n + 1) + Ready(q)
      BY <3>1, <3>2, <3>3, <3>4
    <3> QED BY <1>2, <1>5, <1>6, <1>14, <3>1, <3>2, <3>5
  <2>5. CASE Place(q, first_seat) < n
    <3>1. sem[q] = 0 /\ Answered(q, d)
      BY <1>4, <2>1, <2>5 DEF CardThread, InTurn, Seats
    <3>2. sem'[q] = 0 /\ Place(q, first_seat') < current_player'
      BY <1>1, <1>4, <1>5, <1>7, <2>1, <2>5, <3>1 DEF Seats
    <3> QED BY <2>3, <2>4, <3>1, <3>2 DEF CardThread, InTurn
  <2>6. CASE Place(q, first_seat) > n
    <3>1. sem[q] = 0 /\ Coming(q, d)
      BY <1>4, <2>1, <2>6 DEF CardThread, InTurn, Seats
    <3>2. sem'[q] = 0 /\ current_player' # 0 /\ Place(q, first_seat') \in Seats
            /\ (Place(q, first_seat') = current_player' \/ Place(q, first_seat') > current_player')
      BY <1>1, <1>4, <1>5, <1>7, <2>1, <2>6, <3>1 DEF Seats
    <3> QED BY <1>6, <2>2, <2>4, <3>1, <3>2 DEF CardThread, InTurn
  <2> QED BY <1>4, <2>1, <2>5, <2>6 DEF Seats
<1>11. DrawKnown(d)' /\ GameKnown(g, d)'
  BY <1>1, <1>7 DEF DrawKnown, GameKnown
<1>12. OnTable(table, current_player)'
  <2>1. OnTable(table', n + 1)
    BY <1>1, <1>3, <1>4, OnTableNext
  <2> QED BY <1>5, <2>1
<1> QED BY <1>7, <1>8, <1>9, <1>10, <1>11, <1>12 DEF CardRound

\* The byte comes for the player whose turn has come.
LEMMA WakeNextCard ==
  ASSUME Types, NEW g \in Nat, NEW d \in Nat, CardRound(g, d), NEW p \in Seats, WakeNext(p)
  PROVE  CardRound(g, d)'
<1> DEFINE n == current_player
           s == SeatAt(n, first_seat)
<1>1. th[p].pc = "wake" /\ CardThread(p, g, d) /\ n \in Seats /\ first_seat \in Seats
        /\ sem \in [Seats -> Nat]
  BY DEF WakeNext, At, CardRound, Types, ThreadTypes, GameTypes
<1>2. /\ Answered(p, d) /\ sem[p] = 0 /\ Place(p, first_seat) < n
      /\ Place(p, first_seat) + 1 = n /\ th[p].next = s
      /\ th[p].draw = d /\ th[p].player = Place(p, first_seat) /\ th[p].gid = g
  BY <1>1 DEF CardThread, InTurn, Coming, Asked, Answered
<1>3. /\ th'[p].pc = "played" /\ th'[p].gid = g /\ th'[p].draw = d
      /\ th'[p].player = Place(p, first_seat)
      /\ \A q \in Seats \ {p} : th'[q] = th[q]
  BY <1>2, MovesTo DEF WakeNext
<1>4. \A q \in Seats : bytes'[q] = bytes[q] + 1 /\ bytes[q] \in Nat
  BY ThreadIs DEF WakeNext, AllBytes
<1>5. sem' = [sem EXCEPT ![s] = @ + 1]
  BY <1>2 DEF WakeNext, Wakes
<1>6. s \in Seats /\ Place(s, first_seat) = n /\ Place(p, first_seat) \in Seats /\ n # 0 /\ s # p
  BY <1>1, <1>2, PlaceFacts DEF Seats
<1>7. UNCHANGED <<state, sync, game, over>>
  BY DEF WakeNext
<1>8. Waking = 1 /\ Waking' = 0
  <2>1. ASSUME NEW q \in Seats \ {p} PROVE th[q].pc # "wake"
    <3>1. CardThread(q, g, d) /\ Place(q, first_seat) \in Seats
            /\ (Place(q, first_seat) = Place(p, first_seat) => q = p)
      BY <1>1, PlaceFacts DEF CardRound
    <3>2. th[q].pc = "wake" => Place(q, first_seat) + 1 = n
      BY <3>1 DEF CardThread, InTurn, Coming, Asked, Answered
    <3> QED BY <1>2, <1>6, <3>1, <3>2 DEF Seats
  <2>2. Waking # 0
    BY <1>1, WakingIs
  <2>3. \A q \in Seats : th'[q].pc # "wake"
    BY <1>3, <2>1
  <2> QED BY <2>2, <2>3, WakingIs DEF Waking
<1>9. CardThread(p, g, d)'
  <2>1. sem'[p] = 0 /\ Answered(p, d)'
    BY <1>1, <1>2, <1>3, <1>5, <1>6, <1>7 DEF Answered, game
  <2>2. bytes'[p] + 0 = n + 0 /\ Ready(p)' = 0
    <3>1. bytes[p] + 1 = n + 0
      BY <1>1, <1>8 DEF CardThread, Ready
    <3> QED BY <1>1, <1>3, <1>4, <3>1 DEF Ready
  <2> QED BY <1>2, <1>3, <1>7, <1>8, <2>1, <2>2 DEF CardThread, InTurn, sync, game
<1>10. ASSUME NEW q \in Seats \ {p} PROVE CardThread(q, g, d)'
  <2>1. CardThread(q, g, d) /\ th'[q] = th[q] /\ bytes[q] \in Nat /\ bytes'[q] = bytes[q] + 1
          /\ th[q].pc # "wake" /\ Place(q, first_seat) \in Seats
          /\ (Place(q, first_seat) = n => q = s)
    <3>1. CardThread(q, g, d) /\ th'[q] = th[q] /\ bytes'[q] = bytes[q] + 1 /\ bytes[q] \in Nat
      BY <1>3, <1>4 DEF CardRound
    <3>2. Place(q, first_seat) \in Seats /\ (Place(q, first_seat) = Place(s, first_seat) => q = s)
      BY <1>1, <1>6, PlaceFacts
    <3>3. th'[q].pc # "wake"
      BY <1>8, WakingIs DEF Waking
    <3> QED BY <1>6, <3>1, <3>2, <3>3
  <2>2. Coming(q, d) => Coming(q, d)'
    BY <1>7, <2>1 DEF Coming, game
  <2>3. Answered(q, d) => Answered(q, d)'
    BY <1>7, <2>1 DEF Answered, game
  <2>4. bytes'[q] + Waking' = current_player' + Ready(q)' /\ (th'[q].pc = "out" \/ th'[q].gid = g)
    <3>1. Ready(q)' = Ready(q) /\ Ready(q) \in Nat
      BY <2>1 DEF Ready
    <3>2. bytes[q] + 1 = n + Ready(q) /\ (th[q].pc = "out" \/ th[q].gid = g)
      BY <1>8, <2>1 DEF CardThread
    <3> QED BY <1>7, <1>8, <2>1, <3>1, <3>2 DEF sync
  <2>5. CASE q = s
    <3>1. sem[q] = 0 /\ Coming(q, d)
      BY <1>1, <1>6, <1>8, <2>1, <2>5 DEF CardThread, InTurn, Seats
    <3>2. sem'[q] = 1
      BY <1>1, <1>5, <1>6, <2>5, <3>1
    <3> QED BY <1>6, <1>7, <1>8, <2>2, <2>4, <2>5, <3>1, <3>2 DEF CardThread, InTurn, sync, game
  <2>6. CASE q # s
    <3>1. sem'[q] = sem[q] /\ Place(q, first_seat) # n
      BY <1>1, <1>5, <1>6, <2>1, <2>6
    <3> QED BY <1>7, <2>1, <2>2, <2>3, <2>4, <3>1 DEF CardThread, InTurn, sync, game
  <2> QED BY <2>5, <2>6
<1>11. DrawKnown(d)' /\ GameKnown(g, d)'
  BY <1>1, <1>7 DEF CardRound, DrawKnown, GameKnown, sync, game
<1> QED BY <1>3, <1>7, <1>9, <1>10, <1>11 DEF CardRound, OnTable, sync, game

LEMMA PlayCardLast ==
  ASSUME Types, NEW g \in Nat, NEW d \in Nat, CardRound(g, d), NEW p \in Seats, PlayCard(p),
         ~(th[p].player < 3)
  PROVE  KnownRound(g, d)'
<1> DEFINE n == current_player
<1>1. /\ th[p].pc = "card" /\ Place(p, first_seat) = n /\ th[p].player = n
      /\ sem[p] = 0 /\ th[p].draw = d /\ current_draw = d /\ loaded = g /\ g \in DOMAIN Games
      /\ th'[p].pc = "played" /\ th'[p].gid = g /\ th'[p].draw = d /\ th'[p].player = n
      /\ OnTable(table, n) /\ Waking = 0
  BY PlayCardDoes
<1>2. /\ \A q \in Seats \ {p} : th'[q] = th[q]
      /\ \A q \in Seats : bytes'[q] = bytes[q] + 1
  BY PlayCardDoes
<1>3. PICK c : c # NoCard /\ table' = [table EXCEPT ![n] = c]
  BY PlayCardDoes
<1>4. n = 3 /\ first_seat \in Seats /\ n \in Seats
  BY <1>1 DEF Types, ThreadTypes, GameTypes, Seats
<1>5. current_player' = 0 /\ sem' = sem
  BY DEF PlayCard
<1>6. UNCHANGED <<current_game, current_draw, loaded, first_seat, over>>
  BY DEF PlayCard
<1>7. CardThread(p, g, d) /\ ~over /\ current_game = g /\ d < Tricks
  BY DEF CardRound
<1>12. \A q \in Seats : bytes[q] \in Nat /\ th[q].pc # "wake"
  BY <1>1, ThreadIs, WakingIs
<1>8. ASSUME NEW q \in Seats
      PROVE  /\ th'[q].pc = "played" /\ Playing(g, d, q, first_seat)'
             /\ bytes'[q] = 4 /\ sem'[q] = 0
  <2>1. CASE q = p
    <3>1. bytes[p] = 3
      <4>1. Ready(p) = 0
        BY <1>1 DEF Ready
      <4>2. bytes[p] + Waking = current_player + Ready(p)
        BY <1>7 DEF CardThread
      <4>3. bytes[p] \in Nat
        BY <1>12
      <4> QED BY <1>1, <1>4, <4>1, <4>2, <4>3
    <3>2. first_seat' = first_seat /\ sem'[p] = 0 /\ bytes'[p] = 4
      BY <1>1, <1>2, <1>5, <1>6, <3>1
    <3>3. Playing(g, d, p, first_seat)'
      BY <1>1, <1>6, <3>2 DEF Playing
    <3> QED BY <1>1, <2>1, <3>2, <3>3
  <2>2. CASE q # p
    <3>1. Place(q, first_seat) \in Seats /\ Place(q, first_seat) # 3 /\ CardThread(q, g, d)
      <4>1. Place(q, first_seat) = Place(p, first_seat) => q = p
        BY <1>4, PlaceFacts
      <4>2. Place(q, first_seat) \in Seats /\ CardThread(q, g, d)
        BY <1>4, PlaceFacts DEF CardRound
      <4> QED BY <1>1, <1>4, <2>2, <4>1, <4>2
    <3>2. Answered(q, d) /\ sem[q] = 0 /\ bytes[q] + 0 = 3 + Ready(q)
      BY <1>1, <1>4, <3>1 DEF CardThread, InTurn, Seats
    <3>3. bytes[q] = 3 /\ th[q].gid = g /\ th[q].pc = "played"
      BY <1>12, <3>1, <3>2 DEF Answered, Ready, CardThread
    <3> QED BY <1>2, <1>5, <1>6, <2>2, <3>2, <3>3 DEF Answered, Playing
  <2> QED BY <2>1, <2>2
<1>9. Count("known")' = 0
  BY <1>8 DEF Count, Seats
<1>10. \A q \in Seats : KnownThread(q, g, d)'
  BY <1>8, <1>9 DEF KnownThread
<1>11. OnTable(table, 4)'
  <2>1. OnTable(table', n + 1)
    BY <1>1, <1>3, <1>4, OnTableNext
  <2> QED BY <1>4, <2>1
<1> QED BY <1>1, <1>5, <1>6, <1>7, <1>8, <1>10, <1>11 DEF KnownRound

LEMMA CountIs ==
  ASSUME NEW place
  PROVE  /\ Count(place) \in 0..4
         /\ \A p \in Seats : th[p].pc # place => Count(place) < 4
         /\ (\A p \in Seats : th[p].pc = place) => Count(place) = 4
BY DEF Count, Seats

LEMMA CountUp ==
  ASSUME NEW place, NEW p \in Seats, th[p].pc # place, th'[p].pc = place,
         \A q \in Seats \ {p} : th'[q] = th[q]
  PROVE  Count(place)' = Count(place) + 1
<1> DEFINE one(q) == IF th[q].pc = place THEN 1 ELSE 0
           new(q) == IF th'[q].pc = place THEN 1 ELSE 0
<1>1. one(p) = 0 /\ new(p) = 1 /\ \A q \in Seats \ {p} : new(q) = one(q)
  OBVIOUS
<1>2. \A q \in Seats : one(q) \in Nat
  OBVIOUS
<1>3. Count(place) = one(0) + one(1) + one(2) + one(3)
        /\ Count(place)' = new(0) + new(1) + new(2) + new(3)
  BY DEF Count
<1> HIDE DEF one, new
<1> QED BY <1>1, <1>2, <1>3 DEF Seats

LEMMA CountSame ==
  ASSUME NEW place, \A q \in Seats : (th'[q].pc = place) <=> (th[q].pc = place)
  PROVE  Count(place)' = Count(place)
BY DEF Count, Seats

TellTurn(p, n, first) ==
  LET i == Place(p, first) IN
  \/ i < n /\ sem[p] = 0 /\ th[p].pc = "done"
  \/ i = n /\ n = 0 /\ sem[p] = 0 /\ th[p].pc \in {"known", "tell"}
  \/ i = n /\ n > 0 /\ sem[p] = 1 /\ th[p].pc \in {"known", "sleepTell"}
  \/ i = n /\ n > 0 /\ sem[p] = 0 /\ th[p].pc = "tell"
  \/ i > n /\ sem[p] = 0 /\ th[p].pc \in {"known", "sleepTell"}

TellThread(p, g, d, first, n) ==
  /\ Playing(g, d, p, first)
  /\ bytes[p] = n + (IF th[p].pc = "known" THEN 4 ELSE 0)
  /\ th[p].pc = "done" => state[p] = "BEFORE_TRICK"
  /\ th[p].pc = "known" => th[p].loser = get_loser(table, first)
  /\ th[p].next = SeatAt(th[p].player + 1, first)
  /\ TellTurn(p, n, first)

\* The loser takes the trick that first led, and n players have been told.
TellRound(g, d, first, n) ==
  /\ d < Tricks /\ ~over /\ current_game = g /\ current_player = 0
  /\ loaded = g /\ g \in DOMAIN Games /\ OnTable(table, 4)
  /\ LET loser == get_loser(table, first) IN
       first_seat = IF th[loser].pc = "known" THEN first ELSE loser
  /\ \A p \in Seats : TellThread(p, g, d, first, n)

LEMMA PlayedKnown ==
  ASSUME Types, NEW g \in Nat, NEW d \in Nat, KnownRound(g, d), NEW p \in Seats, Played(p)
  PROVE  KnownRound(g, d)' \/ TellRound(g, d, first_seat, 0)'
<1> DEFINE r == [th[p] EXCEPT !.pc = "known", !.loser = get_loser(table, first_seat),
                           !.next = (th[p].player + 1 + first_seat) % 4]
<1>1. th[p].pc = "played" /\ KnownThread(p, g, d) /\ th[p] \in Threads /\ first_seat \in Seats
  BY ThreadIs DEF Played, At, KnownRound, Types, GameTypes
<1>2. r.pc = "known" /\ r.loser = get_loser(table, first_seat)
        /\ r.next = SeatAt(th[p].player + 1, first_seat)
        /\ r.gid = th[p].gid /\ r.draw = th[p].draw /\ r.player = th[p].player
  BY <1>1 DEF Threads, SeatAt
<1>3. th'[p] = r /\ \A q \in Seats \ {p} : th'[q] = th[q]
  BY Moves DEF Played
<1> HIDE DEF r
<1>4. bytes'[p] = bytes[p] - 3 /\ \A q \in Seats \ {p} : bytes'[q] = bytes[q] + 1
  BY PassesOn DEF Played
<1>5. UNCHANGED <<state, sem, sync, game, over>>
  BY DEF Played
<1>6. Count("known")' = Count("known") + 1 /\ Count("known") \in 0..3
        /\ Count("known") \in Int
  BY <1>1, <1>2, <1>3, CountUp, CountIs
<1>7. KnownThread(p, g, d)'
  BY <1>1, <1>2, <1>3, <1>4, <1>5, <1>6 DEF KnownThread, Playing, game
<1>8. ASSUME NEW q \in Seats \ {p} PROVE KnownThread(q, g, d)'
  <2>1. KnownThread(q, g, d) /\ th'[q] = th[q] /\ bytes'[q] = bytes[q] + 1
    BY <1>3, <1>4 DEF KnownRound
  <2>2. bytes'[q] = Count("known")' + (IF th'[q].pc = "played" THEN 4 ELSE 0)
    BY <1>6, <2>1 DEF KnownThread
  <2> QED BY <1>5, <2>1, <2>2 DEF KnownThread, Playing, game
<1>9. CASE \E q \in Seats : th'[q].pc = "played"
  BY <1>5, <1>7, <1>8, <1>9 DEF KnownRound, OnTable, sync, game
<1>10. CASE \A q \in Seats : th'[q].pc # "played"
  <2>1. \A q \in Seats : th'[q].pc = "known"
    BY <1>7, <1>8, <1>10 DEF KnownThread
  <2>2. Count("known")' = 4
    BY <2>1 DEF Count, Seats
  <2>3. ASSUME NEW q \in Seats PROVE TellThread(q, g, d, first_seat, 0)'
    <3>1. KnownThread(q, g, d)' /\ Place(q, first_seat) \in Seats /\ th'[q].pc = "known"
      BY <1>1, <1>7, <1>8, <2>1, PlaceFacts
    <3>2. first_seat' = first_seat
      BY <1>5 DEF game
    <3> QED BY <2>2, <3>1, <3>2 DEF KnownThread, TellThread, TellTurn, Playing, Seats
  <2>4. get_loser(table, first_seat) \in Seats /\ table' = table /\ first_seat' = first_seat
    BY <1>1, <1>5, LoserType DEF game
  <2> QED BY <1>5, <2>1, <2>3, <2>4 DEF KnownRound, TellRound, OnTable, sync, game
<1> QED BY <1>9, <1>10

\* Nobody goes on before all have come.
LEMMA KnownWaits ==
  ASSUME Types, NEW g \in Nat, NEW d \in Nat, KnownRound(g, d), NEW p \in Seats
  PROVE  ~Known(p)
<1> SUFFICES ASSUME Known(p) PROVE FALSE
  OBVIOUS
<1>1. th[p].pc = "known" /\ KnownThread(p, g, d) /\ bytes[p] >= 4
  BY PassesOnce DEF Known, At, KnownRound
<1>2. Count("known") < 4
  BY CountIs DEF KnownRound
<1> QED BY <1>1, <1>2, CountIs DEF KnownThread

LEMMA KnownTell ==
  ASSUME Types, NEW g \in Nat, NEW d \in Nat, NEW first \in Seats, NEW n \in Seats,
         TellRound(g, d, first, n), NEW p \in Seats, Known(p)
  PROVE  /\ TellRound(g, d, first, n)'
         /\ th[p].draw = d /\ th[p].loser = get_loser(table, first)
         /\ th'[p].pc \in {"tell", "sleepTell"}
<1> DEFINE loser == get_loser(table, first)
           r == [th[p] EXCEPT !.pc = IF th[p].player = 0 THEN "tell" ELSE "sleepTell"]
<1>1. th[p].pc = "known" /\ TellThread(p, g, d, first, n) /\ loser \in Seats
        /\ Place(p, first) \in Seats
  BY LoserType, PlaceFacts DEF Known, At, TellRound
<1>2. th[p].loser = loser /\ th[p].player = Place(p, first) /\ th[p].draw = d /\ th[p].gid = g
  BY <1>1 DEF TellThread, Playing
<1>3. r.pc = (IF th[p].player = 0 THEN "tell" ELSE "sleepTell") /\ r.gid = th[p].gid
        /\ r.draw = th[p].draw /\ r.player = th[p].player /\ r.next = th[p].next
  BY ThreadIs, ChangePc
<1>4. th'[p] = r /\ \A q \in Seats \ {p} : th'[q] = th[q]
  <2>1. Step(p, r)
    BY DEF Known
  <2> QED BY <2>1, Moves
<1> HIDE DEF r
<1>5. bytes'[p] = bytes[p] - 4 /\ \A q \in Seats \ {p} : bytes'[q] = bytes[q]
  BY PassesOnce DEF Known
<1>6. UNCHANGED <<state, sem, sync, loaded, table, over>>
  BY DEF Known
<1>7. first_seat' = IF loser = p THEN p ELSE first_seat
  BY <1>2 DEF Known
<1>8. TellThread(p, g, d, first, n)'
  <2>1. TellTurn(p, n, first)'
    BY <1>1, <1>2, <1>3, <1>4, <1>6 DEF TellThread, TellTurn, Seats
  <2> QED BY <1>1, <1>2, <1>3, <1>4, <1>5, <1>6, <2>1 DEF TellThread, Playing, Seats
<1>9. \A q \in Seats \ {p} : TellThread(q, g, d, first, n)'
  BY <1>4, <1>5, <1>6 DEF TellRound, TellThread, TellTurn, Playing
<1>10. first_seat' = IF th'[loser].pc = "known" THEN first ELSE loser
  BY <1>1, <1>3, <1>4, <1>7 DEF TellRound
<1> QED BY <1>2, <1>3, <1>4, <1>6, <1>8, <1>9, <1>10 DEF TellRound, OnTable, sync

LEMMA WakeUpTellTell ==
  ASSUME Types, NEW g \in Nat, NEW d \in Nat, NEW first \in Seats, NEW n \in Seats,
         TellRound(g, d, first, n), NEW p \in Seats, WakeUpTell(p)
  PROVE  TellRound(g, d, first, n)'
<1> DEFINE r == [th[p] EXCEPT !.pc = "tell"]
<1>1. th[p].pc = "sleepTell" /\ TellThread(p, g, d, first, n) /\ sem[p] > 0
        /\ Place(p, first) \in Seats /\ sem \in [Seats -> Nat]
  BY PlaceFacts DEF WakeUpTell, At, TellRound, Sleeps, Types, ThreadTypes
<1>2. Place(p, first) = n /\ n > 0 /\ sem[p] = 1
  BY <1>1 DEF TellThread, TellTurn
<1>3. r.pc = "tell" /\ r.gid = th[p].gid
        /\ r.draw = th[p].draw /\ r.player = th[p].player /\ r.next = th[p].next
  BY ThreadIs, ChangePc
<1>4. th'[p] = r /\ \A q \in Seats \ {p} : th'[q] = th[q]
  BY Moves DEF WakeUpTell
<1> HIDE DEF r
<1>5. sem'[p] = 0 /\ \A q \in Seats \ {p} : sem'[q] = sem[q]
  BY <1>1, <1>2 DEF WakeUpTell, Sleeps
<1>6. UNCHANGED <<state, bytes, sync, game, over>>
  BY DEF WakeUpTell
<1>7. TellThread(p, g, d, first, n)'
  BY <1>1, <1>2, <1>3, <1>4, <1>5, <1>6 DEF TellThread, TellTurn, Playing, game
<1>8. \A q \in Seats \ {p} : TellThread(q, g, d, first, n)'
  BY <1>4, <1>5, <1>6 DEF TellRound, TellThread, TellTurn, Playing, game
<1>9. \A q \in Seats : (th'[q].pc = "known") <=> (th[q].pc = "known")
  BY <1>1, <1>3, <1>4
<1>10. get_loser(table, first) \in Seats
  BY LoserType
<1> QED BY <1>6, <1>7, <1>8, <1>9, <1>10 DEF TellRound, OnTable, sync, game

TellMoves(p, g, d, first, n) ==
  /\ th[p].pc = "tell" /\ Place(p, first) = n /\ th[p].player = n /\ sem[p] = 0
  /\ th[p].draw = d /\ th[p].next = SeatAt(n + 1, first) /\ bytes[p] = n
  /\ th'[p].pc = "done" /\ th'[p].gid = g /\ th'[p].draw = d /\ th'[p].player = n
  /\ th'[p].next = th[p].next
  /\ \A q \in Seats \ {p} : th'[q] = th[q]
  /\ \A q \in Seats : bytes'[q] = bytes[q] + 1
  /\ state'[p] = "BEFORE_TRICK"
  /\ \A q \in Seats \ {p} : state'[q] = state[q]

LEMMA TellDoes ==
  ASSUME Types, NEW g \in Nat, NEW d \in Nat, NEW first \in Seats, NEW n \in Seats,
         TellRound(g, d, first, n), NEW p \in Seats, Tell(p)
  PROVE  TellMoves(p, g, d, first, n)
<1> DEFINE r == [th[p] EXCEPT !.pc = "done"]
<1>1. th[p].pc = "tell" /\ TellThread(p, g, d, first, n)
  BY DEF Tell, At, TellRound
<1>2. Place(p, first) = n /\ sem[p] = 0
  BY <1>1 DEF TellThread, TellTurn
<1>3. r.pc = "done" /\ r.gid = th[p].gid
        /\ r.draw = th[p].draw /\ r.player = th[p].player /\ r.next = th[p].next
  BY ThreadIs, ChangePc
<1>4. th'[p] = r /\ \A q \in Seats \ {p} : th'[q] = th[q]
  BY Moves DEF Tell
<1> HIDE DEF r
<1>5. \A q \in Seats : bytes'[q] = bytes[q] + 1
  BY DEF Tell, AllBytes, Types, ThreadTypes
<1>6. state'[p] = "BEFORE_TRICK" /\ \A q \in Seats \ {p} : state'[q] = state[q]
  BY DEF Tell, Types, ThreadTypes
<1>7. bytes[p] = n
  BY <1>1 DEF TellThread, Seats
<1> QED BY <1>1, <1>2, <1>3, <1>4, <1>5, <1>6, <1>7 DEF TellThread, Playing, TellMoves

LEMMA TellNext ==
  ASSUME Types, NEW g \in Nat, NEW d \in Nat, NEW first \in Seats, NEW n \in Seats,
         TellRound(g, d, first, n), NEW p \in Seats, Tell(p), th[p].player < 3
  PROVE  n + 1 \in Seats /\ TellRound(g, d, first, n + 1)'
<1> DEFINE s == SeatAt(n + 1, first)
<1>0. TellMoves(p, g, d, first, n)
  BY TellDoes
<1>1. /\ bytes[p] = n
      /\ th[p].pc = "tell" /\ Place(p, first) = n /\ th[p].player = n /\ sem[p] = 0
      /\ th[p].draw = d /\ th[p].next = s
      /\ th'[p].pc = "done" /\ th'[p].gid = g /\ th'[p].draw = d /\ th'[p].player = n
      /\ th'[p].next = s
      /\ state'[p] = "BEFORE_TRICK"
  BY <1>0 DEF TellMoves
<1>2. \A q \in Seats \ {p} : th'[q] = th[q] /\ state'[q] = state[q]
  BY <1>0 DEF TellMoves
<1>3. \A q \in Seats : bytes'[q] = bytes[q] + 1
  BY <1>0 DEF TellMoves
<1>4. n + 1 \in Seats /\ n \in 0..2 /\ sem \in [Seats -> Nat]
  BY <1>1 DEF Seats, Types, ThreadTypes
<1>5. s \in Seats /\ Place(s, first) = n + 1
  BY <1>4, PlaceFacts
<1>6. sem' = [sem EXCEPT ![s] = @ + 1]
  BY <1>1 DEF Tell, Wakes
<1>7. UNCHANGED <<sync, game, over>>
  BY DEF Tell
<1>8. TellThread(p, g, d, first, n)
  BY DEF TellRound
<1>9. TellThread(p, g, d, first, n + 1)'
  <2>1. sem'[p] = 0
    BY <1>1, <1>4, <1>5, <1>6
  <2>2. TellTurn(p, n + 1, first)'
    BY <1>1, <1>4, <2>1 DEF TellTurn
  <2>3. bytes'[p] = n + 1
    BY <1>1, <1>3
  <2> QED BY <1>1, <1>4, <2>2, <2>3 DEF TellThread, Playing
<1>10. ASSUME NEW q \in Seats \ {p} PROVE TellThread(q, g, d, first, n + 1)'
  <2>1. TellThread(q, g, d, first, n) /\ bytes[q] \in Nat /\ q \in Seats
    BY DEF TellRound, Types, ThreadTypes
  <2>2. Place(q, first) \in Seats /\ Place(q, first) # n /\ (Place(q, first) = n + 1 => q = s)
    <3>1. Place(q, first) = Place(p, first) => q = p
      BY <2>1, PlaceFacts
    <3>2. Place(q, first) = Place(s, first) => q = s
      BY <2>1, <1>5, PlaceFacts
    <3>3. Place(q, first) \in Seats
      BY <2>1, PlaceFacts
    <3> QED BY <1>1, <1>5, <3>1, <3>2, <3>3
  <2>3. th'[q] = th[q] /\ (q # s => sem'[q] = sem[q]) /\ (q = s => sem'[q] = sem[q] + 1)
    BY <1>2, <1>4, <1>5, <1>6
  <2>4. Place(s, first) = n + 1
    BY <1>5
  <2>5. TellTurn(q, n + 1, first)'
    BY <1>4, <2>1, <2>2, <2>3, <2>4 DEF TellThread, TellTurn, Seats
  <2>6. bytes'[q] = (n + 1) + (IF th'[q].pc = "known" THEN 4 ELSE 0)
    <3> DEFINE b == IF th[q].pc = "known" THEN 4 ELSE 0
    <3>1. b \in Nat /\ bytes[q] = n + b /\ bytes'[q] = bytes[q] + 1
      BY <1>3, <2>1 DEF TellThread
    <3>2. (IF th'[q].pc = "known" THEN 4 ELSE 0) = b
      BY <2>3
    <3> HIDE DEF b
    <3>3. (n + b) + 1 = (n + 1) + b
      BY <1>4, <3>1
    <3> QED BY <3>1, <3>2, <3>3
  <2>7. state'[q] = state[q] /\ table' = table
    BY <1>2, <1>7 DEF game
  <2> QED BY <2>1, <2>3, <2>5, <2>6, <2>7 DEF TellThread, Playing
<1>11. \A q \in Seats : (th'[q].pc = "known") <=> (th[q].pc = "known")
  BY <1>1, <1>2
<1>12. get_loser(table, first) \in Seats
  BY LoserType
<1> QED BY <1>4, <1>7, <1>9, <1>10, <1>11, <1>12 DEF TellRound, OnTable, sync, game

EndThread(p, g) ==
  /\ sem[p] = 0
  /\ bytes[p] = Count("start") + (IF th[p].pc = "done" THEN 4 ELSE 0)
  /\ \/ th[p].pc = "out" /\ g = 0 /\ state[p] = "BEFORE_DRAW"
     \/ th[p].pc = "done" /\ g > 0 /\ th[p].gid = g /\ th[p].draw + 1 = Tricks
     \/ th[p].pc = "score" /\ g > 0 /\ th[p].gid = g
     \/ th[p].pc = "start" /\ th[p].gid = g + 1 /\ state[p] = "BEFORE_DRAW"

\* Game g has ended (or nothing has begun), and not all wait for the next one.
EndRound(g) ==
  /\ ~over /\ current_player = 0 /\ loaded = g
  /\ \/ current_game = g + 1 /\ current_draw = 0
     \/ \A p \in Seats : th[p].pc \in {"done", "score"}
  /\ \E p \in Seats : th[p].pc # "start"
  /\ \A p \in Seats : EndThread(p, g)

LEMMA TellLast ==
  ASSUME Types, NEW g \in Nat, NEW d \in Nat, NEW first \in Seats, NEW n \in Seats,
         TellRound(g, d, first, n), NEW p \in Seats, Tell(p), ~(th[p].player < 3)
  PROVE  /\ IF d + 1 < Tricks THEN CardRound(g, d + 1)' ELSE EndRound(g)'
         /\ first_seat = get_loser(table, first)
<1> DEFINE loser == get_loser(table, first)
<1>0. TellMoves(p, g, d, first, n)
  BY TellDoes
<1>1. /\ bytes[p] = n
      /\ th[p].pc = "tell" /\ Place(p, first) = n /\ th[p].player = n /\ sem[p] = 0
      /\ th[p].draw = d
      /\ th'[p].pc = "done" /\ th'[p].gid = g /\ th'[p].draw = d /\ th'[p].player = n
      /\ state'[p] = "BEFORE_TRICK"
  BY <1>0 DEF TellMoves
<1>2. \A q \in Seats \ {p} : th'[q] = th[q] /\ state'[q] = state[q]
  BY <1>0 DEF TellMoves
<1>3. \A q \in Seats : bytes'[q] = bytes[q] + 1
  BY <1>0 DEF TellMoves
<1>4. n = 3
  BY <1>1 DEF Seats
<1>5. sem' = sem /\ UNCHANGED <<sync, game, over>>
  BY DEF Tell
<1>6. ASSUME NEW q \in Seats
      PROVE  /\ th'[q].pc = "done" /\ th'[q].gid = g /\ th'[q].draw = d
             /\ state'[q] = "BEFORE_TRICK" /\ bytes'[q] = 4 /\ sem'[q] = 0
             /\ th[q].pc # "known"
  <2>1. TellThread(q, g, d, first, n)
    BY DEF TellRound
  <2>2. CASE q = p
    <3>1. bytes'[q] = 4
      <4>1. bytes[q] = 3 /\ bytes'[q] = bytes[q] + 1
        BY <1>1, <1>3, <1>4, <2>2
      <4> QED BY <4>1
    <3> QED BY <1>1, <1>5, <2>2, <3>1
  <2>3. CASE q # p
    <3>1. Place(q, first) \in Seats /\ Place(q, first) # 3
      <4>1. Place(q, first) = Place(p, first) => q = p
        BY PlaceFacts
      <4>2. Place(q, first) \in Seats
        BY PlaceFacts
      <4> QED BY <1>1, <1>4, <2>3, <4>1, <4>2
    <3>2. th[q].pc = "done" /\ sem[q] = 0
      BY <1>4, <2>1, <3>1 DEF TellThread, TellTurn, Seats
    <3>3. bytes'[q] = 4
      <4>1. bytes[q] = 3 + 0 /\ bytes'[q] = bytes[q] + 1
        BY <1>3, <1>4, <2>1, <3>2 DEF TellThread
      <4> QED BY <4>1
    <3> QED BY <1>2, <1>5, <2>1, <2>3, <3>2, <3>3 DEF TellThread, Playing
  <2> QED BY <2>2, <2>3
<1>7. loser \in Seats
  BY LoserType
<1>8. first_seat = loser /\ first_seat \in Seats
  BY <1>6, <1>7 DEF TellRound
<1>9. /\ ~over' /\ current_game' = g /\ current_player' = 0 /\ loaded' = g /\ g \in DOMAIN Games
      /\ first_seat' = first_seat
  BY <1>5 DEF TellRound, sync, game
<1>12. Waking' = 0
  BY <1>6 DEF Waking
<1>10. CASE d + 1 < Tricks
  <2>1. ASSUME NEW q \in Seats PROVE CardThread(q, g, d + 1)'
    <3>1. Place(q, first_seat') \in Seats /\ Place(q, first_seat') \in Nat
      BY <1>8, <1>9, PlaceFacts DEF Seats
    <3>2. Coming(q, d + 1)' /\ Ready(q)' = 4
      BY <1>6 DEF Coming, Ready
    <3> QED BY <1>6, <1>9, <1>12, <3>1, <3>2 DEF CardThread, InTurn
  <2>2. DrawKnown(d + 1)'
    BY <1>6 DEF DrawKnown
  <2>3. GameKnown(g, d + 1)'
    BY <1>9 DEF GameKnown
  <2> QED BY <1>6, <1>8, <1>9, <1>10, <2>1, <2>2, <2>3 DEF CardRound
<1>11. CASE ~(d + 1 < Tricks)
  <2>1. Count("start")' = 0
    BY <1>6 DEF Count, Seats
  <2>2. d + 1 = Tricks
    BY <1>11, GamesAssumption DEF TellRound
  <2>3. g > 0
    <3>1. g \in 1..Len(Games)
      BY <1>9, GamesAssumption
    <3> QED BY <3>1
  <2>4. \A q \in Seats : EndThread(q, g)'
    BY <1>6, <2>1, <2>2, <2>3 DEF EndThread
  <2> QED BY <1>6, <1>8, <1>9, <1>11, <2>4 DEF EndRound, Seats
<1> QED BY <1>8, <1>10, <1>11

\* All wait for the next game: the round of its first cards begins.
NextGame(g) == CardRound(g + 1, 0) /\ loaded = g /\ \A q \in Seats : th[q].pc = "start"

LEMMA AllStart ==
  ASSUME Types', NEW g \in Nat, \A q \in Seats : EndThread(q, g)' /\ th'[q].pc = "start",
         ~over', current_player' = 0, loaded' = g, current_game' = g + 1, current_draw' = 0
  PROVE  NextGame(g)'
<1>1. first_seat' \in Seats
  BY DEF Types, GameTypes
<1>2. Count("start")' = 4 /\ Waking' = 0
  BY DEF Count, Seats, Waking
<1>3. ASSUME NEW q \in Seats PROVE CardThread(q, g + 1, 0)' /\ state'[q] = "BEFORE_DRAW"
  <2>1. Place(q, first_seat') \in Seats
    BY <1>1, PlaceFacts
  <2>2. /\ sem'[q] = 0 /\ bytes'[q] = 4 /\ th'[q].gid = g + 1 /\ state'[q] = "BEFORE_DRAW"
        /\ th'[q].pc = "start"
    BY <1>2 DEF EndThread
  <2> QED BY <1>2, <2>1, <2>2 DEF CardThread, InTurn, Coming, Ready, Seats
<1>4. 0 < Tricks /\ g < g + 1
  BY GamesAssumption
<1>5. DrawKnown(0)' /\ GameKnown(g + 1, 0)'
  BY <1>3, <1>4 DEF DrawKnown, GameKnown
<1> QED BY <1>3, <1>4, <1>5 DEF CardRound, NextGame

LEMMA JoinEnd ==
  ASSUME Types, Types', NEW g \in Nat, EndRound(g), NEW p \in Seats, Join(p)
  PROVE  EndRound(g)' \/ NextGame(g)'
<1> DEFINE r == [Gone EXCEPT !.gid = current_game,
                             !.pc = IF state[p] = "BEFORE_DRAW" THEN "start" ELSE "deal"]
<1>1. th[p].pc = "out" /\ EndThread(p, g)
  BY DEF Join, At, EndRound
<1>2. g = 0 /\ state[p] = "BEFORE_DRAW" /\ current_game = g + 1 /\ current_draw = 0
  BY <1>1 DEF EndThread, EndRound
<1>3. r.pc = "start" /\ r.gid = g + 1
  BY <1>2 DEF Gone
<1>4. th'[p] = r /\ \A q \in Seats \ {p} : th'[q] = th[q]
  BY Moves DEF Join
<1> HIDE DEF r
<1>5. \A q \in Seats : bytes'[q] = bytes[q] + 1
  BY <1>2 DEF Join, AllBytes, Types, ThreadTypes
<1>6. UNCHANGED <<state, sem, sync, game, over>>
  BY DEF Join
<1>7. Count("start")' = Count("start") + 1 /\ Count("start") \in Nat
  BY <1>1, <1>3, <1>4, CountUp, CountIs
<1>8. EndThread(p, g)'
  BY <1>1, <1>2, <1>3, <1>4, <1>5, <1>6, <1>7 DEF EndThread
<1>9. ASSUME NEW q \in Seats \ {p} PROVE EndThread(q, g)'
  <2>1. EndThread(q, g) /\ th'[q] = th[q] /\ bytes'[q] = bytes[q] + 1
    BY <1>4, <1>5 DEF EndRound
  <2>2. bytes'[q] = Count("start")' + (IF th'[q].pc = "done" THEN 4 ELSE 0)
    BY <1>7, <2>1 DEF EndThread
  <2> QED BY <1>6, <2>1, <2>2 DEF EndThread
<1>10. CASE \E q \in Seats : th'[q].pc # "start"
  BY <1>2, <1>6, <1>8, <1>9, <1>10 DEF EndRound, sync, game
<1>11. CASE \A q \in Seats : th'[q].pc = "start"
  <2>1. ~over' /\ current_player' = 0 /\ loaded' = g /\ current_game' = g + 1 /\ current_draw' = 0
    BY <1>2, <1>6 DEF EndRound, sync, game
  <2> QED BY <1>8, <1>9, <1>11, <2>1, AllStart
<1> QED BY <1>10, <1>11

LEMMA ScoreEnd ==
  ASSUME Types, Types', NEW g \in Nat, EndRound(g), NEW p \in Seats, Score(p)
  PROVE  /\ EndRound(g)' \/ NextGame(g)'
         /\ th'[p].pc = "start" /\ g > 0
<1> DEFINE r == [th[p] EXCEPT !.pc = "start", !.gid = @ + 1]
<1>1. th[p].pc = "score" /\ EndThread(p, g) /\ th[p] \in Threads
  BY ThreadIs DEF Score, At, EndRound
<1>2. th[p].gid = g /\ g > 0
  BY <1>1 DEF EndThread
<1>3. r.pc = "start" /\ r.gid = g + 1
  BY <1>1, <1>2 DEF Threads
<1>4. th'[p] = r /\ \A q \in Seats \ {p} : th'[q] = th[q]
  BY Moves DEF Score
<1> HIDE DEF r
<1>5. \A q \in Seats : bytes'[q] = bytes[q] + 1
  BY DEF Score, AllBytes, Types, ThreadTypes
<1>6. /\ state'[p] = "BEFORE_DRAW"
      /\ \A q \in Seats \ {p} : state'[q] = state[q]
  BY DEF Score, Types, ThreadTypes
<1>7. Count("start")' = Count("start") + 1 /\ Count("start") \in Nat
  BY <1>1, <1>3, <1>4, CountUp, CountIs
<1>8. UNCHANGED <<sem, current_player, game, over>> /\ current_game' = g + 1 /\ current_draw' = 0
  BY <1>2 DEF Score
<1>9. EndThread(p, g)'
  BY <1>1, <1>2, <1>3, <1>4, <1>5, <1>6, <1>7, <1>8 DEF EndThread
<1>10. ASSUME NEW q \in Seats \ {p} PROVE EndThread(q, g)'
  <2>1. EndThread(q, g) /\ th'[q] = th[q] /\ bytes'[q] = bytes[q] + 1
    BY <1>4, <1>5 DEF EndRound
  <2>2. bytes'[q] = Count("start")' + (IF th'[q].pc = "done" THEN 4 ELSE 0)
    BY <1>7, <2>1 DEF EndThread
  <2> QED BY <1>6, <1>8, <2>1, <2>2 DEF EndThread
<1>11. ~over' /\ current_player' = 0 /\ loaded' = g
  BY <1>8 DEF EndRound, game
<1>12. ASSUME \E q \in Seats : th'[q].pc # "start" PROVE EndRound(g)'
  BY <1>8, <1>9, <1>10, <1>11, <1>12 DEF EndRound
<1>13. ASSUME \A q \in Seats : th'[q].pc = "start" PROVE NextGame(g)'
  BY <1>8, <1>9, <1>10, <1>11, <1>13, AllStart
<1> QED BY <1>2, <1>3, <1>4, <1>12, <1>13

LEMMA TrickDoneEnd ==
  ASSUME Types, NEW g \in Nat, EndRound(g), NEW p \in Seats, TrickDone(p)
  PROVE  EndRound(g)'
<1> DEFINE r == [th[p] EXCEPT !.pc = "score"]
<1>1. th[p].pc = "done" /\ EndThread(p, g)
  BY DEF TrickDone, At, EndRound
<1>2. th[p].draw + 1 = Tricks /\ th[p].gid = g /\ g > 0
  BY <1>1 DEF EndThread
<1>3. r.pc = "score" /\ r.gid = th[p].gid
  BY ThreadIs, ChangePc
<1>4. th'[p] = r /\ \A q \in Seats \ {p} : th'[q] = th[q]
  <2>1. ~(th[p].draw + 1 < Tricks)
    BY <1>2, GamesAssumption
  <2>2. Step(p, r)
    BY <2>1 DEF TrickDone
  <2> QED BY <2>2, Moves
<1> HIDE DEF r
<1>5. bytes'[p] = bytes[p] - 4 /\ \A q \in Seats \ {p} : bytes'[q] = bytes[q]
  BY PassesOnce DEF TrickDone
<1>6. UNCHANGED <<state, sem, sync, game, over>>
  BY DEF TrickDone
<1>7. Count("start")' = Count("start") /\ Count("start") \in Nat
  BY <1>1, <1>3, <1>4, CountSame, CountIs
<1>8. EndThread(p, g)'
  BY <1>1, <1>2, <1>3, <1>4, <1>5, <1>6, <1>7 DEF EndThread
<1>9. \A q \in Seats \ {p} : EndThread(q, g)'
  BY <1>4, <1>5, <1>6, <1>7 DEF EndRound, EndThread
<1> QED BY <1>1, <1>3, <1>4, <1>6, <1>8, <1>9 DEF EndRound, sync, game

LEMMA PlayedWaits ==
  ASSUME Types, NEW g \in Nat, NEW d \in Nat, CardRound(g, d), NEW p \in Seats
  PROVE  ~Played(p)
<1> SUFFICES ASSUME Played(p) PROVE FALSE
  OBVIOUS
<1>1. th[p].pc = "played" /\ CardThread(p, g, d) /\ bytes[p] >= 4
  BY PassesOn DEF Played, At, CardRound
<1>2. current_player \in 0..3 /\ Waking \in {0, 1} /\ bytes[p] \in Nat
  BY ThreadIs, WakingIs DEF Types, ThreadTypes, Seats
<1> QED BY <1>1, <1>2 DEF CardThread, Ready

LEMMA DoneWaits ==
  ASSUME Types, NEW g \in Nat, NEW d \in Nat, NEW first \in Seats, NEW n \in Seats,
         TellRound(g, d, first, n), NEW p \in Seats
  PROVE  ~TrickDone(p)
<1> SUFFICES ASSUME TrickDone(p) PROVE FALSE
  OBVIOUS
<1>1. th[p].pc = "done" /\ TellThread(p, g, d, first, n) /\ bytes[p] >= 4
  BY PassesOnce DEF TrickDone, At, TellRound
<1> QED BY <1>1 DEF TellThread, Seats

LEMMA StartWaits ==
  ASSUME Types, NEW g \in Nat, EndRound(g), NEW p \in Seats
  PROVE  ~Start(p)
<1> SUFFICES ASSUME Start(p) PROVE FALSE
  OBVIOUS
<1>1. th[p].pc = "start" /\ EndThread(p, g) /\ bytes[p] >= 4
  BY PassesOnce DEF Start, At, EndRound
<1>2. Count("start") \in 0..3
  BY CountIs DEF EndRound
<1> QED BY <1>1, <1>2 DEF EndThread
-----------------------------------------------------------------------------
(* What the players are told of a trick                                    *)

\* p was sent its last trick: who took it, and that the loser was computed well.
ToldOf(p, loser) ==
  LET m == told[p].trick
      place == (loser + th[p].player - p) % 4
  IN /\ m.loser = loser /\ m.draw = th[p].draw
     /\ m.cards[place].suit = m.cards[0].suit
     /\ \A i \in Seats : m.cards[i].suit = m.cards[0].suit
                            => m.cards[i].rank <= m.cards[place].rank

DoneTold(loser) == \A p \in Seats : th[p].pc = "done" => ToldOf(p, loser)

\* The first player has made the message before anybody sends it.
TakenNow(d, loser) ==
  \A p \in Seats : th[p].player = 0 /\ th[p].pc # "known" =>
    taken # <<>> /\ Last(taken) = Message(d, table, loser)

LEMMA LastAppended ==
  ASSUME NEW S, NEW s \in Seq(S), NEW e \in S
  PROVE  Append(s, e) # <<>> /\ Last(Append(s, e)) = e
BY DEF Last

\* A step of p leaves alone what the other threads have and their players know.
LEMMA OthersKept ==
  ASSUME Types, NEW p \in Seats, Thread(p) \/ Leave(p) \/ LeaveTell(p)
  PROVE  /\ \A q \in Seats \ {p} : /\ th'[q] = th[q] /\ told'[q] = told[q]
                                   /\ held'[q] = held[q] /\ state'[q] = state[q]
         /\ Tell(p) \/ th'[p].pc # "done"
<1>0. /\ told \in [Seats -> [trick : Messages, total : Points]]
      /\ held \in [Seats -> SUBSET Card]
      /\ state \in [Seats -> {"BEFORE_DRAW", "BEFORE_TRICK", "AFTER_TRICK"}]
      /\ th[p] \in Threads
  BY ThreadIs DEF Types, ThreadTypes, GameTypes
<1> DEFINE Others == \A q \in Seats \ {p} : th'[q] = th[q]
           Kept == \A q \in Seats \ {p} : /\ told'[q] = told[q] /\ held'[q] = held[q]
                                            /\ state'[q] = state[q]
<1> SUFFICES Others /\ Kept /\ (Tell(p) \/ th'[p].pc # "done")
  OBVIOUS
<1>1. CASE Join(p)
  <2> DEFINE r == [Gone EXCEPT !.gid = current_game,
                               !.pc = IF state[p] = "BEFORE_DRAW" THEN "start" ELSE "deal"]
  <2>1. Step(p, r) /\ r.pc # "done"
    BY <1>1 DEF Join, Gone
  <2> HIDE DEF r
  <2>2. Others /\ th'[p].pc # "done"
    BY <2>1, Moves
  <2> QED BY <1>1, <2>2 DEF Join
<1>2. CASE Start(p)
  <2>1. Step(p, [th[p] EXCEPT !.pc = "deal"])
    BY <1>2 DEF Start
  <2>2. Others /\ th'[p].pc = "deal"
    BY <2>1, MovesTo
  <2> QED BY <1>0, <1>2, <2>2 DEF Start
<1>3. CASE Deal(p)
  <2> DEFINE r == [th[p] EXCEPT !.pc = "turn", !.draw = current_draw]
  <2>1. r.pc = "turn"
    BY <1>0 DEF Threads
  <2>2. Step(p, r) \/ (UNCHANGED th /\ th[p].pc = "deal")
    BY <1>3 DEF Deal, At
  <2> HIDE DEF r
  <2>3. Others /\ th'[p].pc # "done"
    BY <2>1, <2>2, Moves
  <2>4. Kept
    BY <1>0, <1>3 DEF Deal
  <2> QED BY <2>3, <2>4
<1>4. CASE Turn(p)
  <2> DEFINE player == (4 + p - first_seat) % 4
             r == [th[p] EXCEPT !.player = player,
                                !.pc = IF player > current_player THEN "sleep" ELSE "card"]
  <2>1. r.pc # "done"
    BY <1>0 DEF Threads
  <2>2. Step(p, r)
    BY <1>4 DEF Turn
  <2> HIDE DEF r
  <2>3. Others /\ th'[p].pc # "done"
    BY <2>1, <2>2, Moves
  <2> QED BY <1>0, <1>4, <2>3 DEF Turn
<1>5. CASE WakeUp(p)
  <2>1. Step(p, [th[p] EXCEPT !.pc = "card"])
    BY <1>5 DEF WakeUp
  <2>2. Others /\ th'[p].pc = "card"
    BY <2>1, MovesTo
  <2> QED BY <1>0, <1>5, <2>2 DEF WakeUp
<1>6. CASE PlayCard(p)
  <2> DEFINE r == IF th[p].player < 3
                    THEN [th[p] EXCEPT !.pc = "wake", !.next = (th[p].player + 1 + first_seat) % 4]
                    ELSE [th[p] EXCEPT !.pc = "played"]
  <2>1. Step(p, r) /\ r.pc # "done"
    BY <1>0, <1>6 DEF PlayCard, Threads
  <2> HIDE DEF r
  <2>2. Others /\ th'[p].pc # "done"
    BY <2>1, Moves
  <2> QED BY <1>0, <1>6, <2>2 DEF PlayCard
<1>7. CASE Played(p)
  <2> DEFINE r == [th[p] EXCEPT !.pc = "known", !.loser = get_loser(table, first_seat),
                             !.next = (th[p].player + 1 + first_seat) % 4]
  <2>1. r.pc # "done"
    BY <1>0 DEF Threads
  <2>2. Step(p, r)
    BY <1>7 DEF Played
  <2> HIDE DEF r
  <2>3. Others /\ th'[p].pc # "done"
    BY <2>1, <2>2, Moves
  <2> QED BY <1>0, <1>7, <2>3 DEF Played
<1>8. CASE Known(p)
  <2>1. PICK pc \in {"tell", "sleepTell"} : Step(p, [th[p] EXCEPT !.pc = pc])
    BY <1>8 DEF Known
  <2>2. Others /\ th'[p].pc = pc
    BY <2>1, MovesTo
  <2> QED BY <1>8, <2>2 DEF Known
<1>9. CASE WakeUpTell(p)
  <2>1. Step(p, [th[p] EXCEPT !.pc = "tell"])
    BY <1>9 DEF WakeUpTell
  <2>2. Others /\ th'[p].pc = "tell"
    BY <2>1, MovesTo
  <2> QED BY <1>0, <1>9, <2>2 DEF WakeUpTell
<1>10. CASE Tell(p)
  <2>1. Others
    BY <1>10, Moves DEF Tell
  <2> QED BY <1>0, <1>10, <2>1 DEF Tell
<1>11. CASE TrickDone(p)
  <2> DEFINE r == IF th[p].draw + 1 < Tricks THEN [th[p] EXCEPT !.pc = "turn", !.draw = @ + 1]
                  ELSE [th[p] EXCEPT !.pc = "score"]
  <2>1. r.pc # "done"
    BY <1>0 DEF Threads
  <2>2. Step(p, r)
    BY <1>11 DEF TrickDone
  <2> HIDE DEF r
  <2>3. Others /\ th'[p].pc # "done"
    BY <2>1, <2>2, Moves
  <2> QED BY <1>0, <1>11, <2>3 DEF TrickDone
<1>12. CASE Score(p)
  <2> DEFINE r == [th[p] EXCEPT !.pc = "start", !.gid = @ + 1]
  <2>1. r.pc # "done"
    BY <1>0 DEF Threads
  <2>2. Step(p, r)
    BY <1>12 DEF Score
  <2> HIDE DEF r
  <2>3. Others /\ th'[p].pc # "done"
    BY <2>1, <2>2, Moves
  <2> QED BY <1>0, <1>12, <2>3 DEF Score
<1>13. CASE Leave(p)
  <2>1. Others /\ th'[p].pc # "done"
    BY <1>13, Moves DEF Leave, Gone
  <2> QED BY <1>13, <2>1 DEF Leave
<1>14. CASE LeaveTell(p)
  <2>1. Others /\ th'[p].pc # "done"
    BY <1>14, Moves DEF LeaveTell, Gone
  <2> QED BY <1>14, <2>1 DEF LeaveTell
<1>15. CASE WakeNext(p)
  <2>1. Step(p, [th[p] EXCEPT !.pc = "played"])
    BY <1>15 DEF WakeNext
  <2>2. Others /\ th'[p].pc = "played"
    BY <2>1, MovesTo
  <2> QED BY <1>0, <1>15, <2>2 DEF WakeNext
<1> QED BY <1>1, <1>2, <1>3, <1>4, <1>5, <1>6, <1>7, <1>8, <1>9, <1>10, <1>11, <1>12, <1>13, <1>14,
          <1>15 DEF Thread

LEMMA DoneToldKept ==
  ASSUME Types, NEW p \in Seats, Thread(p) \/ Leave(p) \/ LeaveTell(p), ~Tell(p),
         NEW loser, DoneTold(loser)
  PROVE  DoneTold(loser)'
<1>1. \A q \in Seats \ {p} : th'[q] = th[q] /\ told'[q] = told[q]
  BY OthersKept
<1>2. th'[p].pc # "done"
  BY OthersKept
<1> QED BY <1>1, <1>2 DEF DoneTold, ToldOf

LEMMA PlaceOfLoser ==
  ASSUME NEW p \in Seats, NEW first \in Seats, NEW best \in Seats
  PROVE  (((best + first) % 4) + Place(p, first) - p) % 4 = best
BY DEF Place, Seats

LEMMA TellTold ==
  ASSUME Types, NEW g \in Nat, NEW d \in Nat, NEW first \in Seats, NEW n \in Seats,
         TellRound(g, d, first, n), NEW p \in Seats, Tell(p),
         NEW loser, loser = get_loser(table, first), TakenNow(d, loser), DoneTold(loser)
  PROVE  /\ DoneTold(loser)' /\ TakenNow(d, loser)'
         /\ taken # <<>> /\ Last(taken) = Message(d, table, loser)
<1>0. TellMoves(p, g, d, first, n)
  BY TellDoes
<1>1. taken # <<>> /\ Last(taken) = Message(d, table, loser)
  <2> DEFINE q == SeatAt(0, first)
  <2>1. q \in Seats /\ Place(q, first) = 0
    BY PlaceFacts DEF Seats
  <2>2. TellThread(q, g, d, first, n)
    BY <2>1 DEF TellRound
  <2>3. th[q].player = 0
    BY <2>1, <2>2 DEF TellThread, Playing
  <2>4. th[q].pc # "known"
    <3>1. CASE n = 0
      <4>1. Place(p, first) = 0
        BY <1>0, <3>1 DEF TellMoves
      <4>2. p = q
        BY <2>1, <4>1, PlaceFacts
      <4> QED BY <1>0, <4>2 DEF TellMoves
    <3>2. CASE n # 0
      BY <2>1, <2>2, <3>2 DEF TellThread, TellTurn, Seats
    <3> QED BY <3>1, <3>2
  <2> QED BY <2>1, <2>3, <2>4 DEF TakenNow
<1>2. th[p].player = n /\ th'[p].pc = "done" /\ th'[p].player = n /\ th'[p].draw = d
        /\ th[p].pc = "tell" /\ Place(p, first) = n /\ \A q \in Seats \ {p} : th'[q] = th[q]
  BY <1>0 DEF TellMoves
<1>3. ToldOf(p, loser)'
  <2>1. told'[p].trick = Message(d, table, loser)
    BY <1>1 DEF Tell, Types, GameTypes
  <2> DEFINE best == Best(table)
  <2>2. best \in Seats /\ loser = (best + first) % 4
    <3>1. best \in Seats
      BY BestLeads
    <3> QED BY <3>1 DEF get_loser
  <2>3. \A i \in Seats : table[i] # NoCard /\ table[i].rank \in Nat
    <3>1. ASSUME NEW i \in Seats PROVE table[i] # NoCard /\ table[i].rank \in Nat
      <4>1. table[i] # NoCard /\ table[i] \in Card
        BY DEF TellRound, OnTable, Types, GameTypes, Seats
      <4> QED BY <4>1 DEF Card
    <3> QED BY <3>1
  <2>4. table[best].suit = table[0].suit
    BY <2>3, BestLeads DEF Seats
  <2>5. \A i \in Seats : table[i].suit = table[0].suit => table[i].rank <= table[best].rank
    BY <2>3, BestIsHighest
  <2>6. (loser + n - p) % 4 = best
    BY <1>2, <2>2, PlaceOfLoser
  <2> HIDE DEF best
  <2> QED BY <1>2, <2>1, <2>4, <2>5, <2>6 DEF ToldOf, Message
<1>4. DoneTold(loser)'
  <2>1. \A q \in Seats \ {p} : th'[q] = th[q] /\ told'[q] = told[q]
    BY OthersKept DEF Thread
  <2>2. ASSUME NEW q \in Seats \ {p}, th'[q].pc = "done" PROVE ToldOf(q, loser)'
    <3>1. ToldOf(q, loser)
      BY <2>1, <2>2 DEF DoneTold
    <3>2. told'[q] = told[q] /\ th'[q] = th[q]
      BY <2>1
    <3> QED BY <3>1, <3>2 DEF ToldOf
  <2> QED BY <1>3, <2>2 DEF DoneTold
<1>5. TakenNow(d, loser)'
  <2>1. UNCHANGED <<taken, table>>
    BY DEF Tell, game
  <2> QED BY <1>1, <2>1 DEF TakenNow
<1> QED BY <1>1, <1>4, <1>5

LEMMA KnownTold ==
  ASSUME Types, NEW g \in Nat, NEW d \in Nat, NEW first \in Seats, NEW n \in Seats,
         TellRound(g, d, first, n), NEW p \in Seats, Known(p),
         NEW loser, loser = get_loser(table, first), TakenNow(d, loser)
  PROVE  TakenNow(d, loser)'
<1>1. th[p].draw = d /\ th[p].loser = loser /\ table' = table
        /\ th'[p].player = th[p].player /\ \A q \in Seats \ {p} : th'[q] = th[q]
  <2>1. \E pc \in {"tell", "sleepTell"} : Step(p, [th[p] EXCEPT !.pc = pc])
    BY DEF Known
  <2>2. th'[p].player = th[p].player /\ \A q \in Seats \ {p} : th'[q] = th[q]
    BY <2>1, MovesTo
  <2>3. th[p].draw = d /\ th[p].loser = loser
    BY KnownTell
  <2> QED BY <2>2, <2>3 DEF Known
<1>2. CASE th[p].player = 0
  <2> DEFINE m == Message(d, table, loser)
  <2>1. m \in Messages
    <3>1. loser \in Seats
      BY LoserType
    <3> QED BY <3>1 DEF Message, Messages, Types, GameTypes
  <2>2. taken' = Append(taken, m)
    BY <1>1, <1>2 DEF Known
  <2> HIDE DEF m
  <2>3. taken' # <<>> /\ Last(taken') = m
    BY <2>1, <2>2, LastAppended DEF Types, GameTypes
  <2> QED BY <1>1, <2>3 DEF TakenNow, m
<1>3. CASE th[p].player # 0
  <2>1. taken' = taken
    BY <1>3 DEF Known
  <2> QED BY <1>1, <1>3, <2>1 DEF TakenNow
<1> QED BY <1>2, <1>3

LEMMA WakeUpTellTold ==
  ASSUME Types, NEW p \in Seats, WakeUpTell(p), NEW d, NEW loser, TakenNow(d, loser)
  PROVE  TakenNow(d, loser)'
<1>1. th'[p].player = th[p].player /\ th[p].pc = "sleepTell"
        /\ \A q \in Seats \ {p} : th'[q] = th[q]
  BY MovesTo DEF WakeUpTell, At
<1>2. UNCHANGED <<taken, table>>
  BY DEF WakeUpTell, game
<1> QED BY <1>1, <1>2 DEF TakenNow
-----------------------------------------------------------------------------
(* Which step a thread takes                                               *)

Acts(p) == Thread(p) \/ Leave(p) \/ LeaveTell(p)

\* Where the threads are in each round.
LEMMA CardPlaces ==
  ASSUME NEW g, NEW d, CardRound(g, d), NEW p \in Seats
  PROVE  th[p].pc \in {"out", "start", "deal", "done", "turn", "sleep", "card", "wake",
                     "played"}
BY DEF CardRound, CardThread, InTurn, Coming, Asked, Answered

LEMMA KnownPlaces ==
  ASSUME NEW g, NEW d, KnownRound(g, d), NEW p \in Seats
  PROVE  th[p].pc \in {"played", "known"}
BY DEF KnownRound, KnownThread

LEMMA TellPlaces ==
  ASSUME NEW g, NEW d, NEW first, NEW n, TellRound(g, d, first, n), NEW p \in Seats
  PROVE  th[p].pc \in {"known", "sleepTell", "tell", "done"}
BY DEF TellRound, TellThread, TellTurn

LEMMA EndPlaces ==
  ASSUME NEW g, EndRound(g), NEW p \in Seats
  PROVE  th[p].pc \in {"out", "done", "score", "start"}
BY DEF EndRound, EndThread

\* What a thread does, by its place.
LEMMA ActsAt ==
  ASSUME NEW p \in Seats, Acts(p)
  PROVE  /\ ~over
         /\ \/ th[p].pc = "out" /\ Join(p)
            \/ th[p].pc = "start" /\ Start(p)
            \/ th[p].pc = "deal" /\ Deal(p)
            \/ th[p].pc = "turn" /\ Turn(p)
            \/ th[p].pc = "sleep" /\ WakeUp(p)
            \/ th[p].pc = "card" /\ PlayCard(p)
            \/ th[p].pc = "wake" /\ WakeNext(p)
            \/ th[p].pc = "played" /\ Played(p)
            \/ th[p].pc = "known" /\ Known(p)
            \/ th[p].pc = "sleepTell" /\ WakeUpTell(p)
            \/ th[p].pc = "tell" /\ Tell(p)
            \/ th[p].pc = "done" /\ TrickDone(p)
            \/ th[p].pc = "score" /\ Score(p)
            \/ ~smooth'
            \/ th[p].pc = "card" /\ Leave(p)
<1>1. ASSUME LeaveTell(p) PROVE ~smooth' /\ ~over
  <2>1. smooth' = FALSE /\ ~over
    BY <1>1, Zenon DEF LeaveTell, At
  <2> QED BY <2>1
<1>2. ASSUME Leave(p) PROVE ~over /\ (~smooth' \/ th[p].pc = "card")
  <2>1. smooth' = (smooth /\ th[p].pc = "card")
    BY <1>2, Zenon DEF Leave
  <2>2. ~over
    BY <1>2, Zenon DEF Leave, At
  <2> QED BY <2>1, <2>2
<1>3. ASSUME Thread(p)
      PROVE  /\ ~over
             /\ \/ th[p].pc = "out" /\ Join(p)
                \/ th[p].pc = "start" /\ Start(p)
                \/ th[p].pc = "deal" /\ Deal(p)
                \/ th[p].pc = "turn" /\ Turn(p)
                \/ th[p].pc = "sleep" /\ WakeUp(p)
                \/ th[p].pc = "card" /\ PlayCard(p)
                \/ th[p].pc = "wake" /\ WakeNext(p)
                \/ th[p].pc = "played" /\ Played(p)
                \/ th[p].pc = "known" /\ Known(p)
                \/ th[p].pc = "sleepTell" /\ WakeUpTell(p)
                \/ th[p].pc = "tell" /\ Tell(p)
                \/ th[p].pc = "done" /\ TrickDone(p)
                \/ th[p].pc = "score" /\ Score(p)
  BY <1>3 DEF Thread, At, Join, Start, Deal, Turn, WakeUp, PlayCard, WakeNext, Played, Known,
              WakeUpTell, Tell, TrickDone, Score
<1> QED BY <1>1, <1>2, <1>3 DEF Acts
-----------------------------------------------------------------------------
(* The hands                                                               *)

\* The cards of game g, and those that seat p was dealt.
HandOf(g, p) == Games[g].hands[p]
Deck(g) == UNION {HandOf(g, p) : p \in Seats}

\* p has what it was dealt, but for what it has played ...
Left(g) == \A p \in Seats : hands[p] = HandOf(g, p) \ (Taken \cup Range(table))

\* ... and its client knows that, but for the cards on the table.
HandKnown(p) ==
  /\ th[p].pc \in {"done", "turn", "sleep", "card"} => held[p] = hands[p]
  /\ th[p].pc \in {"wake", "played", "known", "sleepTell", "tell"} => held[p] \ Range(table) = hands[p]

Kept(g) == Left(g) /\ Taken \subseteq Deck(g) /\ \A p \in Seats : HandKnown(p)

\* The first n cards on the table are of those who are to play them, and new.
Dealt(g, first, n) == \A i \in Seats : i < n => table[i] \in HandOf(g, SeatAt(i, first))
Fresh(n) == \A i \in Seats : i < n => table[i] \notin Taken

\* Before the first card of a trick the table is as the last trick left it.
OldTable(g) == \A p \in Seats : Range(table) \cap HandOf(g, p) \subseteq Taken

Each(n) == \A p \in Seats : Cardinality(hands[p]) = n
Played1(p) == IF th[p].pc \in {"wake", "played"} THEN 1 ELSE 0

CardHands(g, d) ==
  /\ d = 0 => taken = <<>>
  /\ loaded = g =>
       /\ Kept(g) /\ Dealt(g, first_seat, current_player) /\ Fresh(current_player)
       /\ current_player = 0 => OldTable(g)
       /\ \A p \in Seats : Cardinality(hands[p]) = Tricks - d - Played1(p)

KnownHands(g, d) == Kept(g) /\ Dealt(g, first_seat, 4) /\ Fresh(4) /\ Each(Tricks - d - 1)

TellHands(g, d, first) ==
  /\ Kept(g) /\ Dealt(g, first, 4) /\ Each(Tricks - d - 1)
  /\ th[SeatAt(0, first)].pc = "known" => Fresh(4)

EndHands(g) == g = 0 \/ th[0].pc = "start" => taken = <<>>

LEMMA HandsOf ==
  ASSUME NEW g \in DOMAIN Games
  PROVE  /\ \A p \in Seats : /\ HandOf(g, p) \subseteq Card /\ NoCard \notin HandOf(g, p)
                             /\ IsFiniteSet(HandOf(g, p)) /\ Cardinality(HandOf(g, p)) = Tricks
         /\ \A p, q \in Seats : p # q => HandOf(g, p) \cap HandOf(g, q) = {}
         /\ Games[g].hands = [p \in Seats |-> HandOf(g, p)]
BY OfGame, GamesAssumption DEF HandOf

LEMMA RangeOfTable ==
  ASSUME Types
  PROVE  \A c : c \in Range(table) <=> \E i \in Seats : c = table[i]
BY DEF Types, GameTypes, Range

LEMMA NothingTaken == ASSUME taken = <<>> PROVE Taken = {}
BY DEF Taken

\* The trick on the table is added to the tricks taken.
LEMMA TakenMore ==
  ASSUME Types, NEW draw, NEW loser, taken' = Append(taken, Message(draw, table, loser))
  PROVE  Taken' = Taken \cup Range(table)
<1> DEFINE m == Message(draw, table, loser)
<1>1. m.cards = table
  BY DEF Message
<1>2. taken \in Seq(Messages)
  BY DEF Types, GameTypes
<1> HIDE DEF m
<1>3. Len(taken') = Len(taken) + 1 /\ DOMAIN taken = 1..Len(taken) /\ DOMAIN taken' = 1..Len(taken')
        /\ Len(taken) \in Nat
  BY <1>2 DEF m
<1>4. \A i \in 1..Len(taken) : taken'[i] = taken[i]
  BY <1>2 DEF m
<1>5. taken'[Len(taken) + 1] = m
  BY <1>2 DEF m
<1>6. ASSUME NEW c PROVE c \in Taken' <=> c \in Taken \cup Range(table)
  <2>1. c \in Taken' <=> \E i \in 1..(Len(taken) + 1) : c \in Range(taken'[i].cards)
    BY <1>3 DEF Taken
  <2>2. c \in Taken <=> \E i \in 1..Len(taken) : c \in Range(taken[i].cards)
    BY <1>3 DEF Taken
  <2>3. \A i \in 1..(Len(taken) + 1) : i \in 1..Len(taken) \/ i = Len(taken) + 1
    BY <1>3
  <2>4. 1..Len(taken) \subseteq 1..(Len(taken) + 1) /\ Len(taken) + 1 \in 1..(Len(taken) + 1)
    BY <1>3
  <2> QED BY <1>1, <1>4, <1>5, <2>1, <2>2, <2>3, <2>4
<1> QED BY <1>6

\* The last trick taken is among the tricks taken.
LEMMA LastIsTaken ==
  ASSUME Types, taken # <<>>, NEW draw, NEW loser, Last(taken) = Message(draw, table, loser)
  PROVE  Range(table) \subseteq Taken
<1>1. Len(taken) \in DOMAIN taken /\ taken[Len(taken)].cards = table
  BY DEF Types, GameTypes, Last, Message
<1> QED BY <1>1 DEF Taken

\* No card of a player whose turn is not over lies on the table.
LEMMA NotOnTable ==
  ASSUME Types, NEW g \in DOMAIN Games, NEW n \in Seats, Dealt(g, first_seat, n),
         n = 0 => OldTable(g), n > 0 => OnTable(table, n),
         NEW p \in Seats, Place(p, first_seat) >= n
  PROVE  Range(table) \cap HandOf(g, p) \subseteq Taken
<1>1. CASE n = 0
  BY <1>1 DEF OldTable
<1>2. CASE n > 0
  <2>1. ASSUME NEW i \in Seats PROVE table[i] \notin HandOf(g, p)
    <3>1. CASE i < n
      <4>1. SeatAt(i, first_seat) \in Seats /\ Place(SeatAt(i, first_seat), first_seat) = i
        BY PlaceFacts DEF Types, GameTypes
      <4>2. SeatAt(i, first_seat) # p
        BY <3>1, <4>1 DEF Seats
      <4>3. table[i] \in HandOf(g, SeatAt(i, first_seat))
        BY <3>1 DEF Dealt
      <4> QED BY <4>1, <4>2, <4>3, HandsOf
    <3>2. CASE ~(i < n)
      BY <1>2, <3>2, HandsOf DEF OnTable
    <3> QED BY <3>1, <3>2
  <2> QED BY <2>1, RangeOfTable
<1> QED BY <1>1, <1>2 DEF Seats

\* The steps that touch neither the cards nor what is known of them.
LEMMA CardHandsQuiet ==
  ASSUME Types, NEW g \in Nat, NEW d \in Nat, CardHands(g, d), NEW p \in Seats,
         \A q \in Seats \ {p} : th'[q] = th[q],
         \/ th'[p].pc \in {"out", "start", "deal", "score"} /\ th[p].pc \notin {"wake", "played"}
         \/ th[p].pc \in {"done", "turn", "sleep", "card"} /\ th'[p].pc \in {"turn", "sleep", "card"}
         \/ th[p].pc = "wake" /\ th'[p].pc = "played",
         UNCHANGED <<game, taken, held, current_player>>
  PROVE  CardHands(g, d)'
<1>1. ASSUME NEW q \in Seats
      PROVE  /\ Played1(q)' = Played1(q)
             /\ HandKnown(q) => HandKnown(q)'
  BY DEF Played1, HandKnown, game
<1>2. Taken' = Taken
  BY DEF Taken
<1>3. Kept(g) => Kept(g)'
  BY <1>1, <1>2 DEF Kept, Left, game
<1>4. \A n : Dealt(g, first_seat, n) => Dealt(g, first_seat, n)'
  BY DEF Dealt, game
<1>5. \A n : Fresh(n) => Fresh(n)'
  BY <1>2 DEF Fresh, game
<1>6. OldTable(g) => OldTable(g)'
  BY <1>2 DEF OldTable, game
<1>7. UNCHANGED <<loaded, first_seat, hands>>
  BY DEF game
<1> QED BY <1>1, <1>3, <1>4, <1>5, <1>6, <1>7 DEF CardHands

LEMMA DealHands ==
  ASSUME Types, NEW g \in Nat, NEW d \in Nat, CardRound(g, d), CardHands(g, d),
         NEW p \in Seats, Deal(p), ~over'
  PROVE  CardHands(g, d)'
<1>1. th[p].pc = "deal" /\ th[p].gid = g /\ CardThread(p, g, d)
  BY DEF Deal, At, CardRound, CardThread
<1>2. /\ loaded' \in DOMAIN Games
      /\ held' = [held EXCEPT ![p] =
             Games[loaded'].hands[p] \ (IF state[p] = "BEFORE_TRICK" THEN Taken ELSE {})]
      /\ UNCHANGED <<current_player, taken>>
  BY DEF Deal, sync
<1>3. th'[p].pc = "turn" /\ \A q \in Seats \ {p} : th'[q] = th[q] /\ held'[q] = held[q]
  <2> DEFINE r == [th[p] EXCEPT !.pc = "turn", !.draw = current_draw]
  <2>1. Step(p, r)
    BY <1>2 DEF Deal
  <2>2. r.pc = "turn"
    BY ThreadIs DEF Threads
  <2> HIDE DEF r
  <2> QED BY <2>1, <2>2, Moves, OthersKept DEF Thread
<1>4. held'[p] = HandOf(loaded', p) \ (IF state[p] = "BEFORE_TRICK" THEN Taken ELSE {})
  BY <1>2 DEF HandOf, Types, GameTypes
<1>5. Taken' = Taken
  BY <1>2 DEF Taken
<1>6. CASE g > loaded
  <2>1. /\ loaded' = g /\ hands' = Games[g].hands /\ table' = [i \in Seats |-> NoCard]
    BY <1>1, <1>2, <1>6 DEF Deal
  <2>2. /\ d = 0 /\ current_player = 0
        /\ \A q \in Seats : th[q].pc \in {"start", "deal"} /\ state[q] = "BEFORE_DRAW"
    BY <1>6 DEF CardRound, GameKnown
  <2>3. taken = <<>> /\ Taken = {}
    BY <2>2, NothingTaken DEF CardHands
  <2>4. \A q \in Seats : hands'[q] = HandOf(g, q)
    BY <2>1 DEF HandOf
  <2>5. Range(table)' = {NoCard}
    BY <2>1 DEF Range, Seats
  <2>6. g \in DOMAIN Games
    BY <1>2, <2>1
  <2>7. Left(g)'
    BY <1>5, <2>3, <2>4, <2>5, <2>6, HandsOf DEF Left, HandOf
  <2>8. held'[p] = hands'[p]
    BY <1>4, <2>1, <2>2, <2>4
  <2>9. \A q \in Seats : HandKnown(q)'
    BY <1>3, <2>2, <2>8 DEF HandKnown
  <2>10. \A q \in Seats : Played1(q)' = 0
    BY <1>3, <2>2 DEF Played1
  <2>11. \A q \in Seats : Cardinality(hands'[q]) = Tricks - d - Played1(q)'
    <3>1. Tricks \in Nat
      BY GamesAssumption
    <3>2. \A q \in Seats : Cardinality(HandOf(g, q)) = Tricks
      BY <2>6, HandsOf
    <3> QED BY <2>2, <2>4, <2>10, <3>1, <3>2
  <2>12. OldTable(g)'
    BY <2>5, <2>6, HandsOf DEF OldTable, HandOf
  <2>13. Dealt(g, first_seat, current_player)' /\ Fresh(current_player)'
    BY <1>2, <2>2 DEF Dealt, Fresh, Seats
  <2>14. Kept(g)'
    BY <1>5, <2>3, <2>7, <2>9 DEF Kept
  <2> QED BY <1>2, <2>3, <2>11, <2>12, <2>13, <2>14 DEF CardHands
<1>7. CASE ~(g > loaded)
  <2>1. UNCHANGED game /\ loaded = g /\ g \in DOMAIN Games
    BY <1>1, <1>2, <1>7, ThreadIs DEF Deal, CardRound, GameKnown, Types, GameTypes
  <2>2. UNCHANGED <<loaded, first_seat, hands, table>>
    BY <2>1 DEF game
  <2>3. Kept(g) /\ Left(g)
    BY <2>1 DEF CardHands, Kept
  <2>4. Place(p, first_seat) >= current_player
    <3>1. Place(p, first_seat) \in Seats /\ current_player \in Seats
      BY PlaceFacts DEF Types, GameTypes, ThreadTypes
    <3> QED BY <1>1, <3>1 DEF CardThread, InTurn, Answered, Seats
  <2>5. Range(table) \cap HandOf(g, p) \subseteq Taken
    <3>1. current_player > 0 => OnTable(table, current_player)
      BY DEF CardRound
    <3>2. current_player \in Seats
      BY DEF Types, ThreadTypes
    <3> QED BY <2>1, <2>4, <3>1, <3>2, NotOnTable DEF CardHands
  <2>6. held'[p] = hands[p]
    <3>1. state[p] = "BEFORE_DRAW" => Taken = {}
      <4>1. state[p] = "BEFORE_DRAW" => d = 0
        BY <1>1 DEF CardThread, InTurn, Coming, Asked, Answered
      <4> QED BY <4>1, NothingTaken DEF CardHands
    <3>2. state[p] \in {"BEFORE_DRAW", "BEFORE_TRICK"}
      BY <1>1 DEF CardThread, InTurn, Coming, Asked, Answered
    <3> QED BY <1>4, <2>1, <2>2, <2>3, <2>5, <3>1, <3>2 DEF Left
  <2>7. \A q \in Seats : HandKnown(q)'
    BY <1>3, <2>2, <2>3, <2>6 DEF HandKnown, Kept
  <2>8. \A q \in Seats : Played1(q)' = Played1(q)
    BY <1>1, <1>3 DEF Played1
  <2>9. Kept(g)'
    BY <1>5, <2>2, <2>3, <2>7 DEF Kept, Left, HandOf
  <2>10. Dealt(g, first_seat, current_player)' /\ Fresh(current_player)'
    BY <1>2, <1>5, <2>1, <2>2 DEF CardHands, Dealt, Fresh
  <2>11. current_player' = 0 => OldTable(g)'
    BY <1>2, <1>5, <2>1, <2>2 DEF CardHands, OldTable
  <2> QED BY <1>2, <2>1, <2>2, <2>8, <2>9, <2>10, <2>11 DEF CardHands
<1> QED BY <1>6, <1>7

LEMMA TurnHands ==
  ASSUME Types, NEW g \in Nat, NEW d \in Nat, CardRound(g, d), CardHands(g, d),
         NEW p \in Seats, Turn(p)
  PROVE  CardHands(g, d)'
<1>1. th[p].pc = "turn" /\ CardThread(p, g, d)
  BY DEF Turn, At, CardRound
<1>2. th'[p].pc \in {"sleep", "card"} /\ \A q \in Seats \ {p} : th'[q] = th[q]
  <2> DEFINE player == (4 + p - first_seat) % 4
             r == [th[p] EXCEPT !.player = player,
                                !.pc = IF player > current_player THEN "sleep" ELSE "card"]
  <2>1. Step(p, r)
    BY DEF Turn
  <2>2. r.pc \in {"sleep", "card"}
    BY ThreadIs DEF Threads
  <2> HIDE DEF r
  <2> QED BY <2>1, <2>2, Moves
<1>3. UNCHANGED <<loaded, first_seat, hands, taken, held, current_player>> /\ Taken' = Taken
  BY DEF Turn, Taken
<1>4. CASE table' = table
  BY <1>1, <1>2, <1>3, <1>4, CardHandsQuiet DEF game
<1>5. CASE table' # table
  <2>1. Place(p, first_seat) = 0 /\ table' = [i \in Seats |-> NoCard]
    BY <1>5 DEF Turn, Place
  <2>2. current_player = 0
    BY <1>1, <2>1 DEF CardThread, InTurn, Answered, Types, ThreadTypes, Seats
  <2>3. Range(table)' = {NoCard}
    BY <2>1 DEF Range, Seats
  <2>4. \A q \in Seats : th[q].pc \notin {"wake", "played", "known", "sleepTell", "tell"}
    <3>1. \A q \in Seats : Place(q, first_seat) \in Seats
      BY PlaceFacts DEF Types, GameTypes
    <3> QED BY <2>2, <3>1 DEF CardRound, CardThread, InTurn, Coming, Asked, Answered, Seats
  <2>5. ASSUME loaded = g PROVE Kept(g)' /\ OldTable(g)'
    <3>1. g \in DOMAIN Games
      BY <2>5 DEF CardRound, GameKnown
    <3>2. Kept(g) /\ OldTable(g)
      BY <2>2, <2>5 DEF CardHands
    <3>3. Left(g)' /\ OldTable(g)'
      <4>1. \A q \in Seats : NoCard \notin HandOf(g, q)
        BY <3>1, HandsOf
      <4>2. \A q \in Seats : hands[q] = HandOf(g, q) \ Taken
        BY <3>2 DEF Kept, Left, OldTable
      <4>3. Left(g)'
        BY <1>3, <2>3, <4>1, <4>2 DEF Left, HandOf
      <4>4. OldTable(g)'
        BY <1>3, <2>3, <4>1 DEF OldTable, HandOf
      <4> QED BY <4>3, <4>4
    <3>4. \A q \in Seats : HandKnown(q)'
      BY <1>1, <1>2, <1>3, <2>4, <3>2 DEF HandKnown, Kept
    <3> QED BY <1>3, <3>2, <3>3, <3>4 DEF Kept
  <2>6. Dealt(g, first_seat, current_player)' /\ Fresh(current_player)'
    BY <1>3, <2>2 DEF Dealt, Fresh, Seats
  <2>7. \A q \in Seats : Played1(q)' = Played1(q)
    BY <1>1, <1>2 DEF Played1
  <2> QED BY <1>3, <2>2, <2>5, <2>6, <2>7 DEF CardHands
<1> QED BY <1>4, <1>5

\* A card is put down from the hand of the player onto the table.
LEMMA PutDown ==
  ASSUME Types, NEW g \in Nat, NEW d \in Nat, CardRound(g, d), CardHands(g, d),
         NEW p \in Seats, PlayCard(p), NEW n \in Seats, n = current_player
  PROVE  /\ Kept(g)' /\ Dealt(g, first_seat, n + 1)' /\ Fresh(n + 1)'
         /\ \A q \in Seats : Cardinality(hands'[q]) = Tricks - d - Played1(q)'
<1>1. /\ Place(p, first_seat) = n /\ th[p].pc = "card" /\ th'[p].pc \in {"wake", "played"}
      /\ \A q \in Seats \ {p} : th'[q] = th[q]
      /\ loaded = g /\ g \in DOMAIN Games /\ OnTable(table, n)
      /\ \E c \in hands[p] : /\ c # NoCard
                             /\ table' = [table EXCEPT ![n] = c]
                             /\ hands' = [hands EXCEPT ![p] = @ \ {c}]
  BY PlayCardDoes
<1>2. PICK c \in hands[p] : /\ c # NoCard
                            /\ table' = [table EXCEPT ![n] = c]
                            /\ hands' = [hands EXCEPT ![p] = @ \ {c}]
  BY <1>1
<1>3. UNCHANGED <<first_seat, taken, held>> /\ Taken' = Taken
  BY DEF PlayCard, Taken
<1>4. Left(g) /\ Taken \subseteq Deck(g) /\ \A q \in Seats : HandKnown(q)
  BY <1>1 DEF CardHands, Kept
<1>5. c \in HandOf(g, p) /\ c \notin Taken /\ c \notin Range(table)
  BY <1>2, <1>4 DEF Left
<1>6. table'[n] = c /\ \A i \in Seats \ {n} : table'[i] = table[i]
  BY <1>2 DEF Types, GameTypes
<1>7. hands'[p] = hands[p] \ {c} /\ \A q \in Seats \ {p} : hands'[q] = hands[q]
  BY <1>2 DEF Types, GameTypes
<1>8. \A x : x # NoCard => (x \in Range(table)' <=> x = c \/ x \in Range(table))
  <2>1. table[n] = NoCard
    BY <1>1 DEF OnTable, Seats
  <2>2. \A x : x \in Range(table)' <=> \E i \in Seats : x = table'[i]
    BY <1>2 DEF Types, GameTypes, Range
  <2> QED BY <1>6, <2>1, <2>2, RangeOfTable
<1>9. ASSUME NEW q \in Seats, q # p PROVE c \notin HandOf(g, q)
  BY <1>1, <1>5, <1>9, HandsOf
<1>10. \A q \in Seats : NoCard \notin HandOf(g, q) /\ NoCard \notin hands[q] /\ NoCard \notin held[q]
  <2>1. \A q \in Seats : held[q] \subseteq Card /\ hands[q] \subseteq Card
    BY DEF Types, GameTypes
  <2> QED BY <1>1, <2>1, HandsOf, GamesAssumption
<1>11. Left(g)'
  <2>1. ASSUME NEW q \in Seats PROVE hands'[q] = HandOf(g, q) \ (Taken \cup Range(table)')
    <3>1. hands[q] = HandOf(g, q) \ (Taken \cup Range(table))
      BY <1>4 DEF Left
    <3> QED BY <1>7, <1>8, <1>9, <1>10, <3>1
  <2> QED BY <1>3, <2>1 DEF Left, HandOf
<1>12. ASSUME NEW q \in Seats PROVE HandKnown(q)'
  <2>1. CASE q = p
    <3>1. held[p] = hands[p]
      BY <1>1, <1>4 DEF HandKnown
    <3>2. hands[p] \cap Range(table) = {}
      BY <1>4 DEF Left
    <3>3. held[p] \ Range(table)' = hands'[p]
      BY <1>7, <1>8, <1>10, <3>1, <3>2
    <3> QED BY <1>1, <1>3, <2>1, <3>3 DEF HandKnown
  <2>2. CASE q # p
    <3>1. c \notin hands[q]
      BY <1>4, <1>9, <2>2 DEF Left
    <3>2. held[q] \ Range(table) = hands[q] => held[q] \ Range(table)' = hands[q]
      BY <1>5, <1>8, <1>10, <3>1
    <3> QED BY <1>1, <1>3, <1>4, <1>7, <2>2, <3>2 DEF HandKnown
  <2> QED BY <2>1, <2>2
<1>13. Kept(g)'
  BY <1>3, <1>4, <1>11, <1>12 DEF Kept, Deck, HandOf
<1>14. Dealt(g, first_seat, n + 1)' /\ Fresh(n + 1)'
  <2>1. ASSUME NEW i \in Seats, i < n + 1
        PROVE  table'[i] \in HandOf(g, SeatAt(i, first_seat)) /\ table'[i] \notin Taken
    <3>1. CASE i = n
      <4>1. SeatAt(n, first_seat) = p
        BY <1>1, PlaceFacts DEF Types, GameTypes
      <4> QED BY <1>5, <1>6, <3>1, <4>1
    <3>2. CASE i # n
      <4>1. i < n
        BY <2>1, <3>2 DEF Seats
      <4> QED BY <1>1, <1>6, <3>2, <4>1 DEF CardHands, Dealt, Fresh
    <3> QED BY <3>1, <3>2
  <2> QED BY <1>3, <2>1 DEF Dealt, Fresh, HandOf
<1>15. ASSUME NEW q \in Seats PROVE Cardinality(hands'[q]) = Tricks - d - Played1(q)'
  <2>1. Cardinality(hands[q]) = Tricks - d - Played1(q)
    BY <1>1 DEF CardHands
  <2>2. CASE q # p
    BY <1>1, <1>7, <2>1, <2>2 DEF Played1
  <2>3. CASE q = p
    <3>1. IsFiniteSet(hands[p])
      <4>1. IsFiniteSet(HandOf(g, p)) /\ hands[p] \subseteq HandOf(g, p)
        BY <1>1, <1>4, HandsOf DEF Left
      <4> QED BY <4>1, FS_Subset
    <3>2. Cardinality(hands[p] \ {c}) = Cardinality(hands[p]) - 1
      BY <3>1, FS_RemoveElement
    <3>3. Tricks \in Nat
      BY GamesAssumption
    <3>4. Played1(p) = 0 /\ Played1(p)' = 1
      BY <1>1 DEF Played1
    <3>5. Cardinality(hands[p]) = Tricks - d - 0
      BY <2>1, <2>3, <3>4
    <3>6. Cardinality(hands'[p]) = Cardinality(hands[p]) - 1
      BY <1>7, <3>2
    <3>7. Cardinality(hands'[p]) = Tricks - d - 1
      BY <3>3, <3>5, <3>6
    <3> QED BY <2>3, <3>4, <3>7
  <2> QED BY <2>2, <2>3
<1> QED BY <1>13, <1>14, <1>15

LEMMA PlayCardHands ==
  ASSUME Types, NEW g \in Nat, NEW d \in Nat, CardRound(g, d), CardHands(g, d),
         NEW p \in Seats, PlayCard(p)
  PROVE  IF th[p].player < 3 THEN CardHands(g, d)' ELSE KnownHands(g, d)'
<1>1. PICK n \in Seats : n = current_player
  BY DEF Types, ThreadTypes
<1>2. /\ Kept(g)' /\ Dealt(g, first_seat, n + 1)' /\ Fresh(n + 1)'
      /\ \A q \in Seats : Cardinality(hands'[q]) = Tricks - d - Played1(q)'
  BY <1>1, PutDown
<1>3. th[p].player = n /\ loaded = g /\ UNCHANGED <<loaded, taken>>
  BY <1>1, PlayCardDoes DEF PlayCard
<1>4. CASE n < 3
  <2>1. current_player' = n + 1 /\ n + 1 # 0
    BY <1>3, <1>4 DEF PlayCard, Seats
  <2> QED BY <1>2, <1>3, <1>4, <2>1 DEF CardHands
<1>5. CASE ~(n < 3)
  <2>1. n + 1 = 4
    BY <1>5 DEF Seats
  <2>2. \A q \in Seats : th'[q].pc = "played"
    <3>1. th'[p].pc = "played" /\ \A q \in Seats \ {p} : th'[q] = th[q]
      BY <1>3, <1>5, PlayCardDoes
    <3>2. \A q \in Seats : th[q].pc # "known"
      BY CardPlaces
    <3>3. \A q \in Seats : th'[q].pc \in {"played", "known"}
      BY <1>3, <1>5, PlayCardLast DEF KnownRound, KnownThread
    <3> QED BY <3>1, <3>2, <3>3
  <2>3. Each(Tricks - d - 1)'
    BY <1>2, <2>2 DEF Each, Played1
  <2> QED BY <1>2, <1>3, <1>5, <2>1, <2>3 DEF KnownHands
<1> QED BY <1>4, <1>5

LEMMA PlayedHands ==
  ASSUME Types, NEW g \in Nat, NEW d \in Nat, KnownHands(g, d), NEW p \in Seats, Played(p)
  PROVE  KnownHands(g, d)' /\ TellHands(g, d, first_seat)'
<1>1. th'[p].pc = "known" /\ th[p].pc = "played" /\ \A q \in Seats \ {p} : th'[q] = th[q]
  <2> DEFINE r == [th[p] EXCEPT !.pc = "known", !.loser = get_loser(table, first_seat),
                                !.next = (th[p].player + 1 + first_seat) % 4]
  <2>1. Step(p, r) /\ th[p].pc = "played"
    BY DEF Played, At
  <2>2. r.pc = "known"
    BY ThreadIs DEF Threads
  <2> HIDE DEF r
  <2> QED BY <2>1, <2>2, Moves
<1>2. UNCHANGED <<hands, table, taken, held, first_seat>> /\ Taken' = Taken
  BY DEF Played, game, Taken
<1>3. \A q \in Seats : HandKnown(q)'
  BY <1>1, <1>2 DEF KnownHands, Kept, HandKnown
<1>4. Kept(g)'
  BY <1>2, <1>3 DEF KnownHands, Kept, Left
<1>5. Dealt(g, first_seat, 4)' /\ Fresh(4)' /\ Each(Tricks - d - 1)'
  BY <1>2 DEF KnownHands, Dealt, Fresh, Each
<1> QED BY <1>4, <1>5 DEF KnownHands, TellHands

\* The trick is among the tricks taken when its message is made.
LEMMA KnownTakes ==
  ASSUME Types, NEW g \in Nat, NEW d \in Nat, NEW first \in Seats, NEW n \in Seats,
         TellRound(g, d, first, n), TellHands(g, d, first), NEW p \in Seats, Known(p)
  PROVE  TellHands(g, d, first)'
<1>1. th'[p].pc \in {"tell", "sleepTell"} /\ th[p].pc = "known"
        /\ \A q \in Seats \ {p} : th'[q] = th[q]
  <2>1. \E pc \in {"tell", "sleepTell"} : Step(p, [th[p] EXCEPT !.pc = pc])
    BY DEF Known
  <2> QED BY <2>1, MovesTo DEF Known, At
<1>2. UNCHANGED <<hands, table, held>>
  BY DEF Known
<1>3. th[p].player = Place(p, first) /\ g \in DOMAIN Games
  BY DEF TellRound, TellThread, Playing
<1>4. \A q \in Seats : HandKnown(q)'
  BY <1>1, <1>2 DEF TellHands, Kept, HandKnown
<1>5. Dealt(g, first, 4)' /\ Each(Tricks - d - 1)'
  BY <1>2 DEF TellHands, Dealt, Each
<1>6. CASE th[p].player = 0
  <2>1. Taken' = Taken \cup Range(table)
    BY <1>6, TakenMore DEF Known
  <2>2. Range(table) \subseteq Deck(g)
    <3>1. \A i \in Seats : SeatAt(i, first) \in Seats
      BY PlaceFacts
    <3>2. \A i \in Seats : table[i] \in HandOf(g, SeatAt(i, first))
      BY DEF TellHands, Dealt, Seats
    <3> QED BY <3>1, <3>2, RangeOfTable DEF Deck
  <2>3. Kept(g)'
    BY <1>2, <1>4, <2>1, <2>2 DEF TellHands, Kept, Left, HandOf, Deck
  <2>4. SeatAt(0, first) = p
    BY <1>3, <1>6, PlaceFacts
  <2> QED BY <1>1, <1>5, <2>3, <2>4 DEF TellHands
<1>7. CASE th[p].player # 0
  <2>1. Taken' = Taken
    BY <1>7 DEF Known, Taken
  <2>2. Kept(g)'
    BY <1>2, <1>4, <2>1 DEF TellHands, Kept, Left
  <2>3. SeatAt(0, first) # p /\ SeatAt(0, first) \in Seats
    BY <1>3, <1>7, PlaceFacts, SeatIsNat
  <2>4. th'[SeatAt(0, first)].pc = "known" => Fresh(4)'
    BY <1>1, <1>2, <2>1, <2>3 DEF TellHands, Fresh
  <2> QED BY <1>5, <2>2, <2>4 DEF TellHands
<1> QED BY <1>6, <1>7

LEMMA WakeUpTellHands ==
  ASSUME Types, NEW g \in Nat, NEW d \in Nat, NEW first \in Seats, TellHands(g, d, first),
         NEW p \in Seats, WakeUpTell(p)
  PROVE  TellHands(g, d, first)'
<1>1. th'[p].pc = "tell" /\ th[p].pc = "sleepTell" /\ \A q \in Seats \ {p} : th'[q] = th[q]
  BY MovesTo DEF WakeUpTell, At
<1>2. UNCHANGED <<hands, table, taken, held>> /\ Taken' = Taken
  BY DEF WakeUpTell, game, Taken
<1>3. \A q \in Seats : HandKnown(q)'
  BY <1>1, <1>2 DEF TellHands, Kept, HandKnown
<1>4. Kept(g)'
  BY <1>2, <1>3 DEF TellHands, Kept, Left
<1>5. Dealt(g, first, 4)' /\ Each(Tricks - d - 1)' /\ (Fresh(4) => Fresh(4)')
  BY <1>2 DEF TellHands, Dealt, Fresh, Each
<1>6. SeatAt(0, first) \in Seats
  BY PlaceFacts, SeatIsNat
<1> QED BY <1>1, <1>4, <1>5, <1>6 DEF TellHands

\* The player takes the cards of the trick it is told of from its hand.
LEMMA TellsHands ==
  ASSUME Types, NEW g \in Nat, NEW d \in Nat, NEW first \in Seats, NEW n \in Seats,
         TellRound(g, d, first, n), TellHands(g, d, first), NEW p \in Seats, Tell(p),
         NEW loser, taken # <<>>, Last(taken) = Message(d, table, loser)
  PROVE  TellHands(g, d, first)' /\ OldTable(g)'
<1>1. th[p].pc = "tell" /\ th'[p].pc = "done" /\ \A q \in Seats \ {p} : th'[q] = th[q]
  BY TellDoes DEF TellMoves
<1>2. UNCHANGED <<hands, table, taken>> /\ Taken' = Taken
  BY DEF Tell, game, Taken
<1>3. held'[p] = held[p] \ Range(table) /\ \A q \in Seats \ {p} : held'[q] = held[q]
  <2>1. held' = [held EXCEPT ![p] = @ \ Range(Last(taken).cards)]
    BY DEF Tell
  <2>2. Last(taken).cards = table
    BY DEF Message
  <2> QED BY <2>1, <2>2 DEF Types, GameTypes
<1>4. \A q \in Seats : HandKnown(q)'
  BY <1>1, <1>2, <1>3 DEF TellHands, Kept, HandKnown
<1>5. Kept(g)'
  BY <1>2, <1>4 DEF TellHands, Kept, Left
<1>6. Dealt(g, first, 4)' /\ Each(Tricks - d - 1)' /\ (Fresh(4) => Fresh(4)')
  BY <1>2 DEF TellHands, Dealt, Fresh, Each
<1>7. SeatAt(0, first) \in Seats
  BY PlaceFacts, SeatIsNat
<1>8. OldTable(g)'
  BY <1>2, LastIsTaken DEF OldTable
<1> QED BY <1>1, <1>5, <1>6, <1>7, <1>8 DEF TellHands

\* When the last player has been told of a trick, all have.
LEMMA TellEnds ==
  ASSUME Types, NEW g \in Nat, NEW d \in Nat, NEW first \in Seats, NEW n \in Seats,
         TellRound(g, d, first, n), NEW p \in Seats, Tell(p), ~(th[p].player < 3)
  PROVE  \A q \in Seats : th'[q].pc = "done" /\ (q = p \/ th[q].pc = "done")
<1>0. TellMoves(p, g, d, first, n)
  BY TellDoes
<1>1. n = 3
  BY <1>0 DEF TellMoves, Seats
<1>2. Place(p, first) = 3 /\ th'[p].pc = "done" /\ \A q \in Seats \ {p} : th'[q] = th[q]
  BY <1>0, <1>1 DEF TellMoves
<1>3. ASSUME NEW q \in Seats \ {p} PROVE th[q].pc = "done"
  <2>1. Place(q, first) \in Seats /\ Place(q, first) # 3
    BY <1>2, PlaceFacts
  <2>2. TellTurn(q, 3, first)
    BY <1>1 DEF TellRound, TellThread
  <2> QED BY <2>1, <2>2 DEF TellTurn, Seats
<1> QED BY <1>2, <1>3

LEMMA TellLastHands ==
  ASSUME Types, NEW g \in Nat, NEW d \in Nat, NEW first \in Seats, NEW n \in Seats,
         TellRound(g, d, first, n), TellHands(g, d, first), NEW p \in Seats, Tell(p),
         ~(th[p].player < 3),
         NEW loser, taken # <<>>, Last(taken) = Message(d, table, loser)
  PROVE  CardHands(g, d + 1)' /\ EndHands(g)'
<1>1. TellHands(g, d, first)' /\ OldTable(g)'
  BY TellsHands
<1>3. \A q \in Seats : th'[q].pc = "done"
  BY TellEnds
<1>4. current_player' = 0 /\ d + 1 # 0 /\ g # 0
  <2>1. g \in 1..Len(Games)
    BY GamesAssumption DEF TellRound
  <2> QED BY <2>1 DEF TellRound, Tell, sync
<1>5. Dealt(g, first_seat, current_player)' /\ Fresh(current_player)'
  BY <1>4 DEF Dealt, Fresh, Seats
<1>6. ASSUME NEW q \in Seats PROVE Cardinality(hands'[q]) = Tricks - (d + 1) - Played1(q)'
  <2>1. Cardinality(hands'[q]) = Tricks - d - 1 /\ Played1(q)' = 0
    BY <1>1, <1>3 DEF TellHands, Each, Played1
  <2>2. Tricks \in Nat
    BY GamesAssumption
  <2>3. Tricks - d - 1 = Tricks - (d + 1) - 0
    BY <2>2
  <2> QED BY <2>1, <2>3
<1>7. CardHands(g, d + 1)'
  BY <1>1, <1>4, <1>5, <1>6 DEF CardHands, TellHands
<1> QED BY <1>3, <1>4, <1>7, SeatIsNat DEF EndHands

\* The tricks of a game are forgotten when it has ended.
LEMMA EndHandsKept ==
  ASSUME Types, NEW g \in Nat, EndRound(g), EndHands(g), NEW p \in Seats,
         Join(p) \/ TrickDone(p) \/ Score(p)
  PROVE  EndHands(g)'
<1>1. \A q \in Seats \ {p} : th'[q] = th[q]
  BY OthersKept DEF Thread
<1>2. CASE Join(p) \/ TrickDone(p)
  <2>1. taken' = taken
    BY <1>2 DEF Join, TrickDone
  <2>2. CASE Join(p)
    <3>1. g = 0
      BY <2>2, EndPlaces DEF EndRound, EndThread, Join, At
    <3> QED BY <2>1, <3>1 DEF EndHands
  <2>3. CASE TrickDone(p)
    <3>1. th[p].pc = "done" /\ g > 0
      BY <2>3 DEF EndRound, EndThread, TrickDone, At
    <3>2. th'[p].pc # "start"
      <4> DEFINE r == IF th[p].draw + 1 < Tricks
                        THEN [th[p] EXCEPT !.pc = "turn", !.draw = @ + 1]
                        ELSE [th[p] EXCEPT !.pc = "score"]
      <4>1. r.pc # "start"
        BY ThreadIs DEF Threads
      <4>2. Step(p, r)
        BY <2>3 DEF TrickDone
      <4> HIDE DEF r
      <4> QED BY <4>1, <4>2, Moves
    <3> QED BY <1>1, <2>1, <3>1, <3>2, SeatIsNat DEF EndHands
  <2> QED BY <1>2, <2>2, <2>3
<1>3. CASE Score(p)
  <2>1. CASE p = 0
    BY <1>3, <2>1 DEF Score, EndHands
  <2>2. CASE p # 0
    <3>1. taken' = taken /\ th'[0] = th[0]
      BY <1>1, <1>3, <2>2, SeatIsNat DEF Score
    <3> QED BY <3>1 DEF EndHands
  <2> QED BY <2>1, <2>2
<1> QED BY <1>2, <1>3
-----------------------------------------------------------------------------
(* Sums over sets of numbers                                               *)

\* F adds up weights, in whatever order they come.
Adds(F, w, n) ==
  /\ \A x \in 0..n : w[x] \in Nat
  /\ F \in [SUBSET (0..n) -> Nat] /\ F[{}] = 0
  /\ \A s \in SUBSET (0..n) : \A x \in s : F[s] = w[x] + F[s \ {x}]

\* What MapThenSumSet computes along the way.
First(s) == CHOOSE x \in s : TRUE
Sums(f, w, S) ==
  f = [s \in SUBSET S |-> IF s = {} THEN 0 ELSE w[First(s)] + f[s \ {First(s)}]]
GameSums(f, S) ==
  f = [s \in SUBSET S |-> IF s = {} THEN 0 ELSE GamePoints(First(s)) + f[s \ {First(s)}]]

LEMMA SharedIs ==
  ASSUME NEW w
  PROVE  Shared(w) = (CHOOSE f : Sums(f, w, Seats))[Seats]
BY DEF Shared, MapThenSumSet, MapThenFoldSet, Sums, First

LEMMA GamesIs ==
  ASSUME NEW S
  PROVE  MapThenSumSet(GamePoints, S) = (CHOOSE f : GameSums(f, S))[S]
BY DEF MapThenSumSet, MapThenFoldSet, GameSums, First

Smaller == {p \in Nat \X Nat : p[1] < p[2]}

LEMMA SmallerWellFounded == IsWellFoundedOn(Smaller, Nat)
<1>1. Smaller = OpToRel(<, Nat)
  BY DEF OpToRel, Smaller
<1> QED BY <1>1, NatLessThanWellFounded, Zenon

LEMMA Induction ==
  ASSUME NEW G, 0 \in G, \A i \in Nat : i \in G => i + 1 \in G
  PROVE  Nat \subseteq G
<1> DEFINE T == {i \in Nat : i \notin G}
<1> SUFFICES ASSUME T # {} PROVE FALSE
  OBVIOUS
<1>1. PICK x \in T : \A y \in T : <<y, x>> \notin Smaller
  <2>1. T \subseteq Nat
    OBVIOUS
  <2> HIDE DEF T
  <2> QED BY <2>1, SmallerWellFounded, WFMin
<1>2. x \in Nat /\ x \notin G /\ x # 0
  OBVIOUS
<1>3. x - 1 \in Nat /\ (x - 1) + 1 = x
  BY <1>2
<1>4. x - 1 \notin G
  BY <1>2, <1>3
<1>5. x - 1 \in T /\ <<x - 1, x>> \in Smaller
  BY <1>2, <1>3, <1>4 DEF Smaller
<1> QED BY <1>1, <1>5

\* One number more.
LEMMA AddsNext ==
  ASSUME NEW w, NEW n \in Nat, NEW F, Adds(F, w, n), w[n + 1] \in Nat
  PROVE  Adds([s \in SUBSET (0..(n + 1)) |->
                 F[s \ {n + 1}] + (IF n + 1 \in s THEN w[n + 1] ELSE 0)], w, n + 1)
<1> DEFINE H == [s \in SUBSET (0..(n + 1)) |->
                   F[s \ {n + 1}] + (IF n + 1 \in s THEN w[n + 1] ELSE 0)]
<1>1. \A s \in SUBSET (0..(n + 1)) : s \ {n + 1} \in SUBSET (0..n)
  OBVIOUS
<1>2. \A s \in SUBSET (0..n) : F[s] \in Nat
  BY DEF Adds
<1>3. H \in [SUBSET (0..(n + 1)) -> Nat]
  BY <1>1, <1>2
<1>4. H[{}] = 0
  <2>1. {} \ {n + 1} = {} /\ F[{}] = 0 /\ {} \in SUBSET (0..(n + 1)) /\ n + 1 \notin {}
    BY DEF Adds
  <2> QED BY <2>1
<1>5. ASSUME NEW s \in SUBSET (0..(n + 1)), NEW x \in s PROVE H[s] = w[x] + H[s \ {x}]
  <2>0. s \ {x} \in SUBSET (0..(n + 1))
    OBVIOUS
  <2>1. CASE x = n + 1
    <3>1. (s \ {x}) \ {n + 1} = s \ {n + 1} /\ n + 1 \notin s \ {x} /\ n + 1 \in s
      BY <2>1
    <3>2. H[s] = F[s \ {n + 1}] + w[n + 1]
      BY <3>1
    <3>3. H[s \ {x}] = F[s \ {n + 1}] + 0
      BY <2>0, <3>1
    <3>4. F[s \ {n + 1}] \in Nat
      BY <1>1, <1>2
    <3> HIDE DEF H
    <3> QED BY <2>1, <3>2, <3>3, <3>4
  <2>2. CASE x # n + 1
    <3> DEFINE t == s \ {n + 1}
               e == IF n + 1 \in s THEN w[n + 1] ELSE 0
    <3>1. t \in SUBSET (0..n) /\ x \in t /\ (s \ {x}) \ {n + 1} = t \ {x}
            /\ (n + 1 \in s \ {x} <=> n + 1 \in s)
      BY <1>1, <2>2
    <3>2. F[t] = w[x] + F[t \ {x}]
      BY <3>1 DEF Adds
    <3>3. H[s] = F[t] + e
      OBVIOUS
    <3>4. H[s \ {x}] = F[t \ {x}] + e
      BY <2>0, <3>1
    <3>5. e \in Nat /\ F[t \ {x}] \in Nat /\ F[t] \in Nat /\ x \in 0..n
      BY <1>2, <3>1
    <3>6. w[x] \in Nat
      BY <3>5 DEF Adds
    <3> HIDE DEF H, t, e
    <3> QED BY <3>2, <3>3, <3>4, <3>5, <3>6
  <2> QED BY <2>1, <2>2
<1>6. \A x \in 0..(n + 1) : w[x] \in Nat
  <2>1. \A x \in 0..(n + 1) : x \in 0..n \/ x = n + 1
    OBVIOUS
  <2> QED BY <2>1 DEF Adds
<1> QED BY <1>3, <1>4, <1>5, <1>6 DEF Adds

LEMMA AddsExists ==
  ASSUME NEW w, NEW m \in Nat, \A x \in 0..m : w[x] \in Nat
  PROVE  \E F : Adds(F, w, m)
<1> DEFINE G == {n \in Nat : n \in 0..m => \E F : Adds(F, w, n)}
<1>1. 0 \in G
  <2> DEFINE F == [s \in SUBSET (0..0) |-> IF s = {} THEN 0 ELSE w[0]]
  <2>1. 0..0 = {0} /\ w[0] \in Nat
    OBVIOUS
  <2>2. F \in [SUBSET (0..0) -> Nat] /\ F[{}] = 0
    BY <2>1
  <2>3. ASSUME NEW s \in SUBSET (0..0), NEW x \in s PROVE F[s] = w[x] + F[s \ {x}]
    <3>1. x = 0 /\ s \ {x} = {} /\ s # {}
      BY <2>1
    <3>2. F[s] = w[0]
      BY <3>1
    <3> HIDE DEF F
    <3>3. F[s \ {x}] = 0 /\ w[x] = w[0]
      BY <2>2, <3>1
    <3> QED BY <2>1, <3>2, <3>3
  <2>4. Adds(F, w, 0)
    BY <2>1, <2>2, <2>3 DEF Adds
  <2> QED BY <2>4
<1>2. ASSUME NEW n \in Nat, n \in G PROVE n + 1 \in G
  <2> SUFFICES ASSUME n + 1 \in 0..m PROVE \E F : Adds(F, w, n + 1)
    OBVIOUS
  <2>1. PICK F : Adds(F, w, n)
    BY <1>2
  <2>2. w[n + 1] \in Nat
    OBVIOUS
  <2> QED BY <2>1, <2>2, AddsNext
<1> HIDE DEF G
<1>3. m \in G
  BY <1>1, <1>2, Induction
<1> QED BY <1>3 DEF G

\* Whatever MapThenSumSet computes along the way is the sum.
LEMMA SumsAre ==
  ASSUME NEW w, NEW n \in Nat, NEW F, Adds(F, w, n), NEW S \in SUBSET (0..n),
         NEW f, Sums(f, w, S)
  PROVE  f[S] = F[S]
<1> DEFINE G == {k \in Nat : \A s \in SUBSET S : Cardinality(s) = k => f[s] = F[s]}
<1>0. \A s \in SUBSET S : IsFiniteSet(s) /\ Cardinality(s) \in Nat
  <2>1. IsFiniteSet(0..n)
    BY FS_Interval
  <2> QED BY <2>1, FS_Subset, FS_CardinalityType
<1>1. 0 \in G
  <2>1. ASSUME NEW s \in SUBSET S, Cardinality(s) = 0 PROVE f[s] = F[s]
    <3>1. s = {}
      BY <1>0, <2>1, FS_EmptySet
    <3> QED BY <3>1 DEF Sums, Adds
  <2> QED BY <2>1
<1>2. ASSUME NEW k \in Nat, k \in G PROVE k + 1 \in G
  <2>1. ASSUME NEW s \in SUBSET S, Cardinality(s) = k + 1 PROVE f[s] = F[s]
    <3>1. s # {}
      BY <2>1, FS_EmptySet
    <3> DEFINE x == First(s)
    <3>2. x \in s
      BY <3>1 DEF First
    <3>3. f[s] = w[x] + f[s \ {x}]
      BY <3>1 DEF Sums
    <3> HIDE DEF x
    <3>4. Cardinality(s \ {x}) = k
      <4>1. Cardinality(s \ {x}) = Cardinality(s) - 1
        BY <1>0, <3>2, FS_RemoveElement
      <4> QED BY <2>1, <4>1
    <3>5. f[s \ {x}] = F[s \ {x}]
      BY <1>2, <3>4
    <3>6. F[s] = w[x] + F[s \ {x}]
      BY <3>2 DEF Adds
    <3> QED BY <3>3, <3>5, <3>6
  <2> QED BY <2>1
<1> HIDE DEF G
<1>3. Cardinality(S) \in G
  BY <1>0, <1>1, <1>2, Induction
<1> QED BY <1>3 DEF G

\* It can be computed.
LEMMA SumsExists ==
  ASSUME NEW w, NEW n \in Nat, NEW F, Adds(F, w, n), NEW S \in SUBSET (0..n)
  PROVE  Sums([s \in SUBSET S |-> F[s]], w, S)
<1> DEFINE f == [s \in SUBSET S |-> F[s]]
<1>1. f[{}] = 0
  BY DEF Adds
<1>2. ASSUME NEW s \in SUBSET S, s # {} PROVE f[s] = w[First(s)] + f[s \ {First(s)}]
  <2>1. First(s) \in s
    BY <1>2 DEF First
  <2>2. s \ {First(s)} \in SUBSET S
    OBVIOUS
  <2>3. F[s] = w[First(s)] + F[s \ {First(s)}]
    BY <2>1 DEF Adds
  <2> QED BY <2>2, <2>3
<1>3. \A s \in SUBSET S : f[s] = IF s = {} THEN 0 ELSE w[First(s)] + f[s \ {First(s)}]
  BY <1>1, <1>2
<1>4. f = [s \in SUBSET S |-> f[s]]
  OBVIOUS
<1> HIDE DEF f
<1>5. Sums(f, w, S)
  BY <1>3, <1>4 DEF Sums
<1> QED BY <1>5 DEF f

LEMMA SharedSum ==
  ASSUME NEW w \in [Seats -> Nat]
  PROVE  Shared(w) = w[0] + w[1] + w[2] + w[3]
<1>1. PICK F : Adds(F, w, 3)
  BY AddsExists DEF Seats
<1>2. Sums(CHOOSE f : Sums(f, w, Seats), w, Seats)
  <2>1. \E f : Sums(f, w, Seats)
    BY <1>1, SumsExists DEF Seats
  <2> QED BY <2>1
<1>3. Shared(w) = F[Seats]
  BY <1>1, <1>2, SharedIs, SumsAre DEF Seats
<1>4. F[Seats] = w[3] + F[{0, 1, 2}]
  <2>1. Seats \in SUBSET (0..3) /\ 3 \in Seats /\ Seats \ {3} = {0, 1, 2}
    BY DEF Seats
  <2>2. F[Seats] = w[3] + F[Seats \ {3}]
    BY <1>1, <2>1 DEF Adds
  <2> QED BY <2>1, <2>2
<1>5. F[{0, 1, 2}] = w[2] + F[{0, 1}]
  <2>1. {0, 1, 2} \in SUBSET (0..3) /\ 2 \in {0, 1, 2} /\ {0, 1, 2} \ {2} = {0, 1}
    OBVIOUS
  <2> QED BY <1>1, <2>1 DEF Adds
<1>6. F[{0, 1}] = w[1] + F[{0}]
  <2>1. {0, 1} \in SUBSET (0..3) /\ 1 \in {0, 1} /\ {0, 1} \ {1} = {0}
    OBVIOUS
  <2> QED BY <1>1, <2>1 DEF Adds
<1>7. F[{0}] = w[0] + 0
  <2>1. {0} \in SUBSET (0..3) /\ 0 \in {0} /\ {0} \ {0} = {}
    OBVIOUS
  <2>2. F[{}] = 0
    BY <1>1 DEF Adds
  <2> QED BY <1>1, <2>1, <2>2 DEF Adds
<1>8. w[0] \in Nat /\ w[1] \in Nat /\ w[2] \in Nat /\ w[3] \in Nat
  BY DEF Seats
<1> QED BY <1>3, <1>4, <1>5, <1>6, <1>7, <1>8

\* The points of the first g games.
Before(g) == MapThenSumSet(GamePoints, 1..g)

LEMMA DeckFinite ==
  ASSUME NEW g \in DOMAIN Games
  PROVE  IsFiniteSet(Deck(g)) /\ Deck(g) \subseteq Card
<1>1. \A p \in Seats : IsFiniteSet(HandOf(g, p)) /\ HandOf(g, p) \subseteq Card
  BY HandsOf
<1>2. IsFiniteSet(HandOf(g, 0) \cup HandOf(g, 1)) /\ IsFiniteSet(HandOf(g, 2) \cup HandOf(g, 3))
  <2>1. 0 \in Seats /\ 1 \in Seats /\ 2 \in Seats /\ 3 \in Seats
    BY DEF Seats
  <2>2. IsFiniteSet(HandOf(g, 0)) /\ IsFiniteSet(HandOf(g, 1)) /\ IsFiniteSet(HandOf(g, 2))
          /\ IsFiniteSet(HandOf(g, 3))
    BY <1>1, <2>1
  <2> QED BY <2>2, FS_Union, Zenon
<1>3. IsFiniteSet((HandOf(g, 0) \cup HandOf(g, 1)) \cup (HandOf(g, 2) \cup HandOf(g, 3)))
  BY <1>2, FS_Union
<1>4. Deck(g) = (HandOf(g, 0) \cup HandOf(g, 1)) \cup (HandOf(g, 2) \cup HandOf(g, 3))
  BY DEF Deck, Seats
<1> QED BY <1>1, <1>3, <1>4 DEF Deck

\* What the first n tricks of game g are worth, if they hold the cards of S.
Number(S) == Cardinality(S)
If(b, n) == IF b THEN n ELSE 0
Worth(g, S, n) ==
  LET rule == Games[g].rule
  IN If(rule \in {"ANY", "ALL"}, n)
   + If(rule \in {"NO_HEARTS", "ALL"}, Number({c \in S : c.suit = "H"}))
   + If(rule \in {"NO_QUEENS", "ALL"}, 5 * Number({c \in S : c.rank = 10}))
   + If(rule \in {"NO_MEN", "ALL"}, 2 * Number({c \in S : c.rank \in {9, 11}}))
   + If(rule \in {"NO_KING_OF_HEARTS", "ALL"},
        18 * Number({c \in S : c.suit = "H" /\ c.rank = 11}))
   + If(rule \in {"NO_7_13", "ALL"}, 10 * Number({6, 12} \cap 0..(n - 1)))

LEMMA PointsAreWorth == ASSUME NEW g PROVE GamePoints(g) = Worth(g, Deck(g), Tricks)
BY DEF GamePoints, Worth, Deck, HandOf, Number, If

LEMMA NumberType == ASSUME NEW S, IsFiniteSet(S) PROVE Number(S) \in Nat
BY FS_CardinalityType DEF Number

LEMMA IfType == ASSUME NEW b, NEW n \in Nat PROVE If(b, n) \in Nat
BY DEF If

LEMMA WorthType ==
  ASSUME NEW g, NEW S, IsFiniteSet(S), NEW n \in Nat
  PROVE  Worth(g, S, n) \in Nat
<1>1. /\ Number({c \in S : c.suit = "H"}) \in Nat
      /\ Number({c \in S : c.rank = 10}) \in Nat
      /\ Number({c \in S : c.rank \in {9, 11}}) \in Nat
      /\ Number({c \in S : c.suit = "H" /\ c.rank = 11}) \in Nat
  BY FS_Subset, NumberType
<1>2. Number({6, 12} \cap 0..(n - 1)) \in Nat
  <2>1. IsFiniteSet(0..12)
    <3>1. 0 \in Int /\ 12 \in Int
      OBVIOUS
    <3> QED BY <3>1, FS_Interval, Zenon
  <2>2. {6, 12} \cap 0..(n - 1) \subseteq 0..12
    OBVIOUS
  <2> QED BY <2>1, <2>2, FS_Subset, NumberType
<1> DEFINE rule == Games[g].rule
           a == If(rule \in {"ANY", "ALL"}, n)
           b == If(rule \in {"NO_HEARTS", "ALL"}, Number({c \in S : c.suit = "H"}))
           q == If(rule \in {"NO_QUEENS", "ALL"}, 5 * Number({c \in S : c.rank = 10}))
           m == If(rule \in {"NO_MEN", "ALL"}, 2 * Number({c \in S : c.rank \in {9, 11}}))
           k == If(rule \in {"NO_KING_OF_HEARTS", "ALL"},
                   18 * Number({c \in S : c.suit = "H" /\ c.rank = 11}))
           l == If(rule \in {"NO_7_13", "ALL"}, 10 * Number({6, 12} \cap 0..(n - 1)))
<1>3. a \in Nat /\ b \in Nat /\ q \in Nat /\ m \in Nat /\ k \in Nat /\ l \in Nat
  BY <1>1, <1>2, IfType
<1>4. Worth(g, S, n) = a + b + q + m + k + l
  BY DEF Worth
<1> HIDE DEF a, b, q, m, k, l
<1> QED BY <1>3, <1>4

LEMMA PointsType == ASSUME NEW g \in DOMAIN Games PROVE GamePoints(g) \in Nat
<1>1. Tricks \in Nat
  BY GamesAssumption
<1> QED BY <1>1, DeckFinite, WorthType, PointsAreWorth

LEMMA BeforeIs ==
  /\ Before(0) = 0
  /\ \A g \in Nat : g + 1 \in DOMAIN Games =>
       Before(g) \in Nat /\ Before(g + 1) = Before(g) + GamePoints(g + 1)
<1> DEFINE n == Len(Games)
           w == [i \in 0..n |-> IF i = 0 THEN 0 ELSE GamePoints(i)]
<1>1. n \in Nat /\ DOMAIN Games = 1..n
  BY GamesAssumption
<1> HIDE DEF n
<1>2. \A i \in 0..n : w[i] \in Nat
  BY <1>1, PointsType
<1>3. \A i \in 1..n : w[i] = GamePoints(i)
  BY <1>1
<1> HIDE DEF w
<1>4. PICK F : Adds(F, w, n)
  BY <1>1, <1>2, AddsExists
<1>5. ASSUME NEW g \in 0..n PROVE Before(g) = F[1..g]
  <2>1. 1..g \in SUBSET (0..n) /\ 1..g \in SUBSET (1..n)
    BY <1>1
  <2>2. ASSUME NEW f PROVE GameSums(f, 1..g) <=> Sums(f, w, 1..g)
    <3>1. \A s \in SUBSET (1..g) : s # {} => First(s) \in 1..n
      <4>1. ASSUME NEW s \in SUBSET (1..g), s # {} PROVE First(s) \in s
        BY <4>1 DEF First
      <4> QED BY <2>1, <4>1
    <3>2. \A s \in SUBSET (1..g) : s # {} => w[First(s)] = GamePoints(First(s))
      BY <1>3, <3>1
    <3> QED BY <3>2 DEF GameSums, Sums
  <2>3. \E f : GameSums(f, 1..g)
    BY <1>1, <1>4, <2>1, <2>2, SumsExists
  <2> DEFINE h == CHOOSE f : GameSums(f, 1..g)
  <2>4. GameSums(h, 1..g)
    BY <2>3
  <2>5. Before(g) = h[1..g]
    BY GamesIs DEF Before
  <2> HIDE DEF h
  <2> QED BY <1>1, <1>4, <2>1, <2>2, <2>4, <2>5, SumsAre
<1>6. Before(0) = 0
  <2>1. 1..0 = {} /\ 0 \in 0..n
    BY <1>1
  <2>2. Before(0) = F[1..0] /\ F[{}] = 0
    BY <1>4, <1>5, <2>1 DEF Adds
  <2> QED BY <2>1, <2>2
<1>7. ASSUME NEW g \in Nat, g + 1 \in DOMAIN Games
      PROVE  Before(g) \in Nat /\ Before(g + 1) = Before(g) + GamePoints(g + 1)
  <2>1. g \in 0..n /\ g + 1 \in 0..n /\ g + 1 \in 1..n
    BY <1>1, <1>7
  <2>2. 1..(g + 1) \in SUBSET (0..n) /\ 1..g \in SUBSET (0..n) /\ g + 1 \in 1..(g + 1)
          /\ 1..(g + 1) \ {g + 1} = 1..g
    BY <1>1, <2>1
  <2>3. F[1..g] \in Nat
    BY <1>4, <2>2 DEF Adds
  <2>4. F[1..(g + 1)] = w[g + 1] + F[1..(g + 1) \ {g + 1}]
    BY <1>4, <2>2 DEF Adds
  <2>5. w[g + 1] \in Nat /\ w[g + 1] = GamePoints(g + 1)
    BY <1>2, <1>3, <2>1
  <2>6. Before(g) = F[1..g] /\ Before(g + 1) = F[1..(g + 1)]
    BY <1>5, <2>1
  <2>7. F[1..(g + 1)] = F[1..g] + w[g + 1]
    <3>1. F[1..(g + 1)] = w[g + 1] + F[1..g]
      <4>1. F[1..(g + 1) \ {g + 1}] = F[1..g]
        BY <2>2
      <4> QED BY <2>4, <4>1
    <3> DEFINE a == F[1..g]
               b == w[g + 1]
    <3>2. a \in Nat /\ b \in Nat /\ F[1..(g + 1)] = b + a
      BY <2>3, <2>5, <3>1
    <3> HIDE DEF a, b
    <3>3. b + a = a + b
      BY <3>2
    <3> QED BY <3>2, <3>3 DEF a, b
  <2> QED BY <2>3, <2>5, <2>6, <2>7
<1> QED BY <1>6, <1>7
-----------------------------------------------------------------------------
(* The points of a trick                                                   *)

On(Q) == {i \in Seats : table[i] \in Q}

\* Four cards, all different, and none of them in S.
FourCards(S) ==
  /\ \A i \in Seats : table[i] \in Card /\ table[i] # NoCard /\ table[i] \notin S
  /\ \A i, j \in Seats : table[i] = table[j] => i = j

LEMMA OnFinite == ASSUME NEW Q PROVE IsFiniteSet(On(Q))
<1>1. IsFiniteSet(0..3)
  <2>1. 0 \in Int /\ 3 \in Int
    OBVIOUS
  <2> QED BY <2>1, FS_Interval, Zenon
<1> QED BY <1>1, FS_Subset DEF On, Seats

LEMMA NumberMore ==
  ASSUME Types, NEW S, IsFiniteSet(S), FourCards(S), NEW Q
  PROVE  Number({c \in S \cup Range(table) : c \in Q}) = Number({c \in S : c \in Q}) + Number(On(Q))
<1> DEFINE A == {c \in S : c \in Q}
           B == {c \in Range(table) : c \in Q}
           f == [i \in On(Q) |-> table[i]]
<1>1. f \in Bijection(On(Q), B)
  <2>1. \A i \in On(Q) : f[i] \in B
    BY RangeOfTable DEF On
  <2>2. \A i, j \in On(Q) : f[i] = f[j] => i = j
    BY DEF On, FourCards
  <2>3. \A c \in B : \E i \in On(Q) : f[i] = c
    BY RangeOfTable DEF On
  <2>4. f \in [On(Q) -> B]
    BY <2>1
  <2> HIDE DEF f, B
  <2> QED BY <2>2, <2>3, <2>4 DEF Bijection, Injection, Surjection, IsInjective
<1>2. ExistsBijection(On(Q), B)
  BY <1>1 DEF ExistsBijection
<1>3. IsFiniteSet(B) /\ Cardinality(B) = Cardinality(On(Q))
  BY <1>2, OnFinite, FS_Bijection
<1>4. IsFiniteSet(A)
  BY FS_Subset
<1>5. A \cap B = {}
  BY RangeOfTable DEF FourCards
<1>6. {c \in S \cup Range(table) : c \in Q} = A \cup B
  OBVIOUS
<1>7. Cardinality(A \cup B) = Cardinality(A) + Cardinality(B) - Cardinality(A \cap B)
  BY <1>3, <1>4, FS_Union
<1>8. Cardinality(A) \in Nat /\ Cardinality(B) \in Nat /\ Cardinality(A \cap B) = 0
  BY <1>3, <1>4, <1>5, FS_CardinalityType, FS_EmptySet
<1> HIDE DEF A, B
<1>9. Cardinality(A \cup B) = Cardinality(A) + Cardinality(B)
  BY <1>7, <1>8
<1> QED BY <1>3, <1>6, <1>9 DEF Number, A

Hearts == {c \in Card : c.suit = "H"}
Queens == {c \in Card : c.rank = 10}
Men == {c \in Card : c.rank \in {9, 11}}
King == {c \in Card : c.suit = "H" /\ c.rank = 11}

LEMMA WorthIs ==
  ASSUME NEW g, NEW S \in SUBSET Card, NEW n,
         NEW rule, rule = Games[g].rule
  PROVE  Worth(g, S, n) =
           If(rule \in {"ANY", "ALL"}, n)
           + If(rule \in {"NO_HEARTS", "ALL"}, Number({c \in S : c \in Hearts}))
           + If(rule \in {"NO_QUEENS", "ALL"}, 5 * Number({c \in S : c \in Queens}))
           + If(rule \in {"NO_MEN", "ALL"}, 2 * Number({c \in S : c \in Men}))
           + If(rule \in {"NO_KING_OF_HEARTS", "ALL"}, 18 * Number({c \in S : c \in King}))
           + If(rule \in {"NO_7_13", "ALL"}, 10 * Number({6, 12} \cap 0..(n - 1)))
<1>1. /\ {c \in S : c \in Hearts} = {c \in S : c.suit = "H"}
      /\ {c \in S : c \in Queens} = {c \in S : c.rank = 10}
      /\ {c \in S : c \in Men} = {c \in S : c.rank \in {9, 11}}
      /\ {c \in S : c \in King} = {c \in S : c.suit = "H" /\ c.rank = 11}
  BY DEF Hearts, Queens, Men, King
<1> QED BY <1>1 DEF Worth

LEMMA ScoreIs ==
  ASSUME NEW S, FourCards(S), NEW rule, NEW d
  PROVE  calculate_score(rule, table, d) =
           If(rule \in {"ANY", "ALL"}, 1)
           + If(rule \in {"NO_HEARTS", "ALL"}, Number(On(Hearts)))
           + If(rule \in {"NO_QUEENS", "ALL"}, 5 * Number(On(Queens)))
           + If(rule \in {"NO_MEN", "ALL"}, 2 * Number(On(Men)))
           + If(rule \in {"NO_KING_OF_HEARTS", "ALL"}, 18 * Number(On(King)))
           + If(rule \in {"NO_7_13", "ALL"}, IF d \in {6, 12} THEN 10 ELSE 0)
<1> DEFINE played == {i \in Seats : table[i] # NoCard}
           suits == {table[i].suit : i \in played}
           ranks == {table[i].rank : i \in played}
<1>1. played = Seats /\ \A i \in Seats : table[i] \in Card
  BY DEF FourCards
<1>2. \A i \in Seats : table[i].suit \in suits /\ table[i].rank \in ranks
  BY <1>1
<1>3. /\ {i \in played : table[i].suit \in {"H"} /\ table[i].rank \in ranks} = On(Hearts)
      /\ {i \in played : table[i].suit \in suits /\ table[i].rank \in {10}} = On(Queens)
      /\ {i \in played : table[i].suit \in suits /\ table[i].rank \in {9, 11}} = On(Men)
      /\ {i \in played : table[i].suit \in {"H"} /\ table[i].rank \in {11}} = On(King)
  <2> HIDE DEF played, suits, ranks
  <2> QED BY <1>1, <1>2 DEF On, Hearts, Queens, Men, King
<1> QED BY <1>3 DEF calculate_score, Number, If

LEMMA DealsMore ==
  ASSUME NEW d \in Nat
  PROVE  /\ Number({6, 12} \cap 0..(d - 1)) \in Nat
         /\ 10 * Number({6, 12} \cap 0..((d + 1) - 1)) =
              10 * Number({6, 12} \cap 0..(d - 1)) + (IF d \in {6, 12} THEN 10 ELSE 0)
<1> DEFINE A == {6, 12} \cap 0..(d - 1)
           B == {6, 12} \cap 0..((d + 1) - 1)
<1>1. IsFiniteSet(A)
  <2>1. IsFiniteSet(0..12)
    <3>1. 0 \in Int /\ 12 \in Int
      OBVIOUS
    <3> QED BY <3>1, FS_Interval, Zenon
  <2>2. A \subseteq 0..12
    OBVIOUS
  <2> QED BY <2>1, <2>2, FS_Subset
<1>2. Number(A) \in Nat
  BY <1>1, NumberType
<1>3. CASE d \in {6, 12}
  <2>1. B = A \cup {d} /\ d \notin A
    BY <1>3
  <2>2. Number(B) = Number(A) + 1
    <3> HIDE DEF A, B
    <3> QED BY <1>1, <2>1, FS_AddElement DEF Number
  <2> HIDE DEF A, B
  <2>3. 10 * Number(B) = 10 * Number(A) + 10
    BY <1>2, <2>2
  <2> QED BY <1>2, <1>3, <2>3 DEF A, B
<1>4. CASE d \notin {6, 12}
  <2>1. B = A
    BY <1>4
  <2> HIDE DEF A, B
  <2>2. 10 * Number(B) = 10 * Number(A) + 0
    BY <1>2, <2>1
  <2> QED BY <1>2, <1>4, <2>2 DEF A, B
<1> QED BY <1>3, <1>4

\* A trick adds its points to those of the tricks before it.
LEMMA WorthMore ==
  ASSUME Types, NEW g, NEW S \in SUBSET Card, IsFiniteSet(S), FourCards(S), NEW d \in Nat
  PROVE  Worth(g, S \cup Range(table), d + 1) =
           Worth(g, S, d) + calculate_score(Games[g].rule, table, d)
<1> DEFINE rule == Games[g].rule
           T == S \cup Range(table)
           before(Q) == Number({c \in S : c \in Q})
           after(Q) == Number({c \in T : c \in Q})
<1>1. ASSUME NEW Q
      PROVE after(Q) = before(Q) + Number(On(Q)) /\ before(Q) \in Nat /\ Number(On(Q)) \in Nat
  <2>1. IsFiniteSet({c \in S : c \in Q})
    BY FS_Subset
  <2> QED BY <2>1, NumberMore, NumberType, OnFinite
<1>2. T \in SUBSET Card
  BY RangeOfTable DEF FourCards
<1>3. ASSUME NEW b, NEW x \in Nat, NEW y \in Nat
      PROVE  If(b, x + y) = If(b, x) + If(b, y) /\ If(b, x) \in Nat /\ If(b, y) \in Nat
  BY DEF If
<1> DEFINE a0 == If(rule \in {"ANY", "ALL"}, d)
           a1 == If(rule \in {"ANY", "ALL"}, 1)
           h0 == If(rule \in {"NO_HEARTS", "ALL"}, before(Hearts))
           h1 == If(rule \in {"NO_HEARTS", "ALL"}, Number(On(Hearts)))
           q0 == If(rule \in {"NO_QUEENS", "ALL"}, 5 * before(Queens))
           q1 == If(rule \in {"NO_QUEENS", "ALL"}, 5 * Number(On(Queens)))
           m0 == If(rule \in {"NO_MEN", "ALL"}, 2 * before(Men))
           m1 == If(rule \in {"NO_MEN", "ALL"}, 2 * Number(On(Men)))
           k0 == If(rule \in {"NO_KING_OF_HEARTS", "ALL"}, 18 * before(King))
           k1 == If(rule \in {"NO_KING_OF_HEARTS", "ALL"}, 18 * Number(On(King)))
           l0 == If(rule \in {"NO_7_13", "ALL"}, 10 * Number({6, 12} \cap 0..(d - 1)))
           l1 == If(rule \in {"NO_7_13", "ALL"}, IF d \in {6, 12} THEN 10 ELSE 0)
<1>4. Worth(g, S, d) = a0 + h0 + q0 + m0 + k0 + l0
  BY WorthIs
<1>5. calculate_score(rule, table, d) = a1 + h1 + q1 + m1 + k1 + l1
  BY ScoreIs
<1>6. Worth(g, T, d + 1) =
        If(rule \in {"ANY", "ALL"}, d + 1)
        + If(rule \in {"NO_HEARTS", "ALL"}, after(Hearts))
        + If(rule \in {"NO_QUEENS", "ALL"}, 5 * after(Queens))
        + If(rule \in {"NO_MEN", "ALL"}, 2 * after(Men))
        + If(rule \in {"NO_KING_OF_HEARTS", "ALL"}, 18 * after(King))
        + If(rule \in {"NO_7_13", "ALL"}, 10 * Number({6, 12} \cap 0..((d + 1) - 1)))
  <2> HIDE DEF T
  <2> QED BY <1>2, WorthIs
<1> HIDE DEF rule, T, before, after
<1>7. If(rule \in {"ANY", "ALL"}, d + 1) = a0 + a1 /\ a0 \in Nat /\ a1 \in Nat
  BY <1>3
<1>8. If(rule \in {"NO_HEARTS", "ALL"}, after(Hearts)) = h0 + h1 /\ h0 \in Nat /\ h1 \in Nat
  BY <1>1, <1>3
<1>9. If(rule \in {"NO_QUEENS", "ALL"}, 5 * after(Queens)) = q0 + q1 /\ q0 \in Nat /\ q1 \in Nat
  <2>1. 5 * after(Queens) = 5 * before(Queens) + 5 * Number(On(Queens))
          /\ 5 * before(Queens) \in Nat /\ 5 * Number(On(Queens)) \in Nat
    BY <1>1
  <2> QED BY <1>3, <2>1
<1>10. If(rule \in {"NO_MEN", "ALL"}, 2 * after(Men)) = m0 + m1 /\ m0 \in Nat /\ m1 \in Nat
  <2>1. 2 * after(Men) = 2 * before(Men) + 2 * Number(On(Men))
          /\ 2 * before(Men) \in Nat /\ 2 * Number(On(Men)) \in Nat
    BY <1>1
  <2> QED BY <1>3, <2>1
<1>11. If(rule \in {"NO_KING_OF_HEARTS", "ALL"}, 18 * after(King)) = k0 + k1
         /\ k0 \in Nat /\ k1 \in Nat
  <2>1. 18 * after(King) = 18 * before(King) + 18 * Number(On(King))
          /\ 18 * before(King) \in Nat /\ 18 * Number(On(King)) \in Nat
    BY <1>1
  <2> QED BY <1>3, <2>1
<1>12. If(rule \in {"NO_7_13", "ALL"}, 10 * Number({6, 12} \cap 0..((d + 1) - 1))) = l0 + l1
         /\ l0 \in Nat /\ l1 \in Nat
  <2> DEFINE ten == IF d \in {6, 12} THEN 10 ELSE 0
             n0 == Number({6, 12} \cap 0..(d - 1))
  <2>1. 10 * Number({6, 12} \cap 0..((d + 1) - 1)) = 10 * n0 + ten
          /\ 10 * n0 \in Nat /\ ten \in Nat
    BY DealsMore
  <2>2. l0 = If(rule \in {"NO_7_13", "ALL"}, 10 * n0) /\ l1 = If(rule \in {"NO_7_13", "ALL"}, ten)
    OBVIOUS
  <2> HIDE DEF ten, n0, l0, l1
  <2> QED BY <1>3, <2>1, <2>2
<1> HIDE DEF a0, a1, h0, h1, q0, q1, m0, m1, k0, k1, l0, l1
<1>13. Worth(g, T, d + 1) = (a0 + h0 + q0 + m0 + k0 + l0) + (a1 + h1 + q1 + m1 + k1 + l1)
  BY <1>6, <1>7, <1>8, <1>9, <1>10, <1>11, <1>12
<1> QED BY <1>4, <1>5, <1>13 DEF rule, T
-----------------------------------------------------------------------------
(* The points shared out                                                   *)

AllTold == \A p \in Seats : told[p].total = total
StartTold == \A p \in Seats : th[p].pc = "start" => told[p].total = total

CardPoints(g, d) ==
  /\ StartTold
  /\ loaded = g => Shared(total) = Before(g - 1) + Worth(g, Taken, d)
  /\ loaded # g =>
       /\ loaded + 1 = g /\ loaded <= Len(Games)
       /\ Shared(total) = Before(loaded) /\ AllTold

KnownPoints(g, d) == Shared(total) = Before(g - 1) + Worth(g, Taken, d)

TellPoints(g, d, first) ==
  Shared(total) = Before(g - 1) + (IF th[get_loser(table, first)].pc = "known"
                                     THEN Worth(g, Taken \ Range(table), d)
                                     ELSE Worth(g, Taken \cup Range(table), d + 1))

EndPoints(g) ==
  /\ StartTold /\ (g = 0 => AllTold)
  /\ g <= Len(Games) /\ Shared(total) = Before(g)

OverPoints == Shared(total) = Before(Len(Games)) /\ AllTold

LEMMA StartOnly ==
  ASSUME Types, NEW p \in Seats, Acts(p), th'[p].pc = "start"
  PROVE  Join(p) \/ Score(p)
<1>0. th[p] \in Threads
  BY ThreadIs
<1>1. ~Leave(p) /\ ~LeaveTell(p)
  BY Moves DEF Leave, LeaveTell, Gone
<1>2. ~Start(p) /\ ~WakeUp(p) /\ ~WakeNext(p) /\ ~WakeUpTell(p) /\ ~Tell(p)
  <2>1. Start(p) \/ WakeUp(p) \/ WakeNext(p) \/ WakeUpTell(p) \/ Tell(p) =>
          \E pc \in {"deal", "card", "played", "tell", "done"} : Step(p, [th[p] EXCEPT !.pc = pc])
    BY DEF Start, WakeUp, WakeNext, WakeUpTell, Tell
  <2> QED BY <2>1, MovesTo
<1>8. ~PlayCard(p)
  <2> DEFINE r == IF th[p].player < 3
                    THEN [th[p] EXCEPT !.pc = "wake", !.next = (th[p].player + 1 + first_seat) % 4]
                    ELSE [th[p] EXCEPT !.pc = "played"]
  <2>1. r.pc # "start"
    BY <1>0 DEF Threads
  <2>2. PlayCard(p) => Step(p, r)
    BY DEF PlayCard
  <2> HIDE DEF r
  <2> QED BY <2>1, <2>2, Moves
<1>3. ~Known(p)
  <2>1. Known(p) => \E pc \in {"tell", "sleepTell"} : Step(p, [th[p] EXCEPT !.pc = pc])
    BY DEF Known
  <2> QED BY <2>1, MovesTo
<1>4. ~Deal(p)
  <2> DEFINE r == [th[p] EXCEPT !.pc = "turn", !.draw = current_draw]
  <2>1. r.pc = "turn"
    BY <1>0 DEF Threads
  <2>2. Deal(p) => Step(p, r) \/ (UNCHANGED th /\ th[p].pc = "deal")
    BY DEF Deal, At
  <2> HIDE DEF r
  <2> QED BY <2>1, <2>2, Moves
<1>5. ~Turn(p)
  <2> DEFINE player == (4 + p - first_seat) % 4
             r == [th[p] EXCEPT !.player = player,
                                !.pc = IF player > current_player THEN "sleep" ELSE "card"]
  <2>1. r.pc # "start"
    BY <1>0 DEF Threads
  <2>2. Turn(p) => Step(p, r)
    BY DEF Turn
  <2> HIDE DEF r
  <2> QED BY <2>1, <2>2, Moves
<1>6. ~Played(p)
  <2> DEFINE r == [th[p] EXCEPT !.pc = "known", !.loser = get_loser(table, first_seat),
                                !.next = (th[p].player + 1 + first_seat) % 4]
  <2>1. r.pc # "start"
    BY <1>0 DEF Threads
  <2>2. Played(p) => Step(p, r)
    BY DEF Played
  <2> HIDE DEF r
  <2> QED BY <2>1, <2>2, Moves
<1>7. ~TrickDone(p)
  <2> DEFINE r == IF th[p].draw + 1 < Tricks THEN [th[p] EXCEPT !.pc = "turn", !.draw = @ + 1]
                  ELSE [th[p] EXCEPT !.pc = "score"]
  <2>1. r.pc # "start"
    BY <1>0 DEF Threads
  <2>2. TrickDone(p) => Step(p, r)
    BY DEF TrickDone
  <2> HIDE DEF r
  <2> QED BY <2>1, <2>2, Moves
<1> QED BY <1>1, <1>2, <1>3, <1>4, <1>5, <1>6, <1>7, <1>8 DEF Acts, Thread

\* Points are given when the loser is known, and told when the game has ended.
LEMMA TotalsKept ==
  ASSUME Types, NEW p \in Seats, Acts(p), ~Known(p)
  PROVE  /\ total' = total
         /\ ~Score(p) => \A q \in Seats : told'[q].total = told[q].total
<1>0. told \in [Seats -> [trick : Messages, total : Points]]
  BY DEF Types, GameTypes
<1>1. total' = total
  BY Zenon DEF Acts, Thread, Join, Start, Deal, Turn, WakeUp, PlayCard, WakeNext, Played,
               WakeUpTell, Tell, TrickDone, Score, Leave, LeaveTell
<1>2. \/ told' = told
      \/ \E m : told' = [told EXCEPT ![p].trick = m]
      \/ Score(p)
  <2>1. CASE Deal(p) \/ Tell(p)
    BY <2>1 DEF Deal, Tell
  <2>2. CASE ~Deal(p) /\ ~Tell(p) /\ ~Score(p)
    BY <2>2, Zenon DEF Acts, Thread, Join, Start, Turn, WakeUp, PlayCard, WakeNext, Played,
                       WakeUpTell, TrickDone, Leave, LeaveTell
  <2> QED BY <2>1, <2>2
<1> QED BY <1>0, <1>1, <1>2

LEMMA NoMoreGames ==
  ASSUME Types, NEW g \in Nat, NEW d \in Nat, CardPoints(g, d), loaded # g, g \notin DOMAIN Games,
         total' = total, \A q \in Seats : told'[q].total = told[q].total
  PROVE  OverPoints'
<1>1. loaded = Len(Games)
  <2>1. Len(Games) \in Nat /\ DOMAIN Games = 1..Len(Games)
    BY GamesAssumption
  <2>2. loaded \in Nat /\ loaded + 1 = g /\ loaded <= Len(Games)
    BY DEF CardPoints, Types, GameTypes
  <2>3. g \notin 1..Len(Games)
    BY <2>1
  <2> DEFINE n == Len(Games)
  <2>4. n \in Nat /\ loaded <= n /\ ~(loaded + 1 <= n)
    BY <2>1, <2>2, <2>3
  <2> HIDE DEF n
  <2>5. loaded = n
    BY <2>2, <2>4
  <2> QED BY <2>5 DEF n
<1> QED BY <1>1 DEF CardPoints, OverPoints, AllTold

LEMMA CardPointsKept ==
  ASSUME Types, NEW g \in Nat, NEW d \in Nat, CardRound(g, d), CardPoints(g, d),
         NEW p \in Seats, Acts(p), UNCHANGED <<loaded, taken>>
  PROVE  /\ CardPoints(g, d)'
         /\ loaded = g => KnownPoints(g, d)'
<1>0. ~Known(p) /\ ~Score(p)
  BY CardPlaces DEF Known, Score, At
<1>1. total' = total /\ \A q \in Seats : told'[q].total = told[q].total
  BY <1>0, TotalsKept
<1>2. th'[p].pc # "start"
  <2>1. Join(p) => state[p] # "BEFORE_DRAW"
    BY DEF Join, At, CardRound, CardThread, InTurn, Coming, Asked, Answered
  <2>2. Join(p) => th'[p].pc = "deal"
    <3> DEFINE r == [Gone EXCEPT !.gid = current_game,
                                 !.pc = IF state[p] = "BEFORE_DRAW" THEN "start" ELSE "deal"]
    <3>1. Join(p) => Step(p, r) /\ r.pc = "deal"
      BY <2>1 DEF Join, Gone
    <3> HIDE DEF r
    <3> QED BY <3>1, Moves
  <2> QED BY <1>0, <2>2, StartOnly
<1>3. \A q \in Seats \ {p} : th'[q] = th[q]
  BY OthersKept DEF Acts
<1>4. StartTold'
  BY <1>1, <1>2, <1>3 DEF StartTold, CardPoints
<1>5. Taken' = Taken
  BY DEF Taken
<1>6. AllTold => AllTold'
  BY <1>1 DEF AllTold
<1>7. CardPoints(g, d)'
  BY <1>1, <1>4, <1>5, <1>6 DEF CardPoints
<1>8. loaded = g => KnownPoints(g, d)'
  BY <1>1, <1>5 DEF CardPoints, KnownPoints
<1> QED BY <1>7, <1>8

LEMMA WorthNone == ASSUME NEW g PROVE Worth(g, {}, 0) = 0
<1>1. Cardinality({}) = 0
  BY FS_EmptySet
<1>2. {6, 12} \cap 0..(0 - 1) = {}
  OBVIOUS
<1> QED BY <1>1, <1>2 DEF Worth, Number, If

LEMMA DealPoints ==
  ASSUME Types, NEW g \in Nat, NEW d \in Nat, CardRound(g, d), CardHands(g, d), CardPoints(g, d),
         NEW p \in Seats, Deal(p)
  PROVE  IF over' THEN OverPoints' ELSE CardPoints(g, d)'
<1>1. th[p].pc = "deal" /\ th[p].gid = g /\ Acts(p) /\ ~over
  BY DEF Deal, At, CardRound, CardThread, Acts, Thread
<1>2. ~Known(p) /\ ~Score(p) /\ taken' = taken
  BY <1>1 DEF Known, Score, At, Deal
<1>3. total' = total /\ \A q \in Seats : told'[q].total = told[q].total
  BY <1>1, <1>2, TotalsKept
<1>4. over' => loaded' \notin DOMAIN Games
  BY <1>1 DEF Deal
<1>5. CASE loaded = g
  <2>1. g \in DOMAIN Games
    BY <1>5 DEF CardRound, GameKnown
  <2>2. loaded' = loaded
    BY <1>1, <1>5 DEF Deal, game
  <2>3. CardPoints(g, d)'
    BY <1>1, <1>2, <2>2, CardPointsKept
  <2> QED BY <1>4, <1>5, <2>1, <2>2, <2>3
<1>6. CASE loaded # g
  <2>1. g > loaded /\ d = 0 /\ \A q \in Seats : th[q].pc \in {"start", "deal"}
    BY <1>6 DEF CardRound, GameKnown
  <2>2. loaded' = g
    BY <1>1, <2>1 DEF Deal
  <2>3. CASE g \notin DOMAIN Games
    <3>1. over' = TRUE
      BY <2>2, <2>3 DEF Deal
    <3> QED BY <1>3, <1>6, <2>3, <3>1, NoMoreGames
  <2>4. CASE g \in DOMAIN Games
    <3>1. Taken' = {}
      BY <1>2, <2>1 DEF CardHands, Taken
    <3>2. Shared(total) = Before(g - 1)
      <4>1. loaded = g - 1
        BY <1>6 DEF CardPoints, Types, GameTypes
      <4> QED BY <1>6, <4>1 DEF CardPoints
    <3>3. Before(g - 1) \in Nat
      <4>1. g \in 1..Len(Games)
        BY <2>4, GamesAssumption
      <4>2. g - 1 \in Nat /\ (g - 1) + 1 = g
        BY <4>1
      <4> QED BY <2>4, <4>2, BeforeIs
    <3>4. Shared(total)' = Before(g - 1) + Worth(g, Taken', d)
      BY <1>3, <2>1, <3>1, <3>2, <3>3, WorthNone
    <3>5. StartTold'
      BY <1>3, <1>6 DEF CardPoints, AllTold, StartTold
    <3>6. ~over'
      BY <1>4, <2>2, <2>4
    <3> QED BY <2>2, <3>4, <3>5, <3>6 DEF CardPoints
  <2> QED BY <2>3, <2>4
<1> QED BY <1>5, <1>6

LEMMA PlayedPoints ==
  ASSUME Types, NEW g \in Nat, NEW d \in Nat, KnownHands(g, d), KnownPoints(g, d),
         NEW p \in Seats, Played(p)
  PROVE  /\ KnownPoints(g, d)'
         /\ (\A q \in Seats : th'[q].pc = "known") => TellPoints(g, d, first_seat)'
<1>1. UNCHANGED <<total, table, first_seat>> /\ Taken' = Taken
  BY DEF Played, game, Taken
<1>2. Taken \ Range(table) = Taken
  BY RangeOfTable DEF KnownHands, Fresh, Seats
<1>3. first_seat \in Seats
  BY DEF Types, GameTypes
<1>4. get_loser(table, first_seat) \in Seats
  BY <1>3, LoserType
<1> QED BY <1>1, <1>2, <1>4 DEF KnownPoints, TellPoints

LEMMA SharedMore ==
  ASSUME NEW w \in Points, NEW p \in Seats, NEW n \in Nat
  PROVE  Shared([w EXCEPT ![p] = @ + n]) = Shared(w) + n
<1> DEFINE v == [w EXCEPT ![p] = @ + n]
<1>1. w \in [Seats -> Nat] /\ v \in [Seats -> Nat]
  BY DEF Points
<1>2. v[p] = w[p] + n /\ \A q \in Seats \ {p} : v[q] = w[q]
  BY <1>1
<1> HIDE DEF v
<1>3. Shared(w) = w[0] + w[1] + w[2] + w[3] /\ Shared(v) = v[0] + v[1] + v[2] + v[3]
  BY <1>1, SharedSum
<1>4. /\ 0 \in Seats /\ 1 \in Seats /\ 2 \in Seats /\ 3 \in Seats
      /\ w[0] \in Nat /\ w[1] \in Nat /\ w[2] \in Nat /\ w[3] \in Nat
  BY <1>1 DEF Seats
<1>5. p = 0 \/ p = 1 \/ p = 2 \/ p = 3
  BY DEF Seats
<1>6. Shared(v) = Shared(w) + n
  <2>1. CASE p = 0
    BY <1>2, <1>3, <1>4, <2>1
  <2>2. CASE p = 1
    BY <1>2, <1>3, <1>4, <2>2
  <2>3. CASE p = 2
    BY <1>2, <1>3, <1>4, <2>3
  <2>4. CASE p = 3
    BY <1>2, <1>3, <1>4, <2>4
  <2> QED BY <1>5, <2>1, <2>2, <2>3, <2>4
<1> QED BY <1>6 DEF v

\* The cards on the table are four, and none was taken before this trick.
LEMMA TableIsNew ==
  ASSUME Types, NEW g \in DOMAIN Games, NEW first \in Seats, Dealt(g, first, 4)
  PROVE  FourCards(Taken \ Range(table))
<1>1. \A i \in Seats : SeatAt(i, first) \in Seats /\ table[i] \in HandOf(g, SeatAt(i, first))
  BY PlaceFacts DEF Dealt, Seats
<1>2. \A i \in Seats : table[i] \in Card /\ table[i] # NoCard
  BY <1>1, HandsOf
<1>3. ASSUME NEW i \in Seats, NEW j \in Seats, table[i] = table[j] PROVE i = j
  <2>1. SeatAt(i, first) = SeatAt(j, first)
    BY <1>1, <1>3, HandsOf
  <2> QED BY <2>1, PlaceFacts
<1>4. \A i \in Seats : table[i] \in Range(table)
  BY RangeOfTable
<1> QED BY <1>2, <1>3, <1>4 DEF FourCards

\* The loser is given the points of the trick.
LEMMA KnownGives ==
  ASSUME Types, NEW g \in Nat, NEW d \in Nat, NEW first \in Seats, NEW n \in Seats,
         TellRound(g, d, first, n), TellHands(g, d, first), TellPoints(g, d, first),
         NEW p \in Seats, Known(p)
  PROVE  TellPoints(g, d, first)'
<1>0. PICK loser \in Seats : loser = get_loser(table, first)
  BY LoserType
<1> DEFINE S == Taken \ Range(table)
<1>1. th[p].draw = d /\ th[p].loser = loser /\ loaded = g /\ g \in DOMAIN Games /\ table' = table
  <2>1. th[p].draw = d /\ th[p].loser = loser
    BY <1>0, KnownTell
  <2>2. loaded = g /\ g \in DOMAIN Games
    BY DEF TellRound
  <2>3. table' = table
    BY DEF Known
  <2> QED BY <2>1, <2>2, <2>3
<1>2. th'[p].pc \in {"tell", "sleepTell"} /\ th[p].pc = "known"
        /\ \A q \in Seats \ {p} : th'[q] = th[q]
  BY KnownTell, OthersKept DEF Known, At, Thread
<1>3. Taken' = Taken \/ Taken' = Taken \cup Range(table)
  <2>1. CASE th[p].player = 0
    BY <2>1, TakenMore DEF Known
  <2>2. CASE th[p].player # 0
    BY <2>2 DEF Known, Taken
  <2> QED BY <2>1, <2>2
<1>4. (Taken \ Range(table))' = S /\ (Taken \cup Range(table))' = S \cup Range(table)
        /\ Taken \cup Range(table) = S \cup Range(table)
  BY <1>1, <1>3
<1>5. S \in SUBSET Card /\ IsFiniteSet(S)
  <2>1. S \subseteq Deck(g)
    BY DEF TellHands, Kept
  <2> QED BY <1>1, <2>1, DeckFinite, FS_Subset
<1>6. FourCards(S)
  BY <1>1, TableIsNew DEF TellHands
<1>7. CASE loser = p
  <2> DEFINE points == calculate_score(Games[g].rule, table, d)
  <2>1. total' = [total EXCEPT ![p] = @ + points]
    BY <1>1, <1>7 DEF Known
  <2>2. points \in Nat
    BY ScoreType
  <2>3. Worth(g, S \cup Range(table), d + 1) = Worth(g, S, d) + points
    BY <1>5, <1>6, WorthMore
  <2>4. Shared(total) = Before(g - 1) + Worth(g, S, d)
    BY <1>0, <1>2, <1>7 DEF TellPoints
  <2> HIDE DEF points, S
  <2>5. Shared(total') = Shared(total) + points
    BY <2>1, <2>2, SharedMore DEF Types, GameTypes
  <2>6. Worth(g, S, d) \in Nat
    BY <1>5, WorthType
  <2>7. Before(g - 1) \in Nat
    <3>1. g \in 1..Len(Games)
      BY <1>1, GamesAssumption
    <3>2. g - 1 \in Nat /\ (g - 1) + 1 = g
      BY <3>1
    <3> QED BY <1>1, <3>2, BeforeIs
  <2>8. Shared(total') = Before(g - 1) + Worth(g, S \cup Range(table), d + 1)
    BY <2>2, <2>3, <2>4, <2>5, <2>6, <2>7
  <2> QED BY <1>0, <1>1, <1>2, <1>4, <1>7, <2>8 DEF TellPoints
<1>8. CASE loser # p
  <2>1. total' = total
    BY <1>1, <1>8 DEF Known
  <2>2. th'[loser] = th[loser]
    BY <1>2, <1>8
  <2> HIDE DEF S
  <2>3. Shared(total) = Before(g - 1) + (IF th[loser].pc = "known" THEN Worth(g, S, d)
                                         ELSE Worth(g, S \cup Range(table), d + 1))
    BY <1>0, <1>4 DEF TellPoints, S
  <2> QED BY <1>0, <1>1, <1>4, <2>1, <2>2, <2>3 DEF TellPoints
<1> QED BY <1>7, <1>8

LEMMA TellPointsKept ==
  ASSUME Types, NEW g \in Nat, NEW d \in Nat, NEW first \in Seats, TellPoints(g, d, first),
         NEW p \in Seats, WakeUpTell(p) \/ Tell(p)
  PROVE  TellPoints(g, d, first)'
<1>0. PICK loser \in Seats : loser = get_loser(table, first)
  BY LoserType
<1>1. table' = table /\ total' = total /\ Taken' = Taken
  BY DEF WakeUpTell, Tell, game, Taken
<1>2. th[p].pc # "known" /\ th'[p].pc # "known" /\ \A q \in Seats \ {p} : th'[q] = th[q]
  <2>1. Step(p, [th[p] EXCEPT !.pc = "tell"]) \/ Step(p, [th[p] EXCEPT !.pc = "done"])
    BY DEF WakeUpTell, Tell
  <2>2. th[p].pc # "known"
    BY DEF WakeUpTell, Tell, At
  <2> QED BY <2>1, <2>2, MovesTo
<1>3. th'[loser].pc = "known" <=> th[loser].pc = "known"
  BY <1>2
<1> QED BY <1>0, <1>1, <1>3 DEF TellPoints

\* When the last player has been told of the last trick, all cards are taken.
LEMMA TellLastPoints ==
  ASSUME Types, NEW g \in Nat, NEW d \in Nat, NEW first \in Seats, NEW n \in Seats,
         TellRound(g, d, first, n), TellHands(g, d, first), TellPoints(g, d, first),
         NEW p \in Seats, Tell(p), ~(th[p].player < 3),
         NEW loser, taken # <<>>, Last(taken) = Message(d, table, loser)
  PROVE  IF d + 1 < Tricks THEN CardPoints(g, d + 1)' ELSE EndPoints(g)'
<1>2. th[p].pc = "tell" /\ \A q \in Seats : th'[q].pc = "done" /\ (q = p \/ th[q].pc = "done")
  BY TellEnds DEF Tell, At
<1>3. loaded = g /\ g \in DOMAIN Games /\ d < Tricks
  BY DEF TellRound
<1>4. total' = total /\ loaded' = loaded /\ Taken' = Taken
  BY DEF Tell, game, Taken
<1>5. Shared(total) = Before(g - 1) + Worth(g, Taken, d + 1)
  <2>1. Taken \cup Range(table) = Taken
    BY LastIsTaken
  <2>2. get_loser(table, first) \in Seats
    BY LoserType
  <2> QED BY <1>2, <2>1, <2>2 DEF TellPoints
<1>6. StartTold'
  BY <1>2 DEF StartTold
<1>7. CASE d + 1 < Tricks
  BY <1>3, <1>4, <1>5, <1>6, <1>7 DEF CardPoints
<1>8. CASE ~(d + 1 < Tricks)
  <2>1. d + 1 = Tricks /\ Tricks - d - 1 = 0
    BY <1>3, <1>8, GamesAssumption
  <2>2. \A q \in Seats : hands[q] = {}
    <3>1. \A q \in Seats : Cardinality(hands[q]) = 0 /\ IsFiniteSet(hands[q])
      <4>1. \A q \in Seats : hands[q] \subseteq HandOf(g, q) /\ IsFiniteSet(HandOf(g, q))
        BY <1>3, HandsOf DEF TellHands, Kept, Left
      <4> QED BY <2>1, <4>1, FS_Subset DEF TellHands, Each
    <3> QED BY <3>1, FS_EmptySet
  <2>3. Taken = Deck(g)
    <3>1. Range(table) \subseteq Taken
      BY LastIsTaken
    <3>2. \A q \in Seats : HandOf(g, q) \subseteq Taken
      BY <2>2, <3>1 DEF TellHands, Kept, Left
    <3> QED BY <3>2 DEF TellHands, Kept, Deck
  <2>4. Shared(total) = Before(g - 1) + GamePoints(g)
    BY <1>5, <2>1, <2>3, PointsAreWorth
  <2>5. g \in 1..Len(Games) /\ g # 0 /\ g <= Len(Games)
    <3>1. g \in 1..Len(Games) /\ Len(Games) \in Nat
      BY <1>3, GamesAssumption
    <3> QED BY <3>1
  <2>6. Before(g) = Before(g - 1) + GamePoints(g)
    <3>1. g - 1 \in Nat /\ (g - 1) + 1 = g
      BY <2>5
    <3> QED BY <1>3, <3>1, BeforeIs
  <2> QED BY <1>4, <1>6, <1>8, <2>4, <2>5, <2>6 DEF EndPoints
<1> QED BY <1>7, <1>8

LEMMA EndPointsKept ==
  ASSUME Types, NEW g \in Nat, EndRound(g), EndPoints(g),
         NEW p \in Seats, Join(p) \/ TrickDone(p) \/ Score(p)
  PROVE  EndPoints(g)'
<1>0. Acts(p) /\ ~over
  BY DEF Acts, Thread, Join, TrickDone, Score, At
<1>1. ~Known(p)
  BY DEF Known, Join, TrickDone, Score, At
<1>2. total' = total /\ (~Score(p) => \A q \in Seats : told'[q].total = told[q].total)
  BY <1>0, <1>1, TotalsKept
<1>3. \A q \in Seats \ {p} : th'[q] = th[q] /\ told'[q] = told[q]
  BY <1>0, OthersKept DEF Acts
<1>4. EndThread(p, g)
  BY DEF EndRound
<1>5. StartTold' /\ (g = 0 => AllTold')
  <2>1. CASE Join(p)
    <3>1. g = 0 /\ ~Score(p)
      BY <1>4, <2>1 DEF Join, Score, At, EndThread
    <3> QED BY <1>2, <3>1 DEF EndPoints, AllTold, StartTold
  <2>2. CASE TrickDone(p)
    <3>1. th[p].pc = "done" /\ ~Score(p) /\ ~Join(p) /\ g # 0
      BY <1>4, <2>2 DEF TrickDone, Score, Join, At, EndThread
    <3>2. th'[p].pc # "start"
      BY <1>0, <3>1, StartOnly
    <3> QED BY <1>2, <1>3, <3>1, <3>2 DEF EndPoints, StartTold
  <2>3. CASE Score(p)
    <3>1. g # 0
      BY <1>4, <2>3 DEF Score, At, EndThread
    <3>2. told'[p].total = total
      <4>1. told \in [Seats -> [trick : Messages, total : Points]]
        BY DEF Types, GameTypes
      <4>2. told' = [told EXCEPT ![p].total = total]
        BY <2>3 DEF Score
      <4> QED BY <4>1, <4>2
    <3> QED BY <1>2, <1>3, <3>1, <3>2 DEF EndPoints, StartTold
  <2> QED BY <2>1, <2>2, <2>3
<1> QED BY <1>2, <1>5 DEF EndPoints
-----------------------------------------------------------------------------
(* The stages of a run whose threads stay in step                          *)

OverStage == over /\ (\A p \in Seats : th[p].pc \in {"start", "deal"}) /\ OverPoints

CardStage(g, d) ==
  CardRound(g, d) /\ DoneTold(first_seat) /\ CardHands(g, d) /\ CardPoints(g, d)

KnownStage(g, d) == KnownRound(g, d) /\ KnownHands(g, d) /\ KnownPoints(g, d)

TellStage(g, d, first, n) ==
  /\ TellRound(g, d, first, n)
  /\ TakenNow(d, get_loser(table, first)) /\ DoneTold(get_loser(table, first))
  /\ TellHands(g, d, first) /\ TellPoints(g, d, first)

EndStage(g) == EndRound(g) /\ DoneTold(first_seat) /\ EndHands(g) /\ EndPoints(g)

TrickStages(g, d) ==
  \/ CardStage(g, d) \/ KnownStage(g, d)
  \/ \E first \in Seats, n \in Seats : TellStage(g, d, first, n)

Stages ==
  \/ OverStage
  \/ \E g \in Nat : EndStage(g) \/ \E d \in Nat : TrickStages(g, d)

LEMMA CardStep ==
  ASSUME Types, Types', NEW g \in Nat, NEW d \in Nat, CardStage(g, d),
         NEW p \in Seats, Acts(p), smooth'
  PROVE  CardStage(g, d)' \/ KnownStage(g, d)' \/ OverStage'
<1> USE DEF CardStage
<1>0. th[p].pc \in {"out", "start", "deal", "done", "turn", "sleep", "card", "wake", "played"}
  BY CardPlaces
<1>1. ~Tell(p) /\ (Thread(p) \/ Leave(p) \/ LeaveTell(p))
  BY <1>0 DEF Tell, At, Acts
<1>2. DoneTold(first_seat)'
  <2>1. CASE first_seat' = first_seat
    BY <1>1, <2>1, DoneToldKept
  <2>2. CASE first_seat' # first_seat
    <3>1. Deal(p) /\ loaded # g
      <4>1. Deal(p) /\ loaded < th[p].gid
        BY <1>0, <2>2, ActsAt, ThreadIs DEF Join, Start, Deal, Turn, WakeUp, PlayCard, WakeNext,
                                 Played, TrickDone, Leave, game
      <4>2. th[p].gid = g
        BY <4>1 DEF Deal, At, CardRound, CardThread
      <4> QED BY <4>1, <4>2, ThreadIs
    <3>2. \A q \in Seats : th[q].pc # "done"
      BY <3>1 DEF CardRound, GameKnown
    <3>3. \A q \in Seats : th'[q].pc # "done"
      BY <1>1, <3>2, OthersKept
    <3> QED BY <3>3 DEF DoneTold
  <2> QED BY <2>1, <2>2
<1>3. ASSUME th[p].pc # "deal" PROVE CardPoints(g, d)' /\ (loaded = g => KnownPoints(g, d)')
  <2>1. UNCHANGED <<loaded, taken>>
    BY <1>0, <1>3, ActsAt DEF Join, Start, Turn, WakeUp, PlayCard, WakeNext, Played, TrickDone,
                             Leave, game
  <2> QED BY <2>1, CardPointsKept
<1>4. ASSUME \/ Join(p) \/ Start(p) \/ Turn(p) \/ WakeUp(p) \/ PlayCard(p) \/ WakeNext(p)
             \/ TrickDone(p)
             \/ Leave(p) /\ th[p].pc = "card"
      PROVE  CardPoints(g, d)' /\ (loaded = g => KnownPoints(g, d)')
  BY <1>3, <1>4 DEF Join, Start, Turn, WakeUp, PlayCard, WakeNext, TrickDone, At
<1>5. CASE Join(p)
  <2>1. th[p].pc = "out" /\ th'[p].pc \in {"start", "deal"} /\ \A q \in Seats \ {p} : th'[q] = th[q]
    <3> DEFINE r == [Gone EXCEPT !.gid = current_game,
                                 !.pc = IF state[p] = "BEFORE_DRAW" THEN "start" ELSE "deal"]
    <3>1. Step(p, r) /\ th[p].pc = "out"
      BY <1>5 DEF Join, At
    <3>2. r.pc \in {"start", "deal"}
      BY DEF Gone
    <3> HIDE DEF r
    <3> QED BY <3>1, <3>2, Moves
  <2>2. UNCHANGED <<game, taken, held, current_player>>
    BY <1>5 DEF Join, sync
  <2>3. CardHands(g, d)'
    BY <2>1, <2>2, CardHandsQuiet
  <2> QED BY <1>2, <1>5, <1>4, <2>3, JoinCard
<1>6. CASE Start(p)
  <2>1. th[p].pc = "start" /\ th'[p].pc = "deal" /\ \A q \in Seats \ {p} : th'[q] = th[q]
    BY <1>6, MovesTo DEF Start, At
  <2>2. UNCHANGED <<game, taken, held, current_player>>
    BY <1>6 DEF Start, sync
  <2>3. CardHands(g, d)'
    BY <2>1, <2>2, CardHandsQuiet
  <2> QED BY <1>2, <1>6, <1>4, <2>3, StartCard
<1>7. CASE Deal(p)
  BY <1>2, <1>7, DealCard, DealHands, DealPoints DEF OverStage
<1>8. CASE Turn(p)
  BY <1>2, <1>8, <1>4, TurnCard, TurnHands
<1>9. CASE WakeUp(p)
  <2>1. th[p].pc = "sleep" /\ th'[p].pc = "card" /\ \A q \in Seats \ {p} : th'[q] = th[q]
    BY <1>9, MovesTo DEF WakeUp, At
  <2>2. current_player' = current_player
    <3>1. sem[p] > 0 /\ current_player' = th[p].player /\ CardThread(p, g, d)
      BY <1>9 DEF WakeUp, Sleeps, CardRound
    <3>2. Place(p, first_seat) = current_player /\ th[p].player = Place(p, first_seat)
      BY <2>1, <3>1 DEF CardThread, InTurn, Coming, Asked, Answered
    <3> QED BY <3>1, <3>2
  <2>3. UNCHANGED <<game, taken, held>>
    BY <1>9 DEF WakeUp
  <2>4. CardHands(g, d)'
    BY <2>1, <2>2, <2>3, CardHandsQuiet
  <2> QED BY <1>2, <1>9, <1>4, <2>4, WakeUpCard
<1>10. CASE PlayCard(p)
  <2>1. loaded = g
    BY <1>10 DEF PlayCard, At, CardRound, GameKnown
  <2> QED BY <1>2, <1>10, <1>4, <2>1, PlayCardCard, PlayCardLast, PlayCardHands DEF KnownStage
<1>11. CASE TrickDone(p)
  <2>1. th[p].pc = "done" /\ th'[p].pc \in {"turn", "score"} /\ \A q \in Seats \ {p} : th'[q] = th[q]
    <3> DEFINE r == IF th[p].draw + 1 < Tricks THEN [th[p] EXCEPT !.pc = "turn", !.draw = @ + 1]
                    ELSE [th[p] EXCEPT !.pc = "score"]
    <3>1. r.pc \in {"turn", "score"}
      BY ThreadIs DEF Threads
    <3>2. Step(p, r) /\ th[p].pc = "done"
      BY <1>11 DEF TrickDone, At
    <3> HIDE DEF r
    <3> QED BY <3>1, <3>2, Moves
  <2>2. UNCHANGED <<game, taken, held, current_player>>
    BY <1>11 DEF TrickDone, sync
  <2>3. CardHands(g, d)'
    BY <2>1, <2>2, CardHandsQuiet
  <2> QED BY <1>2, <1>11, <1>4, <2>3, TrickDoneCard
<1>12. CASE Leave(p) /\ th[p].pc = "card"
  <2>1. th'[p].pc = "out" /\ \A q \in Seats \ {p} : th'[q] = th[q]
    BY <1>12, Moves DEF Leave, Gone
  <2>2. UNCHANGED <<game, taken, held, current_player>>
    BY <1>12 DEF Leave, sync
  <2>3. CardHands(g, d)'
    BY <1>12, <2>1, <2>2, CardHandsQuiet
  <2> QED BY <1>2, <1>12, <1>4, <2>3, LeaveCard
<1>14. CASE WakeNext(p)
  <2>1. th[p].pc = "wake" /\ th'[p].pc = "played" /\ \A q \in Seats \ {p} : th'[q] = th[q]
    BY <1>14, MovesTo DEF WakeNext, At
  <2>2. UNCHANGED <<game, taken, held, current_player>>
    BY <1>14 DEF WakeNext, sync
  <2>3. CardHands(g, d)'
    BY <2>1, <2>2, CardHandsQuiet
  <2> QED BY <1>2, <1>14, <1>4, <2>3, WakeNextCard
<1>13. ~Played(p)
  BY PlayedWaits
<1> QED BY <1>0, <1>14, <1>5, <1>6, <1>7, <1>8, <1>9, <1>10, <1>11, <1>12, <1>13, ActsAt

LEMMA KnownStep ==
  ASSUME Types, NEW g \in Nat, NEW d \in Nat, KnownStage(g, d), NEW p \in Seats, Acts(p), smooth'
  PROVE  KnownStage(g, d)' \/ TellStage(g, d, first_seat, 0)'
<1> USE DEF KnownStage
<1>1. Played(p)
  BY KnownPlaces, KnownWaits, ActsAt
<1>2. KnownHands(g, d)' /\ TellHands(g, d, first_seat)'
  BY <1>1, PlayedHands
<1>3. ASSUME TellRound(g, d, first_seat, 0)' PROVE TellStage(g, d, first_seat, 0)'
  <2>1. \A q \in Seats : th'[q].pc = "known"
    <3>1. th'[p].pc = "known" /\ \A q \in Seats \ {p} : th'[q] = th[q]
      <4> DEFINE r == [th[p] EXCEPT !.pc = "known", !.loser = get_loser(table, first_seat),
                                    !.next = (th[p].player + 1 + first_seat) % 4]
      <4>1. Step(p, r)
        BY <1>1 DEF Played
      <4>2. r.pc = "known"
        BY ThreadIs DEF Threads
      <4> HIDE DEF r
      <4> QED BY <4>1, <4>2, Moves
    <3>2. \A q \in Seats : th'[q].pc \in {"known", "sleepTell", "tell", "done"}
      BY <1>3 DEF TellRound, TellThread, TellTurn
    <3> QED BY <3>1, <3>2, KnownPlaces
  <2>2. TellPoints(g, d, first_seat)'
    <3>1. PICK first \in Seats : first = first_seat
      BY DEF Types, GameTypes
    <3>2. first_seat' = first
      BY <1>1, <3>1 DEF Played, game
    <3> QED BY <1>1, <2>1, <3>1, <3>2, PlayedPoints
  <2> QED BY <1>3, <1>2, <2>1, <2>2 DEF TellStage, DoneTold, TakenNow
<1>4. KnownPoints(g, d)'
  BY <1>1, PlayedPoints
<1> QED BY <1>1, <1>3, <1>2, <1>4, PlayedKnown

LEMMA TellStep ==
  ASSUME Types, NEW g \in Nat, NEW d \in Nat, NEW first \in Seats, NEW n \in Seats,
         TellStage(g, d, first, n), NEW p \in Seats, Acts(p), smooth'
  PROVE  \/ TellStage(g, d, first, n)'
         \/ n + 1 \in Seats /\ TellStage(g, d, first, n + 1)'
         \/ CardStage(g, d + 1)' \/ EndStage(g)'
<1> USE DEF TellStage
<1>0. PICK loser : loser = get_loser(table, first)
  OBVIOUS
<1>1. Known(p) \/ WakeUpTell(p) \/ Tell(p)
  BY TellPlaces, DoneWaits, ActsAt
<1>2. CASE Known(p)
  <2>1. TakenNow(d, loser)'
    BY <1>0, <1>2, KnownTold
  <2>2. DoneTold(loser)'
    BY <1>0, <1>2, DoneToldKept DEF Acts, Known, At, Tell
  <2>3. table' = table
    BY <1>2 DEF Known
  <2> QED BY <1>0, <1>2, <2>1, <2>2, <2>3, KnownTell, KnownTakes, KnownGives
<1>3. CASE WakeUpTell(p)
  <2>1. TakenNow(d, loser)'
    BY <1>0, <1>3, WakeUpTellTold
  <2>2. DoneTold(loser)'
    BY <1>0, <1>3, DoneToldKept DEF Acts, WakeUpTell, At, Tell
  <2>3. table' = table
    BY <1>3 DEF WakeUpTell, game
  <2> QED BY <1>0, <1>3, <2>1, <2>2, <2>3, WakeUpTellTell, WakeUpTellHands,
            TellPointsKept
<1>4. CASE Tell(p)
  <2>1. /\ DoneTold(loser)' /\ TakenNow(d, loser)'
        /\ taken # <<>> /\ Last(taken) = Message(d, table, loser)
    BY <1>0, <1>4, TellTold
  <2>2. table' = table /\ first_seat' = first_seat
    BY <1>4 DEF Tell, game
  <2>3. CASE th[p].player < 3
    BY <1>0, <1>4, <2>1, <2>2, <2>3, TellNext, TellsHands, TellPointsKept
  <2>4. CASE ~(th[p].player < 3)
    BY <1>0, <1>4, <2>1, <2>2, <2>4, TellLast, TellLastHands, TellLastPoints
       DEF CardStage, EndStage
  <2> QED BY <2>3, <2>4
<1> QED BY <1>1, <1>2, <1>3, <1>4

LEMMA EndStep ==
  ASSUME Types, Types', NEW g \in Nat, EndStage(g), NEW p \in Seats, Acts(p), smooth'
  PROVE  EndStage(g)' \/ CardStage(g + 1, 0)'
<1> USE DEF EndStage
<1>1. Join(p) \/ TrickDone(p) \/ Score(p)
  BY EndPlaces, StartWaits, ActsAt
<1>2. first_seat' = first_seat
  BY <1>1 DEF Join, TrickDone, Score, game
<1>3. DoneTold(first_seat)'
  BY <1>1, <1>2, DoneToldKept DEF Acts, Tell, At, Join, TrickDone, Score
<1>4. EndHands(g)'
  BY <1>1, EndHandsKept
<1>5. EndPoints(g)'
  BY <1>1, EndPointsKept
<1>6. ASSUME NextGame(g)' PROVE CardStage(g + 1, 0)'
  <2>1. th'[0].pc = "start" /\ loaded' = g /\ CardRound(g + 1, 0)'
    BY <1>6, SeatIsNat DEF NextGame
  <2>2. CardHands(g + 1, 0)'
    BY <1>4, <2>1 DEF CardHands, EndHands
  <2>3. CardPoints(g + 1, 0)'
    <3>1. loaded' = g /\ g # g + 1 /\ \A q \in Seats : th'[q].pc = "start"
      BY <1>6 DEF NextGame
    <3> QED BY <1>5, <3>1 DEF EndPoints, CardPoints, StartTold, AllTold
  <2> QED BY <1>3, <2>1, <2>2, <2>3 DEF CardStage
<1> QED BY <1>1, <1>3, <1>4, <1>6, <1>5, JoinEnd, TrickDoneEnd, ScoreEnd

IInv == Types /\ (smooth => Stages)

LEMMA StagesInit == Init => IInv
<1> SUFFICES ASSUME Init PROVE Stages
  BY TypesInit DEF IInv
<1>1. th = [p \in Seats |-> Gone]
  BY DEF Init
<1>2. \A p \in Seats : th[p].pc = "out"
  BY <1>1 DEF Gone
<1>3. EndStage(0)
  <2>1. Count("start") = 0
    BY <1>2 DEF Count, Seats
  <2>2. \A p \in Seats : EndThread(p, 0)
    BY <1>2, <2>1 DEF Init, EndThread
  <2>3. EndPoints(0)
    <3>1. total = [p \in Seats |-> 0] /\ \A p \in Seats : told[p].total = total
      BY DEF Init
    <3>2. Shared(total) = 0
      <4>1. total \in [Seats -> Nat]
        BY <3>1
      <4>2. Shared(total) = total[0] + total[1] + total[2] + total[3]
        BY <4>1, SharedSum
      <4>3. 0 \in Seats /\ 1 \in Seats /\ 2 \in Seats /\ 3 \in Seats
        BY DEF Seats
      <4> QED BY <3>1, <4>2, <4>3
    <3>3. 0 <= Len(Games)
      BY GamesAssumption
    <3> QED BY <1>2, <3>1, <3>2, <3>3, BeforeIs DEF EndPoints, StartTold, AllTold
  <2> QED BY <1>2, <2>2, <2>3 DEF EndStage, EndRound, EndHands, DoneTold, Init, Seats
<1> QED BY <1>3 DEF Stages

LEMMA SmoothBefore == [Next]_vars /\ Types /\ smooth' => smooth
<1> SUFFICES ASSUME [Next]_vars, Types, smooth', ~smooth PROVE FALSE
  BY DEF Types, ThreadTypes
<1>1. CASE UNCHANGED vars
  BY <1>1 DEF vars
<1>2. ASSUME NEW p \in Seats, Acts(p) PROVE FALSE
  <2>1. CASE Leave(p)
    <3>1. smooth' = (smooth /\ th[p].pc = "card")
      BY <2>1, Zenon DEF Leave
    <3> QED BY <3>1
  <2>2. CASE Turn(p)
    <3> DEFINE quiet == (4 + p - first_seat) % 4 > current_player \/ ~Called(p)
    <3>1. smooth' = (smooth /\ quiet)
      BY <2>2, Zenon DEF Turn
    <3> HIDE DEF quiet
    <3> QED BY <3>1
  <2>3. CASE LeaveTell(p)
    <3>1. smooth' = FALSE
      BY <2>3, Zenon DEF LeaveTell
    <3> QED BY <3>1
  <2>4. CASE Thread(p) /\ ~Turn(p)
    <3>1. smooth' = smooth
      BY <2>4, Zenon DEF Thread, Join, Start, Deal, WakeUp, PlayCard, WakeNext, Played, Known,
                         WakeUpTell, Tell, TrickDone, Score
    <3> QED BY <3>1
  <2> QED BY <1>2, <2>1, <2>2, <2>3, <2>4 DEF Acts
<1> QED BY <1>1, <1>2 DEF Next, Terminated, Acts

LEMMA StagesStep ==
  ASSUME IInv, [Next]_vars
  PROVE  IInv'
<1>1. Types /\ Types'
  BY TypesStep DEF IInv
<1> SUFFICES ASSUME smooth' PROVE Stages'
  BY <1>1 DEF IInv
<1>2. Stages
  BY <1>1, SmoothBefore DEF IInv
<1>3. CASE UNCHANGED vars
  <2> USE <1>3 DEF vars, sync, game
  <2>1. ASSUME NEW place PROVE Count(place)' = Count(place)
    BY DEF Count
  <2>2. ASSUME NEW loser PROVE DoneTold(loser)' <=> DoneTold(loser)
    BY DEF DoneTold, ToldOf
  <2>3. ASSUME NEW g, NEW d PROVE CardRound(g, d) => CardRound(g, d)'
    BY DEF CardRound, DrawKnown, GameKnown, OnTable, CardThread, Ready, InTurn, Coming, Asked, Answered,
           Waking
  <2>4. ASSUME NEW g, NEW d PROVE KnownRound(g, d) => KnownRound(g, d)'
    BY <2>1 DEF KnownRound, KnownThread, OnTable, Playing
  <2>5. ASSUME NEW g, NEW d, NEW first, NEW n
        PROVE  TellRound(g, d, first, n) => TellRound(g, d, first, n)'
    BY DEF TellRound, TellThread, TellTurn, OnTable, Playing
  <2>6. ASSUME NEW g PROVE EndRound(g) => EndRound(g)'
    BY <2>1 DEF EndRound, EndThread
  <2>7. ASSUME NEW d, NEW loser PROVE TakenNow(d, loser) => TakenNow(d, loser)'
    BY DEF TakenNow
  <2>8. ASSUME NEW g, NEW d, NEW first
        PROVE  /\ CardHands(g, d) => CardHands(g, d)'
               /\ KnownHands(g, d) => KnownHands(g, d)'
               /\ TellHands(g, d, first) => TellHands(g, d, first)'
               /\ EndHands(g) => EndHands(g)'
    BY DEF CardHands, KnownHands, TellHands, EndHands, Kept, Left, HandKnown, Taken, Dealt, Fresh,
           OldTable, Each, Played1
  <2>9. Shared(total)' = Shared(total) /\ Taken' = Taken
    BY DEF Taken
  <2>10. ASSUME NEW g, NEW d, NEW first
         PROVE  /\ CardPoints(g, d) => CardPoints(g, d)'
                /\ KnownPoints(g, d) => KnownPoints(g, d)'
                /\ TellPoints(g, d, first) => TellPoints(g, d, first)'
                /\ EndPoints(g) => EndPoints(g)'
                /\ OverPoints => OverPoints'
    BY <2>9 DEF CardPoints, KnownPoints, TellPoints, EndPoints, OverPoints, StartTold, AllTold
  <2>11. CASE OverStage
    BY <2>11, <2>10 DEF OverStage, Stages
  <2>12. ASSUME NEW g \in Nat, EndStage(g) PROVE Stages'
    BY <2>2, <2>6, <2>8, <2>12, <2>10 DEF EndStage, Stages
  <2>13. ASSUME NEW g \in Nat, NEW d \in Nat, CardStage(g, d) PROVE Stages'
    BY <2>2, <2>3, <2>8, <2>13, <2>10 DEF CardStage, Stages, TrickStages
  <2>14. ASSUME NEW g \in Nat, NEW d \in Nat, KnownStage(g, d) PROVE Stages'
    BY <2>4, <2>8, <2>14, <2>10 DEF KnownStage, Stages, TrickStages
  <2>15. ASSUME NEW g \in Nat, NEW d \in Nat, NEW first \in Seats, NEW n \in Seats,
                TellStage(g, d, first, n)
         PROVE  Stages'
    BY <2>2, <2>5, <2>7, <2>8, <2>15, <2>10 DEF TellStage, Stages, TrickStages
  <2> QED BY <1>2, <2>12, <2>13, <2>14, <2>15, <2>11 DEF Stages, TrickStages
<1>4. ASSUME NEW p \in Seats, Acts(p) PROVE Stages'
  <2> USE <1>1, <1>4
  <2>1. ~OverStage
    BY ActsAt DEF OverStage
  <2>2. ASSUME NEW g \in Nat, EndStage(g) PROVE Stages'
    <3>1. g + 1 \in Nat /\ 0 \in Nat
      OBVIOUS
    <3> QED BY <2>2, <3>1, EndStep DEF Stages, TrickStages
  <2>3. ASSUME NEW g \in Nat, NEW d \in Nat, CardStage(g, d) PROVE Stages'
    BY <2>3, CardStep DEF Stages, TrickStages
  <2>4. ASSUME NEW g \in Nat, NEW d \in Nat, KnownStage(g, d) PROVE Stages'
    <3>1. PICK first \in Seats : first = first_seat'
      BY DEF Types, GameTypes
    <3>2. 0 \in Seats
      BY SeatIsNat
    <3>3. KnownStage(g, d)' \/ TellStage(g, d, first, 0)'
      BY <2>4, <3>1, KnownStep
    <3> QED BY <3>2, <3>3 DEF Stages, TrickStages
  <2>5. ASSUME NEW g \in Nat, NEW d \in Nat, NEW first \in Seats, NEW n \in Seats,
               TellStage(g, d, first, n)
        PROVE  Stages'
    <3>1. d + 1 \in Nat
      OBVIOUS
    <3> QED BY <2>5, <3>1, TellStep DEF Stages, TrickStages
  <2> QED BY <1>2, <2>1, <2>2, <2>3, <2>4, <2>5 DEF Stages, TrickStages
<1> QED BY <1>3, <1>4 DEF Next, Terminated, Acts

\* The threads that stay in step are in one of the stages.
THEOREM Invariance == Spec => []IInv
<1>1. IInv /\ [Next]_vars => IInv'
  BY StagesStep
<1> QED BY <1>1, StagesInit, PTL DEF Spec
-----------------------------------------------------------------------------
(* The properties                                                          *)

\* What a player is told of a trick is right: four threads compute the loser while
\* one of them writes first_seat, which they read (server.cpp, lines 115-152).
THEOREM ToldRight == Spec => []TakenRight
<1>1. IInv => TakenRight
  <2> SUFFICES ASSUME Types, Stages, NEW p \in Seats, th[p].pc = "done"
               PROVE  \E loser \in Seats : ToldOf(p, loser) /\ (bytes[p] >= 4 => first_seat = loser)
    BY DEF IInv, TakenRight, InStep, ToldOf
  <2>1. first_seat \in Seats
    BY DEF Types, GameTypes
  <2>2. CASE \E g \in Nat : EndStage(g)
    BY <2>1, <2>2 DEF EndStage, DoneTold
  <2>3. CASE \E g \in Nat, d \in Nat : CardStage(g, d)
    BY <2>1, <2>3 DEF CardStage, DoneTold
  <2>4. ASSUME NEW g \in Nat, NEW d \in Nat, NEW first \in Seats, NEW n \in Seats,
               TellStage(g, d, first, n)
        PROVE  \E loser \in Seats : ToldOf(p, loser) /\ (bytes[p] >= 4 => first_seat = loser)
    <3>1. bytes[p] = n
      BY <2>4 DEF TellStage, TellRound, TellThread, Seats
    <3>2. ~(bytes[p] >= 4)
      BY <3>1 DEF Seats
    <3>3. ToldOf(p, get_loser(table, first)) /\ get_loser(table, first) \in Seats
      BY <2>4, LoserType DEF TellStage, DoneTold
    <3> QED BY <3>2, <3>3
  <2>5. ~OverStage /\ \A g \in Nat, d \in Nat : ~KnownStage(g, d)
    BY KnownPlaces DEF OverStage, KnownStage
  <2> QED BY <2>2, <2>3, <2>4, <2>5 DEF Stages, TrickStages
<1> QED BY <1>1, Invariance, PTL

\* A card that the automatic player may choose follows the suit led, if it can.
LEMMA ChoiceAllowed ==
  ASSUME NEW cards, NEW hand, cards[0] = table[0], NEW c \in AutoPlay(cards, hand)
  PROVE  Allowed(c, hand)
<1> SUFFICES ASSUME table[0] # NoCard
             PROVE  c.suit = table[0].suit \/ \A x \in hand : x.suit # table[0].suit
  BY DEF Allowed
<1> DEFINE top == cards[Best(cards)]
           suited == {x \in hand : x.suit = top.suit}
           below == {x \in suited : x.rank < top.rank}
<1>1. top.suit = table[0].suit
  BY BestLeads
<1>2. \/ below # {} /\ AutoPlay(cards, hand) = Highest(below)
      \/ below = {} /\ suited # {} /\ AutoPlay(cards, hand) = Highest(suited)
      \/ suited = {}
  BY DEF AutoPlay
<1> HIDE DEF top
<1>3. CASE below # {} /\ AutoPlay(cards, hand) = Highest(below)
  BY <1>1, <1>3 DEF Highest
<1>4. CASE suited # {} /\ AutoPlay(cards, hand) = Highest(suited)
  BY <1>1, <1>4 DEF Highest
<1>5. CASE suited = {}
  BY <1>1, <1>5
<1> QED BY <1>2, <1>3, <1>4, <1>5

\* Whoever is asked for a card can answer: its client knows its hand, also after it
\* went away and came back, and whatever it chooses is accepted (kierki-klient.cpp,
\* lines 182-229).
THEOREM AutoPlaysOn == Spec => []AutoPlays
<1>1. IInv => AutoPlays
  <2> SUFFICES ASSUME Types, Stages, NEW p \in Seats, th[p].pc = "card"
               PROVE  /\ held[p] = hands[p]
                      /\ \A junk \in {NoCard} \cup UNION {hands[q] : q \in Seats} :
                           LET read == [i \in Seats |-> IF i > th[p].player THEN junk ELSE table[i]]
                           IN \A c \in AutoPlay(read, held[p]) : Allowed(c, hands[p])
    BY DEF IInv, AutoPlays, InStep
  <2>1. PICK g \in Nat, d \in Nat : CardRound(g, d) /\ CardHands(g, d)
    BY KnownPlaces, TellPlaces, EndPlaces
       DEF Stages, TrickStages, OverStage, EndStage, CardStage, KnownStage, TellStage
  <2>2. loaded = g
    BY <2>1 DEF CardRound, CardThread, InTurn, Coming, Asked, Answered
  <2>3. held[p] = hands[p]
    BY <2>1, <2>2 DEF CardHands, Kept, HandKnown
  <2>4. ASSUME NEW junk,
               NEW c \in AutoPlay([i \in Seats |-> IF i > th[p].player THEN junk ELSE table[i]],
                                  held[p])
        PROVE  Allowed(c, hands[p])
    <3> DEFINE read == [i \in Seats |-> IF i > th[p].player THEN junk ELSE table[i]]
    <3>1. read[0] = table[0]
      BY ThreadIs DEF Seats
    <3>2. c \in AutoPlay(read, hands[p])
      BY <2>3, <2>4
    <3> HIDE DEF read
    <3> QED BY <3>1, <3>2, ChoiceAllowed
  <2> QED BY <2>3, <2>4
<1> QED BY <1>1, Invariance, PTL

\* When a game has ended everybody has been told the same points, and they are the
\* points of the games played: no trick is counted twice or lost, and the program
\* does not end before everybody has the last one (server.cpp, lines 119-123 and
\* 156-167).
THEOREM TotalsAddUp == Spec => []TotalsRight
<1>1. IInv => TotalsRight
  <2> SUFFICES ASSUME Types, Stages, NEW p \in Seats, (th[p].pc = "start" /\ th[p].gid > 1) \/ over
               PROVE  /\ told[p].total = total
                      /\ Shared(total) = Before(IF over THEN Len(Games) ELSE th[p].gid - 1)
    BY DEF IInv, TotalsRight, InStep, Before
  <2>1. CASE OverStage
    BY <2>1 DEF OverStage, OverPoints, AllTold
  <2>2. ASSUME NEW g \in Nat, EndStage(g)
        PROVE  /\ told[p].total = total
               /\ Shared(total) = Before(IF over THEN Len(Games) ELSE th[p].gid - 1)
    <3>1. ~over /\ th[p].pc = "start" /\ EndThread(p, g)
      BY <2>2 DEF EndStage, EndRound
    <3>2. th[p].gid = g + 1 /\ th[p].gid - 1 = g
      BY <3>1 DEF EndThread
    <3> QED BY <2>2, <3>1, <3>2 DEF EndStage, EndPoints, StartTold
  <2>3. ASSUME NEW g \in Nat, NEW d \in Nat, CardStage(g, d)
        PROVE  /\ told[p].total = total
               /\ Shared(total) = Before(IF over THEN Len(Games) ELSE th[p].gid - 1)
    <3>1. ~over /\ th[p].pc = "start" /\ CardThread(p, g, d)
      BY <2>3 DEF CardStage, CardRound
    <3>2. th[p].gid = g /\ d = 0
      BY <3>1 DEF CardThread, InTurn, Coming, Asked, Answered
    <3>3. told[p].total = total
      BY <2>3, <3>1 DEF CardStage, CardPoints, StartTold
    <3>4. CASE loaded = g
      <4>1. Taken = {}
        BY <2>3, <3>2 DEF CardStage, CardHands, Taken
      <4>2. Shared(total) = Before(g - 1) + Worth(g, Taken, d)
        BY <2>3, <3>4 DEF CardStage, CardPoints
      <4>3. Before(g - 1) \in Nat
        <5>1. g \in DOMAIN Games
          BY <2>3, <3>4 DEF CardStage, CardRound, GameKnown
        <5>2. g \in 1..Len(Games)
          BY <5>1, GamesAssumption
        <5>3. g - 1 \in Nat /\ (g - 1) + 1 = g
          BY <5>2
        <5> QED BY <5>1, <5>3, BeforeIs
      <4>4. Shared(total) = Before(g - 1)
        BY <3>2, <4>1, <4>2, <4>3, WorthNone
      <4> QED BY <3>1, <3>2, <3>3, <4>4
    <3>5. CASE loaded # g
      <4>1. loaded + 1 = g /\ Shared(total) = Before(loaded)
        BY <2>3, <3>5 DEF CardStage, CardPoints
      <4>2. loaded = g - 1
        BY <4>1 DEF Types, GameTypes
      <4> QED BY <3>1, <3>2, <3>3, <4>1, <4>2
    <3> QED BY <3>4, <3>5
  <2>4. \A g \in Nat, d \in Nat : ~KnownStage(g, d)
    BY KnownPlaces DEF KnownStage, KnownRound
  <2>5. \A g \in Nat, d \in Nat, first \in Seats, n \in Seats : ~TellStage(g, d, first, n)
    BY TellPlaces DEF TellStage, TellRound
  <2> QED BY <2>1, <2>2, <2>3, <2>4, <2>5 DEF Stages, TrickStages
<1> QED BY <1>1, Invariance, PTL
====
