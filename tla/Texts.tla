-------------------------------- MODULE Texts --------------------------------
(***************************************************************************)
(* The lines of the card game (SIK/projekt2) as the server writes them and  *)
(* the client reads them, and the answers the other way.  A text is a       *)
(* sequence of characters; they matter here because nothing stands between  *)
(* the number of a trick and the cards: TRICK110C is trick 1 and a ten.     *)
(***************************************************************************)
EXTENDS Integers, Sequences, SequencesExt

rank2str == <<"2", "3", "4", "5", "6", "7", "8", "9", "T", "J", "Q", "K", "A">>
suit2str == <<"C", "D", "H", "S">>
seat2int == <<"N", "E", "S", "W">>
Digit == <<"0", "1", "2", "3", "4", "5", "6", "7", "8", "9">>
CRLF == <<"\r", "\n">>

\* A card is a pair of a place in rank2str and one in suit2str; this one is none.
NoCard == <<0, 0>>

Place(s, c) == IF Contains(s, c) THEN CHOOSE i \in DOMAIN s : s[i] = c ELSE 0

Number[n \in Nat] == IF n < 10 THEN <<Digit[n + 1]>> ELSE Append(Number[n \div 10], Digit[(n % 10) + 1])

stoi(s) == FoldLeft(LAMBDA n, c : 10 * n + Place(Digit, c) - 1, 0, s)

Flat(texts) == FlattenSeq(texts)
-----------------------------------------------------------------------------
(* Cards: card.cpp *)

to_string(card) ==
  IF card = NoCard THEN <<>>
  ELSE (IF rank2str[card[1]] = "T" THEN <<"1", "0">> ELSE <<rank2str[card[1]]>>) \o <<suit2str[card[2]]>>

Cards(cards) == Flat([i \in DOMAIN cards |-> to_string(cards[i])])

\* operator>>: the card and what is left of the text.  At the end of the text the
\* characters are whatever was there: none is taken for a card here.
read_card(s) ==
  LET ten == s # <<>> /\ Head(s) = "1"
      rest == IF ten THEN Tail(s) ELSE s
      zero == rest # <<>> /\ Head(rest) = "0"
      rank == IF ten THEN "T" ELSE Head(rest)
      card == <<Place(rank2str, rank), Place(suit2str, rest[2])>>
      left(n) == SubSeq(rest, n, Len(rest))
  IN CASE rest = <<>> -> [card |-> NoCard, left |-> <<>>]
       [] ten /\ ~zero -> [card |-> NoCard, left |-> Tail(rest)]
       [] Len(rest) = 1 -> [card |-> NoCard, left |-> <<>>]
       [] OTHER -> [card |-> IF 0 \in {card[1], card[2]} THEN NoCard ELSE card, left |-> left(3)]

\* n cards read one after the other.
read_cards(s, n) ==
  FoldLeft(LAMBDA r, i : LET next == read_card(r.left)
                         IN [cards |-> Append(r.cards, next.card), left |-> next.left],
           [cards |-> <<>>, left |-> s], [i \in 1..n |-> i])
-----------------------------------------------------------------------------
(* The server's lines: server.cpp; the table has a place for each card of a trick *)

make_deal(rule, first, cards) == <<"D", "E", "A", "L", Digit[rule + 1], seat2int[first]>> \o Cards(cards) \o CRLF
make_trick(draw, table) == <<"T", "R", "I", "C", "K">> \o Number[draw] \o Cards(table) \o CRLF
make_taken(draw, table, loser) == <<"T", "A", "K", "E", "N">> \o Number[draw] \o Cards(table) \o <<seat2int[loser]>> \o CRLF
make_score(scores) ==
  <<"S", "C", "O", "R", "E">> \o Flat([i \in DOMAIN scores |-> <<seat2int[i]>> \o Number[scores[i]]]) \o CRLF

\* What stands behind the word at the beginning, and nothing for another line.
parseline(line, word) ==
  IF IsPrefix(word, line) /\ IsSuffix(CRLF, line) THEN SubSeq(line, Len(word) + 1, Len(line)) ELSE <<>>

\* handle_game: the card in an answer to the question of trick draw.
played_card(line, draw) == read_card(parseline(line, <<"T", "R", "I", "C", "K">> \o Number[draw])).card
-----------------------------------------------------------------------------
(* The client *)

\* The expression that finds the number of a trick that begins with 1: the longest
\* number behind which only cards are left, up to three on the table or all four.
IsCards(s, counts) ==
  \E n \in counts : LET r == read_cards(s, n) IN r.left = <<>> /\ ~Contains(r.cards, NoCard)

\* Fault: a second digit is taken whenever there is one.
get_trick1Greedy(s, counts) == IF Len(s) > 1 /\ s[2] \in {"0", "1", "2"} THEN SubSeq(s, 1, 2) ELSE <<"1">>

get_trick1(s, counts) ==
  IF Len(s) > 1 /\ s[2] \in {"0", "1", "2"} /\ IsCards(SubSeq(s, 3, Len(s)), counts)
  THEN SubSeq(s, 1, 2) ELSE <<"1">>

draw_str(s, counts) == IF Head(s) = "1" THEN get_trick1(s, counts) ELSE <<Head(s)>>

\* Trick::from_string.
read_trick(line) ==
  LET s == parseline(line, <<"T", "R", "I", "C", "K">>)
      draw == draw_str(SubSeq(s, 1, Len(s) - 2), 0..3)
  IN [draw |-> stoi(draw), table |-> read_cards(SubSeq(s, Len(draw) + 1, Len(s)), 4).cards]

\* Taken::from_string.
read_taken(line) ==
  LET s == SubSeq(line, 6, Len(line) - 3)
      draw == draw_str(s, {4})
  IN [draw |-> stoi(draw), table |-> read_cards(SubSeq(s, Len(draw) + 1, Len(s)), 4).cards,
      loser |-> Place(seat2int, line[Len(line) - 2])]

\* Deal.
read_deal(line) ==
  LET s == parseline(line, <<"D", "E", "A", "L">>)
  IN [rule |-> stoi(<<s[1]>>), first |-> Place(seat2int, s[2]),
      cards |-> read_cards(SubSeq(s, 3, Len(s)), 13).cards]

\* Scoring::from_string: a seat and digits, four times.
read_score(line) ==
  LET s == parseline(line, <<"S", "C", "O", "R", "E">>)
      step(r, c) == IF Contains(Digit, c) THEN [r EXCEPT ![Len(r)] = 10 * @ + Place(Digit, c) - 1]
                    ELSE IF Contains(seat2int, c) THEN Append(r, 0) ELSE r
  IN FoldLeft(step, <<>>, s)

\* HumanPlayer::parse_cmd: a card typed behind an exclamation mark.
parse_cmd(line) == IF line # <<>> /\ Head(line) = "!" THEN read_card(Tail(line)).card ELSE NoCard
answer(draw, card) == <<"T", "R", "I", "C", "K">> \o Number[draw] \o to_string(card) \o CRLF
-----------------------------------------------------------------------------
(* The file of games: gamefile.cpp and rules.cpp *)

\* operator>> of a rule: a character that is none ends the game file.
read_rule(s) == IF s # <<>> /\ Head(s) \in {"0", "1", "2", "3", "4", "5", "6", "7"} THEN stoi(<<Head(s)>>) ELSE 0

\* operator>> of a game: a line with the rule and the first seat, and a line of
\* cards for each seat.
read_game(s) ==
  LET rule == read_rule(s)
      hand(r, i) == LET h == read_cards(r.left, 13)
                    IN [hands |-> Append(r.hands, h.cards), left |-> SubSeq(h.left, 2, Len(h.left))]
  IN IF rule = 0 THEN [rule |-> 0]
     ELSE [rule |-> rule, first |-> Place(seat2int, s[2]),
           hands |-> FoldLeft(hand, [hands |-> <<>>, left |-> SubSeq(s, 4, Len(s))], <<1, 2, 3, 4>>).hands]

\* readline: at first all but one of the characters of the shortest line, then one
\* by one to the end of the line; a longer line than there can be is an error.
max_line_length == 51
readline(s, min_line_length) ==
  LET ends == {i \in DOMAIN s : s[i] = "\n" /\ i >= min_line_length}
      end == IF ends = {} THEN 0 ELSE CHOOSE i \in ends : \A j \in ends : i <= j
  IN CASE end = 0 /\ Len(s) < max_line_length -> "closed"
       [] end \in 1..max_line_length -> SubSeq(s, 1, end)
       [] OTHER -> "too long"
=============================================================================
