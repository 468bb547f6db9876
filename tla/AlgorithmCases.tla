---------------------------- MODULE AlgorithmCases ----------------------------
(***************************************************************************)
(* For each program of Contest, each kind of line of Texts and the packets  *)
(* of Frames, the inputs tried, all of a small size, and what the answer    *)
(* is, said without the program's way to it; and the inputs of which it is   *)
(* known that the program answers something else.                           *)
(***************************************************************************)
EXTENDS Contest, Texts, TLC

Wire == INSTANCE Frames

Rising(s) == \A i \in 1..Len(s) - 1 : s[i] <= s[i + 1]
Lists(S, n) == UNION {[1..m -> S] : m \in 1..n}
Orders(n) == {p \in [1..n -> 1..n] : \A i, j \in 1..n : i # j => p[i] # p[j]}
Fragments(n) == {f \in (1..n) \X (1..n) : f[1] <= f[2]}
Of(s, S) == Total(S, LAMBDA i : s[i])
Apart(f, g) == f[2] < g[1] \/ g[2] < f[1]

\* Requests of prz1 on 1..n: a group is entered when it is not there and left when
\* it is.
GroupsAfter(q) == FoldLeft(LAMBDA S, r : IF r.c = "+" THEN S \cup {<<r.l, r.r>>} ELSE S \ {<<r.l, r.r>>}, {}, q)
Registers(n, m) ==
  {q \in [1..m -> {[c |-> c, l |-> f[1], r |-> f[2]] :
                     c \in {"+", "-"}, f \in {g \in Fragments(n) : g[1] = 1 \/ g[2] = n}}] :
     \A i \in 1..m : q[i].c = "-" <=> <<q[i].l, q[i].r>> \in GroupsAfter(SubSeq(q, 1, i - 1))}

Programs ==
  {"modular", "gie", "mon", "odw", "per", "prz1", "playground_sor", "tro", "lin", "moz", "ptv",
   "baz", "kap", "kin", "lex", "mal", "mat", "mec", "prj", "sor",
   "vectorSum", "vectorDot", "isPrime", "sortowanie", "clean", "zad1",
   "TRICK", "TAKEN", "SCORE", "DEAL", "games", "answers", "readline", "stream", "datagram", "ppcat"}

\* Cards that the number of a trick may run into: a two, a ten and others.
SomeCards == {1, 2, 9, 13} \X {1}
Deck == (1..13) \X (1..4)
\* Thirteen cards of the deck, from one of them on.
Hand(from) == [i \in 1..13 |-> LET n == (from + 4 * i) % 52 IN <<(n \div 4) + 1, (n % 4) + 1>>]
Padded(table) == [i \in 1..4 |-> IF i \in DOMAIN table THEN table[i] ELSE NoCard]
Seat4(x) == [i \in 1..4 |-> IF i = 1 THEN x ELSE 7]
\* A line of a game file for each seat.
GameText(rule, first, from) ==
  <<Digit[rule + 1], seat2int[first], "\n">> \o Flat([i \in 1..4 |-> Append(Cards(Hand(from + i)), "\n")])
\* The lines a server may write one after the other, the longest among them.
LongScores == [i \in 1..4 |-> 1000000000]
Written == {make_score(LongScores), make_deal(1, 2, Hand(0)), make_trick(12, <<<<9, 1>>, <<9, 2>>>>),
            make_trick(0, <<>>), make_taken(1, [i \in 1..4 |-> <<i, 1>>], 3)}

\* Packets of each type, with numbers of one and of three bytes.
Packet(type) == [type |-> type, session_id |-> <<1, 2, 3, 4, 5, 6, 7, 4>>]
Packets ==
  {Packet(type) : type \in {2, 3, 7}}
    \cup {[conn_type |-> conn, length |-> 70000] @@ Packet(1) : conn \in 1..3}
    \cup {[packet_id |-> id] @@ Packet(type) : id \in {1, 66051}, type \in {5, 6}}
    \cup {[packet_id |-> id, data |-> data] @@ Packet(4) : id \in {1, 66051}, data \in {<<>>, <<5, 4>>}}
Size(p) == <<18, 9, 9, 21, 17, 17, 9>>[p.type] + (IF p.type = 4 THEN Len(p.data) ELSE 0)
Encoded(p) == Wire!hton_packet(Wire!Struct(p))
\* A datagram with a byte missing, or one too much, or its first byte or the protocol of
\* a CONN another one, which may be as good.
Damaged(p) ==
  {Front(Encoded(p)), Append(Encoded(p), 0)} \cup {[Encoded(p) EXCEPT ![1] = type] : type \in 0..8}
    \cup {[Encoded(p) EXCEPT ![10] = conn] : conn \in IF p.type = 1 THEN 0..4 ELSE {}}
ShortName == <<"C", "CA", "CR", "D", "A", "R", "RC">>

Inputs(program) ==
  CASE program = "modular" -> (-2 * MOD..2 * MOD) \X ((0..MOD - 1) \X (0..MOD - 1))
    [] program = "gie" -> Lists(0..2, 5)
    [] program = "mon" -> Lists(1..3, 5)
    [] program = "odw" -> {R \in SUBSET Fragments(5) : \A f, g \in R : f = g \/ Apart(f, g) \/ f[1] + f[2] = g[1] + g[2]}
    [] program = "per" -> Lists({0, 1, 3}, 5)
    [] program = "prz1" -> Registers(3, 3)
    [] program = "playground_sor" -> [1..4 -> {0, 1}] \X (Fragments(4) \X {"<", ">"})
    [] program = "tro" -> Lists(1..3, 5)
    [] program = "lin" -> Lists({<<t>> \o f : t \in 0..1, f \in Fragments(2)}, 3) \X (0..1)
    [] program = "moz" -> (1..5) \X (0..3)
    [] program = "ptv" -> Lists({f \o <<who>> : f \in Fragments(3), who \in {1, 2}}, 3)
    [] program = "baz" -> UNION {{c \in Lists(1..4, 4) : Rising(c) /\ Len(c) >= k} \X {k} : k \in 1..4}
    [] program = "kap" -> Lists((0..2) \X {0, 3, 5}, 3)
    [] program = "kin" -> Orders(4) \X (1..3)
    [] program = "lex" -> [1..4 -> {1, 2}] \X (Fragments(4) \X Fragments(4))
    [] program = "mal" -> [1..3 -> Fragments(5) \X {"WHITE", "BLACK"}]
    [] program = "mat" -> Lists({"A", "B", "*"}, 5)
    [] program = "mec" -> [1..2 -> Orders(4)]
    [] program = "prj" -> {x \in [1..3 -> 1..3] \X ((SUBSET {<<2, 1>>, <<3, 1>>, <<1, 3>>, <<3, 2>>}) \X (1..3)) :
                             ~{<<3, 1>>, <<1, 3>>} \subseteq x[2][1] /\ ~{<<2, 1>>, <<1, 3>>, <<3, 2>>} \subseteq x[2][1]}
    [] program = "sor" -> UNION {Orders(m) : m \in 1..5}
    [] program \in {"vectorSum", "vectorDot"} -> UNION {[1..m -> 1..2] : m \in 0..7}
    [] program = "isPrime" -> 2..4000
    [] program = "sortowanie" -> {<<>>} \cup Lists(1..3, 5)
    [] program = "clean" -> Lists({"code", "exercise", "text"}, 5)
    [] program = "TRICK" -> (0..12) \X UNION {[1..m -> SomeCards] : m \in 0..3}
    [] program = "TAKEN" -> (0..12) \X ([1..4 -> SomeCards] \X (1..4))
    [] program = "SCORE" -> {0, 9, 10, 130, 1000000000}
    [] program = "DEAL" -> (1..7) \X ((1..4) \X (0..51))
    [] program = "games" -> (0..7) \X ((1..4) \X (0..51))
    [] program = "answers" -> (0..12) \X ((0..12) \X Deck)
    [] program = "readline" -> Written \X Written
    [] program = "stream" -> UNION {{pair} \X (0..Size(pair[1]) + Size(pair[2])) : pair \in Packets \X Packets}
    [] program = "datagram" -> UNION {Damaged(p) : p \in Packets}
    [] program = "ppcat" -> Packets \X BOOLEAN   \* TRUE: the short name
    [] OTHER -> [1..3 -> {<<>>} \cup Lists(1..3, 2)] \X ((0..3) \X {0, 3, 100})   \* clicks, the clock

Text == <<1, 2, 3, 4, 5>>
Named(s) == [i \in DOMAIN s |-> <<s[i], i>>]

SortedBy(islands, f) ==
  {o \in Orders(Len(islands)) : \A i \in 1..Len(islands) - 1 : islands[o[i]][f] <= islands[o[i + 1]][f]}

Answer(program, x) ==
  CASE program = "modular" -> LET a == x[2][1] b == x[2][2] IN
                              <<modular(x[1]), plus(a, b), minus(a, b), times(a, b), power(a, b)>>
    [] program = "gie" -> gie(x)
    [] program = "mon" -> mon(x)
    [] program = "odw" -> odw(Text, x)
    [] program = "per" -> per(x)
    [] program = "prz1" -> prz1(3, x)
    [] program = "playground_sor" -> playground_sor(x[1], <<[c |-> x[2][2], i |-> x[2][1][1], j |-> x[2][1][2]]>>)
    [] program = "tro" -> tro(x)
    [] program = "lin" -> lin(x[1], x[2])
    [] program = "moz" -> moz(x[1], x[2])
    [] program = "ptv" -> ptv(x)
    [] program = "baz" -> baz(x[1], x[2])
    [] program = "kap" -> {kap(x, a, b) : a \in SortedBy(x, 1), b \in SortedBy(x, 2)}
    [] program = "kin" -> kin(x[1], x[2])
    [] program = "lex" -> lex(x[1], x[2][1][1], x[2][1][2], x[2][2][1], x[2][2][2])
    [] program = "mal" -> mal([i \in DOMAIN x |-> x[i][1] \o <<x[i][2]>>])
    [] program = "mat" -> mat(x)
    [] program = "mec" -> mec(x)
    [] program = "prj" -> prj(x[1], x[2][1], x[2][2])
    [] program = "sor" -> sor(x)
    [] program = "vectorSum" -> vectorSum(x, Reverse(x))
    [] program = "vectorDot" -> vectorDot(x, Reverse(x))
    [] program = "isPrime" -> isPrime(x)
    [] program = "sortowanie" -> sortowanie(Named(x))
    [] program = "clean" -> clean(Named(x))
    [] program = "TRICK" -> read_trick(make_trick(x[1], x[2]))
    [] program = "TAKEN" -> read_taken(make_taken(x[1], x[2][1], x[2][2]))
    [] program = "SCORE" -> read_score(make_score(Seat4(x)))
    [] program = "DEAL" -> read_deal(make_deal(x[1], x[2][1], Hand(x[2][2])))
    [] program = "games" -> read_game(GameText(x[1], x[2][1], x[2][2]))
    [] program = "answers" -> <<played_card(answer(x[1], x[2][2]), x[2][1]), parse_cmd(<<"!">> \o Cards(<<x[2][2]>>) \o <<"\n">>)>>
    [] program = "readline" -> readline(x[1] \o x[2], 6)
    [] program = "stream" -> Wire!read_stream(SubSeq(Encoded(x[1][1]) \o Encoded(x[1][2]), 1, x[2]))
    [] program = "datagram" -> Wire!read_datagram(x)
    [] program = "ppcat" ->
         LET name == IF x[2] THEN ShortName[x[1].type] ELSE Wire!PacketType[x[1].type]
             characters == IF x[1].type = 4 THEN <<32>> \o x[1].data ELSE <<>>
         IN Wire!read_datagram(Wire!hton_packet(Wire!typed(name, x[1], characters)))
    [] OTHER -> all_pages_and_sentences_k(x[1], 1, x[2][1], x[2][2])
-----------------------------------------------------------------------------
(* What the answers are *)

\* Days on which one buys and sells in turn.
BestTrade(a) ==
  LET gain(S) == Total(S, LAMBDA d : IF Cardinality({e \in S : e < d}) % 2 = 0 THEN -a[d] ELSE a[d])
  IN Max({gain(S) : S \in {T \in SUBSET DOMAIN a : Cardinality(T) % 2 = 0}})

MonotoneOfEvenSum(c) ==
  Cardinality({f \in Fragments(Len(c)) : f[1] < f[2] /\ Of(c, f[1]..f[2]) % 2 = 0 /\
    (\/ \A i \in f[1]..f[2] - 1 : c[i] < c[i + 1]
     \/ \A i \in f[1]..f[2] - 1 : c[i] = c[i + 1]
     \/ \A i \in f[1]..f[2] - 1 : c[i] > c[i + 1])})

Reversed(s, R) ==
  FoldSet(LAMBDA f, t : [p \in DOMAIN t |-> IF f[1] <= p /\ p <= f[2] THEN t[f[1] + f[2] - p] ELSE t[p]], s, R)

\* At most one run of three, and none longer.
BestPick(v) ==
  LET threes(S) == {i \in S : {i, i + 1, i + 2} \subseteq S}
  IN Max({Of(v, S) : S \in {T \in SUBSET DOMAIN v : Cardinality(threes(T)) <= 1}})

Uncovered(n, q) ==
  [i \in DOMAIN q |-> Cardinality({x \in 1..n : \A g \in GroupsAfter(SubSeq(q, 1, i)) : x < g[1] \/ x > g[2]})]

\* sort_bitset_slow, which the program keeps as a comment.
SortedFragment(bits, i, j, asc) ==
  LET inner == SortSeq(SubSeq(bits, i, j), LAMBDA a, b : IF asc THEN a < b ELSE a > b)
  IN {p \in DOMAIN bits : (IF p \in i..j THEN inner[p - i + 1] ELSE bits[p]) = 1}

SumTriples(a) ==
  Cardinality({t \in [1..3 -> DOMAIN a] : t[1] < t[2] /\ t[2] < t[3] /\ a[t[1]] + a[t[2]] = a[t[3]]})

Meetings(p, k) ==
  Cardinality({e \in [1..2 -> DOMAIN p] :
    /\ e[1] < e[2] /\ p[e[1]][1] - p[e[2]][1] \in -k..k
    /\ (p[e[1]][2]..p[e[1]][3]) \cap (p[e[2]][2]..p[e[2]][3]) # {}})

SlowSequences(d, k) ==
  Cardinality({s \in [1..d -> 0..k] : \A i \in 1..d - 1 : s[i + 1] - s[i] \in -1..1}) % MOD

\* The first time of most presidents; a nomination lasts until just before its end.
MostPresidents(noms) ==
  LET at(t) == Cardinality({noms[i][3] : i \in {i \in DOMAIN noms : noms[i][1] <= t /\ t < noms[i][2]}})
      most == Max({at(t) : t \in 0..3})
  IN <<IF most = 0 THEN 0 ELSE Min({t \in 0..3 : at(t) = most}), most>>

BestOddSum(c, k) ==
  Max({-1} \cup {Of(c, S) : S \in {T \in kSubset(k, DOMAIN c) : Of(c, T) % 2 = 1}})

\* Over all roads, not only those between neighbours: n rounds over all edges.
RECURSIVE Rounds(_, _, _)
Rounds(v, d, n) ==
  IF n = 0 THEN d
  ELSE Rounds(v, [w \in DOMAIN v |-> Min({d[u] + Hours(v[u], v[w]) : u \in DOMAIN v})], n - 1)
Journey(v) == Rounds(v, [w \in DOMAIN v |-> IF w = 1 THEN 0 ELSE Infinity], Len(v))[Len(v)]

FallingChoices(s, k) ==
  Cardinality({S \in kSubset(k, DOMAIN s) : \A i, j \in S : i < j => s[i] > s[j]}) % MOD

Compared(s, t) ==
  CASE s = t -> 0
    [] IsStrictPrefix(s, t) -> -1
    [] IsStrictPrefix(t, s) -> 1
    [] OTHER -> LET i == Min({i \in DOMAIN s \cap DOMAIN t : s[i] # t[i]}) IN IF s[i] < t[i] THEN -1 ELSE 1

Painted(q) ==
  [i \in DOMAIN q |-> Cardinality({x \in 1..BASE :
    LET last == {j \in 1..i : q[j][1][1] <= x /\ x <= q[j][1][2]} IN last # {} /\ q[Max(last)][2] = "WHITE"})]

Stencil(s) ==
  LET clash == {f \in Fragments(Len(s)) : s[f[1]] # s[f[2]] /\ "*" \notin {s[f[1]], s[f[2]]}
                                            /\ \A i \in f[1] + 1..f[2] - 1 : s[i] = "*"}
  IN IF clash = {} THEN 1 ELSE Len(s) - Min({f[2] - f[1] - 1 : f \in clash})

EverybodyMeets(m) ==
  \A p, q \in DOMAIN m[1] : p # q =>
    \E i \in DOMAIN m : \E a, b \in DOMAIN m[1] :
      m[i][a] = p /\ m[i][b] = q /\ (a <= Len(m[1]) \div 2 <=> b > Len(m[1]) \div 2)

LightestPlan(w, needs, k) ==
  Min({Max({w[u] : u \in S}) : S \in {T \in kSubset(k, DOMAIN w) : \A e \in needs : e[1] \in T => e[2] \in T}})

\* Who comes goes to the right when taller than the one before, else to the left.
RECURSIVE Choir(_)
Choir(q) ==
  IF Len(q) = 1 THEN q
  ELSE IF q[Len(q)] > q[Len(q) - 1] THEN Append(Choir(Front(q)), Last(q)) ELSE <<Last(q)>> \o Choir(Front(q))

StableOrder(items) ==
  CHOOSE s \in {[i \in DOMAIN items |-> items[o[i]]] : o \in Orders(Len(items))} :
    \A i \in 1..Len(s) - 1 : s[i][1] < s[i + 1][1] \/ (s[i][1] = s[i + 1][1] /\ s[i][2] < s[i + 1][2])

ListText(items) ==
  <<<<"[">>, <<"newline">>>>
    \o FlattenSeq([i \in DOMAIN items |-> IF i = 1 THEN <<items[1]>> ELSE <<<<",">>, <<"newline">>, items[i]>>])
    \o <<<<"newline">>, <<"]">>>>

\* Code that comes after an exercise with nothing but code between.
IsAnswer(x, i) ==
  x[i] = "code" /\ \E j \in 1..i - 1 : x[j] = "exercise" /\ \A m \in j + 1..i : x[m] = "code"

\* Pages by the fewest clicks to them, each once; of those as many clicks away the
\* ones found from an earlier page first.
RECURSIVE WithinClicks(_, _)
WithinClicks(links, k) ==
  IF k = 0 THEN <<1>>
  ELSE FoldLeft(LAMBDA pages, p : IF Contains(pages, p) THEN pages ELSE Append(pages, p),
                WithinClicks(links, k - 1), FlattenSeq([i \in DOMAIN WithinClicks(links, k - 1) |->
                                                          links[WithinClicks(links, k - 1)[i]]]))

\* The packets of which all bytes have come.
WholePackets(pair, bytes) ==
  IF bytes < Size(pair[1]) THEN <<>> ELSE IF bytes < Size(pair[1]) + Size(pair[2]) THEN <<pair[1]>> ELSE pair

Wanted(program, x) ==
  CASE program = "modular" -> LET a == x[2][1] b == x[2][2] IN
                              <<x[1] % MOD, (a + b) % MOD, (a - b) % MOD, (a * b) % MOD, (IF b = 0 THEN 1 ELSE a^b) % MOD>>
    [] program = "gie" -> BestTrade(x)
    [] program = "mon" -> MonotoneOfEvenSum(x)
    [] program = "odw" -> Reversed(Text, x)
    [] program = "per" -> BestPick(x)
    [] program = "prz1" -> Uncovered(3, x)
    [] program = "playground_sor" -> SortedFragment(x[1], x[2][1][1], x[2][1][2], x[2][2] = "<")
    [] program = "tro" -> SumTriples(x)
    [] program = "lin" -> Meetings(x[1], x[2])
    [] program = "moz" -> SlowSequences(x[1], x[2])
    [] program = "ptv" -> MostPresidents(x)
    [] program = "baz" -> BestOddSum(x[1], x[2])
    [] program = "kap" -> {Journey(x)}
    [] program = "kin" -> FallingChoices(x[1], x[2])
    [] program = "lex" -> Compared(SubSeq(x[1], x[2][1][1], x[2][1][2]), SubSeq(x[1], x[2][2][1], x[2][2][2]))
    [] program = "mal" -> Painted(x)
    [] program = "mat" -> Stencil(x)
    [] program = "mec" -> EverybodyMeets(x)
    [] program = "prj" -> LightestPlan(x[1], x[2][1], x[2][2])
    [] program = "sor" -> Cardinality({q \in Orders(Len(x)) : Choir(q) = x}) % MOD
    [] program = "vectorSum" -> [i \in DOMAIN x |-> x[i] + Reverse(x)[i]]
    [] program = "vectorDot" -> Of([i \in DOMAIN x |-> x[i] * Reverse(x)[i]], DOMAIN x)
    [] program = "isPrime" -> \A d \in 2..63 : d < x => x % d # 0
    [] program = "sortowanie" -> ListText(StableOrder(Named(x)))
    [] program = "clean" -> SelectSeq(Named(x), LAMBDA c : ~IsAnswer(x, c[2]))
    [] program = "TRICK" -> [draw |-> x[1], table |-> Padded(x[2])]
    [] program = "TAKEN" -> [draw |-> x[1], table |-> x[2][1], loser |-> x[2][2]]
    [] program = "SCORE" -> Seat4(x)
    [] program = "DEAL" -> [rule |-> x[1], first |-> x[2][1], cards |-> Hand(x[2][2])]
    [] program = "games" ->
         IF x[1] = 0 THEN [rule |-> 0]
         ELSE [rule |-> x[1], first |-> x[2][1], hands |-> [i \in 1..4 |-> Hand(x[2][2] + i)]]
    [] program = "answers" -> <<IF x[1] = x[2][1] THEN x[2][2] ELSE NoCard, x[2][2]>>   \* an answer counts for its trick only
    [] program = "readline" -> x[1]
    [] program = "stream" -> WholePackets(x[1], x[2])
    [] program = "datagram" -> IF \E p \in Packets : Encoded(p) = x THEN <<CHOOSE p \in Packets : Encoded(p) = x>> ELSE <<>>
    [] program = "ppcat" -> <<x[1]>>
    [] OTHER -> WithinClicks(x[1], x[2][1])

\* Inputs on which a program does not answer what is wanted: MOD itself, which is left as
\* it is (template.cpp, line 38); three primes that are divided by themselves (Primes.java,
\* line 41, against line 69); the empty list, whose beginning is written over
\* (sortowanie.py, line 82); data behind a blank, which is taken for the first byte
\* (ppcat.cpp, line 108, against line 75); and pages that are not all there when the
\* loop's clock passes 5, for 60 seconds of time (zad1.py, line 141, against line 131).
KnownWrong(program, x) ==
  CASE program = "modular" -> x[1] = MOD
    [] program = "isPrime" -> x \in {2, 3, 5}
    [] program = "sortowanie" -> x = <<>>
    [] program = "ppcat" -> x[1].type = 4 /\ x[1].data # <<>>
    [] program = "zad1" -> x[2][2] + Len(WithinClicks(x[1], x[2][1])) > Deadline
    [] OTHER -> FALSE

\* A program answers right on the inputs tried, and on these alone it does not.
AnswerIsWanted(program, x) == (Answer(program, x) = Wanted(program, x)) <=> ~KnownWrong(program, x)
==============================================================================
