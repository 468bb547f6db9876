------------------------------- MODULE Contest -------------------------------
(***************************************************************************)
(* The programs that compute one answer: those of ASD/szkopul,              *)
(* ASD/zaliczeniowy and ASD/playground, each as an operator named after its *)
(* file, from the input it reads to the answer it prints; the vectors and   *)
(* the primes of PW/mikro/java, whose threads write to places of their own  *)
(* or all write the same; the sorting of a file in parts and the cleaning   *)
(* of a notebook in PYT; and the walk over pages in WWW/egzamin.  Arrays    *)
(* are sequences from 1 where the program counts from 0 or from 1; a loop   *)
(* is a fold or a recursive operator.  What the answers should be, and the  *)
(* inputs tried, are in AlgorithmCases.                                     *)
(***************************************************************************)
EXTENDS Integers, Sequences, SequencesExt, FiniteSets, FiniteSetsExt

CONSTANTS
  MOD,         \* ModInt: 10^9 in the programs
  HASH_MOD, HASH_BASE,
  BASE_LOG,    \* the trees of kin and mal have 2^BASE_LOG leaves
  CHUNK_LENGTH,    \* SUM_CHUNK_LENGTH and DOT_CHUNK_LENGTH of Vector
  chunk_size       \* of sortowanie

BASE == 2^BASE_LOG
Infinity == 10000
From(a, b) == [i \in 1..b - a + 1 |-> a + i - 1]
Total(S, f(_)) == MapThenSumSet(f, S)
-----------------------------------------------------------------------------
(* template: the numbers modulo MOD, of which most programs have a copy *)

\* % of C++ keeps the sign of what it divides.
modular(v) ==
  LET val == CASE v \in -MOD..MOD -> v [] v > MOD -> v % MOD [] OTHER -> -((-v) % MOD)
  IN IF val < 0 THEN val + MOD ELSE val

plus(a, b) == IF a + b >= MOD THEN a + b - MOD ELSE a + b
minus(a, b) == IF a - b < 0 THEN a - b + MOD ELSE a - b
times(a, b) == (a * b) % MOD

RECURSIVE power(_, _)
power(a, p) ==
  CASE p = 0 -> 1
    [] p % 2 = 1 -> times(a, power(times(a, a), p \div 2))
    [] OTHER -> power(times(a, a), p \div 2)
-----------------------------------------------------------------------------
(* playground *)

\* Profit of buying and selling: each stretch in which prices do not fall.
gie(a) ==
  LET end(s, i) == [profit |-> s.profit + a[i - 1] - a[s.start], start |-> i]
      step(s, i) == IF a[i] < a[i - 1] THEN end(s, i) ELSE s
  IN end(FoldLeft(step, [profit |-> 0, start |-> 1], From(2, Len(a))), Len(a) + 1).profit

\* Monotone fragments of even sum: how many of even and odd sum end at each place.
mon(ciag) ==
  LET kind(i) == CASE ciag[i] = ciag[i - 1] -> "EQ" [] ciag[i] > ciag[i - 1] -> "INC" [] OTHER -> "DEC"
      odd(i) == ciag[i] % 2
      step(s, i) ==
        LET even == (odd(i) + odd(i - 1) + 1) % 2
            longer == IF kind(i) # s.kind THEN <<even, 1 - even>>
                      ELSE IF odd(i) = 1 THEN <<s.nieparzyste, s.parzyste>> ELSE <<s.parzyste, s.nieparzyste>>
        IN [kind |-> kind(i), wynik |-> s.wynik + longer[1],
            parzyste |-> longer[1] + 1 - odd(i), nieparzyste |-> longer[2] + odd(i)]
  IN FoldLeft(step, [kind |-> "NONE", parzyste |-> 1 - odd(1), nieparzyste |-> odd(1), wynik |-> 0],
              From(2, Len(ciag))).wynik

\* Reversals of concentric fragments, all of one middle done at once.
odw(s, inv_reqs) ==
  LET middle(r) == (r[1] + r[2]) \div 2
      longer == {r \in inv_reqs : r[1] < r[2]}
      group(r) == {q \in longer : middle(q) = middle(r)}
      outer == {r \in longer : \A q \in group(r) : q[2] - q[1] <= r[2] - r[1]}
      inverted(r, j) == Cardinality({q \in group(r) : q[1] - r[1] <= j}) % 2 = 1
      mirrored(r, p) == inverted(r, Min({p - r[1], r[2] - p}))
  IN [p \in DOMAIN s |->
        IF \E r \in outer : r[1] <= p /\ p <= r[2] /\ 2 * p # r[1] + r[2] /\ mirrored(r, p)
        THEN LET r == CHOOSE r \in outer : r[1] <= p /\ p <= r[2] IN s[r[1] + r[2] - p]
        ELSE s[p]]

\* The greatest sum with at most one run of three: by the length of the last run.
per(values) ==
  LET largest(f) == Max({f[i] : i \in DOMAIN f})
      step(old, wart) ==
        [bez3 |-> [i \in 0..2 |-> IF i = 0 THEN largest(old.bez3) ELSE old.bez3[i - 1] + wart],
         z3 |-> [i \in 0..3 |-> CASE i = 0 -> largest(old.z3)
                                  [] i = 3 -> old.bez3[2] + wart
                                  [] OTHER -> old.z3[i - 1] + wart]]
      last == FoldLeft(step, [bez3 |-> [i \in 0..2 |-> 0], z3 |-> [i \in 0..3 |-> 0]], values)
  IN Max({largest(last.bez3), largest(last.z3)})

\* Numbers outside all groups, each of which is a beginning or an end of 1..n.
prz1(n, requests) ==
  LET start(s, c, x) == IF c = "+" THEN s \cup {x} ELSE s \ {x}
      step(s, q) ==
        LET from_start == IF q.l = 1 THEN start(s.from_start, q.c, -q.r) ELSE s.from_start
            to_end == IF q.l = 1 THEN s.to_end ELSE start(s.to_end, q.c, q.l)
            uncovered == n - (IF from_start = {} THEN 0 ELSE -Min(from_start))
                           - (IF to_end = {} THEN 0 ELSE n - Min(to_end) + 1)
        IN [from_start |-> from_start, to_end |-> to_end,
            out |-> Append(s.out, Max({uncovered, 0}))]
  IN FoldLeft(step, [from_start |-> {}, to_end |-> {}, out |-> <<>>], requests).out

\* Fragments of a sequence of bits put in order; arr is the set of the places of
\* ones.  The masks of the program hold up to 31 bits, and so does a fragment here.
sort_bitset(arr, i, j, asc) ==
  LET ones == Cardinality(arr \cap i..j)
  IN (arr \ i..j) \cup (IF asc THEN j - ones + 1..j ELSE i..i + ones - 1)

playground_sor(bits, requests) ==
  LET step(arr, q) == sort_bitset(arr, q.i, q.j, q.c = "<")
  IN FoldLeft(step, {p \in DOMAIN bits : bits[p] = 1}, requests)

\* Triples i < j < k with arr[i] + arr[j] = arr[k].
tro(arr) ==
  LET step(s, ai) ==
        [total |-> s.total + s.pair_count[ai],
         pair_count |-> [k \in 0..10 |-> s.pair_count[k] + (IF k > ai THEN s.count[k - ai] ELSE 0)],
         count |-> [s.count EXCEPT ![ai] = @ + 1]]
      none == [k \in 0..10 |-> 0]
  IN FoldLeft(step, [total |-> 0, pair_count |-> none, count |-> none], arr).total
-----------------------------------------------------------------------------
(* zaliczeniowy *)

\* Points <<time, from, to>>: pairs that meet in place and at most k apart in time.
lin(points, k) ==
  LET step(s, p) ==
        LET dodane == {i \in s.dodane : points[p][1] - points[i][1] <= k}
            a == Cardinality({i \in dodane : points[i][2] < points[p][3] + 1})
            b == Cardinality({i \in dodane : points[i][3] < points[p][2]})
        IN [dodane |-> dodane \cup {p}, kolizje |-> s.kolizje + a - b]
      earlier(i, j) == points[i][1] < points[j][1] \/ (points[i][1] = points[j][1] /\ i < j)
  IN FoldLeft(step, [dodane |-> {}, kolizje |-> 0], SetToSortSeq(DOMAIN points, earlier)).kolizje

\* Sequences of length d over 0..k whose neighbours differ by at most one.
moz(d, k) ==
  LET first == [ik \in 0..k |-> 1]
      longer(ile) == [ik \in 0..k |-> plus(plus(ile[ik], IF ik > 0 THEN ile[ik - 1] ELSE 0),
                                            IF ik < k THEN ile[ik + 1] ELSE 0)]
      ile_ciagow == FoldLeft(LAMBDA ile, i : longer(ile), first, From(2, d))
  IN FoldSet(LAMBDA ik, wynik : plus(wynik, ile_ciagow[ik]), 0, 0..k)

\* Nominations <<from, to, person>>: at each time first those that begin, then
\* those that end, then the number of presidents is looked at.
RECURSIVE Sweep(_, _)
Sweep(nominations, s) ==
  LET at(f) == SetToSeq({i \in s.open[f] : nominations[i][f] = s.t})
      up(q, i) == LET who == nominations[i][3] IN
        [q EXCEPT !.nominacje[who] = @ + 1, !.presidents = IF q.nominacje[who] = 0 THEN @ + 1 ELSE @]
      down(q, i) == LET who == nominations[i][3] IN
        [q EXCEPT !.nominacje[who] = @ - 1, !.presidents = IF q.nominacje[who] = 1 THEN @ - 1 ELSE @]
      counted == FoldLeft(down, FoldLeft(up, s, at(1)), at(2))
      open == [f \in {1, 2} |-> s.open[f] \ ToSet(at(f))]
      more == counted.presidents > s.max
      moments == UNION {{nominations[i][f] : i \in open[f]} : f \in {1, 2}}
  IN IF s.open[1] = {} THEN <<s.when, s.max>>
     ELSE Sweep(nominations,
            [counted EXCEPT !.open = open, !.max = IF more THEN counted.presidents ELSE @,
                            !.when = IF more THEN s.t ELSE @, !.t = IF moments = {} THEN @ ELSE Min(moments)])

ptv(nominations) ==
  LET all == DOMAIN nominations
  IN Sweep(nominations, [t |-> Min({nominations[i][1] : i \in all}), open |-> [f \in {1, 2} |-> all],
                         nominacje |-> [who \in {nominations[i][3] : i \in all} |-> 0],
                         presidents |-> 0, max |-> 0, when |-> 0])
-----------------------------------------------------------------------------
(* szkopul *)

\* The greatest odd sum of k of the prices, which are sorted; -1 if there is none.
baz(cena, k) ==
  LET n == Len(cena)
      none(x) == [parity \in {0, 1} |-> x]
      min[j \in 0..n] == IF j = 0 THEN none(Infinity)
                         ELSE [min[j - 1] EXCEPT ![cena[n - j + 1] % 2] = cena[n - j + 1]]
      max[j \in 1..n] == IF j = n THEN none(-Infinity)
                         ELSE [max[j + 1] EXCEPT ![cena[n - j] % 2] = cena[n - j]]
      sumaR == Total(n - k + 1..n, LAMBDA i : cena[i])
      swap(p) == IF min[k][p] # Infinity /\ max[k][1 - p] # -Infinity
                 THEN sumaR - min[k][p] + max[k][1 - p] ELSE -1
  IN IF sumaR % 2 = 1 THEN sumaR ELSE Max({swap(0), swap(1)})

\* Fewest hours from the first island to the last, over edges between neighbours
\* by x and neighbours by y.
Neighbours(islands, byX, byY) ==
  [w \in DOMAIN islands |->
     UNION {{o[i + d] : i \in {j \in DOMAIN o : o[j] = w /\ j + d \in DOMAIN o}} :
              o \in {byX, byY}, d \in {-1, 1}}]

Hours(v, w) ==
  LET gap(a, b) == IF a < b THEN b - a ELSE a - b IN Min({gap(v[1], w[1]), gap(v[2], w[2])})

RECURSIVE Closest(_, _, _, _)
Closest(islands, g, queue, dist) ==
  IF queue = {} THEN dist
  ELSE LET top == CHOOSE e \in queue : \A f \in queue : e[1] <= f[1]
           d == top[1]
           w == top[2]
           ndist(id) == d + Hours(islands[w], islands[id])
           nearer == {id \in g[w] : dist[id] = -1 \/ ndist(id) < dist[id]}
       IN IF d < dist[w] THEN Closest(islands, g, queue \ {top}, dist)
          ELSE Closest(islands, g, (queue \ {top}) \cup {<<ndist(id), id>> : id \in nearer},
                       [id \in DOMAIN dist |-> IF id \in nearer THEN ndist(id) ELSE dist[id]])

\* byX, byY: what the two sorts give.
kap(islands, byX, byY) ==
  Closest(islands, Neighbours(islands, byX, byY), {<<0, 1>>},
          [id \in DOMAIN islands |-> IF id = 1 THEN 0 ELSE -1])[Len(islands)]

\* Decreasing subsequences of length k: a tree of sums for each length.
kinAdd(tree, k, node, v) ==
  LET path == {(node + BASE) \div 2^h : h \in 0..BASE_LOG}
  IN [tree EXCEPT ![k] = [i \in DOMAIN @ |-> IF i \in path THEN plus(@[i], v) ELSE @[i]]]

RECURSIVE kinClimb(_, _, _, _)
kinClimb(t, left, right, sum) ==
  IF left \div 2 >= right \div 2 THEN sum
  ELSE kinClimb(t, left \div 2, right \div 2,
                plus(plus(sum, IF left % 2 = 0 THEN t[left + 1] ELSE 0),
                     IF right % 2 = 1 THEN t[right - 1] ELSE 0))

kinQuery(tree, k, left, right) ==
  kinClimb(tree[k], left + BASE, right + BASE, plus(tree[k][left + BASE], tree[k][right + BASE]))

kin(input, k) ==
  LET lengths(tree, x) ==
        FoldLeft(LAMBDA t, j : kinAdd(t, j, x, kinQuery(t, j - 1, 0, x - 1)),
                 kinAdd(tree, 1, x, 1), From(2, k))
  IN kinQuery(FoldLeft(lengths, [j \in 1..k |-> [i \in 1..2 * BASE |-> 0]], Reverse(input)), k, 0, Len(input))

\* Two fragments of s compared: their common beginning is found by halving, with
\* hashes for equality.
s_hash(s, i) == FoldLeft(LAMBDA h, c : (((h * HASH_BASE) % HASH_MOD) + c) % HASH_MOD, 0, SubSeq(s, 1, i))
pow_t(i) == FoldLeft(LAMBDA p, j : (p * HASH_BASE) % HASH_MOD, 1, From(1, i))
range_hash(s, l, r) ==
  (s_hash(s, r) - ((s_hash(s, l - 1) * pow_t(r - l + 1)) % HASH_MOD) + HASH_MOD) % HASH_MOD

RECURSIVE lexHalve(_, _, _, _, _)
lexHalve(s, l1, l2, l, r) ==
  IF l = r THEN r
  ELSE LET mid == (r + l) \div 2 IN
       IF range_hash(s, l1, l1 + mid) = range_hash(s, l2, l2 + mid)
       THEN lexHalve(s, l1, l2, mid + 1, r) ELSE lexHalve(s, l1, l2, l, mid)

lex(s, l1, r1, l2, r2) ==
  LET foundLength == lexHalve(s, l1, l2, 0, Min({r1 - l1 + 1, r2 - l2 + 1}))
      ends1 == foundLength = r1 - l1 + 1
      ends2 == foundLength = r2 - l2 + 1
  IN CASE ends1 /\ ends2 -> 0
       [] ends1 /\ ~ends2 -> -1
       [] ~ends1 /\ ends2 -> 1
       [] OTHER -> IF s[l1 + foundLength] < s[l2 + foundLength] THEN -1 ELSE 1

\* The white cells of a wall painted in fragments: a tree whose nodes count them,
\* and which is true only along the paths that were refreshed.
get_color(tree, v, h) ==
  CASE tree[v] = 0 -> "BLACK" [] tree[v] = 2^h -> "WHITE" [] OTHER -> "MIXED"

set_color(tree, v, h, c) ==
  [tree EXCEPT ![v] = CASE c = "WHITE" -> 2^h
                        [] c = "BLACK" -> 0
                        [] OTHER -> tree[2 * v] + tree[2 * v + 1]]

inverse(c) == CASE c = "WHITE" -> "BLACK" [] c = "BLACK" -> "WHITE" [] OTHER -> "MIXED"

RECURSIVE update_path(_, _, _, _)

\* Fault: the colour of a node above is not pushed down before painting.
update_pathStale(tree, end, i, h) == tree

update_path(tree, end, i, h) ==
  IF i >= end \/ h = 0 THEN tree
  ELSE LET c == get_color(tree, i, h)
           pushed == IF c = "MIXED" THEN tree
                     ELSE set_color(set_color(tree, 2 * i, h - 1, c), 2 * i + 1, h - 1, c)
           left_end == 2 * i * 2^(h - 1) + (2^(h - 1)) - 1
       IN update_path(pushed, end, IF left_end >= end THEN 2 * i ELSE 2 * i + 1, h - 1)

\* One side of the fragment at height h: v is its outermost node, inner says
\* whether v's sibling is inside.
paintSide(tree, v, h, c, inner) ==
  LET parent == get_color(tree, v \div 2, h + 1)
      sibling == IF v % 2 = 0 THEN v + 1 ELSE v - 1
      below == IF inner THEN set_color(tree, sibling, h, c)
               ELSE IF parent = inverse(c) THEN set_color(tree, sibling, h, parent)
               ELSE tree
  IN IF parent = c THEN tree ELSE set_color(below, v \div 2, h + 1, "MIXED")

RECURSIVE paintUp(_, _, _, _, _)
paintUp(tree, begin, end, h, c) ==
  IF begin \div 2 = end \div 2
  THEN FoldLeft(LAMBDA t, v : set_color(t, v, 0, "MIXED"), tree,
                [k \in 1..BASE_LOG - h |-> begin \div 2^k])
  ELSE paintUp(paintSide(paintSide(tree, begin, h, c, begin % 2 = 0), end, h, c, end % 2 = 1),
               begin \div 2, end \div 2, h + 1, c)

color_range(tree, b, e, c) ==
  LET begin == b + BASE - 1
      end == e + BASE - 1
      fresh == update_path(update_path(tree, begin, 1, BASE_LOG), end, 1, BASE_LOG)
  IN paintUp(set_color(set_color(fresh, begin, 0, c), end, 0, c), begin, end, 0, c)

mal(requests) ==
  LET step(s, q) == LET tree == color_range(s.tree, q[1], q[2], q[3])
                    IN [tree |-> tree, out |-> Append(s.out, tree[1])]
  IN FoldLeft(step, [tree |-> [v \in 1..2 * BASE + 1 |-> 0], out |-> <<>>], requests).out

\* The fewest unknown letters between two different ones.
mat(s) ==
  LET step(q, i) ==
        IF s[i] = "*" THEN q
        ELSE [prev |-> i, res |-> IF s[i] # s[q.prev] /\ s[q.prev] # "*"
                                  THEN Min({q.res, i - 1 - q.prev}) ELSE q.res]
      res == FoldLeft(step, [prev |-> 1, res |-> Infinity], From(2, Len(s))).res
  IN IF res = Infinity THEN 1 ELSE Len(s) - res

\* Each match is the list of all players, one team and then the other.
mec(matches) ==
  LET n == Len(matches[1])
      second(p) == {m \in DOMAIN matches : \E i \in n \div 2 + 1..n : matches[m][i] = p}
  IN Cardinality({second(p) : p \in 1..n}) = n

\* The k lightest projects that may be done, one after the other; needs: pairs
\* <<dependant, dependency>>.
RECURSIVE prjTake(_, _, _, _, _)
prjTake(weights, needs, Q, done, k) ==
  IF k = 0 THEN Max({weights[u] : u \in done} \cup {0})
  ELSE LET u == CHOOSE u \in Q : \A v \in Q : weights[u] < weights[v] \/ (weights[u] = weights[v] /\ u >= v)
           now == done \cup {u}
           free == {v \in DOMAIN weights : <<v, u>> \in needs /\ \A d \in DOMAIN weights :
                                             <<v, d>> \in needs => d \in now}
       IN prjTake(weights, needs, (Q \ {u}) \cup free, now, k - 1)

prj(weights, needs, k) ==
  prjTake(weights, needs, {u \in DOMAIN weights : \A d \in DOMAIN weights : <<u, d>> \notin needs}, {}, k)

\* Orders from which a choir comes to stand as s: by who came last, and from where.
RECURSIVE sorT(_, _, _, _)
sorT(s, i, j, dir) ==
  CASE i = j -> IF dir = "LEFT" THEN 1 ELSE 0
    [] i # j /\ dir = "LEFT" -> plus(IF s[i] < s[i + 1] THEN sorT(s, i + 1, j, "LEFT") ELSE 0,
                                      IF s[i] < s[j] THEN sorT(s, i + 1, j, "RIGHT") ELSE 0)
    [] OTHER -> plus(IF s[j] > s[j - 1] THEN sorT(s, i, j - 1, "RIGHT") ELSE 0,
                      IF s[j] > s[i] THEN sorT(s, i, j - 1, "LEFT") ELSE 0)

sor(s) == plus(sorT(s, 1, Len(s), "LEFT"), sorT(s, 1, Len(s), "RIGHT"))
-----------------------------------------------------------------------------
(* Vector *)

\* Fault: a chunk that is not whole has no thread.
numChunksWhole(n) == n \div CHUNK_LENGTH

numChunks(n) == (n + CHUNK_LENGTH - 1) \div CHUNK_LENGTH

\* The places, from 1, that thread i computes.
Chunk(n, i) ==
  LET startPosIncl == i * CHUNK_LENGTH
      len == Min({CHUNK_LENGTH, n - startPosIncl})
  IN startPosIncl + 1..startPosIncl + len

Summer(a, b, places, result) == [p \in DOMAIN result |-> IF p \in places THEN a[p] + b[p] ELSE result[p]]

vectorSum(a, b) ==
  FoldSet(LAMBDA i, result : Summer(a, b, Chunk(Len(a), i), result),
          [p \in DOMAIN a |-> 0], 0..numChunks(Len(a)) - 1)

vectorDot(a, b) ==
  MapThenSumSet(LAMBDA i : MapThenSumSet(LAMBDA p : a[p] * b[p], Chunk(Len(a), i)), 0..numChunks(Len(a)) - 1)
-----------------------------------------------------------------------------
(* Primes *)

MAIN_THREAD_PRIMES == <<2, 3, 5, 7, 11, 13, 17, 19, 23, 29>>
THREAD_STARTS == {31, 37, 41, 43, 47, 49, 53, 59}

\* The loop of isPrime compares the square of the index, from 0, with n.
MainFinds(n) ==
  \E i \in DOMAIN MAIN_THREAD_PRIMES : (i - 1) * (i - 1) <= n /\ n % MAIN_THREAD_PRIMES[i] = 0

FindDivisor(n, start) ==
  \E i \in {start + 30 * k : k \in 0..n \div 30} : i < n /\ i * i <= n /\ n % i = 0

isPrime(n) == ~MainFinds(n) /\ \A start \in THREAD_STARTS : ~FindDivisor(n, start)
-----------------------------------------------------------------------------
(* sortowanie: sorts a list in parts of chunk_size and merges the parts *)

\* list.sort, which keeps the order of items of one key; an item is <<key, name>>.
Sorted(items) ==
  LET before(i, j) == items[i][1] < items[j][1] \/ (items[i][1] = items[j][1] /\ i < j)
      order == SetToSortSeq(DOMAIN items, before)
  IN [i \in DOMAIN items |-> items[order[i]]]

\* A part that is full says nothing about the end of the list: one more is read.
RECURSIVE Parts(_)

\* Fault: a part that is not full is taken for the end and left out.
PartsFull(items) ==
  IF Len(items) < chunk_size THEN <<>>
  ELSE <<Sorted(SubSeq(items, 1, chunk_size))>> \o Parts(SubSeq(items, chunk_size + 1, Len(items)))

Parts(items) ==
  IF Len(items) < chunk_size THEN <<Sorted(items)>>
  ELSE <<Sorted(SubSeq(items, 1, chunk_size))>> \o Parts(SubSeq(items, chunk_size + 1, Len(items)))

\* The part whose top is written next: the first of those of the least key.
Least(parts) ==
  FoldLeft(LAMBDA min, i : IF parts[i] # <<>> /\ (parts[min] = <<>> \/ parts[i][1][1] < parts[min][1][1])
                           THEN i ELSE min,
           1, [i \in DOMAIN parts |-> i])

RECURSIVE Merge(_)
Merge(parts) ==
  IF \A i \in DOMAIN parts : parts[i] = <<>> THEN <<>>
  ELSE <<parts[Least(parts)][1]>> \o Merge([parts EXCEPT ![Least(parts)] = Tail(@)])

\* The text written: a comma and a newline behind each item, and over the last two
\* characters, whatever they are, the end of the list.
sortowanie(items) ==
  LET merged == Merge(Parts(items))
      text == <<<<"[">>, <<"newline">>>>
                \o FlattenSeq([i \in DOMAIN merged |-> <<merged[i], <<",">>, <<"newline">>>>])
  IN SubSeq(text, 1, Len(text) - 2) \o <<<<"newline">>, <<"]">>>>
-----------------------------------------------------------------------------
(* clean: takes the answers to exercises out of a notebook; a cell is "code", *)
(* "exercise" (a text that begins with the heading of one) or "text"          *)

remove_code(prev_cells, cell) ==
  IF prev_cells # <<>> /\ cell[1] = "code" /\ Last(prev_cells)[1] = "exercise" THEN prev_cells
  ELSE Append(prev_cells, cell)

clean(cells) == FoldLeft(remove_code, <<>>, cells)
-----------------------------------------------------------------------------
(* zad1: all_pages_and_sentences_k; links[p]: the pages that page p leads to, *)
(* in the order in which they stand.  A page takes a unit of time.            *)

\* asyncio.Timeout(5): an absolute time of the loop's clock, which counts from the start
\* of the machine.  An await that it finds, or that goes on past it, ends with code 408.
Deadline == 5
Late == <<408>>

RECURSIVE Crawl(_, _, _, _, _)
Crawl(links, page_queue, pages, k, clock) ==
  IF page_queue = <<>> THEN pages
  ELSE LET seed == Head(page_queue)[1]
           depth == Head(page_queue)[2]
           found == IF depth < k THEN [i \in DOMAIN links[seed] |-> <<links[seed][i], depth + 1>>] ELSE <<>>
       IN IF Contains(pages, seed) THEN Crawl(links, Tail(page_queue), pages, k, clock)
          ELSE IF clock + 1 > Deadline THEN Late
          ELSE Crawl(links, Tail(page_queue) \o found, Append(pages, seed), k, clock + 1)

all_pages_and_sentences_k(links, seed, k, clock) == Crawl(links, <<<<seed, 0>>>>, <<>>, k, clock)
=============================================================================
