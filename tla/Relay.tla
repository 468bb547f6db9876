-------------------------------- MODULE Relay --------------------------------
(***************************************************************************)
(* SIK/miniprojekty/5: rozglaszacz.c passes bytes from a TCP connection to  *)
(* a multicast group and back, through two circular buffers (cb.c) that     *)
(* grow.  One iteration of the poll loop is a step.                         *)
(***************************************************************************)
EXTENDS Integers, Sequences, SequencesExt, FiniteSetsExt

CONSTANTS
  CB_INITIAL_SIZE,
  MAX_MESSAGE_SIZE,
  Bytes,          \* bound: bytes that come from each side
  Chunk           \* bound: bytes that a read may return

VARIABLES pc, shared     \* shared[way]: the buffer, what it is polled for, what came and went

vars == <<pc, shared>>

Ways == {"tcp2udp", "udp2tcp"}
Nothing == 0

Init ==
  /\ pc = [p \in {0} |-> "poll"]
  /\ shared = [way \in Ways |->
       [buf |-> [i \in 0..CB_INITIAL_SIZE - 1 |-> Nothing], pos |-> 0,
        capacity |-> CB_INITIAL_SIZE, size |-> 0, polled |-> FALSE, come |-> 0, gone |-> <<>>]]

\* memmove(buf + to, buf + from, n).
memmove(buf, to, from, n) ==
  [i \in DOMAIN buf |-> IF i \in to..to + n - 1 THEN buf[from + i - to] ELSE buf[i]]

\* Fault: the part that had gone round is left where it was.
GrownTorn(b, n) ==
  LET factor == Min({2, 4, 8} \cap {f \in 2..8 : n + b.size <= f * b.capacity})
      longer == [i \in 0..factor * b.capacity - 1 |-> IF i < b.capacity THEN b.buf[i] ELSE Nothing]
  IN IF n + b.size <= b.capacity THEN b
     ELSE [b EXCEPT !.buf = memmove(longer, 0, b.pos, b.size), !.pos = 0, !.capacity = factor * @]

\* The buffer with room for n more bytes.
Grown(b, n) ==
  LET factor == Min({2, 4, 8} \cap {f \in 2..8 : n + b.size <= f * b.capacity})
      longer == [i \in 0..factor * b.capacity - 1 |-> IF i < b.capacity THEN b.buf[i] ELSE Nothing]
      wrapped == Max({0, b.pos + b.size - b.capacity})
      joined == memmove(longer, b.capacity, 0, wrapped)
  IN IF n + b.size <= b.capacity THEN b
     ELSE [b EXCEPT !.buf = memmove(joined, 0, b.pos, b.size), !.pos = 0, !.capacity = factor * @]

cbPushBack(b, data) ==
  LET room == Grown(b, Len(data))
      dataEnd == (room.pos + room.size) % room.capacity
  IN [room EXCEPT !.size = @ + Len(data),
        !.buf = [i \in DOMAIN @ |->
          LET k == ((i - dataEnd + room.capacity) % room.capacity) + 1
          IN  IF k \in DOMAIN data THEN data[k] ELSE @[i]]]

cbDropFront(b, n) == [b EXCEPT !.pos = (@ + n) % b.capacity, !.size = @ - n]

cbGetContinuousCount(b) == Min({b.capacity - b.pos, b.size})

\* The next n bytes have come: they are numbered.
Read(b, n) ==
  [cbPushBack(b, [i \in 1..n |-> b.come + i]) EXCEPT !.polled = TRUE, !.come = @ + n]

\* A write takes n bytes from where the buffer begins.
Written(b, n) ==
  LET rest == cbDropFront(b, n)
  IN [rest EXCEPT !.gone = @ \o [i \in 1..n |-> b.buf[b.pos + i - 1]],
                  !.polled = @ /\ cbGetContinuousCount(rest) > 0]

\* What a read can bring: n = -1 stands for no event.  Datagrams may be empty.
Comes(way) == {-1} \cup {n \in (IF way = "udp2tcp" THEN 0 ELSE 1)..Chunk : n <= Bytes - shared[way].come}

\* Both descriptors are read before anything is written; the write is of what was
\* ready when poll returned.
Passed(way, n, sent) ==
  LET b == IF n = -1 THEN shared[way] ELSE Read(shared[way], n)
      most == Min({cbGetContinuousCount(b), MAX_MESSAGE_SIZE})
  IN IF sent /\ shared[way].polled /\ most > 0
     THEN {Written(b, k) : k \in IF way = "udp2tcp" THEN 1..most ELSE {most}} ELSE {b}

Iterate ==
  /\ pc[0] = "poll"
  /\ \E n \in Comes("tcp2udp"), m \in Comes("udp2tcp"), s, u \in BOOLEAN :
       \E b \in Passed("tcp2udp", n, s), c \in Passed("udp2tcp", m, u) :
         shared' = [way \in Ways |-> IF way = "tcp2udp" THEN b ELSE c]
  /\ shared' # shared
  /\ UNCHANGED pc

\* The TCP peer has closed: the loop ends, whatever the buffers hold.
Close == pc[0] = "poll" /\ pc' = [pc EXCEPT ![0] = "done"] /\ UNCHANGED shared

\* The sides are served, whoever of them is ready.
Step(p) == p = 0 /\ Iterate

Next == Iterate \/ Close

Done == pc[0] = "done" \/ \A way \in Ways : Len(shared[way].gone) = Bytes
-----------------------------------------------------------------------------
\* The bytes the buffer holds, from the oldest to the newest.
Held(b) == [i \in 1..b.size |-> b.buf[(b.pos + i - 1) % b.capacity]]

\* Every byte that has come has gone or is held, in its order, when the buffer has
\* gone round and grown too.
RelayInOrder ==
  \A way \in Ways : LET b == shared[way] IN b.gone \o Held(b) = [i \in 1..b.come |-> i]
=============================================================================
