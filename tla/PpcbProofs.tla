----------------------------- MODULE PpcbProofs -----------------------------
(***************************************************************************)
(* Proofs about Ppcb: the server writes the packets of a connection in     *)
(* order, and a client reports success only when it has written them all.  *)
(***************************************************************************)
EXTENDS Ppcb, FiniteSetTheorems, TLAPS

(* The order of what is written, for every network *)

\* The number the server expects is the number of packets it has written.
Counting ==
  /\ srv.id \in Nat
  /\ srv = [at |-> srv.at, session |-> srv.session, left |-> srv.left, id |-> srv.id,
            tries |-> srv.tries]
  /\ out \in Seq(Nat)
  /\ srv.at # "idle" => srv.id = Len(out)
  /\ WritesInOrder

LEMMA InitCounts == Init => Counting
<1> SUFFICES ASSUME Init PROVE Counting
  OBVIOUS
<1>1. out = <<>> /\ srv = Idle
  BY DEF Init
<1>2. srv.id = 0 /\ srv.at = "idle"
  BY <1>1 DEF Idle
<1> QED BY <1>1, <1>2 DEF Counting, Idle, WritesInOrder

\* The loop goes on with s, or the connection ends; neither writes.
LEMMA ProceedCounts ==
  ASSUME NEW s, NEW to, NEW queue, Proceed(s, to, queue)
  PROVE  srv' = s \/ srv' = Idle
BY DEF Proceed, Leave

\* A step that writes nothing and keeps the expected number, or ends the connection.
LEMMA QuietCounts ==
  ASSUME Counting, UNCHANGED out,
         \/ UNCHANGED srv
         \/ srv' = Idle
         \/ \E n : srv' = [srv EXCEPT !.tries = n]
  PROVE  Counting'
<1>1. CASE UNCHANGED srv
  BY <1>1 DEF Counting, WritesInOrder
<1>2. CASE srv' = Idle
  <2>1. srv'.id = 0 /\ srv'.at = "idle"
    BY <1>2 DEF Idle
  <2> QED BY <1>2, <2>1 DEF Counting, WritesInOrder, Idle
<1>3. ASSUME NEW n, srv' = [srv EXCEPT !.tries = n] PROVE Counting'
  <2>1. /\ srv'.at = srv.at /\ srv'.id = srv.id
        /\ srv' = [at |-> srv'.at, session |-> srv'.session, left |-> srv'.left,
                   id |-> srv'.id, tries |-> srv'.tries]
    BY <1>3 DEF Counting
  <2> QED BY <2>1 DEF Counting, WritesInOrder
<1> QED BY <1>1, <1>2, <1>3

LEMMA AgainCounts ==
  ASSUME Counting, NEW to, NEW queue, NEW counted, Again(to, queue, counted)
  PROVE  Counting'
<1>1. UNCHANGED out
  BY DEF Again
<1>2. srv' = Idle \/ \E n : srv' = [srv EXCEPT !.tries = n]
  <2>1. PICK n : n = IF counted THEN srv.tries + 1 ELSE srv.tries
    OBVIOUS
  <2>2. srv' = Idle \/ srv' = [srv EXCEPT !.tries = n]
    BY <2>1, ProceedCounts DEF Again, Leave
  <2> QED BY <2>2
<1> QED BY <1>1, <1>2, QuietCounts

\* The expected packet is the next one.
LEMMA DataCounts ==
  ASSUME Counting, srv.at # "idle", NEW m, NEW rest, NEW to, m.id = srv.id,
         Data(m, rest, to)
  PROVE  Counting'
<1>1. PICK s : s = [srv EXCEPT !.left = @ - 1, !.id = @ + 1, !.tries = 0,
                               !.at = IF type[srv.session] = "UDPR" THEN "retry" ELSE "loop"]
  OBVIOUS
<1>2. srv' = s \/ srv' = Idle
  BY <1>1, ProceedCounts DEF Data
<1>3. /\ s.id = srv.id + 1
      /\ s = [at |-> s.at, session |-> s.session, left |-> s.left, id |-> s.id,
              tries |-> s.tries]
  BY <1>1 DEF Counting
<1>4. out' = Append(out, srv.id) /\ srv.id = Len(out)
  BY DEF Data, Counting
<1>5. out' \in Seq(Nat) /\ Len(out') = Len(out) + 1
  BY <1>4 DEF Counting
<1>6. out' = [i \in 1..Len(out') |-> i - 1]
  <2>1. \A i \in 1..Len(out') : out'[i] = i - 1
    BY <1>4, <1>5 DEF Counting, WritesInOrder
  <2>2. out' = [i \in 1..Len(out') |-> out'[i]]
    BY <1>5
  <2> QED BY <2>1, <2>2
<1>7. CASE srv' = s
  BY <1>3, <1>4, <1>5, <1>6, <1>7 DEF Counting, WritesInOrder
<1>8. CASE srv' = Idle
  <2>1. srv'.id = 0 /\ srv'.at = "idle"
    BY <1>8 DEF Idle
  <2> QED BY <1>5, <1>6, <1>8, <2>1 DEF Counting, WritesInOrder, Idle
<1> QED BY <1>2, <1>7, <1>8

LEMMA AcceptCounts ==
  ASSUME Counting, NEW m, NEW rest, Accept(m, rest)
  PROVE  Counting'
<1>1. CASE m.kind # "CONN"
  <2>1. UNCHANGED <<srv, out>>
    BY <1>1 DEF Accept
  <2> QED BY <2>1, QuietCounts
<1>2. CASE m.kind = "CONN"
  <2>1. PICK s : s = [at |-> "loop", session |-> m.session, left |-> length[m.session],
                      id |-> 0, tries |-> 0]
    OBVIOUS
  <2>2. (srv' = s \/ srv' = Idle) /\ out' = <<>>
    BY <1>2, <2>1, ProceedCounts DEF Accept
  <2>3. /\ srv'.id = 0
        /\ srv' = [at |-> srv'.at, session |-> srv'.session, left |-> srv'.left,
                   id |-> srv'.id, tries |-> srv'.tries]
    BY <2>1, <2>2 DEF Idle
  <2>4. out' \in Seq(Nat) /\ Len(out') = 0 /\ out' = [i \in 1..Len(out') |-> i - 1]
    BY <2>2
  <2> QED BY <2>3, <2>4 DEF Counting, WritesInOrder
<1> QED BY <1>1, <1>2

LEMMA ServerCounts == ASSUME Counting, Serve PROVE Counting'
<1>1. CASE ServerReads
  <2>1. PICK m, rest :
          Accept(m, rest) \/ LoopReads(m, rest, m.from) \/ udprReceive(m, rest, m.from)
    BY <1>1 DEF ServerReads
  <2>2. CASE Accept(m, rest)
    BY <2>2, AcceptCounts
  <2>3. CASE LoopReads(m, rest, m.from)
    <3>1. CASE m.session # srv.session \/ m.kind # "DATA"
      BY <2>3, <3>1, QuietCounts DEF LoopReads
    <3>2. CASE m.session = srv.session /\ m.kind = "DATA" /\ m.id = srv.id
      BY <2>3, <3>2, DataCounts DEF LoopReads
    <3>3. CASE m.session = srv.session /\ m.kind = "DATA" /\ m.id # srv.id
      BY <2>3, <3>3, QuietCounts DEF LoopReads, Leave
    <3> QED BY <3>1, <3>2, <3>3
  <2>4. CASE udprReceive(m, rest, m.from)
    <3>1. CASE m.session # srv.session \/ m.kind # "DATA" \/ m.id > srv.id
      BY <2>4, <3>1, AgainCounts DEF udprReceive
    <3>2. CASE ~(m.session # srv.session \/ m.kind # "DATA" \/ m.id > srv.id)
               /\ m.id = srv.id
      BY <2>4, <3>2, DataCounts DEF udprReceive
    <3>3. CASE ~(m.session # srv.session \/ m.kind # "DATA" \/ m.id > srv.id)
               /\ m.id # srv.id
      BY <2>4, <3>3, AgainCounts DEF udprReceive
    <3> QED BY <3>1, <3>2, <3>3
  <2> QED BY <2>1, <2>2, <2>3, <2>4
<1>2. CASE ServerTimeout
  <2>1. CASE srv.at = "retry"
    BY <1>2, <2>1, AgainCounts DEF ServerTimeout
  <2>2. CASE srv.at # "retry"
    BY <1>2, <2>2, QuietCounts DEF ServerTimeout, Leave
  <2> QED BY <2>1, <2>2
<1> QED BY <1>1, <1>2 DEF Serve

LEMMA NextCounts == Counting /\ [Next]_vars => Counting'
<1> SUFFICES ASSUME Counting, [Next]_vars PROVE Counting'
  OBVIOUS
<1>1. CASE UNCHANGED vars
  BY <1>1, QuietCounts DEF vars, server
<1>2. ASSUME NEW c \in Clients, Client(c) PROVE Counting'
  <2>1. UNCHANGED <<srv, out>>
    BY <1>2 DEF Client, Connect, SendChunk, ClientReads, ClientTimeout, server
  <2> QED BY <2>1, QuietCounts
<1>3. ASSUME NEW i \in DOMAIN net, Lose(i) \/ Duplicate(i) PROVE Counting'
  <2>1. UNCHANGED <<srv, out>>
    BY <1>3 DEF Lose, Duplicate, server
  <2> QED BY <2>1, QuietCounts
<1>4. CASE Terminated
  BY <1>4, QuietCounts DEF Terminated, vars, server
<1> QED BY <1>1, <1>2, <1>3, <1>4, ServerCounts DEF Next

\* Over TCP, UDP or UDP with retransmission, for every length, every number of
\* clients and whatever the network loses, doubles or delays, the server writes the
\* packets of a connection in order and each once (handleConnection, udprReceive).
THEOREM InOrder == Spec => []WritesInOrder
<1>1. Counting => WritesInOrder
  BY DEF Counting
<1> QED BY <1>1, InitCounts, NextCounts, PTL DEF Spec
-----------------------------------------------------------------------------
(* The packets under way *)

\* Each place of a finite set of numbers has a rank, and each rank a place.
LEMMA RankedPlaces ==
  ASSUME NEW P \in SUBSET Nat, IsFiniteSet(P), NEW k \in 1..Cardinality(P)
  PROVE  \E i \in P : Cardinality({j \in P : j <= i}) = k
<1> DEFINE upto(i) == {j \in P : j <= i}
           rank == [i \in P |-> Cardinality(upto(i))]
           n == Cardinality(P)
<1>1. n \in Nat
  BY FS_CardinalityType
<1>2. ASSUME NEW i \in P
      PROVE  IsFiniteSet(upto(i)) /\ Cardinality(upto(i)) \in 1..n
  <2>1. upto(i) \in SUBSET P /\ i \in upto(i)
    OBVIOUS
  <2>2. IsFiniteSet(upto(i)) /\ Cardinality(upto(i)) <= n
    BY <2>1, FS_Subset
  <2>3. Cardinality(upto(i)) \in Nat
    BY <2>2, FS_CardinalityType
  <2>4. Cardinality(upto(i)) # 0
    BY <2>1, <2>2, FS_EmptySet
  <2> QED BY <2>2, <2>3, <2>4, <1>1
<1>3. ASSUME NEW i \in P, NEW j \in P, i < j
      PROVE  rank[i] # rank[j]
  <2>0. i \in Nat /\ j \in Nat /\ \A x \in P : x \in Nat
    OBVIOUS
  <2>1. \A x \in upto(i) : x \in upto(j)
    BY <1>3, <2>0
  <2>3. j \in upto(j) /\ j \notin upto(i)
    BY <1>3, <2>0
  <2>2. Cardinality(upto(i)) # Cardinality(upto(j))
    <3>1. upto(i) \in SUBSET upto(j) /\ upto(i) # upto(j)
      BY <2>1, <2>3
    <3> QED BY <3>1, <1>2, FS_Subset
  <2> QED BY <2>2
<1>4. rank \in [P -> 1..n]
  BY <1>2
<1>5. \A i, j \in P : rank[i] = rank[j] => i = j
  <2> SUFFICES ASSUME NEW i \in P, NEW j \in P, i # j PROVE rank[i] # rank[j]
    OBVIOUS
  <2>1. i < j \/ j < i
    OBVIOUS
  <2> QED BY <2>1, <1>3
<1>6. rank \in Injection(P, 1..n)
  BY <1>4, <1>5 DEF Injection, IsInjective
<1>7. IsFiniteSet(1..n) /\ Cardinality(1..n) = n
  BY <1>1, FS_Interval
<1>8. rank \in Surjection(P, 1..n)
  BY <1>6, <1>7, FS_Injection
<1>9. \E i \in P : rank[i] = k
  BY <1>8 DEF Surjection
<1> QED BY <1>9

\* What is kept of a queue was in it.
LEMMA KeptOf ==
  ASSUME NEW S, NEW queue \in Seq(S), NEW P \in SUBSET DOMAIN queue
  PROVE  Kept(queue, P) \in Seq(S)
<1> DEFINE place(k) == CHOOSE i \in P : Cardinality({j \in P : j <= i}) = k
           n == Cardinality(P)
<1>1. DOMAIN queue = 1..Len(queue) /\ Len(queue) \in Nat
  OBVIOUS
<1>2. IsFiniteSet(P) /\ P \in SUBSET Nat
  <2>1. IsFiniteSet(1..Len(queue)) /\ P \in SUBSET (1..Len(queue))
    BY <1>1, FS_Interval
  <2> QED BY <2>1, FS_Subset
<1>3. n \in Nat
  BY <1>2, FS_CardinalityType
<1>4. ASSUME NEW k \in 1..n PROVE queue[place(k)] \in S
  <2>1. \E i \in P : Cardinality({j \in P : j <= i}) = k
    BY <1>2, RankedPlaces
  <2>2. place(k) \in P
    BY <2>1
  <2> QED BY <2>2, <1>1
<1>5. Kept(queue, P) = [k \in 1..n |-> queue[place(k)]]
  BY DEF Kept
<1> HIDE DEF place, n
<1> QED BY <1>3, <1>4, <1>5

LEMMA PutOf ==
  ASSUME NEW S, NEW queue \in Seq(S), NEW packets \in Seq(S)
  PROVE  Put(queue, packets) \in Seq(S)
<1>1. PICK P : P = {i \in DOMAIN packets : packets[i].to = Server \/ ~Done(packets[i].to)}
  OBVIOUS
<1>2. Kept(packets, P) \in Seq(S)
  BY <1>1, KeptOf
<1>3. Put(queue, packets) = queue \o Kept(packets, P)
  BY <1>1 DEF Put
<1> QED BY <1>2, <1>3

LEMMA RemovedOf ==
  ASSUME NEW S, NEW queue \in Seq(S), NEW i \in DOMAIN queue
  PROVE  queue[i] \in S /\ RemoveAt(queue, i) \in Seq(S)
BY DEF RemoveAt

\* The packets there can be when the sessions of done are complete: a RCVD tells the
\* truth.
Kinds == {"CONN", "CONNACC", "CONRJT", "DATA", "ACC", "RJT", "RCVD"}

Messages(done) ==
  {m \in [kind : Kinds, from : Clients \cup {Server}, to : Clients \cup {Server},
          session : Clients, id : Int] :
     /\ m.kind = "RCVD" => m.session \in done
     /\ m.to = Server => m.from \in Clients}

LEMMA MoreMessages ==
  ASSUME NEW done, NEW later, done \subseteq later, NEW queue \in Seq(Messages(done))
  PROVE  queue \in Seq(Messages(later))
<1>1. Messages(done) \subseteq Messages(later)
  BY DEF Messages
<1>2. \A i \in 1..Len(queue) : queue[i] \in Messages(later)
  BY <1>1
<1> QED BY <1>2

LEMMA FromClientIs ==
  ASSUME NEW c \in Clients, NEW done, NEW kind \in {"CONN", "DATA"}, NEW id \in Int
  PROVE  FromClient(c, kind, id) \in Messages(done)
BY DEF FromClient, Packet, Messages, Kinds

LEMMA ReplyIs ==
  ASSUME NEW c \in Clients, NEW to \in Clients, NEW done, NEW id \in Int,
         NEW kind \in Kinds, kind = "RCVD" => c \in done
  PROVE  Reply(kind, to, c, id) \in Messages(done)
BY DEF Reply, Packet, Messages
-----------------------------------------------------------------------------
(* Only complete transfers succeed *)

Places == {"start", "conn", "send", "ack", "rcvd", "ok", "failed"}

\* The clients and the network: a RCVD under way, and a client that has read one,
\* speak of a complete session.
ClientsFit ==
  /\ pc \in [Clients -> Places] /\ number \in [Clients -> Nat]
  /\ net \in Seq(Messages(complete))
  /\ SuccessIsReal

\* The server: what is left and what is written are together the whole.
ServerFits ==
  /\ length \in [Clients -> Nat]
  /\ prev_addr \in Clients \cup {None}
  /\ srv.at # "idle" => /\ srv.session \in Clients /\ srv.left \in Nat \ {0}
                        /\ srv.left + Len(out) = length[srv.session]

Transfer == Counting /\ ClientsFit /\ ServerFits

LEMMA InitFits == Init => Transfer
<1> SUFFICES ASSUME Init PROVE ClientsFit /\ ServerFits
  BY InitCounts DEF Transfer
<1>1. length \in [Clients -> Nat]
  <2>1. PICK plan \in Plans : length = [c \in Clients |-> plan[c].length]
    BY DEF Init
  <2>2. ASSUME NEW c \in Clients PROVE plan[c].length \in Nat
    <3>1. plan \in [Clients -> [type : {"TCP", "UDP", "UDPR"},
                                length : 0..(ByteSize * ByteSize - 1)]]
      BY PpcbAssumption
    <3>2. plan[c].length \in 0..(ByteSize * ByteSize - 1)
      BY <3>1
    <3> QED BY <3>2
  <2> QED BY <2>1, <2>2
<1>2. srv.at = "idle"
  BY DEF Init, Idle
<1> QED BY <1>1, <1>2 DEF Init, ClientsFit, ServerFits, SuccessIsReal, Places

\* The server keeps what it has while a client steps.
LEMMA SameServer ==
  ASSUME ServerFits, UNCHANGED <<env, server>>
  PROVE  ServerFits'
BY DEF ServerFits, env, server

LEMMA ExitFits ==
  ASSUME ClientsFit, UNCHANGED complete, NEW c \in Clients, NEW verdict \in {"ok", "failed"},
         verdict = "ok" => c \in complete,
         NEW queue \in Seq(Messages(complete)), Exit(c, verdict, queue)
  PROVE  ClientsFit'
<1>1. net' \in Seq(Messages(complete))
  <2>1. PICK P : P = {i \in DOMAIN queue : queue[i].to # c}
    OBVIOUS
  <2>2. net' = Kept(queue, P)
    BY <2>1 DEF Exit
  <2> QED BY <2>1, <2>2, KeptOf
<1>2. /\ pc' = [pc EXCEPT ![c] = verdict] /\ UNCHANGED number
      /\ verdict \in Places
  BY DEF Exit, Wait, Places
<1>3. pc' \in [Clients -> Places] /\ number' \in [Clients -> Nat]
  BY <1>2 DEF ClientsFit
<1>4. \A d \in Clients : pc'[d] = "ok" => d \in complete'
  BY <1>2 DEF ClientsFit, SuccessIsReal
<1> QED BY <1>1, <1>3, <1>4 DEF ClientsFit, SuccessIsReal

\* A client that goes on: it waits somewhere else, or for the same.
LEMMA GoesOn ==
  ASSUME ClientsFit, UNCHANGED complete, NEW c \in Clients, NEW place \in Places \ {"ok"},
         UNCHANGED pc \/ Wait(c, place),
         number' \in [Clients -> Nat], net' \in Seq(Messages(complete))
  PROVE  ClientsFit'
<1>1. pc' \in [Clients -> Places]
  BY DEF ClientsFit, Wait
<1>2. \A d \in Clients : pc'[d] = "ok" => d \in complete'
  BY DEF ClientsFit, SuccessIsReal, Wait
<1> QED BY <1>1, <1>2 DEF ClientsFit, SuccessIsReal

LEMMA SendsDATA ==
  ASSUME NEW c \in Clients, NEW id \in Nat, NEW queue \in Seq(Messages(complete))
  PROVE  /\ Put(queue, <<FromClient(c, "DATA", id)>>) \in Seq(Messages(complete))
         /\ Append(queue, FromClient(c, "DATA", id)) \in Seq(Messages(complete))
<1>1. FromClient(c, "DATA", id) \in Messages(complete)
  BY FromClientIs
<1>2. <<FromClient(c, "DATA", id)>> \in Seq(Messages(complete))
  BY <1>1
<1>3. Put(queue, <<FromClient(c, "DATA", id)>>) \in Seq(Messages(complete))
  BY <1>2, PutOf
<1> QED BY <1>1, <1>3

LEMMA NextChunkFits ==
  ASSUME ClientsFit, UNCHANGED complete, NEW c \in Clients, NEW id \in Nat,
         NEW queue \in Seq(Messages(complete)), NextChunk(c, id, queue)
  PROVE  ClientsFit'
<1>1. number' \in [Clients -> Nat]
  BY DEF NextChunk, ClientsFit
<1>2. net' \in Seq(Messages(complete))
  BY SendsDATA DEF NextChunk
<1>3. Wait(c, "rcvd") \/ Wait(c, "ack") \/ Wait(c, "send")
  BY DEF NextChunk
<1> QED BY <1>1, <1>2, <1>3, GoesOn DEF Places

LEMMA ResendFits ==
  ASSUME ClientsFit, UNCHANGED complete, NEW c \in Clients,
         NEW queue \in Seq(Messages(complete)), Resend(c, queue)
  PROVE  ClientsFit'
<1>1. number[c] \in Nat /\ number' \in [Clients -> Nat]
  BY DEF Resend, ClientsFit
<1>2. net' \in Seq(Messages(complete))
  BY <1>1, SendsDATA DEF Resend
<1>3. UNCHANGED pc /\ "ack" \in Places \ {"ok"}
  BY DEF Resend, Places
<1> QED BY <1>1, <1>2, <1>3, GoesOn

LEMMA ClientFits ==
  ASSUME ClientsFit, NEW c \in Clients, Client(c)
  PROVE  ClientsFit'
<1>0. /\ UNCHANGED complete
      /\ net \in Seq(Messages(complete)) /\ number[c] \in Nat /\ number[c] + 1 \in Nat
  BY DEF Client, Connect, SendChunk, ClientReads, ClientTimeout, server, ClientsFit
<1>1. CASE Connect(c)
  <2>1. FromClient(c, "CONN", 0) \in Messages(complete)
    BY FromClientIs
  <2>2. <<FromClient(c, "CONN", 0)>> \in Seq(Messages(complete))
    BY <2>1
  <2>3. Put(net, <<FromClient(c, "CONN", 0)>>) \in Seq(Messages(complete))
    BY <1>0, <2>2, PutOf
  <2>4. /\ Wait(c, "conn") /\ number' \in [Clients -> Nat]
        /\ net' \in Seq(Messages(complete)) /\ "conn" \in Places \ {"ok"}
    BY <1>1, <2>3 DEF Connect, ClientsFit, Places
  <2> QED BY <1>0, <2>4, GoesOn
<1>2. CASE SendChunk(c)
  <2>1. Append(net, FromClient(c, "DATA", number[c])) \in Seq(Messages(complete))
    BY <1>0, SendsDATA
  <2>2. CASE c \in closed
    <3>1. Exit(c, "failed", net)
      BY <1>2, <2>2 DEF SendChunk
    <3> QED BY <1>0, <3>1, ExitFits
  <2>3. CASE c \notin closed
    <3>1. NextChunk(c, number[c] + 1, Append(net, FromClient(c, "DATA", number[c])))
      BY <1>2, <2>3 DEF SendChunk
    <3> QED BY <1>0, <2>1, <3>1, NextChunkFits
  <2> QED BY <2>2, <2>3
<1>3. CASE ClientReads(c)
  <2>1. PICK i \in DOMAIN net :
          \/ ConnAnswer(c, net[i], RemoveAt(net, i))
          \/ AckAnswer(c, net[i], RemoveAt(net, i))
          \/ LastAnswer(c, net[i], RemoveAt(net, i))
    BY <1>3 DEF ClientReads
  <2>2. PICK m, rest : m = net[i] /\ rest = RemoveAt(net, i)
    OBVIOUS
  <2>3. m \in Messages(complete) /\ rest \in Seq(Messages(complete))
    BY <1>0, <2>2, RemovedOf
  <2>4. CASE ConnAnswer(c, m, rest)
    <3>1. CASE m.session # c
      <4>1. net' = rest /\ UNCHANGED pc /\ number' \in [Clients -> Nat]
            /\ "conn" \in Places \ {"ok"}
        BY <2>4, <3>1 DEF ConnAnswer, client, ClientsFit, Places
      <4> QED BY <1>0, <2>3, <4>1, GoesOn
    <3>2. CASE m.session = c
      <4>1. NextChunk(c, 0, rest) \/ Exit(c, "failed", rest)
        BY <2>4, <3>2 DEF ConnAnswer
      <4> QED BY <1>0, <2>3, <4>1, NextChunkFits, ExitFits
    <3> QED BY <3>1, <3>2
  <2>5. CASE AckAnswer(c, m, rest)
    <3>1. Resend(c, rest) \/ NextChunk(c, number[c] + 1, rest) \/ Exit(c, "failed", rest)
      BY <2>5 DEF AckAnswer
    <3> QED BY <1>0, <2>3, <3>1, ResendFits, NextChunkFits, ExitFits
  <2>6. CASE LastAnswer(c, m, rest)
    <3>1. CASE m.session = c /\ m.kind = "RCVD"
      <4>1. c \in complete /\ Exit(c, "ok", rest)
        BY <2>3, <2>6, <3>1 DEF LastAnswer, Messages
      <4> QED BY <1>0, <2>3, <4>1, ExitFits
    <3>2. CASE ~(m.session = c /\ m.kind = "RCVD")
      <4>1. Exit(c, "failed", rest)
        BY <2>6, <3>2 DEF LastAnswer
      <4> QED BY <1>0, <2>3, <4>1, ExitFits
    <3> QED BY <3>1, <3>2
  <2> QED BY <2>1, <2>2, <2>4, <2>5, <2>6
<1>4. CASE ClientTimeout(c)
  <2>1. Resend(c, net) \/ Exit(c, "failed", net)
    BY <1>4 DEF ClientTimeout
  <2> QED BY <1>0, <2>1, ResendFits, ExitFits
<1> QED BY <1>1, <1>2, <1>3, <1>4 DEF Client

LEMMA BeforeIs == ASSUME NEW id \in Int PROVE Before(id) \in Int
<1>1. PICK b \in Nat : b = ByteSize * ByteSize /\ b > 0
  <2>1. ByteSize \in Nat /\ ByteSize > 1
    BY PpcbAssumption
  <2> QED BY <2>1
<1> QED BY <1>1 DEF Before

\* Where the loop goes: on with s while something is left, and to the end, with a
\* RCVD, when nothing is.
LEMMA ProceedFits ==
  ASSUME NEW s, s.session \in Clients, s.left \in Nat, s.id \in Int,
         NEW to \in Clients, NEW queue \in Seq(Messages(complete)), Proceed(s, to, queue)
  PROVE  /\ net' \in Seq(Messages(complete')) /\ complete \subseteq complete'
         /\ \/ s.left = 0 /\ srv' = Idle /\ complete' = complete \cup {s.session}
            \/ s.left # 0 /\ srv' = s /\ UNCHANGED complete
<1> DEFINE ack == Reply("ACC", to, s.session, Before(s.id))
           rcvd == Reply("RCVD", to, s.session, 0)
<1>1. CASE s.left # 0
  <2>1. ack \in Messages(complete)
    BY BeforeIs, ReplyIs DEF Kinds
  <2>2. <<ack>> \in Seq(Messages(complete)) /\ <<>> \in Seq(Messages(complete))
    BY <2>1
  <2>3. net' = Put(queue, <<ack>>) \/ net' = Put(queue, <<>>)
    BY <1>1 DEF Proceed
  <2>4. net' \in Seq(Messages(complete))
    BY <2>2, <2>3, PutOf
  <2>5. srv' = s /\ UNCHANGED complete
    BY <1>1 DEF Proceed
  <2> QED BY <1>1, <2>4, <2>5
<1>2. CASE s.left = 0
  <2>1. PICK later : later = complete \cup {s.session}
    OBVIOUS
  <2>2. srv' = Idle /\ complete' = later
    BY <1>2, <2>1 DEF Proceed, Leave
  <2>3. ack \in Messages(later)
    BY BeforeIs, ReplyIs DEF Kinds
  <2>4. rcvd \in Messages(later)
    BY <2>1, ReplyIs DEF Kinds
  <2>5. <<ack>> \o <<rcvd>> \in Seq(Messages(later)) /\ <<>> \o <<rcvd>> \in Seq(Messages(later))
    BY <2>3, <2>4
  <2>6. net' = Put(queue, <<ack>> \o <<rcvd>>) \/ net' = Put(queue, <<>> \o <<rcvd>>)
    BY <1>2 DEF Proceed
  <2>7. queue \in Seq(Messages(later))
    BY <2>1, MoreMessages
  <2>8. net' \in Seq(Messages(later))
    BY <2>5, <2>6, <2>7, PutOf
  <2> QED BY <1>2, <2>1, <2>2, <2>8
<1> QED BY <1>1, <1>2

LEMMA RejectionIs ==
  ASSUME NEW current, NEW m \in Messages(complete), NEW to \in Clients
  PROVE  Rejection(current, m, to) \in Seq(Messages(complete))
<1>0. m.session \in Clients /\ m.id \in Int
  BY DEF Messages
<1>1. /\ Reply("CONRJT", to, m.session, 0) \in Messages(complete)
      /\ Reply("RJT", to, m.session, m.id) \in Messages(complete)
  BY <1>0, ReplyIs DEF Kinds
<1> QED BY <1>1 DEF Rejection

\* A session is complete only when its server has written as many packets as its
\* client was started with.
Complete == \A c \in complete' \ complete : Len(out') = length[c]

\* What a step of the server brings about.
Served ==
  /\ ServerFits'
  /\ net' \in Seq(Messages(complete')) /\ complete \subseteq complete'
  /\ Complete

\* The connection ends without being complete, or nothing of it changes but tries.
LEMMA NothingServed ==
  ASSUME ServerFits, UNCHANGED <<env, out>>, prev_addr' \in Clients \cup {None},
         net' \in Seq(Messages(complete)), UNCHANGED complete,
         \/ srv' = Idle
         \/ UNCHANGED srv
  PROVE  Served
<1>1. Idle.at = "idle"
  BY DEF Idle
<1>2. ServerFits'
  BY <1>1 DEF ServerFits, env
<1> QED BY <1>2 DEF Served, Complete

\* The loop goes on with s, which counts what is written by now.
LEMMA LoopServed ==
  ASSUME Counting, UNCHANGED env, length \in [Clients -> Nat],
         prev_addr' \in Clients \cup {None},
         NEW to \in Clients, NEW queue \in Seq(Messages(complete)),
         NEW s, s.session \in Clients, s.left \in Nat, s.id \in Int,
         s.left + Len(out') = length[s.session], Len(out') \in Nat, Proceed(s, to, queue)
  PROVE  Served
<1>1. /\ net' \in Seq(Messages(complete')) /\ complete \subseteq complete'
      /\ \/ s.left = 0 /\ srv' = Idle /\ complete' = complete \cup {s.session}
         \/ s.left # 0 /\ srv' = s /\ UNCHANGED complete
  BY ProceedFits
<1>2. Idle.at = "idle"
  BY DEF Idle
<1>3. ServerFits'
  BY <1>1, <1>2 DEF ServerFits, env
<1>4. Complete
  BY <1>1 DEF Complete
<1> QED BY <1>1, <1>3, <1>4 DEF Served

LEMMA AgainServed ==
  ASSUME Counting, ServerFits, srv.at # "idle", UNCHANGED env,
         prev_addr' \in Clients \cup {None},
         NEW to \in Clients, NEW queue \in Seq(Messages(complete)), NEW counted,
         Again(to, queue, counted)
  PROVE  Served
<1>1. CASE counted /\ srv.tries + 1 = MaxRetransmits
  <2>1. srv' = Idle /\ UNCHANGED <<complete, out>> /\ net' = queue
    BY <1>1 DEF Again, Leave
  <2> QED BY <2>1, NothingServed
<1>2. CASE ~(counted /\ srv.tries + 1 = MaxRetransmits)
  <2>1. PICK s : s = [srv EXCEPT !.tries = IF counted THEN @ + 1 ELSE @]
    OBVIOUS
  <2>2. Proceed(s, to, queue) /\ UNCHANGED out
    BY <1>2, <2>1 DEF Again
  <2>3. s.session = srv.session /\ s.left = srv.left /\ s.id = srv.id
    BY <2>1 DEF Counting
  <2>4. /\ s.session \in Clients /\ s.left \in Nat /\ s.id \in Int
        /\ s.left + Len(out') = length[s.session] /\ Len(out') \in Nat
        /\ length \in [Clients -> Nat]
    BY <2>2, <2>3 DEF ServerFits, Counting
  <2> QED BY <2>2, <2>4, LoopServed
<1> QED BY <1>1, <1>2

LEMMA DataServed ==
  ASSUME Counting, ServerFits, srv.at # "idle", UNCHANGED env,
         prev_addr' \in Clients \cup {None},
         NEW m \in Messages(complete), NEW rest \in Seq(Messages(complete)), NEW to \in Clients,
         m.id = srv.id, Data(m, rest, to)
  PROVE  Served
<1>1. PICK s : s = [srv EXCEPT !.left = @ - 1, !.id = @ + 1, !.tries = 0,
                               !.at = IF type[srv.session] = "UDPR" THEN "retry" ELSE "loop"]
  OBVIOUS
<1>2. s.session = srv.session /\ s.left = srv.left - 1 /\ s.id = srv.id + 1
  BY <1>1 DEF Counting
<1>3. Proceed(s, to, rest) /\ Len(out') = Len(out) + 1 /\ Len(out) \in Nat
  BY <1>1 DEF Data, Counting
<1>4. /\ s.session \in Clients /\ s.left \in Nat /\ s.id \in Int
      /\ s.left + Len(out') = length[s.session] /\ Len(out') \in Nat
      /\ length \in [Clients -> Nat]
  BY <1>2, <1>3 DEF ServerFits, Counting
<1> QED BY <1>3, <1>4, LoopServed

LEMMA AcceptServed ==
  ASSUME Counting, ServerFits, UNCHANGED env,
         NEW m \in Messages(complete), NEW rest \in Seq(Messages(complete)), Accept(m, rest)
  PROVE  Served
<1>1. PICK to : to = Dest(prev_addr, m.session)
  OBVIOUS
<1>2. m.session \in Clients /\ to \in Clients /\ prev_addr' \in Clients \cup {None}
  BY <1>1 DEF Messages, Dest, ServerFits, Accept
<1>3. CASE m.kind # "CONN"
  <2>1. net' = Put(rest, Rejection(None, m, to)) /\ UNCHANGED <<srv, out, complete>>
    BY <1>1, <1>3 DEF Accept
  <2>2. Rejection(None, m, to) \in Seq(Messages(complete))
    BY <1>2, RejectionIs
  <2>3. net' \in Seq(Messages(complete))
    BY <2>1, <2>2, PutOf
  <2> QED BY <1>2, <2>1, <2>3, NothingServed
<1>4. CASE m.kind = "CONN"
  <2>1. PICK s : s = [at |-> "loop", session |-> m.session, left |-> length[m.session],
                      id |-> 0, tries |-> 0]
    OBVIOUS
  <2>2. PICK queue : queue = Put(rest, <<Reply("CONNACC", to, m.session, 0)>>)
    OBVIOUS
  <2>3. Proceed(s, to, queue) /\ out' = <<>>
    BY <1>1, <1>4, <2>1, <2>2 DEF Accept
  <2>4. Reply("CONNACC", to, m.session, 0) \in Messages(complete)
    BY <1>2, ReplyIs DEF Kinds
  <2>5. <<Reply("CONNACC", to, m.session, 0)>> \in Seq(Messages(complete))
    BY <2>4
  <2>6. queue \in Seq(Messages(complete))
    BY <2>2, <2>5, PutOf
  <2>7. /\ s.session \in Clients /\ s.left \in Nat /\ s.id \in Int
        /\ s.left + Len(out') = length[s.session] /\ Len(out') \in Nat
        /\ length \in [Clients -> Nat]
    BY <1>2, <2>1, <2>3 DEF ServerFits
  <2> QED BY <1>2, <2>3, <2>6, <2>7, LoopServed
<1> QED BY <1>3, <1>4

LEMMA OthersRejected ==
  ASSUME ServerFits, UNCHANGED <<env, srv, out, complete>>, prev_addr' \in Clients \cup {None},
         NEW m \in Messages(complete), NEW rest \in Seq(Messages(complete)), NEW to \in Clients,
         NEW current, net' = Put(rest, Rejection(current, m, to))
  PROVE  Served
<1>1. Rejection(current, m, to) \in Seq(Messages(complete))
  BY RejectionIs
<1>2. net' \in Seq(Messages(complete))
  BY <1>1, PutOf
<1> QED BY <1>2, NothingServed

LEMMA ServerReadsServed ==
  ASSUME Counting, ServerFits, net \in Seq(Messages(complete)), ServerReads
  PROVE  Served
<1>0. UNCHANGED env
  BY DEF ServerReads
<1>1. PICK i \in DOMAIN net :
        /\ net[i].to = Server
        /\ \/ Accept(net[i], RemoveAt(net, i))
           \/ /\ prev_addr' = IF Tcp(net[i].from) THEN prev_addr ELSE net[i].from
              /\ \/ LoopReads(net[i], RemoveAt(net, i), net[i].from)
                 \/ udprReceive(net[i], RemoveAt(net, i), net[i].from)
  BY DEF ServerReads, Takes
<1>2. PICK m, rest : m = net[i] /\ rest = RemoveAt(net, i)
  OBVIOUS
<1>3. m \in Messages(complete) /\ rest \in Seq(Messages(complete))
  BY <1>2, RemovedOf
<1>4. CASE Accept(m, rest)
  BY <1>0, <1>3, <1>4, AcceptServed
<1>5. ASSUME prev_addr' = IF Tcp(m.from) THEN prev_addr ELSE m.from,
             LoopReads(m, rest, m.from) \/ udprReceive(m, rest, m.from)
      PROVE  Served
  <2>1. m.from \in Clients
    BY <1>1, <1>2, <1>3 DEF Messages
  <2>2. prev_addr' \in Clients \cup {None}
    BY <1>5, <2>1 DEF ServerFits
  <2>3. srv.at # "idle"
    BY <1>5 DEF LoopReads, udprReceive
  <2>4. CASE LoopReads(m, rest, m.from)
    <3>1. CASE m.session # srv.session \/ m.kind # "DATA"
      <4>1. /\ net' = Put(rest, Rejection(srv.session, m, m.from))
            /\ UNCHANGED <<srv, out, complete>>
        BY <2>4, <3>1 DEF LoopReads
      <4> QED BY <1>0, <1>3, <2>1, <2>2, <4>1, OthersRejected
    <3>2. CASE m.session = srv.session /\ m.kind = "DATA" /\ m.id = srv.id
      <4>1. Data(m, rest, m.from)
        BY <2>4, <3>2 DEF LoopReads
      <4> QED BY <1>0, <1>3, <2>1, <2>2, <2>3, <3>2, <4>1, DataServed
    <3>3. CASE m.session = srv.session /\ m.kind = "DATA" /\ m.id # srv.id
      <4>1. srv' = Idle /\ UNCHANGED <<complete, out>> /\ net' = rest
        BY <2>4, <3>3 DEF LoopReads, Leave
      <4> QED BY <1>0, <1>3, <2>2, <4>1, NothingServed
    <3> QED BY <3>1, <3>2, <3>3
  <2>5. CASE udprReceive(m, rest, m.from)
    <3> DEFINE other == m.session # srv.session \/ m.kind # "DATA" \/ m.id > srv.id
    <3>1. CASE other
      <4>1. Again(m.from, Put(rest, Rejection(srv.session, m, m.from)), FALSE)
        BY <2>5, <3>1 DEF udprReceive
      <4>2. Rejection(srv.session, m, m.from) \in Seq(Messages(complete))
        BY <1>3, <2>1, RejectionIs
      <4>3. Put(rest, Rejection(srv.session, m, m.from)) \in Seq(Messages(complete))
        BY <1>3, <4>2, PutOf
      <4> QED BY <1>0, <2>1, <2>2, <2>3, <4>1, <4>3, AgainServed
    <3>2. CASE ~other /\ m.id = srv.id
      <4>1. Data(m, rest, m.from)
        BY <2>5, <3>2 DEF udprReceive
      <4> QED BY <1>0, <1>3, <2>1, <2>2, <2>3, <3>2, <4>1, DataServed
    <3>3. CASE ~other /\ m.id # srv.id
      <4>1. Again(m.from, rest, TRUE)
        BY <2>5, <3>3 DEF udprReceive
      <4> QED BY <1>0, <1>3, <2>1, <2>2, <2>3, <4>1, AgainServed
    <3> QED BY <3>1, <3>2, <3>3
  <2> QED BY <1>5, <2>4, <2>5
<1> QED BY <1>1, <1>2, <1>4, <1>5

LEMMA ServerTimeoutServed ==
  ASSUME Counting, ServerFits, net \in Seq(Messages(complete)), ServerTimeout
  PROVE  Served
<1>1. /\ srv.at # "idle" /\ UNCHANGED <<env, prev_addr>>
      /\ srv.session \in Clients /\ prev_addr \in Clients \cup {None}
  BY DEF ServerTimeout, ServerFits
<1>2. CASE srv.at = "retry"
  <2>1. PICK to : to = Dest(prev_addr, srv.session)
    OBVIOUS
  <2>2. to \in Clients /\ prev_addr' \in Clients \cup {None}
    BY <1>1, <2>1 DEF Dest
  <2>3. Again(to, net, TRUE)
    BY <1>2, <2>1 DEF ServerTimeout
  <2> QED BY <1>1, <2>2, <2>3, AgainServed
<1>3. CASE srv.at # "retry"
  <2>1. PICK P : P = {i \in DOMAIN net : net[i].from # srv.session \/ ~Tcp(srv.session)}
    OBVIOUS
  <2>2. srv' = Idle /\ UNCHANGED <<complete, out>> /\ net' = Kept(net, P)
    BY <1>3, <2>1 DEF ServerTimeout, Leave
  <2>3. net' \in Seq(Messages(complete))
    BY <2>1, <2>2, KeptOf
  <2>4. prev_addr' \in Clients \cup {None}
    BY <1>1
  <2> QED BY <1>1, <2>2, <2>3, <2>4, NothingServed
<1> QED BY <1>2, <1>3

LEMMA NextFits ==
  ASSUME Transfer, [Next]_vars
  PROVE  Transfer' /\ complete \subseteq complete' /\ Complete
<1>0. Counting /\ ClientsFit /\ ServerFits /\ net \in Seq(Messages(complete))
  BY DEF Transfer, ClientsFit
<1>1. Counting'
  BY <1>0, NextCounts
<1>2. ASSUME UNCHANGED complete, ClientsFit', ServerFits'
      PROVE  Transfer' /\ complete \subseteq complete' /\ Complete
  BY <1>1, <1>2 DEF Transfer, Complete
<1>3. CASE UNCHANGED vars
  <2>1. ClientsFit'
    BY <1>0, <1>3 DEF ClientsFit, SuccessIsReal, vars, client, server
  <2>2. ServerFits' /\ UNCHANGED complete
    BY <1>0, <1>3, SameServer DEF vars, server
  <2> QED BY <2>1, <2>2, <1>2
<1>4. ASSUME NEW c \in Clients, Client(c)
      PROVE  Transfer' /\ complete \subseteq complete' /\ Complete
  <2>1. UNCHANGED <<env, server>>
    BY <1>4 DEF Client, Connect, SendChunk, ClientReads, ClientTimeout
  <2>2. ServerFits' /\ UNCHANGED complete
    BY <1>0, <2>1, SameServer DEF server
  <2>3. ClientsFit'
    BY <1>0, <1>4, ClientFits
  <2> QED BY <2>2, <2>3, <1>2
<1>5. CASE Serve
  <2>1. Served
    BY <1>0, <1>5, ServerReadsServed, ServerTimeoutServed DEF Serve
  <2>2. UNCHANGED client
    BY <1>5 DEF Serve, ServerReads, ServerTimeout
  <2>3. ClientsFit'
    BY <1>0, <2>1, <2>2 DEF Served, ClientsFit, SuccessIsReal, client
  <2> QED BY <1>1, <2>1, <2>3 DEF Served, Transfer
<1>6. ASSUME NEW i \in DOMAIN net, Lose(i) \/ Duplicate(i)
      PROVE  Transfer' /\ complete \subseteq complete' /\ Complete
  <2>1. UNCHANGED <<env, client, server>>
    BY <1>6 DEF Lose, Duplicate
  <2>2. net[i] \in Messages(complete) /\ RemoveAt(net, i) \in Seq(Messages(complete))
    BY <1>0, RemovedOf
  <2>3. net' \in Seq(Messages(complete))
    <3>1. Append(net, net[i]) \in Seq(Messages(complete))
      BY <1>0, <2>2
    <3>2. net' = RemoveAt(net, i) \/ net' = Append(net, net[i])
      BY <1>6 DEF Lose, Duplicate
    <3> QED BY <2>2, <3>1, <3>2
  <2>4. ClientsFit'
    BY <1>0, <2>1, <2>3 DEF ClientsFit, SuccessIsReal, client, server
  <2>5. ServerFits' /\ UNCHANGED complete
    BY <1>0, <2>1, SameServer DEF server
  <2> QED BY <2>4, <2>5, <1>2
<1>7. CASE Terminated
  BY <1>3, <1>7 DEF Terminated
<1> QED BY <1>3, <1>4, <1>5, <1>6, <1>7 DEF Next

\* Whatever the network loses, doubles, delays or reorders, for any number of clients
\* of every protocol that share the one server and its prev_addr, a client that
\* reports success had its own session received in full: a RCVD that prev_addr sends
\* to the wrong client is not believed (client.cpp 146-159, server.cpp 19-82).
THEOREM NoFalseSuccess == Spec => []SuccessIsReal
<1>1. Transfer => SuccessIsReal
  BY DEF Transfer, ClientsFit
<1>2. Transfer /\ [Next]_vars => Transfer'
  BY NextFits
<1> QED BY <1>1, <1>2, InitFits, PTL DEF Spec

\* RCVD is earned: the step in which a session becomes complete leaves all the
\* packets its client was started with in the output, in their order, and what was
\* complete once stays complete (the loop and the end of handleConnection).
THEOREM CompleteWhenWritten ==
  Spec => [][complete \subseteq complete' /\ Complete /\ WritesInOrder']_vars
<1>1. Transfer /\ [Next]_vars => Transfer'
  BY NextFits
<1>2. Transfer /\ [Next]_vars
        => [complete \subseteq complete' /\ Complete /\ WritesInOrder']_vars
  BY NextFits, NextCounts DEF Transfer, Counting
<1> QED BY <1>1, <1>2, InitFits, PTL DEF Spec
=============================================================================
