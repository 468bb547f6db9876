-------------------------------- MODULE Ppcb --------------------------------
(***************************************************************************)
(* The PPCB transfer (SIK/projekt1): clients that send a sequence of bytes *)
(* over TCP, UDP, or UDP with retransmission (UDPR), and the server that   *)
(* serves them one at a time and writes what it gets to its output.        *)
(*                                                                         *)
(* A step of a process is everything between two of its waits for a        *)
(* packet.  The data of a packet is its number.  A session is named by the *)
(* client that drew its random number, which is also that client's         *)
(* address.  Over UDP packets are lost, duplicated and reordered; a wait   *)
(* ends early when its packet is slower than MAX_WAIT.  All of these       *)
(* together happen at most MaxFaults times.                                *)
(***************************************************************************)
EXTENDS Integers, Sequences, SequencesExt, FiniteSets

CONSTANTS
  Clients,
  Plans,           \* what the clients may be started with: protocol and packets of data
  MaxRetransmits,  \* MAX_RETRANSMITS
  ByteSize,        \* values of a byte; a packet number has two of them
  MaxFaults,       \* bound: faults of the network
  None

ASSUME PpcbAssumption ==
  /\ ByteSize \in Nat /\ ByteSize > 1
  /\ \A plan \in Plans :
       /\ plan \in [Clients -> [type : {"TCP", "UDP", "UDPR"}, length : 0..(ByteSize * ByteSize - 1)]]
       /\ \A c, d \in Clients : plan[c].type = "TCP" => plan[d].type = "TCP"
  /\ MaxRetransmits \in Nat \ {0} /\ MaxFaults \in Nat
  /\ None \notin Clients

Server == "server"

VARIABLES
  type,       \* type[c], length[c]: what the client is started with
  length,
  pc,         \* pc[c]: what the client waits for
  number,     \* number[c]: packet_id
  tries,      \* tries[c]: i of udprSend
  srv,        \* the server: place, session, bytes_left, packet_id and i
  prev_addr,  \* the global variable of the server
  out,        \* what the server has written for its last connection
  net,        \* the packets on their way
  closed,     \* TCP connections the server has closed
  complete,   \* the sessions the server has received in full
  faults, harmless

client == <<pc, number, tries>>
env    == <<type, length>>
blame  == <<faults, harmless>>
server == <<srv, prev_addr, out, closed, complete>>
vars   == <<env, client, server, net, blame>>

Idle == [at |-> "idle", session |-> None, left |-> 0, id |-> 0, tries |-> 0]

Init ==
  /\ \E plan \in Plans : /\ type = [c \in Clients |-> plan[c].type]
                         /\ length = [c \in Clients |-> plan[c].length]
  /\ pc = [c \in Clients |-> "start"]
  /\ number = [c \in Clients |-> 0] /\ tries = [c \in Clients |-> 0]
  /\ srv = Idle /\ prev_addr = None /\ out = <<>>
  /\ net = <<>> /\ closed = {} /\ complete = {}
  /\ faults = 0 /\ harmless = TRUE
-----------------------------------------------------------------------------
(* Packets and the network *)

Packet(kind, from, to, session, id) ==
  [kind |-> kind, from |-> from, to |-> to, session |-> session, id |-> id]

FromClient(c, kind, id) == Packet(kind, c, Server, c, id)

\* packet_id - 1 in an unsigned type.
Before(id) == (id - 1) % (ByteSize * ByteSize)

\* A number in the byte order of the other end, read without a conversion.
Swapped(id) == (id % ByteSize) * ByteSize + id \div ByteSize

Done(c) == pc[c] \in {"ok", "failed"}
Tcp(c) == type[c] = "TCP"

\* The packets at some places of a queue, in order.
Kept(queue, places) ==
  [k \in 1..Cardinality(places) |->
     queue[CHOOSE i \in places : Cardinality({j \in places : j <= i}) = k]]

\* What reaches a socket that is still open.
Put(queue, packets) ==
  queue \o Kept(packets, {i \in DOMAIN packets :
                            packets[i].to = Server \/ ~Done(packets[i].to)})

Fault(ok) ==
  /\ faults < MaxFaults
  /\ faults' = faults + 1 /\ harmless' = (harmless /\ ok)

\* p takes packet i, out of order only when the network reorders.
Takes(p, i) ==
  /\ i \in DOMAIN net /\ net[i].to = p
  /\ IF \E j \in 1..(i - 1) : net[j].from = net[i].from /\ net[j].to = p
       THEN ~Tcp(net[i].session) /\ Fault(FALSE)
       ELSE UNCHANGED blame

\* MAX_WAIT passes: nothing is on its way, or it is too slow.
TimesOut(ok) ==
  IF net = <<>> /\ \A c \in Clients : pc[c] # "send" THEN UNCHANGED blame ELSE Fault(ok)

\* The end of the stream of q, which has closed its connection.
EndOfStream(q) == Tcp(q) /\ \A i \in DOMAIN net : net[i].session # q

\* What both sides wait for and send again: all DATA but the first, for which the
\* server waits only once, and all ACC but the last.
Repeated(m) ==
  /\ type[m.session] = "UDPR"
  /\ \/ m.kind = "DATA" /\ m.id > 0
     \/ m.kind = "ACC" /\ m.id + 1 < length[m.session]

Lose(i) ==
  /\ ~Tcp(net[i].session)
  /\ net' = RemoveAt(net, i)
  /\ Fault(Repeated(net[i]))
  /\ UNCHANGED <<env, client, server>>

Duplicate(i) ==
  /\ ~Tcp(net[i].session)
  /\ net' = Append(net, net[i])
  /\ Fault(FALSE)
  /\ UNCHANGED <<env, client, server>>
-----------------------------------------------------------------------------
(* The client *)

Wait(c, place) == pc' = [pc EXCEPT ![c] = place]

\* The client exits; its socket is closed.
Exit(c, verdict, queue) ==
  /\ Wait(c, verdict)
  /\ net' = Kept(queue, {i \in DOMAIN queue : queue[i].to # c})
  /\ UNCHANGED <<number, tries>>

Connect(c) ==
  /\ pc[c] = "start"
  /\ Wait(c, "conn")
  /\ net' = Put(net, <<FromClient(c, "CONN", 0)>>)
  /\ UNCHANGED <<env, number, tries, server, blame>>

\* The loop over the data reaches packet id.
NextChunk(c, id, queue) ==
  /\ number' = [number EXCEPT ![c] = id] /\ tries' = [tries EXCEPT ![c] = 0]
  /\ IF id = length[c] THEN Wait(c, "rcvd") /\ net' = queue
     ELSE IF type[c] = "UDPR"
       THEN Wait(c, "ack") /\ net' = Put(queue, <<FromClient(c, "DATA", id)>>)
       ELSE Wait(c, "send") /\ net' = queue

Resend(c, queue) ==
  /\ net' = Put(queue, <<FromClient(c, "DATA", number[c])>>)
  /\ UNCHANGED <<pc, number>>

\* Without retransmission the packets are sent one after another.
SendChunk(c) ==
  /\ pc[c] = "send"
  /\ IF c \in closed THEN Exit(c, "failed", net)
     ELSE NextChunk(c, number[c] + 1, Append(net, FromClient(c, "DATA", number[c])))
  /\ UNCHANGED <<env, server, blame>>

ConnAnswer(c, m, rest) ==
  /\ pc[c] = "conn"
  /\ IF m.session # c THEN net' = rest /\ UNCHANGED client
     ELSE IF m.kind = "CONNACC" THEN NextChunk(c, 0, rest)
     ELSE Exit(c, "failed", rest)

\* Fault: an answer to an earlier packet is taken for an error.
AckAnswerStrict(c, m, rest) ==
  /\ pc[c] = "ack"
  /\ IF m.session = c /\ m.kind = "ACC" /\ m.id = number[c]
       THEN NextChunk(c, number[c] + 1, rest)
       ELSE Exit(c, "failed", rest)

\* The numbers are compared as they came and as they were sent.
AckAnswer(c, m, rest) ==
  LET got == Swapped(m.id)  want == Swapped(number[c]) IN
  /\ pc[c] = "ack"
  /\ IF m.session # c \/ (m.kind \in {"ACC", "RJT"} /\ got < want)
       THEN Resend(c, rest) /\ UNCHANGED tries
     ELSE IF m.kind = "ACC" /\ got = want THEN NextChunk(c, number[c] + 1, rest)
     ELSE Exit(c, "failed", rest)

\* Fault: a CONNACC that comes again is taken for RCVD.
LastAnswerAny(c, m, rest) ==
  /\ pc[c] = "rcvd"
  /\ Exit(c, IF m.session = c /\ m.kind \in {"RCVD", "CONNACC"} THEN "ok" ELSE "failed", rest)

LastAnswer(c, m, rest) ==
  /\ pc[c] = "rcvd"
  /\ Exit(c, IF m.session = c /\ m.kind = "RCVD" THEN "ok" ELSE "failed", rest)

ClientReads(c) ==
  /\ \E i \in DOMAIN net :
       /\ Takes(c, i)
       /\ LET m == net[i]  rest == RemoveAt(net, i) IN
          ConnAnswer(c, m, rest) \/ AckAnswer(c, m, rest) \/ LastAnswer(c, m, rest)
  /\ UNCHANGED <<env, server>>

\* Only udprSend tries again; over TCP the end of the stream ends the wait too.
ClientTimeout(c) ==
  /\ pc[c] \in {"conn", "ack", "rcvd"}
  /\ IF c \in closed /\ EndOfStream(c) THEN UNCHANGED blame
     ELSE TimesOut(pc[c] = "ack")
  /\ IF pc[c] = "ack" /\ tries[c] + 1 < MaxRetransmits
       THEN Resend(c, net) /\ tries' = [tries EXCEPT ![c] = @ + 1]
       ELSE Exit(c, "failed", net)
  /\ UNCHANGED <<env, server>>

Client(c) == Connect(c) \/ SendChunk(c) \/ ClientReads(c) \/ ClientTimeout(c)
-----------------------------------------------------------------------------
(* The server *)

\* Where writen sends: to whoever read_packet last heard of, if anybody.
Dest(prev, session) == IF prev = None \/ Tcp(session) THEN session ELSE prev

Reply(kind, to, session, id) == Packet(kind, Server, to, session, id)

\* The packets send_rjt sends after m.
Rejection(current, m, to) ==
  IF m.kind = "CONN" /\ m.session # current THEN <<Reply("CONRJT", to, m.session, 0)>>
  ELSE IF m.kind = "DATA" THEN <<Reply("RJT", to, m.session, m.id)>>
  ELSE <<>>

\* handleConnection throws or returns, and tcpServer closes the connection.
Leave(session, full) ==
  /\ srv' = Idle
  /\ closed' = closed \cup (IF Tcp(session) THEN {session} ELSE {})
  /\ complete' = complete \cup (IF full THEN {session} ELSE {})

\* The head of the loop of handleConnection, up to the next wait.
Proceed(s, to, queue) ==
  LET ack(id) == IF type[s.session] = "UDPR" THEN <<Reply("ACC", to, s.session, id)>>
                 ELSE <<>>
  IN IF s.left = 0
       THEN /\ Leave(s.session, TRUE)
            /\ net' = Put(queue, ack(Before(s.id)) \o <<Reply("RCVD", to, s.session, 0)>>)
       ELSE /\ srv' = s
            /\ net' = Put(queue, IF s.at = "retry" THEN ack(Before(s.id)) ELSE <<>>)
            /\ UNCHANGED <<closed, complete>>

\* udpServer and tcpServer: only a CONN starts a connection.
Accept(m, rest) ==
  LET c == m.session  to == Dest(prev_addr, c) IN
  /\ srv.at = "idle"
  /\ IF m.kind = "CONN"
       THEN /\ Proceed([at |-> "loop", session |-> c, left |-> length[c], id |-> 0,
                        tries |-> 0],
                       to, Put(rest, <<Reply("CONNACC", to, c, 0)>>))
            /\ out' = <<>>
       ELSE /\ net' = Put(rest, Rejection(None, m, to))
            /\ UNCHANGED <<srv, out, closed, complete>>
  /\ UNCHANGED prev_addr

\* The expected packet: it is written, and the next one waited for.
Data(m, rest, to) ==
  /\ out' = Append(out, m.id)
  /\ Proceed([srv EXCEPT !.left = @ - 1, !.id = @ + 1, !.tries = 0,
                         !.at = IF type[srv.session] = "UDPR" THEN "retry" ELSE "loop"],
             to, rest)

\* The first packet of a connection, and all of them without retransmission.
LoopReads(m, rest, to) ==
  /\ srv.at = "loop"
  /\ IF m.session # srv.session \/ m.kind # "DATA"
       THEN /\ net' = Put(rest, Rejection(srv.session, m, to))
            /\ UNCHANGED <<srv, out, closed, complete>>
     ELSE IF m.id = srv.id THEN Data(m, rest, to)
     ELSE Leave(srv.session, FALSE) /\ net' = rest /\ UNCHANGED out

\* Fault: the rounds are not counted.
AgainForever(to, queue, counted) ==
  Proceed([srv EXCEPT !.tries = IF counted THEN 0 ELSE @], to, queue) /\ UNCHANGED out

\* One more round of udprReceive, which sends the ACC again.
Again(to, queue, counted) ==
  /\ IF counted /\ srv.tries + 1 = MaxRetransmits
       THEN Leave(srv.session, FALSE) /\ net' = queue
       ELSE Proceed([srv EXCEPT !.tries = IF counted THEN @ + 1 ELSE @], to, queue)
  /\ UNCHANGED out

\* Fault: an earlier packet is written once more.
ReceiveOld(m, rest, to) ==
  /\ srv.at = "retry"
  /\ IF m.session # srv.session \/ m.kind # "DATA" \/ m.id > srv.id
       THEN Again(to, Put(rest, Rejection(srv.session, m, to)), FALSE)
     ELSE Data(m, rest, to)

udprReceive(m, rest, to) ==
  /\ srv.at = "retry"
  /\ IF m.session # srv.session \/ m.kind # "DATA" \/ m.id > srv.id
       THEN Again(to, Put(rest, Rejection(srv.session, m, to)), FALSE)
     ELSE IF m.id = srv.id THEN Data(m, rest, to)
     ELSE Again(to, rest, TRUE)

ServerReads ==
  /\ \E i \in DOMAIN net :
       /\ Takes(Server, i)
       /\ LET m == net[i]  rest == RemoveAt(net, i) IN
          \/ Accept(m, rest)
          \/ /\ Tcp(m.from) => m.from = srv.session
             /\ prev_addr' = IF Tcp(m.from) THEN prev_addr ELSE m.from
             /\ LoopReads(m, rest, m.from) \/ udprReceive(m, rest, m.from)
  /\ UNCHANGED <<env, client>>

\* The server waits for ever only between connections.
ServerTimeout ==
  /\ srv.at # "idle"
  /\ IF Done(srv.session) /\ EndOfStream(srv.session) THEN UNCHANGED blame
     ELSE TimesOut(srv.at = "retry")
  /\ IF srv.at = "retry"
       THEN Again(Dest(prev_addr, srv.session), net, TRUE)
     ELSE /\ Leave(srv.session, FALSE)
          /\ net' = Kept(net, {i \in DOMAIN net : net[i].from # srv.session \/ ~Tcp(srv.session)})
          /\ UNCHANGED out
  /\ UNCHANGED <<env, client, prev_addr>>

Serve == ServerReads \/ ServerTimeout

Terminated ==
  /\ \A c \in Clients : Done(c)
  /\ net = <<>> /\ srv = Idle
  /\ UNCHANGED vars

Next ==
  \/ \E c \in Clients : Client(c)
  \/ Serve
  \/ \E i \in DOMAIN net : Lose(i) \/ Duplicate(i)
  \/ Terminated

\* The processes are scheduled and their timers run.
Spec == Init /\ [][Next]_vars /\ WF_vars(Serve) /\ \A c \in Clients : WF_vars(Client(c))
-----------------------------------------------------------------------------
\* Whatever the network does, the server writes the packets of a connection in
\* order, each once (handleConnection, server.cpp 19-82).
WritesInOrder == out = [i \in 1..Len(out) |-> i - 1]

\* A client succeeds only when its server has all the bytes (client.cpp 146-159).
SuccessIsReal == \A c \in Clients : pc[c] = "ok" => c \in complete

\* What retransmission is for (README.md, "Mechanizm retransmisji"): losses of
\* DATA and ACC, and answers slower than MAX_WAIT, do not make a UDPR client fail
\* when there are fewer of them than tries.  The code keeps this for a client that
\* is alone and has at least one packet and no number of two bytes, and not for
\* the first DATA and the last ACC.
Recovers ==
  \A c \in Clients :
    /\ pc[c] = "failed" /\ type[c] = "UDPR"
    /\ harmless /\ faults < MaxRetransmits
    => \/ length[c] \notin 1..ByteSize
       \/ \E d \in Clients \ {c} : pc[d] # "start"

\* Every client ends, and the server gets free again: retransmissions that cross
\* each other die out.
TransfersEnd == <>[]((\A c \in Clients : Done(c)) /\ srv = Idle)
=============================================================================
