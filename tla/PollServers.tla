----------------------------- MODULE PollServers -----------------------------
(***************************************************************************)
(* SIK/miniprojekty/4: three servers that wait for all their connections in *)
(* one poll.  poll-server.c reads what clients send; poll-server-count.c     *)
(* also tells on a control connection how many there are;                    *)
(* echo-server-nonblocking.c sends back what it reads.  Poll, the accepts    *)
(* and the service of each descriptor are steps, clients act in between.     *)
(***************************************************************************)
EXTENDS Integers, Sequences, FiniteSets, SequencesExt, FiniteSetsExt

CONSTANTS
  CONNECTIONS,     \* descriptors given to poll
  Clients,         \* bound: clients of each kind of server
  Bytes            \* bound: bytes each client sends, of each kind of server

VARIABLES pc, shared
\* pc[0]: the server; pc[c]: a client.  shared: which server, its descriptors (0: none)
\* and what poll reported, the connections, and for each client its socket.

vars == <<pc, shared>>

Kinds == {"poll", "count", "echo"}
Signal == 4
Controller == 3     \* the client that asks for the count

Slots == IF shared.kind = "count" THEN 3..CONNECTIONS + 1 ELSE 1..CONNECTIONS - 1
Control == 2
Descriptors == 1..CONNECTIONS + 1
Occupied == {i \in Slots : shared.fd[i] # 0}

Init ==
  \E kind \in Kinds :
    /\ pc = [p \in {0} \cup Clients[kind] |-> IF p = 0 THEN "poll" ELSE "away"]
    /\ shared = [kind |-> kind, finish |-> FALSE, open |-> TRUE, active |-> 0,
                 fd |-> [i \in Descriptors |-> 0], ready |-> [i \in Descriptors |-> {}],
                 events |-> [i \in Descriptors |-> "in"], unsent |-> [i \in Descriptors |-> <<>>],
                 queue |-> [k \in {0, 1} |-> <<>>], accept |-> {},
                 socket |-> [c \in Clients[kind] |-> [state |-> "none", in |-> <<>>, sent |-> 0, back |-> <<>>]]]
-----------------------------------------------------------------------------
(* Clients: client.c, echo-client-timeout.c *)

Set(c, state) == [shared.socket EXCEPT ![c].state = state]

\* Who connects waits in the queue of the listening socket; 1 is the control socket.
\* Clients are alike: they come in the order of their numbers.
Listener(c) == IF shared.kind = "count" /\ c = Controller THEN 1 ELSE 0

connect(c) ==
  /\ pc[c] = "away" /\ \A d \in DOMAIN pc \ {0, Controller} : d < c => pc[d] # "away"
  /\ IF shared.open
     THEN /\ pc' = [pc EXCEPT ![c] = "talks"]
          /\ shared' = [shared EXCEPT !.queue[Listener(c)] = Append(@, c), !.socket = Set(c, "up")]
     ELSE pc' = [pc EXCEPT ![c] = "left"] /\ UNCHANGED shared

send(c) ==
  LET s == shared.socket[c] IN
  /\ pc[c] = "talks" /\ s.state = "up" /\ s.sent < Bytes[shared.kind][c]
  /\ shared' = [shared EXCEPT !.socket[c] = [@ EXCEPT !.sent = @ + 1, !.in = Append(@, s.sent + 1)]]
  /\ UNCHANGED pc

\* The client closes, or its connection is reset and what it has sent is lost.
leave(c) ==
  /\ pc[c] = "talks"
  /\ pc' = [pc EXCEPT ![c] = "left"]
  /\ \E how \in {"closed", "reset"} :
       shared' = [shared EXCEPT !.socket[c] =
                    IF @.state # "up" THEN @
                    ELSE [@ EXCEPT !.state = how, !.in = IF how = "reset" THEN <<>> ELSE @]]

SIGINT == ~shared.finish /\ shared' = [shared EXCEPT !.finish = TRUE] /\ UNCHANGED pc
-----------------------------------------------------------------------------
(* The server *)

Continues(s) == ~s.finish \/ s.active # 0 \/ (s.kind = "count" /\ s.fd[Control] # 0)
Again(s) == pc' = [pc EXCEPT ![0] = IF Continues(s) THEN "poll" ELSE "done"]

revents(i) ==
  LET s == shared.socket[shared.fd[i]]
      read == shared.events[i] = "in" /\ (s.in # <<>> \/ s.state # "up")
  IN IF shared.fd[i] = 0 THEN {}
     ELSE {e \in {"in", "out", "err"} :
             CASE e = "in" -> read
               [] e = "out" -> shared.events[i] = "out"
               [] e = "err" -> s.state = "reset"}

\* After the signal the listening socket is closed, with those that wait there.  Only
\* the first CONNECTIONS descriptors are polled.
Poll ==
  LET open == ~shared.finish
      now == [i \in Descriptors |-> IF i \in 1..CONNECTIONS - 1 THEN revents(i) ELSE {}]
      waits == {k \in {0, 1} : open /\ shared.queue[k] # <<>>}
      lost == {c \in DOMAIN shared.socket : ~open /\ Contains(shared.queue[Listener(c)], c)}
      polled == [shared EXCEPT !.open = open, !.accept = waits, !.ready = now,
                   !.queue = IF open THEN @ ELSE [k \in {0, 1} |-> <<>>],
                   !.socket = [c \in DOMAIN @ |-> IF c \in lost THEN [@[c] EXCEPT !.state = "refused"] ELSE @[c]]]
  IN /\ pc[0] = "poll"
     /\ shared' = polled
     /\ IF waits # {} \/ \E i \in Descriptors : now[i] # {}
        THEN pc' = [pc EXCEPT ![0] = "accept"] ELSE Again(polled)

Refused(s, c) == [s EXCEPT !.socket[c].state = "refused"]

\* Fault: the slot is not looked for.
TakenFirst(s, c) == [s EXCEPT !.fd[Min(Slots)] = c, !.active = @ + 1]

\* The client in the first free slot, or turned away.
Taken(s, c) ==
  IF Occupied = Slots THEN Refused(s, c)
  ELSE LET i == Min(Slots \ Occupied)
       IN [s EXCEPT !.fd[i] = c, !.events[i] = "in", !.active = @ + 1]

\* The control socket takes one client at a time.
TakenControl(s, c) ==
  IF s.fd[Control] # 0 THEN Refused(s, c) ELSE [s EXCEPT !.fd[Control] = c, !.events[Control] = "in"]

\* After the signal none is accepted, whatever poll has found.
Accept ==
  LET accepted == IF shared.finish THEN {} ELSE shared.accept
      first == IF 0 \in accepted THEN Taken(shared, Head(shared.queue[0])) ELSE shared
      both == IF 1 \in accepted THEN TakenControl(first, Head(shared.queue[1])) ELSE first
  IN /\ pc[0] = "accept"
     /\ shared' = [both EXCEPT !.accept = {},
                               !.queue = [k \in {0, 1} |-> IF k \in accepted THEN Tail(@[k]) ELSE @[k]]]
     /\ pc' = [pc EXCEPT ![0] = "serve"]

Dropped(s, i) == [s EXCEPT !.fd[i] = 0, !.active = @ - 1]

\* read gives what has come, nothing at the end and an error after a reset.
Failing(c) == shared.socket[c].in = <<>>

ReadOff(i) ==
  IF Failing(shared.fd[i]) THEN Dropped(shared, i)
  ELSE [shared EXCEPT !.socket[shared.fd[i]].in = <<>>]

\* One command, then the control connection is closed.
AnswerCount(i) ==
  LET c == shared.fd[i]
      answered == IF Failing(c) THEN shared ELSE [shared EXCEPT !.socket[c].back = <<shared.active>>]
  IN [answered EXCEPT !.fd[i] = 0]

\* What is read is kept and the descriptor polled for writing.
EchoRead(i) ==
  LET c == shared.fd[i] IN
  IF Failing(c) THEN Dropped(shared, i)
  ELSE [shared EXCEPT !.unsent[i] = shared.socket[c].in, !.events[i] = "out", !.socket[c].in = <<>>]

\* A write takes some of the bytes.  To a client that has closed it may bring a reset.
\* When the read of the same turn has dropped the client, the write fails too.
EchoWrite(s, i) ==
  LET c == s.fd[i]
      written(n, state) ==
        [s EXCEPT !.unsent[i] = SubSeq(@, n + 1, Len(@)), !.events[i] = IF n = Len(s.unsent[i]) THEN "in" ELSE @,
                  !.socket[c].back = @ \o SubSeq(s.unsent[i], 1, n), !.socket[c].state = state]
  IN IF c = 0 \/ s.socket[c].state = "reset" THEN {Dropped(s, i)}
     ELSE {written(n, state) : n \in 1..Len(s.unsent[i]),
             state \in {s.socket[c].state} \cup (IF s.socket[c].state = "closed" THEN {"reset"} ELSE {})}

Echoed(i) ==
  LET read == IF shared.ready[i] \cap {"in", "err"} # {} THEN EchoRead(i) ELSE shared
  IN IF "out" \in shared.ready[i] THEN EchoWrite(read, i) ELSE {read}

\* The descriptor served next: the control connection after the others.
Turn == LET due == {i \in Descriptors : shared.ready[i] # {}}
        IN IF due \cap Slots # {} THEN Min(due \cap Slots) ELSE Min(due)

\* One descriptor is served, with one of the outcomes.
Serve(outcomes) ==
  /\ pc[0] = "serve"
  /\ IF \A i \in Descriptors : shared.ready[i] = {} THEN Again(shared) /\ UNCHANGED shared
     ELSE /\ \E s \in outcomes : shared' = [s EXCEPT !.ready[Turn] = {}]
          /\ UNCHANGED pc

poll_server == shared.kind = "poll" /\ (Poll \/ Accept \/ Serve({ReadOff(Turn)}))

poll_server_count ==
  shared.kind = "count" /\
    (Poll \/ Accept \/ Serve({IF Turn = Control THEN AnswerCount(Turn) ELSE ReadOff(Turn)}))

echo_server == shared.kind = "echo" /\ (Poll \/ Accept \/ Serve(Echoed(Turn)))

Step(p) ==
  \/ p = 0 /\ (poll_server \/ poll_server_count \/ echo_server)
  \/ p \in DOMAIN pc \ {0} /\ (connect(p) \/ send(p) \/ leave(p))
  \/ p = Signal /\ SIGINT

Next == \E p \in 0..Signal : Step(p)

Done == pc = [p \in DOMAIN pc |-> IF p = 0 THEN "done" ELSE "left"]

\* What keeps a server from its end: the counting one does not poll the slots of its
\* clients, so it never notices that one has left; the echo one takes a client that was
\* reset while it wrote for two, and its counter has passed below zero.
Hangs ==
  \/ shared.kind = "count" /\ Occupied # {}
  \/ shared.kind = "echo" /\ shared.active < 0
-----------------------------------------------------------------------------
\* The count is that of the occupied slots and the server does not end before they
\* are free, but for clients of the echo server that were reset; nobody is served
\* twice; and what comes back to a client is what it sent, in order.
ServersKeepCount ==
  LET reset == {c \in DOMAIN shared.socket : shared.socket[c].state = "reset"}
      doubled == IF shared.kind = "echo" THEN Cardinality(reset) ELSE 0
  IN /\ shared.active \in Cardinality(Occupied) - doubled..Cardinality(Occupied)
     /\ pc[0] = "done" => Cardinality(Occupied) <= doubled
     /\ \A i, j \in Occupied : shared.fd[i] = shared.fd[j] => i = j
     /\ shared.kind = "echo" =>
          \A c \in DOMAIN shared.socket : IsPrefix(shared.socket[c].back, [n \in 1..Bytes["echo"][c] |-> n])
=============================================================================
