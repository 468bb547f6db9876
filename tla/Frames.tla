-------------------------------- MODULE Frames --------------------------------
(***************************************************************************)
(* The packets of PPCB (SIK/projekt1, common.h and common.cpp) as bytes:    *)
(* how both ends lay them out and turn their numbers round, and how they    *)
(* are found again in a stream, which comes in pieces and may break off, or *)
(* in a datagram.  ppcat.cpp writes the same packets from what is typed.    *)
(***************************************************************************)
EXTENDS Integers, Sequences, SequencesExt, TLC

PacketType == <<"CONN", "CONNACC", "CONRJT", "DATA", "ACC", "RJT", "RCVD">>
ConnType == <<"TCP", "UDP", "UDPR">>

\* The bytes of a number, the lowest first as in the host, and the number of some bytes.
Little[n \in Nat, width \in Nat] ==
  IF width = 0 THEN <<>> ELSE <<n % 256>> \o Little[n \div 256, width - 1]
FromLittle(bytes) == FoldRight(LAMBDA byte, n : 256 * n + byte, bytes, 0)

Bytes(packet, first, last) == SubSeq(packet, first, last)
Is(packet, types) == packet[1] \in DOMAIN PacketType /\ PacketType[packet[1]] \in types

sizeofHeader == 9
sizeofData == 21

\* The places of the numbers that change their order; session_id, a name, keeps it.
Numbers(packet) ==
  CASE Is(packet, {"CONN"})       -> {<<11, 18>>}
    [] Is(packet, {"DATA"})       -> {<<10, 17>>, <<18, 21>>}
    [] Is(packet, {"ACC", "RJT"}) -> {<<10, 17>>}
    [] OTHER                      -> {}

\* hton_packet and ntoh_packet do the same to a packet.
hton_packet(packet) ==
  [i \in DOMAIN packet |->
     IF \E n \in Numbers(packet) : n[1] <= i /\ i <= n[2]
       THEN LET n == CHOOSE n \in Numbers(packet) : n[1] <= i /\ i <= n[2] IN packet[n[1] + n[2] - i]
       ELSE packet[i]]
ntoh_packet(packet) == hton_packet(packet)

\* A packet in the memory of the host.
Struct(p) ==
  <<p.type>> \o p.session_id \o
    CASE p.type = 1        -> <<p.conn_type>> \o Little[p.length, 8]
      [] p.type = 4        -> Little[p.packet_id, 8] \o Little[Len(p.data), 4] \o p.data
      [] p.type \in {5, 6} -> Little[p.packet_id, 8]
      [] OTHER             -> <<>>

\* What handleConnection and sendData read in a packet once its numbers are turned.
Fields(packet) ==
  LET header == [type |-> packet[1], session_id |-> Bytes(packet, 2, 9)]
      packet_id == FromLittle(Bytes(packet, 10, 17))
  IN CASE packet[1] = 1 -> [conn_type |-> packet[10], length |-> FromLittle(Bytes(packet, 11, 18))] @@ header
       [] packet[1] = 4 -> [packet_id |-> packet_id, data |-> Bytes(packet, 22, Len(packet))] @@ header
       [] packet[1] \in {5, 6} -> [packet_id |-> packet_id] @@ header
       [] OTHER -> header

\* The size of a packet whose numbers are in the order of the host, or of the network.
sizeof_packeth(packet) ==
  CASE Is(packet, {"CONN"})       -> 18
    [] Is(packet, {"DATA"})       -> sizeofData + FromLittle(Bytes(packet, 18, 21))
    [] Is(packet, {"ACC", "RJT"}) -> 17
    [] OTHER                      -> sizeofHeader

sizeof_packetn(packet) ==
  IF Is(packet, {"DATA"}) THEN sizeofData + FromLittle(Reverse(Bytes(packet, 18, 21)))
  ELSE sizeof_packeth(packet)

validate(packet) ==
  /\ Len(packet) >= sizeofHeader
  /\ packet[1] \in DOMAIN PacketType
  /\ Is(packet, {"DATA"}) => Len(packet) >= sizeofData
  /\ Len(packet) = sizeof_packetn(packet)
  /\ Is(packet, {"CONN"}) => packet[10] \in DOMAIN ConnType

\* tcp_readn goes on until it has all the bytes or the stream ends: a packet takes its
\* header, then what the header says, or all that is left.
Readn(stream) ==
  LET short == sizeofHeader > Len(stream) \/ (Is(stream, {"DATA"}) /\ sizeofData > Len(stream))
  IN IF short \/ sizeof_packetn(stream) > Len(stream) THEN Len(stream) ELSE sizeof_packetn(stream)

\* Over TCP the packets are read one after the other; the first one that is not valid
\* ends the connection.
read_stream(stream) ==
  LET read(r, i) ==
        LET n == Readn(r.left)
            packet == Bytes(r.left, 1, n)
        IN IF r.left = <<>> \/ ~r.open \/ ~validate(packet) THEN [r EXCEPT !.open = FALSE]
           ELSE [r EXCEPT !.packets = Append(@, Fields(ntoh_packet(packet))),
                          !.left = Bytes(@, n + 1, Len(@))]
  IN FoldLeft(read, [packets |-> <<>>, left |-> stream, open |-> TRUE],
              [i \in 1..(Len(stream) \div sizeofHeader + 1) |-> i]).packets

\* Over UDP a packet is a datagram.
read_datagram(datagram) ==
  IF validate(datagram) THEN <<Fields(ntoh_packet(datagram))>> ELSE <<>>

\* input::read_packet of ppcat.cpp: a packet of the type that is named, in full or for
\* short.  Its data are as many characters as were asked for, from behind the number
\* on: the blank after it counts.
pt_from_string(name) ==
  CHOOSE i \in DOMAIN PacketType :
    name \in {PacketType[i], <<"C", "CA", "CR", "D", "A", "R", "RC">>[i]}

typed(name, p, characters) ==
  IF pt_from_string(name) = 4 THEN Struct([p EXCEPT !.data = SubSeq(characters, 1, Len(@))])
  ELSE Struct([p EXCEPT !.type = pt_from_string(name)])
=============================================================================
