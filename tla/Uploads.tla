------------------------------- MODULE Uploads -------------------------------
(***************************************************************************)
(* SIK/miniprojekty/3: file-client-tcp.c sends a header, a name and a file   *)
(* over TCP; file-server-tcp.c has a thread for each connection, which       *)
(* writes the file and adds its length to a total.  Every read gives a part   *)
(* of what has come.  The buffers of stdio are left out.                     *)
(***************************************************************************)
EXTENDS Integers, Sequences, SequencesExt, FiniteSetsExt

CONSTANTS
  Lengths,     \* of the file of each client
  BUF_SIZE

VARIABLES pc, shared
\* pc[c]: client c, pc[Thread(c)]: its thread.  shared: the names of the files, the
\* streams, what client and thread have done, the files stored and total_size.

vars == <<pc, shared>>

Clients == DOMAIN Lengths
Thread(c) == c + Len(Lengths)
Header == 2      \* a header may come in two parts, a name comes in one
Hole == <<0, 0>>
Garbage == 0     \* what an uninitialized name is taken for

\* The bytes of a file are numbered, with their client.
Content(c) == [i \in 1..Lengths[c] |-> <<c, i>>]
Stream(c) == [i \in 1..Header + 1 |-> Hole] \o Content(c)

Init ==
  /\ pc = [p \in 1..2 * Len(Lengths) |-> IF p \in Clients THEN "write" ELSE "header"]
  /\ \E same \in BOOLEAN :
       shared = [name |-> [c \in Clients |-> IF same THEN 1 ELSE c], written |-> [c \in Clients |-> 0],
                 stream |-> [c \in Clients |-> <<>>], stopped |-> {}, reset |-> {},
                 parts |-> [c \in Clients |-> 0], length |-> [c \in Clients |-> 0],
                 to |-> [c \in Clients |-> Garbage], offset |-> [c \in Clients |-> 0],
                 file |-> [n \in Clients \cup {Garbage} |-> <<>>], total_size |-> 0]
-----------------------------------------------------------------------------
(* The client *)

\* writen: as much is written as the stream takes, until all has gone.
writen(c) ==
  LET left == SubSeq(Stream(c), shared.written[c] + 1, Len(Stream(c))) IN
  /\ pc[c] = "write"
  /\ IF left = <<>> THEN pc' = [pc EXCEPT ![c] = "done"] /\ UNCHANGED shared
     ELSE /\ \E n \in 1..Min({BUF_SIZE, Len(left)}) :
               shared' = [shared EXCEPT !.written[c] = @ + n, !.stream[c] = @ \o SubSeq(left, 1, n)]
          /\ UNCHANGED pc

\* The client is stopped in the middle, or the connection is reset and the end of what
\* was written may be lost.
Stop(c) ==
  /\ pc[c] = "write" /\ shared.written[c] < Len(Stream(c))
  /\ \/ shared' = [shared EXCEPT !.stopped = @ \cup {c}]
     \/ \E n \in 0..Len(shared.stream[c]) :
          shared' = [shared EXCEPT !.stopped = @ \cup {c}, !.reset = @ \cup {c},
                                   !.stream[c] = SubSeq(@, 1, n)]
  /\ pc' = [pc EXCEPT ![c] = "done"]
-----------------------------------------------------------------------------
(* handle_connection *)

At(c, place) == pc[Thread(c)] = place
Go(c, place) == pc' = [pc EXCEPT ![Thread(c)] = place]
Ended(c) == shared.stream[c] = <<>> /\ pc[c] = "done" /\ c \notin shared.reset
Taken(c, n) == [shared EXCEPT !.stream[c] = SubSeq(@, n + 1, Len(@))]

\* readn of the header, read by read.  At the end of the stream it returns less than
\* a header, which is not an error here: the rest of it is whatever there was.
ReadHeader(c) ==
  /\ At(c, "header")
  /\ IF Ended(c)
     THEN \/ Go(c, "done") /\ UNCHANGED shared
          \/ /\ \E length \in 0..2 : shared' = [shared EXCEPT !.length[c] = length]
             /\ Go(c, "name")
     ELSE \E n \in 1..Min({Header - shared.parts[c], Len(shared.stream[c])}) :
            LET all == shared.parts[c] + n = Header IN
            /\ shared' = [Taken(c, n) EXCEPT !.parts[c] = @ + n, !.length[c] = IF all THEN Lengths[c] ELSE 0]
            /\ Go(c, IF all THEN "name" ELSE "header")

ReadName(c) ==
  /\ At(c, "name")
  /\ \/ Ended(c) /\ UNCHANGED shared
     \/ shared.stream[c] # <<>> /\ shared' = [Taken(c, 1) EXCEPT !.to[c] = shared.name[c]]
  /\ Go(c, "open")

\* After a second the file is made anew.
Open(c) ==
  /\ At(c, "open")
  /\ shared' = [shared EXCEPT !.file[shared.to[c]] = <<>>]
  /\ Go(c, "read")

\* The file with bytes from some place on.
Stored(file, offset, bytes) ==
  [i \in 1..Max({Len(file), offset + Len(bytes)}) |->
     CASE i \in offset + 1..offset + Len(bytes) -> bytes[i - offset]
       [] i \notin offset + 1..offset + Len(bytes) /\ i <= Len(file) -> file[i]
       [] OTHER -> Hole]

\* Fault: what one read gives is taken for the whole file.
RemainingNone(c, n) == IF n > 0 THEN 0 ELSE shared.length[c] - shared.offset[c]

\* remaining -= nread.
Remaining(c, n) == shared.length[c] - shared.offset[c] - n

\* The bytes that have come, no more than are left of the file; the length is added
\* to the total even when the stream has ended before.
ReadFile(c) ==
  /\ At(c, "read")
  /\ IF Remaining(c, 0) = 0 \/ Ended(c) THEN Go(c, "add") /\ UNCHANGED shared
     ELSE \E n \in 1..Min({Remaining(c, 0), BUF_SIZE, Len(shared.stream[c])}) :
            /\ shared' = [Taken(c, n) EXCEPT !.offset[c] = @ + n,
                            !.file[shared.to[c]] = Stored(@, shared.offset[c], SubSeq(shared.stream[c], 1, n))]
            /\ Go(c, IF Remaining(c, n) = 0 THEN "add" ELSE "read")

atomic_fetch_add(c) ==
  /\ At(c, "add")
  /\ shared' = [shared EXCEPT !.total_size = @ + shared.length[c]]
  /\ Go(c, "done")

\* A read after a reset fails, and nothing is added to the total.
ReadFails(c) ==
  /\ At(c, "header") \/ At(c, "name") \/ (At(c, "read") /\ Remaining(c, 0) > 0)
  /\ shared.stream[c] = <<>> /\ c \in shared.reset
  /\ Go(c, "done") /\ UNCHANGED shared

handle_connection(c) ==
  ReadHeader(c) \/ ReadName(c) \/ Open(c) \/ ReadFile(c) \/ atomic_fetch_add(c) \/ ReadFails(c)

Step(p) ==
  \/ p \in Clients /\ writen(p)
  \/ \E c \in Clients : p = Thread(c) /\ handle_connection(c)

Next == (\E p \in DOMAIN pc : Step(p)) \/ (\E c \in Clients : Stop(c))

Done == \A p \in DOMAIN pc : pc[p] = "done"
-----------------------------------------------------------------------------
\* A file that no other client names is stored whole and in order, however it came in
\* pieces, unless its client was stopped, and then a beginning of it is; the bytes of
\* two of one name stay in their places; and the total counts every file once, and no
\* file whose connection was reset.
UploadsWhole ==
  /\ \A c \in Clients : LET file == shared.file[shared.name[c]] IN
       /\ \A i \in DOMAIN file : file[i] = Hole \/ file[i][2] = i
       /\ \A d \in Clients \ {c} : shared.name[d] # shared.name[c] =>
            /\ IsPrefix(file, Content(c))
            /\ pc[Thread(c)] = "done" /\ c \notin shared.stopped => file = Content(c)
  /\ Done => shared.total_size >= MapThenSumSet(LAMBDA c : Lengths[c], Clients \ shared.stopped)
  /\ shared.stopped = shared.reset => shared.total_size =
       MapThenSumSet(LAMBDA c : Lengths[c], {c \in Clients \ shared.reset : pc[Thread(c)] = "done"})
=============================================================================
