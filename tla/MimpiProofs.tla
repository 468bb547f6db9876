----------------------------- MODULE MimpiProofs -----------------------------
(***************************************************************************)
(* Proofs about Mimpi: the variables keep their types through a stream of  *)
(* blocks that is cut into messages again, no Recv sleeps over its         *)
(* message, and the whole implements the channels of MessagePassing.       *)
(***************************************************************************)
EXTENDS Mimpi, WellFoundedInduction, FiniteSetTheorems, SequenceTheorems, TLAPS

(* The inductive invariant *)

Sending == {"sendCheck", "sendFirst", "sendMore"}
Receiving == {"recvLock", "recvWait", "recvTell"}

\* The tag and size of the call p runs.
Kind(p) == [tag |-> req[p].tag, count |-> req[p].count]

\* A process inside Send or Recv runs the call it was given; one that has more blocks
\* to write has blocks left.
CallFits(p) ==
  /\ pc[p] \in Sending \cup Receiving =>
       /\ req[p].peer \in Peers(p) /\ req[p].tag \in Int /\ req[p].count \in Nat
       /\ req[p].id \in Ids
  /\ pc[p] \in Sending => Kind(p) \in Sends
  /\ pc[p] \in Receiving => Kind(p) \in Receives
  /\ pc[p] = "sendMore" => left[p] > 0

\* A pipe is closed only by a process that finishes.
OpenFits(p) ==
  /\ readOpen[p] \subseteq Peers(p)
  /\ ~Finishing(p) => Peers(p) \subseteq readOpen[p] /\ Peers(p) \subseteq writeOpen[p]

\* What a buffer thread has in hand.
ReadersFit(p) ==
  \A q \in Procs :
    /\ thread[p][q] \in {"header", "data", "entry", "wake"} => p # q
    /\ thread[p][q] \in {"data", "entry"} => header[p][q] \in Messages
    /\ thread[p][q] = "data" => missing[p][q] > 0

\* A process that waits for a message is signalled when it comes, when its source
\* is gone and when the watchdog has a report.
WaitFits(p) ==
  pc[p] = "recvWait" =>
    LET q == req[p].peer IN
    /\ update[p][q] = Kind(p)
    /\ req[p].tag # MIMPI_ANY_TAG /\ Matching(p) # {} => found[p][q] /\ signal[p]
    /\ q \in done[p] => signal[p] \/ thread[p][q] = "wake"
    /\ deadlock[p][q] => signal[p]

Local(p) == CallFits(p) /\ OpenFits(p) /\ ReadersFit(p) /\ WaitFits(p)

\* The blocks s are those of whole messages, but for a blocks of a message the
\* reader has begun and b blocks the writer has still to write: after the i-th block
\* due[i] blocks of its message are to come.
Stream(s, a, b, due) ==
  /\ due \in [0..Len(s) -> Nat] /\ due[0] = a /\ due[Len(s)] = b
  /\ \A i \in 1..Len(s) :
       IF s[i] = More THEN due[i - 1] > 0 /\ due[i] = due[i - 1] - 1
       ELSE s[i] \in Messages /\ due[i - 1] = 0 /\ due[i] = s[i].count

Framed(s, a, b) == \E due \in [0..Len(s) -> Nat] : Stream(s, a, b, due)

Begun(p, q) == IF thread[p][q] = "data" THEN missing[p][q] ELSE 0
Unsent(q, p) == IF pc[q] = "sendMore" /\ req[q].peer = p THEN left[q] ELSE 0

\* A pipe somebody reads carries whole messages.
StreamsFit ==
  \A p, q \in Procs : HasReader(p, q) => Framed(pipe[q][p], Begun(p, q), Unsent(q, p))

IInv == TypeOK /\ StreamsFit /\ \A p \in Procs : Local(p)
-----------------------------------------------------------------------------
(* Streams of blocks *)

LEMMA FrameConstants ==
  /\ Sends \subseteq [tag : Int, count : Nat] /\ Receives \subseteq [tag : Int, count : Nat]
  /\ More \notin Messages
  /\ \A m \in Messages : m.tag \in Int /\ m.count \in Nat /\ m.id \in Ids
  /\ \A m \in Messages : m # More
<1>1. Sends \subseteq [tag : Int, count : Nat] /\ Receives \subseteq [tag : Int, count : Nat]
  BY MimpiAssumption
<1>2. ASSUME NEW m \in Messages
      PROVE  m.tag \in Int /\ m.count \in Nat /\ m.id \in Ids /\ m # More
  <2>1. PICK kind \in Sends, i \in Ids : m = [tag |-> kind.tag, count |-> kind.count, id |-> i]
    BY DEF Messages
  <2>2. m.tag \in Int /\ m.count \in Nat /\ m.id \in Ids
    BY <1>1, <2>1
  <2>3. More.tag = None /\ None \notin Int
    BY MimpiAssumption DEF More
  <2> QED BY <2>2, <2>3
<1> QED BY <1>1, <1>2

\* Nothing begun, nothing left, nothing in the pipe.
LEMMA FramedEmpty == Framed(<<>>, 0, 0)
<1>1. PICK due : due = [i \in 0..0 |-> 0]
  OBVIOUS
<1>2. due \in [0..0 -> Nat] /\ due[0] = 0
  BY <1>1
<1>3. Len(<<>>) = 0
  OBVIOUS
<1>4. Stream(<<>>, 0, 0, due)
  BY <1>2, <1>3 DEF Stream
<1> QED BY <1>2, <1>3, <1>4 DEF Framed

LEMMA FramedEnd ==
  ASSUME NEW a, NEW b, NEW s, s = <<>>, Framed(s, a, b)
  PROVE  a = b
BY DEF Framed, Stream

\* The writer writes a header, or one more block.
LEMMA FramedAppend ==
  ASSUME NEW s \in Seq(Messages \cup {More}), NEW a, NEW b, Framed(s, a, b),
         NEW block \in Messages \cup {More}, NEW later \in Nat,
         \/ block \in Messages /\ b = 0 /\ later = block.count
         \/ block = More /\ b > 0 /\ later = b - 1
  PROVE  Framed(Append(s, block), a, later)
<1>1. PICK due \in [0..Len(s) -> Nat] : Stream(s, a, b, due)
  BY DEF Framed
<1>2. PICK t : t = Append(s, block)
  OBVIOUS
<1>3. /\ Len(t) = Len(s) + 1 /\ Len(s) \in Nat /\ t[Len(s) + 1] = block
      /\ \A i \in 1..Len(s) : t[i] = s[i]
  BY <1>2
<1>4. PICK more : more = [i \in 0..Len(t) |-> IF i = Len(t) THEN later ELSE due[i]]
  OBVIOUS
<1>5. /\ more \in [0..Len(t) -> Nat] /\ more[Len(t)] = later
      /\ \A i \in 0..Len(s) : more[i] = due[i]
  BY <1>3, <1>4
<1>6. more[0] = a
  BY <1>1, <1>3, <1>5 DEF Stream
<1>7. ASSUME NEW i \in 1..Len(t)
      PROVE  IF t[i] = More THEN more[i - 1] > 0 /\ more[i] = more[i - 1] - 1
             ELSE t[i] \in Messages /\ more[i - 1] = 0 /\ more[i] = t[i].count
  <2>1. CASE i \in 1..Len(s)
    <3>1. i - 1 \in 0..Len(s) /\ i \in 0..Len(s)
      BY <1>3, <2>1
    <3>2. t[i] = s[i] /\ more[i] = due[i] /\ more[i - 1] = due[i - 1]
      BY <1>3, <1>5, <2>1, <3>1
    <3> QED BY <1>1, <2>1, <3>2 DEF Stream
  <2>2. CASE i = Len(s) + 1
    <3>1. more[i - 1] = b /\ more[i] = later /\ t[i] = block
      BY <1>1, <1>3, <1>5, <2>2 DEF Stream
    <3> QED BY <3>1, FrameConstants
  <2> QED BY <1>3, <2>1, <2>2
<1>8. Stream(t, a, later, more)
  BY <1>5, <1>6, <1>7 DEF Stream
<1> QED BY <1>2, <1>5, <1>8 DEF Framed

\* The reader takes a block: it is a header when nothing is begun, and else one
\* of the blocks that are due.
LEMMA FramedTail ==
  ASSUME NEW s \in Seq(Messages \cup {More}), s # <<>>, NEW a, NEW b, Framed(s, a, b)
  PROVE  \/ a = 0 /\ Head(s) \in Messages /\ Framed(Tail(s), Head(s).count, b)
         \/ a > 0 /\ a \in Nat /\ Head(s) = More /\ Framed(Tail(s), a - 1, b)
<1>1. PICK due \in [0..Len(s) -> Nat] : Stream(s, a, b, due)
  BY DEF Framed
<1>2. PICK t : t = Tail(s)
  OBVIOUS
<1>3. /\ Len(s) \in Nat /\ Len(s) > 0 /\ Len(t) = Len(s) - 1 /\ Head(s) = s[1]
      /\ \A i \in 1..Len(t) : t[i] = s[i + 1]
  BY <1>2
<1>4. PICK rest : rest = [i \in 0..Len(t) |-> due[i + 1]]
  OBVIOUS
<1>5. /\ rest \in [0..Len(t) -> Nat] /\ rest[0] = due[1] /\ rest[Len(t)] = b
      /\ \A i \in 0..Len(t) : rest[i] = due[i + 1]
  BY <1>1, <1>3, <1>4 DEF Stream
<1>6. ASSUME NEW i \in 1..Len(t)
      PROVE  IF t[i] = More THEN rest[i - 1] > 0 /\ rest[i] = rest[i - 1] - 1
             ELSE t[i] \in Messages /\ rest[i - 1] = 0 /\ rest[i] = t[i].count
  <2>1. i + 1 \in 1..Len(s) /\ t[i] = s[i + 1] /\ rest[i] = due[i + 1]
    BY <1>3, <1>5
  <2>2. rest[i - 1] = due[i]
    BY <1>3, <1>5
  <2> QED BY <1>1, <2>1, <2>2 DEF Stream
<1>7. Stream(t, due[1], b, rest)
  BY <1>5, <1>6 DEF Stream
<1>8. Framed(t, due[1], b)
  BY <1>5, <1>7 DEF Framed
<1>9. /\ a = due[0] /\ a \in Nat /\ 1 \in 1..Len(s)
      /\ IF s[1] = More THEN a > 0 /\ due[1] = a - 1
         ELSE s[1] \in Messages /\ a = 0 /\ due[1] = s[1].count
  BY <1>1, <1>3 DEF Stream
<1> QED BY <1>2, <1>3, <1>8, <1>9
-----------------------------------------------------------------------------
(* Types *)

Everywhere == {"idle", "sendCheck", "sendFirst", "sendMore", "recvLock", "recvWait",
               "recvTell", "closeWrite", "closeRead", "notifyFinished", "join", "finished"}
Results == {"none", "SUCCESS", "REMOTE_FINISHED", "DEADLOCK_DETECTED"}

CallTypes ==
  /\ pc \in [Procs -> Everywhere]
  /\ req \in [Procs -> {NoCall} \cup [peer : Procs, tag : Int, count : Nat, id : Ids]]
  /\ calls \in [Procs -> Ids] /\ left \in [Procs -> Nat]
  /\ result \in [Procs -> Results] /\ got \in [Procs -> Messages \cup {None}]

PipeTypes ==
  /\ pipe \in [Procs -> [Procs -> Seq(Messages \cup {More})]]
  /\ writeOpen \in [Procs -> SUBSET Procs] /\ readOpen \in [Procs -> SUBSET Procs]

ReaderTypes ==
  /\ thread \in [Procs -> [Procs -> {"header", "data", "entry", "wake", "dead"}]]
  /\ header \in [Procs -> [Procs -> Messages \cup {None}]]
  /\ missing \in [Procs -> [Procs -> Nat]]

BufferTypes == buffers \in [Procs -> [Procs -> Seq(Messages)]]

CondTypes ==
  /\ update \in [Procs -> [Procs -> {NoWait} \cup Receives]]
  /\ found \in [Procs -> [Procs -> BOOLEAN]] /\ deadlock \in [Procs -> [Procs -> BOOLEAN]]
  /\ signal \in [Procs -> BOOLEAN]

StateTypes == done \in [Procs -> SUBSET Procs] /\ watchdog \in [Procs -> {"read", "dead"}]

LEMMA Types ==
  TypeOK <=> /\ CallTypes /\ PipeTypes /\ ReaderTypes /\ BufferTypes /\ CondTypes
             /\ StateTypes /\ DetectorTypeOK
BY DEF TypeOK, CallTypes, PipeTypes, ReaderTypes, BufferTypes, CondTypes, StateTypes,
       Everywhere, Results

LEMMA TypesThen ==
  /\ CallTypes' /\ PipeTypes' /\ ReaderTypes' /\ BufferTypes' /\ CondTypes'
  /\ StateTypes' /\ DetectorTypeOK'
  => TypeOK'
BY DEF TypeOK, CallTypes, PipeTypes, ReaderTypes, BufferTypes, CondTypes, StateTypes,
       Everywhere, Results

LEMMA TypesKept ==
  ASSUME TypeOK
  PROVE  /\ UNCHANGED <<pc, req, calls, left, result, got>> => CallTypes'
         /\ UNCHANGED <<pipe, writeOpen, readOpen>> => PipeTypes'
         /\ UNCHANGED <<thread, header, missing>> => ReaderTypes'
         /\ UNCHANGED buffers => BufferTypes'
         /\ UNCHANGED <<update, found, deadlock, signal>> => CondTypes'
         /\ UNCHANGED <<done, watchdog>> => StateTypes'
         /\ UNCHANGED detector => DetectorTypeOK'
BY Types DEF CallTypes, PipeTypes, ReaderTypes, BufferTypes, CondTypes, StateTypes,
             DetectorTypeOK, detector

\* Everything Local(r) speaks of stays as it is.
Same(r) ==
  /\ pc'[r] = pc[r] /\ req'[r] = req[r] /\ left'[r] = left[r]
  /\ readOpen'[r] = readOpen[r] /\ writeOpen'[r] = writeOpen[r]
  /\ thread'[r] = thread[r] /\ header'[r] = header[r] /\ missing'[r] = missing[r]
  /\ buffers'[r] = buffers[r] /\ update'[r] = update[r] /\ found'[r] = found[r]
  /\ deadlock'[r] = deadlock[r] /\ signal'[r] = signal[r] /\ done'[r] = done[r]

LEMMA SameFits == ASSUME NEW r \in Procs, Local(r), Same(r) PROVE Local(r)'
<1>1. CallFits(r)'
  BY DEF Local, Same, CallFits, Kind
<1>2. OpenFits(r)'
  BY DEF Local, Same, OpenFits, Finishing
<1>3. ReadersFit(r)'
  BY DEF Local, Same, ReadersFit
<1>4. WaitFits(r)'
  BY DEF Local, Same, WaitFits, Kind, Matching
<1> QED BY <1>1, <1>2, <1>3, <1>4 DEF Local

\* No pipe changes, nor what is begun or unsent where somebody reads.
LEMMA StreamsKept ==
  ASSUME StreamsFit, UNCHANGED pipe,
         \A p, q \in Procs :
           HasReader(p, q)' => HasReader(p, q) /\ Begun(p, q)' = Begun(p, q)
                               /\ Unsent(q, p)' = Unsent(q, p)
  PROVE  StreamsFit'
BY DEF StreamsFit

\* A step of p alone.
OnlyOf(p) == \A r \in Procs \ {p} : Same(r)

LEMMA StepFits ==
  ASSUME IInv, NEW p \in Procs, TypeOK', StreamsFit', Local(p)',
         \A r \in Procs \ {p} : Same(r)
  PROVE  IInv' /\ OnlyOf(p)
<1>1. \A r \in Procs \ {p} : Local(r)'
  BY SameFits DEF IInv
<1> QED BY <1>1 DEF IInv, OnlyOf

\* A step of a program that is not in the middle of a message.
LEMMA QuietStreams ==
  ASSUME StreamsFit, NEW p \in Procs, UNCHANGED <<pipe, readOpen, thread, missing>>,
         pc[p] # "sendMore", pc'[p] # "sendMore", \A r \in Procs \ {p} : Same(r)
  PROVE  StreamsFit'
<1>1. \A x, y \in Procs : /\ HasReader(x, y)' <=> HasReader(x, y)
                          /\ Begun(x, y)' = Begun(x, y)
  BY DEF HasReader, Begun
<1>2. \A x, y \in Procs : Unsent(y, x)' = Unsent(y, x)
  BY DEF Unsent, Same
<1> QED BY <1>1, <1>2, StreamsKept

LEMMA InitFits == Init => IInv
<1> SUFFICES ASSUME Init PROVE IInv
  OBVIOUS
<1>0. Procs # {} /\ \A p \in Procs : MaxCalls[p] \in Nat
  <2>1. 0 \in Procs
    BY MimpiAssumption DEF Procs
  <2> QED BY <2>1, MimpiAssumption
<1>1. TypeOK
  <2>1. CallTypes
    <3>1. 0 \in Ids
      BY <1>0 DEF Ids
    <3> QED BY <3>1 DEF Init, CallTypes, Everywhere, Results
  <2>2. PipeTypes
    BY DEF Init, PipeTypes, PairOf, Peers
  <2>3. ReaderTypes
    BY DEF Init, ReaderTypes, PairOf
  <2>4. BufferTypes
    BY DEF Init, BufferTypes, PairOf
  <2>5. CondTypes
    BY DEF Init, CondTypes, PairOf
  <2>6. StateTypes
    BY DEF Init, StateTypes
  <2>7. DetectorTypeOK
    BY DEF Init, DetectorInit, DetectorTypeOK
  <2> QED BY <2>1, <2>2, <2>3, <2>4, <2>5, <2>6, <2>7, Types
<1>2. ASSUME NEW p \in Procs PROVE Local(p)
  <2>1. pc[p] = "idle" /\ readOpen[p] = Peers(p) /\ writeOpen[p] = Peers(p)
    BY DEF Init
  <2>2. CallFits(p) /\ OpenFits(p) /\ WaitFits(p)
    BY <2>1 DEF CallFits, OpenFits, WaitFits, Sending, Receiving
  <2>3. ReadersFit(p)
    BY DEF Init, ReadersFit
  <2> QED BY <2>2, <2>3 DEF Local
<1>3. StreamsFit
  <2>1. ASSUME NEW p \in Procs, NEW q \in Procs
        PROVE  Framed(pipe[q][p], Begun(p, q), Unsent(q, p))
    <3>1. pipe[q][p] = <<>> /\ Begun(p, q) = 0 /\ Unsent(q, p) = 0
      BY DEF Init, PairOf, Begun, Unsent
    <3> QED BY <3>1, FramedEmpty
  <2> QED BY <2>1 DEF StreamsFit
<1> QED BY <1>1, <1>2, <1>3 DEF IInv
-----------------------------------------------------------------------------
(* The program *)

LEMMA CallFitsIn ==
  ASSUME IInv, NEW p \in Procs, Call(p)
  PROVE  IInv' /\ OnlyOf(p)
<1>0. TypeOK /\ StreamsFit /\ Local(p) /\ CallTypes
  BY Types DEF IInv
<1>1. PICK q \in Peers(p), kind \in Sends \cup Receives :
        /\ req' = [req EXCEPT ![p] = [peer |-> q, tag |-> kind.tag, count |-> kind.count,
                                      id |-> calls[p]]]
        /\ \/ kind \in Sends /\ pc' = [pc EXCEPT ![p] = "sendCheck"]
           \/ kind \in Receives /\ pc' = [pc EXCEPT ![p] = "recvLock"]
  BY DEF Call, Goto
<1>2. kind \in [tag : Int, count : Nat] /\ q \in Procs
  BY FrameConstants DEF Peers
<1>3. calls[p] \in Ids /\ calls'[p] \in Ids /\ calls' = [calls EXCEPT ![p] = calls'[p]]
  <2>1. calls[p] \in Ids /\ calls[p] \in Nat /\ MaxCalls[p] \in Nat
    BY <1>0, MimpiAssumption DEF CallTypes, Ids
  <2>2. calls' = [calls EXCEPT ![p] = calls[p] + 1] /\ calls[p] + 1 \in 0..MaxCalls[p]
    BY <2>1 DEF Call
  <2>3. calls[p] + 1 \in Ids
    BY <2>2 DEF Ids
  <2> QED BY <1>0, <2>1, <2>2, <2>3 DEF CallTypes
<1>4. CallTypes'
  <2>1. pc' \in [Procs -> Everywhere] /\ UNCHANGED left
    BY <1>0, <1>1 DEF CallTypes, Everywhere, Call
  <2>2. req' \in [Procs -> {NoCall} \cup [peer : Procs, tag : Int, count : Nat, id : Ids]]
    BY <1>0, <1>1, <1>2, <1>3 DEF CallTypes
  <2>3. calls' \in [Procs -> Ids]
    BY <1>0, <1>3 DEF CallTypes
  <2>4. result' \in [Procs -> Results] /\ got' \in [Procs -> Messages \cup {None}]
    BY <1>0 DEF CallTypes, Call, Results
  <2> QED BY <1>0, <2>1, <2>2, <2>3, <2>4 DEF CallTypes
<1>5. TypeOK'
  BY <1>0, <1>4, TypesKept, TypesThen DEF Call, pipes, reader, cond
<1>6. ASSUME NEW r \in Procs \ {p} PROVE Same(r)
  BY <1>0, <1>1 DEF Call, CallTypes, pipes, reader, cond, Same
<1>7. Local(p)'
  <2>1. /\ req'[p] = [peer |-> q, tag |-> kind.tag, count |-> kind.count, id |-> calls[p]]
        /\ \/ kind \in Sends /\ pc'[p] = "sendCheck"
           \/ kind \in Receives /\ pc'[p] = "recvLock"
        /\ pc[p] = "idle"
    BY <1>0, <1>1 DEF CallTypes, Call
  <2>2. kind = [tag |-> kind.tag, count |-> kind.count]
    BY <1>2
  <2>3. CallFits(p)'
    BY <1>2, <1>3, <2>1, <2>2 DEF CallFits, Sending, Receiving, Kind
  <2>4. OpenFits(p)'
    BY <1>0, <2>1 DEF Local, OpenFits, Finishing, Call, pipes
  <2>5. ReadersFit(p)'
    BY <1>0 DEF Local, ReadersFit, Call, reader
  <2>6. WaitFits(p)'
    BY <2>1 DEF WaitFits
  <2> QED BY <2>3, <2>4, <2>5, <2>6 DEF Local
<1>8. StreamsFit'
  <2>1. pc[p] # "sendMore" /\ pc'[p] # "sendMore"
    BY <1>0, <1>1 DEF Call, CallTypes
  <2> QED BY <1>0, <1>6, <2>1, QuietStreams DEF Call, pipes, reader
<1> QED BY <1>5, <1>6, <1>7, <1>8, StepFits

\* The program goes on to a place where nothing new is asked of it.
LEMMA MovesOn ==
  ASSUME NEW p \in Procs, Local(p),
         readOpen'[p] = readOpen[p], writeOpen'[p] = writeOpen[p],
         thread'[p] = thread[p], header'[p] = header[p], missing'[p] = missing[p],
         Finishing(p) => Finishing(p)',
         pc'[p] \notin {"recvWait", "sendMore"},
         pc'[p] \in Sending => pc[p] \in Sending /\ req'[p] = req[p],
         pc'[p] \in Receiving => pc[p] \in Receiving /\ req'[p] = req[p]
  PROVE  Local(p)'
<1>1. CallFits(p)'
  BY DEF Local, CallFits, Sending, Receiving, Kind
<1>2. OpenFits(p)'
  BY DEF Local, OpenFits
<1>3. ReadersFit(p)'
  BY DEF Local, ReadersFit
<1>4. WaitFits(p)'
  BY DEF WaitFits
<1> QED BY <1>1, <1>2, <1>3, <1>4 DEF Local

\* A call of p returns, or goes on to another place.
LEMMA ReturnTypes ==
  ASSUME CallTypes, NEW p \in Procs, UNCHANGED <<calls, got>>, left' \in [Procs -> Nat],
         \/ \E res \in Results : Return(p, res)
         \/ \E place \in Everywhere : Goto(p, place) /\ UNCHANGED <<req, result>>
  PROVE  CallTypes'
<1>1. CASE \E res \in Results : Return(p, res)
  BY <1>1 DEF CallTypes, Return, Goto, Everywhere
<1>2. CASE \E place \in Everywhere : Goto(p, place) /\ UNCHANGED <<req, result>>
  BY <1>2 DEF CallTypes, Goto
<1> QED BY <1>1, <1>2

LEMMA ReturnSame ==
  ASSUME CallTypes, NEW p \in Procs, NEW r \in Procs \ {p},
         UNCHANGED <<pipes, reader, buffers, cond, done>>, left'[r] = left[r],
         \/ \E res : Return(p, res)
         \/ \E place : Goto(p, place) /\ UNCHANGED req
  PROVE  Same(r)
<1>1. /\ UNCHANGED <<readOpen, writeOpen, thread, header, missing, buffers, update, found,
                     deadlock, signal, done>>
  BY DEF pipes, reader, cond
<1>2. pc'[r] = pc[r] /\ req'[r] = req[r]
  BY DEF Return, Goto, CallTypes
<1> QED BY <1>1, <1>2 DEF Same

LEMMA SendCheckFits ==
  ASSUME IInv, NEW p \in Procs, SendCheck(p)
  PROVE  IInv' /\ OnlyOf(p)
<1>0. TypeOK /\ StreamsFit /\ Local(p) /\ CallTypes /\ pc[p] = "sendCheck"
  BY Types DEF IInv, SendCheck
<1>1. Return(p, "REMOTE_FINISHED") \/ (Goto(p, "sendFirst") /\ UNCHANGED <<req, result>>)
  BY DEF SendCheck
<1>2. TypeOK'
  <2>1. left' \in [Procs -> Nat] /\ UNCHANGED <<calls, got>>
    BY <1>0 DEF SendCheck, CallTypes
  <2>2. CallTypes'
    BY <1>0, <1>1, <2>1, ReturnTypes DEF Everywhere, Results
  <2> QED BY <1>0, <2>2, TypesKept, TypesThen DEF SendCheck, pipes, reader, cond
<1>3. \A r \in Procs \ {p} : Same(r)
  BY <1>0, <1>1, ReturnSame DEF SendCheck
<1>4. /\ pc'[p] = "idle" \/ (pc'[p] = "sendFirst" /\ req'[p] = req[p])
      /\ UNCHANGED <<pipe, readOpen, writeOpen, thread, header, missing>>
  BY <1>0, <1>1 DEF SendCheck, Return, Goto, CallTypes, pipes, reader
<1>5. Local(p)'
  BY <1>0, <1>4, MovesOn DEF Sending, Receiving, Finishing
<1>6. StreamsFit'
  BY <1>0, <1>3, <1>4, QuietStreams
<1> QED BY <1>2, <1>3, <1>5, <1>6, StepFits

\* p writes a block to q.
LEMMA WriteStreams ==
  ASSUME PipeTypes, StreamsFit, NEW p \in Procs, NEW q \in Procs,
         UNCHANGED <<readOpen, writeOpen, thread, missing>>, HasReader(q, p),
         NEW block \in Messages \cup {More}, NEW later \in Nat,
         pipe' = [pipe EXCEPT ![p][q] = Append(@, block)],
         \/ block \in Messages /\ Unsent(p, q) = 0 /\ later = block.count
         \/ block = More /\ Unsent(p, q) > 0 /\ later = Unsent(p, q) - 1,
         Unsent(p, q)' = later, \A x \in Procs \ {q} : Unsent(p, x)' = Unsent(p, x),
         \A r \in Procs \ {p} : Same(r)
  PROVE  StreamsFit' /\ PipeTypes'
<1>1. \A x, y \in Procs : /\ HasReader(x, y)' <=> HasReader(x, y)
                          /\ Begun(x, y)' = Begun(x, y)
  BY DEF HasReader, Begun
<1>2. /\ pipe[p][q] \in Seq(Messages \cup {More})
      /\ pipe'[p][q] = Append(pipe[p][q], block)
      /\ \A x, y \in Procs : x # p \/ y # q => pipe'[x][y] = pipe[x][y]
  BY DEF PipeTypes
<1>3. ASSUME NEW x \in Procs, NEW y \in Procs, HasReader(x, y)'
      PROVE  Framed(pipe[y][x], Begun(x, y), Unsent(y, x))'
  <2>1. Framed(pipe[y][x], Begun(x, y), Unsent(y, x))
    BY <1>1, <1>3 DEF StreamsFit
  <2>2. CASE y = p /\ x = q
    <3>1. Framed(Append(pipe[p][q], block), Begun(q, p), later)
      BY <1>2, <2>1, <2>2, FramedAppend
    <3> QED BY <1>1, <1>2, <2>2, <3>1
  <2>3. CASE y # p \/ x # q
    <3>1. Unsent(y, x)' = Unsent(y, x)
      BY <2>3 DEF Unsent, Same
    <3> QED BY <1>1, <1>2, <2>1, <2>3, <3>1
  <2> QED BY <2>2, <2>3
<1>4. StreamsFit'
  BY <1>3 DEF StreamsFit
<1>5. pipe' \in [Procs -> [Procs -> Seq(Messages \cup {More})]]
  <2>1. Append(pipe[p][q], block) \in Seq(Messages \cup {More})
    BY <1>2
  <2> QED BY <2>1 DEF PipeTypes
<1>6. PipeTypes'
  BY <1>5 DEF PipeTypes
<1> QED BY <1>4, <1>6

LEMMA SendFirstFits ==
  ASSUME IInv, NEW p \in Procs, SendFirst(p)
  PROVE  IInv' /\ OnlyOf(p)
<1>0. /\ TypeOK /\ StreamsFit /\ Local(p) /\ CallTypes /\ PipeTypes /\ pc[p] = "sendFirst"
      /\ UNCHANGED <<calls, got, readOpen, writeOpen, thread, header, missing>>
      /\ UNCHANGED <<reader, buffers, cond, done, watchdog, detector>>
  BY Types DEF IInv, SendFirst, reader
<1>1. PICK q : q = req[p].peer
  OBVIOUS
<1>2. /\ q \in Peers(p) /\ q \in Procs /\ p # q /\ req[p].count \in Nat
      /\ req[p].id \in Ids /\ Kind(p) \in Sends
  BY <1>0, <1>1 DEF Local, CallFits, Sending, Peers
<1>3. Header(p) \in Messages /\ Header(p).count = req[p].count
  BY <1>2 DEF Messages, Header, Kind
<1>4. /\ HasReader(q, p) /\ pipe' = [pipe EXCEPT ![p][q] = Append(@, Header(p))]
      /\ left' = [left EXCEPT ![p] = req[p].count]
      /\ \/ req[p].count = 0 /\ Return(p, "SUCCESS")
         \/ req[p].count # 0 /\ Goto(p, "sendMore") /\ UNCHANGED <<req, result>>
  BY <1>1 DEF SendFirst, Write
<1>5. left' \in [Procs -> Nat] /\ left'[p] = req[p].count
  BY <1>0, <1>2, <1>4 DEF CallTypes
<1>6. CallTypes'
  BY <1>0, <1>4, <1>5, ReturnTypes DEF Everywhere, Results
<1>7. ASSUME NEW r \in Procs \ {p} PROVE Same(r)
  <2>1. left'[r] = left[r] /\ pc'[r] = pc[r] /\ req'[r] = req[r]
    BY <1>0, <1>4 DEF CallTypes, Return, Goto
  <2> QED BY <1>0, <2>1 DEF Same, reader, cond
<1>8. \/ pc'[p] = "idle" /\ req[p].count = 0
      \/ pc'[p] = "sendMore" /\ req'[p] = req[p] /\ req[p].count > 0
  BY <1>0, <1>2, <1>4 DEF Return, Goto, CallTypes
<1>9. Unsent(p, q)' = req[p].count /\ \A x \in Procs : Unsent(p, x) = 0
  BY <1>0, <1>1, <1>5, <1>8 DEF Unsent
<1>10. \A x \in Procs \ {q} : Unsent(p, x)' = 0
  BY <1>1, <1>8 DEF Unsent
<1>11. StreamsFit' /\ PipeTypes'
  BY <1>0, <1>2, <1>3, <1>4, <1>7, <1>9, <1>10, WriteStreams
<1>12. TypeOK'
  BY <1>0, <1>6, <1>11, TypesKept, TypesThen DEF reader, cond
<1>13. Local(p)'
  <2>1. CASE pc'[p] = "idle"
    BY <1>0, <2>1, MovesOn DEF Sending, Receiving, Finishing
  <2>2. CASE pc'[p] = "sendMore"
    <3>1. CallFits(p)'
      BY <1>0, <1>5, <1>8, <2>2 DEF Local, CallFits, Sending, Receiving, Kind
    <3>2. OpenFits(p)' /\ ReadersFit(p)' /\ WaitFits(p)'
      BY <1>0, <2>2 DEF Local, OpenFits, ReadersFit, WaitFits, Finishing
    <3> QED BY <3>1, <3>2 DEF Local
  <2> QED BY <1>8, <2>1, <2>2
<1> QED BY <1>7, <1>11, <1>12, <1>13, StepFits

LEMMA SendMoreFits ==
  ASSUME IInv, NEW p \in Procs, SendMore(p)
  PROVE  IInv' /\ OnlyOf(p)
<1>0. /\ TypeOK /\ StreamsFit /\ Local(p) /\ CallTypes /\ PipeTypes /\ pc[p] = "sendMore"
      /\ UNCHANGED <<calls, got, readOpen, writeOpen, thread, header, missing>>
      /\ UNCHANGED <<reader, buffers, cond, done, watchdog, detector>>
  BY Types DEF IInv, SendMore, reader
<1>1. PICK q : q = req[p].peer
  OBVIOUS
<1>2. /\ q \in Peers(p) /\ q \in Procs /\ p # q /\ left[p] > 0 /\ left[p] \in Nat
  BY <1>0, <1>1 DEF Local, CallFits, Sending, Peers, CallTypes
<1>4. /\ HasReader(q, p) /\ pipe' = [pipe EXCEPT ![p][q] = Append(@, More)]
      /\ left' = [left EXCEPT ![p] = left[p] - 1]
      /\ \/ left[p] = 1 /\ Return(p, "SUCCESS")
         \/ left[p] # 1 /\ UNCHANGED <<pc, req, result>>
  BY <1>1 DEF SendMore, Write
<1>5. left' \in [Procs -> Nat] /\ left'[p] = left[p] - 1 /\ left[p] - 1 \in Nat
  BY <1>0, <1>2, <1>4 DEF CallTypes
<1>6. CallTypes'
  <2>1. CASE left[p] = 1
    BY <1>0, <1>4, <1>5, <2>1, ReturnTypes DEF Results
  <2>2. CASE left[p] # 1
    BY <1>0, <1>4, <1>5, <2>2 DEF CallTypes
  <2> QED BY <2>1, <2>2
<1>7. ASSUME NEW r \in Procs \ {p} PROVE Same(r)
  <2>1. left'[r] = left[r] /\ pc'[r] = pc[r] /\ req'[r] = req[r]
    BY <1>0, <1>4 DEF CallTypes, Return, Goto
  <2> QED BY <1>0, <2>1 DEF Same, reader, cond
<1>8. \/ pc'[p] = "idle" /\ left[p] = 1
      \/ pc'[p] = "sendMore" /\ req'[p] = req[p] /\ left[p] > 1
  BY <1>0, <1>2, <1>4 DEF Return, Goto, CallTypes
<1>9. Unsent(p, q)' = left[p] - 1 /\ Unsent(p, q) = left[p]
  BY <1>0, <1>1, <1>5, <1>8 DEF Unsent
<1>10. \A x \in Procs \ {q} : Unsent(p, x)' = Unsent(p, x)
  BY <1>0, <1>1, <1>8 DEF Unsent
<1>11. StreamsFit' /\ PipeTypes'
  <2>1. PICK b : b = More
    OBVIOUS
  <2>2. PICK n : n = left[p] - 1
    OBVIOUS
  <2>3. /\ b \in Messages \cup {More} /\ n \in Nat /\ b = More
        /\ pipe' = [pipe EXCEPT ![p][q] = Append(@, b)]
        /\ Unsent(p, q) > 0 /\ n = Unsent(p, q) - 1 /\ Unsent(p, q)' = n
    BY <1>2, <1>4, <1>5, <1>9, <2>1, <2>2
  <2> QED BY <1>0, <1>2, <1>4, <1>7, <1>10, <2>3, WriteStreams
<1>12. TypeOK'
  BY <1>0, <1>6, <1>11, TypesKept, TypesThen DEF reader, cond
<1>13. Local(p)'
  <2>1. CASE pc'[p] = "idle"
    BY <1>0, <2>1, MovesOn DEF Sending, Receiving, Finishing
  <2>2. CASE pc'[p] = "sendMore"
    <3>1. CallFits(p)'
      BY <1>0, <1>2, <1>5, <1>8, <2>2 DEF Local, CallFits, Sending, Receiving, Kind
    <3>2. OpenFits(p)' /\ ReadersFit(p)' /\ WaitFits(p)'
      BY <1>0, <2>2 DEF Local, OpenFits, ReadersFit, WaitFits, Finishing
    <3> QED BY <3>1, <3>2 DEF Local
  <2> QED BY <1>8, <2>1, <2>2
<1> QED BY <1>7, <1>11, <1>12, <1>13, StepFits

LEMMA SendBrokenFits ==
  ASSUME IInv, NEW p \in Procs, SendBroken(p)
  PROVE  IInv' /\ OnlyOf(p)
<1>0. /\ TypeOK /\ StreamsFit /\ Local(p) /\ CallTypes
      /\ pc[p] \in {"sendFirst", "sendMore"} /\ ~HasReader(req[p].peer, p)
      /\ left' = [left EXCEPT ![p] = 0] /\ Return(p, "REMOTE_FINISHED")
      /\ UNCHANGED <<calls, got, pipes, reader, buffers, cond, done, watchdog, detector>>
  BY Types DEF IInv, SendBroken
<1>1. UNCHANGED <<pipe, readOpen, writeOpen, thread, header, missing>>
  BY <1>0 DEF pipes, reader
<1>2. left' \in [Procs -> Nat] /\ pc'[p] = "idle"
  BY <1>0 DEF CallTypes, Return, Goto
<1>3. TypeOK'
  <2>1. CallTypes'
    BY <1>0, <1>2, ReturnTypes DEF Results
  <2> QED BY <1>0, <2>1, TypesKept, TypesThen DEF pipes, reader, cond
<1>4. ASSUME NEW r \in Procs \ {p} PROVE Same(r)
  <2>1. left'[r] = left[r]
    BY <1>0 DEF CallTypes
  <2> QED BY <1>0, <2>1, ReturnSame
<1>5. Local(p)'
  BY <1>0, <1>1, <1>2, MovesOn DEF Sending, Receiving, Finishing
<1>6. StreamsFit'
  <2>1. \A x, y \in Procs : /\ HasReader(x, y)' <=> HasReader(x, y)
                            /\ Begun(x, y)' = Begun(x, y)
    BY <1>1 DEF HasReader, Begun
  <2>2. ASSUME NEW x \in Procs, NEW y \in Procs, HasReader(x, y)
        PROVE  Unsent(y, x)' = Unsent(y, x)
    <3>1. y = p => x # req[p].peer
      BY <1>0, <2>2
    <3> QED BY <1>2, <1>4, <3>1 DEF Unsent, Same
  <2> QED BY <1>0, <1>1, <2>1, <2>2, StreamsKept
<1> QED BY <1>3, <1>4, <1>5, <1>6, StepFits

LEMMA MinOf ==
  ASSUME NEW T \in SUBSET Nat, T # {}
  PROVE  Min(T) \in T /\ \A y \in T : Min(T) <= y
<1>1. PICK R : R = OpToRel(<, Nat)
  OBVIOUS
<1>2. \A x, y \in Nat : x < y => <<x, y>> \in R
  BY <1>1 DEF OpToRel
<1>3. PICK x \in T : \A y \in T : ~(<<y, x>> \in R)
  BY <1>1, NatLessThanWellFounded, WFMin
<1>4. ASSUME NEW y \in T PROVE x <= y
  <2>1. x \in Nat /\ y \in Nat /\ (y < x => <<y, x>> \in R)
    BY <1>2
  <2> QED BY <1>3, <2>1
<1>5. \E z \in T : \A y \in T : z <= y
  BY <1>4
<1> QED BY <1>5 DEF Min

LEMMA FirstMatching ==
  ASSUME BufferTypes, NEW p \in Procs, req[p].peer \in Procs, Matching(p) # {}
  PROVE  /\ First(Matching(p)) \in Matching(p)
         /\ First(Matching(p)) \in 1..Len(buffers[p][req[p].peer])
         /\ \A i \in Matching(p) : First(Matching(p)) <= i
<1>1. Matching(p) \in SUBSET (1..Len(buffers[p][req[p].peer]))
  BY DEF Matching
<1>2. Matching(p) \in SUBSET Nat
  BY <1>1 DEF BufferTypes
<1> QED BY <1>1, <1>2, MinOf DEF First

LEMMA RemovedOf ==
  ASSUME NEW S, NEW s \in Seq(S), NEW i \in 1..Len(s)
  PROVE  s[i] \in S /\ RemoveAt(s, i) \in Seq(S)
BY DEF RemoveAt

LEMMA NotifyTypes ==
  ASSUME DetectorTypeOK, NEW p \in Procs,
         NEW rank \in Procs \cup {DEADLOCK_NO_WAIT, DEADLOCK_FINISHED},
         Notify(p, rank) \/ UNCHANGED requests, UNCHANGED <<wait_table, reports>>
  PROVE  DetectorTypeOK'
<1>1. PICK S : S = [my_rank : Procs,
                    sender_rank : Procs \cup {DEADLOCK_NO_WAIT, DEADLOCK_FINISHED}]
  OBVIOUS
<1>2. PICK packet \in S : packet = [my_rank |-> p, sender_rank |-> rank]
  BY <1>1
<1>3. requests \in Seq(S) /\ Append(requests, packet) \in Seq(S)
  BY <1>1, <1>2 DEF DetectorTypeOK
<1>4. requests' \in Seq(S)
  BY <1>2, <1>3 DEF Notify
<1> QED BY <1>1, <1>4 DEF DetectorTypeOK

\* What the end of a Recv, or its next wait, does to the types.
LEMMA RecvTypes ==
  ASSUME TypeOK, NEW p \in Procs, req[p].peer \in Procs,
         UNCHANGED <<req, calls, left, pipes, reader, done, watchdog>>,
         found' \in [Procs -> [Procs -> BOOLEAN]], DetectorTypeOK',
         \/ Matching(p) # {} /\ ExitWith(p, First(Matching(p)))
         \/ \E target \in {NoWait} \cup Receives : ExitOrWait(p, target)
  PROVE  TypeOK'
<1>0. CallTypes /\ BufferTypes /\ CondTypes
  BY Types
<1>1. PICK q \in Procs : q = req[p].peer
  OBVIOUS
<1>2. ASSUME NEW res \in Results, Exit(p, res)
      PROVE  /\ pc' \in [Procs -> Everywhere] /\ result' \in [Procs -> Results]
             /\ CondTypes'
  BY <1>0, <1>1, <1>2 DEF Exit, Goto, CallTypes, CondTypes, Everywhere
<1>3. CASE Matching(p) # {} /\ ExitWith(p, First(Matching(p)))
  <2>1. PICK i : i = First(Matching(p))
    OBVIOUS
  <2>2. /\ buffers[p][q][i] \in Messages /\ RemoveAt(buffers[p][q], i) \in Seq(Messages)
    <3>1. i \in 1..Len(buffers[p][q]) /\ buffers[p][q] \in Seq(Messages)
      BY <1>0, <1>1, <1>3, <2>1, FirstMatching DEF BufferTypes
    <3> QED BY <3>1, RemovedOf
  <2>3. /\ got' = [got EXCEPT ![p] = buffers[p][q][i]]
        /\ buffers' = [buffers EXCEPT ![p][q] = RemoveAt(buffers[p][q], i)]
        /\ Exit(p, "SUCCESS")
    BY <1>1, <1>3, <2>1 DEF ExitWith
  <2>4. got' \in [Procs -> Messages \cup {None}] /\ BufferTypes'
    BY <1>0, <2>2, <2>3 DEF CallTypes, BufferTypes
  <2>5. /\ pc' \in [Procs -> Everywhere] /\ result' \in [Procs -> Results] /\ CondTypes'
    BY <1>2, <2>3 DEF Results
  <2>6. CallTypes'
    BY <1>0, <2>4, <2>5 DEF CallTypes
  <2> QED BY <2>4, <2>5, <2>6, TypesKept, TypesThen DEF pipes, reader
<1>4. ASSUME NEW target \in {NoWait} \cup Receives, ExitOrWait(p, target)
      PROVE  TypeOK'
  <2>1. UNCHANGED <<got, buffers>>
    BY <1>4 DEF ExitOrWait
  <2>2. pc' \in [Procs -> Everywhere] /\ result' \in [Procs -> Results] /\ CondTypes'
    <3>1. CASE Exit(p, "DEADLOCK_DETECTED") \/ Exit(p, "REMOTE_FINISHED")
      BY <1>2, <3>1 DEF Results
    <3>2. CASE /\ update' = [update EXCEPT ![p][q] = target]
               /\ signal' = [signal EXCEPT ![p] = FALSE]
               /\ Goto(p, "recvWait")
               /\ UNCHANGED <<deadlock, result>>
      BY <1>0, <1>1, <1>4, <3>2 DEF Goto, CallTypes, CondTypes, Everywhere
    <3> QED BY <1>1, <1>4, <3>1, <3>2 DEF ExitOrWait
  <2>3. CallTypes'
    BY <1>0, <2>1, <2>2 DEF CallTypes
  <2> QED BY <2>1, <2>2, <2>3, TypesKept, TypesThen DEF pipes, reader
<1> QED BY <1>3, <1>4

LEMMA RecvSame ==
  ASSUME TypeOK, NEW p \in Procs, NEW r \in Procs \ {p},
         UNCHANGED <<req, left, pipes, reader, done>>, found'[r] = found[r],
         \/ \E i : ExitWith(p, i)
         \/ \E target : ExitOrWait(p, target)
  PROVE  Same(r)
<1>0. CallTypes /\ BufferTypes /\ CondTypes
  BY Types
<1>1. UNCHANGED <<req, left, readOpen, writeOpen, thread, header, missing, done>>
  BY DEF pipes, reader
<1>2. ASSUME NEW res, Exit(p, res)
      PROVE  /\ pc'[r] = pc[r] /\ update'[r] = update[r]
             /\ deadlock'[r] = deadlock[r] /\ signal'[r] = signal[r]
  BY <1>0, <1>2 DEF Exit, Goto, CallTypes, CondTypes
<1>3. ASSUME NEW i, ExitWith(p, i) PROVE Same(r)
  <2>1. buffers'[r] = buffers[r]
    BY <1>0, <1>3 DEF ExitWith, BufferTypes
  <2> QED BY <1>1, <1>2, <1>3, <2>1 DEF ExitWith, Same
<1>4. ASSUME NEW target, ExitOrWait(p, target) PROVE Same(r)
  <2>1. buffers' = buffers
    BY <1>4 DEF ExitOrWait
  <2>2. /\ pc'[r] = pc[r] /\ update'[r] = update[r]
        /\ deadlock'[r] = deadlock[r] /\ signal'[r] = signal[r]
    <3>1. CASE \E res : Exit(p, res)
      BY <1>2, <3>1
    <3>2. CASE ~\E res : Exit(p, res)
      BY <1>0, <1>4, <3>2 DEF ExitOrWait, Goto, CallTypes, CondTypes
    <3> QED BY <3>1, <3>2
  <2> QED BY <1>1, <2>1, <2>2 DEF Same
<1> QED BY <1>3, <1>4

\* A Recv that has found nothing: it ends, or it waits with no message to be found.
LEMMA WaitsOn ==
  ASSUME TypeOK, NEW p \in Procs, Local(p), pc[p] \in {"recvLock", "recvWait"},
         UNCHANGED <<req, pipes, reader, done>>, ExitOrWait(p, Kind(p)),
         req[p].tag # MIMPI_ANY_TAG => Matching(p) = {}
  PROVE  Local(p)' /\ pc'[p] \in {"recvTell", "recvWait"}
<1>0. CallTypes /\ BufferTypes /\ CondTypes
      /\ UNCHANGED <<readOpen, writeOpen, thread, header, missing, buffers>>
  BY Types DEF pipes, reader, ExitOrWait
<1>1. PICK q \in Procs : q = req[p].peer
  BY DEF Local, CallFits, Sending, Receiving, Peers
<1>2. CASE \E res : Exit(p, res)
  <2>1. pc'[p] = "recvTell"
    BY <1>0, <1>2 DEF Exit, Goto, CallTypes
  <2> QED BY <1>0, <2>1, MovesOn DEF Sending, Receiving, Finishing
<1>3. CASE ~\E res : Exit(p, res)
  <2>1. /\ ~deadlock[p][q] /\ q \notin done[p] /\ UNCHANGED deadlock
        /\ update' = [update EXCEPT ![p][q] = Kind(p)] /\ pc' = [pc EXCEPT ![p] = "recvWait"]
    BY <1>1, <1>3 DEF ExitOrWait, Goto
  <2>2. update'[p][q] = Kind(p) /\ pc'[p] = "recvWait"
    BY <1>0, <2>1 DEF CallTypes, CondTypes
  <2>3. Kind(p)' = Kind(p) /\ Matching(p)' = Matching(p) /\ UNCHANGED done
    BY <1>0 DEF Kind, Matching
  <2>4. WaitFits(p)'
    BY <1>1, <2>1, <2>2, <2>3 DEF WaitFits
  <2>5. CallFits(p)'
    BY <2>2, <2>3 DEF Local, CallFits, Sending, Receiving
  <2>6. OpenFits(p)' /\ ReadersFit(p)'
    BY <1>0, <2>2 DEF Local, OpenFits, ReadersFit, Finishing
  <2> QED BY <2>2, <2>4, <2>5, <2>6 DEF Local
<1> QED BY <1>2, <1>3

\* A Recv that has found its message.
LEMMA TakesIt ==
  ASSUME TypeOK, NEW p \in Procs, Local(p), pc[p] \in {"recvLock", "recvWait"},
         UNCHANGED <<req, pipes, reader>>, NEW i, ExitWith(p, i)
  PROVE  Local(p)' /\ pc'[p] = "recvTell"
<1>1. UNCHANGED <<readOpen, writeOpen, thread, header, missing>>
  BY DEF pipes, reader
<1>2. pc'[p] = "recvTell"
  BY Types DEF ExitWith, Exit, Goto, CallTypes
<1> QED BY <1>1, <1>2, MovesOn DEF Sending, Receiving, Finishing

LEMMA RecvLockFits ==
  ASSUME IInv, NEW p \in Procs, RecvLock(p)
  PROVE  IInv' /\ OnlyOf(p)
<1>0. /\ TypeOK /\ StreamsFit /\ Local(p) /\ CallTypes /\ CondTypes /\ pc[p] = "recvLock"
      /\ UNCHANGED <<req, calls, left, pipes, reader, done, watchdog, wait_table, reports>>
  BY Types DEF IInv, RecvLock
<1>1. PICK q : q = req[p].peer
  OBVIOUS
<1>2. q \in Procs /\ Kind(p) \in Receives
  BY <1>0, <1>1 DEF Local, CallFits, Receiving, Sending, Peers
<1>3. /\ found' = [found EXCEPT ![p][q] = FALSE]
      /\ \/ /\ Matching(p) # {} /\ ExitWith(p, First(Matching(p))) /\ UNCHANGED requests
         \/ /\ Matching(p) = {} /\ Notify(p, q) /\ ExitOrWait(p, Kind(p))
  BY <1>1 DEF RecvLock, Kind
<1>4. DetectorTypeOK'
  BY <1>0, <1>2, <1>3, Types, NotifyTypes
<1>5. TypeOK'
  <2>1. found' \in [Procs -> [Procs -> BOOLEAN]]
    BY <1>0, <1>3 DEF CondTypes
  <2> QED BY <1>0, <1>1, <1>2, <1>3, <1>4, <2>1, RecvTypes
<1>6. ASSUME NEW r \in Procs \ {p} PROVE Same(r)
  <2>1. found'[r] = found[r]
    BY <1>0, <1>3 DEF CondTypes
  <2> QED BY <1>0, <1>3, <2>1, RecvSame
<1>7. Local(p)' /\ pc'[p] \in {"recvTell", "recvWait"}
  BY <1>0, <1>3, WaitsOn, TakesIt
<1>8. StreamsFit'
  BY <1>0, <1>6, <1>7, QuietStreams DEF pipes, reader
<1> QED BY <1>5, <1>6, <1>7, <1>8, StepFits

LEMMA RecvWakeFits ==
  ASSUME IInv, NEW p \in Procs, RecvWake(p)
  PROVE  IInv' /\ OnlyOf(p)
<1>0. /\ TypeOK /\ StreamsFit /\ Local(p) /\ CallTypes /\ CondTypes /\ pc[p] = "recvWait"
      /\ UNCHANGED <<req, calls, left, pipes, reader, found, done, watchdog, detector>>
  BY Types DEF IInv, RecvWake
<1>1. PICK q : q = req[p].peer
  OBVIOUS
<1>2. q \in Procs /\ Kind(p) \in Receives /\ update[p][q] = Kind(p)
  BY <1>0, <1>1 DEF Local, CallFits, WaitFits, Receiving, Sending, Peers
<1>3. \/ Matching(p) # {} /\ ExitWith(p, First(Matching(p)))
      \/ ~(found[p][q] /\ Matching(p) # {}) /\ ExitOrWait(p, Kind(p))
  BY <1>1, <1>2 DEF RecvWake
<1>5. TypeOK'
  <2>1. found' \in [Procs -> [Procs -> BOOLEAN]]
    BY <1>0 DEF CondTypes
  <2>2. DetectorTypeOK'
    BY <1>0, TypesKept
  <2> QED BY <1>0, <1>1, <1>2, <1>3, <2>1, <2>2, RecvTypes
<1>6. ASSUME NEW r \in Procs \ {p} PROVE Same(r)
  BY <1>0, <1>3, RecvSame
<1>7. Local(p)' /\ pc'[p] \in {"recvTell", "recvWait"}
  <2>1. CASE ExitWith(p, First(Matching(p)))
    BY <1>0, <2>1, TakesIt
  <2>2. CASE ~(found[p][q] /\ Matching(p) # {}) /\ ExitOrWait(p, Kind(p))
    <3>1. req[p].tag # MIMPI_ANY_TAG => Matching(p) = {}
      BY <1>0, <1>1, <2>2 DEF Local, WaitFits
    <3> QED BY <1>0, <2>2, <3>1, WaitsOn
  <2> QED BY <1>3, <2>1, <2>2
<1>8. StreamsFit'
  BY <1>0, <1>6, <1>7, QuietStreams DEF pipes, reader
<1> QED BY <1>5, <1>6, <1>7, <1>8, StepFits

LEMMA RecvTellFits ==
  ASSUME IInv, NEW p \in Procs, RecvTell(p)
  PROVE  IInv' /\ OnlyOf(p)
<1>0. /\ TypeOK /\ StreamsFit /\ Local(p) /\ CallTypes /\ pc[p] = "recvTell"
      /\ UNCHANGED <<calls, left, got, pipes, reader, buffers, cond, done, watchdog,
                     wait_table, reports>>
      /\ Notify(p, DEADLOCK_NO_WAIT) /\ Return(p, result[p])
  BY Types DEF IInv, RecvTell
<1>1. TypeOK'
  <2>1. DetectorTypeOK'
    BY <1>0, Types, NotifyTypes
  <2>2. result[p] \in Results /\ left' \in [Procs -> Nat]
    BY <1>0 DEF CallTypes
  <2>3. CallTypes'
    BY <1>0, <2>2, ReturnTypes
  <2> QED BY <1>0, <2>1, <2>3, TypesKept, TypesThen DEF pipes, reader, cond
<1>2. \A r \in Procs \ {p} : Same(r)
  BY <1>0, ReturnSame
<1>3. pc'[p] = "idle" /\ UNCHANGED <<pipe, readOpen, writeOpen, thread, header, missing>>
  BY <1>0 DEF Return, Goto, CallTypes, pipes, reader
<1>4. Local(p)'
  BY <1>0, <1>3, MovesOn DEF Sending, Receiving, Finishing
<1>5. StreamsFit'
  BY <1>0, <1>2, <1>3, QuietStreams
<1> QED BY <1>1, <1>2, <1>4, <1>5, StepFits

LEMMA FinalizeFits ==
  ASSUME IInv, NEW p \in Procs, Finalize(p)
  PROVE  IInv' /\ OnlyOf(p)
<1>0. /\ TypeOK /\ StreamsFit /\ Local(p) /\ CallTypes /\ pc[p] = "idle"
      /\ pc' = [pc EXCEPT ![p] = "closeWrite"] /\ result' = [result EXCEPT ![p] = "none"]
      /\ got' = [got EXCEPT ![p] = None]
      /\ UNCHANGED <<req, calls, left, pipes, reader, buffers, cond, done, watchdog, detector>>
  BY Types DEF IInv, Finalize, Goto
<1>1. TypeOK'
  <2>1. CallTypes'
    BY <1>0 DEF CallTypes, Everywhere, Results
  <2> QED BY <1>0, <2>1, TypesKept, TypesThen DEF pipes, reader, cond
<1>2. \A r \in Procs \ {p} : Same(r)
  BY <1>0 DEF Same, CallTypes, pipes, reader, cond
<1>3. pc'[p] = "closeWrite" /\ UNCHANGED <<pipe, readOpen, writeOpen, thread, header, missing>>
  BY <1>0 DEF CallTypes, pipes, reader
<1>4. Local(p)'
  BY <1>0, <1>3, MovesOn DEF Sending, Receiving, Finishing
<1>5. StreamsFit'
  BY <1>0, <1>2, <1>3, QuietStreams
<1> QED BY <1>1, <1>2, <1>4, <1>5, StepFits

LEMMA CloseWriteFits ==
  ASSUME IInv, NEW p \in Procs, CloseWrite(p)
  PROVE  IInv' /\ OnlyOf(p)
<1>0. /\ TypeOK /\ StreamsFit /\ Local(p) /\ CallTypes /\ PipeTypes /\ pc[p] = "closeWrite"
      /\ pc' = [pc EXCEPT ![p] = "closeRead"]
      /\ UNCHANGED <<call, pipe, readOpen, reader, buffers, cond, done, watchdog, detector>>
  BY Types DEF IInv, CloseWrite, Goto
<1>1. PICK q : writeOpen' = [writeOpen EXCEPT ![p] = writeOpen[p] \ {q}]
  BY DEF CloseWrite
<1>2. TypeOK'
  <2>1. CallTypes'
    BY <1>0 DEF CallTypes, Everywhere, call
  <2>2. PipeTypes'
    BY <1>0, <1>1 DEF PipeTypes
  <2> QED BY <1>0, <2>1, <2>2, TypesKept, TypesThen DEF reader, cond
<1>3. \A r \in Procs \ {p} : Same(r)
  BY <1>0, <1>1 DEF Same, CallTypes, PipeTypes, call, reader, cond
<1>4. pc'[p] = "closeRead" /\ UNCHANGED <<pipe, readOpen, thread, header, missing>>
  BY <1>0 DEF CallTypes, reader
<1>5. Local(p)'
  <2>1. CallFits(p)' /\ WaitFits(p)'
    BY <1>4 DEF CallFits, WaitFits, Sending, Receiving
  <2>2. OpenFits(p)' /\ ReadersFit(p)'
    BY <1>0, <1>4 DEF Local, OpenFits, ReadersFit, Finishing
  <2> QED BY <2>1, <2>2 DEF Local
<1>6. StreamsFit'
  BY <1>0, <1>3, <1>4, QuietStreams
<1> QED BY <1>2, <1>3, <1>5, <1>6, StepFits

LEMMA CloseReadFits ==
  ASSUME IInv, NEW p \in Procs, CloseRead(p)
  PROVE  IInv' /\ OnlyOf(p)
<1>0. /\ TypeOK /\ StreamsFit /\ Local(p) /\ CallTypes /\ PipeTypes /\ ReaderTypes
      /\ pc[p] = "closeRead"
      /\ UNCHANGED <<call, pipe, writeOpen, buffers, cond, done, watchdog, detector>>
  BY Types DEF IInv, CloseRead
<1>1. PICK q :
        /\ readOpen' = [readOpen EXCEPT ![p] = readOpen[p] \ {q}]
        /\ \/ UNCHANGED reader
           \/ /\ thread' = [thread EXCEPT ![p][q] = "dead"]
              /\ header' = [header EXCEPT ![p][q] = None]
              /\ missing' = [missing EXCEPT ![p][q] = 0]
  BY DEF CloseRead
<1>2. pc' = [pc EXCEPT ![p] = "notifyFinished"] \/ pc' = [pc EXCEPT ![p] = "closeWrite"]
  BY DEF CloseRead, Goto
<1>3. PipeTypes' /\ ReaderTypes'
  <2>1. PipeTypes'
    BY <1>0, <1>1 DEF PipeTypes
  <2>2. CASE UNCHANGED reader
    BY <1>0, <2>1, <2>2 DEF ReaderTypes, reader
  <2>3. CASE /\ thread' = [thread EXCEPT ![p][q] = "dead"]
             /\ header' = [header EXCEPT ![p][q] = None]
             /\ missing' = [missing EXCEPT ![p][q] = 0]
    <3>1. thread' \in [Procs -> [Procs -> {"header", "data", "entry", "wake", "dead"}]]
      BY <1>0, <2>3 DEF ReaderTypes
    <3>2. header' \in [Procs -> [Procs -> Messages \cup {None}]]
      BY <1>0, <2>3 DEF ReaderTypes
    <3>3. missing' \in [Procs -> [Procs -> Nat]]
      BY <1>0, <2>3 DEF ReaderTypes
    <3> QED BY <2>1, <3>1, <3>2, <3>3 DEF ReaderTypes
  <2> QED BY <1>1, <2>2, <2>3
<1>4. TypeOK'
  <2>1. CallTypes'
    BY <1>0, <1>2 DEF CallTypes, Everywhere, call
  <2> QED BY <1>0, <1>3, <2>1, TypesKept, TypesThen DEF cond
<1>5. ASSUME NEW r \in Procs \ {p} PROVE Same(r)
  <2>1. readOpen'[r] = readOpen[r] /\ pc'[r] = pc[r]
    BY <1>0, <1>1, <1>2 DEF CallTypes, PipeTypes
  <2>2. thread'[r] = thread[r] /\ header'[r] = header[r] /\ missing'[r] = missing[r]
    BY <1>0, <1>1 DEF ReaderTypes, reader
  <2> QED BY <1>0, <2>1, <2>2 DEF Same, call, cond
<1>6. pc'[p] \in {"notifyFinished", "closeWrite"}
  BY <1>0, <1>2 DEF CallTypes
<1>7. Local(p)'
  <2>1. CallFits(p)' /\ WaitFits(p)'
    BY <1>6 DEF CallFits, WaitFits, Sending, Receiving
  <2>2. OpenFits(p)'
    BY <1>0, <1>1, <1>6 DEF Local, OpenFits, Finishing, PipeTypes
  <2>3. ASSUME NEW x \in Procs
        PROVE  \/ thread'[p][x] = "dead"
               \/ /\ thread'[p][x] = thread[p][x] /\ header'[p][x] = header[p][x]
                  /\ missing'[p][x] = missing[p][x]
    BY <1>0, <1>1 DEF ReaderTypes, reader
  <2>4. ReadersFit(p)'
    BY <1>0, <2>3 DEF Local, ReadersFit
  <2> QED BY <2>1, <2>2, <2>4 DEF Local
<1>8. StreamsFit'
  <2>1. \A x, y \in Procs : Unsent(y, x)' = Unsent(y, x)
    BY <1>0, <1>5, <1>6 DEF Unsent, Same
  <2>2. ASSUME NEW x \in Procs, NEW y \in Procs, HasReader(x, y)'
        PROVE  HasReader(x, y) /\ Begun(x, y)' = Begun(x, y)
    <3>1. CASE x # p
      BY <1>5, <2>2, <3>1 DEF Same, HasReader, Begun
    <3>2. CASE x = p /\ y # q
      <4>1. thread'[p][y] = thread[p][y] /\ missing'[p][y] = missing[p][y]
            /\ (y \in readOpen'[p] <=> y \in readOpen[p])
        BY <1>0, <1>1, <3>2 DEF ReaderTypes, PipeTypes, reader
      <4> QED BY <2>2, <3>2, <4>1 DEF HasReader, Begun
    <3>3. CASE x = p /\ y = q
      <4>1. y \notin readOpen'[p]
        BY <1>0, <1>1, <3>3 DEF PipeTypes
      <4>2. thread'[p][y] = "dead" \/ UNCHANGED reader
        BY <1>0, <1>1, <3>3 DEF ReaderTypes
      <4> QED BY <2>2, <3>3, <4>1, <4>2 DEF HasReader, Begun, reader
    <3> QED BY <3>1, <3>2, <3>3
  <2> QED BY <1>0, <2>1, <2>2, StreamsKept
<1> QED BY <1>4, <1>5, <1>7, <1>8, StepFits

LEMMA NotifyFinishedFits ==
  ASSUME IInv, NEW p \in Procs, NotifyFinished(p)
  PROVE  IInv' /\ OnlyOf(p)
<1>0. /\ TypeOK /\ StreamsFit /\ Local(p) /\ CallTypes /\ StateTypes
      /\ pc[p] = "notifyFinished" /\ pc' = [pc EXCEPT ![p] = "join"]
      /\ Notify(p, DEADLOCK_FINISHED)
      /\ UNCHANGED <<call, pipes, reader, buffers, cond, done, wait_table, reports>>
  BY Types DEF IInv, NotifyFinished, Goto
<1>1. TypeOK'
  <2>1. DetectorTypeOK'
    BY <1>0, Types, NotifyTypes
  <2>2. CallTypes'
    BY <1>0 DEF CallTypes, Everywhere, call
  <2>3. StateTypes'
    BY <1>0 DEF NotifyFinished, StateTypes
  <2> QED BY <1>0, <2>1, <2>2, <2>3, TypesKept, TypesThen DEF pipes, reader, cond
<1>2. \A r \in Procs \ {p} : Same(r)
  BY <1>0 DEF Same, CallTypes, call, pipes, reader, cond
<1>3. pc'[p] = "join" /\ UNCHANGED <<pipe, readOpen, writeOpen, thread, header, missing>>
  BY <1>0 DEF CallTypes, pipes, reader
<1>4. Local(p)'
  BY <1>0, <1>3, MovesOn DEF Sending, Receiving, Finishing
<1>5. StreamsFit'
  BY <1>0, <1>2, <1>3, QuietStreams
<1> QED BY <1>1, <1>2, <1>4, <1>5, StepFits

LEMMA JoinFits ==
  ASSUME IInv, NEW p \in Procs, Join(p)
  PROVE  IInv' /\ OnlyOf(p)
<1>0. /\ TypeOK /\ StreamsFit /\ Local(p) /\ CallTypes /\ BufferTypes /\ pc[p] = "join"
      /\ pc' = [pc EXCEPT ![p] = "finished"]
      /\ buffers' = [buffers EXCEPT ![p] = [q \in Procs |-> <<>>]]
      /\ UNCHANGED <<call, pipes, reader, cond, done, watchdog, detector>>
  BY Types DEF IInv, Join, Goto
<1>1. TypeOK'
  <2>1. CallTypes'
    BY <1>0 DEF CallTypes, Everywhere, call
  <2>2. BufferTypes'
    BY <1>0 DEF BufferTypes
  <2> QED BY <1>0, <2>1, <2>2, TypesKept, TypesThen DEF pipes, reader, cond
<1>2. \A r \in Procs \ {p} : Same(r)
  BY <1>0 DEF Same, CallTypes, BufferTypes, call, pipes, reader, cond
<1>3. pc'[p] = "finished" /\ UNCHANGED <<pipe, readOpen, writeOpen, thread, header, missing>>
  BY <1>0 DEF CallTypes, pipes, reader
<1>4. Local(p)'
  BY <1>0, <1>3, MovesOn DEF Sending, Receiving, Finishing
<1>5. StreamsFit'
  BY <1>0, <1>2, <1>3, QuietStreams
<1> QED BY <1>1, <1>2, <1>4, <1>5, StepFits
-----------------------------------------------------------------------------
(* The buffer threads and the watchdog *)

\* A step of a thread leaves the program of its process where it is.
LEMMA ThreadLocal ==
  ASSUME NEW p \in Procs, Local(p), ReadersFit(p)', WaitFits(p)',
         UNCHANGED <<pc, req, left, readOpen, writeOpen>>
  PROVE  Local(p)'
<1>1. CallFits(p)' /\ OpenFits(p)'
  BY DEF Local, CallFits, OpenFits, Kind, Finishing
<1> QED BY <1>1 DEF Local

\* The buffer thread of p for q reads a block.
LEMMA ReadStreams ==
  ASSUME PipeTypes, StreamsFit, NEW p \in Procs, NEW q \in Procs, p # q,
         UNCHANGED <<readOpen, pc, req, left>>, pipe' = [pipe EXCEPT ![q][p] = Tail(@)],
         NEW later, Framed(Tail(pipe[q][p]), later, Unsent(q, p)),
         HasReader(p, q)' => Begun(p, q)' = later,
         \A x, y \in Procs : x # p \/ y # q => thread'[x][y] = thread[x][y]
                                              /\ missing'[x][y] = missing[x][y]
  PROVE  StreamsFit'
<1>1. \A x, y \in Procs : Unsent(y, x)' = Unsent(y, x)
  BY DEF Unsent
<1>2. ASSUME NEW x \in Procs, NEW y \in Procs, HasReader(x, y)'
      PROVE  Framed(pipe[y][x], Begun(x, y), Unsent(y, x))'
  <2>1. CASE x = p /\ y = q
    <3>1. pipe'[q][p] = Tail(pipe[q][p])
      BY DEF PipeTypes
    <3> QED BY <1>1, <1>2, <2>1, <3>1
  <2>2. CASE x # p \/ y # q
    <3>1. pipe'[y][x] = pipe[y][x]
      BY <2>2 DEF PipeTypes
    <3>2. HasReader(x, y) /\ Begun(x, y)' = Begun(x, y)
      BY <1>2, <2>2 DEF HasReader, Begun
    <3> QED BY <1>1, <3>1, <3>2 DEF StreamsFit
  <2> QED BY <2>1, <2>2
<1> QED BY <1>2 DEF StreamsFit

\* What the front of the pipe is when a thread may read it.
LEMMA FrontOf ==
  ASSUME PipeTypes, StreamsFit, NEW p \in Procs, NEW q \in Procs,
         pipe[q][p] # <<>>, HasReader(p, q)
  PROVE  /\ \/ /\ Begun(p, q) = 0 /\ NextBlock(p, q) \in Messages
               /\ Framed(Tail(pipe[q][p]), NextBlock(p, q).count, Unsent(q, p))
            \/ /\ Begun(p, q) > 0 /\ Begun(p, q) \in Nat /\ NextBlock(p, q) = More
               /\ Framed(Tail(pipe[q][p]), Begun(p, q) - 1, Unsent(q, p))
         /\ Tail(pipe[q][p]) \in Seq(Messages \cup {More})
<1>1. Framed(pipe[q][p], Begun(p, q), Unsent(q, p))
  BY DEF StreamsFit
<1>2. pipe[q][p] \in Seq(Messages \cup {More})
  BY DEF PipeTypes
<1>3. Tail(pipe[q][p]) \in Seq(Messages \cup {More})
  BY <1>2
<1> QED BY <1>1, <1>2, <1>3, FramedTail DEF NextBlock

\* A step that changes only what the thread of p for q has in hand.
LEMMA ReaderSame ==
  ASSUME TypeOK, NEW p \in Procs, NEW r \in Procs \ {p},
         UNCHANGED <<pc, req, left, readOpen, writeOpen>>,
         UNCHANGED <<buffers, update, found, deadlock, signal, done>>,
         thread'[r] = thread[r], header'[r] = header[r], missing'[r] = missing[r]
  PROVE  Same(r)
BY DEF Same

LEMMA ReadHeaderFits ==
  ASSUME IInv, NEW p \in Procs, NEW q \in Peers(p), ReadHeader(p, q)
  PROVE  IInv' /\ OnlyOf(p)
<1>0. /\ TypeOK /\ StreamsFit /\ Local(p) /\ PipeTypes /\ ReaderTypes
      /\ q \in Procs /\ p # q /\ thread[p][q] = "header" /\ pipe[q][p] # <<>>
      /\ UNCHANGED <<pc, call, writeOpen, readOpen, buffers, cond, done, watchdog, detector>>
  BY Types DEF IInv, ReadHeader, Peers
<1>1. HasReader(p, q) /\ Begun(p, q) = 0
  BY <1>0 DEF HasReader, Begun
<1>2. PICK m \in Messages : /\ m = NextBlock(p, q)
                            /\ Framed(Tail(pipe[q][p]), m.count, Unsent(q, p))
  BY <1>0, <1>1, FrontOf
<1>3. m.count \in Nat
  BY FrameConstants
<1>4. PICK place \in {"entry", "data", "dead"} :
        /\ place = "entry" <=> m.count = 0
        /\ place = "dead" => q \notin readOpen[p]
        /\ thread' = [thread EXCEPT ![p][q] = place]
  BY <1>2 DEF ReadHeader, ThreadAt
<1>5. /\ header' = [header EXCEPT ![p][q] = m]
      /\ missing' = [missing EXCEPT ![p][q] = m.count]
      /\ pipe' = [pipe EXCEPT ![q][p] = Tail(@)]
  BY <1>2 DEF ReadHeader
<1>6. ReaderTypes'
  BY <1>0, <1>3, <1>4, <1>5 DEF ReaderTypes
<1>7. PipeTypes'
  BY <1>0, <1>1, <1>5, FrontOf DEF PipeTypes
<1>8. TypeOK'
  BY <1>0, <1>6, <1>7, TypesKept, TypesThen DEF call, cond
<1>9. /\ thread'[p][q] = place /\ header'[p][q] = m /\ missing'[p][q] = m.count
      /\ \A x, y \in Procs : x # p \/ y # q =>
           /\ thread'[x][y] = thread[x][y] /\ header'[x][y] = header[x][y]
           /\ missing'[x][y] = missing[x][y]
  BY <1>0, <1>4, <1>5 DEF ReaderTypes
<1>10. ASSUME NEW r \in Procs \ {p} PROVE Same(r)
  <2>1. thread'[r] = thread[r] /\ header'[r] = header[r] /\ missing'[r] = missing[r]
    BY <1>0, <1>4, <1>5 DEF ReaderTypes
  <2> QED BY <1>0, <2>1, ReaderSame DEF call, cond
<1>11. Local(p)'
  <2>1. ReadersFit(p)'
    BY <1>0, <1>3, <1>4, <1>9 DEF Local, ReadersFit
  <2>2. WaitFits(p)'
    BY <1>0, <1>9 DEF Local, CallFits, WaitFits, Sending, Receiving, Peers, Kind, Matching,
                      call, cond
  <2> QED BY <1>0, <2>1, <2>2, ThreadLocal DEF call
<1>12. StreamsFit'
  <2>1. HasReader(p, q)' => Begun(p, q)' = m.count
    BY <1>0, <1>4, <1>9 DEF HasReader, Begun
  <2>2. UNCHANGED <<readOpen, pc, req, left>>
    BY <1>0 DEF call
  <2>3. PICK later : later = m.count
    OBVIOUS
  <2>4. /\ Framed(Tail(pipe[q][p]), later, Unsent(q, p))
        /\ HasReader(p, q)' => Begun(p, q)' = later
        /\ \A x, y \in Procs : x # p \/ y # q => thread'[x][y] = thread[x][y]
                                             /\ missing'[x][y] = missing[x][y]
    BY <1>2, <1>9, <2>1, <2>3
  <2> QED BY <1>0, <1>5, <2>2, <2>4, ReadStreams
<1> QED BY <1>8, <1>10, <1>11, <1>12, StepFits

LEMMA ReadDataFits ==
  ASSUME IInv, NEW p \in Procs, NEW q \in Peers(p), ReadData(p, q)
  PROVE  IInv' /\ OnlyOf(p)
<1>0. /\ TypeOK /\ StreamsFit /\ Local(p) /\ PipeTypes /\ ReaderTypes
      /\ q \in Procs /\ p # q /\ thread[p][q] = "data" /\ pipe[q][p] # <<>>
      /\ UNCHANGED <<pc, call, writeOpen, readOpen, header, buffers, cond, done, watchdog,
                     detector>>
  BY Types DEF IInv, ReadData, Peers
<1>1. PICK a : a = missing[p][q]
  OBVIOUS
<1>2. HasReader(p, q) /\ Begun(p, q) = a /\ a > 0 /\ a \in Nat /\ header[p][q] \in Messages
  BY <1>0, <1>1 DEF HasReader, Begun, Local, ReadersFit, ReaderTypes
<1>3. Framed(Tail(pipe[q][p]), a - 1, Unsent(q, p)) /\ a - 1 \in Nat
  BY <1>0, <1>2, FrontOf
<1>4. PICK place \in {"entry", "data", "dead"} :
        /\ place = "entry" <=> a = 1
        /\ place = "dead" => q \notin readOpen[p]
        /\ thread' = [thread EXCEPT ![p][q] = place]
  BY <1>1 DEF ReadData, ThreadAt
<1>5. /\ missing' = [missing EXCEPT ![p][q] = a - 1]
      /\ pipe' = [pipe EXCEPT ![q][p] = Tail(@)]
  BY <1>1 DEF ReadData
<1>6. ReaderTypes'
  <2>1. thread' \in [Procs -> [Procs -> {"header", "data", "entry", "wake", "dead"}]]
    BY <1>0, <1>4 DEF ReaderTypes
  <2>2. missing' \in [Procs -> [Procs -> Nat]]
    BY <1>0, <1>3, <1>5 DEF ReaderTypes
  <2> QED BY <1>0, <2>1, <2>2 DEF ReaderTypes
<1>7. PipeTypes'
  BY <1>0, <1>2, <1>5, FrontOf DEF PipeTypes
<1>8. TypeOK'
  BY <1>0, <1>6, <1>7, TypesKept, TypesThen DEF call, cond
<1>9. /\ thread'[p][q] = place /\ missing'[p][q] = a - 1
      /\ \A x, y \in Procs : x # p \/ y # q =>
           thread'[x][y] = thread[x][y] /\ missing'[x][y] = missing[x][y]
  BY <1>0, <1>4, <1>5 DEF ReaderTypes
<1>10. ASSUME NEW r \in Procs \ {p} PROVE Same(r)
  <2>1. thread'[r] = thread[r] /\ header'[r] = header[r] /\ missing'[r] = missing[r]
    BY <1>0, <1>4, <1>5 DEF ReaderTypes
  <2> QED BY <1>0, <2>1, ReaderSame DEF call, cond
<1>11. Local(p)'
  <2>1. ReadersFit(p)'
    BY <1>0, <1>2, <1>3, <1>4, <1>9 DEF Local, ReadersFit
  <2>2. WaitFits(p)'
    BY <1>0, <1>9 DEF Local, CallFits, WaitFits, Sending, Receiving, Peers, Kind, Matching,
                      call, cond
  <2> QED BY <1>0, <2>1, <2>2, ThreadLocal DEF call
<1>12. StreamsFit'
  <2>1. HasReader(p, q)' => Begun(p, q)' = a - 1
    BY <1>0, <1>4, <1>9 DEF HasReader, Begun
  <2>2. UNCHANGED <<readOpen, pc, req, left>>
    BY <1>0 DEF call
  <2>3. PICK later : later = a - 1
    OBVIOUS
  <2>4. /\ Framed(Tail(pipe[q][p]), later, Unsent(q, p))
        /\ HasReader(p, q)' => Begun(p, q)' = later
        /\ \A x, y \in Procs : x # p \/ y # q => thread'[x][y] = thread[x][y]
                                             /\ missing'[x][y] = missing[x][y]
    BY <1>3, <1>9, <2>1, <2>3
  <2> QED BY <1>0, <1>5, <2>2, <2>4, ReadStreams
<1> QED BY <1>8, <1>10, <1>11, <1>12, StepFits

\* A step of the thread of p for q that reads nothing.
LEMMA IdleStreams ==
  ASSUME ReaderTypes, StreamsFit, NEW p \in Procs, NEW q \in Procs,
         UNCHANGED <<readOpen, pipe, pc, req, left, missing>>, NEW place,
         thread' = [thread EXCEPT ![p][q] = place],
         place = "dead" \/ place = "wake" \/ (place = "header" /\ q \in readOpen[p]),
         thread[p][q] # "data"
  PROVE  StreamsFit'
<1>1. thread'[p][q] = place
  BY DEF ReaderTypes
<1>2. \A x, y \in Procs : x # p \/ y # q => thread'[x][y] = thread[x][y]
  BY DEF ReaderTypes
<1>3. \A x, y \in Procs : Unsent(y, x)' = Unsent(y, x)
  BY DEF Unsent
<1>4. ASSUME NEW x \in Procs, NEW y \in Procs, HasReader(x, y)'
      PROVE  HasReader(x, y) /\ Begun(x, y)' = Begun(x, y)
  <2>1. CASE x # p \/ y # q
    BY <1>2, <1>4, <2>1 DEF HasReader, Begun
  <2>2. CASE x = p /\ y = q
    BY <1>1, <1>4, <2>2 DEF HasReader, Begun
  <2> QED BY <2>1, <2>2
<1> QED BY <1>3, <1>4, StreamsKept

\* Where a pipe ends, no message is half read.
LEMMA EndBetween ==
  ASSUME IInv, NEW p \in Procs, NEW q \in Peers(p), ReadEnd(p, q)
  PROVE  thread[p][q] = "header"
<1>0. /\ StreamsFit /\ Local(p) /\ Local(q) /\ q \in Procs /\ p # q
      /\ thread[p][q] \in {"header", "data"} /\ pipe[q][p] = <<>> /\ p \notin writeOpen[q]
  BY DEF IInv, ReadEnd, Peers
<1>1. Finishing(q)
  BY <1>0 DEF Local, OpenFits, Peers
<1>2. Unsent(q, p) = 0
  BY <1>1 DEF Unsent, Finishing
<1>3. Begun(p, q) = 0
  <2>1. Framed(<<>>, Begun(p, q), Unsent(q, p))
    BY <1>0 DEF StreamsFit, HasReader
  <2> QED BY <1>2, <2>1, FramedEnd
<1> QED BY <1>0, <1>3 DEF Begun, Local, ReadersFit

LEMMA ReadEndFits ==
  ASSUME IInv, NEW p \in Procs, NEW q \in Peers(p), ReadEnd(p, q)
  PROVE  IInv' /\ OnlyOf(p)
<1>0. /\ TypeOK /\ StreamsFit /\ Local(p) /\ Local(q) /\ ReaderTypes /\ StateTypes
      /\ q \in Procs /\ p # q /\ thread[p][q] \in {"header", "data"}
      /\ pipe[q][p] = <<>> /\ p \notin writeOpen[q]
      /\ UNCHANGED <<pc, call, pipes, header, missing, buffers, cond, watchdog, detector>>
  BY Types DEF IInv, ReadEnd, Peers
<1>1. PICK place \in {"dead", "wake"} :
        /\ thread' = [thread EXCEPT ![p][q] = place]
        /\ \/ place = "dead" /\ UNCHANGED done /\ Finishing(p)
           \/ place = "wake" /\ done' = [done EXCEPT ![p] = @ \cup {q}]
  BY DEF ReadEnd, ThreadAt
<1>2. thread[p][q] = "header"
  BY EndBetween
<1>3. ReaderTypes' /\ StateTypes'
  <2>1. ReaderTypes'
    BY <1>0, <1>1 DEF ReaderTypes
  <2>2. StateTypes'
    BY <1>0, <1>1 DEF StateTypes
  <2> QED BY <2>1, <2>2
<1>4. TypeOK'
  BY <1>0, <1>3, TypesKept, TypesThen DEF call, pipes, cond
<1>5. /\ thread'[p][q] = place
      /\ \A x, y \in Procs : x # p \/ y # q => thread'[x][y] = thread[x][y]
  BY <1>0, <1>1 DEF ReaderTypes
<1>6. ASSUME NEW r \in Procs \ {p} PROVE Same(r)
  <2>1. thread'[r] = thread[r] /\ done'[r] = done[r]
    BY <1>0, <1>1 DEF ReaderTypes, StateTypes
  <2> QED BY <1>0, <2>1 DEF Same, call, pipes, cond
<1>7. Local(p)'
  <2>1. ReadersFit(p)'
    BY <1>0, <1>5 DEF Local, ReadersFit
  <2>2. WaitFits(p)'
    <3>1. CASE pc[p] = "recvWait"
      <4>1. place = "wake" /\ done'[p] = done[p] \cup {q}
        BY <1>0, <1>1, <3>1 DEF Finishing, StateTypes
      <4>2. /\ Kind(p)' = Kind(p) /\ Matching(p)' = Matching(p) /\ req[p].peer \in Procs
            /\ UNCHANGED <<req, update, found, signal, deadlock>>
        BY <1>0, <3>1 DEF Local, CallFits, Receiving, Sending, Peers, Kind, Matching, call, cond
      <4> QED BY <1>0, <1>5, <3>1, <4>1, <4>2 DEF Local, WaitFits
    <3>2. CASE pc[p] # "recvWait"
      BY <1>0, <3>2 DEF WaitFits
    <3> QED BY <3>1, <3>2
  <2> QED BY <1>0, <2>1, <2>2, ThreadLocal DEF call, pipes
<1>8. StreamsFit'
  BY <1>0, <1>1, <1>2, IdleStreams DEF call, pipes
<1> QED BY <1>4, <1>6, <1>7, <1>8, StepFits

\* Who waits for q in p is signalled, and nobody's signal is taken back.
LEMMA Signalled ==
  ASSUME CondTypes, NEW p \in Procs, NEW q, Signal(p, q)
  PROVE  /\ signal' \in [Procs -> BOOLEAN]
         /\ \A r \in Procs \ {p} : signal'[r] = signal[r]
         /\ signal[p] => signal'[p]
         /\ pc[p] = "recvWait" /\ req[p].peer = q => signal'[p]
<1>1. PICK woken \in BOOLEAN : woken <=> signal[p] \/ (pc[p] = "recvWait" /\ req[p].peer = q)
  OBVIOUS
<1>2. signal' = [signal EXCEPT ![p] = woken]
  <2>1. woken = (signal[p] \/ (pc[p] = "recvWait" /\ req[p].peer = q))
    BY <1>1
  <2> QED BY <2>1 DEF Signal
<1> QED BY <1>1, <1>2 DEF CondTypes

LEMMA WakeFits ==
  ASSUME IInv, NEW p \in Procs, NEW q \in Peers(p), wake_recv_uncond(p, q)
  PROVE  IInv' /\ OnlyOf(p)
<1>0. /\ TypeOK /\ StreamsFit /\ Local(p) /\ ReaderTypes /\ CondTypes
      /\ q \in Procs /\ p # q /\ thread[p][q] = "wake"
      /\ thread' = [thread EXCEPT ![p][q] = "dead"]
      /\ found' = [found EXCEPT ![p][q] = TRUE]
      /\ Signal(p, q)
      /\ UNCHANGED <<pc, call, pipes, header, missing, buffers, update, deadlock, done,
                     watchdog, detector>>
  BY Types DEF IInv, wake_recv_uncond, ThreadAt, Peers
<1>1. ReaderTypes' /\ CondTypes'
  BY <1>0, Signalled DEF ReaderTypes, CondTypes
<1>2. TypeOK'
  BY <1>0, <1>1, TypesKept, TypesThen DEF call, pipes
<1>3. /\ thread'[p][q] = "dead" /\ found'[p][q] = TRUE
      /\ signal[p] => signal'[p]
      /\ pc[p] = "recvWait" /\ req[p].peer = q => signal'[p]
      /\ \A x \in Procs \ {q} : thread'[p][x] = thread[p][x] /\ found'[p][x] = found[p][x]
  BY <1>0, Signalled DEF ReaderTypes, CondTypes
<1>4. ASSUME NEW r \in Procs \ {p} PROVE Same(r)
  <2>1. thread'[r] = thread[r] /\ found'[r] = found[r] /\ signal'[r] = signal[r]
    BY <1>0, Signalled DEF ReaderTypes, CondTypes
  <2> QED BY <1>0, <2>1 DEF Same, call, pipes
<1>5. Local(p)'
  <2>1. ReadersFit(p)'
    BY <1>0, <1>3 DEF Local, ReadersFit
  <2>2. WaitFits(p)'
    <3>1. CASE pc[p] = "recvWait"
      <4>1. /\ Kind(p)' = Kind(p) /\ Matching(p)' = Matching(p) /\ req[p].peer \in Procs
            /\ UNCHANGED <<req, update, deadlock, done>>
        BY <1>0, <3>1 DEF Local, CallFits, Receiving, Sending, Peers, Kind, Matching, call
      <4>2. CASE req[p].peer = q
        BY <1>0, <1>3, <3>1, <4>1, <4>2 DEF Local, WaitFits
      <4>3. CASE req[p].peer # q
        BY <1>0, <1>3, <3>1, <4>1, <4>3 DEF Local, WaitFits
      <4> QED BY <4>2, <4>3
    <3>2. CASE pc[p] # "recvWait"
      BY <1>0, <3>2 DEF WaitFits
    <3> QED BY <3>1, <3>2
  <2> QED BY <1>0, <2>1, <2>2, ThreadLocal DEF call, pipes
<1>6. StreamsFit'
  BY <1>0, IdleStreams DEF call, pipes
<1> QED BY <1>2, <1>4, <1>5, <1>6, StepFits

\* The new message is the one that p waits for, or p could have had its message
\* before.
LEMMA NewMatching ==
  ASSUME NEW p \in Procs, NEW q \in Procs, NEW m, UNCHANGED req, BufferTypes,
         buffers' = [buffers EXCEPT ![p][q] = Append(@, m)], m \in Messages,
         req[p].peer \in Procs, Matching(p)' # {}, req[p].tag # MIMPI_ANY_TAG
  PROVE  \/ Matching(p) # {}
         \/ req[p].peer = q /\ m.tag = req[p].tag /\ m.count = req[p].count
<1>1. PICK x \in Procs : x = req[p].peer
  OBVIOUS
<1>2. PICK i \in 1..Len(buffers'[p][x]) :
        ok_tag(buffers'[p][x][i].tag, req[p].tag) /\ buffers'[p][x][i].count = req[p].count
  BY <1>1 DEF Matching
<1>3. buffers[p][x] \in Seq(Messages)
  BY DEF BufferTypes
<1>4. CASE x # q
  <2>1. buffers'[p][x] = buffers[p][x]
    BY <1>4 DEF BufferTypes
  <2> QED BY <1>1, <1>2, <2>1 DEF Matching
<1>5. CASE x = q
  <2>1. buffers'[p][x] = Append(buffers[p][x], m)
    BY <1>5 DEF BufferTypes
  <2>2. /\ Len(buffers'[p][x]) = Len(buffers[p][x]) + 1 /\ Len(buffers[p][x]) \in Nat
        /\ \A j \in 1..Len(buffers[p][x]) : buffers'[p][x][j] = buffers[p][x][j]
        /\ buffers'[p][x][Len(buffers[p][x]) + 1] = m
    BY <1>3, <2>1
  <2>3. CASE i = Len(buffers[p][x]) + 1
    BY <1>1, <1>2, <1>5, <2>2, <2>3 DEF ok_tag
  <2>4. CASE i \in 1..Len(buffers[p][x])
    <3>1. /\ ok_tag(buffers[p][x][i].tag, req[p].tag)
          /\ buffers[p][x][i].count = req[p].count
      BY <1>2, <2>2, <2>4
    <3>2. i \in Matching(p)
      BY <1>1, <2>4, <3>1 DEF Matching
    <3> QED BY <3>2
  <2>5. PICK n \in Nat : n = Len(buffers[p][x]) /\ i \in 1..(n + 1)
    BY <1>2, <2>2
  <2>6. i \in 1..n \/ i = n + 1
    BY <2>5
  <2> QED BY <2>3, <2>4, <2>5, <2>6
<1> QED BY <1>4, <1>5

LEMMA AddEntryFits ==
  ASSUME IInv, NEW p \in Procs, NEW q \in Peers(p), AddEntry(p, q)
  PROVE  IInv' /\ OnlyOf(p)
<1>0. /\ TypeOK /\ StreamsFit /\ Local(p) /\ ReaderTypes /\ CondTypes /\ BufferTypes
      /\ q \in Procs /\ p # q /\ thread[p][q] = "entry"
      /\ UNCHANGED <<pc, call, pipes, missing, update, deadlock, done, watchdog, detector>>
  BY Types DEF IInv, AddEntry, Peers
<1>1. PICK m \in Messages : m = header[p][q]
  BY <1>0 DEF Local, ReadersFit
<1>2. PICK place \in {"dead", "header"} : /\ thread' = [thread EXCEPT ![p][q] = place]
                                          /\ place = "header" => ~Finishing(p)
  BY DEF AddEntry, ThreadAt
<1>3. /\ buffers' = [buffers EXCEPT ![p][q] = Append(@, m)]
      /\ header' = [header EXCEPT ![p][q] = None]
      /\ \/ /\ update[p][q] = [tag |-> m.tag, count |-> m.count]
            /\ found' = [found EXCEPT ![p][q] = TRUE]
            /\ Signal(p, q)
         \/ /\ update[p][q] # [tag |-> m.tag, count |-> m.count]
            /\ UNCHANGED <<found, signal>>
  BY <1>1 DEF AddEntry
<1>4. ReaderTypes' /\ CondTypes' /\ BufferTypes'
  <2>1. thread' \in [Procs -> [Procs -> {"header", "data", "entry", "wake", "dead"}]]
    BY <1>0, <1>2 DEF ReaderTypes
  <2>2. header' \in [Procs -> [Procs -> Messages \cup {None}]]
    BY <1>0, <1>3 DEF ReaderTypes
  <2>3. CondTypes'
    <3>1. found' \in [Procs -> [Procs -> BOOLEAN]]
      <4>1. CASE UNCHANGED found
        BY <1>0, <4>1 DEF CondTypes
      <4>2. CASE found' = [found EXCEPT ![p][q] = TRUE]
        BY <1>0, <4>2 DEF CondTypes
      <4> QED BY <1>3, <4>1, <4>2
    <3>2. signal' \in [Procs -> BOOLEAN]
      BY <1>0, <1>3, Signalled DEF CondTypes
    <3> QED BY <1>0, <3>1, <3>2 DEF CondTypes
  <2>4. BufferTypes'
    <3>1. Append(buffers[p][q], m) \in Seq(Messages)
      BY <1>0 DEF BufferTypes
    <3> QED BY <1>0, <1>3, <3>1 DEF BufferTypes
  <2> QED BY <1>0, <2>1, <2>2, <2>3, <2>4 DEF ReaderTypes
<1>5. TypeOK'
  BY <1>0, <1>4, TypesKept, TypesThen DEF call, pipes
<1>6. /\ thread'[p][q] = place
      /\ \A x \in Procs \ {q} : thread'[p][x] = thread[p][x] /\ header'[p][x] = header[p][x]
  BY <1>0, <1>2, <1>3 DEF ReaderTypes
<1>7. ASSUME NEW r \in Procs \ {p} PROVE Same(r)
  <2>1. thread'[r] = thread[r] /\ header'[r] = header[r] /\ buffers'[r] = buffers[r]
    BY <1>0, <1>2, <1>3 DEF ReaderTypes, BufferTypes
  <2>2. found'[r] = found[r] /\ signal'[r] = signal[r]
    BY <1>0, <1>3, Signalled DEF CondTypes
  <2> QED BY <1>0, <2>1, <2>2 DEF Same, call, pipes
<1>8. Local(p)'
  <2>1. ReadersFit(p)'
    BY <1>0, <1>6 DEF Local, ReadersFit
  <2>2. CASE pc[p] = "recvWait"
    <3>1. PICK x \in Procs : x = req[p].peer
      BY <1>0, <2>2 DEF Local, CallFits, Receiving, Sending, Peers
    <3>2. Kind(p)' = Kind(p) /\ UNCHANGED <<pc, req, update, deadlock, done>>
      BY <1>0 DEF Kind, call
    <3>3. thread[p][x] = "wake" => thread'[p][x] = "wake"
      BY <1>0, <1>6
    <3>4. (found[p][x] => found'[p][x]) /\ (signal[p] => signal'[p])
      BY <1>0, <1>3, Signalled DEF CondTypes
    <3>5. ASSUME req[p].tag # MIMPI_ANY_TAG, Matching(p)' # {}
          PROVE  found'[p][x] /\ signal'[p]
      <4>1. CASE Matching(p) # {}
        BY <1>0, <2>2, <3>1, <3>4, <3>5, <4>1 DEF Local, WaitFits
      <4>2. CASE x = q /\ m.tag = req[p].tag /\ m.count = req[p].count
        <5>1. update[p][q] = [tag |-> m.tag, count |-> m.count]
          BY <1>0, <2>2, <3>1, <4>2 DEF Local, WaitFits, Kind
        <5>2. found' = [found EXCEPT ![p][q] = TRUE] /\ Signal(p, q)
          BY <1>3, <5>1
        <5> QED BY <1>0, <2>2, <3>1, <4>2, <5>2, Signalled DEF CondTypes
      <4>3. \/ Matching(p) # {}
            \/ req[p].peer = q /\ m.tag = req[p].tag /\ m.count = req[p].count
        BY <1>0, <1>3, <3>1, <3>2, <3>5, NewMatching
      <4> QED BY <3>1, <4>1, <4>2, <4>3
    <3>6. WaitFits(p)'
      BY <1>0, <2>2, <3>1, <3>2, <3>3, <3>4, <3>5 DEF Local, WaitFits
    <3> QED BY <1>0, <2>1, <3>6, ThreadLocal DEF call, pipes
  <2>3. CASE pc[p] # "recvWait"
    <3>1. WaitFits(p)'
      BY <1>0, <2>3 DEF WaitFits
    <3> QED BY <1>0, <2>1, <3>1, ThreadLocal DEF call, pipes
  <2> QED BY <2>2, <2>3
<1>9. StreamsFit'
  <2>1. place = "header" => q \in readOpen[p]
    BY <1>0, <1>2 DEF Local, OpenFits
  <2> QED BY <1>0, <1>2, <2>1, IdleStreams DEF call, pipes
<1> QED BY <1>5, <1>7, <1>8, <1>9, StepFits

LEMMA WatchdogFits ==
  ASSUME IInv, NEW p \in Procs, deadlock_watchdog(p)
  PROVE  IInv' /\ OnlyOf(p)
<1>0. /\ TypeOK /\ StreamsFit /\ Local(p) /\ CondTypes /\ StateTypes /\ DetectorTypeOK
      /\ reports[p] # <<>> /\ reports' = [reports EXCEPT ![p] = Tail(@)]
      /\ UNCHANGED <<pc, call, pipes, reader, buffers, update, found, done, wait_table,
                     requests>>
  BY Types DEF IInv, deadlock_watchdog
<1>1. PICK rank : rank = Head(reports[p])
  OBVIOUS
<1>2. /\ watchdog' \in [Procs -> {"read", "dead"}]
      /\ \/ UNCHANGED <<deadlock, signal>>
         \/ /\ deadlock' = [deadlock EXCEPT ![p][rank] = TRUE]
            /\ Signal(p, rank)
  <2>1. CASE rank = DEADLOCK_FINISHED
    BY <1>0, <1>1, <2>1 DEF deadlock_watchdog, StateTypes
  <2>2. CASE rank # DEADLOCK_FINISHED
    BY <1>0, <1>1, <2>2 DEF deadlock_watchdog, StateTypes
  <2> QED BY <2>1, <2>2
<1>3. DetectorTypeOK'
  <2>1. PICK S : S = Procs \cup {DEADLOCK_FINISHED}
    OBVIOUS
  <2>2. Tail(reports[p]) \in Seq(S)
    BY <1>0, <2>1 DEF DetectorTypeOK
  <2>3. reports' \in [Procs -> Seq(S)]
    BY <1>0, <2>1, <2>2 DEF DetectorTypeOK
  <2> QED BY <1>0, <2>1, <2>3 DEF DetectorTypeOK
<1>4. CondTypes' /\ StateTypes'
  <2>1. CondTypes'
    <3>1. deadlock' \in [Procs -> [Procs -> BOOLEAN]]
      <4>1. CASE UNCHANGED deadlock
        BY <1>0, <4>1 DEF CondTypes
      <4>2. CASE deadlock' = [deadlock EXCEPT ![p][rank] = TRUE]
        BY <1>0, <4>2 DEF CondTypes
      <4> QED BY <1>2, <4>1, <4>2
    <3>2. signal' \in [Procs -> BOOLEAN]
      BY <1>0, <1>2, Signalled DEF CondTypes
    <3> QED BY <1>0, <3>1, <3>2 DEF CondTypes
  <2>2. StateTypes'
    BY <1>0, <1>2 DEF StateTypes
  <2> QED BY <2>1, <2>2
<1>5. TypeOK'
  BY <1>0, <1>3, <1>4, TypesKept, TypesThen DEF call, pipes, reader
<1>6. ASSUME NEW r \in Procs \ {p} PROVE Same(r)
  <2>1. deadlock'[r] = deadlock[r] /\ signal'[r] = signal[r]
    BY <1>0, <1>2, Signalled DEF CondTypes
  <2> QED BY <1>0, <2>1 DEF Same, call, pipes, reader
<1>7. Local(p)'
  <2>1. ReadersFit(p)'
    BY <1>0 DEF Local, ReadersFit, reader
  <2>2. WaitFits(p)'
    <3>1. CASE pc[p] = "recvWait"
      <4>1. PICK x \in Procs : x = req[p].peer
        BY <1>0, <3>1 DEF Local, CallFits, Receiving, Sending, Peers
      <4>2. /\ Kind(p)' = Kind(p) /\ Matching(p)' = Matching(p)
            /\ UNCHANGED <<pc, req, update, found, done, thread>>
        BY <1>0 DEF Kind, Matching, call, reader
      <4>3. (signal[p] => signal'[p]) /\ (deadlock'[p][x] => deadlock[p][x] \/ signal'[p])
        BY <1>0, <1>2, <3>1, <4>1, Signalled DEF CondTypes
      <4> QED BY <1>0, <3>1, <4>1, <4>2, <4>3 DEF Local, WaitFits
    <3>2. CASE pc[p] # "recvWait"
      BY <1>0, <3>2 DEF WaitFits
    <3> QED BY <3>1, <3>2
  <2> QED BY <1>0, <2>1, <2>2, ThreadLocal DEF call, pipes
<1>8. StreamsFit'
  <2>1. \A x, y \in Procs : /\ HasReader(x, y)' <=> HasReader(x, y)
                            /\ Begun(x, y)' = Begun(x, y) /\ Unsent(y, x)' = Unsent(y, x)
    BY <1>0 DEF HasReader, Begun, Unsent, call, pipes, reader
  <2> QED BY <1>0, <2>1, StreamsKept DEF pipes
<1> QED BY <1>5, <1>6, <1>7, <1>8, StepFits

LEMMA DetectFits ==
  ASSUME IInv, Detect, UNCHANGED library
  PROVE  IInv'
<1>0. TypeOK /\ StreamsFit /\ DetectorTypeOK
  BY Types DEF IInv
<1>1. PICK S, R : /\ S = Procs \cup {DEADLOCK_FINISHED}
                  /\ R = [my_rank : Procs,
                          sender_rank : Procs \cup {DEADLOCK_NO_WAIT, DEADLOCK_FINISHED}]
  OBVIOUS
<1>2. /\ wait_table \in [Procs -> Procs \cup {DEADLOCK_NO_WAIT}]
      /\ requests \in Seq(R) /\ reports \in [Procs -> Seq(S)]
  BY <1>0, <1>1 DEF DetectorTypeOK
<1>3. PICK packet \in R : packet = Head(requests)
  BY <1>2 DEF Detect
<1>4. PICK me, other : /\ me = packet.my_rank /\ other = packet.sender_rank
                       /\ me \in Procs
                       /\ other \in Procs \cup {DEADLOCK_NO_WAIT, DEADLOCK_FINISHED}
  BY <1>1
<1>5. requests' \in Seq(R)
  BY <1>2 DEF Detect
<1>6. wait_table' \in [Procs -> Procs \cup {DEADLOCK_NO_WAIT}]
  BY <1>2, <1>3, <1>4 DEF Detect, Record
<1>7. reports' \in [Procs -> Seq(S)]
  <2>1. CASE reports' = [reports EXCEPT ![me] = Append(@, DEADLOCK_FINISHED)]
    <3>1. Append(reports[me], DEADLOCK_FINISHED) \in Seq(S)
      BY <1>1, <1>2, <1>4
    <3> QED BY <1>2, <1>4, <2>1, <3>1
  <2>2. CASE other \in Procs /\ reports' = Mutual(me, other)
    <3>1. Append(reports[me], other) \in Seq(S)
      BY <1>1, <1>2, <1>4, <2>2
    <3>2. PICK first : first = [reports EXCEPT ![me] = Append(@, other)]
      OBVIOUS
    <3>3. first \in [Procs -> Seq(S)]
      BY <1>2, <1>4, <3>1, <3>2
    <3>4. Append(first[other], me) \in Seq(S) /\ Append(reports[other], me) \in Seq(S)
      BY <1>1, <1>2, <1>4, <2>2, <3>3
    <3> QED BY <1>2, <1>4, <2>2, <3>1, <3>2, <3>3, <3>4 DEF Mutual
  <2>3. CASE UNCHANGED reports
    BY <1>2, <2>3
  <2> QED BY <1>3, <1>4, <2>1, <2>2, <2>3 DEF Detect
<1>8. DetectorTypeOK'
  BY <1>1, <1>5, <1>6, <1>7 DEF DetectorTypeOK
<1>9. TypeOK'
  BY <1>0, <1>8, TypesKept, TypesThen DEF library, call, pipes, reader, cond
<1>10. \A r \in Procs : Same(r)
  BY DEF Same, library, call, pipes, reader, cond
<1>11. \A r \in Procs : Local(r)'
  BY <1>10, SameFits DEF IInv
<1>12. StreamsFit'
  <2>1. \A x, y \in Procs : /\ HasReader(x, y)' <=> HasReader(x, y)
                            /\ Begun(x, y)' = Begun(x, y) /\ Unsent(y, x)' = Unsent(y, x)
    BY DEF HasReader, Begun, Unsent, library, call, pipes, reader
  <2> QED BY <1>0, <2>1, StreamsKept DEF library, pipes
<1> QED BY <1>9, <1>11, <1>12 DEF IInv

LEMMA StutterFits == ASSUME IInv, UNCHANGED vars PROVE IInv'
<1>0. TypeOK /\ StreamsFit
  BY DEF IInv
<1>1. TypeOK'
  BY <1>0, TypesKept, TypesThen DEF vars, library, call, pipes, reader, cond
<1>2. \A r \in Procs : Same(r)
  BY DEF Same, vars, library, call, pipes, reader, cond
<1>3. \A r \in Procs : Local(r)'
  BY <1>2, SameFits DEF IInv
<1>4. StreamsFit'
  <2>1. \A x, y \in Procs : /\ HasReader(x, y)' <=> HasReader(x, y)
                            /\ Begun(x, y)' = Begun(x, y) /\ Unsent(y, x)' = Unsent(y, x)
    BY DEF HasReader, Begun, Unsent, vars, library, call, pipes, reader
  <2> QED BY <1>0, <2>1, StreamsKept DEF vars, library, pipes
<1> QED BY <1>1, <1>3, <1>4 DEF IInv

LEMMA ProgramFits ==
  ASSUME IInv, NEW p \in Procs, Program(p) \/ RecvWake(p)
  PROVE  IInv' /\ OnlyOf(p)
BY CallFitsIn, SendCheckFits, SendFirstFits, SendMoreFits, SendBrokenFits, RecvLockFits,
   RecvWakeFits, RecvTellFits, FinalizeFits, CloseWriteFits, CloseReadFits,
   NotifyFinishedFits, JoinFits
   DEF Program

LEMMA BufferThreadFits ==
  ASSUME IInv, NEW p \in Procs, NEW q \in Peers(p), BufferThread(p, q)
  PROVE  IInv' /\ OnlyOf(p)
BY ReadHeaderFits, ReadDataFits, ReadEndFits, WakeFits, AddEntryFits DEF BufferThread

LEMMA NextFits == ASSUME IInv, [Next]_vars PROVE IInv'
<1>1. CASE UNCHANGED vars \/ Terminated
  BY <1>1, StutterFits DEF Terminated
<1>2. CASE Next /\ ~Terminated
  BY <1>2, ProgramFits, BufferThreadFits, WatchdogFits, DetectFits DEF Next
<1> QED BY <1>1, <1>2

\* The inductive invariant: a pipe that somebody reads is a stream of whole messages
\* but for what the sender has still to write and the thread has still to read, pipes
\* are closed only by a process that finishes, and buffer_update holds what the one
\* Recv that waits is waiting for.
THEOREM Invariance == Spec => []IInv
<1>1. IInv /\ [Next]_vars => IInv'
  BY NextFits
<1> QED BY <1>1, InitFits, PTL DEF Spec

\* For any number of processes, any sizes of pipes and any calls, a Recv with a tag
\* of its own never sleeps over a message in its list, over the end of its source or
\* over a report of the watchdog, though the flag of a finished source is set under
\* another mutex than the wait; and what the buffer threads take for a header is one
\* (MIMPI_Recv 490-516, buffer_thread 158-222, deadlock_watchdog 224-241).
THEOREM NoRecvSleepsOver == Spec => []NoLostWakeup
<1>1. IInv => NoLostWakeup
  BY DEF IInv, Local, WaitFits, NoLostWakeup
<1> QED BY <1>1, Invariance, PTL
-----------------------------------------------------------------------------
(* The headers among the blocks of a pipe *)

\* f lists the members of P from the least to the greatest.
Enumerates(f, n, P) ==
  /\ n \in Nat /\ f \in [1..n -> P]
  /\ \A i \in P : \E k \in 1..n : f[k] = i
  /\ \A j, k \in 1..n : j < k => f[j] < f[k]

Rank(i, P) == Cardinality({j \in P : j <= i})

LEMMA RankGrows ==
  ASSUME NEW P \in SUBSET Nat, IsFiniteSet(P)
  PROVE  /\ Cardinality(P) \in Nat
         /\ \A i \in P : Rank(i, P) \in 1..Cardinality(P)
         /\ \A i, j \in P : i < j => Rank(i, P) < Rank(j, P)
<1> DEFINE upto(i) == {j \in P : j <= i}
<1>1. Cardinality(P) \in Nat
  BY FS_CardinalityType
<1>2. ASSUME NEW i \in P
      PROVE  /\ IsFiniteSet(upto(i)) /\ Cardinality(upto(i)) \in Nat
             /\ Rank(i, P) = Cardinality(upto(i)) /\ Rank(i, P) \in 1..Cardinality(P)
  <2>1. upto(i) \in SUBSET P /\ i \in upto(i)
    OBVIOUS
  <2>2. IsFiniteSet(upto(i)) /\ Cardinality(upto(i)) <= Cardinality(P)
    BY <2>1, FS_Subset
  <2>3. Cardinality(upto(i)) \in Nat
    BY <2>2, FS_CardinalityType
  <2>4. Cardinality(upto(i)) # 0
    BY <2>1, <2>2, FS_EmptySet
  <2> QED BY <2>2, <2>3, <2>4, <1>1 DEF Rank
<1>3. ASSUME NEW i \in P, NEW j \in P, i < j
      PROVE  Rank(i, P) < Rank(j, P)
  <2>1. i \in Nat /\ j \in Nat /\ \A x \in P : x \in Nat
    OBVIOUS
  <2>2. \A x \in upto(i) : x \in upto(j)
    BY <1>3, <2>1
  <2>3. j \in upto(j) /\ j \notin upto(i)
    BY <1>3, <2>1
  <2>4. upto(i) \in SUBSET upto(j) /\ upto(i) # upto(j)
    BY <2>2, <2>3
  <2>5. Cardinality(upto(i)) <= Cardinality(upto(j)) /\ Cardinality(upto(i)) # Cardinality(upto(j))
    BY <1>2, <2>4, FS_Subset
  <2> QED BY <1>2, <2>5
<1> QED BY <1>1, <1>2, <1>3

LEMMA Enumerated ==
  ASSUME NEW P \in SUBSET Nat, IsFiniteSet(P)
  PROVE  \E f : Enumerates(f, Cardinality(P), P)
<1>1. PICK n \in Nat : n = Cardinality(P)
  BY RankGrows
<1>2. PICK rank : rank = [i \in P |-> Rank(i, P)]
  OBVIOUS
<1>3. rank \in [P -> 1..n] /\ \A i \in P : rank[i] = Rank(i, P)
  BY <1>1, <1>2, RankGrows
<1>4. \A i, j \in P : i < j => rank[i] < rank[j]
  BY <1>3, RankGrows
<1>5. rank \in Injection(P, 1..n)
  <2>1. ASSUME NEW i \in P, NEW j \in P, i # j PROVE rank[i] # rank[j]
    <3>1. i < j \/ j < i
      BY <2>1
    <3>2. rank[i] \in Nat /\ rank[j] \in Nat
      BY <1>3
    <3> QED BY <1>4, <3>1, <3>2
  <2> QED BY <1>3, <2>1 DEF Injection, IsInjective
<1>6. IsFiniteSet(1..n) /\ Cardinality(1..n) = n
  BY FS_Interval
<1>7. rank \in Surjection(P, 1..n)
  BY <1>1, <1>5, <1>6, FS_Injection
<1>8. \A k \in 1..n : \E i \in P : rank[i] = k
  BY <1>7 DEF Surjection
<1>9. PICK f : f = [k \in 1..n |-> CHOOSE i \in P : rank[i] = k]
  OBVIOUS
<1>10. ASSUME NEW k \in 1..n PROVE f[k] \in P /\ rank[f[k]] = k
  <2>1. f[k] = CHOOSE i \in P : rank[i] = k
    BY <1>9
  <2> QED BY <1>8, <2>1
<1>11. f \in [1..n -> P]
  <2>1. \A k \in 1..n : (CHOOSE i \in P : rank[i] = k) \in P
    BY <1>8
  <2> QED BY <1>9, <2>1
<1>12. ASSUME NEW i \in P PROVE \E k \in 1..n : f[k] = i
  <2>1. PICK k \in 1..n : k = rank[i]
    BY <1>3
  <2>2. f[k] \in P /\ rank[f[k]] = rank[i]
    BY <1>10, <2>1
  <2> QED BY <1>5, <2>2 DEF Injection, IsInjective
<1>13. ASSUME NEW j \in 1..n, NEW k \in 1..n, j < k PROVE f[j] < f[k]
  <2>1. PICK x \in P, y \in P : x = f[j] /\ y = f[k] /\ rank[x] = j /\ rank[y] = k
    BY <1>10
  <2>2. x \in Nat /\ y \in Nat /\ j \in Nat /\ k \in Nat
    OBVIOUS
  <2>3. y < x => k < j
    BY <1>4, <2>1
  <2>4. x # y
    BY <1>13, <2>1, <2>2
  <2> QED BY <1>13, <2>1, <2>2, <2>3, <2>4
<1> QED BY <1>1, <1>11, <1>12, <1>13 DEF Enumerates

\* A list of P has as many members as P, and the k-th has rank k.
LEMMA EnumerationRanks ==
  ASSUME NEW P \in SUBSET Nat, IsFiniteSet(P), NEW n, NEW f, Enumerates(f, n, P)
  PROVE  Cardinality(P) = n /\ \A k \in 1..n : Rank(f[k], P) = k
<1>1. /\ n \in Nat /\ f \in [1..n -> P]
      /\ \A i \in P : \E k \in 1..n : f[k] = i
      /\ \A j, k \in 1..n : j < k => f[j] < f[k]
  BY DEF Enumerates
<1>2. ASSUME NEW k \in 1..n
      PROVE  Rank(f[k], P) = k
  <2>1. PICK T : T = {j \in P : j <= f[k]}
    OBVIOUS
  <2>2. PICK g : g = [j \in 1..k |-> f[j]]
    OBVIOUS
  <2>3. ASSUME NEW j \in 1..k PROVE j \in 1..n /\ f[j] \in T
    <3>1. j \in 1..n /\ (j = k \/ j < k)
      BY <1>1
    <3>2. f[j] \in P /\ f[k] \in P /\ f[j] \in Nat /\ f[k] \in Nat
      BY <1>1, <3>1
    <3>3. f[j] <= f[k]
      BY <1>1, <3>1, <3>2
    <3> QED BY <2>1, <3>1, <3>2, <3>3
  <2>4. g \in [1..k -> T] /\ \A j \in 1..k : g[j] = f[j]
    BY <2>2, <2>3
  <2>5. ASSUME NEW i \in T PROVE \E j \in 1..k : g[j] = i
    <3>1. PICK j \in 1..n : f[j] = i
      BY <1>1, <2>1
    <3>2. f[j] \in Nat /\ f[k] \in Nat /\ f[j] <= f[k]
      BY <1>1, <2>1, <3>1
    <3>3. ~(k < j)
      BY <1>1, <3>2
    <3>4. j \in 1..k
      BY <1>1, <3>3
    <3> QED BY <2>4, <3>1, <3>4
  <2>6. ASSUME NEW i \in 1..k, NEW j \in 1..k, g[i] = g[j] PROVE i = j
    <3>1. i \in 1..n /\ j \in 1..n /\ f[i] = f[j] /\ f[i] \in Nat
      BY <1>1, <2>3, <2>4, <2>6
    <3>2. ~(i < j) /\ ~(j < i)
      BY <1>1, <3>1
    <3> QED BY <3>1, <3>2
  <2>7. g \in Bijection(1..k, T)
    BY <2>4, <2>5, <2>6 DEF Bijection, Injection, IsInjective, Surjection
  <2>8. k \in Nat /\ IsFiniteSet(1..k) /\ Cardinality(1..k) = k
    BY <1>1, FS_Interval
  <2>9. Cardinality(T) = k
    BY <2>7, <2>8, FS_Bijection DEF ExistsBijection
  <2> QED BY <2>1, <2>9 DEF Rank
<1>3. Cardinality(P) = n
  <2>1. Cardinality(P) \in Nat /\ \A i \in P : Rank(i, P) \in 1..Cardinality(P)
    BY RankGrows
  <2>2. \A j, k \in 1..n : f[j] = f[k] => j = k
    BY <1>2
  <2>3. f \in Bijection(1..n, P)
    BY <1>1, <2>2 DEF Bijection, Injection, IsInjective, Surjection
  <2>4. IsFiniteSet(1..n) /\ Cardinality(1..n) = n
    BY <1>1, FS_Interval
  <2> QED BY <2>3, <2>4, FS_Bijection DEF ExistsBijection
<1> QED BY <1>2, <1>3

Blocks == Messages \cup {More}
Places(s) == {i \in 1..Len(s) : s[i] # More}

LEMMA PlacesAre ==
  ASSUME NEW s \in Seq(Blocks)
  PROVE  /\ Len(s) \in Nat /\ Places(s) \in SUBSET Nat /\ IsFiniteSet(Places(s))
         /\ \A i \in Places(s) : i \in 1..Len(s) /\ s[i] # More /\ s[i] \in Messages
<1>1. Len(s) \in Nat /\ \A i \in 1..Len(s) : s[i] \in Blocks
  OBVIOUS
<1>2. Places(s) \in SUBSET (1..Len(s)) /\ IsFiniteSet(1..Len(s))
  BY <1>1, FS_Interval DEF Places
<1>3. IsFiniteSet(Places(s))
  BY <1>2, FS_Subset
<1> QED BY <1>1, <1>2, <1>3 DEF Places, Blocks

\* The headers of s are its blocks at the places of any list of them.
LEMMA HeadersAre ==
  ASSUME NEW s \in Seq(Blocks), NEW n, NEW f, Enumerates(f, n, Places(s))
  PROVE  /\ n \in Nat /\ Headers(s) = [k \in 1..n |-> s[f[k]]]
         /\ Headers(s) \in Seq(Messages) /\ Len(Headers(s)) = n
<1>1. PICK P : P = Places(s)
  OBVIOUS
<1>2. P \in SUBSET Nat /\ IsFiniteSet(P)
  BY <1>1, PlacesAre
<1>3. /\ n \in Nat /\ f \in [1..n -> P]
      /\ \A i \in P : \E k \in 1..n : f[k] = i
  BY <1>1 DEF Enumerates
<1>4. Cardinality(P) = n /\ \A k \in 1..n : Rank(f[k], P) = k
  BY <1>1, <1>2, EnumerationRanks
<1>5. ASSUME NEW k \in 1..n
      PROVE  (CHOOSE i \in P : Rank(i, P) = k) = f[k]
  <2>1. \E i \in P : Rank(i, P) = k
    BY <1>3, <1>4
  <2>2. PICK i \in P : i = CHOOSE j \in P : Rank(j, P) = k
    BY <2>1
  <2>3. Rank(i, P) = k
    BY <2>1, <2>2
  <2>4. PICK m \in 1..n : f[m] = i
    BY <1>3
  <2>5. m = k
    BY <1>4, <2>3, <2>4
  <2> QED BY <2>2, <2>4, <2>5
<1>6. Headers(s) = [k \in 1..Cardinality(P) |-> s[CHOOSE i \in P : Rank(i, P) = k]]
  BY <1>1 DEF Headers, Places, Rank
<1>7. Headers(s) = [k \in 1..n |-> s[f[k]]]
  BY <1>4, <1>5, <1>6
<1>8. \A k \in 1..n : s[f[k]] \in Messages
  BY <1>1, <1>3, PlacesAre
<1>9. [k \in 1..n |-> s[f[k]]] \in Seq(Messages) /\ Len([k \in 1..n |-> s[f[k]]]) = n
  BY <1>3, <1>8
<1> QED BY <1>3, <1>7, <1>9

LEMMA HeadersExist ==
  ASSUME NEW s \in Seq(Blocks)
  PROVE  \E n, f : Enumerates(f, n, Places(s))
BY PlacesAre, Enumerated

LEMMA HeadersEmpty == Headers(<<>>) = <<>>
<1>1. <<>> \in Seq(Blocks) /\ Places(<<>>) = {}
  BY DEF Places
<1>2. PICK n, f : Enumerates(f, n, Places(<<>>))
  BY <1>1, HeadersExist
<1>3. n \in Nat /\ f \in [1..n -> {}]
  BY <1>1, <1>2 DEF Enumerates
<1>4. n = 0
  <2>1. CASE n > 0
    <3>1. 1 \in 1..n
      BY <1>3, <2>1
    <3> QED BY <1>3, <3>1
  <2> QED BY <1>3, <2>1
<1>5. Headers(<<>>) \in Seq(Messages) /\ Len(Headers(<<>>)) = 0
  BY <1>1, <1>2, <1>4, HeadersAre
<1> QED BY <1>5

LEMMA HeadersAppendMore ==
  ASSUME NEW s \in Seq(Blocks)
  PROVE  Headers(Append(s, More)) = Headers(s)
<1>1. PICK t \in Seq(Blocks) : t = Append(s, More)
  <2>1. PICK b \in Blocks : b = More
    BY DEF Blocks
  <2>2. Append(s, b) \in Seq(Blocks)
    OBVIOUS
  <2> QED BY <2>1, <2>2
<1>2. /\ Len(t) = Len(s) + 1 /\ Len(s) \in Nat /\ t[Len(s) + 1] = More
      /\ \A i \in 1..Len(s) : t[i] = s[i]
  BY <1>1
<1>3. Places(t) = Places(s)
  BY <1>2 DEF Places
<1>4. PICK n, f : Enumerates(f, n, Places(s))
  BY HeadersExist
<1>5. n \in Nat /\ Headers(s) = [k \in 1..n |-> s[f[k]]]
  BY <1>4, HeadersAre
<1>6. Headers(t) = [k \in 1..n |-> t[f[k]]]
  BY <1>3, <1>4, HeadersAre
<1>7. \A k \in 1..n : f[k] \in 1..Len(s)
  BY <1>4 DEF Enumerates, Places
<1>8. \A k \in 1..n : t[f[k]] = s[f[k]]
  BY <1>2, <1>7
<1> QED BY <1>1, <1>5, <1>6, <1>8

LEMMA HeadersAppend ==
  ASSUME NEW s \in Seq(Blocks), NEW m \in Messages
  PROVE  Headers(Append(s, m)) = Append(Headers(s), m)
<1>1. PICK t \in Seq(Blocks) : t = Append(s, m)
  <2>1. PICK b \in Blocks : b = m
    BY DEF Blocks
  <2>2. Append(s, b) \in Seq(Blocks)
    OBVIOUS
  <2> QED BY <2>1, <2>2
<1>2. /\ Len(t) = Len(s) + 1 /\ Len(s) \in Nat /\ t[Len(s) + 1] = m /\ m # More
      /\ \A i \in 1..Len(s) : t[i] = s[i]
  BY <1>1, FrameConstants
<1>3. Places(t) = Places(s) \cup {Len(s) + 1}
  BY <1>2 DEF Places
<1>4. PICK n, f : Enumerates(f, n, Places(s))
  BY HeadersExist
<1>5. /\ n \in Nat /\ Headers(s) = [k \in 1..n |-> s[f[k]]]
      /\ Headers(s) \in Seq(Messages) /\ Len(Headers(s)) = n
  BY <1>4, HeadersAre
<1>6. /\ f \in [1..n -> Places(s)] /\ \A i \in Places(s) : \E k \in 1..n : f[k] = i
      /\ \A j, k \in 1..n : j < k => f[j] < f[k]
      /\ \A k \in 1..n : f[k] \in 1..Len(s)
  BY <1>4 DEF Enumerates, Places
<1>7. PICK g : g = [k \in 1..(n + 1) |-> IF k = n + 1 THEN Len(s) + 1 ELSE f[k]]
  OBVIOUS
<1>8. /\ g[n + 1] = Len(s) + 1 /\ \A k \in 1..n : g[k] = f[k] /\ k \in 1..(n + 1)
      /\ \A k \in 1..(n + 1) : k = n + 1 \/ k \in 1..n
      /\ n + 1 \in 1..(n + 1) /\ n + 1 \in Nat
  BY <1>5, <1>7
<1>9. Enumerates(g, n + 1, Places(t))
  <2>1. g \in [1..(n + 1) -> Places(t)]
    <3>1. \A k \in 1..(n + 1) : g[k] \in Places(t)
      BY <1>3, <1>6, <1>8
    <3> QED BY <1>7, <3>1
  <2>2. \A i \in Places(t) : \E k \in 1..(n + 1) : g[k] = i
    BY <1>3, <1>6, <1>8
  <2>3. ASSUME NEW j \in 1..(n + 1), NEW k \in 1..(n + 1), j < k PROVE g[j] < g[k]
    <3>1. j \in 1..n /\ g[j] = f[j]
      BY <1>5, <1>8, <2>3
    <3>2. CASE k = n + 1
      <4>1. f[j] \in 1..Len(s)
        BY <1>6, <3>1
      <4> QED BY <1>2, <1>8, <3>1, <3>2, <4>1
    <3>3. CASE k \in 1..n
      BY <1>6, <1>8, <2>3, <3>1, <3>3
    <3> QED BY <1>8, <3>2, <3>3
  <2> QED BY <1>8, <2>1, <2>2, <2>3 DEF Enumerates
<1>10. /\ Headers(t) = [k \in 1..(n + 1) |-> t[g[k]]]
       /\ Headers(t) \in Seq(Messages) /\ Len(Headers(t)) = n + 1
  BY <1>9, HeadersAre
<1>11. ASSUME NEW k \in 1..(n + 1) PROVE Headers(t)[k] = Append(Headers(s), m)[k]
  <2>1. CASE k = n + 1
    BY <1>2, <1>5, <1>8, <1>10, <2>1
  <2>2. CASE k \in 1..n
    <3>1. t[f[k]] = s[f[k]]
      BY <1>2, <1>6, <2>2
    <3> QED BY <1>5, <1>8, <1>10, <2>2, <3>1
  <2> QED BY <1>8, <2>1, <2>2
<1>12. Append(Headers(s), m) \in Seq(Messages) /\ Len(Append(Headers(s), m)) = n + 1
  BY <1>5
<1> QED BY <1>1, <1>10, <1>11, <1>12, SeqEqual

\* The first block is taken: one more block changes nothing, a header was the first.
LEMMA HeadersTailMore ==
  ASSUME NEW s \in Seq(Blocks), s # <<>>, Head(s) = More
  PROVE  Headers(Tail(s)) = Headers(s)
<1>1. PICK t \in Seq(Blocks) : t = Tail(s)
  <2>1. Tail(s) \in Seq(Blocks)
    OBVIOUS
  <2> QED BY <2>1
<1>2. /\ Len(s) \in Nat /\ Len(t) = Len(s) - 1 /\ s[1] = More
      /\ \A i \in 1..Len(t) : t[i] = s[i + 1] /\ i + 1 \in 1..Len(s)
      /\ Len(t) \in Nat
  BY <1>1
<1>3. PICK n, f : Enumerates(f, n, Places(s))
  BY HeadersExist
<1>4. /\ n \in Nat /\ Headers(s) = [k \in 1..n |-> s[f[k]]]
  BY <1>3, HeadersAre
<1>5. /\ f \in [1..n -> Places(s)] /\ \A i \in Places(s) : \E k \in 1..n : f[k] = i
      /\ \A j, k \in 1..n : j < k => f[j] < f[k]
  BY <1>3 DEF Enumerates
<1>6. ASSUME NEW i \in Places(s)
      PROVE  i \in Nat /\ i - 1 \in Places(t) /\ t[i - 1] = s[i]
  <2>1. i \in 1..Len(s) /\ i # 1 /\ s[i] # More
    BY <1>2, <1>6 DEF Places
  <2>2. PICK j : j = i - 1
    OBVIOUS
  <2>3. j \in 1..Len(t) /\ j + 1 = i
    BY <1>2, <2>1, <2>2
  <2> QED BY <1>2, <2>1, <2>2, <2>3 DEF Places
<1>7. \A i \in Places(t) : i \in Nat /\ i + 1 \in Places(s)
  BY <1>2 DEF Places
<1>8. PICK g : g = [k \in 1..n |-> f[k] - 1]
  OBVIOUS
<1>9. \A k \in 1..n : g[k] = f[k] - 1 /\ f[k] \in Nat /\ f[k] \in Places(s)
  BY <1>5, <1>6, <1>8
<1>10. Enumerates(g, n, Places(t))
  <2>1. g \in [1..n -> Places(t)]
    BY <1>6, <1>8, <1>9
  <2>2. ASSUME NEW i \in Places(t) PROVE \E k \in 1..n : g[k] = i
    <3>1. PICK k \in 1..n : f[k] = i + 1
      BY <1>5, <1>7
    <3>2. g[k] = (i + 1) - 1
      BY <1>9, <3>1
    <3>3. (i + 1) - 1 = i
      BY <1>7
    <3> QED BY <3>2, <3>3
  <2>3. \A j, k \in 1..n : j < k => g[j] < g[k]
    BY <1>5, <1>9
  <2> QED BY <1>4, <2>1, <2>2, <2>3 DEF Enumerates
<1>11. Headers(t) = [k \in 1..n |-> t[g[k]]]
  BY <1>10, HeadersAre
<1>12. \A k \in 1..n : t[g[k]] = s[f[k]]
  BY <1>6, <1>9
<1> QED BY <1>1, <1>4, <1>11, <1>12

LEMMA HeadersTail ==
  ASSUME NEW s \in Seq(Blocks), s # <<>>, Head(s) # More
  PROVE  Headers(s) = <<Head(s)>> \o Headers(Tail(s))
<1>1. PICK t \in Seq(Blocks) : t = Tail(s)
  <2>1. Tail(s) \in Seq(Blocks)
    OBVIOUS
  <2> QED BY <2>1
<1>2. /\ Len(s) \in Nat /\ Len(t) = Len(s) - 1 /\ 1 \in Places(s) /\ s[1] = Head(s)
      /\ \A i \in 1..Len(t) : t[i] = s[i + 1] /\ i + 1 \in 1..Len(s)
      /\ Len(t) \in Nat
  BY <1>1 DEF Places
<1>3. PICK n, f : Enumerates(f, n, Places(t))
  BY HeadersExist
<1>4. /\ n \in Nat /\ Headers(t) = [k \in 1..n |-> t[f[k]]]
      /\ Headers(t) \in Seq(Messages) /\ Len(Headers(t)) = n
  BY <1>3, HeadersAre
<1>5. /\ f \in [1..n -> Places(t)] /\ \A i \in Places(t) : \E k \in 1..n : f[k] = i
      /\ \A j, k \in 1..n : j < k => f[j] < f[k]
  BY <1>3 DEF Enumerates
<1>6. ASSUME NEW i \in Places(s), i # 1
      PROVE  i - 1 \in Places(t)
  <2>1. i \in 1..Len(s) /\ i # 1 /\ s[i] # More
    BY <1>6 DEF Places
  <2>2. PICK j : j = i - 1
    OBVIOUS
  <2>3. j \in 1..Len(t) /\ j + 1 = i
    BY <1>2, <2>1, <2>2
  <2> QED BY <1>2, <2>1, <2>2, <2>3 DEF Places
<1>7. \A i \in Places(t) : i \in Nat /\ i > 0 /\ i + 1 \in Places(s) /\ s[i + 1] = t[i]
  BY <1>2 DEF Places
<1>8. PICK g : g = [k \in 1..(n + 1) |-> IF k = 1 THEN 1 ELSE f[k - 1] + 1]
  OBVIOUS
<1>9. /\ g[1] = 1 /\ 1 \in 1..(n + 1) /\ n + 1 \in Nat
      /\ \A k \in 1..n : g[k + 1] = f[k] + 1 /\ k + 1 \in 1..(n + 1)
      /\ \A k \in 1..n : f[k] \in Nat /\ f[k] > 0 /\ f[k] \in Places(t)
      /\ \A k \in 1..(n + 1) : k # 1 => k - 1 \in 1..n /\ k = (k - 1) + 1
  <2>1. \A k \in 1..n : f[k] \in Nat /\ f[k] > 0 /\ f[k] \in Places(t)
    BY <1>5, <1>7
  <2>2. ASSUME NEW k \in 1..n PROVE g[k + 1] = f[k] + 1 /\ k + 1 \in 1..(n + 1)
    <3>1. PICK j : j = k + 1
      OBVIOUS
    <3>2. j \in 1..(n + 1) /\ j # 1 /\ j - 1 = k
      BY <1>4, <3>1
    <3> QED BY <1>8, <3>1, <3>2
  <2> QED BY <1>4, <1>8, <2>1, <2>2
<1>10. Enumerates(g, n + 1, Places(s))
  <2>1. g \in [1..(n + 1) -> Places(s)]
    <3>1. ASSUME NEW k \in 1..(n + 1) PROVE g[k] \in Places(s)
      <4>1. CASE k = 1
        BY <1>2, <1>9, <4>1
      <4>2. CASE k # 1
        <5>1. PICK j \in 1..n : k = j + 1
          BY <1>9, <4>2
        <5> QED BY <1>7, <1>9, <5>1
      <4> QED BY <4>1, <4>2
    <3> QED BY <1>8, <3>1
  <2>2. ASSUME NEW i \in Places(s) PROVE \E k \in 1..(n + 1) : g[k] = i
    <3>1. CASE i = 1
      BY <1>9, <3>1
    <3>2. CASE i # 1
      <4>1. PICK k \in 1..n : f[k] = i - 1
        BY <1>5, <1>6, <3>2
      <4>2. i \in Nat
        BY <1>2 DEF Places
      <4>3. g[k + 1] = i /\ k + 1 \in 1..(n + 1)
        BY <1>9, <4>1, <4>2
      <4> QED BY <4>3
    <3> QED BY <3>1, <3>2
  <2>3. ASSUME NEW j \in 1..(n + 1), NEW k \in 1..(n + 1), j < k PROVE g[j] < g[k]
    <3>1. PICK y \in 1..n : k = y + 1
      BY <1>4, <1>9, <2>3
    <3>2. CASE j = 1
      BY <1>9, <3>1, <3>2
    <3>3. CASE j # 1
      <4>1. PICK x \in 1..n : j = x + 1
        BY <1>9, <3>3
      <4>2. x < y
        BY <1>4, <2>3, <3>1, <4>1
      <4> QED BY <1>5, <1>9, <3>1, <4>1, <4>2
    <3> QED BY <3>2, <3>3
  <2> QED BY <1>9, <2>1, <2>2, <2>3 DEF Enumerates
<1>11. /\ Headers(s) = [k \in 1..(n + 1) |-> s[g[k]]]
       /\ Headers(s) \in Seq(Messages) /\ Len(Headers(s)) = n + 1
  BY <1>10, HeadersAre
<1>12. PICK m \in Messages : m = Head(s)
  BY <1>2, PlacesAre
<1>13. PICK all : all = <<m>> \o Headers(t)
  OBVIOUS
<1>14. all \in Seq(Messages) /\ Len(all) = n + 1
  BY <1>4, <1>13
<1>15. all[1] = m /\ \A k \in 1..n : all[k + 1] = Headers(t)[k]
  BY <1>4, <1>13
<1>16. ASSUME NEW k \in 1..(n + 1) PROVE Headers(s)[k] = all[k]
  <2>1. CASE k = 1
    BY <1>2, <1>9, <1>11, <1>12, <1>15, <2>1
  <2>2. CASE k # 1
    <3>1. PICK j \in 1..n : k = j + 1
      BY <1>9, <2>2
    <3>2. Headers(s)[k] = s[f[j] + 1] /\ all[k] = t[f[j]]
      BY <1>4, <1>9, <1>11, <1>15, <3>1
    <3> QED BY <1>7, <1>9, <3>2
  <2> QED BY <2>1, <2>2
<1> QED BY <1>1, <1>11, <1>12, <1>13, <1>14, <1>16, SeqEqual

LEMMA HeadersType == ASSUME NEW s \in Seq(Blocks) PROVE Headers(s) \in Seq(Messages)
BY HeadersExist, HeadersAre
-----------------------------------------------------------------------------
(* What the end of a process and a report of the detector mean *)

\* Who is known to be done has left, and all it wrote is read; the thread that found
\* out reads no more.  A report comes from a detector.
EndsFit(p) ==
  /\ \A q \in Procs : q \in done[p] =>
       Finishing(q) /\ thread[p][q] \in {"wake", "dead"} /\ pipe[q][p] = <<>>
  /\ watchdog[p] = "read" \/ (\E q \in Procs : deadlock[p][q]) => Detection

DInv == IInv /\ \A p \in Procs : EndsFit(p)

\* A step that only adds to what the others know and reads on.
LEMMA EndsKept ==
  ASSUME DInv,
         \A p \in Procs : Finishing(p) => Finishing(p)',
         \A p, q \in Procs : q \in done'[p] =>
           \/ q \in done[p] /\ /\ thread'[p][q] = thread[p][q] \/ thread'[p][q] = "dead"
                               /\ pipe'[q][p] = pipe[q][p]
           \/ Finishing(q) /\ thread'[p][q] \in {"wake", "dead"} /\ pipe'[q][p] = <<>>,
         \A p \in Procs : watchdog'[p] = "read" => watchdog[p] = "read",
         \A p, q \in Procs : deadlock'[p][q] => deadlock[p][q] \/ watchdog[p] = "read"
  PROVE  \A p \in Procs : EndsFit(p)'
<1> SUFFICES ASSUME NEW p \in Procs PROVE EndsFit(p)'
  OBVIOUS
<1>0. EndsFit(p)
  BY DEF DInv
<1>1. ASSUME NEW q \in Procs, q \in done'[p]
      PROVE  Finishing(q)' /\ thread'[p][q] \in {"wake", "dead"} /\ pipe'[q][p] = <<>>
  <2>1. CASE q \in done[p] /\ (thread'[p][q] = thread[p][q] \/ thread'[p][q] = "dead")
               /\ pipe'[q][p] = pipe[q][p]
    BY <1>0, <2>1 DEF EndsFit
  <2>2. CASE Finishing(q) /\ thread'[p][q] \in {"wake", "dead"} /\ pipe'[q][p] = <<>>
    BY <2>2
  <2> QED BY <1>1, <2>1, <2>2
<1>2. watchdog'[p] = "read" \/ (\E q \in Procs : deadlock'[p][q]) => Detection
  BY <1>0 DEF EndsFit
<1> QED BY <1>1, <1>2 DEF EndsFit

\* The steps of the program: nobody comes to be known as done, and a process that
\* finishes does not come back.
LEMMA ProgramStays ==
  ASSUME IInv, NEW p \in Procs, Program(p) \/ RecvWake(p)
  PROVE  /\ UNCHANGED done
         /\ \A r \in Procs : Finishing(r) => Finishing(r)'
         /\ \A x, y \in Procs : thread'[x][y] = thread[x][y] \/ thread'[x][y] = "dead"
         /\ \A x \in Procs : watchdog'[x] = "read" => watchdog[x] = "read"
         /\ \A x, y \in Procs : deadlock'[x][y] => deadlock[x][y]
         /\ \A x, y \in Procs : Finishing(x) => pipe'[x][y] = pipe[x][y]
<1>0. CallTypes /\ PipeTypes /\ ReaderTypes /\ CondTypes /\ StateTypes
  BY Types DEF IInv
<1>1. UNCHANGED done
  BY DEF Program, Call, SendCheck, SendFirst, SendMore, SendBroken, RecvLock, RecvWake,
         RecvTell, Finalize, CloseWrite, CloseRead, NotifyFinished, Join
<1>2. Finishing(p) => Finishing(p)'
  BY <1>0 DEF Program, Call, SendCheck, SendFirst, SendMore, SendBroken, RecvLock, RecvWake,
         RecvTell, Finalize, CloseWrite, CloseRead, NotifyFinished, Join, Finishing, Goto,
         CallTypes
<1>3. OnlyOf(p)
  BY ProgramFits
<1>4. \A r \in Procs : Finishing(r) => Finishing(r)'
  BY <1>2, <1>3 DEF OnlyOf, Same, Finishing
<1>5. UNCHANGED thread \/ \E q \in Procs : thread' = [thread EXCEPT ![p][q] = "dead"]
  <2>1. CASE CloseRead(p)
    <3>1. PICK q : \/ UNCHANGED thread
                   \/ thread[p][q] \in {"header", "data"}
                        /\ thread' = [thread EXCEPT ![p][q] = "dead"]
      BY <2>1 DEF CloseRead, reader
    <3>2. CASE q \in Procs
      BY <3>1, <3>2
    <3>3. CASE q \notin Procs
      <4>1. [thread EXCEPT ![p][q] = "dead"] = thread
        BY <1>0, <3>3 DEF ReaderTypes
      <4> QED BY <3>1, <4>1
    <3> QED BY <3>2, <3>3
  <2>2. CASE ~CloseRead(p)
    BY <2>2 DEF Program, Call, SendCheck, SendFirst, SendMore, SendBroken, RecvLock,
                RecvWake, RecvTell, Finalize, CloseWrite, NotifyFinished, Join, reader
  <2> QED BY <2>1, <2>2
<1>6. \A x, y \in Procs : thread'[x][y] = thread[x][y] \/ thread'[x][y] = "dead"
  BY <1>0, <1>5 DEF ReaderTypes
<1>7. \A x \in Procs : watchdog'[x] = "read" => watchdog[x] = "read"
  <2>1. CASE NotifyFinished(p)
    BY <1>0, <2>1 DEF NotifyFinished, StateTypes
  <2>2. CASE ~NotifyFinished(p)
    BY <2>2 DEF Program, Call, SendCheck, SendFirst, SendMore, SendBroken, RecvLock,
                RecvWake, RecvTell, Finalize, CloseWrite, CloseRead, Join
  <2> QED BY <2>1, <2>2
<1>8. UNCHANGED deadlock \/ deadlock' = [deadlock EXCEPT ![p][req[p].peer] = FALSE]
  BY DEF Program, Call, SendCheck, SendFirst, SendMore, SendBroken, RecvLock, RecvWake,
         RecvTell, Finalize, CloseWrite, CloseRead, NotifyFinished, Join, cond, Exit,
         ExitWith, ExitOrWait
<1>9. ASSUME NEW x \in Procs, NEW y \in Procs, deadlock'[x][y] PROVE deadlock[x][y]
  <2>1. CASE UNCHANGED deadlock
    BY <1>9, <2>1
  <2>2. CASE deadlock' = [deadlock EXCEPT ![p][req[p].peer] = FALSE]
    <3>1. deadlock'[x][y] = deadlock[x][y] \/ deadlock'[x][y] = FALSE
      BY <1>0, <2>2 DEF CondTypes
    <3> QED BY <1>9, <3>1
  <2> QED BY <1>8, <2>1, <2>2
<1>10. \/ UNCHANGED pipe
       \/ /\ pc[p] \in {"sendFirst", "sendMore"}
          /\ \E b : pipe' = [pipe EXCEPT ![p][req[p].peer] = Append(@, b)]
  BY DEF Program, Call, SendCheck, SendFirst, SendMore, Write, SendBroken, RecvLock,
         RecvWake, RecvTell, Finalize, CloseWrite, CloseRead, NotifyFinished, Join, pipes
<1>11. \A x, y \in Procs : Finishing(x) => pipe'[x][y] = pipe[x][y]
  <2>1. CASE UNCHANGED pipe
    BY <2>1
  <2>2. CASE ~Finishing(p) /\ \E b : pipe' = [pipe EXCEPT ![p][req[p].peer] = Append(@, b)]
    BY <1>0, <2>2 DEF PipeTypes
  <2> QED BY <1>10, <2>1, <2>2 DEF Finishing
<1> QED BY <1>1, <1>4, <1>6, <1>7, <1>9, <1>11

\* The steps of the buffer threads: one of them finds the end of a pipe.
LEMMA BufferThreadStays ==
  ASSUME IInv, NEW p \in Procs, NEW q \in Peers(p), BufferThread(p, q)
  PROVE  /\ UNCHANGED <<pc, call, watchdog, deadlock>>
         /\ \A x, y \in Procs : x # p \/ y # q =>
              pipe'[y][x] = pipe[y][x] /\ thread'[x][y] = thread[x][y]
              /\ (y \in done'[x] => y \in done[x])
         /\ pipe[q][p] = <<>> => pipe'[q][p] = <<>>
         /\ \/ q \in done'[p] => q \in done[p]
            \/ Finishing(q) /\ thread'[p][q] = "wake" /\ pipe'[q][p] = <<>>
         /\ thread[p][q] = "wake" => thread'[p][q] = "dead"
         /\ thread[p][q] # "dead"
<1>0. PipeTypes /\ ReaderTypes /\ StateTypes /\ q \in Procs /\ p \in Peers(q) /\ OpenFits(q)
  BY Types DEF IInv, Peers, Local
<1>1. UNCHANGED <<pc, call, watchdog, deadlock>> /\ thread[p][q] # "dead"
  <2>1. UNCHANGED <<pc, call, watchdog, deadlock>>
    BY DEF BufferThread, ReadHeader, ReadData, ReadEnd, wake_recv_uncond, AddEntry, cond
  <2>2. thread[p][q] \in {"header", "data", "entry", "wake"}
    BY DEF BufferThread, ReadHeader, ReadData, ReadEnd, wake_recv_uncond, AddEntry
  <2> QED BY <2>1, <2>2
<1>2. \/ UNCHANGED pipe
      \/ pipe[q][p] # <<>> /\ pipe' = [pipe EXCEPT ![q][p] = Tail(@)]
  BY DEF BufferThread, ReadHeader, ReadData, ReadEnd, wake_recv_uncond, AddEntry, pipes
<1>3. \E place : thread' = [thread EXCEPT ![p][q] = place]
  BY DEF BufferThread, ReadHeader, ReadData, ReadEnd, wake_recv_uncond, AddEntry, ThreadAt
<1>4. thread[p][q] = "wake" => thread'[p][q] = "dead"
  BY <1>0 DEF BufferThread, ReadHeader, ReadData, ReadEnd, wake_recv_uncond, AddEntry,
              ThreadAt, ReaderTypes
<1>5. \/ UNCHANGED done
      \/ /\ done' = [done EXCEPT ![p] = @ \cup {q}] /\ ThreadAt(p, q, "wake")
         /\ UNCHANGED pipe /\ pipe[q][p] = <<>> /\ p \notin writeOpen[q]
  BY DEF BufferThread, ReadHeader, ReadData, ReadEnd, wake_recv_uncond, AddEntry, pipes
<1>6. \/ q \in done'[p] => q \in done[p]
      \/ Finishing(q) /\ thread'[p][q] = "wake" /\ pipe'[q][p] = <<>>
  <2>1. p \notin writeOpen[q] => Finishing(q)
    BY <1>0 DEF OpenFits
  <2> QED BY <1>0, <1>5, <2>1 DEF ThreadAt, ReaderTypes
<1>7. ASSUME NEW x \in Procs, NEW y \in Procs, x # p \/ y # q
      PROVE  /\ pipe'[y][x] = pipe[y][x] /\ thread'[x][y] = thread[x][y]
             /\ (y \in done'[x] => y \in done[x])
  <2>1. pipe'[y][x] = pipe[y][x]
    <3>1. \E s : pipe' = [pipe EXCEPT ![q][p] = s] \/ UNCHANGED pipe
      BY <1>2
    <3> QED BY <1>0, <1>7, <3>1 DEF PipeTypes
  <2>2. thread'[x][y] = thread[x][y]
    BY <1>0, <1>3, <1>7 DEF ReaderTypes
  <2>3. y \in done'[x] => y \in done[x]
    BY <1>0, <1>5, <1>7 DEF StateTypes
  <2> QED BY <2>1, <2>2, <2>3
<1> QED BY <1>1, <1>2, <1>4, <1>6, <1>7

LEMMA EndsStep == ASSUME DInv, [Next]_vars PROVE \A p \in Procs : EndsFit(p)'
<1>0. IInv
  BY DEF DInv
<1>1. ASSUME NEW p \in Procs, Program(p) \/ RecvWake(p)
      PROVE  \A r \in Procs : EndsFit(r)'
  <2>1. /\ UNCHANGED done
        /\ \A r \in Procs : Finishing(r) => Finishing(r)'
        /\ \A x, y \in Procs : thread'[x][y] = thread[x][y] \/ thread'[x][y] = "dead"
        /\ \A x \in Procs : watchdog'[x] = "read" => watchdog[x] = "read"
        /\ \A x, y \in Procs : deadlock'[x][y] => deadlock[x][y]
        /\ \A x, y \in Procs : Finishing(x) => pipe'[x][y] = pipe[x][y]
    BY <1>0, <1>1, ProgramStays
  <2>2. \A x, y \in Procs : y \in done'[x] => y \in done[x] /\ Finishing(y)
    BY <2>1 DEF DInv, EndsFit
  <2> QED BY <2>1, <2>2, EndsKept
<1>2. ASSUME NEW p \in Procs, NEW q \in Peers(p), BufferThread(p, q)
      PROVE  \A r \in Procs : EndsFit(r)'
  <2>1. /\ UNCHANGED <<pc, call, watchdog, deadlock>> /\ q \in Procs
        /\ \A x, y \in Procs : x # p \/ y # q =>
             pipe'[y][x] = pipe[y][x] /\ thread'[x][y] = thread[x][y]
             /\ (y \in done'[x] => y \in done[x])
        /\ pipe[q][p] = <<>> => pipe'[q][p] = <<>>
        /\ \/ q \in done'[p] => q \in done[p]
           \/ Finishing(q) /\ thread'[p][q] = "wake" /\ pipe'[q][p] = <<>>
        /\ thread[p][q] = "wake" => thread'[p][q] = "dead"
        /\ thread[p][q] # "dead"
    BY <1>0, <1>2, BufferThreadStays DEF Peers
  <2>2. ASSUME NEW x \in Procs, NEW y \in Procs, y \in done'[x]
        PROVE  \/ y \in done[x] /\ /\ thread'[x][y] = thread[x][y] \/ thread'[x][y] = "dead"
                                   /\ pipe'[y][x] = pipe[y][x]
               \/ Finishing(y) /\ thread'[x][y] \in {"wake", "dead"} /\ pipe'[y][x] = <<>>
    <3>1. CASE x # p \/ y # q
      BY <2>1, <2>2, <3>1
    <3>2. CASE x = p /\ y = q
      <4>1. CASE q \in done[p]
        <5>1. Finishing(q) /\ thread[p][q] \in {"wake", "dead"} /\ pipe[q][p] = <<>>
          BY <2>1, <4>1 DEF DInv, EndsFit
        <5> QED BY <2>1, <3>2, <5>1
      <4>2. CASE q \notin done[p]
        BY <2>1, <2>2, <3>2, <4>2
      <4> QED BY <4>1, <4>2
    <3> QED BY <3>1, <3>2
  <2>3. \A r \in Procs : Finishing(r) => Finishing(r)'
    BY <2>1 DEF Finishing
  <2> QED BY <2>1, <2>2, <2>3, EndsKept
<1>3. ASSUME NEW p \in Procs, deadlock_watchdog(p)
      PROVE  \A r \in Procs : EndsFit(r)'
  <2>0. CondTypes /\ StateTypes
    BY <1>0, Types DEF IInv
  <2>1. /\ UNCHANGED <<pc, pipe, thread, done>> /\ watchdog[p] = "read"
        /\ UNCHANGED watchdog \/ watchdog' = [watchdog EXCEPT ![p] = "dead"]
    <3>1. UNCHANGED <<pc, pipe, thread, done>> /\ watchdog[p] = "read"
      BY <1>3 DEF deadlock_watchdog, pipes, reader
    <3>2. UNCHANGED watchdog \/ watchdog' = [watchdog EXCEPT ![p] = "dead"]
      <4>1. [watchdog EXCEPT ![p] = @] = watchdog
        BY <2>0 DEF StateTypes
      <4> QED BY <1>3, <4>1 DEF deadlock_watchdog
    <3> QED BY <3>1, <3>2
  <2>2. \A x \in Procs : watchdog'[x] = "read" => watchdog[x] = "read"
    BY <2>0, <2>1 DEF StateTypes
  <2>3. UNCHANGED deadlock \/ \E rank : deadlock' = [deadlock EXCEPT ![p][rank] = TRUE]
    BY <1>3 DEF deadlock_watchdog
  <2>4. ASSUME NEW x \in Procs, NEW y \in Procs, deadlock'[x][y]
        PROVE  deadlock[x][y] \/ watchdog[x] = "read"
    <3>1. CASE x = p
      BY <2>1, <3>1
    <3>2. CASE x # p
      <4>1. deadlock'[x] = deadlock[x]
        BY <2>0, <2>3, <3>2 DEF CondTypes
      <4> QED BY <2>4, <4>1
    <3> QED BY <3>1, <3>2
  <2>5. \A r \in Procs : Finishing(r) => Finishing(r)'
    BY <2>1 DEF Finishing
  <2> QED BY <2>1, <2>2, <2>4, <2>5, EndsKept
<1>4. ASSUME UNCHANGED library PROVE \A r \in Procs : EndsFit(r)'
  <2>1. UNCHANGED <<pc, pipe, thread, done, watchdog, deadlock>>
    BY <1>4 DEF library, pipes, reader, cond
  <2>2. \A r \in Procs : Finishing(r) => Finishing(r)'
    BY <2>1 DEF Finishing
  <2> QED BY <2>1, <2>2, EndsKept
<1> QED BY <1>1, <1>2, <1>3, <1>4 DEF Next, Terminated, vars

LEMMA EndsInit == Init => DInv
<1> SUFFICES ASSUME Init PROVE \A p \in Procs : EndsFit(p)
  BY InitFits DEF DInv
<1>1. \A p \in Procs : done[p] = {} /\ (watchdog[p] = "read" => Detection)
  BY DEF Init
<1>2. \A p, q \in Procs : deadlock[p][q] = FALSE
  BY DEF Init, PairOf
<1> QED BY <1>1, <1>2 DEF EndsFit

LEMMA DeliveryInvariance == Spec => []DInv
<1>1. DInv /\ [Next]_vars => DInv'
  BY NextFits, EndsStep DEF DInv
<1> QED BY <1>1, EndsInit, PTL DEF Spec
-----------------------------------------------------------------------------
(***************************************************************************)
(* Mimpi implements MessagePassing: every step of the pipes, the threads   *)
(* and the calls is a step of the channels or none.                        *)
(***************************************************************************)

Want(p) == IF pc[p] = "recvTell" THEN NoCall ELSE req[p]

statuses == [p \in Procs |-> Status(p)]
wants    == [p \in Procs |-> Want(p)]
chans    == [q \in Procs |-> [p \in Procs |-> InTransit(q, p)]]

LEMMA StatusIs ==
  ASSUME TypeOK, NEW p \in Procs
  PROVE  /\ Status(p) = "idle" <=> pc[p] \in {"idle", "recvTell"}
         /\ Status(p) = "send" <=> pc[p] \in {"sendCheck", "sendFirst"}
         /\ Status(p) = "put"  <=> pc[p] = "sendMore"
         /\ Status(p) = "recv" <=> pc[p] \in {"recvLock", "recvWait"}
         /\ Status(p) = "left" <=> Finishing(p)
         /\ Status(p) \in {"idle", "send", "put", "recv", "left"}
<1>1. pc[p] \in Everywhere
  BY Types DEF CallTypes
<1> QED BY <1>1 DEF Status, Finishing, Everywhere

LEMMA StatusThen ==
  ASSUME TypeOK', NEW p \in Procs
  PROVE  /\ Status(p)' = "idle" <=> pc'[p] \in {"idle", "recvTell"}
         /\ Status(p)' = "send" <=> pc'[p] \in {"sendCheck", "sendFirst"}
         /\ Status(p)' = "put"  <=> pc'[p] = "sendMore"
         /\ Status(p)' = "recv" <=> pc'[p] \in {"recvLock", "recvWait"}
         /\ Status(p)' = "left" <=> Finishing(p)'
         /\ Status(p)' \in {"idle", "send", "put", "recv", "left"}
<1>1. pc'[p] \in Everywhere
  BY DEF TypeOK, Everywhere
<1> QED BY <1>1 DEF Status, Finishing, Everywhere

\* What r sees of its channels stays the same.
LEMMA TransitSame ==
  ASSUME NEW q \in Procs, NEW r \in Procs, Same(r), pipe'[q][r] = pipe[q][r]
  PROVE  InTransit(q, r)' = InTransit(q, r)
BY DEF Same, InTransit, Finishing

LEMMA ViewSame ==
  ASSUME NEW r \in Procs, Same(r)
  PROVE  Status(r)' = Status(r) /\ Want(r)' = Want(r)
BY DEF Same, Status, Want, Finishing

\* A step that changes nothing the channels speak of.
LEMMA NoStep ==
  ASSUME \A r \in Procs : Status(r)' = Status(r) /\ Want(r)' = Want(r),
         \A q, r \in Procs : InTransit(q, r)' = InTransit(q, r),
         UNCHANGED <<result, got>>
  PROVE  UNCHANGED Channels!vars
<1>1. statuses' = statuses /\ wants' = wants
  BY DEF statuses, wants
<1>2. chans' = chans
  BY DEF chans
<1> QED BY <1>1, <1>2 DEF Channels!vars, statuses, wants, chans, Want

\* A step of one process, seen from the channels.
LEMMA OneStep ==
  ASSUME NEW p \in Procs, OnlyOf(p)
  PROVE  /\ statuses' = [statuses EXCEPT ![p] = Status(p)']
         /\ wants' = [wants EXCEPT ![p] = Want(p)']
         /\ statuses[p] = Status(p) /\ wants[p] = Want(p)
         /\ \A r \in Procs : statuses[r] = Status(r)
<1>1. \A r \in Procs \ {p} : Status(r)' = Status(r) /\ Want(r)' = Want(r)
  BY ViewSame DEF OnlyOf
<1>2. statuses' = [statuses EXCEPT ![p] = Status(p)']
  BY <1>1 DEF statuses
<1>3. wants' = [wants EXCEPT ![p] = Want(p)']
  BY <1>1 DEF wants
<1> QED BY <1>2, <1>3 DEF statuses, wants

LEMMA ChansSame ==
  ASSUME \A q, r \in Procs : InTransit(q, r)' = InTransit(q, r)
  PROVE  chans' = chans
BY DEF chans

\* A step of one process that leaves its own messages and all pipes as they are.
LEMMA QuietChans ==
  ASSUME NEW p \in Procs, OnlyOf(p), UNCHANGED pipe,
         \A q \in Procs : InTransit(q, p)' = InTransit(q, p)
  PROVE  chans' = chans /\ \A q, r \in Procs : InTransit(q, r)' = InTransit(q, r)
<1>1. ASSUME NEW q \in Procs, NEW r \in Procs
      PROVE  InTransit(q, r)' = InTransit(q, r)
  <2>1. CASE r = p
    BY <2>1
  <2>2. CASE r # p
    BY <2>2, TransitSame DEF OnlyOf
  <2> QED BY <2>1, <2>2
<1> QED BY <1>1, ChansSame

LEMMA CallCalls ==
  ASSUME DInv, DInv', NEW p \in Procs, Call(p)
  PROVE  Channels!Call(p)
<1>0. IInv /\ TypeOK /\ TypeOK' /\ OnlyOf(p) /\ CallTypes
  <2>1. IInv /\ IInv'
    BY DEF DInv
  <2>2. OnlyOf(p)
    BY <2>1, CallFitsIn
  <2> QED BY <2>1, <2>2, Types DEF IInv
<1>1. PICK q \in Peers(p), kind \in Sends \cup Receives :
        /\ req' = [req EXCEPT ![p] = [peer |-> q, tag |-> kind.tag, count |-> kind.count,
                                      id |-> calls[p]]]
        /\ \/ kind \in Sends /\ pc' = [pc EXCEPT ![p] = "sendCheck"]
           \/ kind \in Receives /\ pc' = [pc EXCEPT ![p] = "recvLock"]
  BY DEF Call, Goto
<1>2. calls[p] \in Ids /\ q \in Procs \ {p}
  BY <1>0 DEF CallTypes, Peers
<1>3. PICK c : c = [peer |-> q, tag |-> kind.tag, count |-> kind.count, id |-> calls[p]]
  OBVIOUS
<1>4. /\ pc[p] = "idle" /\ req'[p] = c
      /\ \/ kind \in Sends /\ pc'[p] = "sendCheck"
         \/ kind \in Receives /\ pc'[p] = "recvLock"
  BY <1>0, <1>1, <1>3 DEF CallTypes, Call
<1>5. Status(p) = "idle" /\ Want(p)' = c
  BY <1>0, <1>4, StatusIs DEF Want
<1>6. (kind \in Sends /\ Status(p)' = "send") \/ (kind \in Receives /\ Status(p)' = "recv")
  BY <1>0, <1>4, StatusThen
<1>7. chans' = chans
  <2>1. UNCHANGED <<pipe, buffers, thread, header>>
    BY DEF Call, pipes, reader
  <2>2. ~Finishing(p) /\ ~Finishing(p)'
    BY <1>4 DEF Finishing
  <2>3. \A x \in Procs : InTransit(x, p)' = InTransit(x, p)
    BY <2>1, <2>2 DEF InTransit
  <2> QED BY <1>0, <2>1, <2>3, QuietChans
<1>8. /\ statuses[p] = "idle" /\ wants' = [wants EXCEPT ![p] = c]
      /\ \/ kind \in Sends /\ statuses' = [statuses EXCEPT ![p] = "send"]
         \/ kind \in Receives /\ statuses' = [statuses EXCEPT ![p] = "recv"]
  BY <1>0, <1>5, <1>6, OneStep
<1>9. result' = [result EXCEPT ![p] = "none"] /\ got' = [got EXCEPT ![p] = None]
  BY DEF Call
<1>10. \E x \in Procs \ {p}, k \in Sends \cup Receives, i \in Ids :
         /\ wants' = [wants EXCEPT ![p] = [peer |-> x, tag |-> k.tag, count |-> k.count,
                                           id |-> i]]
         /\ \/ k \in Sends /\ statuses' = [statuses EXCEPT ![p] = "send"]
            \/ k \in Receives /\ statuses' = [statuses EXCEPT ![p] = "recv"]
  BY <1>2, <1>3, <1>8
<1> QED BY <1>7, <1>8, <1>9, <1>10 DEF Channels!Call, statuses, wants, chans, Want

\* What p has taken from the pipe of q: the list and what the thread holds.
Held(q, p) ==
  buffers[p][q] \o (IF thread[p][q] \in {"data", "entry"} THEN <<header[p][q]>> ELSE <<>>)

LEMMA TransitIs ==
  ASSUME NEW q \in Procs, NEW p \in Procs
  PROVE  InTransit(q, p) = IF Finishing(p) THEN <<>> ELSE Held(q, p) \o Headers(pipe[q][p])
BY DEF InTransit, Held

LEMMA TransitTypes ==
  ASSUME IInv, NEW q \in Procs, NEW p \in Procs
  PROVE  /\ pipe[q][p] \in Seq(Blocks) /\ Headers(pipe[q][p]) \in Seq(Messages)
         /\ buffers[p][q] \in Seq(Messages) /\ Held(q, p) \in Seq(Messages)
<1>1. PipeTypes /\ BufferTypes /\ ReadersFit(p)
  BY Types DEF IInv, Local
<1>2. pipe[q][p] \in Seq(Blocks)
  BY <1>1 DEF PipeTypes, Blocks
<1>3. buffers[p][q] \in Seq(Messages)
  BY <1>1 DEF BufferTypes
<1>4. PICK hand : hand = IF thread[p][q] \in {"data", "entry"} THEN <<header[p][q]>> ELSE <<>>
  OBVIOUS
<1>5. hand \in Seq(Messages)
  BY <1>1, <1>4 DEF ReadersFit
<1>6. buffers[p][q] \o hand \in Seq(Messages)
  BY <1>3, <1>5
<1> QED BY <1>2, <1>3, <1>4, <1>6, HeadersType DEF Held

\* A step of one process that changes neither its own place nor any message.
LEMMA QuietStep ==
  ASSUME NEW p \in Procs, OnlyOf(p), Status(p)' = Status(p), Want(p)' = Want(p),
         \A q, r \in Procs : InTransit(q, r)' = InTransit(q, r), UNCHANGED <<result, got>>
  PROVE  UNCHANGED Channels!vars
<1>1. \A r \in Procs \ {p} : Status(r)' = Status(r) /\ Want(r)' = Want(r)
  BY ViewSame DEF OnlyOf
<1> QED BY <1>1, NoStep

\* What p holds and has in its pipes stays the same.
LEMMA OwnSame ==
  ASSUME NEW p \in Procs, UNCHANGED <<pipe, buffers, thread, header>>,
         Finishing(p)' <=> Finishing(p)
  PROVE  \A q \in Procs : InTransit(q, p)' = InTransit(q, p)
<1>1. CASE Finishing(p)
  BY <1>1 DEF InTransit
<1>2. CASE ~Finishing(p)
  BY <1>2 DEF InTransit
<1> QED BY <1>1, <1>2

\* A call of p runs: what the channels see of it.
LEMMA InCall ==
  ASSUME IInv, NEW p \in Procs, pc[p] \in Sending \cup {"recvLock", "recvWait"}
  PROVE  /\ ~Finishing(p) /\ Want(p) = req[p] /\ req[p].peer \in Procs /\ req[p].peer # p
         /\ statuses[p] = Status(p) /\ wants[p] = req[p]
         /\ statuses[req[p].peer] = Status(req[p].peer)
<1>1. CallFits(p)
  BY DEF IInv, Local
<1>2. req[p].peer \in Procs /\ req[p].peer # p
  BY <1>1 DEF CallFits, Sending, Receiving, Peers
<1>3. ~Finishing(p) /\ Want(p) = req[p]
  BY DEF Finishing, Want, Sending
<1> QED BY <1>2, <1>3 DEF statuses, wants

LEMMA ReturnIs ==
  ASSUME NEW p \in Procs, OnlyOf(p), Status(p)' = "idle", Want(p)' = NoCall,
         NEW res, result' = [result EXCEPT ![p] = res]
  PROVE  Channels!Return(p, res)
<1>1. statuses' = [statuses EXCEPT ![p] = "idle"] /\ wants' = [wants EXCEPT ![p] = NoCall]
  BY OneStep
<1>2. Channels!NoCall = NoCall
  BY DEF Channels!NoCall, NoCall
<1> QED BY <1>1, <1>2 DEF Channels!Return, statuses, wants, Want

LEMMA Returned ==
  ASSUME TypeOK, TypeOK', NEW p \in Procs, OnlyOf(p), NEW res, Return(p, res)
  PROVE  Channels!Return(p, res) /\ pc'[p] = "idle" /\ ~Finishing(p)'
<1>1. pc'[p] = "idle" /\ req'[p] = NoCall
  BY Types DEF CallTypes, Return, Goto
<1>2. Status(p)' = "idle" /\ Want(p)' = NoCall
  BY <1>1, StatusThen DEF Want
<1>3. Channels!Return(p, res)
  BY <1>2, ReturnIs DEF Return
<1> QED BY <1>1, <1>3 DEF Finishing

\* A send fails only when its destination has left.
LEMMA SendHasFailed ==
  ASSUME DInv, DInv', NEW p \in Procs, OnlyOf(p), pc[p] \in Sending,
         Return(p, "REMOTE_FINISHED"), Finishing(req[p].peer),
         UNCHANGED <<got, pipe, buffers, thread, header>>
  PROVE  Channels!SendFails(p)
<1>0. IInv /\ TypeOK /\ TypeOK'
  BY DEF DInv, IInv
<1>1. Channels!Return(p, "REMOTE_FINISHED") /\ ~Finishing(p)'
  BY <1>0, Returned
<1>2. /\ ~Finishing(p) /\ wants[p] = req[p] /\ req[p].peer \in Procs
      /\ statuses[p] = Status(p) /\ statuses[req[p].peer] = Status(req[p].peer)
  BY <1>0, InCall
<1>3. chans' = chans
  BY <1>1, <1>2, OwnSame, QuietChans
<1>4. statuses[p] \in {"send", "put"} /\ statuses[wants[p].peer] = "left"
  BY <1>0, <1>2, StatusIs DEF Sending
<1> QED BY <1>1, <1>3, <1>4 DEF Channels!SendFails, statuses, wants, chans, Want

LEMMA SendCheckRefines ==
  ASSUME DInv, DInv', NEW p \in Procs, SendCheck(p)
  PROVE  Channels!SendFails(p) \/ UNCHANGED Channels!vars
<1>0. IInv /\ TypeOK /\ TypeOK' /\ CallTypes /\ OnlyOf(p) /\ pc[p] = "sendCheck"
      /\ UNCHANGED <<got, pipe, buffers, thread, header>>
  <2>1. IInv /\ IInv'
    BY DEF DInv
  <2>2. OnlyOf(p)
    BY <2>1, SendCheckFits
  <2> QED BY <2>1, <2>2, Types DEF IInv, SendCheck, pipes, reader
<1>1. ~Finishing(p) /\ req[p].peer \in Procs
  BY <1>0, InCall DEF Sending
<1>2. CASE req[p].peer \in done[p]
  <2>1. Finishing(req[p].peer)
    BY <1>1, <1>2 DEF DInv, EndsFit
  <2>2. Return(p, "REMOTE_FINISHED")
    BY <1>2 DEF SendCheck
  <2> QED BY <1>0, <2>1, <2>2, SendHasFailed DEF Sending
<1>3. CASE req[p].peer \notin done[p]
  <2>1. pc'[p] = "sendFirst" /\ req'[p] = req[p] /\ UNCHANGED <<result, got>>
    BY <1>0, <1>3 DEF SendCheck, Goto, CallTypes
  <2>2. Status(p) = "send" /\ Status(p)' = "send" /\ ~Finishing(p)'
    BY <1>0, <2>1, StatusIs, StatusThen DEF Finishing
  <2>3. Want(p)' = Want(p)
    BY <1>0, <2>1 DEF Want
  <2>4. \A q, r \in Procs : InTransit(q, r)' = InTransit(q, r)
    BY <1>0, <1>1, <2>2, OwnSame, QuietChans
  <2> QED BY <1>0, <2>1, <2>2, <2>3, <2>4, QuietStep
<1> QED BY <1>2, <1>3

LEMMA SendBrokenRefines ==
  ASSUME DInv, DInv', NEW p \in Procs, SendBroken(p)
  PROVE  Channels!SendFails(p)
<1>0. IInv /\ TypeOK /\ OnlyOf(p) /\ pc[p] \in Sending
      /\ Return(p, "REMOTE_FINISHED") /\ ~HasReader(req[p].peer, p)
      /\ UNCHANGED <<got, pipe, buffers, thread, header>>
  <2>1. IInv /\ IInv'
    BY DEF DInv
  <2>2. OnlyOf(p)
    BY <2>1, SendBrokenFits
  <2> QED BY <2>1, <2>2 DEF IInv, SendBroken, pipes, reader, Sending
<1>1. req[p].peer \in Procs /\ req[p].peer # p
  BY <1>0, InCall
<1>2. Finishing(req[p].peer)
  <2>1. OpenFits(req[p].peer)
    BY <1>0, <1>1 DEF IInv, Local
  <2> QED BY <1>0, <1>1, <2>1 DEF OpenFits, HasReader, Peers
<1> QED BY <1>0, <1>2, SendHasFailed

\* p writes a block to q: a header adds its message to the channel.
LEMMA WriteChans ==
  ASSUME IInv, IInv', NEW p \in Procs, NEW q \in Procs, p # q, OnlyOf(p),
         ~Finishing(p), ~Finishing(p)', UNCHANGED <<buffers, thread, header>>,
         NEW block \in Blocks, pipe' = [pipe EXCEPT ![p][q] = Append(@, block)]
  PROVE  /\ \A x, y \in Procs : x # p \/ y # q => InTransit(x, y)' = InTransit(x, y)
         /\ block = More => InTransit(p, q)' = InTransit(p, q)
         /\ Finishing(q) => InTransit(p, q)' = InTransit(p, q)
         /\ block \in Messages /\ ~Finishing(q) =>
              InTransit(p, q)' = Append(InTransit(p, q), block)
<1>0. PipeTypes
  BY Types DEF IInv
<1>1. /\ pipe'[p][q] = Append(pipe[p][q], block)
      /\ \A x, y \in Procs : x # p \/ y # q => pipe'[x][y] = pipe[x][y]
  BY <1>0 DEF PipeTypes
<1>2. ASSUME NEW x \in Procs, NEW y \in Procs, x # p \/ y # q
      PROVE  InTransit(x, y)' = InTransit(x, y)
  <2>1. pipe'[x][y] = pipe[x][y]
    BY <1>1, <1>2
  <2>2. CASE y = p
    <3>1. pipe'[x][p] = pipe[x][p]
      BY <2>1, <2>2
    <3>2. InTransit(x, p)' = InTransit(x, p)
      <4>1. InTransit(x, p) = Held(x, p) \o Headers(pipe[x][p])
        BY TransitIs
      <4>2. InTransit(x, p)' = Held(x, p)' \o Headers(pipe'[x][p])
        BY DEF InTransit, Held
      <4>3. Held(x, p)' = Held(x, p)
        BY DEF Held
      <4> QED BY <3>1, <4>1, <4>2, <4>3
    <3> QED BY <2>2, <3>2
  <2>3. CASE y # p
    BY <2>1, <2>3, TransitSame DEF OnlyOf
  <2> QED BY <2>2, <2>3
<1>3. Same(q) /\ (Finishing(q)' <=> Finishing(q)) /\ Held(p, q)' = Held(p, q)
  BY DEF OnlyOf, Same, Finishing, Held
<1>4. /\ pipe[p][q] \in Seq(Blocks) /\ Headers(pipe[p][q]) \in Seq(Messages)
      /\ Held(p, q) \in Seq(Messages)
  BY TransitTypes
<1>5. InTransit(p, q) = IF Finishing(q) THEN <<>> ELSE Held(p, q) \o Headers(pipe[p][q])
  BY TransitIs
<1>6. InTransit(p, q)' = IF Finishing(q) THEN <<>> ELSE Held(p, q) \o Headers(pipe'[p][q])
  BY <1>3 DEF InTransit, Held
<1>7. block = More => InTransit(p, q)' = InTransit(p, q)
  BY <1>1, <1>4, <1>5, <1>6, HeadersAppendMore
<1>8. Finishing(q) => InTransit(p, q)' = InTransit(p, q)
  BY <1>5, <1>6
<1>9. ASSUME block \in Messages, ~Finishing(q)
      PROVE  InTransit(p, q)' = Append(InTransit(p, q), block)
  <2>1. PICK held \in Seq(Messages) : held = Held(p, q)
    BY <1>4
  <2>2. PICK hs \in Seq(Messages) : hs = Headers(pipe[p][q])
    BY <1>4
  <2>3. Headers(pipe'[p][q]) = Append(hs, block)
    BY <1>1, <1>4, <1>9, <2>2, HeadersAppend
  <2>4. PICK m \in Messages : m = block
    BY <1>9
  <2>5. held \o Append(hs, m) = Append(held \o hs, m)
    OBVIOUS
  <2> QED BY <1>5, <1>6, <1>9, <2>1, <2>2, <2>3, <2>4, <2>5
<1> QED BY <1>2, <1>7, <1>8, <1>9

\* The header is written: the message is on its way, unless nobody is left to take it.
LEMMA SendFirstPuts ==
  ASSUME DInv, DInv', NEW p \in Procs, SendFirst(p)
  PROVE  Channels!Put(p)
<1>0. IInv /\ IInv' /\ TypeOK /\ TypeOK' /\ CallTypes /\ OnlyOf(p) /\ pc[p] = "sendFirst"
      /\ UNCHANGED <<got, buffers, thread, header>>
  <2>1. IInv /\ IInv'
    BY DEF DInv
  <2>2. OnlyOf(p)
    BY <2>1, SendFirstFits
  <2> QED BY <2>1, <2>2, Types DEF IInv, SendFirst, reader
<1>1. PICK q \in Procs : q = req[p].peer
  BY <1>0, InCall DEF Sending
<1>2. /\ ~Finishing(p) /\ wants[p] = req[p] /\ q # p
      /\ statuses[p] = Status(p) /\ statuses[q] = Status(q)
  BY <1>0, <1>1, InCall DEF Sending
<1>3. PICK m : m = Header(p)
  OBVIOUS
<1>4. m \in Messages /\ m = [tag |-> req[p].tag, count |-> req[p].count, id |-> req[p].id]
  <2>1. CallFits(p)
    BY <1>0 DEF IInv, Local
  <2>2. Kind(p) \in Sends /\ req[p].id \in Ids
    BY <1>0, <2>1 DEF CallFits, Sending
  <2>3. Header(p) = [tag |-> Kind(p).tag, count |-> Kind(p).count, id |-> req[p].id]
    BY DEF Header, Kind
  <2>4. Header(p) \in Messages
    BY <2>2, <2>3 DEF Messages
  <2> QED BY <1>3, <2>4 DEF Header
<1>5. /\ pipe' = [pipe EXCEPT ![p][q] = Append(@, m)]
      /\ \/ Return(p, "SUCCESS")
         \/ Goto(p, "sendMore") /\ UNCHANGED <<req, result>>
  BY <1>1, <1>3 DEF SendFirst, Write
<1>6. pc'[p] \in {"idle", "sendMore"}
  BY <1>0, <1>5 DEF Return, Goto, CallTypes
<1>7. ~Finishing(p)'
  BY <1>6 DEF Finishing
<1>8. PICK b \in Blocks : b = m
  BY <1>4 DEF Blocks
<1>9. /\ \A x, y \in Procs : x # p \/ y # q => InTransit(x, y)' = InTransit(x, y)
      /\ Finishing(q) => InTransit(p, q)' = InTransit(p, q)
      /\ ~Finishing(q) => InTransit(p, q)' = Append(InTransit(p, q), m)
  BY <1>0, <1>2, <1>4, <1>5, <1>7, <1>8, WriteChans
<1>10. statuses[q] = "left" <=> Finishing(q)
  BY <1>0, <1>2, StatusIs
<1>11. chans' = IF statuses[q] = "left" THEN chans
                ELSE [chans EXCEPT ![p][q] = Append(@, m)]
  <2>1. CASE Finishing(q)
    <3>1. \A x, y \in Procs : InTransit(x, y)' = InTransit(x, y)
      BY <1>9, <2>1
    <3> QED BY <1>10, <2>1, <3>1, ChansSame
  <2>2. CASE ~Finishing(q)
    <3>1. chans' = [chans EXCEPT ![p][q] = Append(@, m)]
      BY <1>9, <2>2 DEF chans
    <3> QED BY <1>10, <2>2, <3>1
  <2> QED BY <2>1, <2>2
<1>12. \/ Channels!Return(p, "SUCCESS")
       \/ statuses' = [statuses EXCEPT ![p] = "put"] /\ wants' = wants /\ UNCHANGED result
  <2>1. CASE Return(p, "SUCCESS")
    BY <1>0, <2>1, Returned
  <2>2. CASE Goto(p, "sendMore") /\ UNCHANGED <<req, result>>
    <3>1. pc'[p] = "sendMore"
      BY <1>0, <2>2 DEF Goto, CallTypes
    <3>2. Status(p)' = "put" /\ Want(p)' = Want(p)
      BY <1>0, <2>2, <3>1, StatusThen DEF Want
    <3>3. statuses' = [statuses EXCEPT ![p] = "put"]
      BY <1>0, <3>2, OneStep
    <3>4. wants' = [wants EXCEPT ![p] = Want(p)] /\ wants[p] = Want(p)
      BY <1>0, <3>2, OneStep
    <3>5. wants' = wants
      BY <3>4 DEF wants
    <3> QED BY <2>2, <3>3, <3>5
  <2> QED BY <1>5, <2>1, <2>2
<1>13. statuses[p] = "send"
  BY <1>0, <1>2, StatusIs
<1>14. chans' = LET x == wants[p].peer
                    h == [tag |-> wants[p].tag, count |-> wants[p].count, id |-> wants[p].id]
                IN  IF statuses[x] = "left" THEN chans
                    ELSE [chans EXCEPT ![p][x] = Append(@, h)]
  BY <1>1, <1>2, <1>4, <1>11
<1> QED BY <1>0, <1>12, <1>13, <1>14 DEF Channels!Put, statuses, wants, chans, Want

LEMMA SendMoreRefines ==
  ASSUME DInv, DInv', NEW p \in Procs, SendMore(p)
  PROVE  Channels!Complete(p) \/ UNCHANGED Channels!vars
<1>0. IInv /\ IInv' /\ TypeOK /\ TypeOK' /\ CallTypes /\ OnlyOf(p) /\ pc[p] = "sendMore"
      /\ UNCHANGED <<got, buffers, thread, header>>
  <2>1. IInv /\ IInv'
    BY DEF DInv
  <2>2. OnlyOf(p)
    BY <2>1, SendMoreFits
  <2> QED BY <2>1, <2>2, Types DEF IInv, SendMore, reader
<1>1. PICK q \in Procs : q = req[p].peer
  BY <1>0, InCall DEF Sending
<1>2. /\ ~Finishing(p) /\ q # p /\ statuses[p] = Status(p)
  BY <1>0, <1>1, InCall DEF Sending
<1>3. /\ pipe' = [pipe EXCEPT ![p][q] = Append(@, More)]
      /\ Return(p, "SUCCESS") \/ UNCHANGED <<pc, req, result>>
  BY <1>1 DEF SendMore, Write
<1>4. pc'[p] \in {"idle", "sendMore"}
  BY <1>0, <1>3 DEF Return, Goto, CallTypes
<1>5. ~Finishing(p)'
  BY <1>4 DEF Finishing
<1>6. PICK b \in Blocks : b = More
  BY DEF Blocks
<1>7. \A x, y \in Procs : InTransit(x, y)' = InTransit(x, y)
  <2>1. /\ \A x, y \in Procs : x # p \/ y # q => InTransit(x, y)' = InTransit(x, y)
        /\ InTransit(p, q)' = InTransit(p, q)
    <3>1. pipe' = [pipe EXCEPT ![p][q] = Append(@, b)]
      BY <1>3, <1>6
    <3> QED BY <1>0, <1>2, <1>5, <1>6, <3>1, WriteChans
  <2> QED BY <2>1
<1>8. CASE Return(p, "SUCCESS")
  <2>1. Channels!Return(p, "SUCCESS")
    BY <1>0, <1>8, Returned
  <2>2. statuses[p] = "put"
    BY <1>0, <1>2, StatusIs
  <2>3. chans' = chans
    BY <1>7, ChansSame
  <2> QED BY <1>0, <2>1, <2>2, <2>3 DEF Channels!Complete, statuses, chans
<1>9. CASE UNCHANGED <<pc, req, result>>
  <2>1. Status(p)' = Status(p) /\ Want(p)' = Want(p)
    BY <1>9 DEF Status, Want, Finishing
  <2> QED BY <1>0, <1>7, <1>9, <2>1, QuietStep
<1> QED BY <1>3, <1>8, <1>9

\* Both sides agree on what a Recv may take: 0 is no tag of a message, and the
\* negative tags are those of the library.
LEMMA MatchesIs ==
  ASSUME NEW m \in Messages, NEW tag, NEW count
  PROVE  Channels!Matches(m, tag, count) <=> ok_tag(m.tag, tag) /\ m.count = count
<1>1. PICK kind \in Sends : m.tag = kind.tag
  BY DEF Messages
<1>2. m.tag \in Int /\ m.tag # 0
  BY <1>1, MimpiAssumption DEF MIMPI_ANY_TAG
<1>3. m.tag \notin {k.tag : k \in Sends} \ Nat <=> m.tag > 0
  BY <1>1, <1>2
<1> QED BY <1>3 DEF Channels!Matches, ok_tag

\* A message of the list is taken, the rest follows.
LEMMA RemoveFront ==
  ASSUME NEW S, NEW s \in Seq(S), NEW t \in Seq(S), NEW i \in 1..Len(s)
  PROVE  RemoveAt(s \o t, i) = RemoveAt(s, i) \o t
<1>1. PICK u \in Seq(S) : u = s \o t
  <2>1. s \o t \in Seq(S)
    OBVIOUS
  <2> QED BY <2>1
<1>2. /\ Len(u) = Len(s) + Len(t) /\ Len(s) \in Nat /\ Len(t) \in Nat
      /\ \A j \in 1..Len(s) : u[j] = s[j]
      /\ \A j \in 1..Len(t) : u[Len(s) + j] = t[j]
  BY <1>1
<1>3. PICK a \in Seq(S) : a = SubSeq(s, 1, i - 1)
  <2>1. SubSeq(s, 1, i - 1) \in Seq(S)
    OBVIOUS
  <2> QED BY <2>1
<1>4. PICK b \in Seq(S) : b = SubSeq(s, i + 1, Len(s))
  <2>1. SubSeq(s, i + 1, Len(s)) \in Seq(S)
    OBVIOUS
  <2> QED BY <2>1
<1>5. SubSeq(u, 1, i - 1) = a
  <2>1. SubSeq(u, 1, i - 1) \in Seq(S) /\ Len(SubSeq(u, 1, i - 1)) = i - 1 /\ Len(a) = i - 1
    BY <1>2, <1>3
  <2>2. \A j \in 1..(i - 1) : SubSeq(u, 1, i - 1)[j] = a[j]
    BY <1>2, <1>3
  <2> QED BY <2>1, <2>2, SeqEqual
<1>6. SubSeq(u, i + 1, Len(u)) = b \o t
  <2>1. PICK c \in Seq(S) : c = SubSeq(u, i + 1, Len(u))
    <3>1. SubSeq(u, i + 1, Len(u)) \in Seq(S)
      BY <1>2
    <3> QED BY <3>1
  <2>2. PICK d \in Seq(S) : d = b \o t
    <3>1. b \o t \in Seq(S)
      BY <1>4
    <3> QED BY <3>1
  <2>3. Len(b) = Len(s) - i /\ \A j \in 1..Len(b) : b[j] = s[i + j]
    BY <1>2, <1>4
  <2>4. /\ Len(d) = Len(b) + Len(t) /\ \A j \in 1..Len(b) : d[j] = b[j]
        /\ \A j \in 1..Len(t) : d[Len(b) + j] = t[j]
    BY <2>2
  <2>5. Len(c) = Len(u) - i /\ \A j \in 1..Len(c) : c[j] = u[i + j]
    BY <1>2, <2>1
  <2>6. ASSUME NEW j \in 1..Len(c) PROVE c[j] = d[j]
    <3>1. CASE j \in 1..Len(b)
      <4>1. i + j \in 1..Len(s)
        BY <1>2, <2>3, <3>1
      <4> QED BY <1>2, <2>3, <2>4, <2>5, <3>1, <4>1
    <3>2. CASE j \notin 1..Len(b)
      <4>1. PICK k \in 1..Len(t) : j = Len(b) + k
        <5>1. j - Len(b) \in 1..Len(t) /\ j = Len(b) + (j - Len(b))
          BY <1>2, <2>3, <2>5, <2>6, <3>2
        <5> QED BY <5>1
      <4>2. i + j = Len(s) + k
        BY <1>2, <2>3, <4>1
      <4> QED BY <1>2, <2>4, <2>5, <4>1, <4>2
    <3> QED BY <3>1, <3>2
  <2>7. Len(c) = Len(d)
    BY <1>2, <2>3, <2>4, <2>5
  <2> QED BY <2>1, <2>2, <2>6, <2>7, SeqEqual
<1>7. RemoveAt(u, i) = a \o (b \o t) /\ RemoveAt(s, i) = a \o b
  BY <1>3, <1>4, <1>5, <1>6 DEF RemoveAt
<1>8. a \o (b \o t) = (a \o b) \o t
  BY SMTT(30)
<1> QED BY <1>1, <1>7, <1>8

LEMMA Exited ==
  ASSUME TypeOK, TypeOK', NEW p \in Procs, OnlyOf(p), NEW res, Exit(p, res)
  PROVE  Channels!Return(p, res) /\ ~Finishing(p)'
<1>1. pc'[p] = "recvTell"
  BY Types DEF CallTypes, Exit, Goto
<1>2. Status(p)' = "idle" /\ Want(p)' = NoCall
  BY <1>1, StatusThen DEF Want
<1>3. Channels!Return(p, res)
  BY <1>2, ReturnIs DEF Exit
<1> QED BY <1>1, <1>3 DEF Finishing

LEMMA SameRemoveAt == \A s, i : Channels!RemoveAt(s, i) = RemoveAt(s, i)
BY DEF Channels!RemoveAt, RemoveAt

\* The message a Recv takes is the first of its kind in the channel.
LEMMA RecvTakes ==
  ASSUME DInv, DInv', NEW p \in Procs, OnlyOf(p), pc[p] \in {"recvLock", "recvWait"},
         UNCHANGED <<req, pipe, thread, header>>, Matching(p) # {},
         ExitWith(p, First(Matching(p)))
  PROVE  Channels!Take(p)
<1>0. IInv /\ TypeOK /\ TypeOK' /\ BufferTypes
  BY Types DEF DInv, IInv
<1>1. PICK q \in Procs : q = req[p].peer
  BY <1>0, InCall
<1>2. /\ ~Finishing(p) /\ wants[p] = req[p] /\ q # p /\ statuses[p] = Status(p)
  BY <1>0, <1>1, InCall
<1>3. PICK s \in Seq(Messages) : s = buffers[p][q]
  BY <1>0 DEF BufferTypes
<1>4. PICK i : i = First(Matching(p))
  OBVIOUS
<1>5. i \in 1..Len(s) /\ i \in Matching(p) /\ \A j \in Matching(p) : i <= j
  BY <1>0, <1>1, <1>3, <1>4, FirstMatching
<1>6. /\ got' = [got EXCEPT ![p] = s[i]]
      /\ buffers' = [buffers EXCEPT ![p][q] = RemoveAt(s, i)]
      /\ Exit(p, "SUCCESS")
  BY <1>1, <1>3, <1>4 DEF ExitWith
<1>7. Channels!Return(p, "SUCCESS") /\ ~Finishing(p)'
  BY <1>0, <1>6, Exited
<1>8. PICK rest \in Seq(Messages) : InTransit(q, p) = s \o rest /\ InTransit(q, p)' = RemoveAt(s, i) \o rest
  <2>1. PICK hand : hand = IF thread[p][q] \in {"data", "entry"} THEN <<header[p][q]>> ELSE <<>>
    OBVIOUS
  <2>2. hand \in Seq(Messages)
    BY <1>0, <2>1 DEF IInv, Local, ReadersFit
  <2>3. PICK hs \in Seq(Messages) : hs = Headers(pipe[q][p])
    BY <1>0, TransitTypes
  <2>4. InTransit(q, p) = s \o hand \o hs
    BY <1>2, <1>3, <2>1, <2>3 DEF InTransit
  <2>5. buffers'[p][q] = RemoveAt(s, i)
    BY <1>0, <1>6 DEF BufferTypes
  <2>6. InTransit(q, p)' = RemoveAt(s, i) \o hand \o hs
    BY <1>7, <2>1, <2>3, <2>5 DEF InTransit
  <2>7. RemoveAt(s, i) \in Seq(Messages)
    BY <1>5, RemovedOf
  <2>8. PICK r \in Seq(Messages) : r = RemoveAt(s, i)
    BY <2>7
  <2>9. s \o hand \o hs = s \o (hand \o hs) /\ r \o hand \o hs = r \o (hand \o hs)
    BY <2>2, SMTT(30)
  <2>10. hand \o hs \in Seq(Messages)
    BY <2>2
  <2> QED BY <2>4, <2>6, <2>8, <2>9, <2>10
<1>9. PICK c \in Seq(Messages) : c = s \o rest
  <2>1. s \o rest \in Seq(Messages)
    OBVIOUS
  <2> QED BY <2>1
<1>10. /\ i \in 1..Len(c) /\ \A j \in 1..i : c[j] = s[j] /\ s[j] \in Messages /\ j \in 1..Len(s)
       /\ i \in 1..i /\ \A j \in 1..(i - 1) : j \in 1..i /\ ~(i <= j)
  BY <1>5, <1>9
<1>11. ASSUME NEW j \in 1..i
       PROVE  Channels!Matches(c[j], req[p].tag, req[p].count) <=> j \in Matching(p)
  <2>1. c[j] = s[j] /\ s[j] \in Messages /\ j \in 1..Len(s)
    BY <1>10
  <2>2. Channels!Matches(s[j], req[p].tag, req[p].count)
          <=> ok_tag(s[j].tag, req[p].tag) /\ s[j].count = req[p].count
    BY <2>1, MatchesIs
  <2>3. j \in Matching(p) <=> ok_tag(s[j].tag, req[p].tag) /\ s[j].count = req[p].count
    BY <1>1, <1>3, <2>1 DEF Matching
  <2> QED BY <2>1, <2>2, <2>3
<1>12. /\ Channels!Matches(c[i], req[p].tag, req[p].count)
       /\ \A j \in 1..(i - 1) : ~Channels!Matches(c[j], req[p].tag, req[p].count)
  BY <1>5, <1>10, <1>11
<1>13. chans[wants[p].peer][p] = c
  BY <1>1, <1>2, <1>8, <1>9 DEF chans
<1>14. Channels!Found(p, i)
  BY <1>2, <1>12, <1>13 DEF Channels!Found, chans, wants, Want
<1>15. InTransit(q, p)' = RemoveAt(c, i)
  BY <1>5, <1>8, <1>9, RemoveFront
<1>16. ASSUME NEW x \in Procs, NEW y \in Procs, x # q \/ y # p
       PROVE  InTransit(x, y)' = InTransit(x, y)
  <2>1. CASE y # p
    BY <2>1, TransitSame DEF OnlyOf
  <2>2. CASE y = p
    <3>1. buffers'[p][x] = buffers[p][x]
      BY <1>0, <1>6, <1>16, <2>2 DEF BufferTypes
    <3>2. Held(x, p)' = Held(x, p)
      BY <3>1 DEF Held
    <3>3. InTransit(x, p)' = Held(x, p)' \o Headers(pipe[x][p])
      BY <1>7 DEF InTransit, Held
    <3>4. InTransit(x, p) = Held(x, p) \o Headers(pipe[x][p])
      BY <1>2, TransitIs
    <3> QED BY <2>2, <3>2, <3>3, <3>4
  <2> QED BY <2>1, <2>2
<1>17. chans' = [chans EXCEPT ![q][p] = RemoveAt(@, i)]
  BY <1>8, <1>9, <1>15, <1>16 DEF chans
<1>18. LET x == wants[p].peer IN
         \E k \in 1..Len(chans[x][p]) :
           /\ Channels!Found(p, k)
           /\ got' = [got EXCEPT ![p] = chans[x][p][k]]
           /\ chans' = [chans EXCEPT ![x][p] = Channels!RemoveAt(@, k)]
  BY <1>1, <1>2, <1>6, <1>10, <1>13, <1>14, <1>17, SameRemoveAt
<1>19. statuses[p] = "recv"
  BY <1>0, <1>2, StatusIs
<1> QED BY <1>7, <1>18, <1>19 DEF Channels!Take, statuses, wants, chans, Want

\* A Recv that has found nothing fails for a reason, or waits on.
LEMMA RecvEndsOrWaits ==
  ASSUME DInv, DInv', NEW p \in Procs, OnlyOf(p), pc[p] \in {"recvLock", "recvWait"},
         UNCHANGED <<req, pipe, thread, header>>,
         req[p].tag # MIMPI_ANY_TAG => Matching(p) = {},
         NEW target, ExitOrWait(p, target)
  PROVE  Channels!RecvFails(p) \/ Channels!Deadlock(p) \/ UNCHANGED Channels!vars
<1>0. IInv /\ TypeOK /\ TypeOK' /\ CallTypes /\ BufferTypes /\ UNCHANGED <<got, buffers>>
  BY Types DEF DInv, IInv, ExitOrWait
<1>1. PICK q \in Procs : q = req[p].peer
  BY <1>0, InCall
<1>2. /\ ~Finishing(p) /\ wants[p] = req[p] /\ Want(p) = req[p] /\ q # p
      /\ statuses[p] = Status(p) /\ statuses[q] = Status(q) /\ Status(p) = "recv"
  BY <1>0, <1>1, InCall, StatusIs
<1>3. ASSUME ~Finishing(p)'
      PROVE  chans' = chans /\ \A x, y \in Procs : InTransit(x, y)' = InTransit(x, y)
  BY <1>0, <1>2, <1>3, OwnSame, QuietChans
<1>4. CASE deadlock[p][q] /\ Exit(p, "DEADLOCK_DETECTED")
  <2>1. Detection
    BY <1>4 DEF DInv, EndsFit
  <2>2. Channels!Return(p, "DEADLOCK_DETECTED") /\ chans' = chans
    BY <1>0, <1>3, <1>4, Exited
  <2> QED BY <1>0, <1>2, <2>1, <2>2 DEF Channels!Deadlock, statuses, chans
<1>5. CASE q \in done[p] /\ Exit(p, "REMOTE_FINISHED")
  <2>1. Finishing(q) /\ thread[p][q] \in {"wake", "dead"} /\ pipe[q][p] = <<>>
    BY <1>5 DEF DInv, EndsFit
  <2>2. Channels!Return(p, "REMOTE_FINISHED") /\ chans' = chans
    BY <1>0, <1>3, <1>5, Exited
  <2>3. PICK s \in Seq(Messages) : s = buffers[p][q]
    BY <1>0 DEF BufferTypes
  <2>4. InTransit(q, p) = s
    <3>1. InTransit(q, p) = s \o <<>> \o <<>>
      BY <1>2, <2>1, <2>3, HeadersEmpty DEF InTransit
    <3>2. s \o <<>> \o <<>> = s
      OBVIOUS
    <3> QED BY <3>1, <3>2
  <2>5. chans[wants[p].peer][p] = s
    BY <1>1, <1>2, <2>4 DEF chans
  <2>6. ASSUME req[p].tag # MIMPI_ANY_TAG, NEW i \in 1..Len(s) PROVE ~Channels!Found(p, i)
    <3>1. i \notin Matching(p)
      BY <2>6
    <3>2. s[i] \in Messages
      BY <2>6
    <3>3. ~Channels!Matches(s[i], req[p].tag, req[p].count)
      BY <1>1, <2>3, <2>6, <3>1, <3>2, MatchesIs DEF Matching
    <3> QED BY <1>2, <2>5, <3>3 DEF Channels!Found, chans, wants, Want
  <2>7. \/ wants[p].tag = MIMPI_ANY_TAG
        \/ ~\E i \in 1..Len(chans[wants[p].peer][p]) : Channels!Found(p, i)
    BY <1>2, <2>5, <2>6
  <2>8. statuses[p] = "recv" /\ statuses[wants[p].peer] = "left"
    BY <1>0, <1>1, <1>2, <2>1, StatusIs
  <2> QED BY <1>0, <2>2, <2>7, <2>8 DEF Channels!RecvFails, statuses, wants, chans, Want
<1>6. CASE Goto(p, "recvWait") /\ UNCHANGED result
  <2>1. pc'[p] = "recvWait"
    BY <1>0, <1>6 DEF Goto, CallTypes
  <2>2. Status(p)' = "recv" /\ ~Finishing(p)' /\ Want(p)' = Want(p)
    BY <1>0, <1>2, <2>1, StatusThen DEF Want, Finishing
  <2> QED BY <1>0, <1>2, <1>3, <1>6, <2>2, QuietStep
<1> QED BY <1>1, <1>4, <1>5, <1>6 DEF ExitOrWait

LEMMA RecvRefines ==
  ASSUME DInv, DInv', NEW p \in Procs, RecvLock(p) \/ RecvWake(p)
  PROVE  \/ Channels!Take(p) \/ Channels!RecvFails(p) \/ Channels!Deadlock(p)
         \/ UNCHANGED Channels!vars
<1>0. IInv /\ OnlyOf(p) /\ pc[p] \in {"recvLock", "recvWait"}
      /\ UNCHANGED <<req, pipe, thread, header>>
  <2>1. IInv /\ IInv'
    BY DEF DInv
  <2>2. OnlyOf(p)
    BY <2>1, RecvLockFits, RecvWakeFits
  <2> QED BY <2>1, <2>2 DEF RecvLock, RecvWake, pipes, reader
<1>1. \/ Matching(p) # {} /\ ExitWith(p, First(Matching(p)))
      \/ /\ req[p].tag # MIMPI_ANY_TAG => Matching(p) = {}
         /\ \E target : ExitOrWait(p, target)
  <2>1. CASE RecvLock(p)
    BY <2>1 DEF RecvLock
  <2>2. CASE RecvWake(p)
    <3>1. req[p].tag # MIMPI_ANY_TAG /\ Matching(p) # {} => found[p][req[p].peer]
      BY <1>0, <2>2 DEF IInv, Local, WaitFits, RecvWake
    <3> QED BY <2>2, <3>1 DEF RecvWake
  <2> QED BY <2>1, <2>2
<1>2. CASE Matching(p) # {} /\ ExitWith(p, First(Matching(p)))
  BY <1>0, <1>2, RecvTakes
<1>3. CASE /\ req[p].tag # MIMPI_ANY_TAG => Matching(p) = {}
           /\ \E target : ExitOrWait(p, target)
  <2>1. PICK target : ExitOrWait(p, target)
    BY <1>3
  <2> QED BY <1>0, <1>3, <2>1, RecvEndsOrWaits
<1> QED BY <1>1, <1>2, <1>3

\* The detector is told that the Recv is over: the call had its result before.
LEMMA RecvTellRefines ==
  ASSUME DInv, DInv', NEW p \in Procs, RecvTell(p)
  PROVE  UNCHANGED Channels!vars
<1>0. IInv /\ TypeOK /\ TypeOK' /\ CallTypes /\ OnlyOf(p) /\ pc[p] = "recvTell"
      /\ UNCHANGED <<got, pipe, buffers, thread, header>> /\ Return(p, result[p])
  <2>1. IInv /\ IInv'
    BY DEF DInv
  <2>2. OnlyOf(p)
    BY <2>1, RecvTellFits
  <2> QED BY <2>1, <2>2, Types DEF IInv, RecvTell, pipes, reader
<1>1. pc'[p] = "idle" /\ req'[p] = NoCall /\ result' = result
  BY <1>0 DEF Return, Goto, CallTypes
<1>2. Status(p)' = Status(p) /\ Want(p)' = Want(p)
  BY <1>0, <1>1, StatusIs, StatusThen DEF Want
<1>3. ~Finishing(p) /\ ~Finishing(p)'
  BY <1>0, <1>1 DEF Finishing
<1>4. \A q, r \in Procs : InTransit(q, r)' = InTransit(q, r)
  BY <1>0, <1>3, OwnSame, QuietChans
<1> QED BY <1>0, <1>1, <1>2, <1>4, QuietStep

\* Finalize: what p has not received is lost.
LEMMA FinalizeLeaves ==
  ASSUME DInv, DInv', NEW p \in Procs, Finalize(p)
  PROVE  Channels!Leave(p)
<1>0. IInv /\ TypeOK /\ TypeOK' /\ CallTypes /\ OnlyOf(p) /\ pc[p] = "idle"
      /\ UNCHANGED <<req, pipe>> /\ Goto(p, "closeWrite")
      /\ result' = [result EXCEPT ![p] = "none"] /\ got' = [got EXCEPT ![p] = None]
  <2>1. IInv /\ IInv'
    BY DEF DInv
  <2>2. OnlyOf(p)
    BY <2>1, FinalizeFits
  <2> QED BY <2>1, <2>2, Types DEF IInv, Finalize, pipes
<1>1. pc'[p] = "closeWrite"
  BY <1>0 DEF Goto, CallTypes
<1>2. Status(p)' = "left" /\ Want(p)' = Want(p) /\ Finishing(p)' /\ Status(p) = "idle"
  BY <1>0, <1>1, StatusIs, StatusThen DEF Want, Finishing
<1>3. statuses' = [statuses EXCEPT ![p] = "left"] /\ statuses[p] = "idle"
  BY <1>0, <1>2, OneStep
<1>4. wants' = wants
  <2>1. wants' = [wants EXCEPT ![p] = Want(p)] /\ wants[p] = Want(p)
    BY <1>0, <1>2, OneStep
  <2> QED BY <2>1 DEF wants
<1>5. \A q \in Procs : InTransit(q, p)' = <<>>
  BY <1>2 DEF InTransit
<1>6. \A q \in Procs, r \in Procs \ {p} : InTransit(q, r)' = InTransit(q, r)
  BY <1>0, TransitSame DEF OnlyOf
<1>7. chans' = [q \in Procs |-> [chans[q] EXCEPT ![p] = <<>>]]
  BY <1>5, <1>6 DEF chans
<1> QED BY <1>0, <1>3, <1>4, <1>7 DEF Channels!Leave, statuses, wants, chans, Want

\* The steps of Finalize after its first show nothing more to the others.
LEMMA FinishingSteps ==
  ASSUME NEW p \in Procs, OnlyOf(p), Finishing(p), Finishing(p)',
         UNCHANGED <<req, pipe, result, got>>
  PROVE  UNCHANGED Channels!vars
<1>1. Status(p)' = Status(p) /\ Want(p)' = Want(p)
  BY DEF Status, Want, Finishing
<1>2. \A q \in Procs : InTransit(q, p)' = InTransit(q, p)
  BY DEF InTransit
<1> QED BY <1>1, <1>2, QuietChans, QuietStep

LEMMA ClosingRefines ==
  ASSUME DInv, DInv', NEW p \in Procs,
         CloseWrite(p) \/ CloseRead(p) \/ NotifyFinished(p) \/ Join(p)
  PROVE  UNCHANGED Channels!vars
<1>1. IInv /\ IInv' /\ CallTypes
  BY Types DEF DInv, IInv
<1>2. OnlyOf(p)
  BY <1>1, CloseWriteFits, CloseReadFits, NotifyFinishedFits, JoinFits
<1>3. Finishing(p)
  BY DEF Finishing, CloseWrite, CloseRead, NotifyFinished, Join
<1>4. Finishing(p)'
  BY <1>1 DEF CallTypes, Goto, Finishing, CloseWrite, CloseRead, NotifyFinished, Join
<1>5. UNCHANGED <<req, pipe, result, got>>
  BY DEF CloseWrite, CloseRead, NotifyFinished, Join, call, pipes
<1> QED BY <1>2, <1>3, <1>4, <1>5, FinishingSteps
-----------------------------------------------------------------------------
(* The threads of the library *)

\* What a buffer thread moves stays on its way, in the same order.
LEMMA ThreadStep ==
  ASSUME IInv, NEW p \in Procs, NEW q \in Procs, OnlyOf(p),
         UNCHANGED <<pc, req, result, got>>,
         \A x, y \in Procs : x # q \/ y # p => pipe'[x][y] = pipe[x][y],
         \A x \in Procs \ {q} : /\ buffers'[p][x] = buffers[p][x]
                                /\ thread'[p][x] = thread[p][x]
                                /\ header'[p][x] = header[p][x],
         ~Finishing(p) => Held(q, p)' \o Headers(pipe'[q][p]) = Held(q, p) \o Headers(pipe[q][p])
  PROVE  UNCHANGED Channels!vars
<1>1. /\ Status(p)' = Status(p) /\ Want(p)' = Want(p) /\ (Finishing(p)' <=> Finishing(p))
  BY DEF Status, Want, Finishing
<1>2. ASSUME NEW x \in Procs, NEW y \in Procs
      PROVE  InTransit(x, y)' = InTransit(x, y)
  <2>1. CASE y # p
    <3>1. pipe'[x][y] = pipe[x][y] /\ Same(y)
      BY <2>1 DEF OnlyOf
    <3> QED BY <3>1, TransitSame
  <2>2. CASE Finishing(p)
    <3>1. InTransit(x, p) = <<>> /\ InTransit(x, p)' = <<>>
      BY <1>1, <2>2 DEF InTransit
    <3> QED BY <2>1, <3>1
  <2>3. CASE ~Finishing(p)
    <3>1. InTransit(x, p) = Held(x, p) \o Headers(pipe[x][p])
      BY <2>3, TransitIs
    <3>2. InTransit(x, p)' = Held(x, p)' \o Headers(pipe'[x][p])
      BY <1>1, <2>3 DEF InTransit, Held
    <3>3. CASE x = q
      BY <2>1, <2>3, <3>1, <3>2, <3>3
    <3>4. CASE x # q
      <4>1. Held(x, p)' = Held(x, p) /\ pipe'[x][p] = pipe[x][p]
        BY <3>4 DEF Held
      <4> QED BY <2>1, <3>1, <3>2, <4>1
    <3> QED BY <3>3, <3>4
  <2> QED BY <2>1, <2>2, <2>3
<1> QED BY <1>1, <1>2, QuietStep

LEMMA ReadHeaderRefines ==
  ASSUME DInv, DInv', NEW p \in Procs, NEW q \in Peers(p), ReadHeader(p, q)
  PROVE  UNCHANGED Channels!vars
<1>0. IInv /\ IInv' /\ q \in Procs /\ p # q /\ PipeTypes /\ ReaderTypes /\ thread[p][q] = "header"
      /\ pipe[q][p] # <<>> /\ UNCHANGED <<pc, req, result, got, readOpen, buffers>>
  BY Types DEF DInv, IInv, ReadHeader, Peers, call
<1>1. OnlyOf(p)
  BY <1>0, ReadHeaderFits
<1>2. /\ pipe'[q][p] = Tail(pipe[q][p]) /\ header'[p][q] = Head(pipe[q][p])
      /\ \A x, y \in Procs : x # q \/ y # p => pipe'[x][y] = pipe[x][y]
      /\ \A x \in Procs \ {q} : thread'[p][x] = thread[p][x] /\ header'[p][x] = header[p][x]
  BY <1>0 DEF ReadHeader, NextBlock, ThreadAt, PipeTypes, ReaderTypes
<1>3. ASSUME ~Finishing(p)
      PROVE  Held(q, p)' \o Headers(pipe'[q][p]) = Held(q, p) \o Headers(pipe[q][p])
  <2>1. q \in readOpen[p]
    BY <1>0, <1>3 DEF IInv, Local, OpenFits
  <2>2. thread'[p][q] \in {"entry", "data"}
    BY <1>0, <2>1 DEF ReadHeader, ThreadAt, ReaderTypes
  <2>3. PICK s \in Seq(Blocks) : s = pipe[q][p]
    BY <1>0, TransitTypes
  <2>4. Framed(s, 0, Unsent(q, p)) /\ s # <<>>
    BY <1>0, <2>3 DEF IInv, StreamsFit, HasReader, Begun
  <2>5. Head(s) \in Messages
    BY <2>4, FramedTail DEF Blocks
  <2>6. PICK m \in Messages : m = Head(s)
    BY <2>5
  <2>7. m # More
    BY FrameConstants
  <2>8. Tail(s) \in Seq(Blocks)
    BY <2>4
  <2>9. PICK hs \in Seq(Messages) : hs = Headers(Tail(s))
    BY <2>8, HeadersType
  <2>10. Headers(s) = <<m>> \o hs
    BY <2>4, <2>6, <2>7, <2>9, HeadersTail
  <2>11. PICK b \in Seq(Messages) : b = buffers[p][q]
    BY <1>0, TransitTypes
  <2>12. Held(q, p) = b \o <<>> /\ Held(q, p)' = b \o <<m>>
    BY <1>0, <1>2, <2>2, <2>3, <2>6, <2>11 DEF Held
  <2>13. (b \o <<m>>) \o hs = (b \o <<>>) \o (<<m>> \o hs)
    OBVIOUS
  <2> QED BY <1>2, <2>3, <2>9, <2>10, <2>12, <2>13
<1> QED BY <1>0, <1>1, <1>2, <1>3, ThreadStep

LEMMA ReadDataRefines ==
  ASSUME DInv, DInv', NEW p \in Procs, NEW q \in Peers(p), ReadData(p, q)
  PROVE  UNCHANGED Channels!vars
<1>0. IInv /\ IInv' /\ q \in Procs /\ p # q /\ PipeTypes /\ ReaderTypes /\ thread[p][q] = "data"
      /\ pipe[q][p] # <<>> /\ UNCHANGED <<pc, req, result, got, readOpen, header, buffers>>
  BY Types DEF DInv, IInv, ReadData, Peers, call
<1>1. OnlyOf(p)
  BY <1>0, ReadDataFits
<1>2. /\ pipe'[q][p] = Tail(pipe[q][p])
      /\ \A x, y \in Procs : x # q \/ y # p => pipe'[x][y] = pipe[x][y]
      /\ \A x \in Procs \ {q} : thread'[p][x] = thread[p][x]
  BY <1>0 DEF ReadData, ThreadAt, PipeTypes, ReaderTypes
<1>3. ASSUME ~Finishing(p)
      PROVE  Held(q, p)' \o Headers(pipe'[q][p]) = Held(q, p) \o Headers(pipe[q][p])
  <2>1. q \in readOpen[p]
    BY <1>0, <1>3 DEF IInv, Local, OpenFits
  <2>2. thread'[p][q] \in {"entry", "data"}
    BY <1>0, <2>1 DEF ReadData, ThreadAt, ReaderTypes
  <2>3. PICK s \in Seq(Blocks) : s = pipe[q][p]
    BY <1>0, TransitTypes
  <2>4. PICK a : a = missing[p][q]
    OBVIOUS
  <2>5. Framed(s, a, Unsent(q, p)) /\ s # <<>> /\ a > 0 /\ a \in Nat
    BY <1>0, <2>3, <2>4 DEF IInv, StreamsFit, HasReader, Begun, Local, ReadersFit, ReaderTypes
  <2>6. Head(s) = More
    BY <2>5, FramedTail DEF Blocks
  <2>7. Headers(Tail(s)) = Headers(s)
    BY <2>5, <2>6, HeadersTailMore
  <2>8. Held(q, p)' = Held(q, p)
    BY <1>0, <2>2 DEF Held
  <2> QED BY <1>2, <2>3, <2>7, <2>8
<1> QED BY <1>0, <1>1, <1>2, <1>3, ThreadStep

LEMMA ReadEndRefines ==
  ASSUME DInv, DInv', NEW p \in Procs, NEW q \in Peers(p), ReadEnd(p, q)
  PROVE  UNCHANGED Channels!vars
<1>0. IInv /\ IInv' /\ q \in Procs /\ ReaderTypes
      /\ UNCHANGED <<pc, req, result, got, pipe, header, buffers>>
  BY Types DEF DInv, IInv, ReadEnd, Peers, call, pipes
<1>1. OnlyOf(p) /\ thread[p][q] = "header"
  BY <1>0, ReadEndFits, EndBetween
<1>2. /\ thread'[p][q] \in {"dead", "wake"}
      /\ \A x \in Procs \ {q} : thread'[p][x] = thread[p][x]
  BY <1>0 DEF ReadEnd, ThreadAt, ReaderTypes
<1>3. Held(q, p)' = Held(q, p)
  BY <1>0, <1>1, <1>2 DEF Held
<1> QED BY <1>0, <1>1, <1>2, <1>3, ThreadStep

LEMMA WakeRefines ==
  ASSUME DInv, DInv', NEW p \in Procs, NEW q \in Peers(p), wake_recv_uncond(p, q)
  PROVE  UNCHANGED Channels!vars
<1>0. IInv /\ IInv' /\ q \in Procs /\ ReaderTypes /\ thread[p][q] = "wake"
      /\ UNCHANGED <<pc, req, result, got, pipe, header, buffers>>
  BY Types DEF DInv, IInv, wake_recv_uncond, Peers, call, pipes
<1>1. OnlyOf(p)
  BY <1>0, WakeFits
<1>2. /\ thread'[p][q] = "dead"
      /\ \A x \in Procs \ {q} : thread'[p][x] = thread[p][x]
  BY <1>0 DEF wake_recv_uncond, ThreadAt, ReaderTypes
<1>3. Held(q, p)' = Held(q, p)
  BY <1>0, <1>2 DEF Held
<1> QED BY <1>0, <1>1, <1>2, <1>3, ThreadStep

LEMMA AddEntryRefines ==
  ASSUME DInv, DInv', NEW p \in Procs, NEW q \in Peers(p), AddEntry(p, q)
  PROVE  UNCHANGED Channels!vars
<1>0. IInv /\ IInv' /\ q \in Procs /\ ReaderTypes /\ BufferTypes /\ thread[p][q] = "entry"
      /\ UNCHANGED <<pc, req, result, got, pipe>>
      /\ buffers' = [buffers EXCEPT ![p][q] = Append(@, header[p][q])]
      /\ header' = [header EXCEPT ![p][q] = None]
  BY Types DEF DInv, IInv, AddEntry, Peers, call, pipes
<1>1. OnlyOf(p)
  BY <1>0, AddEntryFits
<1>2. /\ thread'[p][q] \in {"dead", "header"}
      /\ \A x \in Procs \ {q} : thread'[p][x] = thread[p][x]
  BY <1>0 DEF AddEntry, ThreadAt, ReaderTypes
<1>3. /\ buffers'[p][q] = Append(buffers[p][q], header[p][q])
      /\ \A x \in Procs \ {q} : buffers'[p][x] = buffers[p][x] /\ header'[p][x] = header[p][x]
  BY <1>0 DEF BufferTypes, ReaderTypes
<1>4. Held(q, p)' = Held(q, p)
  <2>1. PICK b \in Seq(Messages) : b = buffers[p][q]
    BY <1>0, TransitTypes
  <2>2. PICK m \in Messages : m = header[p][q]
    BY <1>0 DEF IInv, Local, ReadersFit
  <2>3. Held(q, p) = b \o <<m>>
    BY <1>0, <2>1, <2>2 DEF Held
  <2>4. Held(q, p)' = Append(b, m) \o <<>>
    BY <1>2, <1>3, <2>1, <2>2 DEF Held
  <2>5. Append(b, m) \o <<>> = b \o <<m>>
    OBVIOUS
  <2> QED BY <2>3, <2>4, <2>5
<1> QED BY <1>0, <1>1, <1>2, <1>3, <1>4, ThreadStep

\* The watchdogs and the detector move no message.
LEMMA NothingMoves ==
  ASSUME UNCHANGED <<pc, call, pipes, reader, buffers>>
  PROVE  UNCHANGED Channels!vars
<1>1. UNCHANGED <<pc, req, result, got, pipe, buffers, thread, header>>
  BY DEF call, pipes, reader
<1>2. \A r \in Procs : /\ Status(r)' = Status(r) /\ Want(r)' = Want(r)
                       /\ (Finishing(r)' <=> Finishing(r))
  BY <1>1 DEF Status, Want, Finishing
<1>3. \A q, r \in Procs : InTransit(q, r)' = InTransit(q, r)
  BY <1>1, <1>2, OwnSame
<1> QED BY <1>1, <1>2, <1>3, NoStep
-----------------------------------------------------------------------------
(* The refinement *)

LEMMA ProgramRefines ==
  ASSUME DInv, DInv', NEW p \in Procs, Program(p) \/ RecvWake(p)
  PROVE  [Channels!Next]_(Channels!vars)
<1>1. CASE Call(p)
  BY <1>1, CallCalls DEF Channels!Next
<1>2. CASE SendCheck(p)
  BY <1>2, SendCheckRefines DEF Channels!Next
<1>3. CASE SendFirst(p)
  BY <1>3, SendFirstPuts DEF Channels!Next
<1>4. CASE SendMore(p)
  BY <1>4, SendMoreRefines DEF Channels!Next
<1>5. CASE SendBroken(p)
  BY <1>5, SendBrokenRefines DEF Channels!Next
<1>6. CASE RecvLock(p) \/ RecvWake(p)
  BY <1>6, RecvRefines DEF Channels!Next
<1>7. CASE RecvTell(p)
  BY <1>7, RecvTellRefines
<1>8. CASE Finalize(p)
  BY <1>8, FinalizeLeaves DEF Channels!Next
<1>9. CASE CloseWrite(p) \/ CloseRead(p) \/ NotifyFinished(p) \/ Join(p)
  BY <1>9, ClosingRefines
<1> QED BY <1>1, <1>2, <1>3, <1>4, <1>5, <1>6, <1>7, <1>8, <1>9 DEF Program

\* Every step is one of the channels, or none.
LEMMA StepRefines ==
  ASSUME DInv, DInv', [Next]_vars
  PROVE  [Channels!Next]_(Channels!vars)
<1>1. CASE \E p \in Procs : Program(p) \/ RecvWake(p)
  BY <1>1, ProgramRefines
<1>2. CASE \E p \in Procs : deadlock_watchdog(p)
  BY <1>2, NothingMoves DEF deadlock_watchdog
<1>3. CASE \E p \in Procs : \E q \in Peers(p) : BufferThread(p, q)
  <2>1. PICK p \in Procs : \E q \in Peers(p) : BufferThread(p, q)
    BY <1>3
  <2>2. PICK q \in Peers(p) : BufferThread(p, q)
    BY <2>1
  <2> QED BY <2>2, ReadHeaderRefines, ReadDataRefines, ReadEndRefines, WakeRefines,
             AddEntryRefines DEF BufferThread
<1>4. CASE UNCHANGED library
  BY <1>4, NothingMoves DEF library
<1> QED BY <1>1, <1>2, <1>3, <1>4 DEF Next, Terminated, vars

LEMMA InitRefines == Init => Channels!Init
<1> SUFFICES ASSUME Init PROVE Channels!Init
  OBVIOUS
<1>1. \A p \in Procs : pc[p] = "idle" /\ req[p] = NoCall
  BY DEF Init
<1>2. \A p \in Procs : Status(p) = "idle" /\ Want(p) = NoCall
  BY <1>1 DEF Status, Want, Finishing
<1>3. statuses = [p \in Procs |-> "idle"] /\ wants = [p \in Procs |-> NoCall]
  BY <1>2 DEF statuses, wants
<1>4. ASSUME NEW q \in Procs, NEW p \in Procs PROVE InTransit(q, p) = <<>>
  <2>1. buffers[p][q] = <<>> /\ pipe[q][p] = <<>> /\ thread[p][q] \in {"header", "dead"}
    BY DEF Init, PairOf
  <2>2. InTransit(q, p) = <<>> \o <<>> \o <<>>
    BY <1>1, <2>1, HeadersEmpty DEF InTransit, Finishing
  <2> QED BY <2>2
<1>5. chans = [p \in Procs |-> [q \in Procs |-> <<>>]]
  BY <1>4 DEF chans
<1>6. Channels!NoCall = NoCall
  BY DEF Channels!NoCall, NoCall
<1>7. result = [p \in Procs |-> "none"] /\ got = [p \in Procs |-> None]
  BY DEF Init
<1> QED BY <1>3, <1>5, <1>6, <1>7 DEF Channels!Init, statuses, wants, chans, Want

\* DeliversMessages: for any number of processes and any sizes of pipes and messages,
\* what the pipes, the buffer threads and the wake-ups do is what MIMPI_Send and
\* MIMPI_Recv promise.
THEOREM Delivery == Spec => DeliversMessages
<1>1. DInv /\ DInv' /\ [Next]_vars => [Channels!Next]_(Channels!vars)
  BY StepRefines
<1>2. Spec => Channels!Spec
  BY <1>1, InitRefines, EndsInit, DeliveryInvariance, PTL DEF Spec, Channels!Spec
<1> QED BY <1>2 DEF DeliversMessages
=============================================================================
