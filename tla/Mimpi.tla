-------------------------------- MODULE Mimpi --------------------------------
(***************************************************************************)
(* MIMPI point to point (PW/projekt2, mimpi.c): between any two processes  *)
(* there are two pipes of bounded size.  In each process the program calls *)
(* MIMPI_Send, MIMPI_Recv and MIMPI_Finalize, one buffer thread per peer   *)
(* moves the messages of that peer from the pipe into a list, and a        *)
(* watchdog listens to the deadlock detector of Mimpirun.                  *)
(*                                                                         *)
(* A pipe holds blocks: a header, or one more block of the data of a       *)
(* message.  A message has count blocks after its header; a message that   *)
(* fits into one block with its header is one whose blocks are written     *)
(* without a step between them.  A critical section under the mutex of a   *)
(* buffer is one step.  Calls with a bad rank return at once and change    *)
(* nothing; they are left out.                                             *)
(***************************************************************************)
EXTENDS Mimpirun, FiniteSets, FiniteSetsExt, SequencesExt, TLC

CONSTANTS
  Sends,       \* the tags and sizes MIMPI_Send is called with
  Receives,    \* the tags and sizes MIMPI_Recv is called with
  PipeSize,    \* bound: blocks a pipe holds
  MaxCalls,    \* bound: MaxCalls[p] calls of Send and Recv in process p
  None

MIMPI_ANY_TAG == 0

ASSUME MimpiAssumption ==
  /\ N \in Nat /\ N >= 2
  /\ Detection \in BOOLEAN
  /\ Sends \subseteq [tag : Int \ {MIMPI_ANY_TAG}, count : Nat]
  /\ Receives \subseteq [tag : Int, count : Nat]
  /\ PipeSize \in Nat \ {0} /\ MaxCalls \in [Procs -> Nat]
  /\ None \notin Int

VARIABLES
  pc,          \* pc[p]: where the program of p stands in the library
  req,         \* req[p]: the arguments of the call it runs
  calls,       \* calls[p]: how many calls it has made
  left,        \* left[p]: blocks MIMPI_Send still has to write
  result,      \* result[p], got[p]: what the last call returned
  got,
  pipe,        \* pipe[p][q]: the blocks p has written and q has not read
  writeOpen,   \* writeOpen[p]: the peers to which p has its pipe open
  readOpen,    \* readOpen[p]: the peers from which p has its pipe open
  thread,      \* thread[p][q]: where the buffer thread of p for q stands
  header,      \* header[p][q]: the header that thread has read
  missing,     \* missing[p][q]: blocks that thread still has to read
  buffers,     \* buffers[p][q]: the list of received messages
  update,      \* update[p][q]: tag and count_target of buffer_update
  found,       \* found[p][q], deadlock[p][q]: the other fields
  deadlock,
  signal,      \* signal[p]: the condition p waits for has been signalled
  done,        \* done[p]: global.states
  watchdog     \* watchdog[p]: where the deadlock watchdog stands

call   == <<req, calls, left, result, got>>
pipes  == <<pipe, writeOpen, readOpen>>
reader == <<thread, header, missing>>
cond   == <<update, found, deadlock, signal>>
library == <<pc, call, pipes, reader, buffers, cond, done, watchdog>>
vars   == <<library, detector>>

Peers(p) == Procs \ {p}

PairOf(x) == [p \in Procs |-> [q \in Procs |-> x]]

NoWait == [tag |-> None, count |-> None]
NoCall == [peer |-> None, tag |-> None, count |-> None, id |-> None]
More   == [tag |-> None, count |-> None, id |-> None]

Header(p) == [tag |-> req[p].tag, count |-> req[p].count, id |-> req[p].id]

Finishing(p) ==
  pc[p] \in {"closeWrite", "closeRead", "notifyFinished", "join", "finished"}

\* A read that had begun when the descriptor was closed keeps the pipe alive.
HasReader(p, q) == q \in readOpen[p] \/ thread[p][q] \in {"header", "data"}

Init ==
  /\ pc = [p \in Procs |-> "idle"]
  /\ req = [p \in Procs |-> NoCall]
  /\ calls = [p \in Procs |-> 0]
  /\ left = [p \in Procs |-> 0]
  /\ result = [p \in Procs |-> "none"]
  /\ got = [p \in Procs |-> None]
  /\ pipe = PairOf(<<>>)
  /\ writeOpen = [p \in Procs |-> Peers(p)]
  /\ readOpen = [p \in Procs |-> Peers(p)]
  /\ thread = [p \in Procs |-> [q \in Procs |-> IF p = q THEN "dead" ELSE "header"]]
  /\ header = PairOf(None)
  /\ missing = PairOf(0)
  /\ buffers = PairOf(<<>>)
  /\ update = PairOf(NoWait)
  /\ found = PairOf(FALSE)
  /\ deadlock = PairOf(FALSE)
  /\ signal = [p \in Procs |-> FALSE]
  /\ done = [p \in Procs |-> {}]
  /\ watchdog = [p \in Procs |-> IF Detection THEN "read" ELSE "dead"]
  /\ DetectorInit

Goto(p, place) == pc' = [pc EXCEPT ![p] = place]

Return(p, res) ==
  /\ Goto(p, "idle")
  /\ result' = [result EXCEPT ![p] = res]
  /\ req' = [req EXCEPT ![p] = NoCall]
-----------------------------------------------------------------------------
(* The program *)

\* The program calls MIMPI_Send or MIMPI_Recv.
Call(p) ==
  /\ pc[p] = "idle"
  /\ calls[p] < MaxCalls[p]
  /\ calls' = [calls EXCEPT ![p] = @ + 1]
  /\ \E q \in Peers(p), kind \in Sends \cup Receives :
       /\ req' = [req EXCEPT ![p] = [peer |-> q, tag |-> kind.tag, count |-> kind.count,
                                     id |-> calls[p]]]
       /\ \/ kind \in Sends /\ Goto(p, "sendCheck")
          \/ kind \in Receives /\ Goto(p, "recvLock")
  /\ result' = [result EXCEPT ![p] = "none"]
  /\ got' = [got EXCEPT ![p] = None]
  /\ UNCHANGED <<left, pipes, reader, buffers, cond, done, watchdog, detector>>

\* is_proc_done(destination)
SendCheck(p) ==
  /\ pc[p] = "sendCheck"
  /\ IF req[p].peer \in done[p]
       THEN Return(p, "REMOTE_FINISHED")
       ELSE Goto(p, "sendFirst") /\ UNCHANGED <<req, result>>
  /\ UNCHANGED <<calls, left, got, pipes, reader, buffers, cond, done, watchdog,
                 detector>>

\* chsend: it blocks while the pipe is full and fails once nobody can read it.
Write(p, block) ==
  LET q == req[p].peer IN
  /\ HasReader(q, p)
  /\ Len(pipe[p][q]) < PipeSize
  /\ pipe' = [pipe EXCEPT ![p][q] = Append(@, block)]

SendFirst(p) ==
  /\ pc[p] = "sendFirst"
  /\ Write(p, Header(p))
  /\ left' = [left EXCEPT ![p] = req[p].count]
  /\ IF req[p].count = 0 THEN Return(p, "SUCCESS")
                         ELSE Goto(p, "sendMore") /\ UNCHANGED <<req, result>>
  /\ UNCHANGED <<calls, got, writeOpen, readOpen, reader, buffers, cond, done,
                 watchdog, detector>>

SendMore(p) ==
  /\ pc[p] = "sendMore"
  /\ Write(p, More)
  /\ left' = [left EXCEPT ![p] = @ - 1]
  /\ IF left[p] = 1 THEN Return(p, "SUCCESS") ELSE UNCHANGED <<pc, req, result>>
  /\ UNCHANGED <<calls, got, writeOpen, readOpen, reader, buffers, cond, done,
                 watchdog, detector>>

\* EPIPE
SendBroken(p) ==
  /\ pc[p] \in {"sendFirst", "sendMore"}
  /\ ~HasReader(req[p].peer, p)
  /\ left' = [left EXCEPT ![p] = 0]
  /\ Return(p, "REMOTE_FINISHED")
  /\ UNCHANGED <<calls, got, pipes, reader, buffers, cond, done, watchdog,
                 detector>>

ok_tag(tag, filter) == tag = filter \/ (filter = MIMPI_ANY_TAG /\ tag > 0)

\* The places of the messages pop may return, and the one it returns.
Matching(p) ==
  {i \in 1..Len(buffers[p][req[p].peer]) :
     LET m == buffers[p][req[p].peer][i]
     IN  ok_tag(m.tag, req[p].tag) /\ m.count = req[p].count}

\* Fault: the newest matching message is returned.
FirstLast(S) == Max(S)

First(S) == Min(S)

\* The rest of MIMPI_Recv after the loop, up to the unlock.
Exit(p, res) ==
  LET q == req[p].peer IN
  /\ update' = [update EXCEPT ![p][q] = NoWait]
  /\ deadlock' = [deadlock EXCEPT ![p][q] = FALSE]
  /\ signal' = [signal EXCEPT ![p] = FALSE]
  /\ result' = [result EXCEPT ![p] = res]
  /\ Goto(p, "recvTell")

\* pop() has found a message.
ExitWith(p, i) ==
  LET q == req[p].peer IN
  /\ got' = [got EXCEPT ![p] = buffers[p][q][i]]
  /\ buffers' = [buffers EXCEPT ![p][q] = RemoveAt(@, i)]
  /\ Exit(p, "SUCCESS")

\* pop() has found nothing: the conditions of the loop, then lines 506-516.
ExitOrWait(p, target) ==
  LET q == req[p].peer IN
  /\ \/ /\ deadlock[p][q]
        /\ Exit(p, "DEADLOCK_DETECTED")
     \/ /\ ~deadlock[p][q] /\ q \in done[p]
        /\ Exit(p, "REMOTE_FINISHED")
     \/ /\ ~deadlock[p][q] /\ q \notin done[p]
        /\ update' = [update EXCEPT ![p][q] = target]
        /\ signal' = [signal EXCEPT ![p] = FALSE]
        /\ Goto(p, "recvWait")
        /\ UNCHANGED <<deadlock, result>>
  /\ UNCHANGED <<got, buffers>>

\* MIMPI_Recv up to its first wait.
RecvLock(p) ==
  /\ pc[p] = "recvLock"
  /\ LET q == req[p].peer IN
     /\ found' = [found EXCEPT ![p][q] = FALSE]
     /\ IF Matching(p) # {}
          THEN ExitWith(p, First(Matching(p))) /\ UNCHANGED requests
          ELSE /\ Notify(p, req[p].peer)
               /\ ExitOrWait(p, [tag |-> req[p].tag, count |-> req[p].count])
  /\ UNCHANGED <<req, calls, left, pipes, reader, done, watchdog, wait_table, reports>>

\* pthread_cond_wait returns, because of a signal or spuriously.
RecvWake(p) ==
  /\ pc[p] = "recvWait"
  /\ LET q == req[p].peer IN
     IF found[p][q] /\ Matching(p) # {}
       THEN ExitWith(p, First(Matching(p)))
       ELSE ExitOrWait(p, update[p][q])
  /\ UNCHANGED <<req, calls, left, pipes, reader, found, done, watchdog, detector>>

\* notify_deadlock(DEADLOCK_NO_WAIT), and the return to the program.
RecvTell(p) ==
  /\ pc[p] = "recvTell"
  /\ Notify(p, DEADLOCK_NO_WAIT)
  /\ Return(p, result[p])
  /\ UNCHANGED <<calls, left, got, pipes, reader, buffers, cond, done, watchdog, wait_table, reports>>

\* MIMPI_Finalize: finishing is set.
Finalize(p) ==
  /\ pc[p] = "idle"
  /\ Goto(p, "closeWrite")
  /\ result' = [result EXCEPT ![p] = "none"]
  /\ got' = [got EXCEPT ![p] = None]
  /\ UNCHANGED <<req, calls, left, pipes, reader, buffers, cond, done, watchdog, detector>>

\* The pipes are closed peer by peer, in the order of the ranks.
CloseWrite(p) ==
  /\ pc[p] = "closeWrite"
  /\ writeOpen' = [writeOpen EXCEPT ![p] = @ \ {Min(@)}]
  /\ Goto(p, "closeRead")
  /\ UNCHANGED <<call, pipe, readOpen, reader, buffers, cond, done, watchdog, detector>>

\* A buffer thread that is between two reads finds finishing set, or a closed
\* descriptor, and ends; one that is inside a read stays there.
CloseRead(p) ==
  /\ pc[p] = "closeRead"
  /\ LET q == Min(readOpen[p]) IN
     /\ readOpen' = [readOpen EXCEPT ![p] = @ \ {q}]
     /\ \/ UNCHANGED reader
        \/ /\ thread[p][q] \in {"header", "data"}
           /\ thread' = [thread EXCEPT ![p][q] = "dead"]
           /\ header' = [header EXCEPT ![p][q] = None]
           /\ missing' = [missing EXCEPT ![p][q] = 0]
     /\ Goto(p, IF readOpen[p] = {q} THEN "notifyFinished" ELSE "closeWrite")
  /\ UNCHANGED <<call, pipe, writeOpen, buffers, cond, done, watchdog, detector>>

\* DEADLOCK_FINISHED is sent and the descriptors of the detector are closed.
NotifyFinished(p) ==
  /\ pc[p] = "notifyFinished"
  /\ Notify(p, DEADLOCK_FINISHED)
  /\ \E w \in {watchdog[p], "dead"} : watchdog' = [watchdog EXCEPT ![p] = w]
  /\ Goto(p, "join")
  /\ UNCHANGED <<call, pipes, reader, buffers, cond, done, wait_table, reports>>

\* The threads are joined and the buffers freed.
Join(p) ==
  /\ pc[p] = "join"
  /\ watchdog[p] = "dead" /\ \A q \in Procs : thread[p][q] = "dead"
  /\ buffers' = [buffers EXCEPT ![p] = [q \in Procs |-> <<>>]]
  /\ Goto(p, "finished")
  /\ UNCHANGED <<call, pipes, reader, cond, done, watchdog, detector>>

\* All processes have left: mimpirun ends.
Terminated ==
  /\ \A p \in Procs : pc[p] = "finished"
  /\ UNCHANGED vars
-----------------------------------------------------------------------------
(* The buffer threads and the watchdog *)

NextBlock(p, q) == Head(pipe[q][p])

ThreadAt(p, q, place) == thread' = [thread EXCEPT ![p][q] = place]

ReadHeader(p, q) ==
  /\ thread[p][q] = "header"
  /\ pipe[q][p] # <<>>
  /\ pipe' = [pipe EXCEPT ![q][p] = Tail(@)]
  /\ header' = [header EXCEPT ![p][q] = NextBlock(p, q)]
  /\ missing' = [missing EXCEPT ![p][q] = NextBlock(p, q).count]
  /\ ThreadAt(p, q, IF NextBlock(p, q).count = 0 THEN "entry"
                    ELSE IF q \in readOpen[p] THEN "data" ELSE "dead")
  /\ UNCHANGED <<pc, call, writeOpen, readOpen, buffers, cond, done, watchdog, detector>>

ReadData(p, q) ==
  /\ thread[p][q] = "data"
  /\ pipe[q][p] # <<>>
  /\ pipe' = [pipe EXCEPT ![q][p] = Tail(@)]
  /\ missing' = [missing EXCEPT ![p][q] = @ - 1]
  /\ ThreadAt(p, q, IF missing[p][q] = 1 THEN "entry"
                    ELSE IF q \in readOpen[p] THEN "data" ELSE "dead")
  /\ UNCHANGED <<pc, call, writeOpen, readOpen, header, buffers, cond, done, watchdog,
                 detector>>

\* The end of the pipe: the other process has closed it, or this one finishes.
ReadEnd(p, q) ==
  /\ thread[p][q] \in {"header", "data"}
  /\ pipe[q][p] = <<>> /\ p \notin writeOpen[q]
  /\ IF Finishing(p)
       THEN ThreadAt(p, q, "dead") /\ UNCHANGED done
       ELSE /\ done' = [done EXCEPT ![p] = @ \cup {q}]
            /\ ThreadAt(p, q, "wake")
  /\ UNCHANGED <<pc, call, pipes, header, missing, buffers, cond, watchdog, detector>>

\* A condition that nobody waits for forgets the signal.
Signal(p, q) ==
  signal' = [signal EXCEPT ![p] = @ \/ (pc[p] = "recvWait" /\ req[p].peer = q)]

\* Fault: the flag is set without a signal.
WakeRecvUncondNot(p, q) ==
  /\ thread[p][q] = "wake"
  /\ found' = [found EXCEPT ![p][q] = TRUE]
  /\ ThreadAt(p, q, "dead")
  /\ UNCHANGED <<pc, call, pipes, header, missing, buffers, update, deadlock, signal,
                 done, watchdog, detector>>

wake_recv_uncond(p, q) ==
  /\ thread[p][q] = "wake"
  /\ found' = [found EXCEPT ![p][q] = TRUE]
  /\ Signal(p, q)
  /\ ThreadAt(p, q, "dead")
  /\ UNCHANGED <<pc, call, pipes, header, missing, buffers, update, deadlock, done,
                 watchdog, detector>>

\* The entry is appended; a Recv that waits for this tag and size is woken.
AddEntry(p, q) ==
  /\ thread[p][q] = "entry"
  /\ buffers' = [buffers EXCEPT ![p][q] = Append(@, header[p][q])]
  /\ IF update[p][q] = [tag |-> header[p][q].tag, count |-> header[p][q].count]
       THEN found' = [found EXCEPT ![p][q] = TRUE] /\ Signal(p, q)
       ELSE UNCHANGED <<found, signal>>
  /\ ThreadAt(p, q, IF Finishing(p) THEN "dead" ELSE "header")
  /\ header' = [header EXCEPT ![p][q] = None]
  /\ UNCHANGED <<pc, call, pipes, missing, update, deadlock, done, watchdog,
                 detector>>

deadlock_watchdog(p) ==
  /\ watchdog[p] = "read"
  /\ reports[p] # <<>>
  /\ reports' = [reports EXCEPT ![p] = Tail(@)]
  /\ LET rank == Head(reports[p]) IN
     IF rank = DEADLOCK_FINISHED
       THEN /\ watchdog' = [watchdog EXCEPT ![p] = "dead"]
            /\ UNCHANGED <<deadlock, signal>>
       ELSE /\ deadlock' = [deadlock EXCEPT ![p][rank] = TRUE]
            /\ Signal(p, rank)
            /\ watchdog' = [watchdog EXCEPT ![p] = IF Finishing(p) THEN "dead" ELSE @]
  /\ UNCHANGED <<pc, call, pipes, reader, buffers, update, found, done, wait_table,
                 requests>>
-----------------------------------------------------------------------------
\* The steps of the program that do not depend on a spurious wake-up.
Program(p) ==
  \/ Call(p) \/ SendCheck(p) \/ SendFirst(p) \/ SendMore(p) \/ SendBroken(p)
  \/ RecvLock(p) \/ (signal[p] /\ RecvWake(p)) \/ RecvTell(p)
  \/ Finalize(p) \/ CloseWrite(p) \/ CloseRead(p) \/ NotifyFinished(p) \/ Join(p)

BufferThread(p, q) ==
  \/ ReadHeader(p, q) \/ ReadData(p, q) \/ ReadEnd(p, q) \/ wake_recv_uncond(p, q)
  \/ AddEntry(p, q)

Next ==
  \/ \E p \in Procs : \/ Program(p) \/ RecvWake(p) \/ deadlock_watchdog(p)
                      \/ \E q \in Peers(p) : BufferThread(p, q)
  \/ Detect /\ UNCHANGED library
  \/ Terminated

Spec == Init /\ [][Next]_vars

\* Every thread is scheduled, and every program leaves its MPI block in the end:
\* after MaxCalls[p] calls it can only call MIMPI_Finalize.
FairSpec ==
  /\ Spec
  /\ \A p \in Procs :
       /\ WF_vars(Program(p))
       /\ WF_vars(deadlock_watchdog(p))
       /\ \A q \in Peers(p) : WF_vars(BufferThread(p, q))
  /\ WF_vars(Detect /\ UNCHANGED library)
-----------------------------------------------------------------------------
Ids == UNION {0..MaxCalls[p] : p \in Procs}

Messages == {[tag |-> kind.tag, count |-> kind.count, id |-> i] : kind \in Sends, i \in Ids}

\* The variables of mimpi.c keep their types.
TypeOK ==
  /\ pc \in [Procs -> {"idle", "sendCheck", "sendFirst", "sendMore", "recvLock",
                       "recvWait", "recvTell", "closeWrite", "closeRead",
                       "notifyFinished", "join", "finished"}]
  /\ req \in [Procs -> {NoCall} \cup 
                   [peer : Procs, tag : Int, count : Nat, id : Ids]]
  /\ calls \in [Procs -> Ids]
  /\ left \in [Procs -> Nat]
  /\ result \in [Procs -> {"none", "SUCCESS", "REMOTE_FINISHED", "DEADLOCK_DETECTED"}]
  /\ got \in [Procs -> Messages \cup {None}]
  /\ pipe \in [Procs -> [Procs -> Seq(Messages \cup {More})]]
  /\ writeOpen \in [Procs -> SUBSET Procs] /\ readOpen \in [Procs -> SUBSET Procs]
  /\ thread \in [Procs -> [Procs -> {"header", "data", "entry", "wake", "dead"}]]
  /\ header \in [Procs -> [Procs -> Messages \cup {None}]]
  /\ missing \in [Procs -> [Procs -> Nat]]
  /\ buffers \in [Procs -> [Procs -> Seq(Messages)]]
  /\ update \in [Procs -> [Procs -> {NoWait} \cup Receives]]
  /\ found \in [Procs -> [Procs -> BOOLEAN]]
  /\ deadlock \in [Procs -> [Procs -> BOOLEAN]]
  /\ signal \in [Procs -> BOOLEAN]
  /\ done \in [Procs -> SUBSET Procs]
  /\ watchdog \in [Procs -> {"read", "dead"}]
  /\ DetectorTypeOK

\* The headers among some blocks, in order.
Headers(blocks) ==
  LET places == {i \in 1..Len(blocks) : blocks[i] # More}
      rank(i) == Cardinality({j \in places : j <= i})
  IN  [k \in 1..Cardinality(places) |-> blocks[CHOOSE i \in places : rank(i) = k]]

\* What p has still to receive from q: the list, what the buffer thread holds,
\* and the messages in the pipe.
InTransit(q, p) ==
  IF Finishing(p) THEN <<>>
  ELSE buffers[p][q]
         \o (IF thread[p][q] \in {"data", "entry"} THEN <<header[p][q]>> ELSE <<>>)
         \o Headers(pipe[q][p])

Status(p) ==
  CASE pc[p] \in {"idle", "recvTell"}         -> "idle"
    [] pc[p] \in {"sendCheck", "sendFirst"}   -> "send"
    [] pc[p] = "sendMore"                     -> "put"
    [] pc[p] \in {"recvLock", "recvWait"}     -> "recv"
    [] Finishing(p)                           -> "left"

Channels == INSTANCE MessagePassing WITH
  ANY_TAG <- MIMPI_ANY_TAG, InternalTags <- {kind.tag : kind \in Sends} \ Nat,
  status <- [p \in Procs |-> Status(p)],
  want   <- [p \in Procs |-> IF pc[p] = "recvTell" THEN NoCall ELSE req[p]],
  chan   <- [q \in Procs |-> [p \in Procs |-> InTransit(q, p)]]

\* Through the bounded pipes, the buffer threads and the wake-ups, every message
\* arrives once, whole, and in order among those of its tag and size, and a call
\* fails only for a reason mimpi.h names (MIMPI_Send, MIMPI_Recv, lines 59-104).
DeliversMessages == Channels!Spec

\* A Recv with a tag of its own never sleeps over its message: when it is in the
\* list, or the source is gone, a signal is on its way (the lock of line 490 is
\* held from the look at the list and at global.states to the wait).
NoLostWakeup ==
  /\ TypeOK
  /\ \A p \in Procs :
      pc[p] = "recvWait" =>
        LET q == req[p].peer IN
        /\ req[p].tag # MIMPI_ANY_TAG /\ Matching(p) # {} => found[p][q] /\ signal[p]
        /\ q \in done[p] => signal[p] \/ thread[p][q] = "wake"
        /\ deadlock[p][q] => signal[p]

\* Every call returns: two processes that wait for each other are told so, a
\* process that waits for one that has left is woken, a sender blocked on a full
\* pipe goes on, and MIMPI_Finalize gets all its threads joined.
EveryCallReturns ==
  \A p \in Procs : pc[p] # "idle" ~> pc[p] \in {"idle", "finished"}

\* A message that p waits for is on its way, or there already.
Answered(p) ==
  \E i \in 1..Len(InTransit(req[p].peer, p)) :
    LET m == InTransit(req[p].peer, p)[i]
    IN  ok_tag(m.tag, req[p].tag) /\ m.count = req[p].count

\* MIMPI_ERROR_DEADLOCK_DETECTED means that the call would never return (mimpi.h,
\* lines 96-97): no message for it is on its way.
DeadlockReal ==
  \A p \in Procs :
    pc[p] = "recvTell" /\ result[p] = "DEADLOCK_DETECTED" => ~Answered(p)
=============================================================================
