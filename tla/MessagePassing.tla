--------------------------- MODULE MessagePassing ---------------------------
(***************************************************************************)
(* What MIMPI_Send and MIMPI_Recv promise (PW/projekt2, mimpi.h): between  *)
(* two processes there is a list of messages.  A send adds to it and never *)
(* fails while the destination is in its MPI block.  A receive takes the   *)
(* first message with its tag and size, and fails only when the source has *)
(* left and sent no such message, or when a deadlock was detected.         *)
(***************************************************************************)
EXTENDS Naturals, Sequences, SequencesExt

CONSTANTS Procs, Sends, Receives, Ids, ANY_TAG, InternalTags, Detection, None

VARIABLES
  status,   \* status[p]: what p is doing
  want,     \* want[p]: the arguments of its call
  result,   \* result[p]: what its last call returned
  got,      \* got[p]: the message its last receive returned
  chan      \* chan[p][q]: the messages from p that q has not received

vars == <<status, want, result, got, chan>>

NoCall == [peer |-> None, tag |-> None, count |-> None, id |-> None]

\* ANY_TAG does not match the tags the library uses itself.
Matches(m, tag, count) ==
  /\ m.count = count
  /\ \/ m.tag = tag
     \/ tag = ANY_TAG /\ m.tag \notin InternalTags

Init ==
  /\ status = [p \in Procs |-> "idle"]
  /\ want = [p \in Procs |-> NoCall]
  /\ result = [p \in Procs |-> "none"]
  /\ got = [p \in Procs |-> None]
  /\ chan = [p \in Procs |-> [q \in Procs |-> <<>>]]

Call(p) ==
  /\ status[p] = "idle"
  /\ \E q \in Procs \ {p}, kind \in Sends \cup Receives, i \in Ids :
       /\ want' = [want EXCEPT ![p] = [peer |-> q, tag |-> kind.tag,
                                       count |-> kind.count, id |-> i]]
       /\ \/ kind \in Sends /\ status' = [status EXCEPT ![p] = "send"]
          \/ kind \in Receives /\ status' = [status EXCEPT ![p] = "recv"]
  /\ result' = [result EXCEPT ![p] = "none"]
  /\ got' = [got EXCEPT ![p] = None]
  /\ UNCHANGED chan

Return(p, res) ==
  /\ status' = [status EXCEPT ![p] = "idle"]
  /\ result' = [result EXCEPT ![p] = res]
  /\ want' = [want EXCEPT ![p] = NoCall]

\* The message is on its way; the call may or may not be over.
Put(p) ==
  /\ status[p] = "send"
  /\ LET q == want[p].peer
         m == [tag |-> want[p].tag, count |-> want[p].count, id |-> want[p].id]
     IN  chan' = IF status[q] = "left" THEN chan
                 ELSE [chan EXCEPT ![p][q] = Append(@, m)]
  /\ \/ Return(p, "SUCCESS")
     \/ /\ status' = [status EXCEPT ![p] = "put"]
        /\ UNCHANGED <<want, result>>
  /\ UNCHANGED got

Complete(p) ==
  /\ status[p] = "put"
  /\ Return(p, "SUCCESS")
  /\ UNCHANGED <<got, chan>>

SendFails(p) ==
  /\ status[p] \in {"send", "put"}
  /\ status[want[p].peer] = "left"
  /\ Return(p, "REMOTE_FINISHED")
  /\ UNCHANGED <<got, chan>>

Found(p, i) ==
  LET msgs == chan[want[p].peer][p]
      ok(j) == Matches(msgs[j], want[p].tag, want[p].count)
  IN  ok(i) /\ \A j \in 1..(i - 1) : ~ok(j)

Take(p) ==
  /\ status[p] = "recv"
  /\ LET q == want[p].peer IN
     \E i \in 1..Len(chan[q][p]) :
       /\ Found(p, i)
       /\ got' = [got EXCEPT ![p] = chan[q][p][i]]
       /\ chan' = [chan EXCEPT ![q][p] = RemoveAt(@, i)]
  /\ Return(p, "SUCCESS")

\* With ANY_TAG, which wakes nobody up when the message comes, a spurious
\* wake-up may find the source gone before it looks at the messages.
RecvFails(p) ==
  /\ status[p] = "recv"
  /\ status[want[p].peer] = "left"
  /\ want[p].tag = ANY_TAG \/ ~\E i \in 1..Len(chan[want[p].peer][p]) : Found(p, i)
  /\ Return(p, "REMOTE_FINISHED")
  /\ UNCHANGED <<got, chan>>

Deadlock(p) ==
  /\ status[p] = "recv"
  /\ Detection
  /\ Return(p, "DEADLOCK_DETECTED")
  /\ UNCHANGED <<got, chan>>

\* MIMPI_Finalize is called; what p has not received is lost.
Leave(p) ==
  /\ status[p] = "idle"
  /\ status' = [status EXCEPT ![p] = "left"]
  /\ chan' = [q \in Procs |-> [chan[q] EXCEPT ![p] = <<>>]]
  /\ result' = [result EXCEPT ![p] = "none"]
  /\ got' = [got EXCEPT ![p] = None]
  /\ UNCHANGED want

Next == \E p \in Procs : \/ Call(p) \/ Put(p) \/ Complete(p) \/ SendFails(p) \/ Take(p)
                         \/ RecvFails(p) \/ Deadlock(p) \/ Leave(p)

Spec == Init /\ [][Next]_vars
=============================================================================
