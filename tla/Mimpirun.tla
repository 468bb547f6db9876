------------------------------ MODULE Mimpirun ------------------------------
(***************************************************************************)
(* The deadlock detector of mimpirun.c (PW/projekt2): one thread that      *)
(* reads the packets of all processes from one pipe, keeps for each        *)
(* process the last thing it said, and reports to both processes when two  *)
(* are on record as waiting for each other.  A packet is smaller than the  *)
(* atomic block of a pipe, and the pipes of the detector never fill up in  *)
(* a bounded run.                                                          *)
(***************************************************************************)
EXTENDS Integers, Sequences

CONSTANTS
  N,           \* the number of processes
  Detection    \* enable_deadlock_detection

Procs == 0..(N - 1)

DEADLOCK_NO_WAIT  == -1
DEADLOCK_FINISHED == -2

VARIABLES
  wait_table,
  requests,    \* the pipe of descriptors 60 and 61
  reports      \* reports[p]: the pipe of descriptor 62 of p

detector == <<wait_table, requests, reports>>

DetectorInit ==
  /\ wait_table = [p \in Procs |-> DEADLOCK_NO_WAIT]
  /\ requests = <<>>
  /\ reports = [p \in Procs |-> <<>>]

\* notify_deadlock(rank) of mimpi.c, called by p.
Notify(p, rank) ==
  requests' = IF Detection
                THEN Append(requests, [my_rank |-> p, sender_rank |-> rank])
                ELSE requests

\* Fault: the packet is looked at before it is recorded.
RecordLate(packet) == wait_table

\* Line 37 and line 39.
Record(packet) ==
  [wait_table EXCEPT ![packet.my_rank] =
     IF packet.sender_rank = DEADLOCK_FINISHED THEN DEADLOCK_NO_WAIT
     ELSE packet.sender_rank]

\* SEND_DEADLOCK to both.
Mutual(me, other) ==
  [reports EXCEPT ![me] = Append(@, other), ![other] = Append(@, me)]

\* One round of the loop of deadlock_thread.
Detect ==
  /\ requests # <<>>
  /\ requests' = Tail(requests)
  /\ LET packet == Head(requests)
         me == packet.my_rank
         other == packet.sender_rank
     IN  /\ wait_table' = Record(packet)
         /\ reports' =
              IF other = DEADLOCK_FINISHED
                THEN [reports EXCEPT ![me] = Append(@, DEADLOCK_FINISHED)]
              ELSE IF other # DEADLOCK_NO_WAIT /\ wait_table[other] = me
                THEN Mutual(me, other)
              ELSE reports

DetectorTypeOK ==
  /\ wait_table \in [Procs -> Procs \cup {DEADLOCK_NO_WAIT}]
  /\ requests \in Seq([my_rank : Procs,
                       sender_rank : Procs \cup {DEADLOCK_NO_WAIT, DEADLOCK_FINISHED}])
  /\ reports \in [Procs -> Seq(Procs \cup {DEADLOCK_FINISHED})]
=============================================================================
