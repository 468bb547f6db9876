------------------------------ MODULE MCLockFree ------------------------------
(* The two lock-free queues on few threads and addresses, one behaviour for one
   queue: kind says which.                                                     *)
EXTENDS LLQueue, TLC

CONSTANTS v1, v2, v3, v4

VARIABLES kind, stored, popped

\* Buffers of four slots, the smallest size the tests may choose, and no scan.
B == INSTANCE BLQueue WITH
       Pushes <- <<v1, v2, v3, v4>>, BUFFER_SIZE <- 4, RETIRED_THRESHOLD <- 8

ASSUME BufferAssumption == B!ParametersFit

both == <<kind, stored, popped, vars>>

Symmetry == Permutations(Nodes) \cup Permutations(Values)

LLInit == kind = "LLQueue" /\ Init /\ stored = {} /\ popped = {}
BLInit == kind = "BLQueue" /\ B!Init /\ seen = {}

LLNext == kind = "LLQueue" /\ Next /\ UNCHANGED <<kind, stored, popped>>
\* BLQueue gets three of the addresses: the first node, a full buffer and the next.
BLNext == /\ kind = "BLQueue" /\ B!Next /\ UNCHANGED <<kind, seen>>
          /\ Cardinality(allocated') <= 3

LLSpec == LLInit /\ [][LLNext]_both

\* A thread starts to scan its retired nodes only while every other one is between
\* two operations or has just reserved the tail.  What happens otherwise is the
\* question of MCLLNoUseAfterFree.cfg.
QuietScans ==
  \A t \in Threads : scan[t].pc = "out" /\ scan'[t].pc = "scan" =>
    \A u \in Threads \ {t} : local[u].pc \in {"idle", "pushNext"}

\* malloc returns no address that another thread still has in a local variable.
FreshAddresses ==
  \A t, u \in Threads : t # u /\ At(t, "idle") /\ At(t, "pushTail")' =>
    local'[t].node \notin {local[u].head, local[u].tail, local[u].next}

QuietSpec ==
  /\ LLInit \/ BLInit
  /\ [][(LLNext /\ QuietScans /\ FreshAddresses) \/ BLNext]_both
-----------------------------------------------------------------------------
\* The list of either queue is whole (see ListIntact of its module).
ListsIntact == IF kind = "LLQueue" THEN ListIntact ELSE B!ListIntact

\* A node that LLQueue has retired is in no list (see RetiredUnlinked).
RetiredLeftList == kind = "LLQueue" => RetiredUnlinked

\* push, pop and is_empty of LLQueue implement the indivisible ones of FifoQueue.
LLLinearizable ==
  /\ kind = "LLQueue" => Fifo!Init
  /\ [][kind = "LLQueue" => Fifo!Next \/ UNCHANGED Fifo!vars]_both

\* A slot of BLQueue belongs to one pusher (see SlotsOwned), and no value is popped
\* twice (see PoppedOnce).
SlotsOwned == kind = "BLQueue" => B!SlotsOwned
PoppedOnce == kind = "BLQueue" => B!PoppedOnce
=============================================================================
