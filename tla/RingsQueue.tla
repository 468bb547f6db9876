------------------------------ MODULE RingsQueue ------------------------------
(***************************************************************************)
(* RingsQueue.c of PW/projekt3: a linked list of buffers, one mutex for    *)
(* push and one for pop.  A pusher publishes a value by storing push_idx,  *)
(* which the poppers read without the pushers' mutex.  The first node of   *)
(* the list has no buffer: pop takes from the second one and, when it has  *)
(* taken the last slot, makes that node the first.                         *)
(***************************************************************************)
EXTENDS Naturals, Sequences, FiniteSets, SequencesExt

CONSTANTS Threads, Values, EMPTY_VALUE, None,
          Nodes, Null, NoThread, RING_SIZE

ASSUME RingsQueueAssumption ==
  /\ Null \notin Nodes
  /\ NoThread \notin Threads
  /\ EMPTY_VALUE \notin Values
  /\ RING_SIZE \in Nat \ {0}
  /\ Null \notin [1..RING_SIZE -> Values \cup {EMPTY_VALUE}]

VARIABLES
  local,       \* local[t]: where t is (pc), its locals, its argument or result (ret)
  head, tail,
  mtx,         \* push_mtx and pop_mtx: the threads that hold them
  mem,         \* mem[n]: the fields of node n
  allocated, deleted,
  chain,       \* history: the nodes of the list, in the order they were linked
  seen         \* history: see FifoQueue

list == <<head, tail, chain>>
vars == <<local, list, mtx, mem, allocated, deleted, seen>>

\* RingsQueueNode_new; calloc fills the buffer with zeros, which is EMPTY_VALUE.
NewNode == [next |-> Null, buffer |-> [i \in 1..RING_SIZE |-> EMPTY_VALUE],
            push_idx |-> 0, pop_idx |-> 0]

\* A thread between two operations has no locals; node is head of pop and is_empty.
Idle == [pc |-> "idle", node |-> Null, new_head |-> Null, ret |-> None]

Init ==
  /\ local = [t \in Threads |-> Idle]
  /\ head \in Nodes /\ tail = head
  /\ mtx = [push |-> NoThread, pop |-> NoThread]
  /\ mem = [n \in Nodes |-> [NewNode EXCEPT !.buffer = Null]]
  /\ allocated = {head}
  /\ deleted = FALSE
  /\ chain = <<head>>
  /\ seen = [t \in Threads |-> {}]

At(t, place) == local[t].pc = place
Goto(t, place) == local' = [local EXCEPT ![t].pc = place]
Leave(t) == local' = [local EXCEPT ![t] = Idle]
Answers(t, value, to) == local' = [local EXCEPT ![t].ret = value, ![t].pc = to]

Call(t, place) ==
  /\ At(t, "idle") /\ ~deleted
  /\ Goto(t, place)
  /\ UNCHANGED <<list, mtx, mem, allocated, deleted>>

Lock(t, from, m, to) ==
  /\ At(t, from) /\ mtx[m] = NoThread
  /\ mtx' = [mtx EXCEPT ![m] = t]
  /\ Goto(t, to)
  /\ UNCHANGED <<list, mem, allocated, deleted>>

Unlock(t, from, m) ==
  /\ At(t, from)
  /\ mtx' = [mtx EXCEPT ![m] = NoThread]
  /\ UNCHANGED <<list, mem, allocated, deleted>>

PushCall(t) ==
  /\ At(t, "idle") /\ ~deleted
  /\ \E v \in Values : Answers(t, v, "pushLock")
  /\ UNCHANGED <<list, mtx, mem, allocated, deleted>>

\* Lines 74-77: with the mutex, only pushers write tail and its push_idx.
PushLock(t) ==
  Lock(t, "pushLock", "push",
       IF mem[tail].push_idx = RING_SIZE \/ mem[tail].buffer = Null
         THEN "pushExtend" ELSE "pushWrite")

\* RingsQueueNode_new, and the store of tail->next that shows the empty node to
\* the poppers; only pushers read queue->tail.  Pushers stop when the addresses
\* run out.
PushExtend(t) ==
  /\ At(t, "pushExtend")
  /\ \E n \in Nodes \ allocated :
       /\ allocated' = allocated \cup {n}
       /\ mem' = [mem EXCEPT ![n] = NewNode, ![tail].next = n]
       /\ tail' = n
       /\ chain' = Append(chain, n)
  /\ Goto(t, "pushWrite")
  /\ UNCHANGED <<head, mtx, deleted>>

\* tail->buffer[push_idx] = item
PushWrite(t) ==
  /\ At(t, "pushWrite")
  /\ mem' = [mem EXCEPT ![tail].buffer[mem[tail].push_idx + 1] = local[t].ret]
  /\ Goto(t, "pushPublish")
  /\ UNCHANGED <<list, mtx, allocated, deleted>>

\* atomic_store(&tail->push_idx, push_idx + 1)
PushPublish(t) ==
  /\ At(t, "pushPublish")
  /\ mem' = [mem EXCEPT ![tail].push_idx = @ + 1]
  /\ Goto(t, "pushUnlock")
  /\ UNCHANGED <<list, mtx, allocated, deleted>>

PushUnlock(t) == Unlock(t, "pushUnlock", "push") /\ Leave(t)

PopLock(t) == Lock(t, "popLock", "pop", "popNext")

\* Lines 93-95: the load of head->next.
PopNext(t) ==
  /\ At(t, "popNext")
  /\ LET new_head == mem[head].next IN
     local' = [local EXCEPT ![t] =
       [pc |-> IF new_head = Null THEN "popUnlock" ELSE "popCheck",
        node |-> head, new_head |-> new_head,
        ret |-> IF new_head = Null THEN EMPTY_VALUE ELSE None]]
  /\ UNCHANGED <<list, mtx, mem, allocated, deleted>>

\* Fault: the last slot is told from the others by the pushers' index.
AtLastSlotPushIdx(n) == mem[n].push_idx = RING_SIZE

\* Fault: a node counts as used up when it is emptied, full or not.
AtLastSlotEmptied(n) == mem[n].pop_idx + 1 = mem[n].push_idx

\* Line 102.
AtLastSlot(n) == mem[n].pop_idx + 1 = RING_SIZE

\* Lines 99-102: push_idx may grow at any time, pop_idx only under pop_mtx.
PopCheck(t) ==
  /\ At(t, "popCheck")
  /\ LET n == local[t].new_head IN
     IF mem[n].pop_idx >= mem[n].push_idx
       THEN Answers(t, EMPTY_VALUE, "popUnlock")
       ELSE Goto(t, IF AtLastSlot(n) THEN "popLast" ELSE "popItem")
  /\ UNCHANGED <<list, mtx, mem, allocated, deleted>>

\* Fault: the emptied node keeps the buffer that pop frees.
BufferKept(n) == mem

\* Line 104: the buffer is known to the popping thread only.
BufferTaken(n) == [mem EXCEPT ![n].buffer = Null]

NewHead(t) == local[t].new_head

\* Lines 103-107: the emptied node becomes the first one.  Its pop_idx is left as
\* it is.
PopLast(t) ==
  /\ At(t, "popLast")
  /\ Answers(t, mem[local[t].new_head].buffer[RING_SIZE], "popLastUnlock")
  /\ mem' = BufferTaken(local[t].new_head)
  /\ head' = NewHead(t)
  /\ chain' = Tail(chain)
  /\ UNCHANGED <<tail, mtx, allocated, deleted>>

PopLastUnlock(t) == Unlock(t, "popLastUnlock", "pop") /\ Goto(t, "popFree")

\* free(buffer); free(head), outside the mutex
PopFree(t) ==
  /\ At(t, "popFree")
  /\ allocated' = allocated \ {local[t].node}
  /\ Leave(t)
  /\ UNCHANGED <<list, mtx, mem, deleted>>

\* Lines 112-118.
PopItem(t) ==
  /\ At(t, "popItem")
  /\ LET n == local[t].new_head IN
     IF mem[n].pop_idx = RING_SIZE
       THEN Answers(t, EMPTY_VALUE, "popUnlock") /\ UNCHANGED mem
       ELSE /\ Answers(t, mem[n].buffer[mem[n].pop_idx + 1], "popUnlock")
            /\ mem' = [mem EXCEPT ![n].pop_idx = @ + 1]
  /\ UNCHANGED <<list, mtx, allocated, deleted>>

PopUnlock(t) == Unlock(t, "popUnlock", "pop") /\ Leave(t)

IsEmptyLock(t) == Lock(t, "isEmptyLock", "pop", "isEmptyNext")

IsEmptyNext(t) ==
  /\ At(t, "isEmptyNext")
  /\ local' = [local EXCEPT ![t].node = mem[head].next, ![t].pc = "isEmptyUnlock"]
  /\ UNCHANGED <<list, mtx, mem, allocated, deleted>>

IsEmptyUnlock(t) == Unlock(t, "isEmptyUnlock", "pop") /\ Goto(t, "isEmptyLoad")

\* Lines 129-130, after the mutex has been released: the node may have been freed
\* in between, and then the index read is arbitrary.
IsEmptyLoad(t) ==
  /\ At(t, "isEmptyLoad")
  /\ LET n == local[t].node IN
     \E answer \in BOOLEAN :
       /\ n = Null => answer
       /\ n \in allocated => (answer <=> mem[n].pop_idx = RING_SIZE)
       /\ Answers(t, answer, "isEmptyReturn")
  /\ UNCHANGED <<list, mtx, mem, allocated, deleted>>

IsEmptyReturn(t) ==
  At(t, "isEmptyReturn") /\ Leave(t) /\ UNCHANGED <<list, mtx, mem, allocated, deleted>>

\* RingsQueue_delete, after all operations: every node from queue->head on is
\* freed with its buffer; these are the nodes of chain (ListIntact).
Delete ==
  /\ ~deleted /\ \A t \in Threads : At(t, "idle")
  /\ deleted' = TRUE
  /\ allocated' = allocated \ ToSet(chain)
  /\ UNCHANGED <<local, list, mtx, mem>>

Push(t) == \/ PushCall(t) \/ PushLock(t) \/ PushExtend(t) \/ PushWrite(t)
           \/ PushPublish(t) \/ PushUnlock(t)

Pop(t) == \/ Call(t, "popLock") \/ PopLock(t) \/ PopNext(t) \/ PopCheck(t)
          \/ PopLast(t) \/ PopLastUnlock(t) \/ PopFree(t) \/ PopItem(t) \/ PopUnlock(t)

IsEmpty(t) == \/ Call(t, "isEmptyLock") \/ IsEmptyLock(t) \/ IsEmptyNext(t)
              \/ IsEmptyUnlock(t) \/ IsEmptyLoad(t) \/ IsEmptyReturn(t)
-----------------------------------------------------------------------------
(***************************************************************************)
(* The abstract queue: the published values not yet taken, node by node.   *)
(***************************************************************************)
Published(n) == SubSeq(mem[n].buffer, mem[n].pop_idx + 1, mem[n].push_idx)
Parts == [i \in 1..(Len(chain) - 1) |-> Published(chain[i + 1])]
Contents == FlattenSeq(Parts)

Answering == {"isEmptyLock", "isEmptyNext", "isEmptyUnlock", "isEmptyLoad"}

Calling(t) ==
  LET pc == local[t].pc
      Phase(op, val) == [op |-> op, val |-> val]
  IN CASE pc \in {"pushLock", "pushExtend", "pushWrite", "pushPublish"}
                                          -> Phase("push", local[t].ret)
       [] pc = "pushUnlock"               -> Phase("pushed", None)
       [] pc \in {"popLock", "popNext", "popCheck", "popItem", "popLast"}
                                          -> Phase("pop", None)
       [] pc \in {"popUnlock", "popLastUnlock", "popFree"}
                                          -> Phase("popped", local[t].ret)
       [] pc \in Answering                -> Phase("is_empty", None)
       [] pc = "isEmptyReturn"            -> Phase("answered", local[t].ret)
       [] pc = "idle"                     -> Phase("idle", None)

Calls == [t \in Threads |-> Calling(t)]

Fifo == INSTANCE FifoQueue WITH queue <- Contents, call <- Calls

Next == /\ (\E t \in Threads : Push(t) \/ Pop(t) \/ IsEmpty(t)) \/ Delete
        /\ Fifo!Witness

Spec == Init /\ [][Next]_vars

\* is_empty left aside: pop never leaves RING_SIZE in pop_idx, so after pops that
\* emptied the queue is_empty still answers FALSE (line 130).
Asking(t) == local[t].pc \in Answering \cup {"isEmptyReturn"}
PushPopCalls == [t \in Threads |-> IF Asking(t) THEN [op |-> "idle", val |-> None]
                                   ELSE Calling(t)]
PushPopSeen  == [t \in Threads |-> IF Asking(t) THEN {} ELSE seen[t]]

PushPop == INSTANCE FifoQueue WITH
  queue <- Contents, call <- PushPopCalls, seen <- PushPopSeen
-----------------------------------------------------------------------------
\* The fields and locals of RingsQueue.c keep their types; the indices stay within
\* the buffer.
TypeOK ==
  /\ local \in [Threads ->
       [pc : Answering \cup
          {"idle", "pushLock", "pushExtend", "pushWrite", "pushPublish", "pushUnlock",
           "popLock", "popNext", "popCheck", "popLast", "popLastUnlock", "popFree",
           "popItem", "popUnlock", "isEmptyReturn"},
        node : Nodes \cup {Null}, new_head : Nodes \cup {Null},
        ret : Values \cup {EMPTY_VALUE, None} \cup BOOLEAN]]
  /\ {head, tail} \subseteq Nodes
  /\ mtx \in [{"push", "pop"} -> Threads \cup {NoThread}]
  /\ \A n \in Nodes :
       /\ mem[n].next \in Nodes \cup {Null}
       /\ mem[n].buffer # Null =>
            mem[n].buffer \in [1..RING_SIZE -> Values \cup {EMPTY_VALUE}]
       /\ {mem[n].push_idx, mem[n].pop_idx} \subseteq 0..RING_SIZE
  /\ allocated \subseteq Nodes

\* The list from queue->head to queue->tail is whole; every node but the first has
\* its buffer, every node that is neither first nor last is full, and pop never
\* overtakes push within a node (lines 77-85, 99-118).
ListIntact ==
  /\ TypeOK
  /\ chain # <<>> /\ head = chain[1] /\ tail = chain[Len(chain)]
  /\ \A i \in 1..Len(chain) :
       mem[chain[i]].next = IF i = Len(chain) THEN Null ELSE chain[i + 1]
  /\ \A i, j \in 1..Len(chain) : chain[i] = chain[j] => i = j
  /\ mem[head].buffer = Null
  /\ \A i \in 2..Len(chain) :
       LET n == chain[i] IN
       /\ mem[n].buffer # Null
       /\ mem[n].pop_idx <= mem[n].push_idx
       /\ i < Len(chain) => mem[n].push_idx = RING_SIZE

\* A pusher looks at tail->buffer without the poppers' mutex: it never does so on
\* the node whose buffer a popper is taking away (lines 77, 84, 103-105).
NoBufferRace ==
  \A t, u \in Threads :
    At(t, "popLast") /\ local[u].pc \in {"pushWrite", "pushPublish"}
      => tail # local[t].new_head

\* push and pop dereference and free only allocated nodes, the first node being
\* freed outside both mutexes; a node is freed without a buffer (lines 102-110).
PushPopSafe ==
  \A t \in Threads :
    /\ local[t].pc \in {"pushWrite", "pushPublish"} =>
         tail \in allocated /\ mem[tail].buffer # Null
    /\ At(t, "popNext") => head \in allocated
    /\ local[t].pc \in {"popCheck", "popItem", "popLast"} => local[t].new_head \in allocated
    /\ At(t, "popFree") => local[t].node \in allocated /\ mem[local[t].node].buffer = Null

\* Every node is in the list or about to be freed by one popper; after
\* RingsQueue_delete nothing is left.
NoLeak ==
  IF deleted THEN allocated = {}
  ELSE \A n \in allocated :
         \/ n \in ToSet(chain)
         \/ \E t \in Threads :
              local[t].node = n /\ local[t].pc \in {"popLastUnlock", "popFree"}

\* The nodes and their buffers are memory-safe and none is lost, as far as push, pop
\* and delete go (readme.md, lines 17 and 18).
MemorySafe == PushPopSafe /\ NoBufferRace /\ NoLeak

\* push and pop are linearizable, across node boundaries too (readme.md, line 17).
Linearizable == PushPop!Spec
=============================================================================
