----------------------------- MODULE SimpleQueue -----------------------------
(***************************************************************************)
(* SimpleQueue.c of PW/projekt3: a linked list with a dummy first node,    *)
(* one mutex for producers and one for consumers.  A step reads or writes  *)
(* shared memory once, except that what only the holder of a mutex touches *)
(* is joined with the step it goes with.  malloc returns any node that is  *)
(* not allocated, so a freed node comes back under the same address.       *)
(***************************************************************************)
EXTENDS Naturals, Sequences, FiniteSets

CONSTANTS Threads, Values, EMPTY_VALUE, None,
          Nodes,      \* the addresses malloc can return
          Null,       \* NULL
          NoThread    \* an unlocked mutex

ASSUME SimpleQueueAssumption ==
  /\ Null \notin Nodes
  /\ NoThread \notin Threads
  /\ EMPTY_VALUE \notin Values

VARIABLES
  local,       \* local[t]: where t is (pc), its locals, its argument or result (ret)
  head, tail,
  mtx,         \* head_mtx and tail_mtx: the threads that hold them
  mem,         \* mem[n]: the fields of node n
  allocated,   \* the nodes malloc has returned and free has not got back
  deleted,     \* SimpleQueue_delete has run
  chain,       \* history: the nodes of the list, in the order they were linked
  seen         \* history: see FifoQueue

list == <<head, tail, chain>>
vars == <<local, list, mtx, mem, allocated, deleted, seen>>

\* A thread between two operations has no locals.
Idle == [pc |-> "idle", node |-> Null, new_head |-> Null, ret |-> None]

Init ==
  /\ local = [t \in Threads |-> Idle]
  /\ head \in Nodes /\ tail = head
  /\ mtx = [head |-> NoThread, tail |-> NoThread]
  /\ mem = [n \in Nodes |-> [next |-> Null, item |-> EMPTY_VALUE]]
  /\ allocated = {head}
  /\ deleted = FALSE
  /\ chain = <<head>>
  /\ seen = [t \in Threads |-> {}]

At(t, place) == local[t].pc = place
Goto(t, place) == local' = [local EXCEPT ![t].pc = place]
Leave(t) == local' = [local EXCEPT ![t] = Idle]

Call(t, place) ==
  /\ At(t, "idle") /\ ~deleted
  /\ Goto(t, place)
  /\ UNCHANGED <<list, mtx, mem, allocated, deleted>>

\* Fault: a locked mutex stops nobody.
LockAlways(t, from, m, to) ==
  /\ At(t, from)
  /\ mtx' = [mtx EXCEPT ![m] = t]
  /\ Goto(t, to)
  /\ UNCHANGED <<list, mem, allocated, deleted>>

Lock(t, from, m, to) ==
  /\ At(t, from) /\ mtx[m] = NoThread
  /\ mtx' = [mtx EXCEPT ![m] = t]
  /\ Goto(t, to)
  /\ UNCHANGED <<list, mem, allocated, deleted>>

Unlock(t, from, m) ==
  /\ At(t, from)
  /\ mtx' = [mtx EXCEPT ![m] = NoThread]
  /\ UNCHANGED <<list, mem, allocated, deleted>>

\* SimpleQueueNode_new; the callers stop pushing when the addresses run out.
PushNew(t) ==
  /\ At(t, "idle") /\ ~deleted
  /\ \E n \in Nodes \ allocated, v \in Values :
       /\ allocated' = allocated \cup {n}
       /\ mem' = [mem EXCEPT ![n] = [next |-> Null, item |-> v]]
       /\ local' = [local EXCEPT ![t] = [@ EXCEPT !.pc = "pushLock", !.node = n, !.ret = v]]
  /\ UNCHANGED <<list, mtx, deleted>>

PushLock(t) == Lock(t, "pushLock", "tail", "pushLink")

\* atomic_store(&queue->tail->next, node): consumers see the node from here on.
PushLink(t) ==
  /\ At(t, "pushLink")
  /\ mem' = [mem EXCEPT ![tail].next = local[t].node]
  /\ chain' = Append(chain, local[t].node)
  /\ Goto(t, "pushTail")
  /\ UNCHANGED <<head, tail, mtx, allocated, deleted>>

NewTail(t) == local[t].node

PushTail(t) ==
  /\ At(t, "pushTail")
  /\ tail' = NewTail(t)
  /\ Goto(t, "pushUnlock")
  /\ UNCHANGED <<head, chain, mtx, mem, allocated, deleted>>

PushUnlock(t) == Unlock(t, "pushUnlock", "tail") /\ Leave(t)

PopLock(t) == Lock(t, "popLock", "head", "popLoad")

\* head = queue->head; new_head = atomic_load(&head->next)
PopLoad(t) ==
  /\ At(t, "popLoad")
  /\ LET next == mem[head].next IN
     local' = [local EXCEPT ![t] =
       [pc |-> IF next = Null THEN "popUnlockEmpty" ELSE "popTake",
        node |-> head, new_head |-> next,
        ret |-> IF next = Null THEN EMPTY_VALUE ELSE None]]
  /\ UNCHANGED <<list, mtx, mem, allocated, deleted>>

\* item = new_head->item; queue->head = new_head
PopTake(t) ==
  /\ At(t, "popTake")
  /\ local' = [local EXCEPT ![t] =
       [@ EXCEPT !.pc = "popUnlock", !.ret = mem[local[t].new_head].item]]
  /\ head' = local[t].new_head
  /\ chain' = Tail(chain)
  /\ UNCHANGED <<tail, mtx, mem, allocated, deleted>>

\* Fault: the early return on an empty queue keeps the consumers' mutex.
PopUnlockEmptyNot(t) ==
  At(t, "popUnlockEmpty") /\ Leave(t) /\ UNCHANGED <<list, mtx, mem, allocated, deleted>>

PopUnlockEmpty(t) == Unlock(t, "popUnlockEmpty", "head") /\ Leave(t)

PopUnlock(t) == Unlock(t, "popUnlock", "head") /\ Goto(t, "popFree")

\* Fault: the node that becomes the dummy is freed, not the old dummy.
FreedNew(t) == local[t].new_head

\* The local variable head, which pop frees.
Freed(t) == local[t].node

\* free(head), outside the mutex
PopFree(t) ==
  /\ At(t, "popFree")
  /\ allocated' = allocated \ {Freed(t)}
  /\ Leave(t)
  /\ UNCHANGED <<list, mtx, mem, deleted>>

IsEmptyLock(t) == Lock(t, "isEmptyLock", "head", "isEmptyLoad")

\* Fault: the queue counts as empty while head and tail are the same node.
AnswerTail == head = tail

\* head->next == NULL
Answer == mem[head].next = Null

IsEmptyLoad(t) ==
  /\ At(t, "isEmptyLoad")
  /\ local' = [local EXCEPT ![t] = [@ EXCEPT !.pc = "isEmptyUnlock", !.ret = Answer]]
  /\ UNCHANGED <<list, mtx, mem, allocated, deleted>>

IsEmptyUnlock(t) == Unlock(t, "isEmptyUnlock", "head") /\ Leave(t)

\* SimpleQueue_delete, after all operations of all threads: it frees the nodes
\* it reaches from queue->head, which are those of chain (ListIntact).
Delete ==
  /\ ~deleted /\ \A t \in Threads : At(t, "idle")
  /\ deleted' = TRUE
  /\ allocated' = {n \in allocated : \A i \in 1..Len(chain) : chain[i] # n}
  /\ UNCHANGED <<local, list, mtx, mem>>

Push(t) == PushNew(t) \/ PushLock(t) \/ PushLink(t) \/ PushTail(t) \/ PushUnlock(t)

Pop(t) == \/ Call(t, "popLock") \/ PopLock(t) \/ PopLoad(t) \/ PopTake(t)
          \/ PopUnlockEmpty(t) \/ PopUnlock(t) \/ PopFree(t)

IsEmpty(t) == \/ Call(t, "isEmptyLock") \/ IsEmptyLock(t) \/ IsEmptyLoad(t)
              \/ IsEmptyUnlock(t)
-----------------------------------------------------------------------------
(***************************************************************************)
(* The abstract queue: a push takes effect when its node is linked, a pop  *)
(* when the head is moved (or the NULL is loaded), is_empty when it loads. *)
(***************************************************************************)
Calling(t) ==
  LET pc == local[t].pc
      Phase(op, val) == [op |-> op, val |-> val]
  IN CASE pc \in {"pushLock", "pushLink"}          -> Phase("push", local[t].ret)
       [] pc \in {"pushTail", "pushUnlock"}        -> Phase("pushed", None)
       [] pc \in {"popLock", "popLoad", "popTake"} -> Phase("pop", None)
       [] pc \in {"popUnlockEmpty", "popUnlock", "popFree"}
                                                   -> Phase("popped", local[t].ret)
       [] pc \in {"isEmptyLock", "isEmptyLoad"}    -> Phase("is_empty", None)
       [] pc = "isEmptyUnlock"                     -> Phase("answered", local[t].ret)
       [] pc = "idle"                              -> Phase("idle", None)

Contents == [i \in 1..(Len(chain) - 1) |-> mem[chain[i + 1]].item]

Calls == [t \in Threads |-> Calling(t)]

Fifo == INSTANCE FifoQueue WITH queue <- Contents, call <- Calls

Next == /\ (\E t \in Threads : Push(t) \/ Pop(t) \/ IsEmpty(t)) \/ Delete
        /\ Fifo!Witness

Spec == Init /\ [][Next]_vars
-----------------------------------------------------------------------------
Places == {"idle", "pushLock", "pushLink", "pushTail", "pushUnlock", "popLock",
           "popLoad", "popTake", "popUnlockEmpty", "popUnlock", "popFree",
           "isEmptyLock", "isEmptyLoad", "isEmptyUnlock"}

Results == Values \cup {EMPTY_VALUE, None} \cup BOOLEAN

Locals == [pc : Places, node : Nodes \cup {Null}, new_head : Nodes \cup {Null},
           ret : Results]

\* The fields and locals of SimpleQueue.c keep their types.
TypeOK ==
  /\ local \in [Threads -> Locals]
  /\ head \in Nodes /\ tail \in Nodes
  /\ mtx \in [{"head", "tail"} -> Threads \cup {NoThread}]
  /\ mem \in [Nodes -> [next : Nodes \cup {Null}, item : Values \cup {EMPTY_VALUE}]]
  /\ allocated \subseteq Nodes
  /\ deleted \in BOOLEAN
  /\ chain \in Seq(Nodes)
  /\ seen \in [Threads -> SUBSET BOOLEAN]

\* The nodes reachable from queue->head are exactly the nodes linked and not yet
\* taken, in order, though producers and consumers write the list under two
\* different mutexes; tail is the last node, or the one before it while a
\* producer is between its two stores.
ListIntact ==
  /\ chain # <<>>
  /\ head = chain[1]
  /\ \A i \in 1..Len(chain) :
       mem[chain[i]].next = IF i = Len(chain) THEN Null ELSE chain[i + 1]
  /\ \A i, j \in 1..Len(chain) : chain[i] = chain[j] => i = j
  /\ IF \E t \in Threads : At(t, "pushTail")
       THEN \A t \in Threads : At(t, "pushTail") => local[t].node = chain[Len(chain)]
       ELSE tail = chain[Len(chain)]

\* The nodes the next step of t dereferences, or gives to free.
Touches(t) ==
  CASE At(t, "pushLink")                      -> {tail}
    [] At(t, "popLoad") \/ At(t, "isEmptyLoad") -> {head}
    [] At(t, "popTake")                       -> {local[t].new_head}
    [] At(t, "popFree")                       -> {local[t].node}
    [] OTHER                                  -> {}

\* No operation dereferences a freed node or frees one twice: the old dummy is
\* freed outside the mutex while tail may still point to it (lines 70-71, 87-89).
NoUseAfterFree == \A t \in Threads : Touches(t) \subseteq allocated

InChain(n) == \E i \in 1..Len(chain) : chain[i] = n

\* t is the only one to hold the node of its local variable, which is not (or no
\* longer) in the list.
Holding(t) == local[t].pc \in {"pushLock", "pushLink", "popUnlock", "popFree"}

\* Every allocated node is in the list or in the hands of one thread that will
\* link or free it, so SimpleQueue_delete leaves nothing behind (lines 53-60).
NoLeak ==
  IF deleted THEN allocated = {}
  ELSE \A n \in allocated :
         InChain(n) \/ \E t \in Threads : Holding(t) /\ local[t].node = n

\* The nodes are memory-safe and none is lost (readme.md, lines 17 and 18).
MemorySafe == NoUseAfterFree /\ NoLeak

\* A mutex is held by exactly the thread between its lock and its unlock: two
\* threads are never inside together, and no path, the early return of pop on an
\* empty queue included, leaves one locked for ever (readme.md, lines 17 and 18).
MutexesHeld ==
  \A t \in Threads :
    /\ mtx.head = t <=> local[t].pc \in {"popLoad", "popTake", "popUnlockEmpty",
                                         "popUnlock", "isEmptyLoad", "isEmptyUnlock"}
    /\ mtx.tail = t <=> local[t].pc \in {"pushLink", "pushTail", "pushUnlock"}

\* push, pop and is_empty are linearizable (readme.md, line 17).
Linearizable == Fifo!Spec
=============================================================================
