------------------------------- MODULE BLQueue -------------------------------
(***************************************************************************)
(* BLQueue.c of PW/projekt3: the lock-free list of buffers.  push and pop  *)
(* take an index of a node with a fetch-and-add and only then write or     *)
(* read the slot, with a plain access; past the end of the buffer they     *)
(* store BUFFER_SIZE back and move on to the next node.  As in LLQueue, a  *)
(* thread that would dereference a freed node takes no further step.       *)
(***************************************************************************)
EXTENDS HazardPointer, Sequences, FiniteSets, SequencesExt

CONSTANTS
  Pushes,         \* the values pushed, in the order the pushes are called
  EMPTY_VALUE, None, BUFFER_SIZE

Items == ToSet(Pushes)

\* What is assumed of the constants.
ParametersFit ==
  /\ Pushes \in Seq(Items) /\ IsInjective(Pushes)
  /\ EMPTY_VALUE \notin Items
  /\ BUFFER_SIZE \in Nat \ {0, 1}

VARIABLES
  local,     \* local[t]: where t is (pc), its locals, its argument or result (ret)
  head, tail,
  mem,       \* mem[n]: the fields of node n
  deleted,
  chain,     \* history: the nodes of the list, in the order they were linked
  stored,    \* history: the values whose push has returned
  popped     \* history: the values a pop has returned

list    == <<head, tail, chain>>
history == <<stored, popped>>
shared  == <<list, mem, allocated, deleted, hpVars>>
vars    == <<local, shared, history>>

Slots == 0..(BUFFER_SIZE - 1)

\* BLNode_new.
NewNode == [next |-> Null, buffer |-> [i \in Slots |-> EMPTY_VALUE],
            push_idx |-> 0, pop_idx |-> 0]

\* A thread between two operations has no locals; node is the new node of push.
Idle == [pc |-> "idle", node |-> Null, head |-> Null, tail |-> Null, next |-> Null,
         idx |-> 0, ret |-> None]

\* BLQueue_new: the first node counts as full and as emptied.
Init ==
  /\ HPInit
  /\ local = [t \in Threads |-> Idle]
  /\ head \in Nodes /\ tail = head
  /\ mem = [[n \in Nodes |-> NewNode] EXCEPT
              ![head].push_idx = BUFFER_SIZE, ![head].pop_idx = BUFFER_SIZE]
  /\ allocated = {head}
  /\ deleted = FALSE
  /\ chain = <<head>>
  /\ stored = {} /\ popped = {}

At(t, place) == local[t].pc = place
Goto(t, place) == local' = [local EXCEPT ![t].pc = place]
Leave(t) == local' = [local EXCEPT ![t] = Idle]

\* A step that reads something into a local variable.
Load(t, from, name, value, to) ==
  /\ At(t, from)
  /\ local' = [local EXCEPT ![t].pc = to, ![t][name] = value]
  /\ UNCHANGED <<shared, history>>

ProtectLocal(t, from, name, to) ==
  /\ At(t, from)
  /\ Protect(t, local[t][name])
  /\ Goto(t, to)
  /\ UNCHANGED <<list, mem, allocated, deleted, history>>

\* compare_exchange(&queue->tail, &tail, next)
SwingTail(t, from, to) ==
  /\ At(t, from)
  /\ tail' = IF tail = local[t].tail THEN local[t].next ELSE tail
  /\ Goto(t, to)
  /\ UNCHANGED <<head, chain, mem, allocated, deleted, hpVars, history>>

\* Fault: the index is loaded, not fetched and advanced in one step.
TakeIndexLoad(t, from, n, index, use, past) ==
  /\ At(t, from) /\ n \in allocated
  /\ local' = [local EXCEPT ![t].idx = mem[n][index],
                 ![t].pc = IF mem[n][index] + 1 < BUFFER_SIZE THEN use ELSE past]
  /\ UNCHANGED <<shared, history>>

\* atomic_fetch_add on an index of node n; the thread uses the slot if the index it
\* gets is not the last one.
TakeIndex(t, from, n, index, use, past) ==
  /\ At(t, from) /\ n \in allocated
  /\ mem' = [mem EXCEPT ![n][index] = @ + 1]
  /\ local' = [local EXCEPT ![t].idx = mem[n][index],
                 ![t].pc = IF mem[n][index] + 1 < BUFFER_SIZE THEN use ELSE past]
  /\ UNCHANGED <<list, allocated, deleted, hpVars, history>>

\* Fault: an index past the end is set back to the start of the buffer.
StoreIndexZero(t, from, n, index, to) ==
  /\ At(t, from) /\ n \in allocated
  /\ mem' = [mem EXCEPT ![n][index] = 0]
  /\ Goto(t, to)
  /\ UNCHANGED <<list, allocated, deleted, hpVars, history>>

\* atomic_store of BUFFER_SIZE into an index that went past the end.
StoreIndex(t, from, n, index, to) ==
  /\ At(t, from) /\ n \in allocated
  /\ mem' = [mem EXCEPT ![n][index] = BUFFER_SIZE]
  /\ Goto(t, to)
  /\ UNCHANGED <<list, allocated, deleted, hpVars, history>>

\* Each value is pushed once, so that it can be told from the others.
Used == stored \cup {local[t].ret : t \in {u \in Threads : local[u].ret \in Items}}

PushCall(t) ==
  /\ ~deleted /\ Cardinality(Used) < Len(Pushes)
  /\ Load(t, "idle", "ret", Pushes[Cardinality(Used) + 1], "pushTail")

PushTail(t) == Load(t, "pushTail", "tail", tail, "pushProtectTail")

PushProtectTail(t) == ProtectLocal(t, "pushProtectTail", "tail", "pushIndex")

PushIndex(t) ==
  TakeIndex(t, "pushIndex", local[t].tail, "push_idx", "pushWrite", "pushReset")

\* Lines 75-76.
PushWrite(t) ==
  /\ At(t, "pushWrite") /\ local[t].tail \in allocated
  /\ mem' = [mem EXCEPT ![local[t].tail].buffer[local[t].idx] = local[t].ret]
  /\ stored' = stored \cup {local[t].ret}
  /\ Leave(t)
  /\ UNCHANGED <<list, allocated, deleted, hpVars, popped>>

PushReset(t) == StoreIndex(t, "pushReset", local[t].tail, "push_idx", "pushNext")

PushNext(t) ==
  /\ local[t].tail \in allocated
  /\ Load(t, "pushNext", "next", mem[local[t].tail].next, "pushProtectNext")

PushProtectNext(t) == ProtectLocal(t, "pushProtectNext", "next", "pushRecheck")

PushRecheck(t) ==
  /\ At(t, "pushRecheck")
  /\ Goto(t, IF local[t].tail # tail THEN "pushTail"
             ELSE IF local[t].next = Null THEN "pushNew" ELSE "pushHelp")
  /\ UNCHANGED <<shared, history>>

\* Lines 83-85; a push waits here when the addresses run out.
PushNew(t) ==
  /\ At(t, "pushNew")
  /\ \E n \in Nodes \ allocated :
       /\ allocated' = allocated \cup {n}
       /\ mem' = [mem EXCEPT ![n] =
                    [NewNode EXCEPT !.buffer[0] = local[t].ret, !.push_idx = 1]]
       /\ local' = [local EXCEPT ![t].node = n, ![t].pc = "pushLink"]
  /\ UNCHANGED <<list, deleted, hpVars, history>>

\* Fault: the new node is stored whatever tail->next holds.
LinksAlways(t) == TRUE

\* The comparison of line 86.
Links(t) == mem[local[t].tail].next = Null

\* Lines 86-88.  The tail is left to the threads that come later; when the exchange
\* fails the new node is forgotten.
PushLink(t) ==
  /\ At(t, "pushLink") /\ local[t].tail \in allocated
  /\ IF Links(t)
       THEN /\ mem' = [mem EXCEPT ![local[t].tail].next = local[t].node]
            /\ chain' = Append(chain, local[t].node)
            /\ stored' = stored \cup {local[t].ret}
            /\ Leave(t)
       ELSE /\ local' = [local EXCEPT ![t].node = Null, ![t].pc = "pushTail"]
            /\ UNCHANGED <<mem, chain, stored>>
  /\ UNCHANGED <<head, tail, allocated, deleted, hpVars, popped>>

PushHelp(t) == SwingTail(t, "pushHelp", "pushTail")

PopCall(t) ==
  At(t, "idle") /\ ~deleted /\ Goto(t, "popHead") /\ UNCHANGED <<shared, history>>

PopHead(t) == Load(t, "popHead", "head", head, "popIndex")

PopIndex(t) == TakeIndex(t, "popIndex", local[t].head, "pop_idx", "popRead", "popReset")

\* Line 106: whatever the slot holds is returned.
PopRead(t) ==
  LET value == mem[local[t].head].buffer[local[t].idx] IN
  /\ At(t, "popRead") /\ local[t].head \in allocated
  /\ local' = [local EXCEPT ![t].ret = value, ![t].pc = "popReturn"]
  /\ popped' = popped \cup ({value} \ {EMPTY_VALUE})
  /\ UNCHANGED <<shared, stored>>

PopReset(t) == StoreIndex(t, "popReset", local[t].head, "pop_idx", "popTail")

PopTail(t) == Load(t, "popTail", "tail", tail, "popNext")

PopNext(t) ==
  /\ local[t].head \in allocated
  /\ Load(t, "popNext", "next", mem[local[t].head].next, "popRecheck")

PopRecheck(t) ==
  /\ At(t, "popRecheck")
  /\ Goto(t, IF local[t].head # head THEN "popHead"
             ELSE IF local[t].head # local[t].tail THEN "popSwing"
             ELSE IF local[t].next = Null THEN "popEmpty" ELSE "popHelp")
  /\ UNCHANGED <<shared, history>>

PopEmpty(t) == Load(t, "popEmpty", "ret", EMPTY_VALUE, "popReturn")

PopHelp(t) == SwingTail(t, "popHelp", "popHead")

PopSwing(t) ==
  /\ At(t, "popSwing")
  /\ IF head = local[t].head
       THEN /\ head' = local[t].next
            /\ chain' = Tail(chain)
            /\ Goto(t, "popRetire")
       ELSE Goto(t, "popHead") /\ UNCHANGED <<head, chain>>
  /\ UNCHANGED <<tail, mem, allocated, deleted, hpVars, history>>

\* Lines 118-119: the node is retired and pop starts again.
PopRetire(t) ==
  /\ At(t, "popRetire")
  /\ \/ Retire(t, local[t].head) \/ ScanPointer(t) \/ RetireStore(t, local[t].head)
  /\ Goto(t, IF scan'[t].pc = "out" THEN "popHead" ELSE "popRetire")
  /\ UNCHANGED <<list, mem, deleted, history>>

PopReturn(t) == At(t, "popReturn") /\ Leave(t) /\ UNCHANGED <<shared, history>>

IsEmptyHead(t) == ~deleted /\ Load(t, "idle", "head", head, "isEmptyTail")

IsEmptyTail(t) == Load(t, "isEmptyTail", "tail", tail, "isEmptyNext")

IsEmptyNext(t) ==
  /\ local[t].head \in allocated
  /\ Load(t, "isEmptyNext", "ret",
          local[t].head = local[t].tail /\ mem[local[t].head].next = Null, "isEmptyReturn")

IsEmptyReturn(t) == At(t, "isEmptyReturn") /\ Leave(t) /\ UNCHANGED <<shared, history>>

\* BLQueue_delete after all operations: the nodes from head on, which are those of
\* chain, then what HazardPointer_finalize finds in the retired arrays.
Delete ==
  /\ ~deleted /\ \A t \in Threads : At(t, "idle")
  /\ deleted' = TRUE
  /\ allocated' = allocated \ (ToSet(chain) \cup Retired)
  /\ HPFinalize
  /\ UNCHANGED <<local, list, mem, history>>

Push(t) ==
  \/ PushCall(t) \/ PushTail(t) \/ PushProtectTail(t) \/ PushIndex(t) \/ PushWrite(t)
  \/ PushReset(t) \/ PushNext(t) \/ PushProtectNext(t) \/ PushRecheck(t) \/ PushNew(t)
  \/ PushLink(t) \/ PushHelp(t)

Pop(t) ==
  \/ PopCall(t) \/ PopHead(t) \/ PopIndex(t) \/ PopRead(t) \/ PopReset(t) \/ PopTail(t)
  \/ PopNext(t) \/ PopRecheck(t) \/ PopEmpty(t) \/ PopHelp(t) \/ PopSwing(t)
  \/ PopRetire(t) \/ PopReturn(t)

IsEmpty(t) == IsEmptyHead(t) \/ IsEmptyTail(t) \/ IsEmptyNext(t) \/ IsEmptyReturn(t)

Next == (\E t \in Threads : Push(t) \/ Pop(t) \/ IsEmpty(t)) \/ Delete

Spec == Init /\ [][Next]_vars
-----------------------------------------------------------------------------
\* The fields and locals of BLQueue.c keep their types; an index passes the end of
\* the buffer by at most one for every thread that has yet to store it back.
TypeOK ==
  /\ HPTypeOK
  /\ \A t \in Threads :
       /\ {local[t].node, local[t].head, local[t].tail, local[t].next}
            \subseteq Nodes \cup {Null}
       /\ local[t].ret \in Items \cup {EMPTY_VALUE, None} \cup BOOLEAN
  /\ {head, tail} \subseteq Nodes
  /\ mem \in [Nodes -> [next : Nodes \cup {Null},
                        buffer : [Slots -> Items \cup {EMPTY_VALUE}],
                        push_idx : 0..(BUFFER_SIZE + num_threads),
                        pop_idx : 0..(BUFFER_SIZE + num_threads)]]
  /\ stored \subseteq Items /\ popped \subseteq Items

\* The nodes from head on are the linked ones, in order; the tail is at most one
\* node behind and the head never passes it (lines 81-92, 111-123).
ListIntact ==
  /\ TypeOK
  /\ chain # <<>> /\ head = chain[1]
  /\ \A i \in 1..Len(chain) :
       mem[chain[i]].next = IF i = Len(chain) THEN Null ELSE chain[i + 1]
  /\ \A i, j \in 1..Len(chain) : chain[i] = chain[j] => i = j
  /\ \E i \in 1..Len(chain) : i + 1 >= Len(chain) /\ tail = chain[i]

\* The slot whose index t has taken.
SlotOf(t, n) == <<n, local[t].idx>>

\* A slot is given to one pusher only, and it is still untouched when that pusher
\* writes it, though late threads store BUFFER_SIZE over the counter others have
\* advanced (lines 73-78).
SlotsOwned ==
  \A t \in Threads : At(t, "pushWrite") =>
    /\ mem[local[t].tail].buffer[local[t].idx] = EMPTY_VALUE
    /\ \A u \in Threads \ {t} :
         At(u, "pushWrite") => SlotOf(u, local[u].tail) # SlotOf(t, local[t].tail)

\* No value is popped twice (lines 104-108, 117).
PoppedOnce ==
  \A t \in Threads :
    At(t, "popRead") => mem[local[t].head].buffer[local[t].idx] \notin popped
=============================================================================
