------------------------------- MODULE LLQueue -------------------------------
(***************************************************************************)
(* LLQueue.c of PW/projekt3: the lock-free list queue with hazard pointers.*)
(* Every atomic operation is a step, so is every read of a node's fields.  *)
(* A dereference of a freed node has no meaning in C: the thread that      *)
(* would do it takes no further step, and NoUseAfterFree is violated.      *)
(***************************************************************************)
EXTENDS HazardPointer, Sequences, FiniteSets, SequencesExt

CONSTANTS Values, EMPTY_VALUE, None

ASSUME LLQueueAssumption == EMPTY_VALUE \notin Values

VARIABLES
  local,       \* local[t]: where t is (pc), its locals, its argument or result (ret)
  head, tail,
  mem,         \* mem[n]: the fields of node n
  deleted,
  chain,       \* history: the nodes of the list, in the order they were linked
  seen         \* history: see FifoQueue

list   == <<head, tail, chain>>
shared == <<list, mem, allocated, deleted, hpVars>>
vars   == <<local, shared, seen>>

\* A thread between two operations has no locals; node is the new node of push.
Idle == [pc |-> "idle", node |-> Null, head |-> Null, tail |-> Null, next |-> Null,
         ret |-> None]

Init ==
  /\ HPInit
  /\ local = [t \in Threads |-> Idle]
  /\ head \in Nodes /\ tail = head
  /\ mem = [n \in Nodes |-> [next |-> Null, item |-> EMPTY_VALUE]]
  /\ allocated = {head}
  /\ deleted = FALSE
  /\ chain = <<head>>
  /\ seen = [t \in Threads |-> {}]

At(t, place) == local[t].pc = place
Goto(t, place) == local' = [local EXCEPT ![t].pc = place]
Leave(t) == local' = [local EXCEPT ![t] = Idle]

\* A step that reads something into a local variable.
Load(t, from, name, value, to) ==
  /\ At(t, from)
  /\ local' = [local EXCEPT ![t].pc = to, ![t][name] = value]
  /\ UNCHANGED shared

ProtectLocal(t, from, name, to) ==
  /\ At(t, from)
  /\ Protect(t, local[t][name])
  /\ Goto(t, to)
  /\ UNCHANGED <<list, mem, allocated, deleted>>

\* compare_exchange(&queue->tail, &tail, new)
SwingTail(t, new) == tail' = IF tail = local[t].tail THEN new ELSE tail

\* LLNode_new; the callers stop pushing when the addresses run out.
PushNew(t) ==
  /\ At(t, "idle") /\ ~deleted
  /\ \E n \in Nodes \ allocated, v \in Values :
       /\ allocated' = allocated \cup {n}
       /\ mem' = [mem EXCEPT ![n] = [next |-> Null, item |-> v]]
       /\ local' = [local EXCEPT ![t].pc = "pushTail", ![t].node = n, ![t].ret = v]
  /\ UNCHANGED <<list, deleted, hpVars>>

PushTail(t) == Load(t, "pushTail", "tail", tail, "pushProtectTail")

PushProtectTail(t) == ProtectLocal(t, "pushProtectTail", "tail", "pushNext")

PushNext(t) ==
  /\ local[t].tail \in allocated
  /\ Load(t, "pushNext", "next", mem[local[t].tail].next, "pushProtectNext")

\* Fault: the successor is not protected, the old tail stays reserved.
PushProtectNextNot(t) ==
  At(t, "pushProtectNext") /\ Goto(t, "pushRecheck") /\ UNCHANGED shared

PushProtectNext(t) == ProtectLocal(t, "pushProtectNext", "next", "pushRecheck")

\* Lines 67 and 68.
AfterPushRecheck(t) ==
  IF local[t].tail # tail THEN "pushTail"
  ELSE IF local[t].next = Null THEN "pushLink" ELSE "pushHelp"

PushRecheck(t) ==
  At(t, "pushRecheck") /\ Goto(t, AfterPushRecheck(t)) /\ UNCHANGED shared

\* Line 69: the compare-and-exchange of tail->next from NULL to the new node.
PushLink(t) ==
  /\ At(t, "pushLink") /\ local[t].tail \in allocated
  /\ IF mem[local[t].tail].next = Null
       THEN /\ mem' = [mem EXCEPT ![local[t].tail].next = local[t].node]
            /\ chain' = Append(chain, local[t].node)
            /\ Goto(t, "pushSwing")
       ELSE Goto(t, "pushTail") /\ UNCHANGED <<mem, chain>>
  /\ UNCHANGED <<head, tail, allocated, deleted, hpVars>>

\* Fault: a lagging tail is left to the thread that linked the node.
PushHelpNot(t) == At(t, "pushHelp") /\ Goto(t, "pushTail") /\ UNCHANGED shared

\* Line 73: a lagging tail is moved on, for whoever linked the node.
PushHelp(t) ==
  /\ At(t, "pushHelp")
  /\ SwingTail(t, local[t].next)
  /\ Goto(t, "pushTail")
  /\ UNCHANGED <<head, chain, mem, allocated, deleted, hpVars>>

\* Fault: the tail is stored without comparing the old value.
PushSwingStore(t) ==
  /\ At(t, "pushSwing") /\ tail' = local[t].node /\ Leave(t)
  /\ UNCHANGED <<head, chain, mem, allocated, deleted, hpVars>>

PushSwing(t) ==
  /\ At(t, "pushSwing")
  /\ SwingTail(t, local[t].node)
  /\ Leave(t)
  /\ UNCHANGED <<head, chain, mem, allocated, deleted, hpVars>>

PopCall(t) == At(t, "idle") /\ ~deleted /\ Goto(t, "popHead") /\ UNCHANGED shared

PopHead(t) == Load(t, "popHead", "head", head, "popTail")

PopTail(t) == Load(t, "popTail", "tail", tail, "popNext")

PopNext(t) ==
  /\ local[t].head \in allocated
  /\ Load(t, "popNext", "next", mem[local[t].head].next, "popRecheck")

\* Fault: head = tail is taken for an empty queue.
AfterPopRecheckTail(t) ==
  IF local[t].head # head THEN "popHead"
  ELSE IF local[t].head # local[t].tail THEN "popValue" ELSE "popEmpty"

\* Lines 90 to 92.
AfterPopRecheck(t) ==
  IF local[t].head # head THEN "popHead"
  ELSE IF local[t].head # local[t].tail THEN "popValue"
  ELSE IF local[t].next = Null THEN "popEmpty" ELSE "popHelp"

PopRecheck(t) == At(t, "popRecheck") /\ Goto(t, AfterPopRecheck(t)) /\ UNCHANGED shared

PopEmpty(t) == Load(t, "popEmpty", "ret", EMPTY_VALUE, "popReturn")

PopHelp(t) ==
  /\ At(t, "popHelp")
  /\ SwingTail(t, local[t].next)
  /\ Goto(t, "popHead")
  /\ UNCHANGED <<head, chain, mem, allocated, deleted, hpVars>>

PopValue(t) ==
  /\ local[t].next \in allocated
  /\ Load(t, "popValue", "ret", mem[local[t].next].item, "popSwing")

\* Line 97: the compare-and-exchange of queue->head.
PopSwing(t) ==
  /\ At(t, "popSwing")
  /\ IF head = local[t].head
       THEN /\ head' = local[t].next
            /\ chain' = Tail(chain)
            /\ Goto(t, "popRetire")
       ELSE Goto(t, "popHead") /\ UNCHANGED <<head, chain>>
  /\ UNCHANGED <<tail, mem, allocated, deleted, hpVars>>

\* Line 98: HazardPointer_retire(&queue->hp, head).
PopRetire(t) ==
  /\ At(t, "popRetire")
  /\ \/ Retire(t, local[t].head) \/ ScanPointer(t) \/ RetireStore(t, local[t].head)
  /\ Goto(t, IF scan'[t].pc = "out" THEN "popReturn" ELSE "popRetire")
  /\ UNCHANGED <<list, mem, deleted>>

PopReturn(t) == At(t, "popReturn") /\ Leave(t) /\ UNCHANGED shared

IsEmptyHead(t) == ~deleted /\ Load(t, "idle", "head", head, "isEmptyTail")

IsEmptyTail(t) == Load(t, "isEmptyTail", "tail", tail, "isEmptyNext")

IsEmptyNext(t) ==
  /\ local[t].head \in allocated
  /\ Load(t, "isEmptyNext", "ret",
          local[t].head = local[t].tail /\ mem[local[t].head].next = Null, "isEmptyReturn")

IsEmptyReturn(t) == At(t, "isEmptyReturn") /\ Leave(t) /\ UNCHANGED shared

\* LLQueue_delete after all operations: the nodes from head on, which are those of
\* chain, then what HazardPointer_finalize finds in the retired arrays.
Delete ==
  /\ ~deleted /\ \A t \in Threads : At(t, "idle")
  /\ deleted' = TRUE
  /\ allocated' = allocated \ (ToSet(chain) \cup Retired)
  /\ HPFinalize
  /\ UNCHANGED <<local, list, mem>>

PushOp(t) ==
  \/ PushTail(t) \/ PushProtectTail(t) \/ PushNext(t) \/ PushProtectNext(t)
  \/ PushRecheck(t) \/ PushLink(t) \/ PushHelp(t) \/ PushSwing(t)

PopOp(t) ==
  \/ PopHead(t) \/ PopTail(t) \/ PopNext(t) \/ PopRecheck(t) \/ PopEmpty(t)
  \/ PopHelp(t) \/ PopValue(t) \/ PopSwing(t) \/ PopRetire(t) \/ PopReturn(t)

Op(t) == \/ PushOp(t) \/ PopOp(t)
         \/ IsEmptyTail(t) \/ IsEmptyNext(t) \/ IsEmptyReturn(t)

Call(t) == PushNew(t) \/ PopCall(t) \/ IsEmptyHead(t)
-----------------------------------------------------------------------------
(***************************************************************************)
(* The abstract queue: a push takes effect with the exchange of tail->next,*)
(* a pop with that of head; a pop that finds nothing, and is_empty, have   *)
(* seen their answer when they loaded head->next.                          *)
(***************************************************************************)
Pushing == {"pushTail", "pushProtectTail", "pushNext", "pushProtectNext",
            "pushRecheck", "pushLink", "pushHelp"}
Popping == {"popHead", "popTail", "popNext", "popRecheck", "popEmpty", "popHelp",
            "popValue", "popSwing"}

Calling(t) ==
  LET pc == local[t].pc
      Phase(op, val) == [op |-> op, val |-> val]
  IN CASE pc \in Pushing                        -> Phase("push", local[t].ret)
       [] pc = "pushSwing"                      -> Phase("pushed", None)
       [] pc \in Popping                        -> Phase("pop", None)
       [] pc \in {"popRetire", "popReturn"}     -> Phase("popped", local[t].ret)
       [] pc \in {"isEmptyTail", "isEmptyNext"} -> Phase("is_empty", None)
       [] pc = "isEmptyReturn"                  -> Phase("answered", local[t].ret)
       [] pc = "idle"                           -> Phase("idle", None)

Fifo == INSTANCE FifoQueue WITH
  queue <- [i \in 1..(Len(chain) - 1) |-> mem[chain[i + 1]].item],
  call  <- [t \in Threads |-> Calling(t)]

Next == /\ (\E t \in Threads : Call(t) \/ Op(t)) \/ Delete
        /\ Fifo!Witness

Spec == Init /\ [][Next]_vars

-----------------------------------------------------------------------------
\* The fields and locals of LLQueue.c keep their types.
TypeOK ==
  /\ HPTypeOK
  /\ \A t \in Threads :
       /\ local[t].pc \in Pushing \cup Popping \cup
            {"idle", "pushSwing", "popRetire", "popReturn", "isEmptyTail",
             "isEmptyNext", "isEmptyReturn"}
       /\ {local[t].node, local[t].head, local[t].tail, local[t].next}
            \subseteq Nodes \cup {Null}
       /\ local[t].ret \in Values \cup {EMPTY_VALUE, None} \cup BOOLEAN
  /\ {head, tail} \subseteq Nodes
  /\ mem \in [Nodes -> [next : Nodes \cup {Null}, item : Values \cup {EMPTY_VALUE}]]

\* The nodes from head on are the linked ones, in order, however many threads help
\* to move the tail; the tail is at most one node behind and the head never passes it.
ListIntact ==
  /\ TypeOK
  /\ chain # <<>> /\ head = chain[1]
  /\ \A i \in 1..Len(chain) :
       mem[chain[i]].next = IF i = Len(chain) THEN Null ELSE chain[i + 1]
  /\ \A i, j \in 1..Len(chain) : chain[i] = chain[j] => i = j
  /\ \E i \in 1..Len(chain) : i + 1 >= Len(chain) /\ tail = chain[i]

\* The nodes the next step of t dereferences, or frees.
Touches(t) ==
  CASE local[t].pc \in {"pushNext", "pushLink"}   -> {local[t].tail}
    [] local[t].pc \in {"popNext", "isEmptyNext"} -> {local[t].head}
    [] local[t].pc = "popValue"                   -> {local[t].next}
    [] scan[t].pc = "scan" /\ scan[t].j + 1 = num_threads
         /\ pointer[scan[t].j] # scan[t].rptr     -> {scan[t].rptr}
    [] OTHER                                      -> {}

\* No thread dereferences a node another one has freed, or frees one twice
\* (readme.md, lines 170 and 174).
NoUseAfterFree == \A t \in Threads : Touches(t) \subseteq allocated

\* What is retired no pointer of the queue reaches any more (readme.md, line 192):
\* a push leaves its thread with an empty reservation, so that line 78 of
\* HazardPointer.c adds no node that is still in use.
RetiredUnlinked == ToSet(chain) \cap Retired = {}

\* push, pop and is_empty are linearizable (readme.md, line 17).
Linearizable == Fifo!Spec
=============================================================================
