-------------------------- MODULE RingsQueueProofs --------------------------
(***************************************************************************)
(* Proofs about RingsQueue, for every set of threads, values and addresses *)
(* and every size of the buffers: the list of buffers stays whole, push    *)
(* and pop use no memory that is gone, and they implement FifoQueue.       *)
(***************************************************************************)
EXTENDS RingsQueue, TLAPS, SequenceTheorems, WellFoundedInduction

Slots   == Values \cup {EMPTY_VALUE}
Buffers == [1..RING_SIZE -> Slots]
Fields  == [next : Nodes \cup {Null}, buffer : Buffers \cup {Null},
            push_idx : 0..RING_SIZE, pop_idx : 0..RING_SIZE]

Places == Answering \cup
            {"idle", "pushLock", "pushExtend", "pushWrite", "pushPublish", "pushUnlock",
             "popLock", "popNext", "popCheck", "popLast", "popLastUnlock", "popFree",
             "popItem", "popUnlock", "isEmptyReturn"}
Results == Values \cup {EMPTY_VALUE, None} \cup BOOLEAN
Locals  == [pc : Places, node : Nodes \cup {Null}, new_head : Nodes \cup {Null},
            ret : Results]

Typed ==
  /\ local \in [Threads -> Locals]
  /\ mem \in [Nodes -> Fields]
  /\ chain \in Seq(Nodes) /\ {head, tail} \subseteq Nodes
  /\ mtx \in [{"push", "pop"} -> Threads \cup {NoThread}]
  /\ allocated \subseteq Nodes
  /\ deleted \in BOOLEAN

\* Who is between lock and unlock holds the mutex.
UnderPush == {"pushExtend", "pushWrite", "pushPublish", "pushUnlock"}
UnderPop  == {"popNext", "popCheck", "popLast", "popLastUnlock", "popItem", "popUnlock",
              "isEmptyNext", "isEmptyUnlock"}

MutexesHeld ==
  \A t \in Threads : /\ local[t].pc \in UnderPush => mtx["push"] = t
                     /\ local[t].pc \in UnderPop  => mtx["pop"] = t

\* The shape of the list, without the types: see ListIntact.
InList(n) == \E i \in 1..Len(chain) : chain[i] = n

ListWhole ==
  /\ chain # <<>> /\ head = chain[1] /\ tail = chain[Len(chain)]
  /\ \A i \in 1..Len(chain) :
       mem[chain[i]].next = IF i = Len(chain) THEN Null ELSE chain[i + 1]
  /\ \A i, j \in 1..Len(chain) : chain[i] = chain[j] => i = j
  /\ mem[head].buffer = Null
  /\ \A i \in 2..Len(chain) :
       /\ mem[chain[i]].buffer # Null
       /\ mem[chain[i]].pop_idx <= mem[chain[i]].push_idx
       /\ i < Len(chain) => mem[chain[i]].push_idx = RING_SIZE

\* What a pusher has read under its mutex stays so: the tail has room, which a
\* popper never takes from it, or it never will have.
Pushing(t) ==
  /\ local[t].pc \in {"pushLock", "pushExtend", "pushWrite"} => local[t].ret \in Values
  /\ At(t, "pushExtend") => tail = head \/ mem[tail].push_idx = RING_SIZE
  /\ local[t].pc \in {"pushWrite", "pushPublish"} =>
       tail # head /\ mem[tail].push_idx < RING_SIZE

\* What a popper has read under its mutex: a pusher can only add to it.
Popping(t) ==
  /\ local[t].pc \in {"popCheck", "popItem", "popLast"} =>
       Len(chain) > 1 /\ local[t].node = head /\ local[t].new_head = chain[2]
  /\ At(t, "popItem") => mem[local[t].new_head].pop_idx < mem[local[t].new_head].push_idx
  /\ At(t, "popLast") => mem[local[t].new_head].push_idx = RING_SIZE

\* The old first node belongs to the thread that is going to free it.
Holding(t) == local[t].pc \in {"popLastUnlock", "popFree"}

Freeing(t) ==
  Holding(t) => /\ local[t].node \in allocated /\ ~InList(local[t].node)
                /\ mem[local[t].node].buffer = Null

NodesOwned ==
  /\ \A t \in Threads : Pushing(t) /\ Popping(t) /\ Freeing(t)
  /\ \A t, u \in Threads :
       t # u /\ Holding(t) /\ Holding(u) => local[t].node # local[u].node

\* All nodes are in the list or held; Delete comes when the threads are done.
Accounted ==
  IF deleted THEN allocated = {} /\ \A t \in Threads : At(t, "idle")
  ELSE /\ \A i \in 1..Len(chain) : chain[i] \in allocated
       /\ \A n \in allocated :
            InList(n) \/ \E t \in Threads : Holding(t) /\ local[t].node = n

IInv == Typed /\ MutexesHeld /\ ListWhole /\ NodesOwned /\ Accounted
-----------------------------------------------------------------------------
(***************************************************************************)
(* Steps that only move a thread.                                          *)
(***************************************************************************)
OnlyLocal(t) == /\ local' \in [Threads -> Locals]
                /\ \A u \in Threads \ {t} : local'[u] = local[u]

LEMMA GotoLocal ==
  ASSUME Typed, NEW t \in Threads, NEW place \in Places, Goto(t, place)
  PROVE  /\ OnlyLocal(t) /\ local'[t].pc = place
         /\ local'[t].node = local[t].node /\ local'[t].new_head = local[t].new_head
         /\ local'[t].ret = local[t].ret
BY DEF Typed, Goto, OnlyLocal, Locals

LEMMA AnswersLocal ==
  ASSUME Typed, NEW t \in Threads, NEW place \in Places, NEW value \in Results,
         Answers(t, value, place)
  PROVE  /\ OnlyLocal(t) /\ local'[t].pc = place /\ local'[t].ret = value
         /\ local'[t].node = local[t].node /\ local'[t].new_head = local[t].new_head
<1>1. [local[t] EXCEPT !.ret = value, !.pc = place] \in Locals
  BY DEF Typed, Locals
<1>2. local' = [local EXCEPT ![t] = [local[t] EXCEPT !.ret = value, !.pc = place]]
  BY DEF Typed, Answers
<1> QED BY <1>1, <1>2 DEF Typed, OnlyLocal, Locals

LEMMA LeaveLocal ==
  ASSUME Typed, NEW t \in Threads, Leave(t)
  PROVE  OnlyLocal(t) /\ local'[t].pc = "idle"
<1>1. Idle \in Locals
  BY DEF Idle, Locals, Places, Results
<1> QED BY <1>1 DEF Typed, Leave, OnlyLocal, Idle

\* A step of t that changes neither the list nor a node, and after which t holds
\* what it held, keeps all that IInv says of them.
LEMMA ListFrame ==
  ASSUME IInv, ~deleted, NEW t \in Threads, OnlyLocal(t),
         UNCHANGED <<list, mem, allocated, deleted>>, MutexesHeld',
         mtx' \in [{"push", "pop"} -> Threads \cup {NoThread}],
         Pushing(t)', Popping(t)',
         Holding(t)' <=> Holding(t), local'[t].node = local[t].node \/ ~Holding(t)
  PROVE  IInv'
<1> USE DEF IInv, OnlyLocal, list
<1>1. ListWhole'
  BY DEF ListWhole
<1>2. \A n : InList(n)' <=> InList(n)
  BY DEF InList
<1>3. \A u \in Threads : /\ Holding(u)' <=> Holding(u)
                         /\ Holding(u) => local'[u].node = local[u].node
  BY DEF Holding
<1>4. NodesOwned'
  <2>1. \A u \in Threads : Freeing(u)'
    BY <1>2, <1>3 DEF NodesOwned, Freeing
  <2>2. \A u \in Threads \ {t} : Pushing(u)' /\ Popping(u)'
    BY DEF NodesOwned, Pushing, Popping, At
  <2> QED BY <1>3, <2>1, <2>2 DEF NodesOwned
<1>5. Accounted'
  BY <1>2, <1>3 DEF Accounted
<1>6. Typed'
  BY DEF Typed
<1> QED BY <1>1, <1>4, <1>5, <1>6

\* The first node of the list has no buffer, all others have one.
LEMMA TailHasRoom ==
  ASSUME IInv
  PROVE  /\ Len(chain) \in Nat \ {0} /\ \A i \in 1..Len(chain) : chain[i] \in Nodes
         /\ tail = head <=> Len(chain) = 1
         /\ tail # head => mem[tail].buffer # Null
<1>1. Len(chain) \in Nat \ {0} /\ \A i \in 1..Len(chain) : chain[i] \in Nodes
  BY DEF IInv, Typed, ListWhole
<1>2. 1 \in 1..Len(chain) /\ Len(chain) \in 1..Len(chain)
  BY <1>1
<1>3. tail = head <=> Len(chain) = 1
  BY <1>2 DEF IInv, ListWhole
<1>4. tail # head => mem[tail].buffer # Null
  <2>1. tail # head => Len(chain) \in 2..Len(chain)
    BY <1>1, <1>3
  <2> QED BY <2>1 DEF IInv, ListWhole
<1> QED BY <1>1, <1>3, <1>4

LEMMA LockHeld ==
  ASSUME Typed, MutexesHeld, NEW t \in Threads, OnlyLocal(t), NEW m \in {"push", "pop"},
         mtx[m] = NoThread, mtx' = [mtx EXCEPT ![m] = t],
         local'[t].pc \in UnderPush => m = "push",
         local'[t].pc \in UnderPop => m = "pop"
  PROVE  MutexesHeld' /\ mtx' \in [{"push", "pop"} -> Threads \cup {NoThread}]
<1>1. \A u \in Threads : u # NoThread
  BY RingsQueueAssumption
<1> QED BY <1>1 DEF Typed, MutexesHeld, OnlyLocal

LEMMA UnlockHeld ==
  ASSUME Typed, MutexesHeld, NEW t \in Threads, OnlyLocal(t), NEW m \in {"push", "pop"},
         mtx' = [mtx EXCEPT ![m] = NoThread], mtx[m] = t,
         local'[t].pc \notin UnderPush \cup UnderPop
  PROVE  MutexesHeld' /\ mtx' \in [{"push", "pop"} -> Threads \cup {NoThread}]
BY DEF Typed, MutexesHeld, OnlyLocal

LEMMA StayHeld ==
  ASSUME Typed, MutexesHeld, NEW t \in Threads, OnlyLocal(t), mtx' = mtx,
         local'[t].pc \in UnderPush => local[t].pc \in UnderPush,
         local'[t].pc \in UnderPop => local[t].pc \in UnderPop
  PROVE  MutexesHeld' /\ mtx' \in [{"push", "pop"} -> Threads \cup {NoThread}]
BY DEF Typed, MutexesHeld, OnlyLocal
-----------------------------------------------------------------------------
(***************************************************************************)
(* Each action preserves IInv.                                             *)
(***************************************************************************)
LEMMA CallStep ==
  ASSUME IInv, NEW t \in Threads, NEW place \in {"popLock", "isEmptyLock"}, Call(t, place)
  PROVE  IInv'
<1>1. OnlyLocal(t) /\ local'[t].pc = place
  BY GotoLocal DEF IInv, Call, Places, Answering
<1>2. MutexesHeld' /\ mtx' \in [{"push", "pop"} -> Threads \cup {NoThread}]
  BY <1>1, StayHeld DEF IInv, Call, UnderPush, UnderPop
<1>3. Pushing(t)' /\ Popping(t)' /\ ~Holding(t)' /\ ~Holding(t)
  BY <1>1 DEF Pushing, Popping, Holding, Call, At
<1> QED BY <1>1, <1>2, <1>3, ListFrame DEF Call

LEMMA PushCallStep ==
  ASSUME IInv, NEW t \in Threads, PushCall(t)
  PROVE  IInv'
<1>1. PICK v \in Values : Answers(t, v, "pushLock")
  BY DEF PushCall
<1>2. OnlyLocal(t) /\ local'[t].pc = "pushLock" /\ local'[t].ret = v
  BY <1>1, AnswersLocal DEF IInv, Places, Results
<1>3. MutexesHeld' /\ mtx' \in [{"push", "pop"} -> Threads \cup {NoThread}]
  BY <1>2, StayHeld DEF IInv, PushCall, UnderPush, UnderPop
<1>4. Pushing(t)' /\ Popping(t)' /\ ~Holding(t)' /\ ~Holding(t)
  BY <1>2 DEF Pushing, Popping, Holding, PushCall, At
<1> QED BY <1>2, <1>3, <1>4, ListFrame DEF PushCall

LEMMA PushLockStep ==
  ASSUME IInv, NEW t \in Threads, PushLock(t)
  PROVE  IInv'
<1> DEFINE place == IF mem[tail].push_idx = RING_SIZE \/ mem[tail].buffer = Null
                      THEN "pushExtend" ELSE "pushWrite"
<1>1. At(t, "pushLock") /\ mtx["push"] = NoThread /\ mtx' = [mtx EXCEPT !["push"] = t]
      /\ Goto(t, place) /\ UNCHANGED <<list, mem, allocated, deleted>>
  BY DEF PushLock, Lock
<1>2. /\ OnlyLocal(t) /\ local'[t].pc = place /\ local'[t].ret = local[t].ret
      /\ local'[t].node = local[t].node
  BY <1>1, GotoLocal DEF IInv, Places
<1>3. MutexesHeld' /\ mtx' \in [{"push", "pop"} -> Threads \cup {NoThread}]
  BY <1>1, <1>2, LockHeld DEF IInv, UnderPush, UnderPop
<1>4. Pushing(t)'
  <2>1. local[t].ret \in Values
    BY <1>1 DEF IInv, NodesOwned, Pushing, At
  <2>2. mem[tail].push_idx \in 0..RING_SIZE /\ mem[head].buffer = Null
    BY DEF IInv, Typed, ListWhole, Fields
  <2>3. tail # head => mem[tail].buffer # Null
    BY TailHasRoom
  <2> QED BY <1>1, <1>2, <2>1, <2>2, <2>3, RingsQueueAssumption DEF Pushing, At, list
<1>5. Popping(t)' /\ ~Holding(t)' /\ ~Holding(t) /\ ~deleted
  BY <1>1, <1>2 DEF Popping, Holding, At, IInv, Accounted
<1> QED BY <1>1, <1>2, <1>3, <1>4, <1>5, ListFrame

LEMMA PushUnlockStep ==
  ASSUME IInv, NEW t \in Threads, PushUnlock(t)
  PROVE  IInv'
<1>1. OnlyLocal(t) /\ local'[t].pc = "idle"
  BY LeaveLocal DEF IInv, PushUnlock
<1>2. mtx["push"] = t
  BY DEF IInv, MutexesHeld, PushUnlock, Unlock, At, UnderPush
<1>3. MutexesHeld' /\ mtx' \in [{"push", "pop"} -> Threads \cup {NoThread}]
  BY <1>1, <1>2, UnlockHeld DEF IInv, PushUnlock, Unlock, UnderPush, UnderPop
<1>4. Pushing(t)' /\ Popping(t)' /\ ~Holding(t)' /\ ~Holding(t) /\ ~deleted
  BY <1>1 DEF Pushing, Popping, Holding, PushUnlock, Unlock, At, IInv, Accounted
<1> QED BY <1>1, <1>3, <1>4, ListFrame DEF PushUnlock, Unlock

LEMMA PopUnlockStep ==
  ASSUME IInv, NEW t \in Threads, PopUnlock(t)
  PROVE  IInv'
<1>1. OnlyLocal(t) /\ local'[t].pc = "idle"
  BY LeaveLocal DEF IInv, PopUnlock
<1>2. mtx["pop"] = t
  BY DEF IInv, MutexesHeld, PopUnlock, Unlock, At, UnderPop
<1>3. MutexesHeld' /\ mtx' \in [{"push", "pop"} -> Threads \cup {NoThread}]
  BY <1>1, <1>2, UnlockHeld DEF IInv, PopUnlock, Unlock, UnderPush, UnderPop
<1>4. Pushing(t)' /\ Popping(t)' /\ ~Holding(t)' /\ ~Holding(t) /\ ~deleted
  BY <1>1 DEF Pushing, Popping, Holding, PopUnlock, Unlock, At, IInv, Accounted
<1> QED BY <1>1, <1>3, <1>4, ListFrame DEF PopUnlock, Unlock

LEMMA PopLockStep ==
  ASSUME IInv, NEW t \in Threads, NEW from \in {"popLock", "isEmptyLock"},
         NEW to \in {"popNext", "isEmptyNext"}, Lock(t, from, "pop", to)
  PROVE  IInv'
<1>1. OnlyLocal(t) /\ local'[t].pc = to
  BY GotoLocal DEF IInv, Lock, Places, Answering
<1>2. MutexesHeld' /\ mtx' \in [{"push", "pop"} -> Threads \cup {NoThread}]
  BY <1>1, LockHeld DEF IInv, Lock, UnderPush, UnderPop
<1>3. Pushing(t)' /\ Popping(t)' /\ ~Holding(t)' /\ ~Holding(t) /\ ~deleted
  BY <1>1 DEF Pushing, Popping, Holding, Lock, At, IInv, Accounted
<1> QED BY <1>1, <1>2, <1>3, ListFrame DEF Lock

LEMMA PopLastUnlockStep ==
  ASSUME IInv, NEW t \in Threads, PopLastUnlock(t)
  PROVE  IInv'
<1>1. OnlyLocal(t) /\ local'[t].pc = "popFree" /\ local'[t].node = local[t].node
  BY GotoLocal DEF IInv, PopLastUnlock, Places
<1>2. mtx["pop"] = t
  BY DEF IInv, MutexesHeld, PopLastUnlock, Unlock, At, UnderPop
<1>3. MutexesHeld' /\ mtx' \in [{"push", "pop"} -> Threads \cup {NoThread}]
  BY <1>1, <1>2, UnlockHeld DEF IInv, PopLastUnlock, Unlock, UnderPush, UnderPop
<1>4. Pushing(t)' /\ Popping(t)' /\ Holding(t)' /\ Holding(t) /\ ~deleted
  BY <1>1 DEF Pushing, Popping, Holding, PopLastUnlock, Unlock, At, IInv, Accounted
<1> QED BY <1>1, <1>3, <1>4, ListFrame DEF PopLastUnlock, Unlock

LEMMA NextNodeLocal ==
  ASSUME IInv, NEW t \in Threads, PopNext(t), NEW n, n = mem[head].next
  PROVE  /\ OnlyLocal(t) /\ local'[t].node = head /\ local'[t].new_head = n
         /\ local'[t].pc = IF n = Null THEN "popUnlock" ELSE "popCheck"
         /\ n = Null => local'[t].ret = EMPTY_VALUE
<1>1. n \in Nodes \cup {Null}
  BY DEF IInv, Typed, Fields
<1>2. [pc |-> IF n = Null THEN "popUnlock" ELSE "popCheck", node |-> head,
       new_head |-> n, ret |-> IF n = Null THEN EMPTY_VALUE ELSE None] \in Locals
  BY <1>1 DEF IInv, Typed, Locals, Places, Results
<1> QED BY <1>2 DEF IInv, Typed, PopNext, OnlyLocal

LEMMA PopNextStep ==
  ASSUME IInv, NEW t \in Threads, PopNext(t)
  PROVE  IInv'
<1> DEFINE n == mem[head].next
<1>1. At(t, "popNext") /\ UNCHANGED <<list, mtx, mem, allocated, deleted>> /\ n \in Nodes \cup {Null}
  BY DEF PopNext, IInv, Typed, Fields
<1>2. /\ OnlyLocal(t) /\ local'[t].node = head /\ local'[t].new_head = n
      /\ local'[t].pc = IF n = Null THEN "popUnlock" ELSE "popCheck"
  BY NextNodeLocal
<1>3. MutexesHeld' /\ mtx' \in [{"push", "pop"} -> Threads \cup {NoThread}]
  BY <1>1, <1>2, StayHeld DEF IInv, At, UnderPush, UnderPop
<1>4. n # Null => Len(chain) > 1 /\ n = chain[2]
  BY TailHasRoom DEF IInv, ListWhole
<1>5. Popping(t)'
  BY <1>1, <1>2, <1>4 DEF Popping, At, list
<1>6. Pushing(t)' /\ ~Holding(t)' /\ ~Holding(t) /\ ~deleted
  BY <1>1, <1>2 DEF Pushing, Holding, At, IInv, Accounted
<1> QED BY <1>1, <1>2, <1>3, <1>5, <1>6, ListFrame

\* The node a popper works on is the second of the list and has a buffer.
LEMMA PoppingNode ==
  ASSUME IInv, NEW t \in Threads, local[t].pc \in {"popCheck", "popItem", "popLast"}
  PROVE  /\ Len(chain) > 1 /\ local[t].node = head /\ local[t].new_head = chain[2]
         /\ chain[2] \in Nodes /\ chain[2] # head /\ ~deleted
         /\ mem[chain[2]] \in Fields /\ mem[chain[2]].buffer \in Buffers
         /\ mem[chain[2]].pop_idx <= mem[chain[2]].push_idx
<1>1. Len(chain) > 1 /\ local[t].node = head /\ local[t].new_head = chain[2]
  BY DEF IInv, NodesOwned, Popping
<1>2. chain[2] \in Nodes /\ 1 \in 1..Len(chain) /\ 2 \in 2..Len(chain) /\ 2 \in 1..Len(chain)
  BY <1>1, TailHasRoom
<1>3. chain[2] # head /\ mem[chain[2]].buffer # Null
      /\ mem[chain[2]].pop_idx <= mem[chain[2]].push_idx
  BY <1>2 DEF IInv, ListWhole
<1>4. mem[chain[2]] \in Fields
  BY <1>2 DEF IInv, Typed
<1>5. ~deleted
  BY DEF IInv, Accounted, At
<1> QED BY <1>1, <1>2, <1>3, <1>4, <1>5 DEF Fields

LEMMA PopCheckStep ==
  ASSUME IInv, NEW t \in Threads, PopCheck(t)
  PROVE  IInv'
<1> DEFINE n == local[t].new_head
<1>1. At(t, "popCheck") /\ UNCHANGED <<list, mtx, mem, allocated, deleted>>
  BY DEF PopCheck
<1>2. /\ Len(chain) > 1 /\ local[t].node = head /\ n = chain[2] /\ ~deleted
      /\ mem[n].pop_idx \in 0..RING_SIZE /\ mem[n].push_idx \in 0..RING_SIZE
  BY <1>1, PoppingNode DEF At, Fields
<1>3. CASE mem[n].pop_idx >= mem[n].push_idx
  <2>1. OnlyLocal(t) /\ local'[t].pc = "popUnlock"
    BY <1>3, AnswersLocal DEF PopCheck, IInv, Places, Results
  <2>2. MutexesHeld' /\ mtx' \in [{"push", "pop"} -> Threads \cup {NoThread}]
    BY <1>1, <2>1, StayHeld DEF IInv, At, UnderPush, UnderPop
  <2>3. Pushing(t)' /\ Popping(t)' /\ ~Holding(t)' /\ ~Holding(t)
    BY <1>1, <2>1 DEF Pushing, Popping, Holding, At
  <2> QED BY <1>1, <1>2, <2>1, <2>2, <2>3, ListFrame
<1>4. CASE ~(mem[n].pop_idx >= mem[n].push_idx)
  <2> DEFINE place == IF AtLastSlot(n) THEN "popLast" ELSE "popItem"
  <2>1. /\ OnlyLocal(t) /\ local'[t].pc = place
        /\ local'[t].node = local[t].node /\ local'[t].new_head = n
    BY <1>4, GotoLocal DEF PopCheck, IInv, Places
  <2>2. MutexesHeld' /\ mtx' \in [{"push", "pop"} -> Threads \cup {NoThread}]
    BY <1>1, <2>1, StayHeld DEF IInv, At, UnderPush, UnderPop
  <2>3. Popping(t)'
    BY <1>1, <1>2, <1>4, <2>1, RingsQueueAssumption DEF Popping, At, AtLastSlot, list
  <2>4. Pushing(t)' /\ ~Holding(t)' /\ ~Holding(t)
    BY <1>1, <2>1 DEF Pushing, Holding, At
  <2> QED BY <1>1, <1>2, <2>1, <2>2, <2>3, <2>4, ListFrame
<1> QED BY <1>3, <1>4

LEMMA NextLocal ==
  ASSUME IInv, NEW t \in Threads, IsEmptyNext(t)
  PROVE  OnlyLocal(t) /\ local'[t].pc = "isEmptyUnlock"
<1>1. [local[t] EXCEPT !.node = mem[head].next, !.pc = "isEmptyUnlock"] \in Locals
  <2>1. mem[head].next \in Nodes \cup {Null}
    BY DEF IInv, Typed, Fields
  <2>2. local[t] \in Locals /\ "isEmptyUnlock" \in Places
    BY DEF IInv, Typed, Places, Answering
  <2> QED BY <2>1, <2>2 DEF Locals
<1>2. local' = [local EXCEPT ![t] =
                  [local[t] EXCEPT !.node = mem[head].next, !.pc = "isEmptyUnlock"]]
  BY DEF IInv, Typed, IsEmptyNext
<1> QED BY <1>1, <1>2 DEF IInv, Typed, OnlyLocal, Locals

LEMMA IsEmptyNextStep ==
  ASSUME IInv, NEW t \in Threads, IsEmptyNext(t)
  PROVE  IInv'
<1>1. At(t, "isEmptyNext") /\ UNCHANGED <<list, mtx, mem, allocated, deleted>>
  BY DEF IsEmptyNext
<1>2. OnlyLocal(t) /\ local'[t].pc = "isEmptyUnlock"
  BY NextLocal
<1>3. MutexesHeld' /\ mtx' \in [{"push", "pop"} -> Threads \cup {NoThread}]
  BY <1>1, <1>2, StayHeld DEF IInv, At, UnderPush, UnderPop
<1>4. Pushing(t)' /\ Popping(t)' /\ ~Holding(t)' /\ ~Holding(t) /\ ~deleted
  BY <1>1, <1>2 DEF Pushing, Popping, Holding, At, IInv, Accounted
<1> QED BY <1>1, <1>2, <1>3, <1>4, ListFrame

LEMMA IsEmptyUnlockStep ==
  ASSUME IInv, NEW t \in Threads, IsEmptyUnlock(t)
  PROVE  IInv'
<1>1. OnlyLocal(t) /\ local'[t].pc = "isEmptyLoad"
  BY GotoLocal DEF IInv, IsEmptyUnlock, Places, Answering
<1>2. mtx["pop"] = t
  BY DEF IInv, MutexesHeld, IsEmptyUnlock, Unlock, At, UnderPop
<1>3. MutexesHeld' /\ mtx' \in [{"push", "pop"} -> Threads \cup {NoThread}]
  BY <1>1, <1>2, UnlockHeld DEF IInv, IsEmptyUnlock, Unlock, UnderPush, UnderPop
<1>4. Pushing(t)' /\ Popping(t)' /\ ~Holding(t)' /\ ~Holding(t) /\ ~deleted
  BY <1>1 DEF Pushing, Popping, Holding, IsEmptyUnlock, Unlock, At, IInv, Accounted
<1> QED BY <1>1, <1>3, <1>4, ListFrame DEF IsEmptyUnlock, Unlock

LEMMA LoadLocal ==
  ASSUME IInv, NEW t \in Threads, IsEmptyLoad(t)
  PROVE  OnlyLocal(t) /\ local'[t].pc = "isEmptyReturn"
<1>1. \E answer \in BOOLEAN : Answers(t, answer, "isEmptyReturn")
  BY Zenon DEF IsEmptyLoad
<1>2. PICK answer \in BOOLEAN : Answers(t, answer, "isEmptyReturn")
  BY <1>1
<1>3. answer \in Results
  BY DEF Results
<1> QED BY <1>2, <1>3, AnswersLocal DEF IInv, Places

LEMMA IsEmptyLoadStep ==
  ASSUME IInv, NEW t \in Threads, IsEmptyLoad(t)
  PROVE  IInv'
<1>1. At(t, "isEmptyLoad") /\ UNCHANGED <<list, mtx, mem, allocated, deleted>>
  BY DEF IsEmptyLoad
<1>4. OnlyLocal(t) /\ local'[t].pc = "isEmptyReturn"
  BY LoadLocal
<1>5. MutexesHeld' /\ mtx' \in [{"push", "pop"} -> Threads \cup {NoThread}]
  BY <1>1, <1>4, StayHeld DEF IInv, At, UnderPush, UnderPop
<1>6. Pushing(t)' /\ Popping(t)' /\ ~Holding(t)' /\ ~Holding(t) /\ ~deleted
  BY <1>1, <1>4 DEF Pushing, Popping, Holding, At, IInv, Accounted
<1> QED BY <1>1, <1>4, <1>5, <1>6, ListFrame

LEMMA IsEmptyReturnStep ==
  ASSUME IInv, NEW t \in Threads, IsEmptyReturn(t)
  PROVE  IInv'
<1>1. OnlyLocal(t) /\ local'[t].pc = "idle"
  BY LeaveLocal DEF IInv, IsEmptyReturn
<1>2. MutexesHeld' /\ mtx' \in [{"push", "pop"} -> Threads \cup {NoThread}]
  BY <1>1, StayHeld DEF IInv, IsEmptyReturn, UnderPush, UnderPop
<1>3. Pushing(t)' /\ Popping(t)' /\ ~Holding(t)' /\ ~Holding(t) /\ ~deleted
  BY <1>1 DEF Pushing, Popping, Holding, IsEmptyReturn, At, IInv, Accounted
<1> QED BY <1>1, <1>2, <1>3, ListFrame DEF IsEmptyReturn

\* A step of t that changes one node behind the first, and no link, keeps the list.
LEMMA NodeFrame ==
  ASSUME IInv, ~deleted, NEW t \in Threads, OnlyLocal(t),
         UNCHANGED <<list, mtx, allocated, deleted>>, MutexesHeld',
         ~Holding(t), ~Holding(t)', \A u \in Threads : Pushing(u)' /\ Popping(u)',
         NEW k \in 2..Len(chain), mem' \in [Nodes -> Fields],
         \A m \in Nodes \ {chain[k]} : mem'[m] = mem[m],
         mem'[chain[k]].next = mem[chain[k]].next, mem'[chain[k]].buffer # Null,
         mem'[chain[k]].pop_idx <= mem'[chain[k]].push_idx,
         k < Len(chain) => mem'[chain[k]].push_idx = RING_SIZE
  PROVE  IInv'
<1>1. Len(chain) \in Nat \ {0} /\ \A i \in 1..Len(chain) : chain[i] \in Nodes
  BY TailHasRoom
<1>2. UNCHANGED <<head, tail, chain>>
  BY DEF list
<1>3. Typed'
  BY <1>2 DEF IInv, Typed, OnlyLocal
<1>4. ListWhole'
  <2>1. \A i \in 1..Len(chain) : mem'[chain[i]].next = mem[chain[i]].next
    BY <1>1
  <2>2. \A i \in 2..Len(chain) : i # k => mem'[chain[i]] = mem[chain[i]]
    BY <1>1 DEF IInv, ListWhole
  <2>3. mem'[head] = mem[head]
    BY <1>1 DEF IInv, ListWhole
  <2> QED BY <1>2, <2>1, <2>2, <2>3 DEF IInv, ListWhole
<1>5. \A n : InList(n)' <=> InList(n)
  BY <1>2 DEF InList
<1>6. \A u \in Threads : Holding(u)' <=> Holding(u)
  BY DEF Holding, OnlyLocal
<1>7. \A u \in Threads : Holding(u) => local'[u].node = local[u].node
  BY DEF OnlyLocal
<1>8. NodesOwned'
  <2>1. ASSUME NEW u \in Threads, Holding(u)
        PROVE  /\ local[u].node \in allocated /\ ~InList(local[u].node)
               /\ mem'[local[u].node].buffer = Null
    <3>1. /\ local[u].node \in allocated /\ ~InList(local[u].node)
          /\ mem[local[u].node].buffer = Null
      BY <2>1 DEF IInv, NodesOwned, Freeing
    <3>2. local[u].node \in Nodes \ {chain[k]}
      BY <1>1, <3>1 DEF IInv, Typed, InList
    <3> QED BY <3>1, <3>2
  <2>2. \A u \in Threads : Freeing(u)'
    BY <1>5, <1>6, <1>7, <2>1 DEF Freeing
  <2> QED BY <1>6, <1>7, <2>2 DEF IInv, NodesOwned
<1>9. Accounted'
  BY <1>2, <1>5, <1>6, <1>7 DEF IInv, Accounted
<1> QED BY <1>3, <1>4, <1>8, <1>9 DEF IInv

\* What the stores of a pusher or of a popper do to the one node they concern.
LEMMA WriteEffect ==
  ASSUME IInv, NEW t \in Threads, PushWrite(t)
  PROVE  /\ OnlyLocal(t) /\ local'[t].pc = "pushPublish" /\ local'[t].ret = local[t].ret
         /\ local[t].ret \in Values /\ mem[tail].push_idx < RING_SIZE
         /\ tail # head /\ tail \in Nodes
         /\ tail = chain[Len(chain)] /\ Len(chain) \in 2..Len(chain)
         /\ mem[tail] \in Fields /\ mem[tail].buffer \in Buffers
         /\ mem' \in [Nodes -> Fields] /\ \A m \in Nodes \ {tail} : mem'[m] = mem[m]
         /\ mem'[tail].buffer =
              [mem[tail].buffer EXCEPT ![mem[tail].push_idx + 1] = local[t].ret]
         /\ mem'[tail].buffer \in Buffers
         /\ mem'[tail].next = mem[tail].next
         /\ mem'[tail].push_idx = mem[tail].push_idx
         /\ mem'[tail].pop_idx = mem[tail].pop_idx
<1> DEFINE L == Len(chain)
           p == mem[tail].push_idx
           v == local[t].ret
           b == [mem[tail].buffer EXCEPT ![p + 1] = v]
<1>1. At(t, "pushWrite") /\ mem' = [mem EXCEPT ![tail].buffer[p + 1] = v]
  BY DEF PushWrite
<1>2. OnlyLocal(t) /\ local'[t].pc = "pushPublish" /\ local'[t].ret = v
  BY GotoLocal DEF IInv, PushWrite, Places
<1>3. v \in Values /\ tail # head /\ p < RING_SIZE
  BY <1>1 DEF IInv, NodesOwned, Pushing, At
<1>4. L \in 2..L /\ tail = chain[L] /\ tail \in Nodes /\ mem[tail].buffer # Null
  BY <1>3, TailHasRoom DEF IInv, ListWhole
<1>5. mem[tail] \in Fields /\ mem[tail].buffer \in Buffers
  BY <1>4 DEF IInv, Typed, Fields
<1>6. b \in Buffers
  BY <1>3, <1>5 DEF Buffers, Slots
<1>7. /\ mem' \in [Nodes -> Fields] /\ \A m \in Nodes \ {tail} : mem'[m] = mem[m]
      /\ mem'[tail].next = mem[tail].next /\ mem'[tail].buffer = b
      /\ mem'[tail].push_idx = p /\ mem'[tail].pop_idx = mem[tail].pop_idx
  <2>1. mem' = [mem EXCEPT ![tail] = [@ EXCEPT !.buffer = b]]
    BY <1>1, <1>4, <1>5 DEF IInv, Typed
  <2>2. [mem[tail] EXCEPT !.buffer = b] \in Fields
    BY <1>5, <1>6 DEF Fields
  <2> QED BY <1>4, <1>5, <1>6, <2>1, <2>2 DEF IInv, Typed, Fields
<1> QED BY <1>2, <1>3, <1>4, <1>5, <1>6, <1>7

LEMMA PublishEffect ==
  ASSUME IInv, NEW t \in Threads, PushPublish(t)
  PROVE  /\ OnlyLocal(t) /\ local'[t].pc = "pushUnlock" /\ mem[tail].push_idx < RING_SIZE
         /\ tail # head /\ tail \in Nodes
         /\ tail = chain[Len(chain)] /\ Len(chain) \in 2..Len(chain)
         /\ mem[tail] \in Fields /\ mem[tail].buffer \in Buffers
         /\ mem' \in [Nodes -> Fields] /\ \A m \in Nodes \ {tail} : mem'[m] = mem[m]
         /\ mem'[tail].buffer = mem[tail].buffer /\ mem'[tail].next = mem[tail].next
         /\ mem'[tail].push_idx = mem[tail].push_idx + 1
         /\ mem'[tail].pop_idx = mem[tail].pop_idx
<1> DEFINE L == Len(chain)
           p == mem[tail].push_idx
<1>1. At(t, "pushPublish") /\ mem' = [mem EXCEPT ![tail].push_idx = @ + 1]
  BY DEF PushPublish
<1>2. OnlyLocal(t) /\ local'[t].pc = "pushUnlock"
  BY GotoLocal DEF IInv, PushPublish, Places
<1>3. tail # head /\ p < RING_SIZE
  BY <1>1 DEF IInv, NodesOwned, Pushing, At
<1>4. L \in 2..L /\ tail = chain[L] /\ tail \in Nodes /\ mem[tail].buffer # Null
  BY <1>3, TailHasRoom DEF IInv, ListWhole
<1>5. mem[tail] \in Fields /\ mem[tail].buffer \in Buffers
  BY <1>4 DEF IInv, Typed, Fields
<1>6. p + 1 \in 0..RING_SIZE
  BY <1>3, <1>5, RingsQueueAssumption DEF Fields
<1>7. /\ mem' \in [Nodes -> Fields] /\ \A m \in Nodes \ {tail} : mem'[m] = mem[m]
      /\ mem'[tail].next = mem[tail].next /\ mem'[tail].buffer = mem[tail].buffer
      /\ mem'[tail].push_idx = p + 1 /\ mem'[tail].pop_idx = mem[tail].pop_idx
  BY <1>1, <1>4, <1>5, <1>6 DEF IInv, Typed, Fields
<1> QED BY <1>2, <1>3, <1>4, <1>5, <1>7

LEMMA ItemEffect ==
  ASSUME IInv, NEW t \in Threads, PopItem(t), NEW n, n = local[t].new_head
  PROVE  /\ Len(chain) > 1 /\ n = chain[2] /\ n \in Nodes /\ ~deleted
         /\ mem[n] \in Fields /\ mem[n].buffer \in Buffers
         /\ mem[n].pop_idx < mem[n].push_idx /\ mem[n].pop_idx + 1 \in 1..RING_SIZE
         /\ OnlyLocal(t) /\ local'[t].pc = "popUnlock"
         /\ local'[t].ret = mem[n].buffer[mem[n].pop_idx + 1]
         /\ mem' \in [Nodes -> Fields] /\ \A m \in Nodes \ {n} : mem'[m] = mem[m]
         /\ mem'[n].next = mem[n].next /\ mem'[n].buffer = mem[n].buffer
         /\ mem'[n].push_idx = mem[n].push_idx /\ mem'[n].pop_idx = mem[n].pop_idx + 1
<1> DEFINE p == mem[n].pop_idx
<1>1. At(t, "popItem")
  BY DEF PopItem
<1>2. /\ Len(chain) > 1 /\ n = chain[2] /\ n \in Nodes /\ ~deleted
      /\ mem[n] \in Fields /\ mem[n].buffer \in Buffers
  BY <1>1, PoppingNode DEF At
<1>3. p < mem[n].push_idx
  BY <1>1 DEF IInv, NodesOwned, Popping, At
<1>4. p + 1 \in 1..RING_SIZE /\ p # RING_SIZE
  BY <1>2, <1>3, RingsQueueAssumption DEF Fields
<1>5. /\ Answers(t, mem[n].buffer[p + 1], "popUnlock")
      /\ mem' = [mem EXCEPT ![n].pop_idx = @ + 1]
  BY <1>4 DEF PopItem
<1>6. mem[n].buffer[p + 1] \in Results
  BY <1>2, <1>4 DEF Buffers, Slots, Results
<1>7. /\ OnlyLocal(t) /\ local'[t].pc = "popUnlock"
      /\ local'[t].ret = mem[n].buffer[p + 1]
  BY <1>5, <1>6, AnswersLocal DEF IInv, Places
<1>8. /\ mem' \in [Nodes -> Fields] /\ \A m \in Nodes \ {n} : mem'[m] = mem[m]
      /\ mem'[n].next = mem[n].next /\ mem'[n].buffer = mem[n].buffer
      /\ mem'[n].push_idx = mem[n].push_idx /\ mem'[n].pop_idx = p + 1
  <2>1. [mem[n] EXCEPT !.pop_idx = p + 1] \in Fields
    BY <1>2, <1>4 DEF Fields
  <2>2. mem' = [mem EXCEPT ![n] = [mem[n] EXCEPT !.pop_idx = p + 1]]
    BY <1>2, <1>5 DEF IInv, Typed
  <2> QED BY <1>2, <2>1, <2>2 DEF IInv, Typed, Fields
<1> QED BY <1>2, <1>3, <1>4, <1>7, <1>8

LEMMA LastEffect ==
  ASSUME IInv, NEW t \in Threads, PopLast(t), NEW n, n = local[t].new_head
  PROVE  /\ Len(chain) > 1 /\ local[t].node = head /\ n = chain[2] /\ n \in Nodes
         /\ n # head /\ ~deleted /\ mem[n] \in Fields /\ mem[n].buffer \in Buffers
         /\ mem[n].push_idx = RING_SIZE
         /\ OnlyLocal(t) /\ local'[t].pc = "popLastUnlock" /\ local'[t].node = head
         /\ local'[t].ret = mem[n].buffer[RING_SIZE]
         /\ \A i \in 1..Len(chain) : chain[i] \in Nodes
         /\ chain' \in Seq(Nodes) /\ Len(chain') = Len(chain) - 1
         /\ \A i \in 1..(Len(chain) - 1) : chain'[i] = chain[i + 1]
         /\ mem' \in [Nodes -> Fields] /\ \A m \in Nodes \ {n} : mem'[m] = mem[m]
         /\ mem'[n].buffer = Null /\ mem'[n].next = mem[n].next
         /\ mem'[n].push_idx = mem[n].push_idx /\ mem'[n].pop_idx = mem[n].pop_idx
<1>1. /\ At(t, "popLast") /\ Answers(t, mem[n].buffer[RING_SIZE], "popLastUnlock")
      /\ mem' = [mem EXCEPT ![n].buffer = Null] /\ chain' = Tail(chain)
  BY DEF PopLast, BufferTaken
<1>2. /\ Len(chain) > 1 /\ local[t].node = head /\ n = chain[2] /\ n \in Nodes /\ n # head
      /\ ~deleted /\ mem[n] \in Fields /\ mem[n].buffer \in Buffers
      /\ mem[n].push_idx = RING_SIZE
  BY <1>1, PoppingNode DEF At, IInv, NodesOwned, Popping
<1>3. mem[n].buffer[RING_SIZE] \in Results
  BY <1>2, RingsQueueAssumption DEF Buffers, Slots, Results
<1>4. /\ OnlyLocal(t) /\ local'[t].pc = "popLastUnlock" /\ local'[t].node = head
      /\ local'[t].ret = mem[n].buffer[RING_SIZE]
  BY <1>1, <1>2, <1>3, AnswersLocal DEF IInv, Places
<1>5. \A i \in 1..Len(chain) : chain[i] \in Nodes
  BY TailHasRoom
<1>6. /\ chain' \in Seq(Nodes) /\ Len(chain') = Len(chain) - 1
      /\ \A i \in 1..(Len(chain) - 1) : chain'[i] = chain[i + 1]
  BY <1>1, <1>2, HeadTailProperties DEF IInv, Typed, ListWhole
<1>7. /\ mem' \in [Nodes -> Fields] /\ \A m \in Nodes \ {n} : mem'[m] = mem[m]
      /\ mem'[n].buffer = Null /\ mem'[n].next = mem[n].next
      /\ mem'[n].push_idx = mem[n].push_idx /\ mem'[n].pop_idx = mem[n].pop_idx
  BY <1>1, <1>2 DEF IInv, Typed, Fields
<1> QED BY <1>2, <1>4, <1>5, <1>6, <1>7

LEMMA PushWriteStep ==
  ASSUME IInv, NEW t \in Threads, PushWrite(t)
  PROVE  IInv'
<1> DEFINE L == Len(chain)
           p == mem[tail].push_idx
           v == local[t].ret
<1>1. /\ At(t, "pushWrite") /\ UNCHANGED <<list, mtx, allocated, deleted>>
      /\ mem' = [mem EXCEPT ![tail].buffer[p + 1] = v]
  BY DEF PushWrite
<1>2. OnlyLocal(t) /\ local'[t].pc = "pushPublish"
  BY WriteEffect
<1>3. v \in Values /\ tail # head /\ p < RING_SIZE
  BY WriteEffect
<1>4. L \in 2..L /\ tail = chain[L] /\ tail \in Nodes
  BY WriteEffect
<1>7. /\ mem' \in [Nodes -> Fields] /\ \A m \in Nodes \ {tail} : mem'[m] = mem[m]
      /\ mem'[tail].next = mem[tail].next /\ mem'[tail].buffer \in Buffers
      /\ mem'[tail].push_idx = p /\ mem'[tail].pop_idx = mem[tail].pop_idx
  BY WriteEffect
<1>8. mem'[tail].buffer # Null
  BY <1>7, RingsQueueAssumption DEF Buffers, Slots
<1>9. \A u \in Threads : Pushing(u)' /\ Popping(u)'
  <2>1. \A m \in Nodes : mem'[m].push_idx = mem[m].push_idx /\ mem'[m].pop_idx = mem[m].pop_idx
    BY <1>7
  <2>2. Pushing(t)' /\ Popping(t)'
    BY <1>1, <1>2, <1>3, <1>7 DEF Pushing, Popping, At, list
  <2>3. ASSUME NEW u \in Threads \ {t}
        PROVE  Pushing(u)' /\ Popping(u)'
    <3>1. local'[u] = local[u] /\ Pushing(u) /\ Popping(u)
      BY <1>2 DEF OnlyLocal, IInv, NodesOwned
    <3>2. Pushing(u)'
      BY <1>1, <1>4, <2>1, <3>1 DEF Pushing, At, list
    <3>3. At(u, "popItem") \/ At(u, "popLast") => local[u].new_head \in Nodes
      BY PoppingNode DEF At
    <3>4. Popping(u)'
      BY <1>1, <2>1, <3>1, <3>3 DEF Popping, At, list
    <3> QED BY <3>2, <3>4
  <2> QED BY <2>2, <2>3
<1>10. MutexesHeld'
  BY <1>1, <1>2, StayHeld DEF IInv, At, UnderPush, UnderPop
<1>11. ~Holding(t) /\ ~Holding(t)' /\ ~deleted
  BY <1>1, <1>2 DEF Holding, At, IInv, Accounted
<1>12. mem'[tail].pop_idx <= mem'[tail].push_idx
  <2>1. mem[chain[L]].pop_idx <= mem[chain[L]].push_idx
    BY <1>4 DEF IInv, ListWhole
  <2> QED BY <1>4, <1>7, <2>1
<1>13. /\ L \in 2..Len(chain) /\ mem' \in [Nodes -> Fields]
       /\ \A m \in Nodes \ {chain[L]} : mem'[m] = mem[m]
       /\ mem'[chain[L]].next = mem[chain[L]].next
       /\ mem'[chain[L]].pop_idx <= mem'[chain[L]].push_idx
       /\ ~(L < Len(chain))
  BY <1>4, <1>7, <1>12
<1>14. mem'[chain[L]].buffer # Null
  BY <1>4, <1>7, <1>8
<1> QED BY <1>1, <1>2, <1>9, <1>10, <1>11, <1>13, <1>14, NodeFrame

LEMMA PushPublishStep ==
  ASSUME IInv, NEW t \in Threads, PushPublish(t)
  PROVE  IInv'
<1> DEFINE L == Len(chain)
           p == mem[tail].push_idx
<1>1. /\ At(t, "pushPublish") /\ UNCHANGED <<list, mtx, allocated, deleted>>
      /\ mem' = [mem EXCEPT ![tail].push_idx = @ + 1]
  BY DEF PushPublish
<1>2. OnlyLocal(t) /\ local'[t].pc = "pushUnlock"
  BY PublishEffect
<1>3. tail # head /\ p < RING_SIZE
  BY PublishEffect
<1>4. L \in 2..L /\ tail = chain[L] /\ tail \in Nodes /\ mem[tail].buffer # Null
  BY PublishEffect, RingsQueueAssumption DEF Buffers, Slots
<1>5. mem[tail] \in Fields
  BY PublishEffect
<1>7. /\ mem' \in [Nodes -> Fields] /\ \A m \in Nodes \ {tail} : mem'[m] = mem[m]
      /\ mem'[tail].next = mem[tail].next /\ mem'[tail].buffer = mem[tail].buffer
      /\ mem'[tail].push_idx = p + 1 /\ mem'[tail].pop_idx = mem[tail].pop_idx
  BY PublishEffect
<1>8. \A u \in Threads : Pushing(u)' /\ Popping(u)'
  <2>1. Pushing(t)' /\ Popping(t)'
    BY <1>2 DEF Pushing, Popping, At
  <2>2. ASSUME NEW u \in Threads \ {t}
        PROVE  Pushing(u)' /\ Popping(u)'
    <3>1. local'[u] = local[u] /\ Pushing(u) /\ Popping(u)
      BY <1>2 DEF OnlyLocal, IInv, NodesOwned
    <3>2. local[u].pc \notin UnderPush
      BY <1>1 DEF IInv, MutexesHeld, UnderPush, At
    <3>3. Pushing(u)'
      BY <3>1, <3>2 DEF Pushing, At, UnderPush
    <3>4. local[u].pc \in {"popItem", "popLast"} =>
            /\ local[u].new_head \in Nodes /\ mem[local[u].new_head] \in Fields
            /\ local[u].new_head # tail => mem'[local[u].new_head] = mem[local[u].new_head]
      BY <1>7, PoppingNode
    <3>5. Popping(u)'
      BY <1>1, <1>3, <1>7, <3>1, <3>4 DEF Popping, At, list, Fields
    <3> QED BY <3>3, <3>5
  <2> QED BY <2>1, <2>2
<1>9. MutexesHeld'
  BY <1>1, <1>2, StayHeld DEF IInv, At, UnderPush, UnderPop
<1>10. ~Holding(t) /\ ~Holding(t)' /\ ~deleted
  BY <1>1, <1>2 DEF Holding, At, IInv, Accounted
<1>11. mem'[tail].pop_idx <= mem'[tail].push_idx
  <2>1. mem[tail].pop_idx <= p
    BY <1>4 DEF IInv, ListWhole
  <2> QED BY <1>5, <1>7, <2>1 DEF Fields
<1> QED BY <1>1, <1>2, <1>4, <1>7, <1>8, <1>9, <1>10, <1>11, NodeFrame

LEMMA PopItemStep ==
  ASSUME IInv, NEW t \in Threads, PopItem(t)
  PROVE  IInv'
<1> DEFINE n == local[t].new_head
           p == mem[n].pop_idx
<1>1. At(t, "popItem") /\ UNCHANGED <<list, mtx, allocated, deleted>>
  BY DEF PopItem
<1>2. /\ Len(chain) > 1 /\ n = chain[2] /\ n \in Nodes /\ ~deleted
      /\ mem[n] \in Fields /\ mem[n].buffer \in Buffers
  BY ItemEffect
<1>3. p < mem[n].push_idx
  BY ItemEffect
<1>7. OnlyLocal(t) /\ local'[t].pc = "popUnlock"
  BY ItemEffect
<1>8. /\ mem' \in [Nodes -> Fields] /\ \A m \in Nodes \ {n} : mem'[m] = mem[m]
      /\ mem'[n].next = mem[n].next /\ mem'[n].buffer = mem[n].buffer
      /\ mem'[n].push_idx = mem[n].push_idx /\ mem'[n].pop_idx = p + 1
  BY ItemEffect
<1>9. \A u \in Threads : Pushing(u)' /\ Popping(u)'
  <2>1. \A m \in Nodes : mem'[m].push_idx = mem[m].push_idx
    BY <1>8
  <2>2. Pushing(t)' /\ Popping(t)'
    BY <1>7 DEF Pushing, Popping, At
  <2>3. ASSUME NEW u \in Threads \ {t}
        PROVE  Pushing(u)' /\ Popping(u)'
    <3>1. local'[u] = local[u] /\ Pushing(u)
      BY <1>7 DEF OnlyLocal, IInv, NodesOwned
    <3>2. local[u].pc \notin UnderPop
      BY <1>1 DEF IInv, MutexesHeld, UnderPop, At
    <3>3. Pushing(u)'
      BY <1>1, <2>1, <3>1 DEF Pushing, At, list, IInv, Typed
    <3>4. Popping(u)'
      BY <3>1, <3>2 DEF Popping, At, UnderPop
    <3> QED BY <3>3, <3>4
  <2> QED BY <2>2, <2>3
<1>10. MutexesHeld'
  BY <1>1, <1>7, StayHeld DEF IInv, At, UnderPush, UnderPop
<1>11. ~Holding(t) /\ ~Holding(t)'
  BY <1>1, <1>7 DEF Holding, At
<1>12. mem'[n].buffer # Null /\ mem'[n].pop_idx <= mem'[n].push_idx
  BY <1>2, <1>3, <1>8, RingsQueueAssumption DEF Fields, Buffers, Slots
<1>13. 2 \in 2..Len(chain) /\ (2 < Len(chain) => mem'[n].push_idx = RING_SIZE)
  BY <1>2, <1>8, TailHasRoom DEF IInv, ListWhole
<1> QED BY <1>1, <1>2, <1>7, <1>8, <1>9, <1>10, <1>11, <1>12, <1>13, NodeFrame

OthersKeep(n) ==
  \A m \in Nodes \ {n} :
    /\ mem'[m].buffer = mem[m].buffer
    /\ mem'[m].push_idx = mem[m].push_idx /\ mem'[m].pop_idx = mem[m].pop_idx
    /\ m # tail => mem'[m].next = mem[m].next

LEMMA ExtendEffect ==
  ASSUME IInv, NEW t \in Threads, At(t, "pushExtend"), NEW n \in Nodes \ allocated,
         mem' = [mem EXCEPT ![n] = NewNode, ![tail].next = n], chain' = Append(chain, n)
  PROVE  /\ Len(chain) \in Nat \ {0} /\ tail = chain[Len(chain)]
         /\ \A i \in 1..Len(chain) : chain[i] \in Nodes \ {n} /\ chain'[i] = chain[i]
         /\ chain' \in Seq(Nodes) /\ Len(chain') = Len(chain) + 1
         /\ chain'[Len(chain) + 1] = n
         /\ mem' \in [Nodes -> Fields] /\ mem'[n] = NewNode /\ mem'[tail].next = n
         /\ OthersKeep(n)
<1>1. \A i \in 1..Len(chain) : chain[i] \in allocated
  BY DEF IInv, Accounted, At
<1>2. /\ Len(chain) \in Nat \ {0} /\ tail = chain[Len(chain)]
      /\ \A i \in 1..Len(chain) : chain[i] \in Nodes \ {n}
  BY <1>1, TailHasRoom DEF IInv, ListWhole
<1>3. /\ Len(chain') = Len(chain) + 1 /\ chain' \in Seq(Nodes)
      /\ chain'[Len(chain) + 1] = n /\ \A i \in 1..Len(chain) : chain'[i] = chain[i]
  BY AppendProperties DEF IInv, Typed
<1>4. /\ mem'[n] = NewNode /\ \A m \in Nodes \ {n, tail} : mem'[m] = mem[m]
      /\ mem'[tail] = [mem[tail] EXCEPT !.next = n]
      /\ mem' \in [Nodes -> Fields]
  <2>1. NewNode \in Fields
    BY RingsQueueAssumption DEF NewNode, Fields, Buffers, Slots
  <2>2. tail \in Nodes /\ tail # n
    BY <1>2
  <2>3. [mem[tail] EXCEPT !.next = n] \in Fields
    BY <2>2 DEF IInv, Typed, Fields
  <2> QED BY <2>1, <2>2, <2>3 DEF IInv, Typed
<1>5. OthersKeep(n)
  <2>1. mem[tail] \in Fields /\ tail \in Nodes
    BY <1>2 DEF IInv, Typed
  <2> QED BY <1>4, <2>1 DEF Fields, OthersKeep
<1>6. mem'[tail].next = n
  BY <1>2, <1>4 DEF IInv, Typed, Fields
<1> QED BY <1>2, <1>3, <1>4, <1>5, <1>6

LEMMA PushExtendStep ==
  ASSUME IInv, NEW t \in Threads, PushExtend(t)
  PROVE  IInv'
<1> DEFINE L == Len(chain)
<1>1. PICK n \in Nodes \ allocated :
        /\ allocated' = allocated \cup {n}
        /\ mem' = [mem EXCEPT ![n] = NewNode, ![tail].next = n]
        /\ tail' = n
        /\ chain' = Append(chain, n)
  BY DEF PushExtend
<1>2. At(t, "pushExtend") /\ UNCHANGED <<head, mtx, deleted>>
  BY DEF PushExtend
<1>3. /\ OnlyLocal(t) /\ local'[t].pc = "pushWrite" /\ local'[t].ret = local[t].ret
      /\ local[t].ret \in Values
  BY <1>2, GotoLocal DEF IInv, PushExtend, Places, NodesOwned, Pushing, At
<1>4. ~deleted /\ \A i \in 1..L : chain[i] \in allocated
  BY <1>2 DEF IInv, Accounted, At
<1>5. /\ L \in Nat \ {0} /\ tail = chain[L] /\ head = chain[1]
      /\ \A i \in 1..L : chain[i] \in Nodes \ {n}
  BY <1>1, <1>2, ExtendEffect DEF IInv, ListWhole
<1>6. /\ Len(chain') = L + 1 /\ chain' \in Seq(Nodes) /\ chain'[L + 1] = n
      /\ \A i \in 1..L : chain'[i] = chain[i]
  BY <1>1, <1>2, ExtendEffect
<1>7. mem'[n] = NewNode /\ mem' \in [Nodes -> Fields]
  BY <1>1, <1>2, ExtendEffect
<1>8. \A m \in Nodes \ {n} : /\ mem'[m].buffer = mem[m].buffer
                             /\ mem'[m].push_idx = mem[m].push_idx
                             /\ mem'[m].pop_idx = mem[m].pop_idx
                             /\ m # tail => mem'[m].next = mem[m].next
  <2>1. OthersKeep(n)
    BY <1>1, <1>2, ExtendEffect
  <2> QED BY <2>1 DEF OthersKeep
<1>9. mem'[tail].next = n
  BY <1>1, <1>2, ExtendEffect
<1>10. Typed'
  <2>1. local' \in [Threads -> Locals] /\ mem' \in [Nodes -> Fields] /\ chain' \in Seq(Nodes)
    BY <1>3, <1>6, <1>7 DEF OnlyLocal
  <2>2. {head', tail'} \subseteq Nodes /\ allocated' \subseteq Nodes /\ deleted' \in BOOLEAN
    BY <1>1, <1>2, <1>5 DEF IInv, Typed
  <2>3. mtx' \in [{"push", "pop"} -> Threads \cup {NoThread}]
    BY <1>1, <1>2 DEF IInv, Typed
  <2> QED BY <2>1, <2>2, <2>3 DEF Typed
<1>11. MutexesHeld'
  BY <1>2, <1>3, StayHeld DEF IInv, At, UnderPush, UnderPop
<1>12. ListWhole'
  <2>1. chain' # <<>> /\ head' = chain'[1] /\ tail' = chain'[Len(chain')]
    BY <1>1, <1>2, <1>5, <1>6
  <2>2. ASSUME NEW i \in 1..Len(chain')
        PROVE  mem'[chain'[i]].next = IF i = Len(chain') THEN Null ELSE chain'[i + 1]
    <3>1. CASE i = L + 1
      BY <1>6, <1>7, <3>1 DEF NewNode
    <3>2. CASE i = L
      BY <1>5, <1>6, <1>9, <3>2
    <3>3. CASE i \in 1..(L - 1)
      <4>1. chain[i] # tail /\ mem[chain[i]].next = chain[i + 1]
        BY <1>5, <3>3 DEF IInv, ListWhole
      <4> QED BY <1>5, <1>6, <1>8, <3>3, <4>1
    <3> QED BY <1>5, <1>6, <3>1, <3>2, <3>3
  <2>3. \A i, j \in 1..Len(chain') : chain'[i] = chain'[j] => i = j
    BY <1>5, <1>6 DEF IInv, ListWhole
  <2>4. mem'[head'].buffer = Null
    BY <1>2, <1>5, <1>8 DEF IInv, ListWhole
  <2>5. ASSUME NEW i \in 2..Len(chain')
        PROVE  /\ mem'[chain'[i]].buffer # Null
               /\ mem'[chain'[i]].pop_idx <= mem'[chain'[i]].push_idx
               /\ i < Len(chain') => mem'[chain'[i]].push_idx = RING_SIZE
    <3>1. CASE i = L + 1
      BY <1>6, <1>7, <3>1, RingsQueueAssumption DEF NewNode
    <3>2. CASE i \in 2..L
      <4>1. chain'[i] = chain[i] /\ chain[i] \in Nodes \ {n}
        BY <1>5, <1>6, <3>2
      <4>2. i = L => mem[chain[i]].push_idx = RING_SIZE
        <5>1. i = L => tail # head
          BY <1>5, <3>2 DEF IInv, ListWhole
        <5> QED BY <1>2, <1>5, <5>1 DEF IInv, NodesOwned, Pushing
      <4>3. i < L => mem[chain[i]].push_idx = RING_SIZE
        BY <3>2 DEF IInv, ListWhole
      <4> QED BY <1>5, <1>6, <1>8, <3>2, <4>1, <4>2, <4>3 DEF IInv, ListWhole
    <3> QED BY <1>5, <1>6, <3>1, <3>2
  <2> QED BY <2>1, <2>2, <2>3, <2>4, <2>5 DEF ListWhole
<1>13. \A m : InList(m)' <=> InList(m) \/ m = n
  BY <1>5, <1>6 DEF InList
<1>14. \A u \in Threads : (Holding(u)' <=> Holding(u)) /\ (u # t => local'[u] = local[u])
  BY <1>2, <1>3 DEF Holding, At, OnlyLocal
<1>15. ~Holding(t)
  BY <1>2 DEF Holding, At
<1>16. NodesOwned'
  <2>1. \A u \in Threads : Freeing(u)'
    <3>1. ASSUME NEW u \in Threads, Holding(u)
          PROVE  /\ local[u].node \in allocated /\ ~InList(local[u].node)
                 /\ mem[local[u].node].buffer = Null /\ local[u].node \in Nodes \ {n}
      BY <3>1 DEF IInv, NodesOwned, Freeing, Typed
    <3>2. ASSUME NEW u \in Threads, Holding(u)'
          PROVE  Freeing(u)'
      <4>0. PICK m : m = local[u].node
        OBVIOUS
      <4>1. Holding(u) /\ local'[u] = local[u]
        BY <1>14, <1>15, <3>2
      <4>2. m \in allocated' /\ mem'[m].buffer = Null
        BY <1>1, <1>8, <3>1, <4>0, <4>1
      <4>3. ~InList(m)'
        <5>1. ~InList(m) /\ m # n
          BY <3>1, <4>0, <4>1
        <5> QED BY <1>13, <5>1
      <4>4. local'[u].node = m
        BY <4>0, <4>1
      <4> QED BY <4>2, <4>3, <4>4 DEF Freeing
    <3> QED BY <3>2 DEF Freeing
  <2>2. Pushing(t)' /\ Popping(t)'
    <3>1. tail' = n /\ head' # n
      BY <1>1, <1>2, <1>5
    <3>2. mem'[tail'].push_idx = 0
      BY <1>7, <3>1 DEF NewNode
    <3> QED BY <1>3, <3>1, <3>2, RingsQueueAssumption DEF Pushing, Popping, At
  <2>3. ASSUME NEW u \in Threads \ {t}
        PROVE  Pushing(u)' /\ Popping(u)'
    <3>1. local'[u] = local[u] /\ Pushing(u) /\ Popping(u)
      BY <1>14 DEF IInv, NodesOwned
    <3>2. local[u].pc \notin UnderPush
      BY <1>2 DEF IInv, MutexesHeld, UnderPush, At
    <3>3. Pushing(u)'
      BY <3>1, <3>2 DEF Pushing, At, UnderPush
    <3>4. local[u].pc \in {"popCheck", "popItem", "popLast"} =>
            /\ Len(chain') > 1 /\ chain'[2] = chain[2] /\ chain[2] \in Nodes \ {n}
            /\ local[u].new_head = chain[2] /\ local[u].node = head
      BY <1>5, <1>6, PoppingNode
    <3>5. Popping(u)'
      BY <1>2, <1>8, <3>1, <3>4 DEF Popping, At
    <3> QED BY <3>3, <3>5
  <2> QED BY <1>14, <1>15, <2>1, <2>2, <2>3 DEF IInv, NodesOwned
<1>17. Accounted'
  <2>1. \A i \in 1..Len(chain') : chain'[i] \in allocated'
    BY <1>1, <1>4, <1>5, <1>6
  <2>2. \A m \in allocated' : InList(m)' \/ \E u \in Threads : Holding(u)' /\ local'[u].node = m
    BY <1>1, <1>4, <1>13, <1>14, <1>15 DEF IInv, Accounted
  <2> QED BY <1>2, <1>4, <2>1, <2>2 DEF Accounted
<1> QED BY <1>10, <1>11, <1>12, <1>16, <1>17 DEF IInv

LEMMA PopLastStep ==
  ASSUME IInv, NEW t \in Threads, PopLast(t)
  PROVE  IInv'
<1> DEFINE L == Len(chain)
           n == local[t].new_head
<1>1. /\ At(t, "popLast") /\ Answers(t, mem[n].buffer[RING_SIZE], "popLastUnlock")
      /\ mem' = [mem EXCEPT ![n].buffer = Null] /\ head' = n /\ chain' = Tail(chain)
      /\ UNCHANGED <<tail, mtx, allocated, deleted>>
  BY DEF PopLast, BufferTaken, NewHead
<1>2. /\ L > 1 /\ local[t].node = head /\ n = chain[2] /\ n \in Nodes /\ n # head /\ ~deleted
      /\ mem[n] \in Fields /\ mem[n].buffer \in Buffers /\ mem[n].push_idx = RING_SIZE
  BY LastEffect
<1>4. OnlyLocal(t) /\ local'[t].pc = "popLastUnlock" /\ local'[t].node = head
  BY LastEffect
<1>5. /\ L \in Nat \ {0, 1} /\ head = chain[1] /\ tail = chain[L]
      /\ \A i \in 1..L : chain[i] \in Nodes /\ chain[i] \in allocated
  BY <1>2, TailHasRoom DEF IInv, ListWhole, Accounted
<1>6. /\ chain' \in Seq(Nodes) /\ Len(chain') = L - 1
      /\ \A i \in 1..(L - 1) : chain'[i] = chain[i + 1]
  BY LastEffect
<1>7. /\ mem' \in [Nodes -> Fields] /\ \A m \in Nodes \ {n} : mem'[m] = mem[m]
      /\ mem'[n].buffer = Null /\ mem'[n].next = mem[n].next
      /\ mem'[n].push_idx = mem[n].push_idx /\ mem'[n].pop_idx = mem[n].pop_idx
  BY LastEffect
<1>8. Typed'
  BY <1>1, <1>2, <1>4, <1>6, <1>7 DEF IInv, Typed, OnlyLocal
<1>9. MutexesHeld'
  BY <1>1, <1>4, StayHeld DEF IInv, At, UnderPush, UnderPop
<1>10. ListWhole'
  <2>1. chain' # <<>> /\ head' = chain'[1] /\ tail' = chain'[Len(chain')]
    BY <1>1, <1>2, <1>5, <1>6
  <2>2. \A i \in 1..L : mem'[chain[i]].next = mem[chain[i]].next
    BY <1>5, <1>7
  <2>3. ASSUME NEW i \in 1..Len(chain')
        PROVE  mem'[chain'[i]].next = IF i = Len(chain') THEN Null ELSE chain'[i + 1]
    <3>1. i + 1 \in 1..L /\ chain'[i] = chain[i + 1]
          /\ (i # Len(chain') => chain'[i + 1] = chain[(i + 1) + 1])
      BY <1>5, <1>6
    <3> QED BY <1>5, <1>6, <2>2, <3>1 DEF IInv, ListWhole
  <2>4. \A i, j \in 1..Len(chain') : chain'[i] = chain'[j] => i = j
    BY <1>5, <1>6 DEF IInv, ListWhole
  <2>5. ASSUME NEW i \in 2..Len(chain')
        PROVE  /\ mem'[chain'[i]].buffer # Null
               /\ mem'[chain'[i]].pop_idx <= mem'[chain'[i]].push_idx
               /\ i < Len(chain') => mem'[chain'[i]].push_idx = RING_SIZE
    <3>1. i + 1 \in 2..L /\ chain'[i] = chain[i + 1] /\ (i < Len(chain') => i + 1 < L)
      BY <1>5, <1>6
    <3>2. chain[i + 1] # n
      BY <1>2, <1>5, <3>1 DEF IInv, ListWhole
    <3> QED BY <1>5, <1>7, <3>1, <3>2 DEF IInv, ListWhole
  <2> QED BY <1>1, <1>7, <2>1, <2>3, <2>4, <2>5 DEF ListWhole
<1>11. \A m : InList(m) <=> InList(m)' \/ m = head
  <2>1. \A m : InList(m)' => InList(m)
    <3>1. ASSUME NEW m, NEW i \in 1..Len(chain'), chain'[i] = m
          PROVE  InList(m)
      BY <1>5, <1>6, <3>1 DEF InList
    <3> QED BY <3>1 DEF InList
  <2>2. \A m : InList(m) => InList(m)' \/ m = head
    <3>1. ASSUME NEW m, NEW i \in 1..L, chain[i] = m, i # 1
          PROVE  InList(m)'
      <4>1. i - 1 \in 1..Len(chain') /\ chain'[i - 1] = m
        BY <1>5, <1>6, <3>1
      <4> QED BY <4>1 DEF InList
    <3> QED BY <1>5, <3>1 DEF InList
  <2>3. InList(head)
    BY <1>5 DEF InList
  <2> QED BY <2>1, <2>2, <2>3
<1>12. \A i \in 1..Len(chain') : chain'[i] # head
  BY <1>5, <1>6 DEF IInv, ListWhole
<1>13. Holding(t)' /\ ~Holding(t)
  BY <1>1, <1>4 DEF Holding, At
<1>14. \A u \in Threads \ {t} : local'[u] = local[u] /\ (Holding(u)' <=> Holding(u))
  BY <1>4 DEF OnlyLocal, Holding
<1>15. ASSUME NEW u \in Threads, Holding(u)
       PROVE  /\ local[u].node \in allocated /\ ~InList(local[u].node)
              /\ mem'[local[u].node].buffer = Null /\ local[u].node # head
  <2>1. /\ local[u].node \in allocated /\ ~InList(local[u].node)
        /\ mem[local[u].node].buffer = Null
    BY <1>15 DEF IInv, NodesOwned, Freeing
  <2>2. local[u].node \in Nodes /\ local[u].node # n /\ local[u].node # head
    BY <1>2, <1>5, <2>1 DEF IInv, Typed, InList
  <2> QED BY <1>7, <2>1, <2>2
<1>16. NodesOwned'
  <2>1. Freeing(t)'
    <3>1. head \in allocated /\ mem'[head].buffer = Null
      BY <1>2, <1>5, <1>7 DEF IInv, ListWhole
    <3> QED BY <1>1, <1>4, <1>12, <3>1 DEF Freeing, InList
  <2>2. \A u \in Threads \ {t} : Freeing(u)'
    BY <1>1, <1>11, <1>14, <1>15 DEF Freeing
  <2>3. Pushing(t)' /\ Popping(t)'
    BY <1>4 DEF Pushing, Popping, At
  <2>4. ASSUME NEW u \in Threads \ {t}
        PROVE  Pushing(u)' /\ Popping(u)'
    <3>1. local'[u] = local[u] /\ Pushing(u)
      BY <1>14 DEF IInv, NodesOwned
    <3>2. local[u].pc \notin UnderPop
      BY <1>1 DEF IInv, MutexesHeld, UnderPop, At
    <3>3. tail \in Nodes /\ mem'[tail].push_idx = mem[tail].push_idx /\ tail # head
      BY <1>2, <1>5, <1>7 DEF IInv, ListWhole
    <3>4. mem[tail].push_idx < RING_SIZE => tail # n
      BY <1>2, RingsQueueAssumption
    <3>5. Pushing(u)'
      BY <1>1, <3>1, <3>3, <3>4 DEF Pushing, At
    <3>6. Popping(u)'
      BY <3>1, <3>2 DEF Popping, At, UnderPop
    <3> QED BY <3>5, <3>6
  <2> QED BY <1>4, <1>13, <1>14, <1>15, <2>1, <2>2, <2>3, <2>4 DEF IInv, NodesOwned
<1>17. Accounted'
  <2>1. \A i \in 1..Len(chain') : chain'[i] \in allocated'
    BY <1>1, <1>5, <1>6
  <2>2. ASSUME NEW m \in allocated'
        PROVE  InList(m)' \/ \E u \in Threads : Holding(u)' /\ local'[u].node = m
    BY <1>1, <1>2, <1>4, <1>11, <1>13, <1>14 DEF IInv, Accounted
  <2> QED BY <1>1, <1>2, <2>1, <2>2 DEF Accounted
<1> QED BY <1>8, <1>9, <1>10, <1>16, <1>17 DEF IInv

LEMMA PopFreeStep ==
  ASSUME IInv, NEW t \in Threads, PopFree(t)
  PROVE  IInv'
<1> DEFINE n == local[t].node
<1>1. /\ At(t, "popFree") /\ allocated' = allocated \ {n}
      /\ UNCHANGED <<list, mtx, mem, deleted>>
  BY DEF PopFree
<1>2. OnlyLocal(t) /\ local'[t].pc = "idle"
  BY LeaveLocal DEF IInv, PopFree
<1>3. Holding(t) /\ ~InList(n) /\ ~deleted
  BY <1>1 DEF Holding, At, IInv, NodesOwned, Freeing, Accounted
<1>4. UNCHANGED <<head, tail, chain>>
  BY <1>1 DEF list
<1>5. Typed' /\ ListWhole'
  BY <1>1, <1>2, <1>4 DEF IInv, Typed, ListWhole, OnlyLocal
<1>6. MutexesHeld'
  BY <1>1, <1>2, StayHeld DEF IInv, At, UnderPush, UnderPop
<1>7. \A m : InList(m)' <=> InList(m)
  BY <1>4 DEF InList
<1>8. ~Holding(t)' /\ \A u \in Threads \ {t} : local'[u] = local[u] /\ (Holding(u)' <=> Holding(u))
  BY <1>2 DEF Holding, OnlyLocal
<1>9. \A u \in Threads \ {t} : Holding(u) => local[u].node # n
  BY <1>3 DEF IInv, NodesOwned
<1>10. NodesOwned'
  <2>1. Pushing(t)' /\ Popping(t)' /\ Freeing(t)'
    BY <1>2, <1>8 DEF Pushing, Popping, Freeing, At
  <2>2. ASSUME NEW u \in Threads \ {t}
        PROVE  Pushing(u)' /\ Popping(u)' /\ Freeing(u)'
    <3>1. local'[u] = local[u] /\ Pushing(u) /\ Popping(u) /\ Freeing(u)
      BY <1>8 DEF IInv, NodesOwned
    <3>2. Pushing(u)' /\ Popping(u)'
      BY <1>1, <1>4, <3>1 DEF Pushing, Popping, At
    <3>3. Freeing(u)'
      BY <1>1, <1>7, <1>8, <1>9, <3>1 DEF Freeing
    <3> QED BY <3>2, <3>3
  <2> QED BY <1>8, <2>1, <2>2 DEF IInv, NodesOwned
<1>11. Accounted'
  <2>1. \A i \in 1..Len(chain) : chain[i] \in allocated'
    BY <1>1, <1>3 DEF IInv, Accounted, InList
  <2>2. ASSUME NEW m \in allocated'
        PROVE  InList(m)' \/ \E u \in Threads : Holding(u)' /\ local'[u].node = m
    BY <1>1, <1>3, <1>7, <1>8 DEF IInv, Accounted
  <2> QED BY <1>1, <1>3, <1>4, <2>1, <2>2 DEF Accounted
<1> QED BY <1>5, <1>6, <1>10, <1>11 DEF IInv

LEMMA DeleteStep ==
  ASSUME IInv, Delete
  PROVE  IInv'
<1>1. ~deleted /\ \A t \in Threads : At(t, "idle")
  BY DEF Delete
<1>2. deleted' /\ allocated' = allocated \ ToSet(chain) /\ UNCHANGED <<local, list, mtx, mem>>
  BY DEF Delete
<1>3. UNCHANGED <<head, tail, chain>> /\ \A t \in Threads : ~Holding(t)
  BY <1>1, <1>2 DEF list, Holding, At
<1>4. allocated' = {}
  <2>1. \A n \in allocated : InList(n)
    BY <1>1, <1>3 DEF IInv, Accounted
  <2>2. \A n : InList(n) => n \in ToSet(chain)
    BY DEF InList, ToSet, IInv, Typed
  <2> QED BY <1>2, <2>1, <2>2
<1>5. Typed' /\ MutexesHeld' /\ ListWhole'
  BY <1>2, <1>3, <1>4 DEF IInv, Typed, MutexesHeld, ListWhole, Delete
<1>6. NodesOwned'
  BY <1>1, <1>2, <1>3 DEF NodesOwned, Pushing, Popping, Freeing, Holding, At
<1>7. Accounted'
  BY <1>1, <1>2, <1>4 DEF Accounted, At
<1> QED BY <1>5, <1>6, <1>7 DEF IInv
-----------------------------------------------------------------------------
LEMMA IInvInit == Init => IInv
<1> SUFFICES ASSUME Init PROVE IInv
  OBVIOUS
<1>1. Len(chain) = 1 /\ chain[1] = head /\ tail = head /\ head \in Nodes
  BY DEF Init
<1>2. \A t \in Threads : local[t] = Idle
  BY DEF Init
<1>3. Typed
  <2>1. Idle \in Locals
    BY DEF Idle, Locals, Places, Results
  <2>2. [NewNode EXCEPT !.buffer = Null] \in Fields
    BY RingsQueueAssumption DEF NewNode, Fields
  <2>3. chain \in Seq(Nodes)
    BY <1>1 DEF Init
  <2>4. mtx \in [{"push", "pop"} -> Threads \cup {NoThread}]
    BY DEF Init
  <2>5. local \in [Threads -> Locals] /\ mem \in [Nodes -> Fields]
    BY <2>1, <2>2 DEF Init
  <2> QED BY <1>1, <2>3, <2>4, <2>5 DEF Init, Typed
<1>4. MutexesHeld /\ NodesOwned
  BY <1>2 DEF MutexesHeld, UnderPush, UnderPop, NodesOwned, Pushing, Popping, Freeing,
              Holding, At, Idle
<1>5. ListWhole
  <2>1. mem[head].next = Null /\ mem[head].buffer = Null
    BY DEF Init, NewNode
  <2>2. chain # <<>> /\ \A i \in 1..Len(chain) : i = 1 /\ i \notin 2..Len(chain)
    BY <1>1 DEF Init
  <2> QED BY <1>1, <2>1, <2>2 DEF ListWhole
<1>6. Accounted
  BY <1>1, <1>2 DEF Init, Accounted, InList
<1> QED BY <1>3, <1>4, <1>5, <1>6 DEF IInv

LEMMA IInvNext == IInv /\ [Next]_vars => IInv'
<1> SUFFICES ASSUME IInv, [Next]_vars PROVE IInv'
  OBVIOUS
<1>1. CASE UNCHANGED vars
  BY <1>1 DEF IInv, vars, list, Typed, MutexesHeld, ListWhole, NodesOwned, Pushing, Popping,
              Freeing, Holding, Accounted, InList, At
<1>2. ASSUME NEW t \in Threads, Push(t)
      PROVE  IInv'
  BY <1>2, PushCallStep, PushLockStep, PushExtendStep, PushWriteStep, PushPublishStep,
     PushUnlockStep DEF Push
<1>3. ASSUME NEW t \in Threads, Pop(t)
      PROVE  IInv'
  BY <1>3, CallStep, PopLockStep, PopNextStep, PopCheckStep, PopLastStep, PopLastUnlockStep,
     PopFreeStep, PopItemStep, PopUnlockStep DEF Pop, PopLock
<1>4. ASSUME NEW t \in Threads, IsEmpty(t)
      PROVE  IInv'
  BY <1>4, CallStep, PopLockStep, IsEmptyNextStep, IsEmptyUnlockStep, IsEmptyLoadStep,
     IsEmptyReturnStep DEF IsEmpty, IsEmptyLock
<1> QED BY <1>1, <1>2, <1>3, <1>4, DeleteStep DEF Next

\* The inductive invariant holds in every state of RingsQueue.c's push, pop,
\* is_empty and delete.
THEOREM Invariance == Spec => []IInv
<1> QED BY IInvInit, IInvNext, PTL DEF Spec

\* The list of buffers is never broken (RingsQueue.c, lines 77-85 and 99-118): full
\* buffers between the first node, which has none, and the last one, no index out of
\* its buffer, and pop_idx never beyond push_idx though no mutex is common to both.
THEOREM ListOfBuffers == Spec => []ListIntact
<1>1. IInv => ListIntact
  <2> SUFFICES ASSUME IInv PROVE ListIntact
    OBVIOUS
  <2>1. TypeOK
    BY DEF IInv, Typed, TypeOK, Locals, Places, Results, Fields, Buffers, Slots
  <2> QED BY <2>1 DEF IInv, ListWhole, ListIntact
<1> QED BY <1>1, Invariance, PTL

\* push and pop use and free allocated nodes only, no pusher meets the buffer a
\* popper takes away, and nothing is lost (RingsQueue.c, lines 77-84 and 102-110).
THEOREM Memory == Spec => []MemorySafe
<1>1. IInv => PushPopSafe
  <2> SUFFICES ASSUME IInv, NEW t \in Threads
               PROVE  /\ local[t].pc \in {"pushWrite", "pushPublish"} =>
                           tail \in allocated /\ mem[tail].buffer # Null
                      /\ At(t, "popNext") => head \in allocated
                      /\ local[t].pc \in {"popCheck", "popItem", "popLast"} =>
                           local[t].new_head \in allocated
                      /\ At(t, "popFree") =>
                           local[t].node \in allocated /\ mem[local[t].node].buffer = Null
    BY DEF PushPopSafe
  <2>1. ~At(t, "idle") => head \in allocated /\ tail \in allocated
    BY TailHasRoom DEF IInv, Accounted, ListWhole
  <2>2. local[t].pc \in {"pushWrite", "pushPublish"} => mem[tail].buffer # Null
    BY TailHasRoom DEF IInv, NodesOwned, Pushing
  <2>3. local[t].pc \in {"popCheck", "popItem", "popLast"} => local[t].new_head \in allocated
    BY PoppingNode, TailHasRoom DEF IInv, Accounted
  <2>4. At(t, "popFree") => local[t].node \in allocated /\ mem[local[t].node].buffer = Null
    BY DEF IInv, NodesOwned, Freeing, Holding, At
  <2> QED BY <2>1, <2>2, <2>3, <2>4 DEF At
<1>2. IInv => NoBufferRace
  BY RingsQueueAssumption DEF IInv, NodesOwned, Pushing, Popping, NoBufferRace, At
<1>3. IInv => NoLeak
  <2> SUFFICES ASSUME IInv PROVE NoLeak
    OBVIOUS
  <2>1. \A n : InList(n) => n \in ToSet(chain)
    BY DEF InList, ToSet, IInv, Typed
  <2> QED BY <2>1 DEF IInv, Accounted, Holding, NoLeak
<1> QED BY <1>1, <1>2, <1>3, Invariance, PTL DEF MemorySafe
-----------------------------------------------------------------------------
(***************************************************************************)
(* What FlattenSeq computes.                                               *)
(***************************************************************************)
Smaller == {p \in Nat \X Nat : p[1] < p[2]}

LEMMA SmallerWellFounded == IsWellFoundedOn(Smaller, Nat)
<1>1. Smaller = OpToRel(<, Nat)
  BY DEF OpToRel, Smaller
<1> QED BY <1>1, NatLessThanWellFounded, Zenon

LEMMA Induction ==
  ASSUME NEW n \in Nat, NEW G, 1 \in G, \A i \in 1..n : i \in G => i + 1 \in G
  PROVE  \A i \in 1..n : i \in G
<1> DEFINE T == {i \in Nat : i \in 1..n /\ i \notin G}
<1> SUFFICES ASSUME T # {} PROVE FALSE
  OBVIOUS
<1>1. PICK x \in T : \A y \in T : <<y, x>> \notin Smaller
  <2>1. T \subseteq Nat
    OBVIOUS
  <2> HIDE DEF T
  <2> QED BY <2>1, SmallerWellFounded, WFMin
<1>2. x \in 1..n /\ x \notin G /\ x # 1
  OBVIOUS
<1>3. x - 1 \in 1..n
  BY <1>2
<1>4. CASE x - 1 \in G
  <2>1. (x - 1) + 1 \in G
    BY <1>3, <1>4
  <2> QED BY <1>2, <2>1
<1>5. CASE x - 1 \notin G
  <2>1. x - 1 \in T /\ <<x - 1, x>> \in Smaller
    BY <1>2, <1>3, <1>5 DEF Smaller
  <2> QED BY <1>1, <2>1
<1> QED BY <1>4, <1>5

\* What FlattenSeq computes along the way.
Joins(f, s) == f = [i \in 1..Len(s) |-> IF i = 1 THEN s[i] ELSE f[i - 1] \o s[i]]
Joining(f, s, n) == \A i \in 1..n : f[i] = IF i = 1 THEN s[i] ELSE f[i - 1] \o s[i]
Joined(s) == CHOOSE f : Joins(f, s)

LEMMA JoinsUpTo ==
  ASSUME NEW S, NEW s \in Seq(Seq(S)), NEW m \in 1..Len(s)
  PROVE  \E f \in [1..m -> Seq(S)] : Joining(f, s, m)
<1> DEFINE Fine(n) == \E f \in [1..n -> Seq(S)] : Joining(f, s, n)
           G == {n \in Nat : n \in 1..Len(s) => Fine(n)}
<1>0. Len(s) \in Nat /\ \A i \in 1..Len(s) : s[i] \in Seq(S)
  OBVIOUS
<1>1. 1 \in G
  <2> SUFFICES ASSUME 1 \in 1..Len(s) PROVE Fine(1)
    OBVIOUS
  <2> DEFINE f == [i \in 1..1 |-> s[i]]
  <2>1. f \in [1..1 -> Seq(S)]
    BY <1>0
  <2>2. Joining(f, s, 1)
    BY DEF Joining
  <2> QED BY <2>1, <2>2
<1>2. ASSUME NEW n \in 1..Len(s), n \in G
      PROVE  n + 1 \in G
  <2> SUFFICES ASSUME n + 1 \in 1..Len(s) PROVE Fine(n + 1)
    OBVIOUS
  <2>1. PICK f \in [1..n -> Seq(S)] : Joining(f, s, n)
    BY <1>2
  <2> DEFINE g == [i \in 1..(n + 1) |-> IF i = n + 1 THEN f[n] \o s[n + 1] ELSE f[i]]
  <2>2. f[n] \in Seq(S) /\ s[n + 1] \in Seq(S)
    BY <1>0
  <2>3. f[n] \o s[n + 1] \in Seq(S)
    BY <2>2, ConcatProperties
  <2>4. g \in [1..(n + 1) -> Seq(S)]
    BY <2>3
  <2>5. ASSUME NEW i \in 1..(n + 1)
        PROVE  g[i] = IF i = 1 THEN s[i] ELSE g[i - 1] \o s[i]
    <3>1. CASE i = n + 1
      <4>1. i # 1 /\ g[i - 1] = f[n] /\ g[i] = f[n] \o s[n + 1]
        BY <3>1
      <4> QED BY <3>1, <4>1
    <3>2. CASE i \in 1..n
      <4>1. g[i] = f[i] /\ (i # 1 => g[i - 1] = f[i - 1])
        BY <3>2
      <4> HIDE DEF g
      <4> QED BY <2>1, <3>2, <4>1 DEF Joining
    <3> QED BY <3>1, <3>2
  <2>6. Joining(g, s, n + 1)
    BY <2>5 DEF Joining
  <2> QED BY <2>4, <2>6
<1> HIDE DEF G
<1>3. m \in G
  BY <1>0, <1>1, <1>2, Induction
<1> QED BY <1>3 DEF G

LEMMA JoinsUnique ==
  ASSUME NEW s, NEW n \in Nat, NEW f, NEW g, Joining(f, s, n), Joining(g, s, n)
  PROVE  \A i \in 1..n : f[i] = g[i]
<1> DEFINE G == {i \in Nat : i \in 1..n => f[i] = g[i]}
<1>1. 1 \in G
  BY DEF Joining
<1>2. ASSUME NEW i \in 1..n, i \in G PROVE i + 1 \in G
  <2> SUFFICES ASSUME i + 1 \in 1..n PROVE f[i + 1] = g[i + 1]
    OBVIOUS
  <2>1. f[i] = g[i]
    BY <1>2
  <2>2. (i + 1) - 1 = i /\ i + 1 # 1
    OBVIOUS
  <2>3. f[i + 1] = f[i] \o s[i + 1] /\ g[i + 1] = g[i] \o s[i + 1]
    BY <2>2 DEF Joining
  <2> QED BY <2>1, <2>3
<1> HIDE DEF G
<1>3. \A i \in 1..n : i \in G
  BY <1>1, <1>2, Induction
<1> QED BY <1>3 DEF G

LEMMA JoinedIs ==
  ASSUME NEW S, NEW s \in Seq(Seq(S)), NEW n, n = Len(s), n # 0
  PROVE  /\ n \in Nat /\ n \in 1..n /\ Joining(Joined(s), s, n)
         /\ \A i \in 1..n : Joined(s)[i] \in Seq(S)
         /\ FlattenSeq(s) = Joined(s)[n]
<1>0. n \in Nat /\ n \in 1..n
  OBVIOUS
<1>1. PICK f \in [1..n -> Seq(S)] : Joining(f, s, n)
  BY <1>0, JoinsUpTo
<1>2. Joins(f, s)
  BY <1>1 DEF Joins, Joining
<1>3. Joins(Joined(s), s)
  BY <1>2 DEF Joined
<1>4. Joining(Joined(s), s, n)
  <2> DEFINE j == Joined(s)
  <2>1. j = [i \in 1..n |-> IF i = 1 THEN s[i] ELSE j[i - 1] \o s[i]]
    BY <1>3 DEF Joins
  <2> HIDE DEF j
  <2>2. Joining(j, s, n)
    BY <2>1 DEF Joining
  <2> QED BY <2>2 DEF j
<1>5. \A i \in 1..n : f[i] = Joined(s)[i]
  BY <1>0, <1>1, <1>4, JoinsUnique
<1>6. FlattenSeq(s) = Joined(s)[n]
  BY DEF FlattenSeq, Joined, Joins
<1> QED BY <1>0, <1>1, <1>4, <1>5, <1>6

LEMMA FlattenEmpty == FlattenSeq(<<>>) = <<>>
BY DEF FlattenSeq

LEMMA FlattenType ==
  ASSUME NEW S, NEW s \in Seq(Seq(S))
  PROVE  FlattenSeq(s) \in Seq(S)
<1>1. CASE Len(s) = 0
  <2>1. s = <<>>
    BY <1>1
  <2> QED BY <2>1, FlattenEmpty, EmptySeq
<1>2. CASE Len(s) # 0
  <2>1. PICK n : n = Len(s)
    OBVIOUS
  <2>2. n # 0 /\ n \in 1..n
    BY <1>2, <2>1
  <2>3. FlattenSeq(s) = Joined(s)[n] /\ \A i \in 1..n : Joined(s)[i] \in Seq(S)
    BY <2>1, <2>2, JoinedIs
  <2> QED BY <2>2, <2>3
<1> QED BY <1>1, <1>2

LEMMA FlattenOne ==
  ASSUME NEW S, NEW x \in Seq(S)
  PROVE  FlattenSeq(<<x>>) = x
<1>1. PICK s \in Seq(Seq(S)) : s = <<x>>
  <2>1. <<x>> \in Seq(Seq(S))
    OBVIOUS
  <2> QED BY <2>1
<1>2. Len(s) = 1 /\ s[1] = x
  BY <1>1
<1>3. FlattenSeq(s) = Joined(s)[1] /\ Joining(Joined(s), s, 1)
  <2>1. PICK n : n = 1
    OBVIOUS
  <2>2. n = Len(s) /\ n # 0
    BY <1>2, <2>1
  <2>3. FlattenSeq(s) = Joined(s)[n] /\ Joining(Joined(s), s, n)
    BY <2>2, JoinedIs
  <2> QED BY <2>1, <2>3
<1>4. Joined(s)[1] = s[1]
  BY <1>3 DEF Joining
<1> QED BY <1>1, <1>2, <1>3, <1>4

LEMMA FlattenAppend ==
  ASSUME NEW S, NEW s \in Seq(Seq(S)), NEW x \in Seq(S)
  PROVE  FlattenSeq(Append(s, x)) = FlattenSeq(s) \o x
<1>0. PICK r \in Seq(Seq(S)) : r = Append(s, x)
  BY AppendProperties
<1>1. CASE Len(s) = 0
  <2>1. s = <<>> /\ r = <<x>>
    BY <1>0, <1>1
  <2>2. <<>> \o x = x
    BY ConcatEmptySeq
  <2> QED BY <1>0, <2>1, <2>2, FlattenEmpty, FlattenOne
<1>2. CASE Len(s) # 0
  <2>0. PICK n \in Nat : n = Len(s)
    OBVIOUS
  <2>1. n # 0 /\ Len(r) = n + 1 /\ r[n + 1] = x /\ \A i \in 1..n : r[i] = s[i]
    BY <1>0, <1>2, <2>0, AppendProperties
  <2>2. Joining(Joined(s), s, n) /\ FlattenSeq(s) = Joined(s)[n]
    BY <2>0, <2>1, JoinedIs
  <2>3. Joining(Joined(r), r, n + 1) /\ FlattenSeq(r) = Joined(r)[n + 1]
    <3>1. n + 1 = Len(r) /\ n + 1 # 0
      BY <2>1
    <3> QED BY <3>1, JoinedIs
  <2>4. Joining(Joined(r), s, n)
    BY <2>1, <2>3 DEF Joining
  <2>5. Joined(s)[n] = Joined(r)[n]
    BY <2>1, <2>2, <2>4, JoinsUnique
  <2>6. Joined(r)[n + 1] = Joined(r)[n] \o x
    <3>1. n + 1 \in 1..(n + 1) /\ n + 1 # 1 /\ (n + 1) - 1 = n
      BY <2>1
    <3> QED BY <2>1, <2>3, <3>1 DEF Joining
  <2> QED BY <1>0, <2>2, <2>3, <2>5, <2>6
<1> QED BY <1>1, <1>2

LEMMA FlattenCons ==
  ASSUME NEW S, NEW s \in Seq(Seq(S)), NEW x \in Seq(S)
  PROVE  FlattenSeq(<<x>> \o s) = x \o FlattenSeq(s)
<1>0. PICK r \in Seq(Seq(S)) : r = <<x>> \o s
  <2>1. <<x>> \o s \in Seq(Seq(S))
    OBVIOUS
  <2> QED BY <2>1
<1>1. CASE Len(s) = 0
  <2>1. s = <<>> /\ r = <<x>>
    BY <1>0, <1>1
  <2>2. x \o <<>> = x
    BY ConcatEmptySeq
  <2> QED BY <1>0, <2>1, <2>2, FlattenEmpty, FlattenOne
<1>2. CASE Len(s) # 0
  <2>0. PICK n \in Nat : n = Len(s)
    OBVIOUS
  <2>1. n # 0 /\ Len(r) = n + 1 /\ r[1] = x /\ \A i \in 1..n : r[i + 1] = s[i]
    BY <1>0, <1>2, <2>0
  <2>2. /\ Joining(Joined(s), s, n) /\ FlattenSeq(s) = Joined(s)[n] /\ n \in 1..n
        /\ \A i \in 1..n : Joined(s)[i] \in Seq(S)
    BY <2>0, <2>1, JoinedIs
  <2>3. Joining(Joined(r), r, n + 1) /\ FlattenSeq(r) = Joined(r)[n + 1]
    <3>1. n + 1 = Len(r) /\ n + 1 # 0
      BY <2>1
    <3> QED BY <3>1, JoinedIs
  <2>4. ASSUME NEW i \in 1..n PROVE Joined(r)[i + 1] = Joined(r)[i] \o s[i]
    <3>1. i + 1 \in 1..(n + 1) /\ i + 1 # 1 /\ (i + 1) - 1 = i
      OBVIOUS
    <3> QED BY <2>1, <2>3, <3>1 DEF Joining
  <2>5. Joined(r)[1] = x /\ Joined(s)[1] = s[1]
    <3>1. 1 \in 1..(n + 1) /\ 1 \in 1..n
      BY <2>1
    <3> QED BY <2>1, <2>2, <2>3, <3>1 DEF Joining
  <2> DEFINE G == {i \in Nat : i \in 1..n => Joined(r)[i + 1] = x \o Joined(s)[i]}
  <2>6. 1 \in G
    <3>1. 1 \in 1..n
      BY <2>1
    <3>2. Joined(r)[1 + 1] = Joined(r)[1] \o s[1]
      BY <2>4, <3>1
    <3> QED BY <2>5, <3>2
  <2>7. ASSUME NEW i \in 1..n, i \in G
        PROVE  i + 1 \in G
    <3> SUFFICES ASSUME i + 1 \in 1..n
                 PROVE  Joined(r)[(i + 1) + 1] = x \o Joined(s)[i + 1]
      OBVIOUS
    <3>1. Joined(r)[(i + 1) + 1] = Joined(r)[i + 1] \o s[i + 1]
      BY <2>4
    <3>2. Joined(s)[i + 1] = Joined(s)[i] \o s[i + 1]
      <4>1. i + 1 # 1 /\ (i + 1) - 1 = i
        OBVIOUS
      <4> QED BY <2>2, <4>1 DEF Joining
    <3>3. Joined(r)[i + 1] = x \o Joined(s)[i]
      BY <2>7
    <3>4. Joined(s)[i] \in Seq(S) /\ s[i + 1] \in Seq(S)
      BY <2>0, <2>2
    <3>5. \A b, c \in Seq(S) : (x \o b) \o c = x \o (b \o c)
      BY SMTT(30)
    <3> QED BY <3>1, <3>2, <3>3, <3>4, <3>5
  <2> HIDE DEF G
  <2>8. n \in G
    BY <2>2, <2>6, <2>7, Induction
  <2> QED BY <1>0, <2>2, <2>3, <2>8 DEF G
<1> QED BY <1>1, <1>2
-----------------------------------------------------------------------------
(***************************************************************************)
(* RingsQueue implements FifoQueue, is_empty left aside: each step is a    *)
(* step of the indivisible queue, or changes nothing there.                *)
(***************************************************************************)

\* A node never stays in the list with all its slots taken.
RoomLeft == \A i \in 2..Len(chain) : mem[chain[i]].pop_idx < RING_SIZE

\* The value a pusher is about to publish is in its slot; a popper knows which slot
\* it takes.
Slotted(t) ==
  /\ At(t, "pushPublish") =>
       /\ local[t].ret \in Values
       /\ mem[tail].buffer[mem[tail].push_idx + 1] = local[t].ret
  /\ At(t, "popLast") => mem[local[t].new_head].pop_idx + 1 = RING_SIZE
  /\ At(t, "popItem") => mem[local[t].new_head].pop_idx + 1 < RING_SIZE

AllSlotted == RoomLeft /\ \A t \in Threads : Slotted(t)

\* What the history holds: a running operation has seen the queue as it is now.
SeenNow ==
  \A t \in Threads : IF PushPopCalls[t] = PushPop!Idle THEN PushPopSeen[t] = {}
                     ELSE (Contents = <<>>) \in PushPopSeen[t]

RInv == IInv /\ AllSlotted /\ SeenNow
-----------------------------------------------------------------------------
(***************************************************************************)
(* The operation a thread is in, by the place where it stands.             *)
(***************************************************************************)
Phases ==
  \A t \in Threads :
    LET pc == local[t].pc
        Is(op, val) == PushPopCalls[t] = [op |-> op, val |-> val]
    IN /\ pc \in {"pushLock", "pushExtend", "pushWrite", "pushPublish"} =>
            Is("push", local[t].ret)
       /\ pc = "pushUnlock" => Is("pushed", None)
       /\ pc \in {"popLock", "popNext", "popCheck", "popItem", "popLast"} => Is("pop", None)
       /\ pc \in {"popUnlock", "popLastUnlock", "popFree"} => Is("popped", local[t].ret)
       /\ pc = "idle" \/ Asking(t) => Is("idle", None)

LEMMA PhasesNow == Phases /\ Phases'
<1>1. Phases
  BY DEF Phases, PushPopCalls, Calling, Asking, Answering
<1>2. Phases'
  BY DEF Phases, PushPopCalls, Calling, Asking, Answering
<1> QED BY <1>1, <1>2

LEMMA OthersCall ==
  ASSUME NEW t \in Threads, OnlyLocal(t), NEW u \in Threads \ {t}
  PROVE  PushPopCalls'[u] = PushPopCalls[u]
<1>1. local'[u] = local[u]
  BY DEF OnlyLocal
<1>2. Calling(u)' = Calling(u) /\ (Asking(u)' <=> Asking(u))
  BY <1>1 DEF Calling, Asking
<1> QED BY <1>2 DEF PushPopCalls

\* A step of t changes at most the operation of t.
LEMMA CallsBecome ==
  ASSUME NEW t \in Threads, OnlyLocal(t), NEW c, PushPopCalls'[t] = c
  PROVE  PushPopCalls' = [PushPopCalls EXCEPT ![t] = c]
<1>1. \A u \in Threads \ {t} : PushPopCalls'[u] = PushPopCalls[u]
  BY OthersCall
<1>2. /\ PushPopCalls' = [u \in Threads |-> PushPopCalls'[u]]
      /\ PushPopCalls = [u \in Threads |-> PushPopCalls[u]]
  BY DEF PushPopCalls
<1> QED BY <1>1, <1>2

LEMMA CallsSame ==
  ASSUME NEW t \in Threads, OnlyLocal(t), PushPopCalls'[t] = PushPopCalls[t]
  PROVE  PushPopCalls' = PushPopCalls
<1>1. \A u \in Threads \ {t} : PushPopCalls'[u] = PushPopCalls[u]
  BY OthersCall
<1>2. /\ PushPopCalls' = [u \in Threads |-> PushPopCalls'[u]]
      /\ PushPopCalls = [u \in Threads |-> PushPopCalls[u]]
  BY DEF PushPopCalls
<1> QED BY <1>1, <1>2
-----------------------------------------------------------------------------
(***************************************************************************)
(* The contents of the list, node by node.                                 *)
(***************************************************************************)
PartIs(n, q) ==
  /\ q \in Seq(Slots) /\ Len(q) = mem[n].push_idx - mem[n].pop_idx
  /\ \A j \in 1..Len(q) : q[j] = mem[n].buffer[mem[n].pop_idx + j]

LEMMA NodeBehindHead ==
  ASSUME IInv, NEW i \in 2..Len(chain), NEW n, n = chain[i]
  PROVE  /\ n \in Nodes /\ mem[n] \in Fields /\ mem[n].buffer \in Buffers
         /\ mem[n].push_idx \in 0..RING_SIZE /\ mem[n].pop_idx \in 0..RING_SIZE
         /\ mem[n].pop_idx <= mem[n].push_idx
<1>1. n \in Nodes
  BY TailHasRoom
<1>2. mem[n] \in Fields
  BY <1>1 DEF IInv, Typed
<1>3. mem[n].buffer # Null /\ mem[n].pop_idx <= mem[n].push_idx
  BY DEF IInv, ListWhole
<1> QED BY <1>1, <1>2, <1>3 DEF Fields

LEMMA PublishedIs ==
  ASSUME IInv, NEW i \in 2..Len(chain)
  PROVE  PartIs(chain[i], Published(chain[i]))
<1> DEFINE b == mem[chain[i]].buffer
           lo == mem[chain[i]].pop_idx
           hi == mem[chain[i]].push_idx
<1>1. /\ b \in [1..RING_SIZE -> Slots] /\ RING_SIZE \in Nat
      /\ lo \in 0..RING_SIZE /\ hi \in 0..RING_SIZE /\ lo <= hi
  BY NodeBehindHead, RingsQueueAssumption DEF Buffers
<1> HIDE DEF b, lo, hi
<1>2. b \in Seq(Slots) /\ Len(b) = RING_SIZE
  BY <1>1
<1>3. lo + 1 \in 1..(Len(b) + 1) /\ hi \in (lo + 1 - 1)..Len(b)
  BY <1>1, <1>2
<1>4. /\ SubSeq(b, lo + 1, hi) \in Seq(Slots)
      /\ Len(SubSeq(b, lo + 1, hi)) = hi - lo
      /\ \A j \in 1..(hi - lo) : SubSeq(b, lo + 1, hi)[j] = b[lo + j]
  BY <1>1, <1>2, SMTT(30)
<1> QED BY <1>4 DEF PartIs, Published, b, lo, hi

LEMMA PartUnique ==
  ASSUME NEW n, NEW p, NEW q, PartIs(n, p), PartIs(n, q)
  PROVE  p = q
<1>1. p \in Seq(Slots) /\ q \in Seq(Slots) /\ Len(p) = Len(q)
      /\ \A j \in 1..Len(p) : p[j] = q[j]
  BY DEF PartIs
<1> QED BY <1>1, SeqEqual

LEMMA PartsAre ==
  ASSUME IInv
  PROVE  /\ Parts \in Seq(Seq(Slots)) /\ Len(Parts) = Len(chain) - 1
         /\ \A i \in 1..(Len(chain) - 1) : Parts[i] = Published(chain[i + 1])
<1>1. Len(chain) \in Nat \ {0}
  BY TailHasRoom
<1>2. \A i \in 1..(Len(chain) - 1) : Published(chain[i + 1]) \in Seq(Slots)
  <2>1. \A i \in 1..(Len(chain) - 1) : i + 1 \in 2..Len(chain)
    BY <1>1
  <2> QED BY <2>1, PublishedIs DEF PartIs
<1>3. Parts \in [1..(Len(chain) - 1) -> Seq(Slots)]
  BY <1>2 DEF Parts
<1>4. Len(chain) - 1 \in Nat
  BY <1>1
<1>5. Parts \in Seq(Seq(Slots)) /\ Len(Parts) = Len(chain) - 1
  BY <1>3, <1>4
<1> QED BY <1>5 DEF Parts

LEMMA ContentsType == IInv => Contents \in Seq(Slots)
BY PartsAre, FlattenType DEF Contents

LEMMA ContentsSame ==
  ASSUME IInv, chain' = chain,
         \A i \in 2..Len(chain) : Published(chain[i])' = Published(chain[i])
  PROVE  Contents' = Contents
<1>1. Len(chain) \in Nat \ {0}
  BY TailHasRoom
<1>2. \A i \in 1..(Len(chain) - 1) : i + 1 \in 2..Len(chain)
  BY <1>1
<1>3. Parts' = Parts
  BY <1>2 DEF Parts
<1> QED BY <1>3 DEF Contents
-----------------------------------------------------------------------------
(***************************************************************************)
(* The history.                                                            *)
(***************************************************************************)

\* is_empty, once called, is the operation of its thread until it returns.
StaysAsking == \A u \in Threads : Asking(u) => Asking(u)' \/ At(u, "idle")'

LEMMA WitnessNext ==
  ASSUME Fifo!Witness, StaysAsking
  PROVE  PushPop!Witness /\ SeenNow'
<1> DEFINE Kept(u) == IF PushPopCalls[u] = PushPop!Idle THEN {} ELSE PushPopSeen[u]
<1>1. ASSUME NEW u \in Threads
      PROVE  PushPopSeen'[u] = IF PushPopCalls'[u] = PushPop!Idle THEN {}
                               ELSE Kept(u) \cup {Contents' = <<>>}
  <2>1. seen'[u] = IF Calls'[u] = Fifo!Idle THEN {}
                   ELSE (IF Calls[u] = Fifo!Idle THEN {} ELSE seen[u]) \cup {Contents' = <<>>}
    BY DEF Fifo!Witness
  <2>2. CASE Asking(u)'
    BY <2>2 DEF PushPopSeen, PushPopCalls, PushPop!Idle
  <2>3. CASE ~Asking(u)' /\ Asking(u)
    <3>1. At(u, "idle")'
      BY <2>3 DEF StaysAsking
    <3>2. Calling(u)' = Fifo!Idle /\ Calls'[u] = Fifo!Idle
      BY <3>1 DEF Calls, Calling, At, Answering, Fifo!Idle
    <3>3. PushPopCalls'[u] = PushPop!Idle
      BY <2>3, <3>2 DEF PushPopCalls, Fifo!Idle, PushPop!Idle
    <3> QED BY <2>1, <2>3, <3>2, <3>3 DEF PushPopSeen
  <2>4. CASE ~Asking(u)' /\ ~Asking(u)
    <3>1. PushPopCalls'[u] = Calls'[u] /\ PushPopCalls[u] = Calls[u]
      BY <2>4 DEF PushPopCalls, Calls
    <3>2. PushPopSeen'[u] = seen'[u] /\ PushPopSeen[u] = seen[u]
      BY <2>4 DEF PushPopSeen
    <3> QED BY <2>1, <3>1, <3>2 DEF Fifo!Idle, PushPop!Idle
  <2> QED BY <2>2, <2>3, <2>4
<1>2. PushPopSeen' = [u \in Threads |-> PushPopSeen'[u]]
  BY DEF PushPopSeen
<1>3. PushPop!Witness
  BY <1>1, <1>2 DEF PushPop!Witness
<1>4. SeenNow'
  BY <1>1 DEF SeenNow
<1> QED BY <1>3, <1>4

LEMMA SeenSame ==
  ASSUME SeenNow, PushPop!Witness, Contents' = Contents, PushPopCalls' = PushPopCalls
  PROVE  UNCHANGED PushPop!vars
<1>1. \A t \in Threads : PushPopSeen'[t] = PushPopSeen[t]
  BY DEF PushPop!Witness, SeenNow
<1>2. /\ PushPopSeen = [t \in Threads |-> PushPopSeen[t]]
      /\ PushPopSeen' = [t \in Threads |-> PushPopSeen'[t]]
  BY DEF PushPopSeen
<1> QED BY <1>1, <1>2 DEF PushPop!vars
-----------------------------------------------------------------------------
(***************************************************************************)
(* The steps that only move a thread.                                      *)
(***************************************************************************)
Simulated == /\ StaysAsking
             /\ \/ \E t \in Threads : PushPop!Step(t)
                \/ Contents' = Contents /\ PushPopCalls' = PushPopCalls

\* The step leaves the list as it is.
Aside(t) ==
  /\ OnlyLocal(t) /\ UNCHANGED <<list, mem>>
  /\ local'[t].pc \notin {"pushPublish", "popLast", "popItem"}

LEMMA AskingKept ==
  ASSUME NEW t \in Threads, OnlyLocal(t), Asking(t) => Asking(t)' \/ local'[t].pc = "idle"
  PROVE  StaysAsking
<1>1. \A u \in Threads \ {t} : local'[u] = local[u]
  BY DEF OnlyLocal
<1> QED BY <1>1 DEF StaysAsking, Asking, At

LEMMA ListAside ==
  ASSUME RInv, UNCHANGED <<list, mem>>
  PROVE  Contents' = Contents
<1>1. chain' = chain /\ mem' = mem
  BY DEF list
<1>2. Parts' = Parts
  BY <1>1 DEF Published, Parts
<1> QED BY <1>2 DEF Contents

LEMMA AsideStep ==
  ASSUME RInv, NEW t \in Threads, Aside(t)
  PROVE  /\ AllSlotted' /\ Contents' = Contents
         /\ PushPopCalls'[t] = PushPopCalls[t] => PushPopCalls' = PushPopCalls
         /\ \A c : PushPopCalls'[t] = c => PushPopCalls' = [PushPopCalls EXCEPT ![t] = c]
<1> USE DEF RInv, Aside
<1>1. UNCHANGED <<head, tail, chain, mem>>
  BY DEF list
<1>2. AllSlotted'
  <2>1. RoomLeft'
    BY <1>1 DEF AllSlotted, RoomLeft
  <2>2. Slotted(t)'
    BY DEF Slotted, At
  <2>3. \A u \in Threads \ {t} : Slotted(u)'
    BY <1>1 DEF AllSlotted, Slotted, At, OnlyLocal
  <2> QED BY <2>1, <2>2, <2>3 DEF AllSlotted
<1>3. Contents' = Contents
  BY ListAside
<1> QED BY <1>2, <1>3, CallsSame, CallsBecome

\* A step inside one operation.
LEMMA Silent ==
  ASSUME RInv, NEW t \in Threads, Aside(t), PushPopCalls'[t] = PushPopCalls[t],
         Asking(t) => Asking(t)' \/ local'[t].pc = "idle"
  PROVE  Simulated /\ AllSlotted'
BY AsideStep, AskingKept DEF Simulated, Aside

LEMMA LockIsSilent ==
  ASSUME RInv, NEW t \in Threads, PushLock(t) \/ PopLock(t) \/ PopLastUnlock(t)
  PROVE  Simulated /\ AllSlotted'
<1> USE DEF RInv, IInv, At
<1>1. CASE PushLock(t)
  <2>1. PICK place \in {"pushExtend", "pushWrite"} : Goto(t, place)
    BY <1>1 DEF PushLock, Lock
  <2>2. /\ OnlyLocal(t) /\ local[t].pc = "pushLock" /\ local'[t].pc = place
        /\ local'[t].ret = local[t].ret
    BY <1>1, <2>1, GotoLocal DEF PushLock, Lock, Places
  <2>3. Aside(t)
    BY <1>1, <2>2 DEF Aside, PushLock, Lock
  <2>4. PushPopCalls'[t] = PushPopCalls[t]
    BY <2>2, PhasesNow DEF Phases
  <2> QED BY <2>2, <2>3, <2>4, Silent DEF Asking, Answering
<1>2. CASE PopLock(t)
  <2>1. OnlyLocal(t) /\ local[t].pc = "popLock" /\ local'[t].pc = "popNext"
    BY <1>2, GotoLocal DEF PopLock, Lock, Places
  <2>2. Aside(t)
    BY <1>2, <2>1 DEF Aside, PopLock, Lock
  <2>3. PushPopCalls'[t] = PushPopCalls[t]
    BY <2>1, PhasesNow DEF Phases
  <2> QED BY <2>1, <2>2, <2>3, Silent DEF Asking, Answering
<1>3. CASE PopLastUnlock(t)
  <2>1. /\ OnlyLocal(t) /\ local[t].pc = "popLastUnlock" /\ local'[t].pc = "popFree"
        /\ local'[t].ret = local[t].ret
    BY <1>3, GotoLocal DEF PopLastUnlock, Unlock, Places
  <2>2. Aside(t)
    BY <1>3, <2>1 DEF Aside, PopLastUnlock, Unlock
  <2>3. PushPopCalls'[t] = PushPopCalls[t]
    BY <2>1, PhasesNow DEF Phases
  <2> QED BY <2>1, <2>2, <2>3, Silent DEF Asking, Answering
<1> QED BY <1>1, <1>2, <1>3

\* is_empty goes on, or begins or ends: no operation of PushPop.
LEMMA AskingIsSilent ==
  ASSUME RInv, NEW t \in Threads, OnlyLocal(t), UNCHANGED <<list, mem>>,
         local[t].pc \in Answering \cup {"isEmptyReturn", "idle"},
         local'[t].pc \in Answering \cup {"isEmptyReturn", "idle"}
  PROVE  Simulated /\ AllSlotted'
<1>1. Aside(t)
  BY DEF Aside, Answering
<1>2. /\ PushPopCalls[t] = [op |-> "idle", val |-> None]
      /\ PushPopCalls'[t] = [op |-> "idle", val |-> None]
  BY PhasesNow DEF Phases, Asking
<1> QED BY <1>1, <1>2, Silent DEF Asking

LEMMA IsEmptyIsSilent ==
  ASSUME RInv, NEW t \in Threads, IsEmpty(t)
  PROVE  Simulated /\ AllSlotted'
<1> USE DEF RInv, IInv, At
<1>1. CASE Call(t, "isEmptyLock")
  <2>1. OnlyLocal(t) /\ local[t].pc = "idle" /\ local'[t].pc = "isEmptyLock"
    BY <1>1, GotoLocal DEF Call, Places, Answering
  <2> QED BY <1>1, <2>1, AskingIsSilent DEF Call, Answering
<1>2. CASE IsEmptyLock(t)
  <2>1. OnlyLocal(t) /\ local[t].pc = "isEmptyLock" /\ local'[t].pc = "isEmptyNext"
    BY <1>2, GotoLocal DEF IsEmptyLock, Lock, Places, Answering
  <2> QED BY <1>2, <2>1, AskingIsSilent DEF IsEmptyLock, Lock, Answering
<1>3. CASE IsEmptyNext(t)
  <2>1. OnlyLocal(t) /\ local'[t].pc = "isEmptyUnlock"
    BY <1>3, NextLocal
  <2> QED BY <1>3, <2>1, AskingIsSilent DEF IsEmptyNext, Answering
<1>4. CASE IsEmptyUnlock(t)
  <2>1. OnlyLocal(t) /\ local[t].pc = "isEmptyUnlock" /\ local'[t].pc = "isEmptyLoad"
    BY <1>4, GotoLocal DEF IsEmptyUnlock, Unlock, Places, Answering
  <2> QED BY <1>4, <2>1, AskingIsSilent DEF IsEmptyUnlock, Unlock, Answering
<1>5. CASE IsEmptyLoad(t)
  <2>1. OnlyLocal(t) /\ local'[t].pc = "isEmptyReturn"
    BY <1>5, LoadLocal
  <2> QED BY <1>5, <2>1, AskingIsSilent DEF IsEmptyLoad, Answering
<1>6. CASE IsEmptyReturn(t)
  <2>1. OnlyLocal(t) /\ local[t].pc = "isEmptyReturn" /\ local'[t].pc = "idle"
    BY <1>6, LeaveLocal DEF IsEmptyReturn
  <2> QED BY <1>6, <2>1, AskingIsSilent DEF IsEmptyReturn
<1> QED BY <1>1, <1>2, <1>3, <1>4, <1>5, <1>6 DEF IsEmpty

LEMMA LeaveIsReturn ==
  ASSUME RInv, NEW t \in Threads, PushUnlock(t) \/ PopUnlock(t) \/ PopFree(t)
  PROVE  Simulated /\ AllSlotted'
<1> USE DEF RInv, IInv, At
<1>1. local[t].pc \in {"pushUnlock", "popUnlock", "popFree"}
  BY DEF PushUnlock, PopUnlock, PopFree, Unlock
<1>2. Leave(t) /\ UNCHANGED <<list, mem>>
  BY DEF PushUnlock, PopUnlock, PopFree, Unlock
<1>3. OnlyLocal(t) /\ local'[t].pc = "idle"
  BY <1>2, LeaveLocal
<1>4. Aside(t)
  BY <1>2, <1>3 DEF Aside
<1>5. PushPopCalls[t].op \in {"pushed", "popped", "answered"}
  <2>1. \/ PushPopCalls[t] = [op |-> "pushed", val |-> None]
        \/ PushPopCalls[t] = [op |-> "popped", val |-> local[t].ret]
    BY <1>1, PhasesNow DEF Phases
  <2> QED BY <2>1
<1>6. PushPopCalls'[t] = PushPop!Idle
  BY <1>3, PhasesNow DEF Phases, PushPop!Idle
<1>7. PushPop!Return(t)
  BY <1>4, <1>5, <1>6, AsideStep DEF PushPop!Return
<1>8. StaysAsking
  BY <1>3, AskingKept
<1> QED BY <1>4, <1>7, <1>8, AsideStep DEF Simulated, PushPop!Step

LEMMA CallIsInvoke ==
  ASSUME RInv, NEW t \in Threads, PushCall(t) \/ Call(t, "popLock")
  PROVE  Simulated /\ AllSlotted'
<1> USE DEF RInv, IInv, At
<1>1. local[t].pc = "idle" /\ UNCHANGED <<list, mem>>
  BY DEF PushCall, Call
<1>2. OnlyLocal(t) /\ \/ local'[t].pc = "popLock"
                      \/ local'[t].pc = "pushLock" /\ local'[t].ret \in Values
  <2>1. CASE PushCall(t)
    <3>1. PICK v \in Values : Answers(t, v, "pushLock")
      BY <2>1 DEF PushCall
    <3> QED BY <3>1, AnswersLocal DEF Places, Results
  <2>2. CASE Call(t, "popLock")
    BY <2>2, GotoLocal DEF Call, Places
  <2> QED BY <2>1, <2>2
<1>3. Aside(t)
  BY <1>1, <1>2 DEF Aside
<1>4. PushPopCalls[t] = PushPop!Idle
  BY <1>1, PhasesNow DEF Phases, PushPop!Idle
<1>5. \/ PushPopCalls'[t] = [op |-> "pop", val |-> None]
      \/ \E v \in Values : PushPopCalls'[t] = [op |-> "push", val |-> v]
  BY <1>2, PhasesNow DEF Phases
<1>6. PushPop!Invoke(t)
  BY <1>3, <1>4, <1>5, AsideStep DEF PushPop!Invoke, PushPop!Becomes
<1>7. StaysAsking
  BY <1>1, <1>2, AskingKept DEF Asking, Answering
<1> QED BY <1>3, <1>6, <1>7, AsideStep DEF Simulated, PushPop!Step
-----------------------------------------------------------------------------
(***************************************************************************)
(* A pop that finds nothing.                                               *)
(***************************************************************************)
LEMMA EmptyWithoutPublished ==
  ASSUME RInv,
         Len(chain) = 1 \/ (Len(chain) > 1 /\ mem[chain[2]].pop_idx >= mem[chain[2]].push_idx)
  PROVE  Contents = <<>>
<1> USE DEF RInv
<1>1. CASE Len(chain) = 1
  <2>1. Parts = <<>>
    BY <1>1, PartsAre
  <2> QED BY <2>1, FlattenEmpty DEF Contents
<1>2. CASE Len(chain) > 1 /\ mem[chain[2]].pop_idx >= mem[chain[2]].push_idx
  <2>1. 2 \in 2..Len(chain)
    BY <1>2, TailHasRoom
  <2>2. mem[chain[2]].push_idx \in 0..RING_SIZE /\ mem[chain[2]].pop_idx \in 0..RING_SIZE
        /\ mem[chain[2]].pop_idx <= mem[chain[2]].push_idx
    BY <2>1, NodeBehindHead
  <2>3. mem[chain[2]].pop_idx < RING_SIZE
    BY <2>1 DEF AllSlotted, RoomLeft
  <2>4. Len(chain) = 2
    <3>1. mem[chain[2]].push_idx # RING_SIZE
      BY <1>2, <2>2, <2>3, RingsQueueAssumption
    <3>2. Len(chain) # 2 => 2 < Len(chain)
      <4>1. PICK k : k = Len(chain)
        OBVIOUS
      <4>2. k \in Nat /\ 2 \in 2..k
        BY <2>1, <4>1, TailHasRoom
      <4>3. k # 2 => 2 < k
        BY <4>2
      <4> QED BY <4>1, <4>3
    <3>3. 2 < Len(chain) => mem[chain[2]].push_idx = RING_SIZE
      BY <2>1 DEF IInv, ListWhole
    <3> QED BY <3>1, <3>2, <3>3
  <2>5. Published(chain[2]) = <<>>
    <3>1. PartIs(chain[2], Published(chain[2]))
      BY <2>1, PublishedIs
    <3>2. Published(chain[2]) \in Seq(Slots) /\ Len(Published(chain[2])) = 0
      BY <1>2, <2>2, <3>1, RingsQueueAssumption DEF PartIs
    <3> QED BY <3>2, EmptySeq
  <2>6. Parts = << <<>> >>
    <3>1. Parts \in Seq(Seq(Slots)) /\ Len(Parts) = 1 /\ Parts[1] = <<>>
      BY <2>4, <2>5, PartsAre
    <3> QED BY <3>1
  <2>7. <<>> \in Seq(Slots)
    BY EmptySeq
  <2> QED BY <2>6, <2>7, FlattenOne DEF Contents
<1> QED BY <1>1, <1>2

LEMMA NothingIsPopEmpty ==
  ASSUME RInv, NEW t \in Threads, Aside(t), Contents = <<>>,
         PushPopCalls[t] = [op |-> "pop", val |-> None],
         PushPopCalls'[t] = [op |-> "popped", val |-> EMPTY_VALUE]
  PROVE  PushPop!PopEmpty(t)
<1>1. TRUE \in PushPopSeen[t]
  <2>1. (Contents = <<>>) = TRUE
    OBVIOUS
  <2>2. PushPopCalls[t] # PushPop!Idle
    BY DEF PushPop!Idle
  <2> QED BY <2>1, <2>2 DEF RInv, SeenNow
<1>2. PushPopCalls' = [PushPopCalls EXCEPT ![t] = [op |-> "popped", val |-> EMPTY_VALUE]]
  BY AsideStep
<1>3. PushPopCalls[t].op = "pop"
  OBVIOUS
<1> QED BY <1>1, <1>2, <1>3, AsideStep DEF PushPop!PopEmpty, PushPop!Becomes

LEMMA NextIsPopEmpty ==
  ASSUME RInv, NEW t \in Threads, PopNext(t)
  PROVE  Simulated /\ AllSlotted'
<1> USE DEF RInv, IInv
<1> DEFINE n == mem[head].next
<1>1. local[t].pc = "popNext" /\ UNCHANGED <<list, mem>>
  BY DEF PopNext, At
<1>2. /\ OnlyLocal(t) /\ local'[t].pc = IF n = Null THEN "popUnlock" ELSE "popCheck"
      /\ n = Null => local'[t].ret = EMPTY_VALUE
  BY NextNodeLocal
<1>3. Aside(t)
  BY <1>1, <1>2 DEF Aside
<1>4. PushPopCalls[t] = [op |-> "pop", val |-> None]
  BY <1>1, PhasesNow DEF Phases
<1>5. StaysAsking
  BY <1>1, <1>2, AskingKept DEF Asking, Answering
<1>6. CASE n # Null
  <2>1. PushPopCalls'[t] = PushPopCalls[t]
    BY <1>2, <1>4, <1>6, PhasesNow DEF Phases
  <2> QED BY <1>3, <1>5, <2>1, AsideStep DEF Simulated
<1>7. CASE n = Null
  <2>1. PushPopCalls'[t] = [op |-> "popped", val |-> EMPTY_VALUE]
    BY <1>2, <1>7, PhasesNow DEF Phases
  <2>2. Len(chain) = 1
    <3>1. Len(chain) \in Nat \ {0} /\ \A i \in 1..Len(chain) : chain[i] \in Nodes
      BY TailHasRoom
    <3>2. 1 \in 1..Len(chain) /\ head = chain[1]
      BY <3>1 DEF ListWhole
    <3>3. n = IF 1 = Len(chain) THEN Null ELSE chain[1 + 1]
      BY <3>2 DEF ListWhole
    <3>4. Len(chain) # 1 => chain[1 + 1] \in Nodes
      <4>1. Len(chain) # 1 => 1 + 1 \in 1..Len(chain)
        BY <3>1
      <4> QED BY <3>1, <4>1
    <3> QED BY <1>7, <3>3, <3>4, RingsQueueAssumption
  <2>3. Contents = <<>>
    BY <2>2, EmptyWithoutPublished
  <2>4. PushPop!PopEmpty(t)
    BY <1>3, <1>4, <2>1, <2>3, NothingIsPopEmpty
  <2> QED BY <1>3, <1>5, <2>4, AsideStep DEF Simulated, PushPop!Step
<1> QED BY <1>6, <1>7

LEMMA CheckIsPopEmpty ==
  ASSUME RInv, NEW t \in Threads, PopCheck(t)
  PROVE  Simulated /\ AllSlotted'
<1> USE DEF RInv, IInv
<1> DEFINE n == local[t].new_head
<1>1. local[t].pc = "popCheck" /\ UNCHANGED <<list, mem>>
  BY DEF PopCheck, At
<1>2. Len(chain) > 1 /\ n = chain[2] /\ 2 \in 2..Len(chain)
  BY <1>1, PoppingNode, TailHasRoom
<1>3. PushPopCalls[t] = [op |-> "pop", val |-> None]
  BY <1>1, PhasesNow DEF Phases
<1>4. CASE mem[n].pop_idx >= mem[n].push_idx
  <2>1. OnlyLocal(t) /\ local'[t].pc = "popUnlock" /\ local'[t].ret = EMPTY_VALUE
    BY <1>4, AnswersLocal DEF PopCheck, Places, Results
  <2>2. Aside(t) /\ StaysAsking
    BY <1>1, <2>1, AskingKept DEF Aside, Asking, Answering
  <2>3. PushPopCalls'[t] = [op |-> "popped", val |-> EMPTY_VALUE]
    BY <2>1, PhasesNow DEF Phases
  <2>4. Contents = <<>>
    BY <1>2, <1>4, EmptyWithoutPublished
  <2>5. PushPop!PopEmpty(t)
    BY <1>3, <2>2, <2>3, <2>4, NothingIsPopEmpty
  <2> QED BY <2>2, <2>5, AsideStep DEF Simulated, PushPop!Step
<1>5. CASE ~(mem[n].pop_idx >= mem[n].push_idx)
  <2> DEFINE place == IF AtLastSlot(n) THEN "popLast" ELSE "popItem"
  <2>1. OnlyLocal(t) /\ local'[t].pc = place /\ local'[t].new_head = n
    BY <1>5, GotoLocal DEF PopCheck, Places
  <2>2. PushPopCalls'[t] = PushPopCalls[t]
    BY <1>3, <2>1, PhasesNow DEF Phases
  <2>3. StaysAsking
    BY <1>1, <2>1, AskingKept DEF Asking, Answering
  <2>4. UNCHANGED <<head, tail, chain, mem>>
    BY <1>1 DEF list
  <2>5. Slotted(t)'
    <3>1. mem[n].pop_idx \in 0..RING_SIZE /\ mem[n].pop_idx < RING_SIZE
      BY <1>2, NodeBehindHead DEF AllSlotted, RoomLeft
    <3> QED BY <2>1, <2>4, <3>1, RingsQueueAssumption DEF Slotted, At, AtLastSlot
  <2>6. RoomLeft' /\ \A u \in Threads \ {t} : Slotted(u)'
    BY <2>1, <2>4 DEF AllSlotted, RoomLeft, Slotted, At, OnlyLocal
  <2>7. Contents' = Contents /\ PushPopCalls' = PushPopCalls
    BY <1>1, <2>1, <2>2, ListAside, CallsSame
  <2> QED BY <2>3, <2>5, <2>6, <2>7 DEF Simulated, AllSlotted
<1> QED BY <1>4, <1>5
-----------------------------------------------------------------------------
(***************************************************************************)
(* The steps of a pusher under its mutex.                                  *)
(***************************************************************************)

\* A node that keeps its indices, and its buffer between them, keeps its part.
LEMMA PartSame ==
  ASSUME IInv, IInv', NEW n \in Nodes, PartIs(n, Published(n)), PartIs(n, Published(n))',
         mem'[n].push_idx = mem[n].push_idx, mem'[n].pop_idx = mem[n].pop_idx,
         mem[n].push_idx \in 0..RING_SIZE, mem[n].pop_idx \in 0..RING_SIZE,
         \A k \in 1..RING_SIZE : k <= mem[n].push_idx => mem'[n].buffer[k] = mem[n].buffer[k]
  PROVE  Published(n)' = Published(n)
<1> DEFINE p == Published(n)
           q == Published(n)'
<1>1. /\ p \in Seq(Slots) /\ q \in Seq(Slots) /\ Len(p) = Len(q)
      /\ Len(p) = mem[n].push_idx - mem[n].pop_idx
      /\ \A j \in 1..Len(p) : p[j] = mem[n].buffer[mem[n].pop_idx + j]
      /\ \A j \in 1..Len(p) : q[j] = mem'[n].buffer[mem[n].pop_idx + j]
  BY DEF PartIs
<1> HIDE DEF p, q
<1>2. \A j \in 1..Len(p) : mem[n].pop_idx + j \in 1..RING_SIZE
                           /\ mem[n].pop_idx + j <= mem[n].push_idx
  <2>1. PICK lo \in Nat, hi \in Nat :
          lo = mem[n].pop_idx /\ hi = mem[n].push_idx /\ hi <= RING_SIZE
    BY RingsQueueAssumption
  <2>2. ASSUME NEW j \in 1..(hi - lo) PROVE lo + j \in 1..RING_SIZE /\ lo + j <= hi
    BY <2>1, RingsQueueAssumption
  <2>3. Len(p) = hi - lo
    BY <1>1, <2>1
  <2> QED BY <2>1, <2>2, <2>3
<1>3. \A j \in 1..Len(p) : p[j] = q[j]
  BY <1>1, <1>2
<1>4. p = q
  BY <1>1, <1>3, SeqEqual
<1> QED BY <1>4 DEF p, q

\* The parts before and after a step.
AllPublished == \A i \in 2..Len(chain) : PartIs(chain[i], Published(chain[i]))

PartsFine ==
  /\ Parts \in Seq(Seq(Slots)) /\ Len(Parts) = Len(chain) - 1
  /\ \A i \in 1..(Len(chain) - 1) : Parts[i] = Published(chain[i + 1])

LEMMA PartsNow == IInv => AllPublished /\ PartsFine
BY PublishedIs, PartsAre DEF AllPublished, PartsFine

LEMMA PartsThen == IInv' => AllPublished' /\ PartsFine'
BY PartsNow, PTL

\* The others at work on the list while t does: no pusher and popper at a time.
LEMMA OnePusher ==
  ASSUME IInv, NEW t \in Threads, local[t].pc \in UnderPush, NEW u \in Threads \ {t}
  PROVE  local[u].pc \notin UnderPush
BY DEF IInv, MutexesHeld

LEMMA OnePopper ==
  ASSUME IInv, NEW t \in Threads, local[t].pc \in UnderPop, NEW u \in Threads \ {t}
  PROVE  local[u].pc \notin UnderPop
BY DEF IInv, MutexesHeld

LEMMA WriteIsSilent ==
  ASSUME RInv, NEW t \in Threads, PushWrite(t)
  PROVE  Simulated /\ AllSlotted'
<1> USE DEF RInv
<1> DEFINE p == mem[tail].push_idx
           v == local[t].ret
<1>1. local[t].pc = "pushWrite" /\ UNCHANGED <<head, tail, chain>>
  BY DEF PushWrite, At, list
<1>2. /\ OnlyLocal(t) /\ local'[t].pc = "pushPublish" /\ local'[t].ret = v /\ v \in Values
      /\ p < RING_SIZE /\ tail = chain[Len(chain)] /\ Len(chain) \in 2..Len(chain)
      /\ mem[tail] \in Fields /\ mem[tail].buffer \in Buffers
  BY WriteEffect
<1>3. /\ \A m \in Nodes \ {tail} : mem'[m] = mem[m]
      /\ mem'[tail].buffer = [mem[tail].buffer EXCEPT ![p + 1] = v]
      /\ mem'[tail].push_idx = p /\ mem'[tail].pop_idx = mem[tail].pop_idx
  BY WriteEffect
<1>4. IInv'
  BY PushWriteStep
<1>5. p \in 0..RING_SIZE /\ p + 1 \in 1..RING_SIZE
  BY <1>2, RingsQueueAssumption DEF Fields
<1>6. ASSUME NEW i \in 2..Len(chain)
      PROVE  Published(chain[i])' = Published(chain[i])
  <2>1. PICK n \in Nodes : n = chain[i]
    BY NodeBehindHead
  <2>2. CASE n # tail
    BY <1>1, <1>3, <2>1, <2>2 DEF Published
  <2>3. CASE n = tail
    <3>1. PartIs(n, Published(n)) /\ PartIs(n, Published(n))'
      BY <1>1, <1>4, <2>1, PartsNow, PartsThen DEF AllPublished
    <3>2. mem[n].push_idx \in 0..RING_SIZE /\ mem[n].pop_idx \in 0..RING_SIZE
      BY <2>1, NodeBehindHead
    <3>3. ASSUME NEW k \in 1..RING_SIZE, k <= mem[n].push_idx
          PROVE  mem'[n].buffer[k] = mem[n].buffer[k]
      <4>1. k # p + 1
        BY <1>5, <2>3, <3>3, RingsQueueAssumption
      <4> QED BY <1>2, <1>3, <2>3, <4>1 DEF Buffers
    <3>4. Published(n)' = Published(n)
      BY <1>3, <1>4, <2>3, <3>1, <3>2, <3>3, PartSame
    <3> QED BY <1>1, <2>1, <3>4
  <2> QED BY <2>2, <2>3
<1>7. Contents' = Contents
  BY <1>1, <1>6, ContentsSame
<1>8. PushPopCalls' = PushPopCalls
  <2>1. PushPopCalls'[t] = PushPopCalls[t]
    BY <1>1, <1>2, PhasesNow DEF Phases
  <2> QED BY <1>2, <2>1, CallsSame
<1>9. StaysAsking
  BY <1>1, <1>2, AskingKept DEF Asking, Answering
<1>10. \A m \in Nodes : mem'[m].pop_idx = mem[m].pop_idx
  BY <1>3
<1>11. RoomLeft'
  BY <1>1, <1>10, TailHasRoom DEF AllSlotted, RoomLeft
<1>12. Slotted(t)'
  BY <1>1, <1>2, <1>3, <1>5 DEF Slotted, At, Buffers
<1>13. ASSUME NEW u \in Threads \ {t} PROVE Slotted(u)'
  <2>1. local'[u] = local[u] /\ local[u].pc \notin UnderPush
    BY <1>1, <1>2, OnePusher DEF OnlyLocal, UnderPush
  <2>2. local[u].pc \in {"popItem", "popLast"} => local[u].new_head \in Nodes
    BY PoppingNode
  <2> QED BY <1>10, <2>1, <2>2 DEF AllSlotted, Slotted, At, UnderPush
<1> QED BY <1>7, <1>8, <1>9, <1>11, <1>12, <1>13 DEF Simulated, AllSlotted

LEMMA ExtendIsSilent ==
  ASSUME RInv, NEW t \in Threads, PushExtend(t)
  PROVE  Simulated /\ AllSlotted'
<1> USE DEF RInv
<1> DEFINE L == Len(chain)
<1>1. PICK n \in Nodes \ allocated :
        /\ mem' = [mem EXCEPT ![n] = NewNode, ![tail].next = n]
        /\ chain' = Append(chain, n)
  BY DEF PushExtend
<1>2. At(t, "pushExtend") /\ local[t].pc = "pushExtend"
  BY DEF PushExtend, At
<1>3. /\ OnlyLocal(t) /\ local'[t].pc = "pushWrite" /\ local'[t].ret = local[t].ret
  BY GotoLocal DEF PushExtend, Places, IInv
<1>4. /\ L \in Nat \ {0} /\ Len(chain') = L + 1 /\ chain'[L + 1] = n
      /\ \A i \in 1..L : chain[i] \in Nodes \ {n} /\ chain'[i] = chain[i]
      /\ mem'[n] = NewNode /\ OthersKeep(n)
  BY <1>1, <1>2, ExtendEffect
<1>5. IInv'
  BY PushExtendStep
<1>6. /\ Parts \in Seq(Seq(Slots)) /\ Parts' \in Seq(Seq(Slots))
      /\ Len(Parts) = L - 1 /\ Len(Parts') = L
  BY <1>4, <1>5, PartsNow, PartsThen DEF PartsFine
<1>7. Parts' = Append(Parts, <<>>)
  <2>1. ASSUME NEW i \in 1..(L - 1) PROVE Parts'[i] = Parts[i]
    <3>1. PICK j \in 2..L : j = i + 1
      BY <1>4
    <3>2. chain'[j] = chain[j] /\ chain[j] \in Nodes \ {n}
      BY <1>4, <3>1
    <3>3. Parts[i] = Published(chain[j])
      BY <1>4, <3>1, PartsNow DEF PartsFine
    <3>4. Parts'[i] = Published(chain[j])'
      <4>1. i \in 1..(Len(chain') - 1)
        BY <1>4
      <4> QED BY <1>5, <3>1, <4>1, PartsThen DEF PartsFine
    <3>5. Published(chain[j])' = Published(chain[j])
      BY <1>4, <3>2 DEF Published, OthersKeep
    <3> QED BY <3>3, <3>4, <3>5
  <2>2. Parts'[L] = <<>>
    <3>1. PICK l \in Nat \ {0} : l = L
      BY <1>4
    <3>2. l \in 1..(Len(chain') - 1) /\ l + 1 \in 2..Len(chain')
      BY <1>4, <3>1
    <3>3. Parts'[l] = Published(chain[l + 1])'
      BY <1>5, <3>2, PartsThen DEF PartsFine
    <3>4. PartIs(chain[l + 1], Published(chain[l + 1]))'
      BY <1>5, <3>2, PartsThen DEF AllPublished
    <3>5. /\ Published(chain[l + 1])' \in Seq(Slots)
          /\ Len(Published(chain[l + 1])') = mem'[n].push_idx - mem'[n].pop_idx
      BY <1>4, <3>1, <3>4 DEF PartIs
    <3>6. mem'[n].push_idx - mem'[n].pop_idx = 0
      BY <1>4 DEF NewNode
    <3> QED BY <3>1, <3>3, <3>5, <3>6, EmptySeq
  <2>3. <<>> \in Seq(Slots)
    BY EmptySeq
  <2>4. PICK q \in Seq(Seq(Slots)) : q = Append(Parts, <<>>)
    BY <1>6, <2>3, AppendProperties
  <2>5. Len(q) = L /\ q[L] = <<>> /\ \A i \in 1..(L - 1) : q[i] = Parts[i]
    <3>1. /\ Len(q) = Len(Parts) + 1 /\ q[Len(Parts) + 1] = <<>>
          /\ \A i \in 1..Len(Parts) : q[i] = Parts[i]
      BY <1>6, <2>3, <2>4, AppendProperties
    <3>2. Len(Parts) = L - 1 /\ Len(Parts) + 1 = L
      BY <1>4, <1>6
    <3> QED BY <3>1, <3>2
  <2>6. ASSUME NEW i \in 1..L PROVE Parts'[i] = q[i]
    <3>1. i = L \/ i \in 1..(L - 1)
      BY <1>4
    <3> QED BY <2>1, <2>2, <2>5, <3>1
  <2>7. Parts' = q
    BY <1>6, <2>5, <2>6, SeqEqual
  <2> QED BY <2>4, <2>7
<1>8. Contents' = Contents
  <2>1. <<>> \in Seq(Slots)
    BY EmptySeq
  <2>2. FlattenSeq(Append(Parts, <<>>)) = FlattenSeq(Parts) \o <<>>
    BY <1>6, <2>1, FlattenAppend
  <2>3. Contents \in Seq(Slots)
    BY ContentsType
  <2>4. Contents' = Contents \o <<>>
    BY <1>7, <2>2 DEF Contents
  <2>5. Contents \o <<>> = Contents
    BY <2>3, ConcatEmptySeq
  <2> QED BY <2>4, <2>5
<1>9. PushPopCalls' = PushPopCalls
  <2>1. PushPopCalls'[t] = PushPopCalls[t]
    BY <1>2, <1>3, PhasesNow DEF Phases
  <2> QED BY <1>3, <2>1, CallsSame
<1>10. StaysAsking
  BY <1>2, <1>3, AskingKept DEF Asking, Answering
<1>11. RoomLeft'
  <2>1. ASSUME NEW i \in 2..Len(chain') PROVE mem'[chain'[i]].pop_idx < RING_SIZE
    <3>1. CASE i = L + 1
      BY <1>4, <3>1, RingsQueueAssumption DEF NewNode
    <3>2. CASE i # L + 1
      <4>1. i \in 2..L /\ i \in 1..L
        BY <1>4, <3>2
      <4> QED BY <1>4, <4>1 DEF AllSlotted, RoomLeft, OthersKeep
    <3> QED BY <3>1, <3>2
  <2> QED BY <2>1 DEF RoomLeft
<1>12. Slotted(t)'
  BY <1>3 DEF Slotted, At
<1>13. ASSUME NEW u \in Threads \ {t} PROVE Slotted(u)'
  <2>1. local'[u] = local[u] /\ local[u].pc \notin UnderPush
    BY <1>2, <1>3, OnePusher DEF OnlyLocal, UnderPush
  <2>2. local[u].pc \in {"popItem", "popLast"} => local[u].new_head \in Nodes \ {n}
    <3>1. ASSUME local[u].pc \in {"popItem", "popLast"}
          PROVE  local[u].new_head \in Nodes \ {n}
      <4>1. L > 1 /\ local[u].new_head = chain[2]
        BY <3>1, PoppingNode
      <4>2. 2 \in 1..L
        BY <1>4, <4>1
      <4> QED BY <1>4, <4>1, <4>2
    <3> QED BY <3>1
  <2> QED BY <1>4, <2>1, <2>2 DEF AllSlotted, Slotted, At, UnderPush, OthersKeep
<1> QED BY <1>8, <1>9, <1>10, <1>11, <1>12, <1>13 DEF Simulated, AllSlotted

\* A sequence without its last element.
ButLast(s) == [i \in 1..(Len(s) - 1) |-> s[i]]

LEMMA ButLastIs ==
  ASSUME NEW S, NEW s \in Seq(S), NEW n \in Nat, n # 0, Len(s) = n
  PROVE  ButLast(s) \in Seq(S) /\ s = Append(ButLast(s), s[n])
<1> DEFINE front == ButLast(s)
<1>1. n - 1 \in Nat /\ n \in 1..n /\ s[n] \in S /\ \A i \in 1..(n - 1) : s[i] \in S
  OBVIOUS
<1>2. front \in [1..(n - 1) -> S]
  BY <1>1 DEF ButLast
<1>3. front \in Seq(S) /\ Len(front) = n - 1 /\ \A i \in 1..(n - 1) : front[i] = s[i]
  BY <1>1, <1>2 DEF ButLast
<1> HIDE DEF front
<1>4. PICK p \in Seq(S) : p = Append(front, s[n])
  BY <1>1, <1>3, AppendProperties
<1>5. Len(p) = n /\ p[n] = s[n] /\ \A i \in 1..(n - 1) : p[i] = s[i]
  BY <1>1, <1>3, <1>4, AppendProperties
<1>6. \A i \in 1..n : s[i] = p[i]
  BY <1>1, <1>5
<1>7. s = p
  BY <1>5, <1>6, SeqEqual
<1> QED BY <1>3, <1>4, <1>7 DEF front

LEMMA PublishIsPush ==
  ASSUME RInv, NEW t \in Threads, PushPublish(t)
  PROVE  PushPop!Push(t) /\ StaysAsking /\ AllSlotted'
<1> USE DEF RInv
<1> DEFINE v == local[t].ret
<1>1. local[t].pc = "pushPublish" /\ At(t, "pushPublish") /\ UNCHANGED <<head, tail, chain>>
  BY DEF PushPublish, At, list
<1>2. /\ OnlyLocal(t) /\ local'[t].pc = "pushUnlock"
      /\ tail \in Nodes /\ tail = chain[Len(chain)] /\ Len(chain) \in 2..Len(chain)
      /\ \A m \in Nodes \ {tail} : mem'[m] = mem[m]
      /\ mem'[tail].buffer = mem[tail].buffer
      /\ mem'[tail].push_idx = mem[tail].push_idx + 1
      /\ mem'[tail].pop_idx = mem[tail].pop_idx
  BY PublishEffect
<1>3. v \in Values /\ mem[tail].buffer[mem[tail].push_idx + 1] = v
  BY <1>1 DEF AllSlotted, Slotted
<1>4. IInv'
  BY PushPublishStep
<1>5. PICK L \in Nat : L = Len(chain)
  BY TailHasRoom
<1>6. L > 1 /\ L \in 2..L /\ tail = chain[L] /\ Len(chain') = L
  BY <1>1, <1>2, <1>5
<1>7. PICK x \in Seq(Slots) : x = Published(tail)
  BY <1>5, <1>6, PartsNow DEF AllPublished, PartIs
<1>8. Published(tail)' = Append(x, v)
  <2>1. PartIs(tail, x)
    BY <1>5, <1>6, <1>7, PartsNow DEF AllPublished
  <2>2. PartIs(tail, Published(tail))'
    <3>1. PartIs(chain[L], Published(chain[L]))'
      BY <1>4, <1>6, PartsThen DEF AllPublished
    <3> QED BY <1>1, <1>6, <3>1 DEF PartIs, Published
  <2>3. PICK q : q = Published(tail)'
    OBVIOUS
  <2>4. PICK lo \in 0..RING_SIZE, hi \in 0..RING_SIZE :
          lo = mem[tail].pop_idx /\ hi = mem[tail].push_idx /\ lo <= hi
    BY <1>2, NodeBehindHead
  <2>5. /\ Len(x) = hi - lo
        /\ \A j \in 1..Len(x) : x[j] = mem[tail].buffer[lo + j]
    BY <2>1, <2>4 DEF PartIs
  <2>6. /\ q \in Seq(Slots) /\ Len(q) = (hi + 1) - lo
        /\ \A j \in 1..Len(q) : q[j] = mem[tail].buffer[lo + j]
    <3>1. /\ q \in Seq(Slots) /\ Len(q) = mem'[tail'].push_idx - mem'[tail'].pop_idx
          /\ \A j \in 1..Len(q) : q[j] = mem'[tail'].buffer[mem'[tail'].pop_idx + j]
      BY <2>2, <2>3 DEF PartIs
    <3>2. /\ mem'[tail'].push_idx = hi + 1 /\ mem'[tail'].pop_idx = lo
          /\ mem'[tail'].buffer = mem[tail].buffer
      BY <1>1, <1>2, <2>4
    <3> QED BY <3>1, <3>2
  <2>7. v \in Slots
    BY <1>3 DEF Slots
  <2>8. PICK r \in Seq(Slots) : r = Append(x, v)
    BY <2>7, AppendProperties
  <2>9. Len(r) = Len(x) + 1 /\ r[Len(x) + 1] = v /\ \A j \in 1..Len(x) : r[j] = x[j]
    BY <2>7, <2>8, AppendProperties
  <2>10. hi - lo \in Nat /\ (hi + 1) - lo = (hi - lo) + 1 /\ lo + ((hi - lo) + 1) = hi + 1
    <3>1. lo \in Nat /\ hi \in Nat /\ lo <= hi
      BY <2>4, RingsQueueAssumption
    <3> QED BY <3>1
  <2>11. \A j \in 1..Len(q) : q[j] = r[j]
    <3>1. ASSUME NEW j \in 1..Len(q) PROVE q[j] = r[j]
      <4>1. CASE j = Len(x) + 1
        <5>1. r[j] = v
          BY <2>9, <4>1
        <5>2. lo + j = hi + 1
          BY <2>5, <2>10, <4>1
        <5> QED BY <1>3, <2>4, <2>6, <5>1, <5>2
      <4>2. CASE j # Len(x) + 1
        <5>1. j \in 1..Len(x)
          BY <2>5, <2>6, <2>10, <4>2
        <5> QED BY <2>5, <2>6, <2>9, <5>1
      <4> QED BY <4>1, <4>2
    <3> QED BY <3>1
  <2>12. Len(q) = Len(r)
    BY <2>5, <2>6, <2>9, <2>10
  <2>13. q = r
    BY <2>6, <2>8, <2>11, <2>12, SeqEqual
  <2> QED BY <2>3, <2>8, <2>13
<1>9. Contents' = Append(Contents, v)
  <2>1. /\ Parts \in Seq(Seq(Slots)) /\ Parts' \in Seq(Seq(Slots))
        /\ Len(Parts) = L - 1 /\ Len(Parts') = L - 1
    BY <1>4, <1>5, <1>6, PartsNow, PartsThen DEF PartsFine
  <2>2. Parts[L - 1] = x /\ Parts'[L - 1] = Append(x, v)
    <3>1. PICK k \in 1..(L - 1) : k = L - 1 /\ k + 1 = L
      BY <1>6
    <3>2. Parts[k] = Published(chain[k + 1])
      BY <1>5, <3>1, PartsNow DEF PartsFine
    <3>3. Parts'[k] = Published(chain[k + 1])'
      BY <1>4, <1>6, <3>1, PartsThen DEF PartsFine
    <3>4. Published(chain[k + 1])' = Published(tail)'
      BY <1>1, <1>6, <3>1 DEF Published
    <3> QED BY <1>6, <1>7, <1>8, <3>1, <3>2, <3>3, <3>4
  <2>3. ASSUME NEW i \in 1..(L - 2) PROVE Parts'[i] = Parts[i]
    <3>1. PICK k \in 2..(L - 1) : k = i + 1
      BY <1>6
    <3>2. chain[k] \in Nodes \ {tail}
      <4>1. k \in 1..L /\ L \in 1..L /\ k # L
        BY <1>6, <3>1
      <4>2. chain[k] # chain[L]
        BY <1>5, <4>1 DEF IInv, ListWhole
      <4> QED BY <1>5, <1>6, <4>1, <4>2, TailHasRoom
    <3>3. i \in 1..(L - 1)
      BY <1>6
    <3>4. Parts[i] = Published(chain[k])
      BY <1>5, <3>1, <3>3, PartsNow DEF PartsFine
    <3>5. Parts'[i] = Published(chain[k])'
      BY <1>4, <1>6, <3>1, <3>3, PartsThen DEF PartsFine
    <3>6. Published(chain[k])' = Published(chain[k])
      BY <1>1, <1>2, <3>2 DEF Published
    <3> QED BY <3>4, <3>5, <3>6
  <2>4. PICK front : front = ButLast(Parts)
    OBVIOUS
  <2>5. /\ front \in Seq(Seq(Slots))
        /\ Parts = Append(front, x) /\ Parts' = Append(front, Append(x, v))
    <3>1. PICK n \in Nat : n = L - 1 /\ n # 0
      BY <1>6
    <3>2. PICK s, r : s = Parts /\ r = Parts'
      OBVIOUS
    <3>3. /\ s \in Seq(Seq(Slots)) /\ Len(s) = n /\ s[n] = x
          /\ r \in Seq(Seq(Slots)) /\ Len(r) = n /\ r[n] = Append(x, v)
      BY <2>1, <2>2, <3>1, <3>2
    <3>4. ButLast(s) \in Seq(Seq(Slots)) /\ s = Append(ButLast(s), s[n])
      BY <3>1, <3>3, ButLastIs
    <3>5. ButLast(r) \in Seq(Seq(Slots)) /\ r = Append(ButLast(r), r[n])
      BY <3>1, <3>3, ButLastIs
    <3>6. ButLast(r) = ButLast(s)
      <4>1. \A i \in 1..(n - 1) : r[i] = s[i]
        BY <2>3, <3>1, <3>2
      <4> QED BY <3>3, <4>1 DEF ButLast
    <3> QED BY <2>4, <3>2, <3>3, <3>4, <3>5, <3>6
  <2>6. v \in Slots /\ Append(x, v) \in Seq(Slots)
    BY <1>3, AppendProperties DEF Slots
  <2>7. /\ Contents = FlattenSeq(front) \o x
        /\ Contents' = FlattenSeq(front) \o Append(x, v)
    BY <2>5, <2>6, FlattenAppend DEF Contents
  <2>8. PICK f \in Seq(Slots) : f = FlattenSeq(front)
    BY <2>5, FlattenType
  <2>9. f \o Append(x, v) = Append(f \o x, v)
    BY <2>6, <2>8, SMTT(30)
  <2> QED BY <2>7, <2>8, <2>9
<1>10. PushPop!Push(t)
  <2>1. PushPopCalls[t] = [op |-> "push", val |-> v]
    BY <1>1, PhasesNow DEF Phases
  <2>2. PushPopCalls'[t] = [op |-> "pushed", val |-> None]
    BY <1>2, PhasesNow DEF Phases
  <2>3. PushPopCalls' = [PushPopCalls EXCEPT ![t] = [op |-> "pushed", val |-> None]]
    BY <1>2, <2>2, CallsBecome
  <2> QED BY <1>9, <2>1, <2>3 DEF PushPop!Push, PushPop!Becomes
<1>11. StaysAsking
  BY <1>1, <1>2, AskingKept DEF Asking, Answering
<1>12. \A m \in Nodes : mem'[m].pop_idx = mem[m].pop_idx
  BY <1>2
<1>13. RoomLeft'
  BY <1>1, <1>12, TailHasRoom DEF AllSlotted, RoomLeft
<1>14. Slotted(t)'
  BY <1>2 DEF Slotted, At
<1>15. ASSUME NEW u \in Threads \ {t} PROVE Slotted(u)'
  <2>1. local'[u] = local[u] /\ local[u].pc \notin UnderPush
    BY <1>1, <1>2, OnePusher DEF OnlyLocal, UnderPush
  <2>2. local[u].pc \in {"popItem", "popLast"} => local[u].new_head \in Nodes
    BY PoppingNode
  <2> QED BY <1>12, <2>1, <2>2 DEF AllSlotted, Slotted, At, UnderPush
<1> QED BY <1>10, <1>11, <1>13, <1>14, <1>15 DEF AllSlotted
-----------------------------------------------------------------------------
(***************************************************************************)
(* The steps in which a popper takes a value.                              *)
(***************************************************************************)

\* The contents, from the part of the first node that has a buffer.
FirstPublished ==
  Len(chain) > 1 =>
    /\ PartIs(chain[2], Parts[1]) /\ Tail(Parts) \in Seq(Seq(Slots))
    /\ Len(Tail(Parts)) = Len(chain) - 2
    /\ \A i \in 1..(Len(chain) - 2) : Tail(Parts)[i] = Published(chain[i + 2])
    /\ FlattenSeq(Tail(Parts)) \in Seq(Slots)
    /\ Contents = Parts[1] \o FlattenSeq(Tail(Parts))

LEMMA FirstPart == IInv => FirstPublished
<1> SUFFICES ASSUME IInv, Len(chain) > 1 PROVE FirstPublished
  BY DEF FirstPublished
<1>1. PICK L \in Nat : L = Len(chain) /\ L > 1
  BY TailHasRoom
<1>2. PICK s \in Seq(Seq(Slots)) : s = Parts
  BY PartsNow DEF PartsFine
<1>3. /\ Len(s) = L - 1 /\ \A i \in 1..(L - 1) : s[i] = Published(chain[i + 1])
  BY <1>1, <1>2, PartsNow DEF PartsFine
<1>4. PartIs(chain[2], s[1])
  <2>1. 1 \in 1..(L - 1) /\ 2 \in 2..L
    BY <1>1
  <2>2. s[1] = Published(chain[2])
    BY <1>3, <2>1
  <2> QED BY <1>1, <2>1, <2>2, PartsNow DEF AllPublished
<1>5. s # <<>>
  BY <1>1, <1>3
<1>6. /\ Tail(s) \in Seq(Seq(Slots)) /\ Len(Tail(s)) = L - 2
      /\ \A i \in 1..(L - 2) : Tail(s)[i] = s[i + 1]
  BY <1>1, <1>3, <1>5, HeadTailProperties
<1>7. \A i \in 1..(L - 2) : Tail(s)[i] = Published(chain[i + 2])
  <2>1. \A i \in 1..(L - 2) : i + 1 \in 1..(L - 1) /\ (i + 1) + 1 = i + 2
    BY <1>1
  <2> QED BY <1>3, <1>6, <2>1
<1>8. PICK r \in Seq(Seq(Slots)) : r = Tail(s)
  BY <1>6
<1>9. s[1] \in Seq(Slots)
  BY <1>4 DEF PartIs
<1>10. s = <<s[1]>> \o r
  BY <1>2, <1>5, <1>8, SMTT(30)
<1>11. FlattenSeq(<<s[1]>> \o r) = s[1] \o FlattenSeq(r)
  BY <1>9, FlattenCons
<1>12. FlattenSeq(s) = s[1] \o FlattenSeq(r)
  BY <1>10, <1>11
<1>13. FlattenSeq(r) \in Seq(Slots)
  BY FlattenType
<1> QED BY <1>1, <1>2, <1>4, <1>6, <1>7, <1>8, <1>12, <1>13 DEF Contents, FirstPublished

LEMMA FirstPartThen == IInv' => FirstPublished'
BY FirstPart, PTL

LEMMA HeadOfConcat ==
  ASSUME NEW S, NEW x \in Seq(S), x # <<>>, NEW y \in Seq(S)
  PROVE  x \o y # <<>> /\ Head(x \o y) = x[1] /\ Tail(x \o y) = Tail(x) \o y
<1>1. x \o y # <<>> /\ Head(x \o y) = x[1]
  BY SMTT(30)
<1>2. Tail(x \o y) = Tail(x) \o y
  BY SMTT(30)
<1> QED BY <1>1, <1>2

LEMMA ItemIsPop ==
  ASSUME RInv, NEW t \in Threads, PopItem(t)
  PROVE  PushPop!Pop(t) /\ StaysAsking /\ AllSlotted'
<1> USE DEF RInv
<1>0. PICK n : n = local[t].new_head
  OBVIOUS
<1>1. At(t, "popItem") /\ local[t].pc = "popItem" /\ UNCHANGED <<head, tail, chain>>
  BY DEF PopItem, At, list
<1>2. /\ Len(chain) > 1 /\ n = chain[2] /\ n \in Nodes
      /\ mem[n] \in Fields /\ mem[n].buffer \in Buffers
      /\ mem[n].pop_idx < mem[n].push_idx /\ mem[n].pop_idx + 1 \in 1..RING_SIZE
      /\ OnlyLocal(t) /\ local'[t].pc = "popUnlock"
      /\ local'[t].ret = mem[n].buffer[mem[n].pop_idx + 1]
  BY <1>0, ItemEffect
<1>3. /\ \A m \in Nodes \ {n} : mem'[m] = mem[m]
      /\ mem'[n].buffer = mem[n].buffer
      /\ mem'[n].push_idx = mem[n].push_idx /\ mem'[n].pop_idx = mem[n].pop_idx + 1
  BY <1>0, ItemEffect
<1>4. IInv'
  BY PopItemStep
<1>5. PICK lo \in Nat, hi \in Nat : lo = mem[n].pop_idx /\ hi = mem[n].push_idx /\ lo < hi
  BY <1>2, RingsQueueAssumption DEF Fields
<1>6. PICK x \in Seq(Slots) : x = Parts[1] /\ PartIs(n, x)
  BY <1>2, FirstPart DEF FirstPublished, PartIs
<1>7. PICK y \in Seq(Slots) : y = FlattenSeq(Tail(Parts)) /\ Contents = x \o y
  BY <1>2, <1>6, FirstPart DEF FirstPublished
<1>8. /\ Len(x) = hi - lo /\ \A j \in 1..Len(x) : x[j] = mem[n].buffer[lo + j]
  BY <1>5, <1>6 DEF PartIs
<1>9. x # <<>> /\ x[1] = mem[n].buffer[lo + 1]
  <2>1. Len(x) # 0 /\ 1 \in 1..Len(x)
    BY <1>5, <1>8
  <2> QED BY <1>8, <2>1
<1>10. Parts[1]' = Tail(x)
  <2>1. PICK q : q = Parts[1]'
    OBVIOUS
  <2>2. PartIs(n, q)'
    <3>1. Len(chain') > 1
      BY <1>1, <1>2
    <3>2. PartIs(chain[2], Parts[1])'
      BY <1>4, <3>1, FirstPartThen DEF FirstPublished
    <3> QED BY <1>1, <1>2, <2>1, <3>2 DEF PartIs
  <2>3. /\ q \in Seq(Slots) /\ Len(q) = hi - (lo + 1)
        /\ \A j \in 1..Len(q) : q[j] = mem[n].buffer[(lo + 1) + j]
    <3>1. /\ q \in Seq(Slots) /\ Len(q) = mem'[n].push_idx - mem'[n].pop_idx
          /\ \A j \in 1..Len(q) : q[j] = mem'[n].buffer[mem'[n].pop_idx + j]
      BY <2>1, <2>2 DEF PartIs
    <3>2. /\ mem'[n].push_idx = hi /\ mem'[n].pop_idx = lo + 1
          /\ mem'[n].buffer = mem[n].buffer
      BY <1>3, <1>5
    <3> QED BY <3>1, <3>2
  <2>4. /\ Tail(x) \in Seq(Slots) /\ Len(Tail(x)) = Len(x) - 1
        /\ \A j \in 1..(Len(x) - 1) : Tail(x)[j] = x[j + 1]
    BY <1>9, HeadTailProperties
  <2>5. PICK r \in Seq(Slots) : r = Tail(x)
    BY <2>4
  <2>6. Len(r) = Len(q) /\ Len(q) = Len(x) - 1
    BY <1>5, <1>8, <2>3, <2>4, <2>5
  <2>7. ASSUME NEW j \in 1..Len(q) PROVE q[j] = r[j]
    <3>1. j + 1 \in 1..Len(x) /\ j \in 1..(Len(x) - 1) /\ lo + (j + 1) = (lo + 1) + j
      <4>1. PICK c \in Nat : c = Len(x)
        OBVIOUS
      <4>2. j \in Nat /\ j >= 1 /\ j <= c - 1
        BY <2>6, <4>1
      <4> QED BY <4>1, <4>2
    <3>2. x[j + 1] = mem[n].buffer[lo + (j + 1)]
      BY <1>8, <3>1
    <3> QED BY <2>3, <2>4, <2>5, <3>1, <3>2
  <2>8. q = r
    BY <2>3, <2>6, <2>7, SeqEqual
  <2> QED BY <2>1, <2>5, <2>8
<1>11. Contents' = Tail(x) \o y
  <2>1. Tail(Parts)' = Tail(Parts)
    <3>1. PICK L \in Nat : L = Len(chain) /\ L > 1
      BY <1>2, TailHasRoom
    <3>2. PICK s, r : s = Tail(Parts) /\ r = Tail(Parts)'
      OBVIOUS
    <3>3. /\ s \in Seq(Seq(Slots)) /\ Len(s) = L - 2
          /\ \A i \in 1..(L - 2) : s[i] = Published(chain[i + 2])
      BY <3>1, <3>2, FirstPart DEF FirstPublished
    <3>4. /\ r \in Seq(Seq(Slots)) /\ Len(r) = L - 2
          /\ \A i \in 1..(L - 2) : r[i] = Published(chain[i + 2])'
      BY <1>1, <1>4, <3>1, <3>2, FirstPartThen DEF FirstPublished
    <3>5. ASSUME NEW i \in 1..(L - 2) PROVE s[i] = r[i]
      <4>1. i + 2 \in 1..L /\ 2 \in 1..L /\ i + 2 # 2
        BY <3>1
      <4>2. chain[i + 2] \in Nodes \ {n}
        BY <1>2, <3>1, <4>1, TailHasRoom DEF IInv, ListWhole
      <4>3. Published(chain[i + 2])' = Published(chain[i + 2])
        BY <1>1, <1>3, <4>2 DEF Published
      <4> QED BY <3>3, <3>4, <4>3
    <3>6. s = r
      BY <3>3, <3>4, <3>5, SeqEqual
    <3> QED BY <3>2, <3>6
  <2>2. Contents' = Parts[1]' \o FlattenSeq(Tail(Parts)')
    <3>1. Len(chain') > 1
      BY <1>1, <1>2
    <3> QED BY <1>4, <3>1, FirstPartThen DEF FirstPublished
  <2> QED BY <1>7, <1>10, <2>1, <2>2
<1>12. Contents # <<>> /\ Contents' = Tail(Contents) /\ Head(Contents) = local'[t].ret
  <2>1. x \o y # <<>> /\ Head(x \o y) = x[1] /\ Tail(x \o y) = Tail(x) \o y
    BY <1>9, HeadOfConcat
  <2> QED BY <1>2, <1>5, <1>7, <1>9, <1>11, <2>1
<1>13. PushPop!Pop(t)
  <2>1. PushPopCalls[t] = [op |-> "pop", val |-> None]
    BY <1>1, PhasesNow DEF Phases
  <2>2. PushPopCalls'[t] = [op |-> "popped", val |-> Head(Contents)]
    BY <1>2, <1>12, PhasesNow DEF Phases
  <2>3. PushPopCalls' = [PushPopCalls EXCEPT ![t] = [op |-> "popped", val |-> Head(Contents)]]
    BY <1>2, <2>2, CallsBecome
  <2> QED BY <1>12, <2>1, <2>3 DEF PushPop!Pop, PushPop!Becomes
<1>14. StaysAsking
  BY <1>1, <1>2, AskingKept DEF Asking, Answering
<1>15. RoomLeft'
  <2>1. mem'[n].pop_idx < RING_SIZE
    BY <1>0, <1>1, <1>3 DEF AllSlotted, Slotted
  <2> QED BY <1>1, <1>2, <1>3, <2>1, TailHasRoom DEF AllSlotted, RoomLeft
<1>16. Slotted(t)'
  BY <1>2 DEF Slotted, At
<1>17. ASSUME NEW u \in Threads \ {t} PROVE Slotted(u)'
  <2>1. local'[u] = local[u] /\ local[u].pc \notin UnderPop
    BY <1>1, <1>2, OnePopper DEF OnlyLocal, UnderPop
  <2>2. \A m \in Nodes : mem'[m].push_idx = mem[m].push_idx /\ mem'[m].buffer = mem[m].buffer
    BY <1>3
  <2>3. tail \in Nodes
    BY DEF IInv, Typed
  <2> QED BY <1>1, <2>1, <2>2, <2>3 DEF AllSlotted, Slotted, At, UnderPop
<1> QED BY <1>13, <1>14, <1>15, <1>16, <1>17 DEF AllSlotted

LEMMA LastIsPop ==
  ASSUME RInv, NEW t \in Threads, PopLast(t)
  PROVE  PushPop!Pop(t) /\ StaysAsking /\ AllSlotted'
<1> USE DEF RInv
<1>0. PICK n : n = local[t].new_head
  OBVIOUS
<1>1. At(t, "popLast") /\ local[t].pc = "popLast" /\ tail' = tail
  BY DEF PopLast, At
<1>2. /\ Len(chain) > 1 /\ n = chain[2] /\ n \in Nodes
      /\ mem[n] \in Fields /\ mem[n].buffer \in Buffers /\ mem[n].push_idx = RING_SIZE
      /\ OnlyLocal(t) /\ local'[t].pc = "popLastUnlock"
      /\ local'[t].ret = mem[n].buffer[RING_SIZE]
  BY <1>0, LastEffect
<1>3. /\ Len(chain') = Len(chain) - 1
      /\ \A i \in 1..(Len(chain) - 1) : chain'[i] = chain[i + 1]
      /\ \A m \in Nodes \ {n} : mem'[m] = mem[m]
      /\ mem'[n].push_idx = mem[n].push_idx /\ mem'[n].pop_idx = mem[n].pop_idx
  BY <1>0, LastEffect
<1>4. IInv'
  BY PopLastStep
<1>5. mem[n].pop_idx + 1 = RING_SIZE
  BY <1>0, <1>1 DEF AllSlotted, Slotted
<1>6. PICK x \in Seq(Slots) : x = Parts[1] /\ PartIs(n, x)
  BY <1>2, FirstPart DEF FirstPublished, PartIs
<1>7. PICK y \in Seq(Slots) : y = FlattenSeq(Tail(Parts)) /\ Contents = x \o y
  BY <1>2, <1>6, FirstPart DEF FirstPublished
<1>8. PICK lo \in Nat : lo = mem[n].pop_idx /\ lo + 1 = RING_SIZE
  BY <1>2, <1>5, RingsQueueAssumption DEF Fields
<1>9. Len(x) = 1 /\ x[1] = local'[t].ret
  <2>1. /\ Len(x) = RING_SIZE - lo /\ RING_SIZE - lo = 1
        /\ \A j \in 1..Len(x) : x[j] = mem[n].buffer[lo + j]
    BY <1>2, <1>6, <1>8 DEF PartIs
  <2>2. 1 \in 1..Len(x)
    BY <2>1
  <2>3. x[1] = mem[n].buffer[lo + 1]
    BY <2>1, <2>2
  <2> QED BY <1>2, <1>8, <2>1, <2>3
<1>10. PICK L \in Nat : L = Len(chain) /\ L > 1
  BY <1>2, TailHasRoom
<1>11. Contents' = y
  <2>1. PICK s, r : s = Tail(Parts) /\ r = Parts'
    OBVIOUS
  <2>2. /\ s \in Seq(Seq(Slots)) /\ Len(s) = L - 2
        /\ \A i \in 1..(L - 2) : s[i] = Published(chain[i + 2])
    BY <1>10, <2>1, FirstPart DEF FirstPublished
  <2>3. /\ r \in Seq(Seq(Slots)) /\ Len(r) = L - 2
        /\ \A i \in 1..(L - 2) : r[i] = Published(chain[i + 1])'
    BY <1>3, <1>4, <1>10, <2>1, PartsThen DEF PartsFine
  <2>4. ASSUME NEW i \in 1..(L - 2) PROVE s[i] = r[i]
    <3>1. /\ i + 2 \in 1..L /\ 2 \in 1..L /\ i + 2 # 2
          /\ i + 1 \in 1..(L - 1) /\ (i + 1) + 1 = i + 2
      BY <1>10
    <3>2. chain[i + 2] \in Nodes \ {n} /\ chain'[i + 1] = chain[i + 2]
      BY <1>2, <1>3, <1>10, <3>1, TailHasRoom DEF IInv, ListWhole
    <3>3. Published(chain[i + 1])' = Published(chain[i + 2])
      BY <1>3, <3>2 DEF Published
    <3> QED BY <2>2, <2>3, <3>3
  <2>5. s = r
    BY <2>2, <2>3, <2>4, SeqEqual
  <2> QED BY <1>7, <2>1, <2>5 DEF Contents
<1>12. Contents # <<>> /\ Contents' = Tail(Contents) /\ Head(Contents) = local'[t].ret
  <2>1. x # <<>>
    <3>1. Len(x) # 0
      BY <1>9
    <3> QED BY <3>1
  <2>2. x \o y # <<>> /\ Head(x \o y) = x[1] /\ Tail(x \o y) = Tail(x) \o y
    BY <2>1, HeadOfConcat
  <2>3. Tail(x) = <<>>
    <3>1. Tail(x) \in Seq(Slots) /\ Len(Tail(x)) = 0
      BY <1>9, <2>1, HeadTailProperties
    <3> QED BY <3>1, EmptySeq
  <2>4. Tail(x) \o y = y
    BY <2>3, ConcatEmptySeq
  <2> QED BY <1>7, <1>9, <1>11, <2>2, <2>4
<1>13. PushPop!Pop(t)
  <2>1. PushPopCalls[t] = [op |-> "pop", val |-> None]
    BY <1>1, PhasesNow DEF Phases
  <2>2. PushPopCalls'[t] = [op |-> "popped", val |-> Head(Contents)]
    BY <1>2, <1>12, PhasesNow DEF Phases
  <2>3. PushPopCalls' = [PushPopCalls EXCEPT ![t] = [op |-> "popped", val |-> Head(Contents)]]
    BY <1>2, <2>2, CallsBecome
  <2> QED BY <1>12, <2>1, <2>3 DEF PushPop!Pop, PushPop!Becomes
<1>14. StaysAsking
  BY <1>1, <1>2, AskingKept DEF Asking, Answering
<1>15. RoomLeft'
  <2>1. ASSUME NEW i \in 2..Len(chain') PROVE mem'[chain'[i]].pop_idx < RING_SIZE
    <3>1. i + 1 \in 2..L /\ i + 1 \in 1..L /\ 2 \in 1..L /\ i + 1 # 2 /\ i \in 1..(L - 1)
      BY <1>3, <1>10
    <3>2. chain[i + 1] \in Nodes \ {n} /\ chain'[i] = chain[i + 1]
      BY <1>2, <1>3, <1>10, <3>1, TailHasRoom DEF IInv, ListWhole
    <3> QED BY <1>3, <1>10, <3>1, <3>2 DEF AllSlotted, RoomLeft
  <2> QED BY <2>1 DEF RoomLeft
<1>16. Slotted(t)'
  BY <1>2 DEF Slotted, At
<1>17. ASSUME NEW u \in Threads \ {t} PROVE Slotted(u)'
  <2>1. local'[u] = local[u] /\ local[u].pc \notin UnderPop
    BY <1>1, <1>2, OnePopper DEF OnlyLocal, UnderPop
  <2>2. At(u, "pushPublish") => tail # n
    BY <1>2, RingsQueueAssumption DEF IInv, NodesOwned, Pushing, At
  <2>3. tail \in Nodes
    BY DEF IInv, Typed
  <2> QED BY <1>1, <1>3, <2>1, <2>2, <2>3 DEF AllSlotted, Slotted, At, UnderPop
<1> QED BY <1>13, <1>14, <1>15, <1>16, <1>17 DEF AllSlotted
-----------------------------------------------------------------------------
LEMMA NextSimulated ==
  ASSUME RInv, Next
  PROVE  Simulated /\ AllSlotted'
<1>1. ASSUME NEW t \in Threads, Push(t) PROVE Simulated /\ AllSlotted'
  <2>1. CASE PushPublish(t)
    BY <2>1, PublishIsPush DEF Simulated, PushPop!Step
  <2> QED BY <1>1, <2>1, CallIsInvoke, LockIsSilent, ExtendIsSilent, WriteIsSilent, LeaveIsReturn
          DEF Push
<1>2. ASSUME NEW t \in Threads, Pop(t) PROVE Simulated /\ AllSlotted'
  <2>1. CASE PopItem(t) \/ PopLast(t)
    BY <2>1, ItemIsPop, LastIsPop DEF Simulated, PushPop!Step
  <2> QED BY <1>2, <2>1, CallIsInvoke, LockIsSilent, NextIsPopEmpty, CheckIsPopEmpty, LeaveIsReturn
          DEF Pop
<1>3. ASSUME NEW t \in Threads, IsEmpty(t) PROVE Simulated /\ AllSlotted'
  BY <1>3, IsEmptyIsSilent
<1>4. CASE Delete
  <2>1. UNCHANGED <<local, list, mem>> /\ UNCHANGED <<head, tail, chain>>
    BY <1>4 DEF Delete, list
  <2>2. Contents' = Contents
    BY <2>1, ListAside
  <2>3. PushPopCalls' = PushPopCalls
    BY <2>1 DEF PushPopCalls, Calling, Asking
  <2>4. StaysAsking
    BY <2>1 DEF StaysAsking, Asking
  <2>5. AllSlotted'
    BY <2>1 DEF RInv, AllSlotted, RoomLeft, Slotted, At
  <2> QED BY <2>2, <2>3, <2>4, <2>5 DEF Simulated
<1> QED BY <1>1, <1>2, <1>3, <1>4 DEF Next

LEMMA InitRefines == Init => RInv /\ PushPop!Init
<1> SUFFICES ASSUME Init PROVE RInv /\ PushPop!Init
  OBVIOUS
<1>1. IInv
  BY IInvInit
<1>2. \A t \in Threads : local[t].pc = "idle"
  BY DEF Init, Idle
<1>3. PushPopCalls = [t \in Threads |-> PushPop!Idle]
  <2>1. \A t \in Threads : PushPopCalls[t] = PushPop!Idle
    BY <1>2, PhasesNow DEF Phases, PushPop!Idle
  <2>2. PushPopCalls = [t \in Threads |-> PushPopCalls[t]]
    BY DEF PushPopCalls
  <2> QED BY <2>1, <2>2
<1>4. Len(chain) = 1
  BY DEF Init
<1>5. Contents = <<>>
  <2>1. Parts = <<>>
    BY <1>1, <1>4, PartsNow, EmptySeq DEF PartsFine
  <2> QED BY <2>1, FlattenEmpty DEF Contents
<1>6. PushPopSeen = [t \in Threads |-> {}]
  <2>1. \A t \in Threads : seen[t] = {}
    BY DEF Init
  <2> QED BY <2>1 DEF PushPopSeen
<1>7. AllSlotted
  BY <1>2, <1>4 DEF AllSlotted, RoomLeft, Slotted, At
<1>8. SeenNow
  BY <1>3, <1>6 DEF SeenNow
<1> QED BY <1>1, <1>3, <1>5, <1>6, <1>7, <1>8 DEF RInv, PushPop!Init

LEMMA NextRefines == RInv /\ [Next]_vars => RInv' /\ [PushPop!Next]_(PushPop!vars)
<1> SUFFICES ASSUME RInv, [Next]_vars PROVE RInv' /\ [PushPop!Next]_(PushPop!vars)
  OBVIOUS
<1>1. IInv'
  BY IInvNext DEF RInv
<1>2. CASE Next
  <2>1. Fifo!Witness
    BY <1>2 DEF Next
  <2>2. Simulated /\ AllSlotted'
    BY <1>2, NextSimulated
  <2>3. PushPop!Witness /\ SeenNow'
    BY <2>1, <2>2, WitnessNext DEF Simulated
  <2>4. RInv'
    BY <1>1, <2>2, <2>3 DEF RInv
  <2>5. CASE \E t \in Threads : PushPop!Step(t)
    BY <2>3, <2>4, <2>5 DEF PushPop!Next
  <2>6. CASE Contents' = Contents /\ PushPopCalls' = PushPopCalls
    BY <2>3, <2>4, <2>6, SeenSame DEF RInv
  <2> QED BY <2>2, <2>5, <2>6 DEF Simulated
<1>3. CASE UNCHANGED vars
  <2>1. UNCHANGED <<local, list, mem, seen>> /\ UNCHANGED <<head, tail, chain>>
    BY <1>3 DEF vars, list
  <2>2. Contents' = Contents
    BY <2>1, ListAside
  <2>3. PushPopCalls' = PushPopCalls
    BY <2>1 DEF PushPopCalls, Calling, Asking
  <2>4. PushPopSeen' = PushPopSeen
    BY <2>1 DEF PushPopSeen, Asking
  <2>5. AllSlotted'
    BY <2>1 DEF RInv, AllSlotted, RoomLeft, Slotted, At
  <2>6. SeenNow'
    BY <2>2, <2>3, <2>4 DEF RInv, SeenNow
  <2> QED BY <1>1, <2>2, <2>3, <2>4, <2>5, <2>6 DEF RInv, PushPop!vars
<1> QED BY <1>2, <1>3

\* push and pop of RingsQueue are linearizable: every behaviour of the list of
\* buffers, with is_empty left aside, is one of the indivisible queue, however many
\* nodes the values are spread over.
THEOREM Refinement == Spec => Linearizable
<1>1. Spec => PushPop!Spec
  BY InitRefines, NextRefines, PTL DEF Spec, PushPop!Spec
<1> QED BY <1>1 DEF Linearizable
=============================================================================
