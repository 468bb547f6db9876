-------------------------- MODULE SimpleQueueProofs --------------------------
(***************************************************************************)
(* Proofs about SimpleQueue, for every set of threads, values and          *)
(* addresses: the mutexes, the list and the memory, from the inductive     *)
(* invariant IInv.                                                         *)
(***************************************************************************)
EXTENDS SimpleQueue, TLAPS, SequenceTheorems

\* A node that a thread holds is held by no other, and is not in the list.
NodesOwned ==
  /\ \A t \in Threads : Holding(t) => local[t].node \in allocated /\ ~InChain(local[t].node)
  /\ \A t, u \in Threads :
       t # u /\ Holding(t) /\ Holding(u) => local[t].node # local[u].node

\* A node that is still to be linked is the end of a list.
NewNodes ==
  \A t \in Threads :
    local[t].pc \in {"pushLock", "pushLink"} => mem[local[t].node].next = Null

\* What a consumer read under the mutex still holds when it moves the head.
Taking ==
  \A t \in Threads : At(t, "popTake") =>
    local[t].node = head /\ local[t].new_head = mem[head].next /\ local[t].new_head # Null

ChainAllocated ==
  IF deleted THEN \A t \in Threads : At(t, "idle")
  ELSE \A i \in 1..Len(chain) : chain[i] \in allocated

IInv == /\ TypeOK /\ MutexesHeld /\ ListIntact
        /\ NodesOwned /\ NewNodes /\ Taking /\ ChainAllocated /\ NoLeak
-----------------------------------------------------------------------------
(***************************************************************************)
(* What the steps that only move a thread do to local.                     *)
(***************************************************************************)
OnlyLocal(t) == /\ local' \in [Threads -> Locals]
                /\ \A u \in Threads \ {t} : local'[u] = local[u]

LEMMA GotoLocal ==
  ASSUME TypeOK, NEW t \in Threads, NEW place \in Places, Goto(t, place)
  PROVE  /\ OnlyLocal(t) /\ local'[t].pc = place
         /\ local'[t].node = local[t].node /\ local'[t].ret = local[t].ret
BY DEF TypeOK, Goto, OnlyLocal, Locals

LEMMA RetLocals ==
  ASSUME NEW l \in Locals, NEW place \in Places, NEW r \in Results
  PROVE  [l EXCEPT !.pc = place, !.ret = r] \in Locals
BY DEF Locals

LEMMA IdleLocal == Idle \in Locals
BY DEF Idle, Locals, Places, Results

LEMMA LeaveLocal ==
  ASSUME TypeOK, NEW t \in Threads, Leave(t)
  PROVE  OnlyLocal(t) /\ local'[t].pc = "idle" /\ local'[t] = Idle
<1>1. OnlyLocal(t) /\ local'[t] = Idle
  BY IdleLocal DEF TypeOK, Leave, OnlyLocal
<1> QED BY <1>1 DEF Idle

\* A step that leaves the list alone, and after which t holds what it held unless
\* it held nothing, loses no node.
LEMMA NoLeakFrame ==
  ASSUME NoLeak, NEW t \in Threads, OnlyLocal(t),
         UNCHANGED <<chain, deleted>>, allocated' = allocated,
         Holding(t) => Holding(t)' /\ local'[t].node = local[t].node
  PROVE  NoLeak'
<1>1. CASE deleted
  BY <1>1 DEF NoLeak
<1>2. CASE ~deleted
  <2>1. \A n : InChain(n)' <=> InChain(n)
    BY DEF InChain
  <2>2. \A u \in Threads : Holding(u) => Holding(u)' /\ local'[u].node = local[u].node
    BY DEF OnlyLocal, Holding
  <2> QED BY <1>2, <2>1, <2>2 DEF NoLeak
<1> QED BY <1>1, <1>2

\* A step that neither takes a node, gives one away, nor touches the list keeps
\* all that IInv says of the list and of the nodes.
LEMMA ListFrame ==
  ASSUME IInv, ~deleted, NEW t \in Threads, OnlyLocal(t),
         UNCHANGED <<list, mem, allocated, deleted>>,
         Holding(t)' <=> Holding(t),
         Holding(t) => local'[t].node = local[t].node,
         local'[t].pc \in {"pushLock", "pushLink"} =>
           local[t].pc \in {"pushLock", "pushLink"},
         local[t].pc # "pushTail", local'[t].pc \notin {"pushTail", "popTake"}
  PROVE  ListIntact' /\ NodesOwned' /\ NewNodes' /\ Taking' /\ ChainAllocated' /\ NoLeak'
<1> USE DEF IInv, OnlyLocal, list
<1>1. ListIntact'
  BY DEF ListIntact, At
<1>2. NodesOwned'
  <2>1. \A n : InChain(n)' <=> InChain(n)
    BY DEF InChain
  <2>2. \A u \in Threads : Holding(u)' => Holding(u) /\ local'[u].node = local[u].node
    BY DEF Holding
  <2> QED BY <2>1, <2>2 DEF NodesOwned
<1>3. NewNodes'
  BY DEF NewNodes, Holding
<1>4. Taking'
  BY DEF Taking, At
<1>5. ChainAllocated'
  BY DEF ChainAllocated
<1>6. NoLeak'
  BY NoLeakFrame
<1> QED BY <1>1, <1>2, <1>3, <1>4, <1>5, <1>6
-----------------------------------------------------------------------------
(***************************************************************************)
(* Each action preserves IInv.                                             *)
(***************************************************************************)
LEMMA PushLockStep ==
  ASSUME IInv, NEW t \in Threads, PushLock(t), seen' \in [Threads -> SUBSET BOOLEAN]
  PROVE  IInv'
<1> USE DEF IInv, At, PushLock, Lock
<1>1. OnlyLocal(t) /\ local'[t].pc = "pushLink" /\ local'[t].node = local[t].node
  BY GotoLocal DEF Places
<1>2. TypeOK'
  BY <1>1 DEF TypeOK, OnlyLocal, list
<1>3. MutexesHeld'
  BY <1>1, SimpleQueueAssumption DEF MutexesHeld, TypeOK, OnlyLocal
<1>4. ~deleted
  BY DEF ChainAllocated
<1>5. ListIntact' /\ NodesOwned' /\ NewNodes' /\ Taking' /\ ChainAllocated' /\ NoLeak'
  BY <1>1, <1>4, ListFrame DEF Holding
<1> QED BY <1>2, <1>3, <1>5

LEMMA PopLockStep ==
  ASSUME IInv, NEW t \in Threads, PopLock(t), seen' \in [Threads -> SUBSET BOOLEAN]
  PROVE  IInv'
<1> USE DEF IInv, At, PopLock, Lock
<1>1. OnlyLocal(t) /\ local'[t].pc = "popLoad" /\ local'[t].node = local[t].node
  BY GotoLocal DEF Places
<1>2. TypeOK'
  BY <1>1 DEF TypeOK, OnlyLocal, list
<1>3. MutexesHeld'
  BY <1>1, SimpleQueueAssumption DEF MutexesHeld, TypeOK, OnlyLocal
<1>4. ~deleted
  BY DEF ChainAllocated
<1>5. ListIntact' /\ NodesOwned' /\ NewNodes' /\ Taking' /\ ChainAllocated' /\ NoLeak'
  BY <1>1, <1>4, ListFrame DEF Holding
<1> QED BY <1>2, <1>3, <1>5

LEMMA IsEmptyLockStep ==
  ASSUME IInv, NEW t \in Threads, IsEmptyLock(t), seen' \in [Threads -> SUBSET BOOLEAN]
  PROVE  IInv'
<1> USE DEF IInv, At, IsEmptyLock, Lock
<1>1. OnlyLocal(t) /\ local'[t].pc = "isEmptyLoad" /\ local'[t].node = local[t].node
  BY GotoLocal DEF Places
<1>2. TypeOK'
  BY <1>1 DEF TypeOK, OnlyLocal, list
<1>3. MutexesHeld'
  BY <1>1, SimpleQueueAssumption DEF MutexesHeld, TypeOK, OnlyLocal
<1>4. ~deleted
  BY DEF ChainAllocated
<1>5. ListIntact' /\ NodesOwned' /\ NewNodes' /\ Taking' /\ ChainAllocated' /\ NoLeak'
  BY <1>1, <1>4, ListFrame DEF Holding
<1> QED BY <1>2, <1>3, <1>5

LEMMA PushUnlockStep ==
  ASSUME IInv, NEW t \in Threads, PushUnlock(t), seen' \in [Threads -> SUBSET BOOLEAN]
  PROVE  IInv'
<1> USE DEF IInv, At, PushUnlock, Unlock
<1>1. OnlyLocal(t) /\ local'[t].pc = "idle"
  BY LeaveLocal
<1>2. TypeOK'
  BY <1>1 DEF TypeOK, OnlyLocal, list
<1>3. MutexesHeld'
  BY <1>1, SimpleQueueAssumption DEF MutexesHeld, TypeOK, OnlyLocal
<1>4. ~deleted
  BY DEF ChainAllocated
<1>5. ListIntact' /\ NodesOwned' /\ NewNodes' /\ Taking' /\ ChainAllocated' /\ NoLeak'
  BY <1>1, <1>4, ListFrame DEF Holding
<1> QED BY <1>2, <1>3, <1>5

LEMMA PopUnlockEmptyStep ==
  ASSUME IInv, NEW t \in Threads, PopUnlockEmpty(t), seen' \in [Threads -> SUBSET BOOLEAN]
  PROVE  IInv'
<1> USE DEF IInv, At, PopUnlockEmpty, Unlock
<1>1. OnlyLocal(t) /\ local'[t].pc = "idle"
  BY LeaveLocal
<1>2. TypeOK'
  BY <1>1 DEF TypeOK, OnlyLocal, list
<1>3. MutexesHeld'
  BY <1>1, SimpleQueueAssumption DEF MutexesHeld, TypeOK, OnlyLocal
<1>4. ~deleted
  BY DEF ChainAllocated
<1>5. ListIntact' /\ NodesOwned' /\ NewNodes' /\ Taking' /\ ChainAllocated' /\ NoLeak'
  BY <1>1, <1>4, ListFrame DEF Holding
<1> QED BY <1>2, <1>3, <1>5

LEMMA IsEmptyUnlockStep ==
  ASSUME IInv, NEW t \in Threads, IsEmptyUnlock(t), seen' \in [Threads -> SUBSET BOOLEAN]
  PROVE  IInv'
<1> USE DEF IInv, At, IsEmptyUnlock, Unlock
<1>1. OnlyLocal(t) /\ local'[t].pc = "idle"
  BY LeaveLocal
<1>2. TypeOK'
  BY <1>1 DEF TypeOK, OnlyLocal, list
<1>3. MutexesHeld'
  BY <1>1, SimpleQueueAssumption DEF MutexesHeld, TypeOK, OnlyLocal
<1>4. ~deleted
  BY DEF ChainAllocated
<1>5. ListIntact' /\ NodesOwned' /\ NewNodes' /\ Taking' /\ ChainAllocated' /\ NoLeak'
  BY <1>1, <1>4, ListFrame DEF Holding
<1> QED BY <1>2, <1>3, <1>5

LEMMA PopUnlockStep ==
  ASSUME IInv, NEW t \in Threads, PopUnlock(t), seen' \in [Threads -> SUBSET BOOLEAN]
  PROVE  IInv'
<1> USE DEF IInv, At, PopUnlock, Unlock
<1>1. OnlyLocal(t) /\ local'[t].pc = "popFree" /\ local'[t].node = local[t].node
  BY GotoLocal DEF Places
<1>2. TypeOK'
  BY <1>1 DEF TypeOK, OnlyLocal, list
<1>3. MutexesHeld'
  BY <1>1, SimpleQueueAssumption DEF MutexesHeld, TypeOK, OnlyLocal
<1>4. ~deleted
  BY DEF ChainAllocated
<1>5. ListIntact' /\ NodesOwned' /\ NewNodes' /\ Taking' /\ ChainAllocated' /\ NoLeak'
  BY <1>1, <1>4, ListFrame DEF Holding
<1> QED BY <1>2, <1>3, <1>5

LEMMA CallStep ==
  ASSUME IInv, NEW t \in Threads, seen' \in [Threads -> SUBSET BOOLEAN],
         NEW place \in {"popLock", "isEmptyLock"}, Call(t, place)
  PROVE  IInv'
<1> USE DEF IInv, At, Call
<1>1. OnlyLocal(t) /\ local'[t].pc = place
  BY GotoLocal DEF Places
<1>2. TypeOK'
  BY <1>1 DEF TypeOK, OnlyLocal, list
<1>3. MutexesHeld'
  BY <1>1 DEF MutexesHeld, OnlyLocal
<1>4. ListIntact' /\ NodesOwned' /\ NewNodes' /\ Taking' /\ ChainAllocated' /\ NoLeak'
  BY <1>1, ListFrame DEF Holding
<1> QED BY <1>2, <1>3, <1>4

LEMMA IsEmptyLoadStep ==
  ASSUME IInv, NEW t \in Threads, IsEmptyLoad(t), seen' \in [Threads -> SUBSET BOOLEAN]
  PROVE  IInv'
<1> USE DEF IInv, At
<1>1. PICK r \in Results :
        local' = [local EXCEPT ![t] = [@ EXCEPT !.pc = "isEmptyUnlock", !.ret = r]]
  <2>1. Answer \in Results
    BY DEF Answer, Results
  <2> QED BY <2>1 DEF IsEmptyLoad
<1>2. OnlyLocal(t) /\ local'[t].pc = "isEmptyUnlock"
  <2>1. [local[t] EXCEPT !.pc = "isEmptyUnlock", !.ret = r] \in Locals
    BY <1>1, RetLocals DEF TypeOK, Places
  <2> QED BY <1>1, <2>1 DEF TypeOK, OnlyLocal
<1>3. local[t].pc = "isEmptyLoad" /\ UNCHANGED <<list, mtx, mem, allocated, deleted>>
  BY DEF IsEmptyLoad
<1>4. TypeOK'
  BY <1>2, <1>3 DEF TypeOK, OnlyLocal, list
<1>5. MutexesHeld'
  BY <1>2, <1>3 DEF MutexesHeld, OnlyLocal
<1>6. ~deleted
  BY <1>3 DEF ChainAllocated
<1>7. ListIntact' /\ NodesOwned' /\ NewNodes' /\ Taking' /\ ChainAllocated' /\ NoLeak'
  BY <1>2, <1>3, <1>6, ListFrame DEF Holding
<1> QED BY <1>4, <1>5, <1>7

LEMMA PushNewStep ==
  ASSUME IInv, NEW t \in Threads, PushNew(t), seen' \in [Threads -> SUBSET BOOLEAN]
  PROVE  IInv'
<1> USE DEF IInv
<1>1. PICK n \in Nodes \ allocated, v \in Values :
        /\ allocated' = allocated \cup {n}
        /\ mem' = [mem EXCEPT ![n] = [next |-> Null, item |-> v]]
        /\ local' = [local EXCEPT
                       ![t] = [@ EXCEPT !.pc = "pushLock", !.node = n, !.ret = v]]
  BY DEF PushNew
<1>2. local[t].pc = "idle" /\ ~deleted /\ UNCHANGED <<list, mtx, deleted>>
  BY DEF PushNew, At
<1>3. OnlyLocal(t) /\ local'[t].pc = "pushLock" /\ local'[t].node = n
  <2>1. v \in Results
    BY DEF Results
  <2>2. \A l \in Locals : [l EXCEPT !.pc = "pushLock", !.node = n, !.ret = v] \in Locals
    BY <2>1 DEF Locals, Places
  <2> QED BY <1>1, <2>2 DEF TypeOK, OnlyLocal, Locals
<1>4. /\ mem'[n].next = Null
      /\ \A m \in Nodes \ {n} : mem'[m] = mem[m]
      /\ mem' \in [Nodes -> [next : Nodes \cup {Null}, item : Values \cup {EMPTY_VALUE}]]
  BY <1>1 DEF TypeOK
<1>5. \A i \in 1..Len(chain) : chain[i] \in Nodes \ {n}
  BY <1>1, <1>2 DEF TypeOK, ChainAllocated
<1>6. \A u \in Threads : Holding(u) => u # t /\ local[u].node \in Nodes \ {n}
  BY <1>1, <1>2 DEF NodesOwned, Holding, TypeOK
<1>7. TypeOK'
  BY <1>1, <1>2, <1>3, <1>4 DEF TypeOK, OnlyLocal, list
<1>8. MutexesHeld'
  BY <1>2, <1>3 DEF MutexesHeld, OnlyLocal
<1>9. ListIntact'
  <2>1. \A i \in 1..Len(chain) : mem'[chain[i]].next = mem[chain[i]].next
    BY <1>4, <1>5
  <2>2. \A u \in Threads : At(u, "pushTail")' <=> At(u, "pushTail")
    BY <1>2, <1>3 DEF At, OnlyLocal
  <2>3. \A u \in Threads : At(u, "pushTail") => local'[u].node = local[u].node
    BY <1>2, <1>3 DEF At, OnlyLocal
  <2> QED BY <1>2, <2>1, <2>2, <2>3 DEF ListIntact, list
<1>10. NodesOwned'
  <2>1. \A m : InChain(m)' <=> InChain(m)
    BY <1>2 DEF InChain, list
  <2>2. ~InChain(n)
    BY <1>5 DEF InChain
  <2>3. \A u \in Threads \ {t} :
          Holding(u)' => Holding(u) /\ local'[u].node = local[u].node
    BY <1>3 DEF Holding, OnlyLocal
  <2> QED BY <1>1, <1>3, <1>6, <2>1, <2>2, <2>3 DEF NodesOwned
<1>11. NewNodes'
  BY <1>3, <1>4, <1>6 DEF NewNodes, Holding, OnlyLocal
<1>12. Taking'
  <2>1. head \in Nodes \ {n}
    BY <1>5 DEF ListIntact, TypeOK
  <2> QED BY <1>2, <1>3, <1>4, <2>1 DEF Taking, At, OnlyLocal, list
<1>13. ChainAllocated'
  BY <1>1, <1>2 DEF ChainAllocated, list
<1>14. NoLeak'
  <2>1. \A m : InChain(m)' <=> InChain(m)
    BY <1>2 DEF InChain, list
  <2>2. Holding(t)' /\ local'[t].node = n
    BY <1>3 DEF Holding
  <2>3. \A u \in Threads : Holding(u) => Holding(u)' /\ local'[u].node = local[u].node
    BY <1>3, <1>6 DEF Holding, OnlyLocal
  <2> QED BY <1>1, <1>2, <2>1, <2>2, <2>3 DEF NoLeak
<1> QED BY <1>7, <1>8, <1>9, <1>10, <1>11, <1>12, <1>13, <1>14

LEMMA PushLinkStep ==
  ASSUME IInv, NEW t \in Threads, PushLink(t), seen' \in [Threads -> SUBSET BOOLEAN]
  PROVE  IInv'
<1> USE DEF IInv
<1> DEFINE n == local[t].node
           L == Len(chain)
<1>1. local[t].pc = "pushLink" /\ UNCHANGED <<head, tail, mtx, allocated, deleted>>
  BY DEF PushLink, At
<1>2. OnlyLocal(t) /\ local'[t].pc = "pushTail" /\ local'[t].node = n
  BY GotoLocal DEF PushLink, Places
<1>3. n \in Nodes /\ ~InChain(n) /\ mem[n].next = Null /\ Holding(t)
  BY <1>1 DEF TypeOK, NodesOwned, NewNodes, Holding
<1>4. \A u \in Threads \ {t} : local[u].pc \notin {"pushLink", "pushTail", "pushUnlock"}
  BY <1>1 DEF MutexesHeld
<1>5. /\ L \in Nat \ {0} /\ Len(chain') = L + 1 /\ chain' \in Seq(Nodes)
      /\ \A i \in 1..L : chain'[i] = chain[i] /\ chain[i] \in Nodes
      /\ chain'[L + 1] = n
  BY <1>3, AppendProperties DEF TypeOK, ListIntact, PushLink
<1>6. tail = chain[L]
  BY <1>1, <1>4 DEF ListIntact, At
<1>7. /\ mem'[tail].next = n
      /\ \A m \in Nodes \ {tail} : mem'[m] = mem[m]
      /\ mem' \in [Nodes -> [next : Nodes \cup {Null}, item : Values \cup {EMPTY_VALUE}]]
  BY <1>3 DEF TypeOK, PushLink
<1>8. \A m : InChain(m)' <=> InChain(m) \/ m = n
  BY <1>5 DEF InChain
<1>9. \A u \in Threads : u # t => (Holding(u)' <=> Holding(u)) /\ local'[u] = local[u]
  BY <1>2 DEF Holding, OnlyLocal
<1>10. TypeOK'
  BY <1>1, <1>2, <1>5, <1>7 DEF TypeOK, OnlyLocal
<1>11. MutexesHeld'
  BY <1>1, <1>2 DEF MutexesHeld, OnlyLocal
<1>12. ListIntact'
  <2>1. chain' # <<>> /\ head' = chain'[1]
    BY <1>1, <1>5 DEF ListIntact
  <2>2. \A i \in 1..L : chain[i] # n
    BY <1>3 DEF InChain
  <2>3. \A i, j \in 1..Len(chain') : chain'[i] = chain'[j] => i = j
    BY <1>5, <2>2 DEF ListIntact
  <2>4. ASSUME NEW i \in 1..Len(chain')
        PROVE  mem'[chain'[i]].next = IF i = Len(chain') THEN Null ELSE chain'[i + 1]
    <3>1. CASE i = L + 1
      BY <1>3, <1>5, <1>6, <1>7, <2>2, <3>1
    <3>2. CASE i = L
      BY <1>5, <1>6, <1>7, <3>2
    <3>3. CASE i \in 1..(L - 1)
      <4>1. chain[i] # tail
        BY <1>5, <1>6, <3>3 DEF ListIntact
      <4> QED BY <1>5, <1>7, <3>3, <4>1 DEF ListIntact
    <3> QED BY <1>5, <3>1, <3>2, <3>3
  <2>5. At(t, "pushTail")' /\ local'[t].node = chain'[Len(chain')]
    BY <1>2, <1>5 DEF At
  <2>6. \A u \in Threads : At(u, "pushTail")' => u = t
    BY <1>2, <1>4 DEF At, OnlyLocal
  <2> QED BY <2>1, <2>3, <2>4, <2>5, <2>6 DEF ListIntact
<1>13. NodesOwned'
  BY <1>1, <1>2, <1>3, <1>8, <1>9 DEF NodesOwned, Holding
<1>14. NewNodes'
  <2>1. ASSUME NEW u \in Threads, local'[u].pc \in {"pushLock", "pushLink"}
        PROVE  mem'[local'[u].node].next = Null
    <3>1. u # t /\ local'[u] = local[u] /\ Holding(u)
      BY <1>2, <1>9, <2>1 DEF Holding
    <3>2. local[u].node \in Nodes \ {tail}
      BY <1>5, <1>6, <3>1 DEF NodesOwned, InChain, TypeOK
    <3> QED BY <1>7, <2>1, <3>1, <3>2 DEF NewNodes
  <2> QED BY <2>1 DEF NewNodes
<1>15. Taking'
  <2>1. ASSUME NEW u \in Threads, At(u, "popTake")
        PROVE  head # tail
    BY <1>5, <1>6, <2>1 DEF Taking, ListIntact
  <2> QED BY <1>1, <1>2, <1>7, <2>1 DEF Taking, At, OnlyLocal, TypeOK
<1>16. ChainAllocated'
  <2>1. ~deleted /\ n \in allocated
    BY <1>1, <1>3 DEF ChainAllocated, NodesOwned, At
  <2> QED BY <1>1, <1>5, <2>1 DEF ChainAllocated
<1>17. NoLeak'
  BY <1>1, <1>8, <1>9 DEF NoLeak
<1> QED BY <1>10, <1>11, <1>12, <1>13, <1>14, <1>15, <1>16, <1>17

LEMMA PushTailStep ==
  ASSUME IInv, NEW t \in Threads, PushTail(t), seen' \in [Threads -> SUBSET BOOLEAN]
  PROVE  IInv'
<1> USE DEF IInv
<1>1. /\ local[t].pc = "pushTail" /\ tail' = local[t].node
      /\ UNCHANGED <<head, chain, mtx, mem, allocated, deleted>>
  BY DEF PushTail, NewTail, At
<1>2. OnlyLocal(t) /\ local'[t].pc = "pushUnlock"
  BY GotoLocal DEF PushTail, Places
<1>3. tail' = chain[Len(chain)] /\ Len(chain) \in Nat \ {0} /\ tail' \in Nodes
  BY <1>1 DEF ListIntact, TypeOK, At
<1>4. \A u \in Threads : ~At(u, "pushTail")'
  BY <1>1, <1>2 DEF MutexesHeld, At, OnlyLocal
<1>5. \A m : InChain(m)' <=> InChain(m)
  BY <1>1 DEF InChain
<1>6. \A u \in Threads : /\ Holding(u)' <=> Holding(u)
                         /\ Holding(u) => local'[u] = local[u]
  BY <1>1, <1>2 DEF Holding, OnlyLocal
<1>7. TypeOK'
  BY <1>1, <1>2, <1>3 DEF TypeOK, OnlyLocal
<1>8. MutexesHeld'
  BY <1>1, <1>2 DEF MutexesHeld, OnlyLocal
<1>9. ListIntact'
  BY <1>1, <1>3, <1>4 DEF ListIntact
<1>10. NodesOwned'
  BY <1>1, <1>5, <1>6 DEF NodesOwned
<1>11. NewNodes'
  BY <1>1, <1>2 DEF NewNodes, OnlyLocal
<1>12. Taking'
  BY <1>1, <1>2 DEF Taking, At, OnlyLocal
<1>13. ChainAllocated'
  BY <1>1 DEF ChainAllocated, At
<1>14. NoLeak'
  BY <1>1, <1>5, <1>6 DEF NoLeak
<1> QED BY <1>7, <1>8, <1>9, <1>10, <1>11, <1>12, <1>13, <1>14

LEMMA PopLoadStep ==
  ASSUME IInv, NEW t \in Threads, PopLoad(t), seen' \in [Threads -> SUBSET BOOLEAN]
  PROVE  IInv'
<1> USE DEF IInv
<1> DEFINE next == mem[head].next
<1>1. local[t].pc = "popLoad" /\ UNCHANGED <<list, mtx, mem, allocated, deleted>>
  BY DEF PopLoad, At
<1>2. /\ OnlyLocal(t) /\ local'[t].node = head /\ local'[t].new_head = next
      /\ local'[t].pc = IF next = Null THEN "popUnlockEmpty" ELSE "popTake"
  <2>1. EMPTY_VALUE \in Results /\ None \in Results
    BY DEF Results
  <2>2. next \in Nodes \cup {Null}
    BY DEF TypeOK
  <2> QED BY <2>1, <2>2 DEF PopLoad, TypeOK, OnlyLocal, Locals, Places
<1>3. \A u \in Threads : /\ Holding(u)' <=> Holding(u)
                         /\ Holding(u) => local'[u] = local[u]
  BY <1>1, <1>2 DEF Holding, OnlyLocal
<1>4. \A m : InChain(m)' <=> InChain(m)
  BY <1>1 DEF InChain, list
<1>5. TypeOK'
  BY <1>1, <1>2 DEF TypeOK, OnlyLocal, list
<1>6. MutexesHeld'
  BY <1>1, <1>2 DEF MutexesHeld, OnlyLocal
<1>7. ListIntact'
  BY <1>1, <1>2 DEF ListIntact, At, OnlyLocal, list
<1>8. NodesOwned'
  BY <1>1, <1>3, <1>4 DEF NodesOwned
<1>9. NewNodes'
  BY <1>1, <1>2 DEF NewNodes, OnlyLocal
<1>10. Taking'
  BY <1>1, <1>2 DEF Taking, At, OnlyLocal, list
<1>11. ChainAllocated'
  BY <1>1 DEF ChainAllocated, At, list
<1>12. NoLeak'
  BY <1>1, <1>3, <1>4 DEF NoLeak
<1> QED BY <1>5, <1>6, <1>7, <1>8, <1>9, <1>10, <1>11, <1>12

LEMMA PopTakeStep ==
  ASSUME IInv, NEW t \in Threads, PopTake(t), seen' \in [Threads -> SUBSET BOOLEAN]
  PROVE  IInv'
<1> USE DEF IInv
<1> DEFINE L == Len(chain)
<1>1. /\ local[t].pc = "popTake" /\ head' = local[t].new_head
      /\ UNCHANGED <<tail, mtx, mem, allocated, deleted>>
  BY DEF PopTake, At
<1>2. /\ local[t].node = head /\ local[t].new_head = mem[head].next
      /\ local[t].new_head \in Nodes
  BY <1>1 DEF TypeOK, Locals, Taking, At
<1>3. OnlyLocal(t) /\ local'[t].pc = "popUnlock" /\ local'[t].node = head
  <2>1. mem[local[t].new_head].item \in Results
    <3>1. mem[local[t].new_head].item \in Values \cup {EMPTY_VALUE}
      BY <1>2 DEF TypeOK
    <3> QED BY <3>1 DEF Results
  <2>2. [local[t] EXCEPT !.pc = "popUnlock", !.ret = mem[local[t].new_head].item] \in Locals
    BY <2>1, RetLocals DEF TypeOK, Places
  <2> QED BY <1>2, <2>2 DEF PopTake, TypeOK, OnlyLocal, Locals
<1>4. /\ L \in Nat \ {0} /\ Len(chain') = L - 1 /\ chain' \in Seq(Nodes)
      /\ \A i \in 1..(L - 1) : chain'[i] = chain[i + 1]
      /\ \A i \in 1..L : chain[i] \in Nodes
  BY HeadTailProperties DEF TypeOK, ListIntact, PopTake
<1>5. chain[1] = head /\ L > 1 /\ chain[2] = head'
  BY <1>1, <1>2, <1>4, SimpleQueueAssumption DEF ListIntact
<1>6. \A m : InChain(m) <=> InChain(m)' \/ m = head
  <2>1. ASSUME NEW m, NEW i \in 1..L, chain[i] = m, i # 1
        PROVE  InChain(m)'
    <3>1. i - 1 \in 1..Len(chain') /\ chain'[i - 1] = m
      BY <1>4, <2>1
    <3> QED BY <3>1 DEF InChain
  <2>2. ASSUME NEW m, NEW i \in 1..Len(chain'), chain'[i] = m
        PROVE  InChain(m)
    <3>1. i + 1 \in 1..L /\ chain[i + 1] = m
      BY <1>4, <2>2
    <3> QED BY <3>1 DEF InChain
  <2>3. InChain(head)
    <3>1. 1 \in 1..L /\ chain[1] = head
      BY <1>4, <1>5
    <3> QED BY <3>1 DEF InChain
  <2> QED BY <1>5, <2>1, <2>2, <2>3 DEF InChain
<1>7. \A m : m = head => ~InChain(m)'
  BY <1>4, <1>5 DEF InChain, ListIntact
<1>8. \A u \in Threads \ {t} : /\ ~At(u, "popTake") /\ local'[u] = local[u]
                               /\ Holding(u)' <=> Holding(u)
  BY <1>1, <1>3 DEF MutexesHeld, Holding, OnlyLocal, At
<1>9. ~Holding(t) /\ Holding(t)' /\ ~deleted
  BY <1>1, <1>3 DEF Holding, ChainAllocated, At
<1>10. TypeOK'
  BY <1>1, <1>2, <1>3, <1>4 DEF TypeOK, OnlyLocal
<1>11. MutexesHeld'
  BY <1>1, <1>3 DEF MutexesHeld, OnlyLocal
<1>12. ListIntact'
  <2>1. chain' # <<>> /\ head' = chain'[1]
    BY <1>4, <1>5
  <2>2. \A i, j \in 1..Len(chain') : chain'[i] = chain'[j] => i = j
    BY <1>4 DEF ListIntact
  <2>3. \A i \in 1..Len(chain') :
          mem'[chain'[i]].next = IF i = Len(chain') THEN Null ELSE chain'[i + 1]
    BY <1>1, <1>4 DEF ListIntact
  <2>4. chain'[Len(chain')] = chain[L]
    BY <1>4, <1>5
  <2>5. \A u \in Threads : /\ At(u, "pushTail")' <=> At(u, "pushTail")
                           /\ At(u, "pushTail") => local'[u].node = local[u].node
    BY <1>1, <1>3 DEF At, OnlyLocal
  <2> QED BY <1>1, <2>1, <2>2, <2>3, <2>4, <2>5 DEF ListIntact
<1>13. NodesOwned'
  <2>1. 1 \in 1..L /\ chain[1] = head
    BY <1>4, <1>5
  <2>2. head \in allocated /\ InChain(head)
    BY <1>9, <2>1 DEF ChainAllocated, InChain
  <2> QED BY <1>1, <1>3, <1>6, <1>7, <1>8, <2>2 DEF NodesOwned
<1>14. NewNodes'
  BY <1>1, <1>3 DEF NewNodes, OnlyLocal
<1>15. Taking'
  BY <1>3, <1>8 DEF Taking, At
<1>16. ChainAllocated'
  BY <1>1, <1>4, <1>9 DEF ChainAllocated
<1>17. NoLeak'
  BY <1>1, <1>3, <1>6, <1>8, <1>9 DEF NoLeak
<1> QED BY <1>10, <1>11, <1>12, <1>13, <1>14, <1>15, <1>16, <1>17

LEMMA PopFreeStep ==
  ASSUME IInv, NEW t \in Threads, PopFree(t), seen' \in [Threads -> SUBSET BOOLEAN]
  PROVE  IInv'
<1> USE DEF IInv
<1> DEFINE n == local[t].node
<1>1. /\ local[t].pc = "popFree" /\ allocated' = allocated \ {n}
      /\ UNCHANGED <<list, mtx, mem, deleted>>
  BY DEF PopFree, Freed, At
<1>2. OnlyLocal(t) /\ local'[t].pc = "idle"
  BY LeaveLocal DEF PopFree
<1>3. Holding(t) /\ ~InChain(n) /\ ~deleted
  BY <1>1 DEF NodesOwned, Holding, ChainAllocated, At
<1>4. \A u \in Threads : Holding(u)' <=> Holding(u) /\ u # t
  BY <1>2 DEF Holding, OnlyLocal
<1>5. \A m : InChain(m)' <=> InChain(m)
  BY <1>1 DEF InChain, list
<1>6. TypeOK'
  BY <1>1, <1>2 DEF TypeOK, OnlyLocal, list
<1>7. MutexesHeld'
  BY <1>1, <1>2 DEF MutexesHeld, OnlyLocal
<1>8. ListIntact'
  BY <1>1, <1>2 DEF ListIntact, At, OnlyLocal, list
<1>9. NodesOwned'
  BY <1>1, <1>2, <1>3, <1>4, <1>5 DEF NodesOwned, OnlyLocal
<1>10. NewNodes'
  BY <1>1, <1>2 DEF NewNodes, OnlyLocal
<1>11. Taking'
  BY <1>1, <1>2 DEF Taking, At, OnlyLocal, list
<1>12. ChainAllocated'
  BY <1>1, <1>3 DEF ChainAllocated, InChain, list
<1>13. NoLeak'
  BY <1>1, <1>2, <1>3, <1>4, <1>5 DEF NoLeak, OnlyLocal
<1> QED BY <1>6, <1>7, <1>8, <1>9, <1>10, <1>11, <1>12, <1>13

LEMMA DeleteStep ==
  ASSUME IInv, Delete, seen' \in [Threads -> SUBSET BOOLEAN]
  PROVE  IInv'
<1> USE DEF IInv
<1>1. /\ ~deleted /\ \A t \in Threads : At(t, "idle")
      /\ deleted' = TRUE
      /\ allocated' = {n \in allocated : ~InChain(n)}
      /\ UNCHANGED <<local, list, mtx, mem>>
  BY DEF Delete, InChain
<1>2. allocated' = {}
  BY <1>1 DEF NoLeak, Holding, At
<1>3. \A t \in Threads : ~Holding(t)'
  BY <1>1 DEF Holding, At
<1>4. TypeOK'
  BY <1>1 DEF TypeOK, list
<1>5. MutexesHeld' /\ ListIntact' /\ NewNodes' /\ Taking'
  BY <1>1 DEF MutexesHeld, ListIntact, NewNodes, Taking, At, list
<1>6. NodesOwned' /\ ChainAllocated' /\ NoLeak'
  BY <1>1, <1>2, <1>3 DEF NodesOwned, ChainAllocated, NoLeak, At
<1> QED BY <1>4, <1>5, <1>6

-----------------------------------------------------------------------------
(***************************************************************************)
(* The invariant, and what it gives.                                       *)
(***************************************************************************)
LEMMA InitIInv == Init => IInv
<1> SUFFICES ASSUME Init PROVE IInv
  OBVIOUS
<1>1. /\ head \in Nodes /\ chain = <<head>> /\ tail = head /\ allocated = {head}
      /\ deleted = FALSE /\ \A n \in Nodes : mem[n].next = Null
  BY DEF Init
<1>2. \A t \in Threads : local[t].pc = "idle"
  BY DEF Init, Idle
<1>3. TypeOK
  <2>1. local \in [Threads -> Locals]
    BY IdleLocal DEF Init
  <2>2. mem \in [Nodes -> [next : Nodes \cup {Null}, item : Values \cup {EMPTY_VALUE}]]
    BY DEF Init
  <2>3. mtx \in [{"head", "tail"} -> Threads \cup {NoThread}]
    BY DEF Init
  <2>4. seen \in [Threads -> SUBSET BOOLEAN]
    <3>1. {} \in SUBSET BOOLEAN
      OBVIOUS
    <3>2. seen = [t \in Threads |-> {}]
      BY DEF Init
    <3> QED BY <3>1, <3>2
  <2>5. chain \in Seq(Nodes)
    BY <1>1
  <2>6. deleted \in BOOLEAN /\ allocated \subseteq Nodes /\ tail \in Nodes
    BY <1>1
  <2> QED BY <1>1, <2>1, <2>2, <2>3, <2>4, <2>5, <2>6 DEF TypeOK
<1>4. MutexesHeld
  BY <1>2, SimpleQueueAssumption DEF Init, MutexesHeld
<1>5. ListIntact
  BY <1>1, <1>2 DEF ListIntact, At
<1>6. NodesOwned /\ NewNodes /\ Taking
  BY <1>2 DEF NodesOwned, NewNodes, Taking, Holding, At
<1>7. ChainAllocated /\ NoLeak
  BY <1>1 DEF ChainAllocated, NoLeak, InChain
<1> QED BY <1>3, <1>4, <1>5, <1>6, <1>7 DEF IInv

\* The history keeps its type at every step.
LEMMA WitnessType ==
  ASSUME Fifo!Witness, seen \in [Threads -> SUBSET BOOLEAN]
  PROVE  seen' \in [Threads -> SUBSET BOOLEAN]
BY DEF Fifo!Witness

LEMMA NextIInv == IInv /\ [Next]_vars => IInv'
<1> SUFFICES ASSUME IInv, [Next]_vars PROVE IInv'
  OBVIOUS
<1>1. CASE Next
  <2>1. seen' \in [Threads -> SUBSET BOOLEAN]
    BY <1>1, WitnessType DEF Next, IInv, TypeOK
  <2>2. ASSUME NEW t \in Threads, Push(t) PROVE IInv'
    BY <2>1, <2>2, PushNewStep, PushLockStep, PushLinkStep, PushTailStep, PushUnlockStep
       DEF Push
  <2>3. ASSUME NEW t \in Threads, Pop(t) PROVE IInv'
    BY <2>1, <2>3, CallStep, PopLockStep, PopLoadStep, PopTakeStep, PopUnlockEmptyStep,
       PopUnlockStep, PopFreeStep DEF Pop
  <2>4. ASSUME NEW t \in Threads, IsEmpty(t) PROVE IInv'
    BY <2>1, <2>4, CallStep, IsEmptyLockStep, IsEmptyLoadStep, IsEmptyUnlockStep
       DEF IsEmpty
  <2> QED BY <1>1, <2>1, <2>2, <2>3, <2>4, DeleteStep DEF Next
<1>2. CASE UNCHANGED vars
  BY <1>2 DEF vars, list, IInv, TypeOK, MutexesHeld, ListIntact, NodesOwned, NewNodes,
     Taking, ChainAllocated, NoLeak, InChain, Holding, At
<1> QED BY <1>1, <1>2

\* IInv holds in every reachable state.
THEOREM Invariance == Spec => []IInv
BY InitIInv, NextIInv, PTL DEF Spec

\* The fields of the queue and the locals of its threads keep their types.
THEOREM TypeCorrect == Spec => []TypeOK
<1>1. IInv => TypeOK
  BY DEF IInv
<1> QED BY <1>1, Invariance, PTL

\* head_mtx and tail_mtx are each held by exactly the thread between its lock and
\* its unlock, on every path of push, pop and is_empty.
THEOREM Mutexes == Spec => []MutexesHeld
<1>1. IInv => MutexesHeld
  BY DEF IInv
<1> QED BY <1>1, Invariance, PTL

\* The list from queue->head to queue->tail stays whole while a producer and a
\* consumer change it at the same time under different mutexes.
THEOREM ListWhole == Spec => []ListIntact
<1>1. IInv => ListIntact
  BY DEF IInv
<1> QED BY <1>1, Invariance, PTL

\* No operation dereferences a node that pop has freed, none is freed twice, and
\* SimpleQueue_delete leaves none behind.
THEOREM Memory == Spec => []MemorySafe
<1>1. ASSUME IInv, NEW t \in Threads
      PROVE  Touches(t) \subseteq allocated
  <2> USE <1>1 DEF IInv
  <2>1. ~At(t, "idle") => \A i \in 1..Len(chain) : chain[i] \in allocated
    BY DEF ChainAllocated
  <2>2. Len(chain) \in Nat \ {0} /\ chain[1] = head
    BY DEF ListIntact, TypeOK
  <2>3. CASE At(t, "pushLink")
    <3>1. \A u \in Threads : ~At(u, "pushTail")
      BY <2>3 DEF MutexesHeld, At
    <3>2. tail = chain[Len(chain)]
      BY <3>1 DEF ListIntact
    <3> QED BY <2>1, <2>2, <2>3, <3>2 DEF Touches, At
  <2>4. CASE At(t, "popLoad") \/ At(t, "isEmptyLoad")
    BY <2>1, <2>2, <2>4 DEF Touches, At
  <2>5. CASE At(t, "popTake")
    <3>1. Len(chain) > 1 /\ chain[2] = local[t].new_head
      BY <2>2, <2>5 DEF Taking, ListIntact
    <3> QED BY <2>1, <2>2, <2>5, <3>1 DEF Touches, At
  <2>6. CASE At(t, "popFree")
    BY <2>6 DEF Touches, At, NodesOwned, Holding
  <2>7. CASE local[t].pc \notin {"pushLink", "popLoad", "isEmptyLoad", "popTake", "popFree"}
    BY <2>7 DEF Touches, At
  <2> QED BY <2>3, <2>4, <2>5, <2>6, <2>7 DEF At
<1>2. IInv => MemorySafe
  BY <1>1 DEF MemorySafe, NoUseAfterFree, IInv
<1> QED BY <1>2, Invariance, PTL
-----------------------------------------------------------------------------
(***************************************************************************)
(* SimpleQueue implements FifoQueue: each step is a step of the            *)
(* indivisible queue, or changes nothing there.                            *)
(***************************************************************************)

\* A node on its way into the list holds the value that was pushed.
Pushing ==
  \A t \in Threads : local[t].pc \in {"pushLock", "pushLink"} =>
    local[t].ret = mem[local[t].node].item

\* What the history holds: a running operation has seen the queue as it is now.
SeenNow ==
  \A t \in Threads : IF Calls[t] = Fifo!Idle THEN seen[t] = {}
                     ELSE (Contents = <<>>) \in seen[t]

RInv == IInv /\ Pushing /\ SeenNow
-----------------------------------------------------------------------------
(***************************************************************************)
(* The operation a thread is in, by the place where it stands.             *)
(***************************************************************************)
Phases ==
  \A t \in Threads :
    LET pc == local[t].pc
        Is(op, val) == Calls[t] = [op |-> op, val |-> val]
    IN /\ pc \in {"pushLock", "pushLink"} => Is("push", local[t].ret)
       /\ pc \in {"pushTail", "pushUnlock"} => Is("pushed", None)
       /\ pc \in {"popLock", "popLoad", "popTake"} => Is("pop", None)
       /\ pc \in {"popUnlockEmpty", "popUnlock", "popFree"} => Is("popped", local[t].ret)
       /\ pc \in {"isEmptyLock", "isEmptyLoad"} => Is("is_empty", None)
       /\ pc = "isEmptyUnlock" => Is("answered", local[t].ret)
       /\ pc = "idle" => Is("idle", None)

LEMMA PhasesNow == Phases /\ Phases'
<1>1. Phases
  BY DEF Phases, Calls, Calling
<1>2. Phases'
  BY DEF Phases, Calls, Calling
<1> QED BY <1>1, <1>2

LEMMA OthersCall ==
  ASSUME NEW t \in Threads, OnlyLocal(t), NEW u \in Threads \ {t}
  PROVE  Calls'[u] = Calls[u]
<1>1. local'[u] = local[u]
  BY DEF OnlyLocal
<1>2. Calling(u)' = Calling(u)
  BY <1>1 DEF Calling
<1> QED BY <1>2 DEF Calls

\* A step of t changes at most the operation of t.
LEMMA CallsBecome ==
  ASSUME NEW t \in Threads, OnlyLocal(t), NEW c, Calls'[t] = c
  PROVE  Calls' = [Calls EXCEPT ![t] = c]
<1>1. \A u \in Threads \ {t} : Calls'[u] = Calls[u]
  BY OthersCall
<1>2. Calls' = [u \in Threads |-> Calls'[u]] /\ Calls = [u \in Threads |-> Calls[u]]
  BY DEF Calls
<1> QED BY <1>1, <1>2

LEMMA CallsSame ==
  ASSUME NEW t \in Threads, OnlyLocal(t), Calls'[t] = Calls[t]
  PROVE  Calls' = Calls
<1>1. \A u \in Threads \ {t} : Calls'[u] = Calls[u]
  BY OthersCall
<1>2. Calls' = [u \in Threads |-> Calls'[u]] /\ Calls = [u \in Threads |-> Calls[u]]
  BY DEF Calls
<1> QED BY <1>1, <1>2
-----------------------------------------------------------------------------
(***************************************************************************)
(* The contents of the list.                                               *)
(***************************************************************************)
Items == Values \cup {EMPTY_VALUE}

LEMMA ContentsAre ==
  ASSUME TypeOK, ListIntact
  PROVE  /\ Len(chain) \in Nat \ {0}
         /\ Contents \in Seq(Items)
         /\ Len(Contents) = Len(chain) - 1
         /\ \A i \in 1..(Len(chain) - 1) : Contents[i] = mem[chain[i + 1]].item
<1>1. Len(chain) \in Nat \ {0}
  BY DEF TypeOK, ListIntact
<1>2. Contents \in [1..(Len(chain) - 1) -> Items]
  BY <1>1 DEF TypeOK, Contents, Items
<1>3. Contents \in Seq(Items) /\ Len(Contents) = Len(chain) - 1
  BY <1>1, <1>2
<1> QED BY <1>1, <1>3 DEF Contents

LEMMA ContentsSame ==
  ASSUME TypeOK, ListIntact, chain' = chain,
         \A i \in 1..Len(chain) : mem'[chain[i]].item = mem[chain[i]].item
  PROVE  Contents' = Contents
<1>1. Len(chain) \in Nat \ {0}
  BY ContentsAre
<1>2. \A i \in 1..(Len(chain) - 1) : mem'[chain[i + 1]].item = mem[chain[i + 1]].item
  BY <1>1
<1> QED BY <1>2 DEF Contents
-----------------------------------------------------------------------------
(***************************************************************************)
(* The history.                                                            *)
(***************************************************************************)
LEMMA SeenNext == Fifo!Witness => SeenNow'
BY DEF Fifo!Witness, SeenNow, Fifo!Idle, Calls

LEMMA SeenSame ==
  ASSUME SeenNow, Fifo!Witness, TypeOK, Contents' = Contents, Calls' = Calls
  PROVE  UNCHANGED Fifo!vars
<1>1. \A t \in Threads : seen'[t] = seen[t]
  BY DEF Fifo!Witness, SeenNow, TypeOK
<1>2. seen = [t \in Threads |-> seen[t]] /\ seen' = [t \in Threads |-> seen'[t]]
  BY DEF Fifo!Witness, TypeOK
<1> QED BY <1>1, <1>2 DEF Fifo!vars
-----------------------------------------------------------------------------
(***************************************************************************)
(* The steps that take effect on the queue.                                *)
(***************************************************************************)
LEMMA LinkIsPush ==
  ASSUME RInv, NEW t \in Threads, PushLink(t)
  PROVE  Fifo!Push(t)
<1> USE DEF RInv, IInv
<1> DEFINE n == local[t].node
           v == local[t].ret
<1>1. local[t].pc = "pushLink" /\ n \in Nodes /\ ~InChain(n) /\ mem[n].item = v
  BY DEF PushLink, At, Pushing, NodesOwned, Holding, TypeOK
<1>2. OnlyLocal(t) /\ local'[t].pc = "pushTail"
  BY GotoLocal DEF PushLink, Places
<1>3. /\ Len(chain) \in Nat \ {0} /\ Len(chain') = Len(chain) + 1 /\ chain' \in Seq(Nodes)
      /\ \A i \in 1..Len(chain) : chain'[i] = chain[i] /\ chain[i] \in Nodes
      /\ chain'[Len(chain) + 1] = n
  BY <1>1, AppendProperties DEF TypeOK, ListIntact, PushLink
<1>4. \A m \in Nodes : mem'[m].item = mem[m].item
  BY DEF PushLink, TypeOK
<1>5. Contents' = Append(Contents, v)
  <2>1. v \in Items
    BY <1>1 DEF TypeOK, Items
  <2>2. /\ Contents \in Seq(Items) /\ Len(Contents) = Len(chain) - 1
        /\ \A i \in 1..(Len(chain) - 1) : Contents[i] = mem[chain[i + 1]].item
    BY ContentsAre
  <2>3. /\ Append(Contents, v) \in Seq(Items) /\ Len(Append(Contents, v)) = Len(chain)
        /\ \A i \in 1..(Len(chain) - 1) : Append(Contents, v)[i] = Contents[i]
        /\ Append(Contents, v)[Len(chain)] = v
    BY <1>3, <2>1, <2>2, AppendProperties
  <2>4. Contents' = [i \in 1..Len(chain) |-> mem'[chain'[i + 1]].item]
    BY <1>3 DEF Contents
  <2>5. ASSUME NEW i \in 1..Len(chain)
        PROVE  mem'[chain'[i + 1]].item = Append(Contents, v)[i]
    <3>1. CASE i = Len(chain)
      <4>1. chain'[i + 1] = n /\ Append(Contents, v)[i] = v
        BY <1>3, <2>3, <3>1
      <4>2. mem'[n].item = v
        BY <1>1, <1>4
      <4> QED BY <4>1, <4>2
    <3>2. CASE i \in 1..(Len(chain) - 1)
      <4>1. i + 1 \in 1..Len(chain)
        BY <1>3, <3>2
      <4>2. chain'[i + 1] = chain[i + 1] /\ chain[i + 1] \in Nodes
        BY <1>3, <4>1
      <4>3. mem'[chain[i + 1]].item = mem[chain[i + 1]].item
        BY <1>4, <4>2
      <4>4. Append(Contents, v)[i] = mem[chain[i + 1]].item
        BY <2>2, <2>3, <3>2
      <4> QED BY <4>2, <4>3, <4>4
    <3>3. i = Len(chain) \/ i \in 1..(Len(chain) - 1)
      BY <1>3
    <3> QED BY <3>1, <3>2, <3>3
  <2>6. Append(Contents, v) = [i \in 1..Len(chain) |-> Append(Contents, v)[i]]
    BY <2>3
  <2> QED BY <2>4, <2>5, <2>6
<1>6. Calls[t] = [op |-> "push", val |-> v] /\ Calls'[t] = [op |-> "pushed", val |-> None]
  BY <1>1, <1>2, PhasesNow DEF Phases
<1> QED BY <1>2, <1>5, <1>6, CallsBecome DEF Fifo!Push, Fifo!Becomes

LEMMA TakeIsPop ==
  ASSUME RInv, NEW t \in Threads, PopTake(t)
  PROVE  Fifo!Pop(t)
<1> USE DEF RInv, IInv
<1> DEFINE v == mem[local[t].new_head].item
<1>1. /\ local[t].pc = "popTake" /\ mem' = mem /\ chain' = Tail(chain)
      /\ local[t].new_head = mem[chain[1]].next /\ local[t].new_head # Null
  BY DEF PopTake, At, Taking, ListIntact
<1>2. /\ Len(chain) \in Nat /\ Len(chain) > 1 /\ chain[2] = local[t].new_head
      /\ Len(chain') = Len(chain) - 1
      /\ \A i \in 1..(Len(chain) - 1) : chain'[i] = chain[i + 1]
  BY <1>1, HeadTailProperties DEF TypeOK, ListIntact
<1>3. /\ OnlyLocal(t) /\ local'[t].pc = "popUnlock" /\ local'[t].ret = v
  <2>1. v \in Values \cup {EMPTY_VALUE}
    BY <1>2 DEF TypeOK
  <2>2. v \in Results
    BY <2>1 DEF Results
  <2>3. [local[t] EXCEPT !.pc = "popUnlock", !.ret = v] \in Locals
    BY <2>2, RetLocals DEF TypeOK, Places
  <2> QED BY <2>3 DEF PopTake, TypeOK, OnlyLocal, Locals
<1>4. /\ Contents \in Seq(Items) /\ Len(Contents) = Len(chain) - 1
      /\ \A i \in 1..(Len(chain) - 1) : Contents[i] = mem[chain[i + 1]].item
  BY ContentsAre
<1>5. Contents # <<>> /\ Head(Contents) = v
  BY <1>2, <1>4
<1>6. Contents' = Tail(Contents)
  <2>1. /\ Tail(Contents) \in Seq(Items) /\ Len(Tail(Contents)) = Len(chain) - 2
        /\ \A i \in 1..(Len(chain) - 2) : Tail(Contents)[i] = Contents[i + 1]
    BY <1>2, <1>4, <1>5, HeadTailProperties
  <2>2. Contents' = [i \in 1..(Len(chain) - 2) |-> mem[chain'[i + 1]].item]
    BY <1>1, <1>2 DEF Contents
  <2>3. ASSUME NEW i \in 1..(Len(chain) - 2)
        PROVE  mem[chain'[i + 1]].item = Tail(Contents)[i]
    BY <1>2, <1>4, <2>1
  <2>4. Tail(Contents) = [i \in 1..(Len(chain) - 2) |-> Tail(Contents)[i]]
    <3>1. Tail(Contents) \in [1..Len(Tail(Contents)) -> Items]
      BY <2>1, LenProperties
    <3> QED BY <2>1, <3>1
  <2> QED BY <2>2, <2>3, <2>4
<1>7. Calls[t] = [op |-> "pop", val |-> None] /\ Calls'[t] = [op |-> "popped", val |-> v]
  BY <1>1, <1>3, PhasesNow DEF Phases
<1> QED BY <1>3, <1>5, <1>6, <1>7, CallsBecome DEF Fifo!Pop, Fifo!Becomes
-----------------------------------------------------------------------------
(***************************************************************************)
(* The steps that do not.                                                  *)
(***************************************************************************)
Simulated == \/ \E t \in Threads : Fifo!Step(t)
             \/ Contents' = Contents /\ Calls' = Calls

\* The step leaves the list as it is, and what t pushes is what it pushed before.
Aside(t) ==
  /\ OnlyLocal(t)
  /\ chain' = chain /\ \A m \in Nodes : mem'[m].item = mem[m].item
  /\ local'[t].pc \in {"pushLock", "pushLink"} =>
       /\ local[t].pc \in {"pushLock", "pushLink"}
       /\ local'[t].node = local[t].node /\ local'[t].ret = local[t].ret

LEMMA AsideStep ==
  ASSUME RInv, NEW t \in Threads, Aside(t)
  PROVE  /\ Pushing' /\ Contents' = Contents
         /\ Calls'[t] = Calls[t] => Calls' = Calls
         /\ \A c : Calls'[t] = c => Calls' = [Calls EXCEPT ![t] = c]
<1> USE DEF RInv, IInv, Aside
<1>1. Pushing'
  <2>1. \A u \in Threads :
        local[u].pc \in {"pushLock", "pushLink"} => local[u].node \in Nodes
    BY DEF NodesOwned, Holding, TypeOK
  <2> QED BY <2>1 DEF Pushing, OnlyLocal
<1>2. Contents' = Contents
  <2>1. \A i \in 1..Len(chain) : chain[i] \in Nodes
    BY DEF TypeOK
  <2> QED BY <2>1, ContentsSame
<1> QED BY <1>1, <1>2, CallsSame, CallsBecome

LEMMA Silent ==
  ASSUME RInv, NEW t \in Threads,
         PushLock(t) \/ PushTail(t) \/ PopLock(t) \/ PopUnlock(t) \/ IsEmptyLock(t)
  PROVE  Simulated /\ Pushing'
<1> USE DEF RInv, IInv, At, list
<1>1. CASE PushLock(t)
  <2>1. /\ OnlyLocal(t) /\ local[t].pc = "pushLock" /\ local'[t].pc = "pushLink"
        /\ local'[t].node = local[t].node /\ local'[t].ret = local[t].ret
    BY <1>1, GotoLocal DEF PushLock, Lock, Places
  <2>2. Aside(t)
    BY <1>1, <2>1 DEF Aside, PushLock, Lock
  <2>3. Calls'[t] = Calls[t]
    BY <2>1, PhasesNow DEF Phases
  <2> QED BY <2>2, <2>3, AsideStep DEF Simulated
<1>2. CASE PushTail(t)
  <2>1. OnlyLocal(t) /\ local[t].pc = "pushTail" /\ local'[t].pc = "pushUnlock"
    BY <1>2, GotoLocal DEF PushTail, Places
  <2>2. Aside(t)
    BY <1>2, <2>1 DEF Aside, PushTail
  <2>3. Calls'[t] = Calls[t]
    BY <2>1, PhasesNow DEF Phases
  <2> QED BY <2>2, <2>3, AsideStep DEF Simulated
<1>3. CASE PopLock(t)
  <2>1. OnlyLocal(t) /\ local[t].pc = "popLock" /\ local'[t].pc = "popLoad"
    BY <1>3, GotoLocal DEF PopLock, Lock, Places
  <2>2. Aside(t)
    BY <1>3, <2>1 DEF Aside, PopLock, Lock
  <2>3. Calls'[t] = Calls[t]
    BY <2>1, PhasesNow DEF Phases
  <2> QED BY <2>2, <2>3, AsideStep DEF Simulated
<1>4. CASE PopUnlock(t)
  <2>1. /\ OnlyLocal(t) /\ local[t].pc = "popUnlock" /\ local'[t].pc = "popFree"
        /\ local'[t].ret = local[t].ret
    BY <1>4, GotoLocal DEF PopUnlock, Unlock, Places
  <2>2. Aside(t)
    BY <1>4, <2>1 DEF Aside, PopUnlock, Unlock
  <2>3. Calls'[t] = Calls[t]
    BY <2>1, PhasesNow DEF Phases
  <2> QED BY <2>2, <2>3, AsideStep DEF Simulated
<1>5. CASE IsEmptyLock(t)
  <2>1. OnlyLocal(t) /\ local[t].pc = "isEmptyLock" /\ local'[t].pc = "isEmptyLoad"
    BY <1>5, GotoLocal DEF IsEmptyLock, Lock, Places
  <2>2. Aside(t)
    BY <1>5, <2>1 DEF Aside, IsEmptyLock, Lock
  <2>3. Calls'[t] = Calls[t]
    BY <2>1, PhasesNow DEF Phases
  <2> QED BY <2>2, <2>3, AsideStep DEF Simulated
<1> QED BY <1>1, <1>2, <1>3, <1>4, <1>5

LEMMA LeaveIsReturn ==
  ASSUME RInv, NEW t \in Threads,
         PushUnlock(t) \/ PopUnlockEmpty(t) \/ PopFree(t) \/ IsEmptyUnlock(t)
  PROVE  Simulated /\ Pushing'
<1> USE DEF RInv, IInv
<1>1. local[t].pc \in {"pushUnlock", "popUnlockEmpty", "popFree", "isEmptyUnlock"}
  BY DEF PushUnlock, PopUnlockEmpty, PopFree, IsEmptyUnlock, Unlock, At
<1>2. Leave(t) /\ UNCHANGED <<list, mem>>
  BY DEF PushUnlock, PopUnlockEmpty, PopFree, IsEmptyUnlock, Unlock
<1>3. OnlyLocal(t) /\ local'[t].pc = "idle"
  BY <1>2, LeaveLocal
<1>4. Aside(t)
  BY <1>2, <1>3 DEF Aside, list
<1>5. Calls[t].op \in {"pushed", "popped", "answered"}
  <2>1. \/ Calls[t] = [op |-> "pushed", val |-> None]
        \/ Calls[t] = [op |-> "popped", val |-> local[t].ret]
        \/ Calls[t] = [op |-> "answered", val |-> local[t].ret]
    BY <1>1, PhasesNow DEF Phases
  <2> QED BY <2>1
<1>6. Calls'[t] = Fifo!Idle
  BY <1>3, PhasesNow DEF Phases, Fifo!Idle
<1>7. Fifo!Return(t)
  BY <1>4, <1>5, <1>6, AsideStep DEF Fifo!Return
<1> QED BY <1>4, <1>7, AsideStep DEF Simulated, Fifo!Step

LEMMA CallIsInvoke ==
  ASSUME RInv, NEW t \in Threads, Call(t, "popLock") \/ Call(t, "isEmptyLock")
  PROVE  Simulated /\ Pushing'
<1> USE DEF RInv, IInv
<1>1. PICK place \in {"popLock", "isEmptyLock"} : Call(t, place)
  OBVIOUS
<1>2. OnlyLocal(t) /\ local[t].pc = "idle" /\ local'[t].pc = place
  BY <1>1, GotoLocal DEF Call, At, Places
<1>3. Aside(t)
  BY <1>1, <1>2 DEF Aside, Call, list
<1>4. Calls[t] = Fifo!Idle
  BY <1>2, PhasesNow DEF Phases, Fifo!Idle
<1>5. PICK op \in {"pop", "is_empty"} : Calls'[t] = [op |-> op, val |-> None]
  BY <1>2, PhasesNow DEF Phases
<1>6. Calls' = [Calls EXCEPT ![t] = [op |-> op, val |-> None]]
  BY <1>3, <1>5, AsideStep
<1>7. Fifo!Invoke(t)
  BY <1>3, <1>4, <1>6, AsideStep DEF Fifo!Invoke, Fifo!Becomes
<1> QED BY <1>3, <1>7, AsideStep DEF Simulated, Fifo!Step

LEMMA NewIsInvoke ==
  ASSUME RInv, NEW t \in Threads, PushNew(t)
  PROVE  Simulated /\ Pushing'
<1> USE DEF RInv, IInv
<1>1. PICK n \in Nodes \ allocated, v \in Values :
        /\ mem' = [mem EXCEPT ![n] = [next |-> Null, item |-> v]]
        /\ local' = [local EXCEPT
                       ![t] = [@ EXCEPT !.pc = "pushLock", !.node = n, !.ret = v]]
  BY DEF PushNew
<1>2. local[t].pc = "idle" /\ ~deleted /\ chain' = chain
  BY DEF PushNew, At, list
<1>3. /\ OnlyLocal(t) /\ local'[t].pc = "pushLock"
      /\ local'[t].node = n /\ local'[t].ret = v
  <2>1. v \in Results
    BY DEF Results
  <2>2. \A l \in Locals : [l EXCEPT !.pc = "pushLock", !.node = n, !.ret = v] \in Locals
    BY <2>1 DEF Locals, Places
  <2> QED BY <1>1, <2>2 DEF TypeOK, OnlyLocal, Locals
<1>4. mem'[n].item = v /\ \A m \in Nodes \ {n} : mem'[m] = mem[m]
  BY <1>1 DEF TypeOK
<1>5. Pushing'
  <2>1. \A u \in Threads : u # t /\ local[u].pc \in {"pushLock", "pushLink"} =>
          local[u].node \in Nodes \ {n}
    BY <1>1 DEF NodesOwned, Holding, TypeOK
  <2> QED BY <1>3, <1>4, <2>1 DEF Pushing, OnlyLocal
<1>6. Contents' = Contents
  <2>1. \A i \in 1..Len(chain) : chain[i] \in Nodes \ {n}
    BY <1>1, <1>2 DEF TypeOK, ChainAllocated
  <2> QED BY <1>2, <1>4, <2>1, ContentsSame
<1>7. Calls[t] = Fifo!Idle /\ Calls'[t] = [op |-> "push", val |-> v]
  BY <1>2, <1>3, PhasesNow DEF Phases, Fifo!Idle
<1>8. Fifo!Invoke(t)
  BY <1>3, <1>6, <1>7, CallsBecome DEF Fifo!Invoke, Fifo!Becomes
<1> QED BY <1>5, <1>8 DEF Simulated, Fifo!Step

LEMMA EmptyWhenNull ==
  ASSUME RInv
  PROVE  mem[head].next = Null <=> Contents = <<>>
<1> USE DEF RInv, IInv
<1>1. /\ Len(chain) \in Nat \ {0} /\ Contents \in Seq(Items)
      /\ Len(Contents) = Len(chain) - 1
  BY ContentsAre
<1>2. mem[head].next = Null <=> Len(chain) = 1
  <2>1. head = chain[1] /\ mem[head].next = IF Len(chain) = 1 THEN Null ELSE chain[2]
    BY <1>1 DEF ListIntact
  <2>2. Len(chain) # 1 => chain[2] \in Nodes
    BY <1>1 DEF TypeOK
  <2> QED BY <2>1, <2>2, SimpleQueueAssumption
<1>3. Contents = <<>> <=> Len(Contents) = 0
  BY <1>1, EmptySeq
<1> QED BY <1>1, <1>2, <1>3

LEMMA LoadIsPopEmpty ==
  ASSUME RInv, NEW t \in Threads, PopLoad(t)
  PROVE  Simulated /\ Pushing'
<1> USE DEF RInv, IInv
<1> DEFINE next == mem[head].next
<1>1. local[t].pc = "popLoad" /\ UNCHANGED <<list, mem>>
  BY DEF PopLoad, At
<1>2. /\ OnlyLocal(t)
      /\ local'[t].pc = IF next = Null THEN "popUnlockEmpty" ELSE "popTake"
      /\ next = Null => local'[t].ret = EMPTY_VALUE
  <2>1. EMPTY_VALUE \in Results /\ None \in Results
    BY DEF Results
  <2>2. next \in Nodes \cup {Null}
    BY DEF TypeOK
  <2> QED BY <2>1, <2>2 DEF PopLoad, TypeOK, OnlyLocal, Locals, Places
<1>3. Aside(t)
  BY <1>1, <1>2 DEF Aside, list
<1>4. Calls[t] = [op |-> "pop", val |-> None]
  BY <1>1, PhasesNow DEF Phases
<1>5. CASE next # Null
  <2>1. Calls'[t] = Calls[t]
    BY <1>2, <1>4, <1>5, PhasesNow DEF Phases
  <2> QED BY <1>3, <2>1, AsideStep DEF Simulated
<1>6. CASE next = Null
  <2>1. Calls'[t] = [op |-> "popped", val |-> EMPTY_VALUE]
    BY <1>2, <1>6, PhasesNow DEF Phases
  <2>2. TRUE \in seen[t]
    <3>1. (Contents = <<>>) = TRUE
      BY <1>6, EmptyWhenNull
    <3>2. Calls[t] # Fifo!Idle
      BY <1>4 DEF Fifo!Idle
    <3> QED BY <3>1, <3>2 DEF SeenNow
  <2>3. Calls' = [Calls EXCEPT ![t] = [op |-> "popped", val |-> EMPTY_VALUE]]
    BY <1>3, <2>1, AsideStep
  <2>4. Calls[t].op = "pop"
    BY <1>4
  <2>5. Fifo!PopEmpty(t)
    BY <1>3, <2>2, <2>3, <2>4, AsideStep DEF Fifo!PopEmpty, Fifo!Becomes
  <2> QED BY <1>3, <2>5, AsideStep DEF Simulated, Fifo!Step
<1> QED BY <1>5, <1>6

LEMMA LoadIsEmpty ==
  ASSUME RInv, NEW t \in Threads, IsEmptyLoad(t)
  PROVE  Simulated /\ Pushing'
<1> USE DEF RInv, IInv
<1>1. local[t].pc = "isEmptyLoad" /\ UNCHANGED <<list, mem>>
  BY DEF IsEmptyLoad, At
<1>2. Answer \in BOOLEAN /\ Answer = (Contents = <<>>)
  BY EmptyWhenNull DEF Answer
<1>3. PICK r \in BOOLEAN :
        /\ r = (Contents = <<>>)
        /\ local' = [local EXCEPT ![t] = [@ EXCEPT !.pc = "isEmptyUnlock", !.ret = r]]
  BY <1>2 DEF IsEmptyLoad
<1>4. OnlyLocal(t) /\ local'[t].pc = "isEmptyUnlock" /\ local'[t].ret = r
  <2>1. r \in Results
    BY DEF Results
  <2>2. [local[t] EXCEPT !.pc = "isEmptyUnlock", !.ret = r] \in Locals
    BY <2>1, RetLocals DEF TypeOK, Places
  <2> QED BY <1>3, <2>2 DEF TypeOK, OnlyLocal, Locals
<1>5. Aside(t)
  BY <1>1, <1>4 DEF Aside, list
<1>6. /\ Calls[t] = [op |-> "is_empty", val |-> None]
      /\ Calls'[t] = [op |-> "answered", val |-> r]
  BY <1>1, <1>4, PhasesNow DEF Phases
<1>7. r \in seen[t]
  <2>1. Calls[t] # Fifo!Idle
    BY <1>6 DEF Fifo!Idle
  <2>2. (Contents = <<>>) \in seen[t]
    BY <2>1 DEF SeenNow
  <2> QED BY <1>3, <2>2
<1>8. Fifo!IsEmpty(t)
  BY <1>5, <1>6, <1>7, AsideStep DEF Fifo!IsEmpty, Fifo!Becomes
<1> QED BY <1>5, <1>8, AsideStep DEF Simulated, Fifo!Step

\* The two steps that change the queue leave what others push.
LEMMA EffectsKeepPushing ==
  ASSUME RInv, NEW t \in Threads, PushLink(t) \/ PopTake(t)
  PROVE  Pushing'
<1> USE DEF RInv, IInv
<1>1. \A m \in Nodes : mem'[m].item = mem[m].item
  <2>1. CASE PushLink(t)
    BY <2>1 DEF PushLink, TypeOK
  <2>2. CASE PopTake(t)
    BY <2>2 DEF PopTake
  <2> QED BY <2>1, <2>2
<1>2. \A u \in Threads :
        local[u].pc \in {"pushLock", "pushLink"} => local[u].node \in Nodes
  BY DEF NodesOwned, Holding, TypeOK
<1>3. \A u \in Threads \ {t} : local'[u] = local[u]
  BY DEF PushLink, PopTake, Goto, TypeOK
<1>4. local'[t].pc \in {"pushTail", "popUnlock"}
  <2>1. CASE PushLink(t)
    BY <2>1, GotoLocal DEF PushLink, Places
  <2>2. CASE PopTake(t)
    BY <2>2 DEF PopTake, TypeOK, Locals
  <2> QED BY <2>1, <2>2
<1> QED BY <1>1, <1>2, <1>3, <1>4 DEF Pushing

LEMMA NextSimulated ==
  ASSUME RInv, Next
  PROVE  Simulated /\ Pushing'
<1>1. ASSUME NEW t \in Threads, Push(t) PROVE Simulated /\ Pushing'
  <2>1. CASE PushLink(t)
    BY <2>1, LinkIsPush, EffectsKeepPushing DEF Simulated, Fifo!Step
  <2> QED BY <1>1, <2>1, NewIsInvoke, Silent, LeaveIsReturn DEF Push
<1>2. ASSUME NEW t \in Threads, Pop(t) PROVE Simulated /\ Pushing'
  <2>1. CASE PopTake(t)
    BY <2>1, TakeIsPop, EffectsKeepPushing DEF Simulated, Fifo!Step
  <2> QED BY <1>2, <2>1, CallIsInvoke, LoadIsPopEmpty, Silent, LeaveIsReturn DEF Pop
<1>3. ASSUME NEW t \in Threads, IsEmpty(t) PROVE Simulated /\ Pushing'
  BY <1>3, CallIsInvoke, LoadIsEmpty, Silent, LeaveIsReturn DEF IsEmpty
<1>4. CASE Delete
  <2>1. UNCHANGED <<local, chain, mem>>
    BY <1>4 DEF Delete, list
  <2>2. Contents' = Contents
    BY <2>1 DEF Contents
  <2>3. Calls' = Calls
    BY <2>1 DEF Calls, Calling
  <2> QED BY <2>1, <2>2, <2>3 DEF Simulated, Pushing, RInv
<1> QED BY <1>1, <1>2, <1>3, <1>4 DEF Next
-----------------------------------------------------------------------------
LEMMA InitRefines == Init => RInv /\ Fifo!Init
<1> SUFFICES ASSUME Init PROVE RInv /\ Fifo!Init
  OBVIOUS
<1>1. IInv
  BY InitIInv
<1>2. \A t \in Threads : local[t].pc = "idle"
  BY DEF Init, Idle
<1>3. Calls = [t \in Threads |-> Fifo!Idle]
  <2>1. \A t \in Threads : Calls[t] = Fifo!Idle
    BY <1>2, PhasesNow DEF Phases, Fifo!Idle
  <2>2. Calls = [t \in Threads |-> Calls[t]]
    BY DEF Calls
  <2> QED BY <2>1, <2>2
<1>4. Contents = <<>>
  <2>1. Len(chain) = 1
    BY DEF Init
  <2>2. Contents \in Seq(Items) /\ Len(Contents) = 0
    BY <1>1, <2>1, ContentsAre DEF IInv
  <2> QED BY <2>2, EmptySeq
<1>5. seen = [t \in Threads |-> {}]
  BY DEF Init
<1>6. Pushing
  BY <1>2 DEF Pushing
<1>7. SeenNow
  BY <1>3, <1>5 DEF SeenNow
<1> QED BY <1>1, <1>3, <1>4, <1>5, <1>6, <1>7 DEF RInv, Fifo!Init

LEMMA NextRefines == RInv /\ [Next]_vars => RInv' /\ [Fifo!Next]_(Fifo!vars)
<1> SUFFICES ASSUME RInv, [Next]_vars PROVE RInv' /\ [Fifo!Next]_(Fifo!vars)
  OBVIOUS
<1>1. IInv'
  BY NextIInv DEF RInv
<1>2. CASE Next
  <2>1. Fifo!Witness
    BY <1>2 DEF Next
  <2>2. Simulated /\ Pushing'
    BY <1>2, NextSimulated
  <2>3. RInv'
    BY <1>1, <2>1, <2>2, SeenNext DEF RInv
  <2>4. CASE \E t \in Threads : Fifo!Step(t)
    BY <2>1, <2>3, <2>4 DEF Fifo!Next
  <2>5. CASE Contents' = Contents /\ Calls' = Calls
    BY <2>1, <2>3, <2>5, SeenSame DEF RInv, IInv
  <2> QED BY <2>2, <2>4, <2>5 DEF Simulated
<1>3. CASE UNCHANGED vars
  <2>1. UNCHANGED <<local, chain, mem, seen>>
    BY <1>3 DEF vars, list
  <2>2. Contents' = Contents
    BY <2>1 DEF Contents
  <2>3. Calls' = Calls
    BY <2>1 DEF Calls, Calling
  <2>4. RInv'
    BY <1>1, <2>1, <2>2, <2>3 DEF RInv, Pushing, SeenNow
  <2> QED BY <2>1, <2>2, <2>3, <2>4 DEF Fifo!vars
<1> QED BY <1>2, <1>3

\* push, pop and is_empty of SimpleQueue are linearizable: every behaviour of the
\* linked list and its two mutexes is one of the indivisible queue.
THEOREM Refinement == Spec => Linearizable
<1>1. Spec => Fifo!Spec
  BY InitRefines, NextRefines, PTL DEF Spec, Fifo!Spec
<1> QED BY <1>1 DEF Linearizable
=============================================================================
