---------------------------- MODULE StorageSystem ----------------------------
(***************************************************************************)
(* The concurrent storage system of PW/projekt1 (StorageSystemImpl.java).  *)
(* Every caller of execute() is a thread that moves one component.  All    *)
(* maps and queues are touched only between mutexAcquire and mutexRelease, *)
(* so a critical section is one action; every semaphore operation outside  *)
(* it, and each of prepare() and perform(), is an action of its own.       *)
(* A Semaphore created for a hand-over is named by the only thread that    *)
(* ever acquires it: permits[t] for parentSem/parentSemaphore of t,        *)
(* queueLeft[t] for the semaphore of its FrozenTransfer.                   *)
(***************************************************************************)
EXTENDS Naturals, Sequences, FiniteSets, SequencesExt

CONSTANTS
  Threads,         \* the callers of execute()
  Components,      \* component identifiers
  Devices,         \* the keys of deviceTotalSlots
  Capacity,        \* deviceTotalSlots
  UnknownDevice,   \* a device identifier the system does not have
  NoThread,        \* a null semaphore reference
  NoComponent,
  NoDevice         \* a null device identifier

ASSUME StorageAssumption ==
  /\ IsFiniteSet(Threads) /\ IsFiniteSet(Components)
  /\ Capacity \in [Devices -> Nat \ {0}]
  /\ NoThread \notin Threads
  /\ NoComponent \notin Components
  /\ NoDevice \notin Devices
  /\ UnknownDevice \notin Devices \cup {NoDevice}

VARIABLES
  pc,          \* pc[t]: where thread t stands in execute()
  req,         \* req[t]: the transfer it executes
  path,        \* path[t]: the branch of execute() it runs
  child,       \* child[t]: the semaphore t releases after prepare()
  wtChild,     \* wtChild[t]: childSemaphore of the WorkingTransfer of t
  polled,      \* polled[t]: the FrozenTransfer freeSlot took from the queue
  queueLeft,   \* queueLeft[t], permits[t]: permits of the semaphores of t
  permits,
  freeSlots,
  isBusy,
  componentPlacement,
  waitingTransfers,
  workingTransfers

shared  == <<freeSlots, isBusy, componentPlacement, waitingTransfers,
             workingTransfers>>
handles == <<child, wtChild, polled>>
sems    == <<queueLeft, permits>>
vars    == <<pc, req, path, handles, sems, shared>>

Places   == Devices \cup {NoDevice}
Requests == [comp : Components, src : Places \cup {UnknownDevice},
             dst : Places \cup {UnknownDevice}]
NoReq    == [comp |-> NoComponent, src |-> NoDevice, dst |-> NoDevice]

Running(t)  == pc[t] \notin {"idle", "threw"}
Placed(d)   == {c \in Components : componentPlacement[c] = d}
InQueue(t)  == \E d \in Devices : t \in Range(waitingTransfers[d])
Waiters     == {t \in Threads : InQueue(t)}

(***************************************************************************)
(* Queue searches.  wakeChain and wakeCycle are recursive in the code; here *)
(* each is the list of FrozenTransfers it wakes, in the order in which the *)
(* slots are handed over.  Waiting transfers never form a cycle            *)
(* (NoNeedlessWait), so a search polls no queue twice: a list names each   *)
(* destination once.  Module WakeSearch compares both searches with the    *)
(* recursive procedures.                                                   *)
(***************************************************************************)
WaiterLists ==
  UNION {{s \in [1..n -> Waiters] :
            \A i, j \in 1..n : req[s[i]].dst = req[s[j]].dst => i = j} :
         n \in 0..Cardinality(Waiters)}

\* The device whose queue the i-th call of the search polls.
Polled(start, s, i) == IF i = 1 THEN start ELSE req[s[i - 1]].src

\* s is what wakeChain(start) wakes: it polls the head of a queue, moves on to
\* the source of what it polled, and stops at null or at an empty queue.
IsWakeChain(start, s) ==
  /\ \A i \in 1..Len(s) :
       LET d == Polled(start, s, i)
       IN  d # NoDevice /\ waitingTransfers[d] # <<>>
                        /\ s[i] = Head(waitingTransfers[d])
  /\ LET d == Polled(start, s, Len(s) + 1)
     IN  d # NoDevice => waitingTransfers[d] = <<>>

\* s is a chain of waiting transfers that leads from the queue of start to a
\* transfer that leaves target.
IsCycle(start, target, s) ==
  /\ s # <<>>
  /\ \A i \in 1..Len(s) :
       LET d == Polled(start, s, i)
       IN  d # NoDevice /\ s[i] \in Range(waitingTransfers[d])
  /\ \A i \in 1..Len(s) : req[s[i]].src = target <=> i = Len(s)

\* At the first difference, p takes the transfer that stands earlier in the queue.
Earlier(start, p, q) ==
  \E i \in 1..Len(p) :
    /\ i <= Len(q)
    /\ \A j \in 1..(i - 1) : p[j] = q[j]
    /\ \E k, m \in 1..Len(waitingTransfers[Polled(start, p, i)]) :
         /\ k < m
         /\ waitingTransfers[Polled(start, p, i)][k] = p[i]
         /\ waitingTransfers[Polled(start, p, i)][m] = q[i]

\* Fault: the search does not recurse, it sees cycles of two transfers only.
CyclesOfTwo(start, target) ==
  {s \in WaiterLists : IsCycle(start, target, s) /\ Len(s) = 1}

Cycles(start, target) == {s \in WaiterLists : IsCycle(start, target, s)}

\* s is the cycle the depth-first search of wakeCycle meets first.
IsWakeCycle(start, target, s) ==
  /\ s \in Cycles(start, target)
  /\ \A q \in Cycles(start, target) : ~Earlier(start, q, s)

\* The semaphore the member t of the woken list s releases: the one of the
\* next member, and last at the end.
NextInList(s, t, last) ==
  LET i == CHOOSE k \in 1..Len(s) : s[k] = t
  IN  IF i < Len(s) THEN s[i + 1] ELSE last

\* Fault: the entry is used but never removed from its queue.
WithoutForgotten(queue, S) == queue

\* queue.remove(e), for the only member e of the queue that is in S.
Without(queue, S) ==
  IF \E k \in 1..Len(queue) : queue[k] \in S
    THEN RemoveAt(queue, CHOOSE k \in 1..Len(queue) : queue[k] \in S)
    ELSE queue

\* Thread t wakes the waiting transfers of s: they leave their queues, get a
\* parent, a child, and a permit on queueLeft.
Wake(t, s, last, newPath) ==
  /\ child' = [u \in Threads |->
                 IF u = t THEN IF s = <<>> THEN NoThread ELSE s[1]
                 ELSE IF u \in Range(s) THEN NextInList(s, u, last)
                 ELSE child[u]]
  /\ path' = [u \in Threads |->
                 IF u = t THEN newPath
                 ELSE IF u \in Range(s) THEN "chained" ELSE path[u]]
  /\ queueLeft' = [u \in Threads |->
                 IF u \in Range(s) THEN queueLeft[u] + 1 ELSE queueLeft[u]]
  /\ waitingTransfers' =
       [d \in Devices |-> Without(waitingTransfers[d], Range(s))]

(***************************************************************************)
(* The system                                                              *)
(***************************************************************************)
Init ==
  /\ pc = [t \in Threads |-> "idle"]
  /\ req = [t \in Threads |-> NoReq]
  /\ path = [t \in Threads |-> "none"]
  /\ child = [t \in Threads |-> NoThread]
  /\ wtChild = [t \in Threads |-> NoThread]
  /\ polled = [t \in Threads |-> NoThread]
  /\ queueLeft = [t \in Threads |-> 0]
  /\ permits = [t \in Threads |-> 0]
  /\ isBusy = [c \in Components |-> FALSE]
  /\ componentPlacement \in [Components -> Places]
  /\ \A d \in Devices : Cardinality(Placed(d)) <= Capacity[d]
  /\ freeSlots = [d \in Devices |-> Capacity[d] - Cardinality(Placed(d))]
  /\ waitingTransfers = [d \in Devices |-> <<>>]
  /\ workingTransfers = [d \in Devices |-> <<>>]

\* Fault: the busy flag of the component is not looked at.
VerdictNotBusy(r) ==
  IF r.src = r.dst \/ UnknownDevice \in {r.src, r.dst}
     \/ componentPlacement[r.comp] # r.src
  THEN "refused" ELSE "ok"

\* The checks of execute(), in their order; "ok" when the transfer is admitted.
Verdict(r) ==
  LET current == componentPlacement[r.comp] IN
  IF r.src = NoDevice /\ r.dst = NoDevice   THEN "IllegalTransferType"
  ELSE IF UnknownDevice \in {r.src, r.dst}  THEN "DeviceDoesNotExist"
  ELSE IF r.src = NoDevice /\ current # NoDevice THEN "ComponentAlreadyExists"
  ELSE IF current # r.src                   THEN "ComponentDoesNotExist"
  ELSE IF r.src = r.dst                     THEN "ComponentDoesNotNeedTransfer"
  ELSE IF isBusy[r.comp]                    THEN "ComponentIsBeingOperatedOn"
  ELSE "ok"

\* execute() throws; the caller gets the exception and may call again.
Throw(t) ==
  /\ pc[t] = "idle"
  /\ \E r \in Requests : Verdict(r) # "ok"
  /\ pc' = [pc EXCEPT ![t] = "threw"]
  /\ UNCHANGED <<req, path, handles, sems, shared>>

Catch(t) ==
  /\ pc[t] = "threw"
  /\ pc' = [pc EXCEPT ![t] = "idle"]
  /\ UNCHANGED <<req, path, handles, sems, shared>>

\* The part of execute() every admitted transfer runs.
Admit(t, r) ==
  /\ pc[t] = "idle"
  /\ Verdict(r) = "ok"
  /\ req' = [req EXCEPT ![t] = r]
  /\ isBusy' = [isBusy EXCEPT ![r.comp] = TRUE]
  /\ UNCHANGED <<polled, permits, componentPlacement>>

MustWait(r) == r.dst # NoDevice /\ freeSlots[r.dst] = 0

\* The critical section of noDepend: either a chain of waiting transfers takes
\* over the slot of t, or the slot is offered in workingTransfers.
NoDepend(t, r) ==
  /\ \E s \in WaiterLists :
       /\ IsWakeChain(r.src, s)
       /\ Wake(t, s, NoThread, "noDepend")
       /\ workingTransfers' =
            IF s = <<>> /\ r.src # NoDevice
              THEN [workingTransfers EXCEPT ![r.src] = Append(@, t)]
              ELSE workingTransfers
  /\ pc' = [pc EXCEPT ![t] = "prepare"]

ExecuteNoDepend(t) ==
  \E r \in Requests :
    /\ Admit(t, r)
    /\ ~MustWait(r)
    /\ NoDepend(t, r)
    /\ UNCHANGED wtChild
    /\ freeSlots' = IF r.dst = NoDevice THEN freeSlots
                    ELSE [freeSlots EXCEPT ![r.dst] = @ - 1]

\* hasDepend: a transfer out of dst is being prepared and its slot is unclaimed.
ExecuteReserve(t) ==
  \E r \in Requests :
    /\ Admit(t, r)
    /\ MustWait(r)
    /\ r.src # NoDevice
    /\ workingTransfers[r.dst] # <<>>
    /\ wtChild' = [wtChild EXCEPT ![Head(workingTransfers[r.dst])] = t]
    /\ workingTransfers' = [workingTransfers EXCEPT
                              ![r.dst] = Tail(@), ![r.src] = Append(@, t)]
    /\ path' = [path EXCEPT ![t] = "reserved"]
    /\ pc' = [pc EXCEPT ![t] = "prepare"]
    /\ UNCHANGED <<child, queueLeft, freeSlots, waitingTransfers>>

\* hasDepend: the transfer closes a cycle of waiting transfers.
ExecuteCycle(t) ==
  \E r \in Requests :
    /\ Admit(t, r)
    /\ MustWait(r)
    /\ r.src # NoDevice
    /\ workingTransfers[r.dst] = <<>>
    /\ \E s \in WaiterLists :
         /\ IsWakeCycle(r.src, r.dst, s)
         /\ Wake(t, s, t, "cycle")
    /\ pc' = [pc EXCEPT ![t] = "prepare"]
    /\ UNCHANGED <<wtChild, freeSlots, workingTransfers>>

\* hasDepend: nothing to join, the transfer waits in the queue of dst.
ExecuteEnqueue(t) ==
  \E r \in Requests :
    /\ Admit(t, r)
    /\ MustWait(r)
    /\ r.src # NoDevice => /\ workingTransfers[r.dst] = <<>>
                           /\ Cycles(r.src, r.dst) = {}
    /\ waitingTransfers' = [waitingTransfers EXCEPT ![r.dst] = Append(@, t)]
    /\ path' = [path EXCEPT ![t] = "waiting"]
    /\ pc' = [pc EXCEPT ![t] = "queued"]
    /\ UNCHANGED <<child, wtChild, queueLeft, freeSlots, workingTransfers>>

\* waitInQueue returns.
LeaveQueue(t) ==
  /\ pc[t] = "queued"
  /\ queueLeft[t] > 0
  /\ queueLeft' = [queueLeft EXCEPT ![t] = @ - 1]
  /\ pc' = [pc EXCEPT ![t] = "woken"]
  /\ UNCHANGED <<req, path, handles, permits, shared>>

\* onFrozenWake without a parent: freeSlot left a slot of dst to t.
WokenAlone(t) ==
  /\ pc[t] = "woken"
  /\ path[t] = "waiting"
  /\ NoDepend(t, req[t])
  /\ UNCHANGED <<req, wtChild, polled, permits, freeSlots, isBusy,
                 componentPlacement>>

\* Fault: the slot is offered although a child of the chain takes it over.
WokenByParentTwice(t) ==
  /\ pc[t] = "woken"
  /\ path[t] = "chained"
  /\ workingTransfers' =
       IF req[t].src # NoDevice
         THEN [workingTransfers EXCEPT ![req[t].src] = Append(@, t)]
         ELSE workingTransfers
  /\ pc' = [pc EXCEPT ![t] = "prepare"]
  /\ UNCHANGED <<req, path, handles, sems, freeSlots, isBusy,
                 componentPlacement, waitingTransfers>>

\* onFrozenWake with a parent: t offers its own slot unless it has a child.
WokenByParent(t) ==
  /\ pc[t] = "woken"
  /\ path[t] = "chained"
  /\ workingTransfers' =
       IF req[t].src # NoDevice /\ child[t] = NoThread
         THEN [workingTransfers EXCEPT ![req[t].src] = Append(@, t)]
         ELSE workingTransfers
  /\ pc' = [pc EXCEPT ![t] = "prepare"]
  /\ UNCHANGED <<req, path, handles, sems, freeSlots, isBusy,
                 componentPlacement, waitingTransfers>>

\* prepare() returns.  Only a transfer that reserved its slot waits for the
\* parent before it gives up its own slot.
Prepare(t) ==
  /\ pc[t] = "prepare"
  /\ pc' = [pc EXCEPT ![t] = IF path[t] = "reserved" THEN "await" ELSE "vacate"]
  /\ UNCHANGED <<req, path, handles, sems, shared>>

\* Fault: the transfer that closes a cycle does not wait for its parent.
AfterVacateNoCycle(t) == IF path[t] = "chained" THEN "await" ELSE "perform"

AfterVacate(t) == IF path[t] \in {"chained", "cycle"} THEN "await" ELSE "perform"

\* The child chosen under the mutex may perform: its semaphore is released.
ReleaseChild(t) ==
  /\ pc[t] = "vacate"
  /\ child[t] # NoThread
  /\ permits' = [permits EXCEPT ![child[t]] = @ + 1]
  /\ pc' = [pc EXCEPT ![t] = AfterVacate(t)]
  /\ UNCHANGED <<req, path, handles, queueLeft, shared>>

\* freeSlot: the slot goes to the transfer that reserved it, to the first
\* waiting transfer, or back to freeSlots; the semaphores are released only
\* after the mutex.
FreeSlot(t) ==
  /\ pc[t] = "vacate"
  /\ child[t] = NoThread
  /\ LET d == req[t].src IN
     \/ /\ d = NoDevice
        /\ pc' = [pc EXCEPT ![t] = AfterVacate(t)]
        /\ UNCHANGED <<polled, freeSlots, waitingTransfers, workingTransfers>>
     \/ /\ d # NoDevice
        /\ workingTransfers' = [workingTransfers EXCEPT ![d] = Without(@, {t})]
        /\ \/ /\ wtChild[t] # NoThread
              /\ pc' = [pc EXCEPT ![t] = "signalChild"]
              /\ UNCHANGED <<polled, freeSlots, waitingTransfers>>
           \/ /\ wtChild[t] = NoThread
              /\ waitingTransfers[d] = <<>>
              /\ freeSlots' = [freeSlots EXCEPT ![d] = @ + 1]
              /\ pc' = [pc EXCEPT ![t] = AfterVacate(t)]
              /\ UNCHANGED <<polled, waitingTransfers>>
           \/ /\ wtChild[t] = NoThread
              /\ waitingTransfers[d] # <<>>
              /\ waitingTransfers' = [waitingTransfers EXCEPT ![d] = Tail(@)]
              /\ polled' = [polled EXCEPT ![t] = Head(waitingTransfers[d])]
              /\ pc' = [pc EXCEPT ![t] = "signalQueue"]
              /\ UNCHANGED freeSlots
  /\ UNCHANGED <<req, path, child, wtChild, sems, isBusy, componentPlacement>>

\* wt.childSemaphore.release() at the end of freeSlot.
SignalChild(t) ==
  /\ pc[t] = "signalChild"
  /\ permits' = [permits EXCEPT ![wtChild[t]] = @ + 1]
  /\ pc' = [pc EXCEPT ![t] = AfterVacate(t)]
  /\ UNCHANGED <<req, path, handles, queueLeft, shared>>

\* Fault: the polled transfer is never signalled.
SignalQueueLost(t) ==
  /\ pc[t] = "signalQueue"
  /\ pc' = [pc EXCEPT ![t] = AfterVacate(t)]
  /\ UNCHANGED <<req, path, handles, sems, shared>>

\* ft.queueLeft.release() at the end of freeSlot.
SignalQueue(t) ==
  /\ pc[t] = "signalQueue"
  /\ queueLeft' = [queueLeft EXCEPT ![polled[t]] = @ + 1]
  /\ pc' = [pc EXCEPT ![t] = AfterVacate(t)]
  /\ UNCHANGED <<req, path, handles, permits, shared>>

\* Fault: the wait for the parent returns at once.
AwaitNothing(t) ==
  /\ pc[t] = "await"
  /\ pc' = [pc EXCEPT ![t] = IF path[t] = "reserved" THEN "vacate" ELSE "perform"]
  /\ UNCHANGED <<req, path, handles, sems, shared>>

\* The wait for the parent (waitForParent, waitForPerform, parentSem.acquire).
Await(t) ==
  /\ pc[t] = "await"
  /\ permits[t] > 0
  /\ permits' = [permits EXCEPT ![t] = @ - 1]
  /\ pc' = [pc EXCEPT ![t] = IF path[t] = "reserved" THEN "vacate" ELSE "perform"]
  /\ UNCHANGED <<req, path, handles, queueLeft, shared>>

\* perform() returns.
Perform(t) ==
  /\ pc[t] = "perform"
  /\ pc' = [pc EXCEPT ![t] = "complete"]
  /\ UNCHANGED <<req, path, handles, sems, shared>>

\* transferCompleted; the objects the call allocated are garbage afterwards.
TransferCompleted(t) ==
  /\ pc[t] = "complete"
  /\ componentPlacement' = [componentPlacement EXCEPT ![req[t].comp] = req[t].dst]
  /\ isBusy' = [isBusy EXCEPT ![req[t].comp] = FALSE]
  /\ pc' = [pc EXCEPT ![t] = "idle"]
  /\ req' = [req EXCEPT ![t] = NoReq]
  /\ path' = [path EXCEPT ![t] = "none"]
  /\ child' = [child EXCEPT ![t] = NoThread]
  /\ wtChild' = [wtChild EXCEPT ![t] = NoThread]
  /\ polled' = [polled EXCEPT ![t] = NoThread]
  /\ queueLeft' = [queueLeft EXCEPT ![t] = 0]
  /\ permits' = [permits EXCEPT ![t] = 0]
  /\ UNCHANGED <<freeSlots, waitingTransfers, workingTransfers>>

Execute(t) == \/ Throw(t) \/ ExecuteNoDepend(t) \/ ExecuteReserve(t)
              \/ ExecuteCycle(t) \/ ExecuteEnqueue(t)

Continue(t) == \/ Catch(t) \/ LeaveQueue(t) \/ WokenAlone(t) \/ WokenByParent(t)
               \/ Prepare(t) \/ ReleaseChild(t) \/ FreeSlot(t) \/ SignalChild(t)
               \/ SignalQueue(t) \/ Await(t) \/ Perform(t) \/ TransferCompleted(t)

Next == \E t \in Threads : Execute(t) \/ Continue(t)

Spec == Init /\ [][Next]_vars

\* t stands at a mutexAcquire in the middle of its call.
AtMutex(t) ==
  \/ pc[t] = "woken"  /\ (path[t] = "waiting"
                          \/ (child[t] = NoThread /\ req[t].src # NoDevice))
  \/ pc[t] = "vacate" /\ path[t] # "cycle"
                      /\ ~(path[t] = "noDepend" /\ child[t] # NoThread)
  \/ pc[t] = "complete"

\* The mutex is new Semaphore(1), which is not fair.  When threads stand at it for
\* ever, somebody acquires it again and again, but that may always be another one
\* of them, or a caller that came later.
SomebodyEnters ==
  <>[](\E t \in Threads : AtMutex(t))
    => []<><<\E t \in Threads : (AtMutex(t) \/ pc[t] = "idle") /\ pc'[t] # pc[t]>>_vars

\* Outside the mutex a call that has started goes on: prepare() and perform()
\* return, and a semaphore released for a hand-over is acquired by the only thread
\* that ever waits for it.
Fairness == /\ SomebodyEnters
            /\ \A t \in Threads : WF_vars(~AtMutex(t) /\ Continue(t))

FairSpec == Spec /\ Fairness
-----------------------------------------------------------------------------
(***************************************************************************)
(* Properties                                                              *)
(***************************************************************************)
Performing(t) == pc[t] \in {"perform", "complete"}
Prepared(t)   == pc[t] \in {"vacate", "signalChild", "signalQueue", "await"}
                 \/ Performing(t)

Ids == Threads \cup {NoThread}

\* Every variable of the storage system has the type its Java field has.
TypeOK ==
  /\ pc \in [Threads ->
               {"idle", "threw", "queued", "woken", "prepare", "vacate", "signalChild",
                "signalQueue", "await", "perform", "complete"}]
  /\ req \in [Threads -> [comp : Components \cup {NoComponent},
                          src : Places, dst : Places]]
  /\ path \in [Threads -> {"none", "noDepend", "reserved", "cycle",
                           "waiting", "chained"}]
  /\ child \in [Threads -> Ids]
  /\ wtChild \in [Threads -> Ids]
  /\ polled \in [Threads -> Ids]
  /\ queueLeft \in [Threads -> Nat]
  /\ permits \in [Threads -> Nat]
  /\ freeSlots \in [Devices -> Nat]
  /\ isBusy \in [Components -> BOOLEAN]
  /\ componentPlacement \in [Components -> Places]
  /\ waitingTransfers \in [Devices -> Seq(Threads)]
  /\ workingTransfers \in [Devices -> Seq(Threads)]

\* Two callers never move the same component, and isBusy says exactly which
\* components are being moved (execute(), lines 80-85, and transferCompleted).
ExclusiveComponent ==
  /\ \A t, u \in Threads :
       Running(t) /\ Running(u) /\ req[t].comp = req[u].comp => t = u
  /\ \A c \in Components :
       isBusy[c] <=> \E t \in Threads : Running(t) /\ req[t].comp = c

\* The thread to which t hands its slot of the source device over.
Heirs(t) == {child[t], wtChild[t]} \ {NoThread}

\* perform() into a slot that another transfer hands over starts only after the
\* prepare() of that transfer has ended, whichever branch of execute() made the
\* pair (wakeChain, wakeCycle or a reserved WorkingTransfer).
HandOver ==
  \A t \in Threads : \A u \in Heirs(t) : Performing(u) => Prepared(t)

\* The inductive strengthening of HandOver and ExclusiveComponent.
NotStarted(t) == pc[t] \in {"idle", "threw", "queued", "woken"}

\* t still has to release the semaphore of its heir.
Owes(t) == \/ pc[t] \in {"queued", "woken", "prepare", "vacate", "signalChild"}
           \/ pc[t] = "await" /\ path[t] = "reserved"

\* t has not passed the wait for its parent.
BeforeAwait(t) ==
  \/ pc[t] \in {"queued", "woken", "prepare", "await"}
  \/ pc[t] \in {"vacate", "signalChild", "signalQueue"} /\ path[t] # "reserved"

StepInv ==
  \A t \in Threads :
    /\ pc[t] \in {"queued", "woken"} => path[t] \in {"waiting", "chained"}
    /\ path[t] = "waiting" => pc[t] \in {"queued", "woken"}
    /\ path[t] = "none" <=> ~Running(t)
    /\ pc[t] = "await" => path[t] \in {"reserved", "cycle", "chained"}
    /\ NotStarted(t) => wtChild[t] = NoThread
    /\ pc[t] = "signalChild" => wtChild[t] # NoThread
    /\ Running(t) <=> req[t].comp \in Components
    /\ ~Running(t) => permits[t] = 0 /\ queueLeft[t] = 0
                         /\ child[t] = NoThread
    /\ Running(t) => req[t].src # req[t].dst

HeirInv ==
  \A t \in Threads : \A u \in Heirs(t) :
    Owes(t) => /\ path[u] \in {"reserved", "cycle", "chained"}
               /\ BeforeAwait(u)
               /\ permits[u] = 0

OneParent ==
  \A t, p \in Threads : \A u \in Heirs(t) :
    Owes(t) /\ Owes(p) /\ u \in Heirs(p) => t = p

WaitingInv ==
  \A d \in Devices :
    /\ \A i, j \in 1..Len(waitingTransfers[d]) :
         waitingTransfers[d][i] = waitingTransfers[d][j] => i = j
    /\ \A u \in Range(waitingTransfers[d]) :
         /\ pc[u] = "queued" /\ path[u] = "waiting" /\ req[u].dst = d
         /\ permits[u] = 0 /\ queueLeft[u] = 0

\* A transfer that freeSlot has polled is out of every queue, waits for exactly
\* one release of its queueLeft, and nobody else has polled it.
PolledInv ==
  \A t, p \in Threads :
    pc[t] = "signalQueue" =>
      /\ polled[t] \in Threads
      /\ pc[polled[t]] = "queued" /\ path[polled[t]] = "waiting"
      /\ queueLeft[polled[t]] = 0 /\ ~InQueue(polled[t])
      /\ pc[p] = "signalQueue" /\ polled[p] = polled[t] => p = t

WorkingInv ==
  \A d \in Devices :
    /\ \A i, j \in 1..Len(workingTransfers[d]) :
         workingTransfers[d][i] = workingTransfers[d][j] => i = j
    /\ \A u \in Range(workingTransfers[d]) :
         /\ ~NotStarted(u) /\ Owes(u) /\ pc[u] # "signalChild"
         /\ child[u] = NoThread /\ wtChild[u] = NoThread /\ req[u].src = d

\* The inductive invariant: every queue entry is a waiting caller, every entry of
\* workingTransfers an unclaimed slot of a transfer still to release it, and each
\* heir has one parent, which owes it exactly one release (lines 99-271).
Inv == /\ TypeOK /\ ExclusiveComponent
       /\ StepInv /\ HeirInv /\ OneParent /\ WaitingInv /\ PolledInv /\ WorkingInv

\* The device on which c physically stands: it leaves the source when prepare()
\* ends and reaches the destination when perform() starts.
PhysicalPlace(c) ==
  IF \E t \in Threads : req[t].comp = c /\ Prepared(t)
    THEN LET t == CHOOSE u \in Threads : req[u].comp = c /\ Prepared(u)
         IN  IF Performing(t) THEN req[t].dst ELSE NoDevice
    ELSE componentPlacement[c]

\* No device ever holds more components than it has slots, at no moment between
\* the prepare() and perform() calls of any number of concurrent transfers.
PhysicalCapacity ==
  \A d \in Devices :
    Cardinality({c \in Components : PhysicalPlace(c) = d}) <= Capacity[d]

\* t has given up its slot of the source, or promised it to its heir.
HandedOn(t) ==
  \/ Heirs(t) # {}
  \/ pc[t] \in {"signalChild", "signalQueue"} \/ Performing(t)
  \/ pc[t] = "await" /\ path[t] # "reserved"

SourceHeld(d) == {c \in Placed(d) :
                    ~\E t \in Threads : req[t].comp = c /\ HandedOn(t)}
TargetHeld(d) == {t \in Threads : Running(t) /\ req[t].dst = d /\ ~InQueue(t)}

\* No slot is lost and none is given away twice: on every device the free slots,
\* the slots held by components that stay or still leave, and the slots assigned
\* to transfers that come in add up to the capacity.
SlotAccounting ==
  \A d \in Devices :
    freeSlots[d] + Cardinality(SourceHeld(d)) + Cardinality(TargetHeld(d))
      = Capacity[d]

\* A transfer never waits in the queue of a device that has a free slot (lost
\* wake-up between freeSlot and hasDepend), and waiting transfers never include a
\* group in which each waits for the slot of another: they could all move at once
\* (a cycle missed by wakeCycle, or closed behind its back).
NoNeedlessWait ==
  /\ \A t \in Waiters : freeSlots[req[t].dst] = 0
  /\ ~\E group \in SUBSET Waiters :
        /\ group # {}
        /\ \A t \in group : \E u \in group : req[u].src = req[t].dst

NoNewCall == \A t \in Threads : pc[t] = "idle" => pc'[t] = "idle"

\* Once the callers make no new calls, every transfer that has got its slot runs to
\* completion: however chains, cycles and reservations are strung together, no two
\* transfers wait for each other's semaphore and no permit is lost.  (While calls go
\* on coming, a thread may be overtaken at the mutex without end.)
ServedCompletes ==
  <>[][NoNewCall]_vars
    => \A t \in Threads : (Running(t) /\ ~InQueue(t)) ~> pc[t] = "idle"

Phase(t) == CASE ~Running(t) -> "idle"
              [] Running(t) /\ ~Prepared(t) -> "requested"
              [] Prepared(t) /\ ~Performing(t) -> "prepared"
              [] Performing(t) -> "performing"

Promise == INSTANCE StorageSpec WITH
  phase <- [t \in Threads |-> Phase(t)],
  job   <- req,
  at    <- [c \in Components |-> PhysicalPlace(c)]

\* Every execution of the queues and semaphores is an execution of the simple
\* storage system of StorageSpec.
KeepsPromise == Promise!Spec
=============================================================================
