------------------------- MODULE StorageSlotsProofs -------------------------
(***************************************************************************)
(* Proofs about the slots of StorageSystem, for every set of callers,      *)
(* components and devices and all capacities: no slot is lost or given     *)
(* twice (SlotAccounting), no device ever holds more components than it    *)
(* has slots (PhysicalCapacity), nobody waits who could move               *)
(* (NoNeedlessWait), and StorageSystem implements StorageSpec.             *)
(***************************************************************************)
EXTENDS StorageSystemProofs

-----------------------------------------------------------------------------
(* What the accounting rests on, beside Inv *)

\* The component that t moves is on record in the source until the call ends.
PlacedInv ==
  \A t \in Threads : Running(t) => componentPlacement[req[t].comp] = req[t].src

\* A transfer that waits for a slot has promised its own one to nobody.
AloneInv == \A t \in Threads : path[t] = "waiting" => child[t] = NoThread

\* The heir of t comes to the device t leaves, and it no longer waits for a slot.
HeirPlace ==
  \A t \in Threads : \A u \in Heirs(t) :
    Owes(t) => req[u].dst = req[t].src /\ Running(u) /\ ~InQueue(u)

\* Nobody waits for a device with a free slot.
QueueFull ==
  \A d \in Devices : waitingTransfers[d] # <<>> => freeSlots[d] = 0

SlotsInv == Inv /\ PlacedInv /\ AloneInv /\ HeirPlace /\ QueueFull /\ SlotAccounting

-----------------------------------------------------------------------------
(* Counting *)

\* t has been given a slot of d.
Comes(t, d) == Running(t) /\ req[t].dst = d /\ ~InQueue(t)

LEMMA SlotSetsFinite ==
  ASSUME NEW d \in Devices
  PROVE  /\ IsFiniteSet(SourceHeld(d)) /\ Cardinality(SourceHeld(d)) \in Nat
         /\ IsFiniteSet(TargetHeld(d)) /\ Cardinality(TargetHeld(d)) \in Nat
<1>1. SourceHeld(d) \in SUBSET Components /\ TargetHeld(d) \in SUBSET Threads
  BY DEF SourceHeld, Placed, TargetHeld
<1>2. IsFiniteSet(SourceHeld(d)) /\ IsFiniteSet(TargetHeld(d))
  BY <1>1, FS_Subset, StorageAssumption
<1> QED BY <1>2, FS_CardinalityType

\* In this step p gives up, or promises, its slot of d.
Leaves(p, d) == HandedOn(p)' /\ ~HandedOn(p) /\ req'[p].src = d

\* No transfer ends in this step.
Onward ==
  /\ UNCHANGED componentPlacement
  /\ \A t \in Threads :
       /\ HandedOn(t) => HandedOn(t)' /\ req'[t].comp = req[t].comp
       /\ \A d \in Devices : Comes(t, d) => Comes(t, d)'

\* The slots of d that those leaving hold: as before, or one less.
LEMMA SourceStep ==
  ASSUME Inv, Inv', PlacedInv', Onward, NEW d \in Devices
  PROVE  /\ (\A t \in Threads : ~Leaves(t, d)) => SourceHeld(d)' = SourceHeld(d)
         /\ \A p \in Threads :
              Leaves(p, d) /\ (\A t \in Threads : Leaves(t, d) => t = p)
                => Cardinality(SourceHeld(d))' = Cardinality(SourceHeld(d)) - 1
<1>0. \A t \in Threads : HandedOn(t)' => Running(t)'
  BY DEF Inv, StepInv, HandedOn, Running, Heirs, NotStarted, Performing
<1>1. ASSUME NEW c \in Components
      PROVE  c \in SourceHeld(d)' <=>
               /\ c \in SourceHeld(d)
               /\ ~\E t \in Threads : req'[t].comp = c /\ Leaves(t, d)
  <2>1. Placed(d)' = Placed(d)
    BY DEF Onward, Placed
  <2>2. ASSUME NEW t \in Threads, HandedOn(t)', ~HandedOn(t), req'[t].comp = c,
               c \in Placed(d)
        PROVE  Leaves(t, d)
    <3>1. Running(t)'
      BY <1>0, <2>2
    <3>2. componentPlacement'[c] = req'[t].src
      BY <2>2, <3>1 DEF PlacedInv
    <3> QED BY <2>1, <2>2, <3>2 DEF Leaves, Placed
  <2> QED BY <2>1, <2>2 DEF SourceHeld, Onward, Leaves
<1>2. SourceHeld(d) \subseteq Components /\ SourceHeld(d)' \subseteq Components
  BY DEF SourceHeld, Placed
<1>3. ASSUME \A t \in Threads : ~Leaves(t, d)
      PROVE  SourceHeld(d)' = SourceHeld(d)
  BY <1>1, <1>2, <1>3
<1>4. ASSUME NEW p \in Threads, Leaves(p, d),
             \A t \in Threads : Leaves(t, d) => t = p
      PROVE  Cardinality(SourceHeld(d))' = Cardinality(SourceHeld(d)) - 1
  <2> DEFINE c == req'[p].comp
  <2>1. Running(p)' /\ c \in Components /\ componentPlacement'[c] = d
    <3>1. HandedOn(p)' /\ req'[p].src = d
      BY <1>4 DEF Leaves
    <3>2. Running(p)'
      BY <1>0, <3>1
    <3> QED BY <3>1, <3>2 DEF PlacedInv, Inv, StepInv
  <2>2. c \in SourceHeld(d)
    <3>1. ASSUME NEW t \in Threads, req[t].comp = c, HandedOn(t)
          PROVE  FALSE
      <4>1. HandedOn(t)' /\ req'[t].comp = c
        BY <3>1 DEF Onward
      <4>2. Running(t)'
        BY <1>0, <4>1
      <4>3. t = p
        BY <2>1, <4>1, <4>2 DEF Inv, ExclusiveComponent
      <4> QED BY <1>4, <3>1, <4>3 DEF Leaves
    <3> QED BY <2>1, <3>1 DEF SourceHeld, Placed, Onward
  <2>3. SourceHeld(d)' = SourceHeld(d) \ {c}
    BY <1>1, <1>2, <1>4, <2>1
  <2> HIDE DEF c
  <2> QED BY <2>2, <2>3, SlotSetsFinite, FS_RemoveElement
<1> QED BY <1>3, <1>4

\* The slots of d that those coming hold: as before, or one more.
LEMMA TargetStep ==
  ASSUME Onward, NEW d \in Devices
  PROVE  /\ (\A t \in Threads : Comes(t, d)' => Comes(t, d))
              => TargetHeld(d)' = TargetHeld(d)
         /\ \A q \in Threads :
              Comes(q, d)' /\ ~Comes(q, d)
              /\ (\A t \in Threads : Comes(t, d)' => Comes(t, d) \/ t = q)
                => Cardinality(TargetHeld(d))' = Cardinality(TargetHeld(d)) + 1
<1>1. /\ TargetHeld(d) = {t \in Threads : Comes(t, d)}
      /\ TargetHeld(d)' = {t \in Threads : Comes(t, d)'}
      /\ \A t \in Threads : Comes(t, d) => Comes(t, d)'
  BY DEF TargetHeld, Comes, Onward
<1>2. ASSUME NEW q \in Threads, Comes(q, d)', ~Comes(q, d),
             \A t \in Threads : Comes(t, d)' => Comes(t, d) \/ t = q
      PROVE  Cardinality(TargetHeld(d))' = Cardinality(TargetHeld(d)) + 1
  <2>1. TargetHeld(d)' = TargetHeld(d) \cup {q} /\ q \notin TargetHeld(d)
    BY <1>1, <1>2
  <2> QED BY <2>1, SlotSetsFinite, FS_AddElement
<1> QED BY <1>1, <1>2

NobodyLeaves(d) == \A t \in Threads : ~Leaves(t, d)
NobodyCame(d)   == \A t \in Threads : Comes(t, d)' => Comes(t, d)
OnlyLeaves(p, d) == Leaves(p, d) /\ \A t \in Threads : Leaves(t, d) => t = p
OnlyCame(q, d) ==
  /\ Comes(q, d)' /\ ~Comes(q, d)
  /\ \A t \in Threads : Comes(t, d)' => Comes(t, d) \/ t = q

\* What may happen to the slots of one device in one step.
Kept(d)  == freeSlots'[d] = freeSlots[d] /\ NobodyLeaves(d) /\ NobodyCame(d)
Passed(d) == /\ freeSlots'[d] = freeSlots[d]
             /\ \E p, q \in Threads : OnlyLeaves(p, d) /\ OnlyCame(q, d)
Freed(d) == /\ freeSlots'[d] = freeSlots[d] + 1
            /\ NobodyCame(d) /\ \E p \in Threads : OnlyLeaves(p, d)
Taken(d) == /\ freeSlots'[d] = freeSlots[d] - 1
            /\ NobodyLeaves(d) /\ \E q \in Threads : OnlyCame(q, d)

LEMMA Balance ==
  ASSUME Inv, Inv', PlacedInv', Onward, SlotAccounting,
         \A d \in Devices : Kept(d) \/ Passed(d) \/ Freed(d) \/ Taken(d)
  PROVE  SlotAccounting'
<1> SUFFICES ASSUME NEW d \in Devices
             PROVE  freeSlots'[d] + Cardinality(SourceHeld(d))'
                      + Cardinality(TargetHeld(d))' = Capacity[d]
  BY DEF SlotAccounting
<1> DEFINE f == freeSlots[d]   s == Cardinality(SourceHeld(d))
           h == Cardinality(TargetHeld(d))
<1>1. f \in Nat /\ s \in Nat /\ h \in Nat /\ f + s + h = Capacity[d]
  BY SlotSetsFinite DEF SlotAccounting, Inv, TypeOK
<1>2. /\ NobodyLeaves(d) => Cardinality(SourceHeld(d))' = s
      /\ \A p \in Threads : OnlyLeaves(p, d) => Cardinality(SourceHeld(d))' = s - 1
  BY SourceStep DEF NobodyLeaves, OnlyLeaves
<1>3. /\ NobodyCame(d) => Cardinality(TargetHeld(d))' = h
      /\ \A q \in Threads : OnlyCame(q, d) => Cardinality(TargetHeld(d))' = h + 1
  BY TargetStep DEF NobodyCame, OnlyCame
<1>4. CASE Kept(d)
  BY <1>1, <1>2, <1>3, <1>4 DEF Kept
<1>5. CASE Passed(d)
  <2>1. /\ freeSlots'[d] = f
        /\ Cardinality(SourceHeld(d))' = s - 1
        /\ Cardinality(TargetHeld(d))' = h + 1
    BY <1>2, <1>3, <1>5 DEF Passed
  <2> QED BY <1>1, <2>1
<1>6. CASE Freed(d)
  <2>1. /\ freeSlots'[d] = f + 1
        /\ Cardinality(SourceHeld(d))' = s - 1
        /\ Cardinality(TargetHeld(d))' = h
    BY <1>2, <1>3, <1>6 DEF Freed
  <2> QED BY <1>1, <2>1
<1>7. CASE Taken(d)
  <2>1. /\ freeSlots'[d] = f - 1
        /\ Cardinality(SourceHeld(d))' = s
        /\ Cardinality(TargetHeld(d))' = h + 1
    BY <1>2, <1>3, <1>7 DEF Taken
  <2> QED BY <1>1, <2>1
<1> QED BY <1>4, <1>5, <1>6, <1>7

-----------------------------------------------------------------------------
(* The steps that give no slot to anybody *)

LEMMA QuietKeeps ==
  ASSUME SlotsInv, Inv',
         UNCHANGED <<req, path, child, wtChild, freeSlots, componentPlacement,
                     waitingTransfers>>,
         \A t \in Threads :
           /\ Running(t)' <=> Running(t)
           /\ HandedOn(t)' <=> HandedOn(t)
           /\ Owes(t)' => Owes(t)
  PROVE  SlotsInv'
<1>1. PlacedInv' /\ AloneInv' /\ QueueFull'
  BY DEF SlotsInv, PlacedInv, AloneInv, QueueFull
<1>2. \A t \in Threads : (InQueue(t)' <=> InQueue(t)) /\ Heirs(t)' = Heirs(t)
  BY DEF InQueue, Heirs
<1>3. HeirPlace'
  <2>1. ASSUME NEW t \in Threads, NEW u \in Heirs(t), Owes(t)
        PROVE  u \in Threads /\ req[u].dst = req[t].src /\ Running(u) /\ ~InQueue(u)
    BY <2>1, HeirsAreThreads DEF SlotsInv, HeirPlace, Inv
  <2> QED BY <1>2, <2>1 DEF HeirPlace
<1>4. Onward /\ \A d \in Devices : Kept(d)
  BY <1>2 DEF Onward, Comes, Kept, NobodyLeaves, NobodyCame, Leaves
<1>5. SlotAccounting'
  BY <1>1, <1>4, Balance DEF SlotsInv
<1> QED BY <1>1, <1>3, <1>5 DEF SlotsInv

Quiet(t) == \/ Throw(t) \/ Catch(t) \/ LeaveQueue(t) \/ WokenByParent(t)
            \/ Prepare(t) \/ ReleaseChild(t) \/ SignalChild(t) \/ SignalQueue(t)
            \/ Await(t) \/ Perform(t)

LEMMA QuietStepKeeps ==
  ASSUME SlotsInv, NEW t \in Threads, Quiet(t)
  PROVE  SlotsInv'
<1> USE DEF handles, sems, shared
<1>0. Inv'
  BY InvStep DEF SlotsInv, Quiet, Next, Execute, Continue
<1>1. UNCHANGED <<req, path, child, wtChild, freeSlots, componentPlacement,
                  waitingTransfers>>
  BY DEF Quiet, Throw, Catch, LeaveQueue, WokenByParent, Prepare, ReleaseChild,
         SignalChild, SignalQueue, Await, Perform
<1>2. \A u \in Threads : Heirs(u)' = Heirs(u)
  BY <1>1 DEF Heirs
<1>3. \A u \in Threads \ {t} : pc'[u] = pc[u]
  BY DEF Quiet, Throw, Catch, LeaveQueue, WokenByParent, Prepare, ReleaseChild,
         SignalChild, SignalQueue, Await, Perform, SlotsInv, Inv, TypeOK
<1>4. /\ Running(t)' <=> Running(t)
      /\ HandedOn(t)' <=> HandedOn(t)
      /\ Owes(t)' => Owes(t)
  <2>1. StepInv /\ TypeOK
    BY DEF SlotsInv, Inv
  <2> USE <1>1, <1>2, <2>1 DEF Running, HandedOn, Owes, Performing, AfterVacate, TypeOK
  <2>2. CASE Throw(t)
    BY <2>2 DEF Throw
  <2>3. CASE Catch(t)
    BY <2>3 DEF Catch
  <2>4. CASE LeaveQueue(t)
    BY <2>4 DEF LeaveQueue
  <2>5. CASE WokenByParent(t)
    BY <2>5 DEF WokenByParent
  <2>6. CASE Prepare(t)
    BY <2>6 DEF Prepare
  <2>7. CASE ReleaseChild(t)
    <3>1. Heirs(t) # {}
      BY <2>7 DEF ReleaseChild, Heirs
    <3> QED BY <2>7, <3>1 DEF ReleaseChild
  <2>8. CASE SignalChild(t)
    <3>1. Heirs(t) # {}
      BY <2>8 DEF SignalChild, Heirs, StepInv
    <3> QED BY <2>8, <3>1 DEF SignalChild
  <2>9. CASE SignalQueue(t)
    BY <2>9 DEF SignalQueue
  <2>10. CASE Await(t)
    BY <2>10 DEF Await
  <2>11. CASE Perform(t)
    BY <2>11 DEF Perform
  <2> QED BY <2>2, <2>3, <2>4, <2>5, <2>6, <2>7, <2>8, <2>9, <2>10, <2>11 DEF Quiet
<1>5. \A u \in Threads \ {t} :
        /\ Running(u)' <=> Running(u)
        /\ HandedOn(u)' <=> HandedOn(u)
        /\ Owes(u)' <=> Owes(u)
  BY <1>1, <1>2, <1>3 DEF Running, HandedOn, Owes, Performing
<1> QED BY <1>0, <1>1, <1>4, <1>5, QuietKeeps

-----------------------------------------------------------------------------
(* The end of a transfer *)

LEMMA TransferCompletedSlots ==
  ASSUME SlotsInv, NEW t \in Threads, TransferCompleted(t)
  PROVE  SlotsInv'
<1> DEFINE c == req[t].comp
<1>0. Inv'
  BY InvStep DEF SlotsInv, Next, Continue
<1>1. /\ c \in Components /\ Running(t) /\ HandedOn(t) /\ pc[t] = "complete"
      /\ componentPlacement[c] = req[t].src /\ req[t].src # req[t].dst
      /\ ~InQueue(t) /\ path[t] # "waiting"
  BY DEF TransferCompleted, SlotsInv, Inv, StepInv, WaitingInv, InQueue, PlacedInv, Running, HandedOn,
         Performing
<1>2. /\ ~Running(t)' /\ req'[t] = NoReq /\ Heirs(t)' = {} /\ ~HandedOn(t)'
      /\ path'[t] = "none" /\ child'[t] = NoThread
      /\ \A u \in Threads \ {t} :
           /\ pc'[u] = pc[u] /\ req'[u] = req[u] /\ path'[u] = path[u]
           /\ child'[u] = child[u] /\ Heirs(u)' = Heirs(u)
           /\ (Running(u)' <=> Running(u)) /\ (HandedOn(u)' <=> HandedOn(u))
           /\ (Owes(u)' <=> Owes(u))
      /\ \A u \in Threads : InQueue(u)' <=> InQueue(u)
      /\ \A e \in Components :
           componentPlacement'[e] = IF e = c THEN req[t].dst
                                    ELSE componentPlacement[e]
      /\ UNCHANGED <<freeSlots, waitingTransfers>>
  BY DEF TransferCompleted, SlotsInv, Inv, TypeOK, Running, HandedOn, Heirs, Performing,
         Owes, InQueue
<1>3. \A u \in Threads \ {t} : Running(u) => req[u].comp # c
  BY <1>1 DEF SlotsInv, Inv, ExclusiveComponent
<1>4. PlacedInv'
  <2> SUFFICES ASSUME NEW u \in Threads, Running(u)'
               PROVE  componentPlacement'[req'[u].comp] = req'[u].src
    BY DEF PlacedInv
  <2>1. u # t /\ Running(u) /\ req'[u] = req[u] /\ req[u].comp # c
    BY <1>2, <1>3
  <2>2. req[u].comp \in Components
    BY <2>1 DEF SlotsInv, Inv, StepInv
  <2> QED BY <1>2, <2>1, <2>2 DEF SlotsInv, PlacedInv
<1>5. AloneInv' /\ QueueFull'
  BY <1>2 DEF SlotsInv, AloneInv, QueueFull
<1>6. HeirPlace'
  <2> SUFFICES ASSUME NEW p \in Threads, NEW u \in Heirs(p)', Owes(p)'
               PROVE  req'[u].dst = req'[p].src /\ Running(u)' /\ ~InQueue(u)'
    BY DEF HeirPlace
  <2>1. p # t /\ u \in Heirs(p) /\ Owes(p) /\ u \in Threads
    BY <1>2, HeirsAreThreads DEF SlotsInv, Inv
  <2>2. BeforeAwait(u)
    BY <2>1 DEF SlotsInv, Inv, HeirInv
  <2>3. u # t
    BY <1>1, <2>2 DEF BeforeAwait
  <2> QED BY <1>2, <2>1, <2>3 DEF SlotsInv, HeirPlace
<1>7. SlotAccounting'
  <2> SUFFICES ASSUME NEW d \in Devices
               PROVE  freeSlots'[d] + Cardinality(SourceHeld(d))'
                        + Cardinality(TargetHeld(d))' = Capacity[d]
    BY DEF SlotAccounting
  <2>1. /\ freeSlots[d] \in Nat
        /\ freeSlots[d] + Cardinality(SourceHeld(d)) + Cardinality(TargetHeld(d))
             = Capacity[d]
    BY DEF SlotsInv, SlotAccounting, Inv, TypeOK
  <2>2. /\ c \notin SourceHeld(d)
        /\ SourceHeld(d)' = IF d = req[t].dst THEN SourceHeld(d) \cup {c}
                            ELSE SourceHeld(d)
    <3>1. c \notin SourceHeld(d)
      BY <1>1 DEF SourceHeld
    <3>2. \A u \in Threads : HandedOn(u)' => Running(u)'
      BY <1>0 DEF Inv, StepInv, HandedOn, Running, Heirs, NotStarted, Performing
    <3>3. c \in SourceHeld(d)' <=> d = req[t].dst
      BY <1>1, <1>2, <1>3, <3>2 DEF SourceHeld, Placed
    <3>4. ASSUME NEW e \in Components \ {c}
          PROVE  e \in SourceHeld(d)' <=> e \in SourceHeld(d)
      <4>1. (\E u \in Threads : req'[u].comp = e /\ HandedOn(u)')
              <=> \E u \in Threads : req[u].comp = e /\ HandedOn(u)
        BY <1>2, <3>4
      <4>2. e \in Placed(d)' <=> e \in Placed(d)
        BY <1>2, <3>4 DEF Placed
      <4> QED BY <4>1, <4>2 DEF SourceHeld
    <3>5. SourceHeld(d) \subseteq Components /\ SourceHeld(d)' \subseteq Components
      BY DEF SourceHeld, Placed
    <3> QED BY <1>1, <3>1, <3>3, <3>4, <3>5
  <2>3. /\ TargetHeld(d)' = TargetHeld(d) \ {t}
        /\ t \in TargetHeld(d) <=> d = req[t].dst
    BY <1>1, <1>2 DEF TargetHeld
  <2>4. Cardinality(SourceHeld(d))' = IF d = req[t].dst THEN Cardinality(SourceHeld(d)) + 1
                                      ELSE Cardinality(SourceHeld(d))
    BY <2>2, SlotSetsFinite, FS_AddElement
  <2>5. Cardinality(TargetHeld(d))' = IF d = req[t].dst THEN Cardinality(TargetHeld(d)) - 1
                                      ELSE Cardinality(TargetHeld(d))
    BY <2>3, SlotSetsFinite, FS_RemoveElement
  <2>6. freeSlots'[d] = freeSlots[d]
    BY <1>2
  <2> QED BY <2>1, <2>4, <2>5, <2>6, SlotSetsFinite
<1> QED BY <1>0, <1>4, <1>5, <1>6, <1>7 DEF SlotsInv

-----------------------------------------------------------------------------
(* The start of a transfer that wakes nobody *)

LEMMA AdmitFacts ==
  ASSUME SlotsInv, NEW t \in Threads, NEW r \in Requests, Admit(t, r),
         NEW step \in {"prepare", "queued"}, pc' = [pc EXCEPT ![t] = step]
  PROVE  /\ PlacedInv'
         /\ ~Running(t) /\ Heirs(t) = {} /\ ~HandedOn(t) /\ ~InQueue(t)
         /\ child[t] = NoThread /\ wtChild[t] = NoThread
         /\ Running(t)' /\ req'[t] = r /\ pc'[t] = step
         /\ \A u \in Threads \ {t} :
              /\ pc'[u] = pc[u] /\ req'[u] = req[u]
              /\ (Running(u)' <=> Running(u))
         /\ r.src \in Places /\ r.dst \in Places /\ r.src # r.dst
         /\ UNCHANGED componentPlacement
<1>1. /\ r.src \in Places /\ r.dst \in Places /\ r.src # r.dst
      /\ pc[t] = "idle" /\ req' = [req EXCEPT ![t] = r]
      /\ UNCHANGED componentPlacement
  BY Admitted DEF SlotsInv, Inv
<1>2. componentPlacement[r.comp] = r.src
  BY DEF Admit, Verdict
<1>3. /\ pc'[t] = step /\ req'[t] = r
      /\ \A u \in Threads \ {t} : pc'[u] = pc[u] /\ req'[u] = req[u]
  BY <1>1 DEF SlotsInv, Inv, TypeOK
<1>4. ~Running(t) /\ child[t] = NoThread /\ wtChild[t] = NoThread /\ ~InQueue(t)
  BY <1>1 DEF SlotsInv, Inv, StepInv, WaitingInv, InQueue, Running, NotStarted
<1>5. Running(t)' /\ \A u \in Threads \ {t} : Running(u)' <=> Running(u)
  BY <1>3 DEF Running
<1>6. Heirs(t) = {} /\ ~HandedOn(t)
  BY <1>1, <1>4 DEF Heirs, HandedOn, Performing
<1>7. PlacedInv'
  BY <1>1, <1>2, <1>3, <1>5 DEF SlotsInv, PlacedInv
<1> QED BY <1>1, <1>3, <1>4, <1>5, <1>6, <1>7

LEMMA EnqueueSlots ==
  ASSUME SlotsInv, NEW t \in Threads, ExecuteEnqueue(t)
  PROVE  SlotsInv'
<1>0. Inv'
  BY InvStep DEF SlotsInv, Next, Execute
<1>1. PICK r \in Requests :
        /\ Admit(t, r) /\ MustWait(r)
        /\ waitingTransfers' = [waitingTransfers EXCEPT ![r.dst] = Append(@, t)]
        /\ path' = [path EXCEPT ![t] = "waiting"]
        /\ pc' = [pc EXCEPT ![t] = "queued"]
        /\ UNCHANGED <<child, wtChild, queueLeft, freeSlots, workingTransfers>>
  BY DEF ExecuteEnqueue
<1>2. /\ PlacedInv'
      /\ ~Running(t) /\ Heirs(t) = {} /\ ~HandedOn(t) /\ ~InQueue(t)
      /\ child[t] = NoThread
      /\ Running(t)' /\ req'[t] = r /\ pc'[t] = "queued"
      /\ \A u \in Threads \ {t} :
           /\ pc'[u] = pc[u] /\ req'[u] = req[u]
           /\ (Running(u)' <=> Running(u))
      /\ UNCHANGED componentPlacement
      /\ r.dst \in Places
  BY <1>1, AdmitFacts
<1>3. r.dst \in Devices /\ freeSlots[r.dst] = 0
  BY <1>1, <1>2 DEF MustWait, Places
<1>4. /\ path'[t] = "waiting" /\ \A u \in Threads \ {t} : path'[u] = path[u]
      /\ \A u \in Threads : child'[u] = child[u] /\ Heirs(u)' = Heirs(u)
      /\ \A d \in Devices : waitingTransfers'[d] =
           IF d = r.dst THEN Append(waitingTransfers[d], t) ELSE waitingTransfers[d]
  BY <1>1, <1>3 DEF Heirs, SlotsInv, Inv, TypeOK
<1>5. InQueue(t)' /\ \A u \in Threads \ {t} : InQueue(u)' <=> InQueue(u)
  <2>1. \A d \in Devices : waitingTransfers[d] \in Seq(Threads)
    BY DEF SlotsInv, Inv, TypeOK
  <2>2. /\ t \in Range(Append(waitingTransfers[r.dst], t))
        /\ \A u \in Threads \ {t} : u \in Range(Append(waitingTransfers[r.dst], t))
                                      <=> u \in Range(waitingTransfers[r.dst])
    <3>1. t \notin Range(waitingTransfers[r.dst])
      BY <1>2, <1>3 DEF InQueue
    <3>2. Injective(waitingTransfers[r.dst])
      BY <1>3 DEF SlotsInv, Inv, WaitingInv, Injective
    <3>3. Range(Append(waitingTransfers[r.dst], t)) = Range(waitingTransfers[r.dst]) \cup {t}
      BY <1>3, <2>1, <3>1, <3>2, AppendFresh
    <3> QED BY <3>3
  <2> QED BY <1>3, <1>4, <2>2 DEF InQueue
<1>6. AloneInv' /\ QueueFull'
  BY <1>1, <1>2, <1>3, <1>4 DEF SlotsInv, AloneInv, QueueFull
<1>7. /\ ~HandedOn(t)'
      /\ \A u \in Threads \ {t} : HandedOn(u)' <=> HandedOn(u)
      /\ \A u \in Threads \ {t} : Owes(u)' <=> Owes(u)
  BY <1>2, <1>4 DEF HandedOn, Performing, Owes
<1>8. HeirPlace'
  <2> SUFFICES ASSUME NEW p \in Threads, NEW u \in Heirs(p)', Owes(p)'
               PROVE  req'[u].dst = req'[p].src /\ Running(u)' /\ ~InQueue(u)'
    BY DEF HeirPlace
  <2>1. p # t /\ u \in Heirs(p) /\ Owes(p) /\ u \in Threads
    BY <1>2, <1>4, <1>7, HeirsAreThreads DEF SlotsInv, Inv
  <2>2. u # t
    BY <1>2, <2>1 DEF SlotsInv, HeirPlace
  <2> QED BY <1>2, <1>5, <2>1, <2>2 DEF SlotsInv, HeirPlace
<1>9. Onward /\ \A d \in Devices : Kept(d)
  BY <1>1, <1>2, <1>5, <1>7 DEF Onward, Comes, Kept, NobodyLeaves, NobodyCame, Leaves
<1>10. SlotAccounting'
  BY <1>0, <1>2, <1>9, Balance DEF SlotsInv
<1> QED BY <1>0, <1>2, <1>6, <1>8, <1>10 DEF SlotsInv

-----------------------------------------------------------------------------
(* A slot is given up *)

\* Taking the first element leaves the others in the queue.
LEMMA TailRange ==
  ASSUME NEW S, NEW q \in Seq(S), q # <<>>, Injective(q)
  PROVE  /\ Head(q) \in Range(q) /\ Head(q) \notin Range(Tail(q))
         /\ \A x : x # Head(q) => (x \in Range(Tail(q)) <=> x \in Range(q))
<1>1. /\ Len(q) \in Nat /\ Len(q) >= 1 /\ Head(q) = q[1]
      /\ Tail(q) \in Seq(S) /\ Len(Tail(q)) = Len(q) - 1
      /\ \A i \in 1..(Len(q) - 1) : Tail(q)[i] = q[i + 1]
  BY HeadTailProperties, EmptySeq, LenProperties
<1> DEFINE r == Tail(q)
<1> HIDE DEF r
<1>2. \A x : x \in Range(q) <=> \E i \in 1..Len(q) : q[i] = x
  BY RangeSeq
<1>3. \A x : x \in Range(r) <=> \E i \in 1..Len(r) : r[i] = x
  BY <1>1, RangeSeq DEF r
<1>4. \A i \in 1..(Len(q) - 1) : r[i] = q[i + 1]
  BY <1>1 DEF r
<1>5. Len(r) = Len(q) - 1
  BY <1>1 DEF r
<1>6. Head(q) \in Range(q)
  BY <1>1, <1>2
<1>7. Head(q) \notin Range(r)
  <2> SUFFICES ASSUME NEW i \in 1..Len(r), r[i] = Head(q) PROVE FALSE
    BY <1>3
  <2>1. q[i + 1] = q[1] /\ i + 1 \in 1..Len(q) /\ 1 \in 1..Len(q)
    BY <1>1, <1>4, <1>5
  <2>2. i + 1 = 1
    BY <2>1 DEF Injective
  <2> QED BY <1>5, <2>2
<1>8. ASSUME NEW x, x # Head(q) PROVE x \in Range(r) <=> x \in Range(q)
  <2>1. ASSUME NEW i \in 1..Len(r), r[i] = x PROVE x \in Range(q)
    <3>1. q[i + 1] = x /\ i + 1 \in 1..Len(q)
      BY <1>1, <1>4, <1>5, <2>1
    <3> QED BY <1>2, <3>1
  <2>2. ASSUME NEW i \in 1..Len(q), q[i] = x PROVE x \in Range(r)
    <3>1. i # 1
      BY <1>1, <1>8, <2>2
    <3>2. i - 1 \in 1..(Len(q) - 1) /\ (i - 1) + 1 = i
      BY <1>1, <3>1
    <3>3. r[i - 1] = x
      BY <1>4, <2>2, <3>2
    <3> QED BY <1>3, <1>5, <3>2, <3>3
  <2> QED BY <1>2, <1>3, <2>1, <2>2
<1> QED BY <1>6, <1>7, <1>8 DEF r

LEMMA FreeSlotSlots ==
  ASSUME SlotsInv, NEW t \in Threads, FreeSlot(t)
  PROVE  SlotsInv'
<1> DEFINE s == req[t].src
<1>0. Inv'
  BY InvStep DEF SlotsInv, Next, Continue
<1>1. /\ pc[t] = "vacate" /\ child[t] = NoThread
      /\ UNCHANGED <<req, path, child, wtChild, componentPlacement>>
      /\ \A u \in Threads : Heirs(u)' = Heirs(u)
      /\ \A u \in Threads \ {t} : pc'[u] = pc[u]
      /\ pc'[t] \in {AfterVacate(t), "signalChild", "signalQueue"}
  BY DEF FreeSlot, Heirs, SlotsInv, Inv, TypeOK
<1>2. /\ \A u \in Threads : Running(u)' <=> Running(u)
      /\ \A u \in Threads \ {t} : HandedOn(u)' <=> HandedOn(u)
      /\ \A u \in Threads : Owes(u)' => Owes(u)
      /\ HandedOn(t)' /\ (HandedOn(t) <=> wtChild[t] # NoThread)
  BY <1>1 DEF Running, HandedOn, Heirs, Owes, Performing, AfterVacate
<1>3. PlacedInv' /\ AloneInv'
  BY <1>1, <1>2 DEF SlotsInv, PlacedInv, AloneInv
<1>4. s \in Places
  BY DEF SlotsInv, Inv, TypeOK
<1>5. ASSUME \A u \in Threads : InQueue(u)' => InQueue(u)
      PROVE  HeirPlace'
  <2> SUFFICES ASSUME NEW p \in Threads, NEW u \in Heirs(p)', Owes(p)'
               PROVE  req'[u].dst = req'[p].src /\ Running(u)' /\ ~InQueue(u)'
    BY DEF HeirPlace
  <2>1. u \in Heirs(p) /\ Owes(p) /\ u \in Threads
    BY <1>1, <1>2, HeirsAreThreads DEF SlotsInv, Inv
  <2> QED BY <1>1, <1>2, <1>5, <2>1 DEF SlotsInv, HeirPlace
<1>6. ASSUME UNCHANGED waitingTransfers
      PROVE  HeirPlace' /\ Onward /\ \A d \in Devices : NobodyCame(d)
  <2>1. \A u \in Threads : InQueue(u)' <=> InQueue(u)
    BY <1>6 DEF InQueue
  <2> QED BY <1>1, <1>2, <1>5, <2>1 DEF Onward, Comes, NobodyCame
<1>7. CASE s = NoDevice
  <2>1. UNCHANGED <<freeSlots, waitingTransfers>>
    BY <1>7 DEF FreeSlot
  <2>2. \A d \in Devices : Kept(d)
    BY <1>1, <1>2, <1>6, <1>7, <2>1, StorageAssumption DEF Kept, NobodyLeaves, Leaves
  <2>3. QueueFull'
    BY <2>1 DEF SlotsInv, QueueFull
  <2> QED BY <1>0, <1>3, <1>6, <2>1, <2>2, <2>3, Balance DEF SlotsInv
<1>8. CASE s # NoDevice /\ wtChild[t] # NoThread
  <2>1. UNCHANGED <<freeSlots, waitingTransfers>>
    BY <1>8 DEF FreeSlot
  <2>2. \A d \in Devices : Kept(d)
    BY <1>1, <1>2, <1>6, <1>8, <2>1 DEF Kept, NobodyLeaves, Leaves
  <2>3. QueueFull'
    BY <2>1 DEF SlotsInv, QueueFull
  <2> QED BY <1>0, <1>3, <1>6, <2>1, <2>2, <2>3, Balance DEF SlotsInv
<1>9. CASE s # NoDevice /\ wtChild[t] = NoThread /\ waitingTransfers[s] = <<>>
  <2>1. /\ freeSlots' = [freeSlots EXCEPT ![s] = @ + 1]
        /\ UNCHANGED waitingTransfers
    BY <1>9 DEF FreeSlot
  <2>2. s \in Devices /\ freeSlots'[s] = freeSlots[s] + 1
        /\ \A d \in Devices \ {s} : freeSlots'[d] = freeSlots[d]
    BY <1>4, <1>9, <2>1 DEF Places, SlotsInv, Inv, TypeOK
  <2>3. QueueFull'
    BY <1>9, <2>1, <2>2 DEF SlotsInv, QueueFull
  <2>4. Freed(s)
    <3>1. OnlyLeaves(t, s)
      BY <1>1, <1>2, <1>9 DEF OnlyLeaves, Leaves
    <3> QED BY <1>6, <2>1, <2>2, <3>1 DEF Freed
  <2>5. \A d \in Devices \ {s} : Kept(d)
    BY <1>1, <1>2, <1>6, <2>1, <2>2 DEF Kept, NobodyLeaves, Leaves
  <2> QED BY <1>0, <1>3, <1>6, <2>1, <2>3, <2>4, <2>5, Balance DEF SlotsInv
<1>10. CASE s # NoDevice /\ wtChild[t] = NoThread /\ waitingTransfers[s] # <<>>
  <2>0. PICK q : q = Head(waitingTransfers[s])
    OBVIOUS
  <2>1. /\ UNCHANGED freeSlots
        /\ waitingTransfers' = [waitingTransfers EXCEPT ![s] = Tail(@)]
    BY <1>10 DEF FreeSlot
  <2>2. /\ s \in Devices
        /\ waitingTransfers[s] \in Seq(Threads) /\ Injective(waitingTransfers[s])
        /\ waitingTransfers'[s] = Tail(waitingTransfers[s])
        /\ \A d \in Devices \ {s} : waitingTransfers'[d] = waitingTransfers[d]
    <3>1. s \in Devices
      BY <1>4, <1>10 DEF Places
    <3>2. waitingTransfers \in [Devices -> Seq(Threads)]
      BY DEF SlotsInv, Inv, TypeOK
    <3>3. Injective(waitingTransfers[s])
      BY <3>1 DEF SlotsInv, Inv, WaitingInv, Injective
    <3> QED BY <2>1, <3>1, <3>2, <3>3
  <2>3. /\ q \in Range(waitingTransfers[s])
        /\ q \notin Range(waitingTransfers'[s])
        /\ \A u : u # q => (u \in Range(waitingTransfers'[s])
                              <=> u \in Range(waitingTransfers[s]))
    BY <1>10, <2>0, <2>2, TailRange
  <2>4. q \in Threads /\ pc[q] = "queued" /\ req[q].dst = s /\ InQueue(q)
    BY <2>2, <2>3, RangeSeq DEF SlotsInv, Inv, WaitingInv, InQueue
  <2>5. ~InQueue(q)'
    <3>1. \A d \in Devices \ {s} : q \notin Range(waitingTransfers[d])
      BY <2>4 DEF SlotsInv, Inv, WaitingInv
    <3> QED BY <2>2, <2>3, <3>1 DEF InQueue
  <2>6. \A u \in Threads \ {q} : InQueue(u)' <=> InQueue(u)
    BY <2>2, <2>3 DEF InQueue
  <2>7. QueueFull'
    BY <1>10, <2>1, <2>2 DEF SlotsInv, QueueFull
  <2>8. HeirPlace'
    BY <1>5, <2>4, <2>6
  <2>9. Onward
    BY <1>1, <1>2, <2>5, <2>6 DEF Onward, Comes
  <2>10. Passed(s)
    <3>1. OnlyLeaves(t, s)
      BY <1>1, <1>2, <1>10 DEF OnlyLeaves, Leaves
    <3>2. OnlyCame(q, s)
      BY <1>1, <1>2, <2>4, <2>5, <2>6 DEF OnlyCame, Comes, Running
    <3> QED BY <2>1, <2>4, <3>1, <3>2 DEF Passed
  <2>11. \A d \in Devices \ {s} : Kept(d)
    BY <1>1, <1>2, <2>1, <2>4, <2>6 DEF Kept, NobodyLeaves, NobodyCame, Leaves, Comes
  <2> QED BY <1>0, <1>3, <2>7, <2>8, <2>9, <2>10, <2>11, Balance DEF SlotsInv
<1> QED BY <1>7, <1>8, <1>9, <1>10

\* A transfer that starts by reserving a slot takes it over from the transfer
\* that is at the head of the working ones.
LEMMA ReserveSlots ==
  ASSUME SlotsInv, NEW t \in Threads, ExecuteReserve(t)
  PROVE  SlotsInv'
<1>0. Inv'
  BY InvStep DEF SlotsInv, Next, Execute
<1>1. PICK r \in Requests :
        /\ Admit(t, r) /\ MustWait(r)
        /\ workingTransfers[r.dst] # <<>>
        /\ wtChild' = [wtChild EXCEPT ![Head(workingTransfers[r.dst])] = t]
        /\ path' = [path EXCEPT ![t] = "reserved"]
        /\ pc' = [pc EXCEPT ![t] = "prepare"]
        /\ UNCHANGED <<child, freeSlots, waitingTransfers>>
  BY DEF ExecuteReserve
<1>2. /\ PlacedInv'
      /\ ~Running(t) /\ Heirs(t) = {} /\ ~HandedOn(t) /\ ~InQueue(t)
      /\ child[t] = NoThread /\ wtChild[t] = NoThread
      /\ Running(t)' /\ req'[t] = r /\ pc'[t] = "prepare"
      /\ \A u \in Threads \ {t} :
           /\ pc'[u] = pc[u] /\ req'[u] = req[u]
           /\ (Running(u)' <=> Running(u))
      /\ UNCHANGED componentPlacement
      /\ r.dst \in Places
  BY <1>1, AdmitFacts
<1>3. r.dst \in Devices
  BY <1>1, <1>2 DEF MustWait, Places
<1>4. PICK h : h = Head(workingTransfers[r.dst])
  OBVIOUS
<1>5. h \in Threads /\ h \in Range(workingTransfers[r.dst])
  <2>1. workingTransfers[r.dst] \in Seq(Threads)
    BY <1>3 DEF SlotsInv, Inv, TypeOK
  <2>2. h = workingTransfers[r.dst][1] /\ 1 \in 1..Len(workingTransfers[r.dst])
    BY <1>1, <1>4, <2>1, HeadTailProperties, EmptySeq, LenProperties
  <2> QED BY <2>1, <2>2, RangeSeq
<1>6. /\ ~NotStarted(h) /\ Owes(h) /\ pc[h] # "signalChild"
      /\ child[h] = NoThread /\ wtChild[h] = NoThread /\ req[h].src = r.dst
  BY <1>3, <1>5 DEF SlotsInv, Inv, WorkingInv
<1>7. h # t /\ Heirs(h) = {} /\ ~HandedOn(h)
  BY <1>2, <1>6 DEF Running, NotStarted, Heirs, HandedOn, Owes, Performing
<1>8. /\ wtChild'[h] = t /\ t # NoThread /\ Heirs(h)' = {t} /\ HandedOn(h)'
      /\ \A u \in Threads \ {h} : Heirs(u)' = Heirs(u)
      /\ \A u \in Threads \ {t} : path'[u] = path[u]
      /\ path'[t] = "reserved"
  <2>1. wtChild \in [Threads -> Ids] /\ path \in [Threads -> {"none", "noDepend",
                            "reserved", "cycle", "waiting", "chained"}]
    BY DEF SlotsInv, Inv, TypeOK
  <2>2. wtChild' = [wtChild EXCEPT ![h] = t] /\ child' = child
    BY <1>1, <1>4
  <2>3. t # NoThread
    BY StorageAssumption
  <2>4. wtChild'[h] = t /\ \A u \in Threads \ {h} : wtChild'[u] = wtChild[u]
    BY <1>5, <2>1, <2>2
  <2>5. Heirs(h)' = {t} /\ \A u \in Threads \ {h} : Heirs(u)' = Heirs(u)
    BY <1>6, <2>2, <2>3, <2>4 DEF Heirs
  <2>6. path'[t] = "reserved" /\ \A u \in Threads \ {t} : path'[u] = path[u]
    BY <1>1, <2>1
  <2> QED BY <2>3, <2>4, <2>5, <2>6 DEF HandedOn
<1>9. /\ ~HandedOn(t)'
      /\ \A u \in Threads \ {t, h} : HandedOn(u)' <=> HandedOn(u)
      /\ \A u \in Threads \ {t} : Owes(u)' <=> Owes(u)
  BY <1>2, <1>7, <1>8 DEF HandedOn, Performing, Owes
<1>10. \A u \in Threads : InQueue(u)' <=> InQueue(u)
  BY <1>1 DEF InQueue
<1>11. AloneInv' /\ QueueFull'
  BY <1>1, <1>8 DEF SlotsInv, AloneInv, QueueFull
<1>12. HeirPlace'
  <2> SUFFICES ASSUME NEW p \in Threads, NEW u \in Heirs(p)', Owes(p)'
               PROVE  req'[u].dst = req'[p].src /\ Running(u)' /\ ~InQueue(u)'
    BY DEF HeirPlace
  <2>1. CASE p = h
    BY <1>2, <1>6, <1>7, <1>8, <1>10, <2>1
  <2>2. CASE p # h
    <3>1. p # t /\ u \in Heirs(p) /\ Owes(p) /\ u \in Threads
      BY <1>2, <1>7, <1>8, <1>9, <2>2, HeirsAreThreads DEF SlotsInv, Inv
    <3>2. u # t
      BY <1>2, <3>1 DEF SlotsInv, HeirPlace
    <3> QED BY <1>2, <1>10, <3>1, <3>2 DEF SlotsInv, HeirPlace
  <2> QED BY <2>1, <2>2
<1>13. Onward
  BY <1>2, <1>7, <1>8, <1>9, <1>10 DEF Onward, Comes
<1>14. Passed(r.dst)
  <2>1. OnlyLeaves(h, r.dst)
    BY <1>2, <1>5, <1>6, <1>7, <1>8, <1>9 DEF OnlyLeaves, Leaves
  <2>2. OnlyCame(t, r.dst)
    BY <1>2, <1>10 DEF OnlyCame, Comes
  <2> QED BY <1>1, <1>3, <1>5, <2>1, <2>2 DEF Passed
<1>15. \A d \in Devices \ {r.dst} : Kept(d)
  BY <1>1, <1>2, <1>6, <1>7, <1>9, <1>10 DEF Kept, NobodyLeaves, NobodyCame, Leaves, Comes
<1>16. SlotAccounting'
  BY <1>0, <1>2, <1>13, <1>14, <1>15, Balance DEF SlotsInv
<1> QED BY <1>0, <1>2, <1>11, <1>12, <1>16 DEF SlotsInv

-----------------------------------------------------------------------------
(* A chain or a cycle of transfers that hand their slots over *)

\* Only what was asked for leaves the queue.
LEMMA WithoutKeeps ==
  ASSUME NEW S, NEW q \in Seq(S), NEW R, NEW x, x \in Range(q), x \notin R
  PROVE  x \in Range(Without(q, R))
<1>1. CASE ~\E k \in 1..Len(q) : q[k] \in R
  BY <1>1 DEF Without
<1>2. CASE \E k \in 1..Len(q) : q[k] \in R
  <2>1. PICK k : k = CHOOSE i \in 1..Len(q) : q[i] \in R
    OBVIOUS
  <2>2. k \in 1..Len(q) /\ q[k] \in R
    BY <1>2, <2>1
  <2> DEFINE w == RemoveAt(q, k)
  <2>3. Without(q, R) = w
    BY <1>2, <2>1 DEF Without
  <2>4. /\ w \in Seq(S) /\ Len(w) = Len(q) - 1
        /\ \A i \in 1..Len(w) : w[i] = IF i < k THEN q[i] ELSE q[i + 1]
    BY <2>2, RemoveAtProperties
  <2> HIDE DEF w
  <2>5. PICK j \in 1..Len(q) : q[j] = x
    BY RangeSeq
  <2>6. Len(q) \in Nat /\ k \in Int /\ j \in Int /\ j # k
    BY <2>2, <2>5, LenProperties
  <2>7. \E i \in 1..Len(w) : w[i] = x
    <3>1. CASE j < k
      <4>1. j \in 1..Len(w)
        BY <2>2, <2>4, <2>6, <3>1
      <4> QED BY <2>4, <2>5, <3>1, <4>1
    <3>2. CASE k < j
      <4>1. j - 1 \in 1..Len(w) /\ ~(j - 1 < k) /\ (j - 1) + 1 = j
        BY <2>2, <2>4, <2>6, <3>2
      <4> QED BY <2>4, <2>5, <4>1
    <3> QED BY <2>6, <3>1, <3>2
  <2> QED BY <2>3, <2>4, <2>7, RangeSeq
<1> QED BY <1>1, <1>2

\* The places in a woken list.
LEMMA ListPlaces ==
  ASSUME Inv, NEW s \in WaiterLists, NEW last
  PROVE  /\ Len(s) \in Nat /\ s \in Seq(Waiters)
         /\ \A i, j \in 1..Len(s) : req[s[i]].dst = req[s[j]].dst => i = j
         /\ \A u : u \in Range(s) <=> \E i \in 1..Len(s) : s[i] = u
         /\ \A i \in 1..Len(s) :
              NextInList(s, s[i], last) = IF i < Len(s) THEN s[i + 1] ELSE last
<1>1. PICK n \in 0..Cardinality(Waiters) :
        /\ s \in [1..n -> Waiters]
        /\ \A i, j \in 1..n : req[s[i]].dst = req[s[j]].dst => i = j
  BY DEF WaiterLists
<1>2. Cardinality(Waiters) \in Nat /\ n \in Nat
  <2>1. IsFiniteSet(Waiters)
    BY FS_Subset, StorageAssumption DEF Waiters
  <2> QED BY <2>1, <1>1, FS_CardinalityType
<1>3. s \in Seq(Waiters) /\ Len(s) = n
  BY <1>1, <1>2
<1>4. ASSUME NEW i \in 1..Len(s)
      PROVE  NextInList(s, s[i], last) = IF i < Len(s) THEN s[i + 1] ELSE last
  <2>1. PICK k : k = CHOOSE j \in 1..Len(s) : s[j] = s[i]
    OBVIOUS
  <2>2. k \in 1..Len(s) /\ s[k] = s[i]
    BY <2>1
  <2>3. k = i
    BY <1>1, <1>3, <2>2
  <2> QED BY <2>1, <2>3 DEF NextInList
<1> QED BY <1>1, <1>2, <1>3, <1>4, RangeSeq

\* Each member of the list waits for the slot of the one before it, the first
\* one for the slot of the transfer r.
Linked(r, s) ==
  \A i \in 1..Len(s) :
    /\ Polled(r.src, s, i) # NoDevice
    /\ s[i] \in Range(waitingTransfers[Polled(r.src, s, i)])

\* The last member leaves the device r comes to, and no other member does.
Closes(r, s) ==
  s # <<>> /\ \A i \in 1..Len(s) : req[s[i]].src = r.dst <=> i = Len(s)

LEMMA LinkedPlaces ==
  ASSUME Inv, NEW s \in WaiterLists, NEW r, r.src \in Places, Linked(r, s)
  PROVE  /\ s # <<>> => /\ 1 \in 1..Len(s)
                        /\ r.src \in Devices /\ req[s[1]].dst = r.src
         /\ \A i \in 1..Len(s) : i # 1 =>
              i - 1 \in 1..Len(s) /\ req[s[i]].dst = req[s[i - 1]].src
         /\ \A i \in 1..Len(s) : i < Len(s) =>
              i + 1 \in 1..Len(s) /\ req[s[i + 1]].dst = req[s[i]].src
<1>1. Len(s) \in Nat /\ s \in Seq(Waiters)
  BY ListPlaces
<1>2. \A i \in 1..Len(s) : s[i] \in Threads
  BY <1>1 DEF Waiters
<1>3. ASSUME NEW i \in 1..Len(s)
      PROVE  /\ Polled(r.src, s, i) \in Devices
             /\ req[s[i]].dst = Polled(r.src, s, i)
  <2>1. Polled(r.src, s, i) \in Places
    <3>1. CASE i = 1
      BY <3>1 DEF Polled
    <3>2. CASE i # 1
      <4>1. i - 1 \in 1..Len(s)
        BY <1>1, <3>2
      <4>2. req[s[i - 1]].src \in Places
        BY <1>2, <4>1 DEF Inv, TypeOK
      <4> QED BY <3>2, <4>2 DEF Polled
    <3> QED BY <3>1, <3>2
  <2> QED BY <2>1 DEF Linked, Places, Inv, WaitingInv
<1>4. ASSUME s # <<>>
      PROVE  1 \in 1..Len(s) /\ r.src \in Devices /\ req[s[1]].dst = r.src
  <2>1. 1 \in 1..Len(s)
    BY <1>1, <1>4, EmptySeq
  <2>2. Polled(r.src, s, 1) = r.src
    BY DEF Polled
  <2> QED BY <1>3, <2>1, <2>2
<1>5. ASSUME NEW i \in 1..Len(s), i # 1
      PROVE  i - 1 \in 1..Len(s) /\ req[s[i]].dst = req[s[i - 1]].src
  <2>1. Polled(r.src, s, i) = req[s[i - 1]].src
    BY <1>5 DEF Polled
  <2>2. i - 1 \in 1..Len(s)
    BY <1>1, <1>5
  <2> QED BY <1>3, <2>1, <2>2
<1>6. ASSUME NEW i \in 1..Len(s), i < Len(s)
      PROVE  i + 1 \in 1..Len(s) /\ req[s[i + 1]].dst = req[s[i]].src
  <2>1. i + 1 \in 1..Len(s) /\ i + 1 # 1 /\ (i + 1) - 1 = i
    BY <1>1, <1>6
  <2>2. req[s[i + 1]].dst = req[s[(i + 1) - 1]].src
    BY <1>5, <2>1
  <2> QED BY <2>1, <2>2
<1> QED BY <1>4, <1>5, <1>6

\* What the members of the list, and t, hold before and after the wake-up.
Woken(t, r, s, last, branch) ==
  /\ t # NoThread /\ t \notin Range(s)
  /\ \A i \in 1..Len(s) :
       /\ s[i] \in Threads \ {t} /\ Heirs(s[i]) = {}
       /\ pc[s[i]] = "queued" /\ InQueue(s[i]) /\ ~InQueue(s[i])'
       /\ Heirs(s[i])' = (IF i < Len(s) THEN {s[i + 1]} ELSE {last}) \ {NoThread}
  /\ Heirs(t) = {}
  /\ Heirs(t)' = IF s = <<>> THEN {} ELSE {s[1]}
  /\ ~InQueue(t) /\ ~InQueue(t)'
  /\ \A u \in Threads \ {t} : u \notin Range(s) =>
       /\ Heirs(u)' = Heirs(u) /\ path'[u] = path[u] /\ child'[u] = child[u]
       /\ (InQueue(u)' <=> InQueue(u))
  /\ \A i \in 1..Len(s) : path'[s[i]] = "chained"
  /\ path'[t] = branch
  /\ pc'[t] = "prepare" /\ req'[t] = r
  /\ \A u \in Threads \ {t} : pc'[u] = pc[u] /\ req'[u] = req[u]
  /\ \A d \in Devices : waitingTransfers[d] = <<>> => waitingTransfers'[d] = <<>>

LEMMA WakeHolds ==
  ASSUME SlotsInv, NEW t \in Threads, pc[t] \in {"idle", "woken"},
         path[t] \in {"none", "waiting"},
         NEW r, NEW s \in WaiterLists, NEW last \in {NoThread, t},
         NEW branch \in {"noDepend", "cycle"},
         Wake(t, s, last, branch),
         pc' = [pc EXCEPT ![t] = "prepare"], req' = [req EXCEPT ![t] = r],
         UNCHANGED wtChild
  PROVE  Woken(t, r, s, last, branch)
<1>1. last \in Ids /\ t # NoThread
  BY StorageAssumption DEF Ids
<1>2. /\ t \notin Range(s)
      /\ \A u \in Range(s) :
           /\ u \in Threads /\ pc[u] = "queued" /\ path[u] = "waiting" /\ InQueue(u)
      /\ \A d \in Devices :
           /\ Range(waitingTransfers'[d]) \subseteq Range(waitingTransfers[d])
           /\ Range(waitingTransfers'[d]) \cap Range(s) = {}
  BY <1>1, WakeFacts DEF SlotsInv
<1>3. /\ Len(s) \in Nat
      /\ \A u : u \in Range(s) <=> \E i \in 1..Len(s) : s[i] = u
      /\ \A i \in 1..Len(s) :
           NextInList(s, s[i], last) = IF i < Len(s) THEN s[i + 1] ELSE last
  BY ListPlaces DEF SlotsInv
<1>4. \A u \in Threads : /\ pc[u] \in {"idle", "queued", "woken"} => wtChild[u] = NoThread
                         /\ path[u] \in {"none", "waiting"} => child[u] = NoThread
  BY DEF SlotsInv, AloneInv, Inv, StepInv, NotStarted
<1>5. /\ child'[t] = IF s = <<>> THEN NoThread ELSE s[1]
      /\ \A i \in 1..Len(s) : child'[s[i]] = IF i < Len(s) THEN s[i + 1] ELSE last
      /\ \A u \in Threads \ {t} : u \notin Range(s) => child'[u] = child[u] /\ path'[u] = path[u]
      /\ \A i \in 1..Len(s) : path'[s[i]] = "chained"
      /\ path'[t] = branch
  BY <1>2, <1>3 DEF Wake
<1>6. \A i \in 1..Len(s) : s[i] \in Range(s)
  BY <1>3
<1>7. \A i \in 1..Len(s) : s[i] # NoThread
  BY <1>2, <1>6, StorageAssumption
<1>8. ASSUME NEW i \in 1..Len(s)
      PROVE  /\ s[i] \in Threads \ {t} /\ Heirs(s[i]) = {}
             /\ pc[s[i]] = "queued" /\ InQueue(s[i]) /\ ~InQueue(s[i])'
             /\ Heirs(s[i])' = (IF i < Len(s) THEN {s[i + 1]} ELSE {last}) \ {NoThread}
  <2>1. s[i] \in Threads \ {t} /\ pc[s[i]] = "queued" /\ path[s[i]] = "waiting" /\ InQueue(s[i])
    BY <1>2, <1>6
  <2>2. wtChild[s[i]] = NoThread /\ child[s[i]] = NoThread /\ wtChild'[s[i]] = NoThread
    BY <1>4, <2>1
  <2>3. ~InQueue(s[i])'
    BY <1>2, <1>6 DEF InQueue
  <2>4. Heirs(s[i])' = (IF i < Len(s) THEN {s[i + 1]} ELSE {last}) \ {NoThread}
    BY <1>5, <2>2 DEF Heirs
  <2> QED BY <2>1, <2>2, <2>3, <2>4 DEF Heirs
<1>9. /\ Heirs(t) = {}
      /\ Heirs(t)' = IF s = <<>> THEN {} ELSE {s[1]}
  <2>1. wtChild[t] = NoThread /\ child[t] = NoThread /\ wtChild'[t] = NoThread
    BY <1>4
  <2>2. s # <<>> => s[1] # NoThread
    <3>1. s # <<>> => 1 \in 1..Len(s)
      BY ListPlaces, <1>3, EmptySeq DEF SlotsInv
    <3> QED BY <1>7, <3>1
  <2> QED BY <1>5, <2>1, <2>2 DEF Heirs
<1>10. ~InQueue(t) /\ ~InQueue(t)'
  BY <1>2 DEF SlotsInv, Inv, WaitingInv, InQueue
<1>11. ASSUME NEW u \in Threads \ {t}, u \notin Range(s)
       PROVE  /\ Heirs(u)' = Heirs(u) /\ path'[u] = path[u] /\ child'[u] = child[u]
              /\ (InQueue(u)' <=> InQueue(u))
  <2>1. InQueue(u)' => InQueue(u)
    BY <1>2 DEF InQueue
  <2>2. ASSUME NEW d \in Devices, u \in Range(waitingTransfers[d])
        PROVE  u \in Range(waitingTransfers'[d])
    <3>1. waitingTransfers[d] \in Seq(Threads)
      BY DEF SlotsInv, Inv, TypeOK
    <3>2. waitingTransfers'[d] = Without(waitingTransfers[d], Range(s))
      BY DEF Wake
    <3> QED BY <1>11, <2>2, <3>1, <3>2, WithoutKeeps
  <2>3. InQueue(u) => InQueue(u)'
    BY <2>2 DEF InQueue
  <2> QED BY <1>5, <1>11, <2>1, <2>3 DEF Heirs
<1>12. /\ pc'[t] = "prepare" /\ req'[t] = r
       /\ \A u \in Threads \ {t} : pc'[u] = pc[u] /\ req'[u] = req[u]
  BY DEF SlotsInv, Inv, TypeOK
<1>13. ASSUME NEW d \in Devices, waitingTransfers[d] = <<>>
       PROVE  waitingTransfers'[d] = <<>>
  <2>1. ~\E k \in 1..Len(waitingTransfers[d]) : waitingTransfers[d][k] \in Range(s)
    BY <1>13, EmptySeq
  <2> QED BY <1>13, <2>1 DEF Wake, Without
<1> QED BY <1>1, <1>2, <1>5, <1>8, <1>9, <1>10, <1>11, <1>12, <1>13 DEF Woken

\* The slots of one device in a wake-up, t's own coming left aside: a member of
\* the list comes when the one before it leaves; at the end of a cycle the last
\* member leaves the device t comes to.
HandsOver(t, d) ==
  /\ waitingTransfers[d] # <<>>
  /\ \E p \in Threads : OnlyLeaves(p, d)
  /\ \E q \in Threads \ {t} :
       /\ Comes(q, d)' /\ ~Comes(q, d)
       /\ \A u \in Threads \ {t} : Comes(u, d)' => Comes(u, d) \/ u = q

NobodyElseCame(t, d) == \A u \in Threads \ {t} : Comes(u, d)' => Comes(u, d)

LEMMA WakeSlots ==
  ASSUME SlotsInv, NEW t \in Threads, pc[t] \in {"idle", "woken"},
         path[t] \in {"none", "waiting"},
         NEW r, r.src \in Places, r.src # r.dst,
         NEW s \in WaiterLists, NEW last \in {NoThread, t},
         NEW branch \in {"noDepend", "cycle"},
         Wake(t, s, last, branch), Linked(r, s), last = t => Closes(r, s),
         pc' = [pc EXCEPT ![t] = "prepare"], req' = [req EXCEPT ![t] = r],
         UNCHANGED <<wtChild, componentPlacement>>,
         Running(t) => req[t] = r
  PROVE  /\ AloneInv' /\ HeirPlace' /\ Onward
         /\ \A d \in Devices :
              \/ HandsOver(t, d) /\ ~(last = t /\ d = r.dst)
              \/ /\ NobodyElseCame(t, d)
                 /\ IF last = t /\ d = r.dst THEN \E p \in Threads : OnlyLeaves(p, d)
                    ELSE NobodyLeaves(d)
<1>1. /\ t # NoThread /\ t \notin Range(s)
      /\ \A i \in 1..Len(s) :
           /\ s[i] \in Threads \ {t} /\ Heirs(s[i]) = {}
           /\ pc[s[i]] = "queued" /\ InQueue(s[i]) /\ ~InQueue(s[i])'
           /\ Heirs(s[i])' = (IF i < Len(s) THEN {s[i + 1]} ELSE {last}) \ {NoThread}
      /\ Heirs(t) = {}
      /\ Heirs(t)' = IF s = <<>> THEN {} ELSE {s[1]}
      /\ ~InQueue(t) /\ ~InQueue(t)'
      /\ \A u \in Threads \ {t} : u \notin Range(s) =>
           /\ Heirs(u)' = Heirs(u) /\ path'[u] = path[u] /\ child'[u] = child[u]
           /\ (InQueue(u)' <=> InQueue(u))
      /\ \A i \in 1..Len(s) : path'[s[i]] = "chained"
      /\ path'[t] = branch
      /\ pc'[t] = "prepare" /\ req'[t] = r
      /\ \A u \in Threads \ {t} : pc'[u] = pc[u] /\ req'[u] = req[u]
  <2>1. Woken(t, r, s, last, branch)
    BY WakeHolds
  <2> QED BY <2>1 DEF Woken
<1>2. /\ Len(s) \in Nat
      /\ \A i, j \in 1..Len(s) : req[s[i]].dst = req[s[j]].dst => i = j
      /\ \A u : u \in Range(s) <=> \E i \in 1..Len(s) : s[i] = u
  BY ListPlaces DEF SlotsInv
<1>3. /\ s # <<>> => /\ 1 \in 1..Len(s)
                     /\ r.src \in Devices /\ req[s[1]].dst = r.src
      /\ \A i \in 1..Len(s) : i # 1 =>
           i - 1 \in 1..Len(s) /\ req[s[i]].dst = req[s[i - 1]].src
      /\ \A i \in 1..Len(s) : i < Len(s) =>
           i + 1 \in 1..Len(s) /\ req[s[i + 1]].dst = req[s[i]].src
  BY LinkedPlaces DEF SlotsInv
<1>4. AloneInv'
  <2> SUFFICES ASSUME NEW u \in Threads, path'[u] = "waiting"
               PROVE  child'[u] = NoThread
    BY DEF AloneInv
  <2>1. u # t /\ u \notin Range(s)
    BY <1>1, <1>2
  <2> QED BY <1>1, <2>1 DEF SlotsInv, AloneInv
<1>5. /\ \A i \in 1..Len(s) : ~HandedOn(s[i])
      /\ ~HandedOn(t)
      /\ HandedOn(t)' <=> s # <<>>
      /\ \A i \in 1..Len(s) : HandedOn(s[i])' <=> (i < Len(s) \/ last = t)
      /\ \A u \in Threads \ {t} : u \notin Range(s) =>
           (HandedOn(u)' <=> HandedOn(u)) /\ (Owes(u)' <=> Owes(u))
  <2>1. \A i \in 1..Len(s) : ~HandedOn(s[i])
    BY <1>1 DEF HandedOn, Performing
  <2>2. ~HandedOn(t)
    BY <1>1 DEF HandedOn, Performing
  <2>3. HandedOn(t)' <=> s # <<>>
    BY <1>1 DEF HandedOn, Performing
  <2>4. \A i \in 1..Len(s) : i < Len(s) => s[i + 1] # NoThread
    BY <1>1, <1>3, StorageAssumption
  <2>5. \A i \in 1..Len(s) : HandedOn(s[i])' <=> (i < Len(s) \/ last = t)
    <3> SUFFICES ASSUME NEW i \in 1..Len(s)
                 PROVE  HandedOn(s[i])' <=> (i < Len(s) \/ last = t)
      OBVIOUS
    <3>1. PICK x : x = s[i]
      OBVIOUS
    <3>2. pc'[x] = "queued"
      BY <1>1, <3>1
    <3>3. HandedOn(x)' <=> Heirs(x)' # {}
      BY <3>2 DEF HandedOn, Performing
    <3>4. Heirs(x)' = (IF i < Len(s) THEN {s[i + 1]} ELSE {last}) \ {NoThread}
      BY <1>1, <3>1
    <3>5. Heirs(x)' # {} <=> (i < Len(s) \/ last = t)
      BY <1>1, <2>4, <3>4
    <3> QED BY <3>1, <3>3, <3>5
  <2>6. \A u \in Threads \ {t} : u \notin Range(s) =>
           (HandedOn(u)' <=> HandedOn(u)) /\ (Owes(u)' <=> Owes(u))
    BY <1>1 DEF HandedOn, Owes, Performing
  <2> QED BY <2>1, <2>2, <2>3, <2>5, <2>6
<1>6. /\ Running(t)' /\ \A u \in Threads \ {t} : Running(u)' <=> Running(u)
      /\ \A i \in 1..Len(s) : Running(s[i]) /\ Running(s[i])'
  BY <1>1 DEF Running
<1>7. HeirPlace'
  <2> SUFFICES ASSUME NEW p \in Threads, NEW u \in Heirs(p)', Owes(p)'
               PROVE  req'[u].dst = req'[p].src /\ Running(u)' /\ ~InQueue(u)'
    BY DEF HeirPlace
  <2>1. CASE p = t
    BY <1>1, <1>3, <1>6, <2>1
  <2>2. ASSUME NEW i \in 1..Len(s), p = s[i]
        PROVE  req'[u].dst = req'[p].src /\ Running(u)' /\ ~InQueue(u)'
    <3>1. u \in (IF i < Len(s) THEN {s[i + 1]} ELSE {last}) \ {NoThread}
      BY <1>1, <2>2
    <3>2. CASE i < Len(s)
      BY <1>1, <1>3, <1>6, <2>2, <3>1, <3>2
    <3>3. CASE ~(i < Len(s))
      <4>1. u = t /\ last = t /\ i = Len(s)
        BY <1>2, <3>1, <3>3
      <4>2. req[s[i]].src = r.dst
        BY <4>1 DEF Closes
      <4> QED BY <1>1, <1>6, <2>2, <4>1, <4>2
    <3> QED BY <3>2, <3>3
  <2>3. CASE p # t /\ p \notin Range(s)
    <3>1. u \in Heirs(p) /\ Owes(p) /\ u \in Threads
      BY <1>1, <1>5, <2>3, HeirsAreThreads DEF SlotsInv, Inv
    <3>2. /\ req[u].dst = req[p].src /\ Running(u) /\ ~InQueue(u)
          /\ path[u] \in {"reserved", "cycle", "chained"}
      BY <3>1 DEF SlotsInv, HeirPlace, Inv, HeirInv
    <3>3. u # t /\ u \notin Range(s)
      BY <1>1, <1>2, <3>2
    <3> QED BY <1>1, <1>6, <2>3, <3>1, <3>2, <3>3
  <2> QED BY <1>2, <2>1, <2>2, <2>3
<1>8. ASSUME NEW u \in Threads, NEW d \in Devices, Comes(u, d)
      PROVE  Comes(u, d)'
  <2>1. u \notin Range(s)
    BY <1>1, <1>2, <1>8 DEF Comes
  <2> QED BY <1>1, <1>6, <1>8, <2>1 DEF Comes
<1>9. Onward
  <2>1. \A u \in Threads : HandedOn(u) => HandedOn(u)' /\ req'[u].comp = req[u].comp
    BY <1>1, <1>2, <1>5
  <2> QED BY <1>8, <2>1 DEF Onward
<1>10. ASSUME NEW d \in Devices
       PROVE  \/ HandsOver(t, d) /\ ~(last = t /\ d = r.dst)
              \/ /\ NobodyElseCame(t, d)
                 /\ IF last = t /\ d = r.dst THEN \E p \in Threads : OnlyLeaves(p, d)
                    ELSE NobodyLeaves(d)
  <2>1. Leaves(t, d) <=> s # <<>> /\ r.src = d
    BY <1>1, <1>5 DEF Leaves
  <2>2. \A i \in 1..Len(s) :
          Leaves(s[i], d) <=> (i < Len(s) \/ last = t) /\ req[s[i]].src = d
    BY <1>1, <1>5 DEF Leaves
  <2>3. \A u \in Threads \ {t} : u \notin Range(s) => ~Leaves(u, d)
    BY <1>5 DEF Leaves
  <2>4. \A i \in 1..Len(s) : ~Comes(s[i], d) /\ (Comes(s[i], d)' <=> req[s[i]].dst = d)
    BY <1>1, <1>6 DEF Comes
  <2>5. \A u \in Threads \ {t} : u \notin Range(s) => (Comes(u, d)' => Comes(u, d))
    BY <1>1, <1>6 DEF Comes
  <2>6. CASE \E i \in 1..Len(s) : req[s[i]].dst = d
    <3>1. PICK i \in 1..Len(s) : req[s[i]].dst = d
      BY <2>6
    <3>2. waitingTransfers[d] # <<>>
      BY <1>1, <3>1, EmptySeq DEF SlotsInv, Inv, WaitingInv, InQueue, Range
    <3>3. \E q \in Threads \ {t} :
            /\ Comes(q, d)' /\ ~Comes(q, d)
            /\ \A u \in Threads \ {t} : Comes(u, d)' => Comes(u, d) \/ u = q
      <4>1. \A u \in Threads \ {t} : Comes(u, d)' => Comes(u, d) \/ u = s[i]
        BY <1>2, <2>4, <2>5, <3>1
      <4> QED BY <1>1, <2>4, <3>1, <4>1
    <3>4. ~(last = t /\ d = r.dst)
      <4> SUFFICES ASSUME last = t, d = r.dst PROVE FALSE
        OBVIOUS
      <4>1. i # 1
        BY <1>3, <3>1
      <4>2. i - 1 \in 1..Len(s) /\ req[s[i - 1]].src = r.dst
        BY <1>3, <3>1, <4>1
      <4>3. i - 1 = Len(s)
        BY <4>2 DEF Closes
      <4> QED BY <1>2, <4>3
    <3>5. \A j \in 1..Len(s) : Leaves(s[j], d) => j < Len(s) /\ j + 1 = i
      <4> SUFFICES ASSUME NEW j \in 1..Len(s), Leaves(s[j], d)
                   PROVE  j < Len(s) /\ j + 1 = i
        OBVIOUS
      <4>1. req[s[j]].src = d
        BY <2>2
      <4>2. j < Len(s)
        BY <1>2, <2>2, <3>4, <4>1 DEF Closes
      <4> QED BY <1>2, <1>3, <3>1, <4>1, <4>2
    <3>6. \E p \in Threads : OnlyLeaves(p, d)
      <4>1. CASE i = 1
        <5>1. r.src = d /\ s # <<>>
          BY <1>2, <1>3, <3>1, <4>1, EmptySeq
        <5>2. \A j \in 1..Len(s) : ~Leaves(s[j], d)
          BY <1>2, <3>5, <4>1
        <5>3. Leaves(t, d) /\ \A u \in Threads : Leaves(u, d) => u = t
          BY <1>2, <2>1, <2>3, <5>1, <5>2
        <5> QED BY <5>3 DEF OnlyLeaves
      <4>2. CASE i # 1
        <5>1. i - 1 \in 1..Len(s) /\ req[s[i - 1]].src = d /\ i - 1 < Len(s)
          BY <1>2, <1>3, <3>1, <4>2
        <5>2. Leaves(s[i - 1], d)
          BY <2>2, <5>1
        <5>3. ~Leaves(t, d)
          BY <1>2, <1>3, <2>1, <3>1, <4>2
        <5>4. \A j \in 1..Len(s) : Leaves(s[j], d) => j = i - 1
          BY <1>2, <3>5
        <5>5. \A u \in Threads : Leaves(u, d) => u = s[i - 1]
          BY <1>2, <2>3, <5>3, <5>4
        <5> QED BY <1>1, <5>1, <5>2, <5>5 DEF OnlyLeaves
      <4> QED BY <4>1, <4>2
    <3> QED BY <3>2, <3>3, <3>4, <3>6 DEF HandsOver
  <2>7. CASE ~\E i \in 1..Len(s) : req[s[i]].dst = d
    <3>1. NobodyElseCame(t, d)
      BY <1>2, <2>4, <2>5, <2>7 DEF NobodyElseCame
    <3>2. ~Leaves(t, d)
      BY <1>3, <2>1, <2>7
    <3>3. \A j \in 1..Len(s) : Leaves(s[j], d) => j = Len(s) /\ last = t /\ req[s[j]].src = d
      BY <1>2, <1>3, <2>2, <2>7
    <3>4. CASE last = t /\ d = r.dst
      <4>1. Len(s) \in 1..Len(s) /\ req[s[Len(s)]].src = d
        BY <1>2, <3>4, EmptySeq, ListPlaces DEF Closes, SlotsInv
      <4>2. Leaves(s[Len(s)], d)
        BY <2>2, <3>4, <4>1
      <4>3. \A u \in Threads : Leaves(u, d) => u = s[Len(s)]
        BY <1>2, <2>3, <3>2, <3>3
      <4> QED BY <1>1, <3>1, <3>4, <4>1, <4>2, <4>3 DEF OnlyLeaves
    <3>5. CASE ~(last = t /\ d = r.dst)
      <4>1. \A j \in 1..Len(s) : ~Leaves(s[j], d)
        BY <3>3, <3>5 DEF Closes
      <4>2. NobodyLeaves(d)
        BY <1>2, <2>3, <3>2, <4>1 DEF NobodyLeaves
      <4> QED BY <3>1, <3>5, <4>2
    <3> QED BY <3>4, <3>5
  <2> QED BY <2>6, <2>7
<1> QED BY <1>4, <1>7, <1>9, <1>10

LEMMA ChainLinked ==
  ASSUME Inv, NEW s \in WaiterLists, NEW r, r.src \in Places, IsWakeChain(r.src, s)
  PROVE  Linked(r, s)
<1> SUFFICES ASSUME NEW i \in 1..Len(s)
             PROVE  /\ Polled(r.src, s, i) # NoDevice
                    /\ s[i] \in Range(waitingTransfers[Polled(r.src, s, i)])
  BY DEF Linked
<1> DEFINE d == Polled(r.src, s, i)
<1>1. d # NoDevice /\ waitingTransfers[d] # <<>> /\ s[i] = Head(waitingTransfers[d])
  BY DEF IsWakeChain
<1>2. d \in Places
  <2>1. CASE i = 1
    BY <2>1 DEF Polled
  <2>2. CASE i # 1
    <3>1. Len(s) \in Nat /\ s \in Seq(Waiters)
      BY ListPlaces
    <3>2. i - 1 \in 1..Len(s)
      BY <2>2, <3>1
    <3>3. s[i - 1] \in Threads
      BY <3>1, <3>2 DEF Waiters
    <3> QED BY <2>2, <3>3 DEF Polled, Inv, TypeOK
  <2> QED BY <2>1, <2>2
<1> HIDE DEF d
<1>3. waitingTransfers[d] \in Seq(Threads)
  BY <1>1, <1>2 DEF Places, Inv, TypeOK
<1>4. s[i] = waitingTransfers[d][1] /\ 1 \in 1..Len(waitingTransfers[d])
  BY <1>1, <1>3, HeadTailProperties, EmptySeq, LenProperties
<1>5. s[i] \in Range(waitingTransfers[d])
  BY <1>3, <1>4, RangeSeq
<1> QED BY <1>1, <1>5 DEF d

LEMMA NoDependSlots ==
  ASSUME SlotsInv, NEW t \in Threads, ExecuteNoDepend(t)
  PROVE  SlotsInv'
<1>0. Inv'
  BY InvStep DEF SlotsInv, Next, Execute
<1>1. PICK r \in Requests :
        /\ Admit(t, r) /\ ~MustWait(r) /\ NoDepend(t, r) /\ UNCHANGED wtChild
        /\ freeSlots' = IF r.dst = NoDevice THEN freeSlots
                        ELSE [freeSlots EXCEPT ![r.dst] = @ - 1]
  BY DEF ExecuteNoDepend
<1>2. PICK s \in WaiterLists :
        IsWakeChain(r.src, s) /\ Wake(t, s, NoThread, "noDepend")
  BY <1>1 DEF NoDepend
<1>3. pc' = [pc EXCEPT ![t] = "prepare"]
  BY <1>1 DEF NoDepend
<1>4. /\ PlacedInv'
      /\ ~Running(t) /\ Running(t)' /\ req'[t] = r
      /\ r.src \in Places /\ r.dst \in Places /\ r.src # r.dst
      /\ UNCHANGED componentPlacement
  BY <1>1, <1>3, AdmitFacts
<1>5. pc[t] = "idle" /\ path[t] = "none" /\ req' = [req EXCEPT ![t] = r] /\ NoThread # t
  BY <1>1, <1>4, Admitted, StorageAssumption DEF SlotsInv, Inv, StepInv
<1>6. Linked(r, s)
  BY <1>2, <1>4, ChainLinked DEF SlotsInv
<1>7. /\ AloneInv' /\ HeirPlace' /\ Onward
      /\ \A d \in Devices : HandsOver(t, d) \/ (NobodyElseCame(t, d) /\ NobodyLeaves(d))
  BY <1>1, <1>2, <1>3, <1>4, <1>5, <1>6, WakeSlots
<1>8. Woken(t, r, s, NoThread, "noDepend")
  BY <1>1, <1>2, <1>3, <1>5, WakeHolds
<1>9. /\ \A d \in Devices : waitingTransfers[d] = <<>> => waitingTransfers'[d] = <<>>
      /\ ~InQueue(t)'
  BY <1>8 DEF Woken
<1>10. /\ r.dst # NoDevice => r.dst \in Devices /\ waitingTransfers[r.dst] = <<>>
                              /\ freeSlots'[r.dst] = freeSlots[r.dst] - 1
       /\ \A d \in Devices \ {r.dst} : freeSlots'[d] = freeSlots[d]
  <2>1. r.dst # NoDevice => r.dst \in Devices /\ freeSlots[r.dst] # 0
    BY <1>1, <1>4 DEF MustWait, Places
  <2>2. NoDevice \notin Devices
    BY StorageAssumption
  <2> QED BY <1>1, <2>1, <2>2 DEF SlotsInv, QueueFull, Inv, TypeOK
<1>11. QueueFull'
  BY <1>9, <1>10, StorageAssumption DEF SlotsInv, QueueFull
<1>12. ASSUME NEW d \in Devices
       PROVE  Kept(d) \/ Passed(d) \/ Freed(d) \/ Taken(d)
  <2>1. ~Comes(t, d) /\ (Comes(t, d)' <=> r.dst = d)
    BY <1>4, <1>9 DEF Comes
  <2>2. CASE d = r.dst
    <3>1. NobodyElseCame(t, d) /\ NobodyLeaves(d) /\ freeSlots'[d] = freeSlots[d] - 1
      BY <1>7, <1>10, <2>2, StorageAssumption DEF HandsOver
    <3>2. OnlyCame(t, d)
      BY <2>1, <2>2, <3>1 DEF OnlyCame, NobodyElseCame
    <3> QED BY <3>1, <3>2 DEF Taken
  <2>3. CASE d # r.dst
    <3>1. freeSlots'[d] = freeSlots[d]
      BY <1>10, <2>3
    <3>2. CASE HandsOver(t, d)
      BY <2>1, <2>3, <3>1, <3>2 DEF HandsOver, Passed, OnlyCame
    <3>3. CASE NobodyElseCame(t, d) /\ NobodyLeaves(d)
      BY <2>1, <2>3, <3>1, <3>3 DEF NobodyElseCame, NobodyCame, Kept
    <3> QED BY <1>7, <3>2, <3>3
  <2> QED BY <2>2, <2>3
<1>13. SlotAccounting'
  BY <1>0, <1>4, <1>7, <1>12, Balance DEF SlotsInv
<1> QED BY <1>0, <1>4, <1>7, <1>11, <1>13 DEF SlotsInv

LEMMA CycleSlots ==
  ASSUME SlotsInv, NEW t \in Threads, ExecuteCycle(t)
  PROVE  SlotsInv'
<1>0. Inv'
  BY InvStep DEF SlotsInv, Next, Execute
<1>1. PICK r \in Requests, s \in WaiterLists :
        /\ Admit(t, r) /\ MustWait(r) /\ r.src # NoDevice
        /\ IsCycle(r.src, r.dst, s) /\ Wake(t, s, t, "cycle")
        /\ pc' = [pc EXCEPT ![t] = "prepare"]
        /\ UNCHANGED <<wtChild, freeSlots>>
  BY DEF ExecuteCycle, IsWakeCycle, Cycles
<1>2. /\ PlacedInv'
      /\ ~Running(t) /\ Running(t)' /\ req'[t] = r
      /\ r.src \in Places /\ r.dst \in Places /\ r.src # r.dst
      /\ UNCHANGED componentPlacement
  BY <1>1, AdmitFacts
<1>3. pc[t] = "idle" /\ path[t] = "none" /\ req' = [req EXCEPT ![t] = r]
  BY <1>1, <1>2, Admitted DEF SlotsInv, Inv, StepInv
<1>4. Linked(r, s) /\ Closes(r, s)
  BY <1>1 DEF IsCycle, Linked, Closes
<1>5. r.dst \in Devices
  BY <1>1, <1>2 DEF MustWait, Places
<1>6. /\ AloneInv' /\ HeirPlace' /\ Onward
      /\ \A d \in Devices :
           \/ HandsOver(t, d) /\ d # r.dst
           \/ /\ NobodyElseCame(t, d)
              /\ IF d = r.dst THEN \E p \in Threads : OnlyLeaves(p, d)
                 ELSE NobodyLeaves(d)
  BY <1>1, <1>2, <1>3, <1>4, WakeSlots
<1>7. Woken(t, r, s, t, "cycle")
  BY <1>1, <1>3, WakeHolds
<1>8. /\ \A d \in Devices : waitingTransfers[d] = <<>> => waitingTransfers'[d] = <<>>
      /\ ~InQueue(t)'
  BY <1>7 DEF Woken
<1>9. QueueFull'
  BY <1>1, <1>8 DEF SlotsInv, QueueFull
<1>10. ASSUME NEW d \in Devices
       PROVE  Kept(d) \/ Passed(d) \/ Freed(d) \/ Taken(d)
  <2>1. ~Comes(t, d) /\ (Comes(t, d)' <=> r.dst = d) /\ freeSlots'[d] = freeSlots[d]
    BY <1>1, <1>2, <1>8 DEF Comes
  <2>2. CASE d = r.dst
    <3>1. OnlyCame(t, d)
      BY <1>6, <2>1, <2>2 DEF OnlyCame, NobodyElseCame
    <3> QED BY <1>6, <2>1, <2>2, <3>1 DEF Passed
  <2>3. CASE d # r.dst /\ HandsOver(t, d)
    BY <2>1, <2>3 DEF HandsOver, Passed, OnlyCame
  <2>4. CASE d # r.dst /\ NobodyElseCame(t, d) /\ NobodyLeaves(d)
    BY <2>1, <2>4 DEF NobodyElseCame, NobodyCame, Kept
  <2> QED BY <1>6, <2>2, <2>3, <2>4
<1>11. SlotAccounting'
  BY <1>0, <1>2, <1>6, <1>10, Balance DEF SlotsInv
<1> QED BY <1>0, <1>2, <1>6, <1>9, <1>11 DEF SlotsInv

LEMMA WokenAloneSlots ==
  ASSUME SlotsInv, NEW t \in Threads, WokenAlone(t)
  PROVE  SlotsInv'
<1>0. Inv'
  BY InvStep DEF SlotsInv, Next, Continue
<1>1. PICK r : r = req[t]
  OBVIOUS
<1>2. /\ pc[t] = "woken" /\ path[t] = "waiting" /\ NoDepend(t, r)
      /\ UNCHANGED <<req, wtChild, componentPlacement, freeSlots>>
  BY <1>1 DEF WokenAlone
<1>3. PICK s \in WaiterLists :
        IsWakeChain(r.src, s) /\ Wake(t, s, NoThread, "noDepend")
  BY <1>2 DEF NoDepend
<1>4. pc' = [pc EXCEPT ![t] = "prepare"]
  BY <1>2 DEF NoDepend
<1>5. /\ r.src \in Places /\ r.src # r.dst /\ req' = [req EXCEPT ![t] = r]
      /\ NoThread # t
  BY <1>1, <1>2, StorageAssumption DEF SlotsInv, Inv, TypeOK, StepInv, Running
<1>6. Linked(r, s)
  BY <1>3, <1>5, ChainLinked DEF SlotsInv
<1>7. /\ AloneInv' /\ HeirPlace' /\ Onward
      /\ \A d \in Devices : HandsOver(t, d) \/ (NobodyElseCame(t, d) /\ NobodyLeaves(d))
  BY <1>1, <1>2, <1>3, <1>4, <1>5, <1>6, WakeSlots
<1>8. Woken(t, r, s, NoThread, "noDepend")
  BY <1>2, <1>3, <1>4, <1>5, WakeHolds
<1>9. /\ \A d \in Devices : waitingTransfers[d] = <<>> => waitingTransfers'[d] = <<>>
      /\ ~InQueue(t) /\ ~InQueue(t)'
      /\ pc'[t] = "prepare" /\ \A u \in Threads \ {t} : pc'[u] = pc[u]
  BY <1>8 DEF Woken
<1>10. \A u \in Threads : Running(u)' <=> Running(u)
  BY <1>2, <1>9 DEF Running
<1>11. PlacedInv' /\ QueueFull'
  BY <1>2, <1>9, <1>10 DEF SlotsInv, PlacedInv, QueueFull
<1>12. ASSUME NEW d \in Devices
       PROVE  Kept(d) \/ Passed(d) \/ Freed(d) \/ Taken(d)
  <2>1. (Comes(t, d)' <=> Comes(t, d)) /\ freeSlots'[d] = freeSlots[d]
    BY <1>2, <1>9, <1>10 DEF Comes
  <2>2. CASE HandsOver(t, d)
    BY <2>1, <2>2 DEF HandsOver, Passed, OnlyCame
  <2>3. CASE NobodyElseCame(t, d) /\ NobodyLeaves(d)
    BY <2>1, <2>3 DEF NobodyElseCame, NobodyCame, Kept
  <2> QED BY <1>7, <2>2, <2>3
<1>13. SlotAccounting'
  BY <1>0, <1>7, <1>11, <1>12, Balance DEF SlotsInv
<1> QED BY <1>0, <1>7, <1>11, <1>13 DEF SlotsInv

-----------------------------------------------------------------------------
(* The invariant *)

LEMMA SlotsInit == Init => SlotsInv
<1> SUFFICES ASSUME Init PROVE SlotsInv
  OBVIOUS
<1>1. Inv
  BY InvInit
<1>2. \A t \in Threads : ~Running(t) /\ ~HandedOn(t) /\ Heirs(t) = {} /\ path[t] = "none"
  BY DEF Init, Running, HandedOn, Heirs, Performing
<1>3. PlacedInv /\ AloneInv /\ HeirPlace
  BY <1>2 DEF PlacedInv, AloneInv, HeirPlace
<1>4. QueueFull
  BY DEF Init, QueueFull
<1>5. SlotAccounting
  <2> SUFFICES ASSUME NEW d \in Devices
               PROVE  freeSlots[d] + Cardinality(SourceHeld(d))
                        + Cardinality(TargetHeld(d)) = Capacity[d]
    BY DEF SlotAccounting
  <2>1. TargetHeld(d) = {} /\ SourceHeld(d) = Placed(d)
    BY <1>2 DEF TargetHeld, SourceHeld
  <2>2. freeSlots[d] = Capacity[d] - Cardinality(Placed(d))
    BY DEF Init
  <2>3. Capacity[d] \in Nat /\ Cardinality(Placed(d)) \in Nat
    BY <2>1, SlotSetsFinite, StorageAssumption
  <2>4. Cardinality(TargetHeld(d)) = 0
    BY <2>1, FS_EmptySet
  <2> QED BY <2>1, <2>2, <2>3, <2>4
<1> QED BY <1>1, <1>3, <1>4, <1>5 DEF SlotsInv

LEMMA SlotsStep == SlotsInv /\ [Next]_vars => SlotsInv'
<1> SUFFICES ASSUME SlotsInv, [Next]_vars PROVE SlotsInv'
  OBVIOUS
<1>1. CASE UNCHANGED vars
  <2>1. Inv'
    BY <1>1, InvStep DEF SlotsInv
  <2>2. \A t \in Threads : /\ Running(t)' <=> Running(t)
                           /\ HandedOn(t)' <=> HandedOn(t)
                           /\ Owes(t)' => Owes(t)
    BY <1>1 DEF vars, handles, Running, HandedOn, Heirs, Owes, Performing
  <2>3. UNCHANGED <<req, path, child, wtChild, freeSlots, componentPlacement,
                    waitingTransfers>>
    BY <1>1 DEF vars, handles, shared
  <2> QED BY <2>1, <2>2, <2>3, QuietKeeps
<1>2. ASSUME NEW t \in Threads, Execute(t) \/ Continue(t) PROVE SlotsInv'
  BY <1>2, NoDependSlots, ReserveSlots, CycleSlots, EnqueueSlots, WokenAloneSlots,
     FreeSlotSlots, TransferCompletedSlots, QuietStepKeeps
     DEF Execute, Continue, Quiet
<1> QED BY <1>1, <1>2 DEF Next

\* Through every critical section of execute(), freeSlot and transferCompleted each
\* slot has one owner: who holds it, who was promised it, or freeSlots.
THEOREM SlotsInvariance == Spec => []SlotsInv
<1> QED BY SlotsInit, SlotsStep, PTL DEF Spec

\* However many callers, devices and slots there are, no slot is lost and none is
\* given away twice: free slots, slots that are left and slots that are promised add
\* up to the capacity (noDepend, hasDepend, onFrozenWake, freeSlot).
THEOREM SlotsAddUp == Spec => []SlotAccounting
<1>1. SlotsInv => SlotAccounting
  BY DEF SlotsInv
<1> QED BY <1>1, SlotsInvariance, PTL

-----------------------------------------------------------------------------
(* What stands on a device *)

\* u has been given the slot in which c stands, or c is the component of u and has
\* got its new slot.
SlotOf(c, u) ==
  \E t \in Threads :
    /\ req[t].comp = c
    /\ \/ Performing(t) /\ u = t
       \/ Running(t) /\ ~Prepared(t) /\ u \in Heirs(t)

\* Each component on d either keeps a slot of its own or stands in the slot of one
\* transfer that comes to d, and no two stand in the same one.
LEMMA StandsInSlot ==
  ASSUME SlotsInv, NEW d \in Devices, NEW c \in Components, PhysicalPlace(c) = d,
         c \notin SourceHeld(d)
  PROVE  \E u \in TargetHeld(d) : SlotOf(c, u)
<1>1. CASE \E t \in Threads : req[t].comp = c /\ Prepared(t)
  <2>1. PICK t : t = CHOOSE u \in Threads : req[u].comp = c /\ Prepared(u)
    OBVIOUS
  <2>2. t \in Threads /\ req[t].comp = c /\ Prepared(t)
    BY <1>1, <2>1
  <2>3. Performing(t) /\ req[t].dst = d
    BY <1>1, <2>1, StorageAssumption DEF PhysicalPlace
  <2>4. Running(t) /\ ~InQueue(t)
    BY <2>2, <2>3 DEF Performing, Running, SlotsInv, Inv, WaitingInv, InQueue
  <2> QED BY <2>2, <2>3, <2>4 DEF TargetHeld, SlotOf
<1>2. CASE ~\E t \in Threads : req[t].comp = c /\ Prepared(t)
  <2>1. componentPlacement[c] = d
    BY <1>2 DEF PhysicalPlace
  <2>2. PICK t \in Threads : req[t].comp = c /\ HandedOn(t)
    BY <2>1 DEF SourceHeld, Placed
  <2>3. ~Prepared(t) /\ Running(t) /\ Owes(t)
    <3>1. Running(t)
      BY <2>2 DEF SlotsInv, Inv, StepInv
    <3>2. pc[t] \in {"queued", "woken", "prepare"}
      BY <1>2, <2>2, <3>1 DEF Prepared, Performing, Running, SlotsInv, Inv, TypeOK
    <3> QED BY <1>2, <2>2, <3>1, <3>2 DEF Owes
  <2>4. PICK u \in Heirs(t) : TRUE
    BY <2>2, <2>3 DEF HandedOn, Prepared
  <2>5. u \in Threads /\ req[u].dst = d /\ Running(u) /\ ~InQueue(u)
    BY <2>1, <2>2, <2>3, <2>4, HeirsAreThreads DEF SlotsInv, HeirPlace, PlacedInv, Inv
  <2> QED BY <2>2, <2>3, <2>4, <2>5 DEF TargetHeld, SlotOf
<1> QED BY <1>1, <1>2

LEMMA OneInSlot ==
  ASSUME SlotsInv, NEW c, NEW e, NEW u, SlotOf(c, u), SlotOf(e, u)
  PROVE  c = e
<1>1. PICK t \in Threads :
        /\ req[t].comp = c
        /\ \/ Performing(t) /\ u = t
           \/ Running(t) /\ ~Prepared(t) /\ u \in Heirs(t)
  BY DEF SlotOf
<1>2. PICK p \in Threads :
        /\ req[p].comp = e
        /\ \/ Performing(p) /\ u = p
           \/ Running(p) /\ ~Prepared(p) /\ u \in Heirs(p)
  BY DEF SlotOf
<1>3. \A q \in Threads : Running(q) /\ ~Prepared(q) => Owes(q)
  BY DEF SlotsInv, Inv, TypeOK, Running, Prepared, Performing, Owes
<1>4. \A q \in Threads : Running(q) /\ ~Prepared(q) /\ u \in Heirs(q) => ~Performing(u)
  BY <1>3 DEF SlotsInv, Inv, HeirInv, BeforeAwait, Performing
<1>5. CASE Performing(u)
  BY <1>1, <1>2, <1>4, <1>5
<1>6. CASE ~Performing(u)
  <2>1. u \in Heirs(t) /\ u \in Heirs(p) /\ Owes(t) /\ Owes(p)
    BY <1>1, <1>2, <1>3, <1>6
  <2>2. t = p
    BY <2>1 DEF SlotsInv, Inv, OneParent
  <2> QED BY <1>1, <1>2, <2>2
<1> QED BY <1>5, <1>6

LEMMA CapacityKept == SlotsInv => PhysicalCapacity
<1> SUFFICES ASSUME SlotsInv, NEW d \in Devices
             PROVE  Cardinality({c \in Components : PhysicalPlace(c) = d}) <= Capacity[d]
  BY DEF PhysicalCapacity
<1> DEFINE stand == {c \in Components : PhysicalPlace(c) = d}
           stay == stand \cap SourceHeld(d)
           come == stand \ SourceHeld(d)
           slot == [c \in come |-> CHOOSE u \in TargetHeld(d) : SlotOf(c, u)]
<1>1. /\ IsFiniteSet(SourceHeld(d)) /\ Cardinality(SourceHeld(d)) \in Nat
      /\ IsFiniteSet(TargetHeld(d)) /\ Cardinality(TargetHeld(d)) \in Nat
      /\ freeSlots[d] \in Nat
      /\ freeSlots[d] + Cardinality(SourceHeld(d)) + Cardinality(TargetHeld(d))
           = Capacity[d]
  BY SlotSetsFinite DEF SlotsInv, SlotAccounting, Inv, TypeOK
<1>2. slot \in Injection(come, TargetHeld(d))
  <2>1. \A c \in come : slot[c] \in TargetHeld(d) /\ SlotOf(c, slot[c])
    BY StandsInSlot
  <2>2. slot \in [come -> TargetHeld(d)]
    BY <2>1
  <2>3. \A c, e \in come : slot[c] = slot[e] => c = e
    BY <2>1, OneInSlot
  <2> HIDE DEF slot
  <2> QED BY <2>2, <2>3 DEF Injection, IsInjective
<1>3. IsFiniteSet(come) /\ Cardinality(come) <= Cardinality(TargetHeld(d))
  <2> HIDE DEF slot, come
  <2> QED BY <1>1, <1>2, FS_Injection
<1>4. IsFiniteSet(stay) /\ Cardinality(stay) <= Cardinality(SourceHeld(d))
  <2>1. stay \in SUBSET SourceHeld(d)
    OBVIOUS
  <2> HIDE DEF stay
  <2> QED BY <1>1, <2>1, FS_Subset
<1>5. stand = stay \cup come /\ stay \cap come = {}
  OBVIOUS
<1> HIDE DEF stand, stay, come
<1>6. Cardinality(stay) \in Nat /\ Cardinality(come) \in Nat
  BY <1>3, <1>4, FS_CardinalityType
<1>7. Cardinality(stand) = Cardinality(stay) + Cardinality(come) - Cardinality(stay \cap come)
  BY <1>3, <1>4, <1>5, FS_Union
<1>8. Cardinality(stay \cap come) = 0
  BY <1>5, FS_EmptySet
<1> QED BY <1>1, <1>3, <1>4, <1>6, <1>7, <1>8 DEF stand

\* However many transfers run at the same time, no device ever holds more components
\* than it has slots, at no moment between their prepare() and perform() (execute()).
THEOREM Capacities == Spec => []PhysicalCapacity
<1> QED BY CapacityKept, SlotsInvariance, PTL

-----------------------------------------------------------------------------
(* Nobody waits who could move *)

\* Some of the waiting transfers could all move at once: each waits for the slot of
\* another of them.
Stuck(group) ==
  group # {} /\ \A t \in group : \E u \in group : req[u].src = req[t].dst

NoneStuck == \A group \in SUBSET Waiters : ~Stuck(group)

LEMMA WaiterFacts ==
  ASSUME SlotsInv, NEW w \in Waiters
  PROVE  /\ w \in Threads /\ req[w].dst \in Devices /\ pc[w] = "queued"
         /\ w \in Range(waitingTransfers[req[w].dst]) /\ freeSlots[req[w].dst] = 0
<1>1. PICK d \in Devices : w \in Range(waitingTransfers[d])
  BY DEF Waiters, InQueue
<1>2. w \in Threads /\ req[w].dst = d /\ pc[w] = "queued"
  BY <1>1 DEF SlotsInv, Inv, WaitingInv, Waiters
<1>3. waitingTransfers[d] # <<>>
  <2>1. waitingTransfers[d] \in Seq(Threads)
    BY DEF SlotsInv, Inv, TypeOK
  <2> QED BY <1>1, <2>1, RangeSeq, EmptySeq
<1> QED BY <1>1, <1>2, <1>3 DEF SlotsInv, QueueFull

\* A list of waiting transfers that names each destination once is no longer than
\* the set of waiting transfers.
LEMMA ListFits ==
  ASSUME NEW n \in Nat, NEW s \in [1..n -> Waiters],
         \A i, j \in 1..n : req[s[i]].dst = req[s[j]].dst => i = j
  PROVE  s \in WaiterLists /\ Len(s) = n
<1>1. IsFiniteSet(Waiters)
  BY FS_Subset, StorageAssumption DEF Waiters
<1>2. s \in Injection(1..n, Waiters)
  BY DEF Injection, IsInjective
<1>3. Cardinality(1..n) <= Cardinality(Waiters)
  BY <1>1, <1>2, FS_Injection
<1>4. Cardinality(1..n) = n
  BY FS_Interval
<1>5. n \in 0..Cardinality(Waiters)
  BY <1>1, <1>3, <1>4, FS_CardinalityType
<1> QED BY <1>5 DEF WaiterLists

\* s leads from the queue of the device start to its last member.
Leads(start, s) ==
  /\ s \in WaiterLists /\ s # <<>>
  /\ \A i \in 1..Len(s) : req[s[i]].dst = Polled(start, s, i)

LEMMA ListShape ==
  ASSUME NEW s \in WaiterLists
  PROVE  /\ Len(s) \in Nat /\ s \in [1..Len(s) -> Waiters]
         /\ s # <<>> => Len(s) \in 1..Len(s)
         /\ \A i, j \in 1..Len(s) : req[s[i]].dst = req[s[j]].dst => i = j
<1>1. PICK n \in 0..Cardinality(Waiters) :
        /\ s \in [1..n -> Waiters]
        /\ \A i, j \in 1..n : req[s[i]].dst = req[s[j]].dst => i = j
  BY DEF WaiterLists
<1>2. Cardinality(Waiters) \in Nat /\ n \in Nat
  <2>1. IsFiniteSet(Waiters)
    BY FS_Subset, StorageAssumption DEF Waiters
  <2> QED BY <2>1, <1>1, FS_CardinalityType
<1>3. s \in Seq(Waiters) /\ Len(s) = n
  BY <1>1, <1>2
<1>4. s # <<>> => Len(s) # 0
  BY <1>3, EmptySeq
<1> QED BY <1>1, <1>2, <1>3, <1>4

\* A list that leads to the transfer whose slot w waits for leads, cut where it
\* first meets the destination of w, to w.
LEMMA LeadsOn ==
  ASSUME NEW start, NEW s, Leads(start, s), NEW w \in Waiters,
         req[s[Len(s)]].src = req[w].dst
  PROVE  \E z : Leads(start, z) /\ z[Len(z)] = w
<1>0. /\ Len(s) \in Nat /\ s \in [1..Len(s) -> Waiters] /\ Len(s) \in 1..Len(s)
      /\ \A i, j \in 1..Len(s) : req[s[i]].dst = req[s[j]].dst => i = j
  BY ListShape DEF Leads
<1>1. PICK n \in 1..(Len(s) + 1) :
        /\ Polled(start, s, n) = req[w].dst
        /\ \A i \in 1..Len(s) : i < n => req[s[i]].dst # req[w].dst
  <2>1. CASE \E j \in 1..Len(s) : req[s[j]].dst = req[w].dst
    <3>1. PICK j \in 1..Len(s) : req[s[j]].dst = req[w].dst
      BY <2>1
    <3>2. Polled(start, s, j) = req[w].dst
      BY <3>1 DEF Leads
    <3>3. \A i \in 1..Len(s) : i < j => req[s[i]].dst # req[w].dst
      BY <1>0, <3>1
    <3> QED BY <1>0, <3>2, <3>3
  <2>2. CASE ~\E j \in 1..Len(s) : req[s[j]].dst = req[w].dst
    <3>1. Polled(start, s, Len(s) + 1) = req[w].dst
      <4>1. Len(s) + 1 # 1 /\ (Len(s) + 1) - 1 = Len(s)
        BY <1>0
      <4> QED BY <4>1 DEF Polled
    <3> QED BY <1>0, <2>2, <3>1
  <2> QED BY <2>1, <2>2
<1>2. PICK z : z = [i \in 1..n |-> IF i = n THEN w ELSE s[i]]
  OBVIOUS
<1>3. /\ n \in Nat /\ z \in [1..n -> Waiters] /\ z[n] = w /\ n \in 1..n
      /\ \A i \in 1..n : i # n => i \in 1..Len(s) /\ i < n /\ z[i] = s[i]
  BY <1>0, <1>2
<1>4. \A i, j \in 1..n : req[z[i]].dst = req[z[j]].dst => i = j
  <2> SUFFICES ASSUME NEW i \in 1..n, NEW j \in 1..n, req[z[i]].dst = req[z[j]].dst
               PROVE  i = j
    OBVIOUS
  <2>1. CASE i = n /\ j # n
    BY <1>1, <1>3, <2>1
  <2>2. CASE i # n /\ j = n
    BY <1>1, <1>3, <2>2
  <2>3. CASE i # n /\ j # n
    BY <1>0, <1>3, <2>3
  <2> QED BY <2>1, <2>2, <2>3
<1>5. z \in WaiterLists /\ Len(z) = n
  BY <1>3, <1>4, ListFits
<1>6. ASSUME NEW i \in 1..n PROVE req[z[i]].dst = Polled(start, z, i)
  <2>1. Polled(start, z, i) = Polled(start, s, i)
    <3>1. CASE i = 1
      BY <3>1 DEF Polled
    <3>2. CASE i # 1
      <4>1. i - 1 \in 1..n /\ i - 1 # n
        BY <3>2
      <4>2. z[i - 1] = s[i - 1]
        BY <1>3, <4>1
      <4> QED BY <3>2, <4>2 DEF Polled
    <3> QED BY <3>1, <3>2
  <2>2. CASE i = n
    BY <1>1, <1>3, <2>1, <2>2
  <2>3. CASE i # n
    BY <1>3, <2>1, <2>3 DEF Leads
  <2> QED BY <2>2, <2>3
<1>7. z # <<>>
  BY <1>3, <1>5, EmptySeq
<1> QED BY <1>3, <1>5, <1>6, <1>7 DEF Leads

\* A list that leads to a transfer that leaves target has, cut where it first meets
\* one, the shape wakeCycle looks for.
LEMMA LeadsCycle ==
  ASSUME SlotsInv, NEW start, NEW target, NEW s, Leads(start, s),
         req[s[Len(s)]].src = target
  PROVE  Cycles(start, target) # {}
<1>0. /\ Len(s) \in Nat /\ s \in [1..Len(s) -> Waiters] /\ Len(s) \in 1..Len(s)
      /\ \A i, j \in 1..Len(s) : req[s[i]].dst = req[s[j]].dst => i = j
  BY ListShape DEF Leads
<1>1. \A i \in 1..Len(s) : i < Len(s) =>
        i + 1 \in 1..Len(s) /\ req[s[i + 1]].dst = req[s[i]].src
  <2> SUFFICES ASSUME NEW i \in 1..Len(s), i < Len(s)
               PROVE  i + 1 \in 1..Len(s) /\ req[s[i + 1]].dst = req[s[i]].src
    OBVIOUS
  <2>1. i + 1 \in 1..Len(s) /\ i + 1 # 1 /\ (i + 1) - 1 = i
    BY <1>0
  <2>2. Polled(start, s, i + 1) = req[s[i]].src
    BY <2>1 DEF Polled
  <2> QED BY <2>1, <2>2 DEF Leads
<1>2. \A i, j \in 1..Len(s) :
        i < Len(s) /\ j < Len(s) /\ req[s[i]].src = target /\ req[s[j]].src = target
          => i = j
  <2> SUFFICES ASSUME NEW i \in 1..Len(s), NEW j \in 1..Len(s), i < Len(s), j < Len(s),
                      req[s[i]].src = target, req[s[j]].src = target
               PROVE  i = j
    OBVIOUS
  <2>1. /\ i + 1 \in 1..Len(s) /\ j + 1 \in 1..Len(s)
        /\ req[s[i + 1]].dst = target /\ req[s[j + 1]].dst = target
    BY <1>1
  <2>2. i + 1 = j + 1
    BY <1>0, <2>1
  <2> QED BY <1>0, <2>2
<1>3. PICK n \in 1..Len(s) :
        /\ req[s[n]].src = target
        /\ \A i \in 1..Len(s) : i < n => req[s[i]].src # target
  <2>1. CASE \E j \in 1..Len(s) : j < Len(s) /\ req[s[j]].src = target
    <3>1. PICK j \in 1..Len(s) : j < Len(s) /\ req[s[j]].src = target
      BY <2>1
    <3>2. \A i \in 1..Len(s) : i < j => i < Len(s)
      BY <1>0, <3>1
    <3>3. \A i \in 1..Len(s) : i < j => req[s[i]].src # target
      BY <1>0, <1>2, <3>1, <3>2
    <3> QED BY <3>1, <3>3
  <2>2. CASE ~\E j \in 1..Len(s) : j < Len(s) /\ req[s[j]].src = target
    BY <1>0, <2>2
  <2> QED BY <2>1, <2>2
<1>4. PICK z : z = [i \in 1..n |-> s[i]]
  OBVIOUS
<1>5. /\ n \in Nat /\ z \in [1..n -> Waiters] /\ n \in 1..n
      /\ \A i \in 1..n : i \in 1..Len(s) /\ z[i] = s[i]
  BY <1>0, <1>4
<1>6. z \in WaiterLists /\ Len(z) = n
  <2>1. \A i, j \in 1..n : req[z[i]].dst = req[z[j]].dst => i = j
    BY <1>0, <1>5
  <2> QED BY <1>5, <2>1, ListFits
<1>7. ASSUME NEW i \in 1..n
      PROVE  /\ Polled(start, z, i) # NoDevice
             /\ z[i] \in Range(waitingTransfers[Polled(start, z, i)])
  <2>1. Polled(start, z, i) = Polled(start, s, i)
    <3>1. CASE i = 1
      BY <3>1 DEF Polled
    <3>2. CASE i # 1
      <4>1. i - 1 \in 1..n
        BY <1>5, <3>2
      <4>2. z[i - 1] = s[i - 1]
        BY <1>5, <4>1
      <4> QED BY <3>2, <4>2 DEF Polled
    <3> QED BY <3>1, <3>2
  <2>2. req[z[i]].dst = Polled(start, z, i)
    BY <1>5, <2>1 DEF Leads
  <2>3. z[i] \in Waiters
    BY <1>5
  <2> QED BY <2>2, <2>3, WaiterFacts, StorageAssumption
<1>8. \A i \in 1..n : req[z[i]].src = target <=> i = n
  BY <1>3, <1>5
<1>9. z # <<>>
  BY <1>5, <1>6, EmptySeq
<1> QED BY <1>6, <1>7, <1>8, <1>9 DEF Cycles, IsCycle

\* The transfers of group could all move at once, with one from start to target.
StuckWith(group, start, target) ==
  /\ \A w \in group : req[w].dst = start \/ \E u \in group : req[u].src = req[w].dst
  /\ \E u \in group : req[u].src = target

\* If a newcomer from start to target would make waiting transfers movable, the
\* search of wakeCycle finds a cycle for it.
LEMMA NewcomerFinds ==
  ASSUME SlotsInv, NoneStuck, NEW group \in SUBSET Waiters, NEW start, NEW target,
         StuckWith(group, start, target)
  PROVE  start # NoDevice /\ Cycles(start, target) # {}
<1> DEFINE Reached(w) == \E z : Leads(start, z) /\ z[Len(z)] = w
<1>1. PICK rest : rest = {w \in group : ~Reached(w)}
  OBVIOUS
<1>2. rest = {}
  <2>1. ASSUME NEW w \in rest
        PROVE  \E u \in rest : req[u].src = req[w].dst
    <3>1. w \in group /\ w \in Waiters /\ ~Reached(w)
      BY <1>1
    <3>2. req[w].dst # start
      <4> SUFFICES ASSUME req[w].dst = start PROVE Reached(w)
        BY <3>1
      <4>1. PICK z : z = [i \in 1..1 |-> w]
        OBVIOUS
      <4>2. z \in [1..1 -> Waiters] /\ z[1] = w
        BY <3>1, <4>1
      <4>3. z \in WaiterLists /\ Len(z) = 1
        <5>1. 1 \in Nat /\ \A i, j \in 1..1 : i = j
          OBVIOUS
        <5>2. \A i, j \in 1..1 : req[z[i]].dst = req[z[j]].dst => i = j
          BY <5>1
        <5> QED BY <4>2, <5>1, <5>2, ListFits
      <4>4. z # <<>>
        <5>1. Len(<<>>) = 0
          OBVIOUS
        <5> QED BY <4>3, <5>1
      <4>5. \A i \in 1..Len(z) : req[z[i]].dst = Polled(start, z, i)
        BY <4>2, <4>3 DEF Polled
      <4>6. Leads(start, z) /\ z[Len(z)] = w
        BY <4>2, <4>3, <4>4, <4>5 DEF Leads
      <4> QED BY <4>6
    <3>3. PICK u \in group : req[u].src = req[w].dst
      BY <3>1, <3>2 DEF StuckWith
    <3>4. ~Reached(u)
      <4> SUFFICES ASSUME NEW s, Leads(start, s), s[Len(s)] = u PROVE FALSE
        OBVIOUS
      <4>1. Reached(w)
        BY <3>1, <3>3, LeadsOn
      <4> QED BY <3>1, <4>1
    <3> QED BY <1>1, <3>3, <3>4
  <2>2. rest \in SUBSET Waiters
    BY <1>1
  <2> QED BY <2>1, <2>2 DEF NoneStuck, Stuck
<1>3. PICK u \in group : req[u].src = target
  BY DEF StuckWith
<1>4. PICK s : Leads(start, s) /\ s[Len(s)] = u
  BY <1>1, <1>2
<1>5. start # NoDevice
  <2>1. /\ Len(s) \in Nat /\ s \in [1..Len(s) -> Waiters] /\ Len(s) \in 1..Len(s)
    BY <1>4, ListShape DEF Leads
  <2>2. 1 \in 1..Len(s) /\ Polled(start, s, 1) = start
    BY <2>1 DEF Polled
  <2>3. req[s[1]].dst = start /\ s[1] \in Waiters
    BY <1>4, <2>1, <2>2 DEF Leads
  <2> QED BY <2>3, WaiterFacts, StorageAssumption
<1> QED BY <1>3, <1>4, <1>5, LeadsCycle

\* Only hasDepend puts a transfer into a queue, and nobody changes one that waits.
LEMMA WaitersLeave ==
  ASSUME SlotsInv, NEW t \in Threads, Execute(t) \/ Continue(t), ~ExecuteEnqueue(t),
         NEW u \in Threads, InQueue(u)'
  PROVE  InQueue(u) /\ req'[u] = req[u]
<1>0. /\ waitingTransfers \in [Devices -> Seq(Threads)]
      /\ \A d \in Devices : Injective(waitingTransfers[d])
      /\ pc \in [Threads -> {"idle", "threw", "queued", "woken", "prepare", "vacate",
                   "signalChild", "signalQueue", "await", "perform", "complete"}]
      /\ req \in [Threads -> [comp : Components \cup {NoComponent},
                              src : Places, dst : Places]]
  BY DEF SlotsInv, Inv, TypeOK, WaitingInv, Injective
<1>1. InQueue(u) => pc[u] = "queued"
  BY DEF InQueue, SlotsInv, Inv, WaitingInv
<1>2. CASE UNCHANGED waitingTransfers
  <2>1. InQueue(u)
    BY <1>2 DEF InQueue
  <2>2. \/ UNCHANGED req
        \/ pc[t] # "queued" /\ \E r : req' = [req EXCEPT ![t] = r]
    BY DEF Execute, Continue, Throw, ExecuteNoDepend, ExecuteReserve, ExecuteCycle, Admit,
           Catch, LeaveQueue, WokenAlone, WokenByParent, Prepare, ReleaseChild, FreeSlot,
           SignalChild, SignalQueue, Await, Perform, TransferCompleted
  <2> QED BY <1>0, <1>1, <2>1, <2>2
<1>3. CASE ExecuteNoDepend(t) \/ ExecuteCycle(t) \/ WokenAlone(t)
  <2>1. PICK s \in WaiterLists, last \in {NoThread, t},
             branch \in {"noDepend", "cycle"} : Wake(t, s, last, branch)
    BY <1>3 DEF ExecuteNoDepend, ExecuteCycle, WokenAlone, NoDepend
  <2>2. pc[t] \in {"idle", "woken"}
    BY <1>3 DEF ExecuteNoDepend, ExecuteCycle, WokenAlone, Admit
  <2>3. \A d \in Devices : Range(waitingTransfers'[d]) \subseteq Range(waitingTransfers[d])
    BY <2>1, <2>2, WakeFacts DEF SlotsInv, Ids
  <2>4. InQueue(u)
    BY <2>3 DEF InQueue
  <2>5. UNCHANGED req \/ \E r : req' = [req EXCEPT ![t] = r]
    BY <1>3 DEF ExecuteNoDepend, ExecuteCycle, WokenAlone, Admit
  <2> QED BY <1>0, <1>1, <2>2, <2>4, <2>5
<1>4. CASE FreeSlot(t) /\ ~UNCHANGED waitingTransfers
  <2>1. /\ UNCHANGED req /\ req[t].src \in Devices
        /\ waitingTransfers[req[t].src] # <<>>
        /\ waitingTransfers' = [waitingTransfers EXCEPT ![req[t].src] = Tail(@)]
    BY <1>0, <1>4 DEF FreeSlot, Places
  <2>2. PICK d \in Devices : u \in Range(waitingTransfers'[d])
    BY DEF InQueue
  <2>3. CASE d = req[t].src
    <3>1. waitingTransfers'[d] = Tail(waitingTransfers[d])
      BY <1>0, <2>1, <2>3
    <3>2. u \in Range(waitingTransfers[d])
      BY <1>0, <2>1, <2>2, <2>3, <3>1, TailRange
    <3> QED BY <2>1, <3>2 DEF InQueue
  <2>4. CASE d # req[t].src
    BY <1>0, <2>1, <2>2, <2>4 DEF InQueue
  <2> QED BY <2>3, <2>4
<1>5. Execute(t) \/ Continue(t) =>
        \/ UNCHANGED waitingTransfers
        \/ ExecuteNoDepend(t) \/ ExecuteCycle(t) \/ WokenAlone(t)
        \/ FreeSlot(t)
  BY DEF Execute, Continue, Throw, ExecuteReserve, shared,
         Catch, LeaveQueue, WokenByParent, Prepare, ReleaseChild,
         SignalChild, SignalQueue, Await, Perform, TransferCompleted
<1> QED BY <1>2, <1>3, <1>4, <1>5

\* The waiting transfers after a step in which nobody joins a queue.
LEMMA FewerWait ==
  ASSUME NoneStuck, \A u \in Threads : InQueue(u)' => InQueue(u) /\ req'[u] = req[u]
  PROVE  NoneStuck'
<1> SUFFICES ASSUME NEW group \in SUBSET Waiters', Stuck(group)'
             PROVE  FALSE
  BY DEF NoneStuck
<1>1. \A u \in group : u \in Waiters /\ req'[u] = req[u]
  BY DEF Waiters
<1>2. Stuck(group)
  BY <1>1 DEF Stuck
<1> QED BY <1>1, <1>2 DEF NoneStuck

\* Who joins a queue has looked for the cycle it would close.
LEMMA EnqueueStep ==
  ASSUME SlotsInv, NoneStuck, NEW t \in Threads, ExecuteEnqueue(t)
  PROVE  NoneStuck'
<1>1. PICK r \in Requests :
        /\ Admit(t, r) /\ MustWait(r)
        /\ r.src # NoDevice => Cycles(r.src, r.dst) = {}
        /\ waitingTransfers' = [waitingTransfers EXCEPT ![r.dst] = Append(@, t)]
  BY DEF ExecuteEnqueue
<1>2. /\ r.src \in Places /\ r.dst \in Places /\ r.src # r.dst
      /\ pc[t] = "idle" /\ req' = [req EXCEPT ![t] = r]
  BY <1>1, Admitted DEF SlotsInv, Inv
<1>3. r.dst \in Devices
  BY <1>1, <1>2 DEF MustWait, Places
<1>4. \A u \in Threads \ {t} : InQueue(u)' => InQueue(u)
  <2> SUFFICES ASSUME NEW u \in Threads \ {t}, NEW d \in Devices,
                      u \in Range(waitingTransfers'[d])
               PROVE  u \in Range(waitingTransfers[d])
    BY DEF InQueue
  <2>1. waitingTransfers \in [Devices -> Seq(Threads)]
    BY DEF SlotsInv, Inv, TypeOK
  <2>2. CASE d = r.dst
    <3>1. waitingTransfers'[d] = Append(waitingTransfers[d], t)
      BY <1>1, <2>1, <2>2
    <3>2. PICK q : q = Append(waitingTransfers[d], t)
      OBVIOUS
    <3>3. q \in Seq(Threads) /\ u \in Range(q)
      BY <2>1, <3>1, <3>2, AppendProperties
    <3>4. PICK i \in 1..Len(q) : q[i] = u
      BY <3>3, RangeSeq
    <3>5. i \in 1..Len(waitingTransfers[d]) /\ waitingTransfers[d][i] = u
      BY <2>1, <3>2, <3>4, AppendProperties
    <3> QED BY <2>1, <3>5, RangeSeq
  <2>3. CASE d # r.dst
    BY <1>1, <2>1, <2>3
  <2> QED BY <2>2, <2>3
<1>5. req'[t] = r /\ \A u \in Threads \ {t} : req'[u] = req[u]
  BY <1>2 DEF SlotsInv, Inv, TypeOK
<1> SUFFICES ASSUME NEW all \in SUBSET Waiters', Stuck(all)'
             PROVE  FALSE
  BY DEF NoneStuck
<1>6. PICK group : group = all \ {t}
  OBVIOUS
<1>7. group \in SUBSET Waiters /\ \A u \in group : req'[u] = req[u] /\ u \in all
  BY <1>4, <1>5, <1>6 DEF Waiters
<1>8. \A w \in all : \E u \in all : req'[u].src = req'[w].dst
  BY DEF Stuck
<1>9. CASE t \in all
  <2>1. \A w \in group : req[w].dst = r.src \/ \E u \in group : req[u].src = req[w].dst
    <3> SUFFICES ASSUME NEW w \in group
                 PROVE  req[w].dst = r.src \/ \E u \in group : req[u].src = req[w].dst
      OBVIOUS
    <3>1. PICK u \in all : req'[u].src = req'[w].dst
      BY <1>7, <1>8
    <3>2. CASE u = t
      BY <1>5, <1>7, <3>1, <3>2
    <3>3. CASE u # t
      BY <1>6, <1>7, <3>1, <3>3
    <3> QED BY <3>2, <3>3
  <2>2. \E u \in group : req[u].src = r.dst
    <3>1. PICK u \in all : req'[u].src = req'[t].dst
      BY <1>8, <1>9
    <3>2. u # t
      BY <1>2, <1>5, <3>1
    <3> QED BY <1>5, <1>6, <1>7, <3>1, <3>2
  <2>3. StuckWith(group, r.src, r.dst)
    BY <2>1, <2>2 DEF StuckWith
  <2>4. r.src # NoDevice /\ Cycles(r.src, r.dst) # {}
    BY <1>7, <2>3, NewcomerFinds
  <2> QED BY <1>1, <2>4
<1>10. CASE t \notin all
  <2>1. group = all
    BY <1>6, <1>10
  <2>2. Stuck(group)
    BY <1>7, <1>8, <2>1 DEF Stuck
  <2> QED BY <1>7, <2>2 DEF NoneStuck
<1> QED BY <1>9, <1>10

LEMMA StuckStep == SlotsInv /\ NoneStuck /\ [Next]_vars => NoneStuck'
<1> SUFFICES ASSUME SlotsInv, NoneStuck, [Next]_vars PROVE NoneStuck'
  OBVIOUS
<1>1. CASE UNCHANGED vars
  <2>1. \A u \in Threads : InQueue(u)' => InQueue(u) /\ req'[u] = req[u]
    BY <1>1 DEF vars, shared, InQueue
  <2> QED BY <2>1, FewerWait
<1>2. ASSUME NEW t \in Threads, Execute(t) \/ Continue(t) PROVE NoneStuck'
  <2>1. CASE ExecuteEnqueue(t)
    BY <2>1, EnqueueStep
  <2>2. CASE ~ExecuteEnqueue(t)
    BY <1>2, <2>2, WaitersLeave, FewerWait
  <2> QED BY <2>1, <2>2
<1> QED BY <1>1, <1>2 DEF Next

LEMMA StuckInit == Init => NoneStuck
<1> SUFFICES ASSUME Init PROVE NoneStuck
  OBVIOUS
<1>1. \A d \in Devices : Range(waitingTransfers[d]) = {}
  <2> SUFFICES ASSUME NEW d \in Devices PROVE Range(waitingTransfers[d]) = {}
    OBVIOUS
  <2>1. waitingTransfers[d] = <<>>
    BY DEF Init
  <2>2. /\ waitingTransfers[d] \in Seq(Threads)
        /\ ~\E i \in 1..Len(waitingTransfers[d]) : TRUE
    BY <2>1
  <2> QED BY <2>2, RangeSeq
<1>2. Waiters = {}
  BY <1>1 DEF Waiters, InQueue
<1> QED BY <1>2 DEF NoneStuck, Stuck

\* However many callers and devices there are, no transfer waits in the queue of a
\* device with a free slot, and the waiting transfers never include a group that
\* could move at once: wakeCycle misses no cycle, and none closes behind its back.
THEOREM NobodyWaitsInVain == Spec => []NoNeedlessWait
<1>1. SlotsInv /\ NoneStuck => NoNeedlessWait
  <2> SUFFICES ASSUME SlotsInv, NoneStuck PROVE NoNeedlessWait
    OBVIOUS
  <2>1. \A t \in Waiters : freeSlots[req[t].dst] = 0
    BY WaiterFacts
  <2> QED BY <2>1 DEF NoneStuck, Stuck, NoNeedlessWait
<1>2. SlotsInv /\ NoneStuck /\ SlotsInv' /\ [Next]_vars => NoneStuck'
  BY StuckStep
<1> QED BY <1>1, <1>2, StuckInit, SlotsInvariance, PTL DEF Spec
-----------------------------------------------------------------------------
(***************************************************************************)
(* StorageSystem implements StorageSpec: every step of the queues and      *)
(* semaphores is a step of the simple storage system or none.              *)
(***************************************************************************)

\* Where a component physically stands, seen from the transfer that moves it.
PlacesRight ==
  /\ \A t \in Threads : Running(t) =>
       PhysicalPlace(req[t].comp) = CASE Phase(t) = "requested"  -> req[t].src
                                      [] Phase(t) = "prepared"   -> NoDevice
                                      [] Phase(t) = "performing" -> req[t].dst
  /\ \A c \in Components : (\A t \in Threads : req[t].comp # c) =>
       PhysicalPlace(c) = componentPlacement[c]
  /\ \A c \in Components : PhysicalPlace(c) \in Places

LEMMA Phases ==
  ASSUME TypeOK, NEW t \in Threads
  PROVE  /\ Phase(t) = "idle"       <=> pc[t] \in {"idle", "threw"}
         /\ Phase(t) = "requested"  <=> pc[t] \in {"queued", "woken", "prepare"}
         /\ Phase(t) = "prepared"   <=> pc[t] \in {"vacate", "signalChild",
                                                   "signalQueue", "await"}
         /\ Phase(t) = "performing" <=> pc[t] \in {"perform", "complete"}
         /\ Phase(t) \in {"idle", "requested", "prepared", "performing"}
<1>1. pc[t] \in {"idle", "threw", "queued", "woken", "prepare", "vacate", "signalChild",
                 "signalQueue", "await", "perform", "complete"}
  BY DEF TypeOK
<1> QED BY <1>1 DEF Phase, Running, Prepared, Performing

LEMMA PlacesHold == SlotsInv => PlacesRight
<1> SUFFICES ASSUME SlotsInv PROVE PlacesRight
  OBVIOUS
<1>0. TypeOK
  BY DEF SlotsInv, Inv
<1>1. ASSUME NEW t \in Threads, Running(t)
      PROVE  PhysicalPlace(req[t].comp) =
               CASE Phase(t) = "requested"  -> req[t].src
                 [] Phase(t) = "prepared"   -> NoDevice
                 [] Phase(t) = "performing" -> req[t].dst
  <2>1. \A u \in Threads : req[u].comp = req[t].comp => u = t
    BY <1>1 DEF SlotsInv, Inv, StepInv, ExclusiveComponent
  <2>2. CASE Prepared(t)
    <3>1. PICK p : p = CHOOSE u \in Threads : req[u].comp = req[t].comp /\ Prepared(u)
      OBVIOUS
    <3>2. p \in Threads /\ req[p].comp = req[t].comp
      BY <2>2, <3>1
    <3>3. p = t
      BY <2>1, <3>2
    <3>4. PhysicalPlace(req[t].comp) = IF Performing(t) THEN req[t].dst ELSE NoDevice
      BY <2>2, <3>1, <3>3 DEF PhysicalPlace
    <3> QED BY <1>0, <1>1, <2>2, <3>4, Phases DEF Prepared, Performing
  <2>3. CASE ~Prepared(t)
    <3>1. PhysicalPlace(req[t].comp) = req[t].src
      BY <1>1, <2>1, <2>3 DEF PhysicalPlace, SlotsInv, PlacedInv
    <3>2. Phase(t) = "requested"
      BY <1>0, <1>1, <2>3 DEF Phase, Prepared, Performing, Running, TypeOK
    <3> QED BY <3>1, <3>2
  <2> QED BY <2>2, <2>3
<1>2. \A c \in Components : (\A t \in Threads : req[t].comp # c) =>
        PhysicalPlace(c) = componentPlacement[c]
  BY DEF PhysicalPlace
<1>3. ASSUME NEW c \in Components
      PROVE  PhysicalPlace(c) \in Places
  <2>1. CASE \E t \in Threads : req[t].comp = c
    <3>1. PICK t \in Threads : req[t].comp = c
      BY <2>1
    <3>2. Running(t)
      BY <3>1 DEF SlotsInv, Inv, StepInv
    <3>3. req[t].src \in Places /\ req[t].dst \in Places /\ NoDevice \in Places
      BY <1>0 DEF TypeOK, Places
    <3>4. Phase(t) \in {"requested", "prepared", "performing"}
      BY <1>0, <3>2, Phases DEF Running
    <3> QED BY <1>1, <3>1, <3>2, <3>3, <3>4
  <2>2. CASE ~\E t \in Threads : req[t].comp = c
    <3>1. PhysicalPlace(c) = componentPlacement[c]
      BY <1>2, <2>2
    <3>2. componentPlacement \in [Components -> Places]
      BY <1>0 DEF TypeOK
    <3> QED BY <3>1, <3>2
  <2> QED BY <2>1, <2>2
<1> QED BY <1>1, <1>2, <1>3 DEF PlacesRight

\* In a step in which only t changes phase or transfer, only its component moves.
LEMMA OthersStand ==
  ASSUME SlotsInv, PlacesRight, PlacesRight', SlotsInv', NEW t \in Threads,
         \A u \in Threads \ {t} : req'[u] = req[u] /\ Phase(u)' = Phase(u),
         NEW c \in Components, req[t].comp # c, req'[t].comp # c,
         componentPlacement'[c] = componentPlacement[c]
  PROVE  PhysicalPlace(c)' = PhysicalPlace(c)
<1>1. CASE \E u \in Threads : req[u].comp = c
  <2>1. PICK u \in Threads \ {t} : req[u].comp = c
    BY <1>1
  <2>2. Running(u) /\ Running(u)' /\ req'[u] = req[u] /\ Phase(u)' = Phase(u)
    BY <2>1 DEF SlotsInv, Inv, StepInv
  <2>3. /\ PhysicalPlace(c) = CASE Phase(u) = "requested"  -> req[u].src
                                [] Phase(u) = "prepared"   -> NoDevice
                                [] Phase(u) = "performing" -> req[u].dst
        /\ PhysicalPlace(c)' = CASE Phase(u)' = "requested"  -> req'[u].src
                                 [] Phase(u)' = "prepared"   -> NoDevice
                                 [] Phase(u)' = "performing" -> req'[u].dst
    BY <2>1, <2>2 DEF PlacesRight
  <2> QED BY <2>2, <2>3
<1>2. CASE ~\E u \in Threads : req[u].comp = c
  <2>1. \A u \in Threads : req[u].comp # c /\ req'[u].comp # c
    BY <1>2
  <2> QED BY <2>1 DEF PlacesRight
<1> QED BY <1>1, <1>2

\* StorageSpec counts with an instance of FiniteSets of its own.
LEMMA SameCardinality == \A S : Promise!Cardinality(S) = Cardinality(S)
BY DEF Promise!Cardinality, Cardinality

-----------------------------------------------------------------------------
(* The steps *)

\* A step that changes no phase, no transfer and no record is none of StorageSpec.
LEMMA Stutters ==
  ASSUME SlotsInv, SlotsInv', PlacesRight, PlacesRight',
         UNCHANGED <<req, componentPlacement>>,
         \A u \in Threads : Phase(u)' = Phase(u)
  PROVE  UNCHANGED Promise!vars
<1>1. ASSUME NEW c \in Components PROVE PhysicalPlace(c)' = PhysicalPlace(c)
  <2>1. CASE \E u \in Threads : req[u].comp = c
    <3>1. PICK u \in Threads : req[u].comp = c
      BY <2>1
    <3>2. Running(u) /\ Running(u)'
      BY <3>1 DEF SlotsInv, Inv, StepInv
    <3>3. /\ PhysicalPlace(c) = CASE Phase(u) = "requested"  -> req[u].src
                                  [] Phase(u) = "prepared"   -> NoDevice
                                  [] Phase(u) = "performing" -> req[u].dst
          /\ PhysicalPlace(c)' = CASE Phase(u)' = "requested"  -> req'[u].src
                                   [] Phase(u)' = "prepared"   -> NoDevice
                                   [] Phase(u)' = "performing" -> req'[u].dst
      BY <3>1, <3>2 DEF PlacesRight
    <3> QED BY <3>3
  <2>2. CASE ~\E u \in Threads : req[u].comp = c
    BY <2>2 DEF PlacesRight
  <2> QED BY <2>1, <2>2
<1>2. [t \in Threads |-> Phase(t)]' = [t \in Threads |-> Phase(t)]
  OBVIOUS
<1>3. [c \in Components |-> PhysicalPlace(c)]' = [c \in Components |-> PhysicalPlace(c)]
  BY <1>1
<1> QED BY <1>2, <1>3 DEF Promise!vars

LEMMA AdmitRequests ==
  ASSUME SlotsInv, SlotsInv', PlacesRight, PlacesRight',
         NEW t \in Threads, NEW r \in Requests, Admit(t, r),
         NEW step \in {"prepare", "queued"}, pc' = [pc EXCEPT ![t] = step]
  PROVE  Promise!Request(t)
<1>1. /\ r.src \in Places /\ r.dst \in Places /\ r.comp \in Components
      /\ r.src # r.dst /\ isBusy[r.comp] = FALSE
      /\ pc[t] = "idle" /\ req' = [req EXCEPT ![t] = r]
      /\ UNCHANGED componentPlacement
      /\ componentPlacement[r.comp] = r.src
  BY Admitted DEF SlotsInv, Inv, Admit, Verdict
<1>2. \A u \in Threads : req[u].comp # r.comp
  BY <1>1 DEF SlotsInv, Inv, ExclusiveComponent, StepInv
<1>3. PhysicalPlace(r.comp) = r.src
  BY <1>1, <1>2 DEF PlacesRight
<1>4. /\ Phase(t) = "idle" /\ Phase(t)' = "requested"
      /\ \A u \in Threads \ {t} : Phase(u)' = Phase(u)
  BY <1>1 DEF Phase, Running, Prepared, Performing, SlotsInv, Inv, TypeOK
<1>5. /\ req'[t] = r
      /\ \A u \in Threads \ {t} : req'[u] = req[u]
  BY <1>1 DEF SlotsInv, Inv, TypeOK
<1>6. ASSUME NEW c \in Components PROVE PhysicalPlace(c)' = PhysicalPlace(c)
  <2>1. CASE c = r.comp
    <3>1. Running(t)'
      BY <1>4 DEF Phase
    <3>2. PhysicalPlace(c)' = r.src
      BY <1>4, <1>5, <2>1, <3>1 DEF PlacesRight
    <3> QED BY <1>3, <2>1, <3>2
  <2>2. CASE c # r.comp
    <3>1. req[t].comp # c
      BY <1>1 DEF SlotsInv, Inv, StepInv, Running
    <3> QED BY <1>1, <1>4, <1>5, <2>2, <3>1, OthersStand
  <2> QED BY <2>1, <2>2
<1>7. [c \in Components |-> PhysicalPlace(c)]' = [c \in Components |-> PhysicalPlace(c)]
  BY <1>6
<1>8. [u \in Threads |-> Phase(u)]'
        = [[u \in Threads |-> Phase(u)] EXCEPT ![t] = "requested"]
  BY <1>4
<1>9. r = [comp |-> r.comp, src |-> r.src, dst |-> r.dst]
  BY DEF Requests
<1>10. r.src = [c \in Components |-> PhysicalPlace(c)][r.comp]
  BY <1>1, <1>3
<1>11. req' = [req EXCEPT ![t] = [comp |-> r.comp,
                                  src |-> [c \in Components |-> PhysicalPlace(c)][r.comp],
                                  dst |-> r.dst]]
  BY <1>1, <1>9, <1>10
<1>12. r.dst # [c \in Components |-> PhysicalPlace(c)][r.comp]
  BY <1>1, <1>10
<1>13. [u \in Threads |-> Phase(u)][t] = "idle"
  BY <1>4
<1>14. \E c \in Components, d \in Devices \cup {NoDevice} :
         /\ \A u \in Threads : req[u].comp # c
         /\ d # [e \in Components |-> PhysicalPlace(e)][c]
         /\ req' = [req EXCEPT ![t] = [comp |-> c,
                                       src |-> [e \in Components |-> PhysicalPlace(e)][c],
                                       dst |-> d]]
  BY <1>1, <1>2, <1>11, <1>12 DEF Places
<1> QED BY <1>7, <1>8, <1>13, <1>14 DEF Promise!Request

LEMMA PrepareEnds ==
  ASSUME SlotsInv, SlotsInv', PlacesRight, PlacesRight',
         NEW t \in Threads, Prepare(t)
  PROVE  Promise!EndPrepare(t)
<1>1. /\ UNCHANGED <<req, componentPlacement>>
      /\ Phase(t) = "requested" /\ Phase(t)' = "prepared"
      /\ \A u \in Threads \ {t} : Phase(u)' = Phase(u)
  BY DEF Prepare, shared, Phase, Running, Prepared, Performing, SlotsInv, Inv, TypeOK
<1>2. Running(t) /\ Running(t)' /\ req[t].comp \in Components
  BY <1>1 DEF Phase, SlotsInv, Inv, StepInv
<1>3. PhysicalPlace(req[t].comp)' = NoDevice
  BY <1>1, <1>2 DEF PlacesRight
<1>4. ASSUME NEW c \in Components
      PROVE  PhysicalPlace(c)' = IF c = req[t].comp THEN NoDevice ELSE PhysicalPlace(c)
  <2>1. CASE c = req[t].comp
    <3>1. PhysicalPlace(c)' = PhysicalPlace(req[t].comp)'
      BY <1>1, <2>1
    <3> QED BY <1>3, <2>1, <3>1
  <2>2. CASE c # req[t].comp
    BY <1>1, <2>2, OthersStand
  <2> QED BY <2>1, <2>2
<1>5. [c \in Components |-> PhysicalPlace(c)]'
        = [[c \in Components |-> PhysicalPlace(c)] EXCEPT ![req[t].comp] = NoDevice]
  BY <1>2, <1>4
<1>6. [u \in Threads |-> Phase(u)]'
        = [[u \in Threads |-> Phase(u)] EXCEPT ![t] = "prepared"]
  BY <1>1
<1>7. [u \in Threads |-> Phase(u)][t] = "requested"
  BY <1>1
<1> QED BY <1>1, <1>5, <1>6, <1>7 DEF Promise!EndPrepare

LEMMA PerformStarts ==
  ASSUME SlotsInv, SlotsInv', PlacesRight, PlacesRight', NEW t \in Threads,
         UNCHANGED <<req, componentPlacement>>,
         Phase(t) = "prepared", Phase(t)' = "performing",
         \A u \in Threads \ {t} : Phase(u)' = Phase(u)
  PROVE  Promise!StartPerform(t)
<1>1. PICK d : d = req[t].dst
  OBVIOUS
<1>2. /\ Running(t) /\ Running(t)' /\ req[t].comp \in Components /\ d \in Places
      /\ req' = req
  <2>1. TypeOK /\ TypeOK'
    BY DEF SlotsInv, Inv
  <2>2. Running(t) /\ Running(t)'
    <3>1. Running(t)
      BY <2>1, Phases DEF Running
    <3>2. Running(t)'
      BY <2>1 DEF Phase, Running, Prepared, Performing, TypeOK
    <3> QED BY <3>1, <3>2
  <2>3. req[t].comp \in Components
    BY <2>2 DEF SlotsInv, Inv, StepInv
  <2> QED BY <1>1, <2>1, <2>2, <2>3 DEF TypeOK
<1>3. PhysicalPlace(req[t].comp) = NoDevice /\ PhysicalPlace(req[t].comp)' = d
  BY <1>1, <1>2 DEF PlacesRight
<1>4. ASSUME NEW c \in Components
      PROVE  PhysicalPlace(c)' = IF c = req[t].comp THEN d ELSE PhysicalPlace(c)
  <2>1. CASE c = req[t].comp
    <3>1. PhysicalPlace(c)' = PhysicalPlace(req[t].comp)'
      BY <1>2, <2>1
    <3> QED BY <1>3, <2>1, <3>1
  <2>2. CASE c # req[t].comp
    BY <1>2, <2>2, OthersStand
  <2> QED BY <2>1, <2>2
<1>5. [c \in Components |-> PhysicalPlace(c)]'
        = [[c \in Components |-> PhysicalPlace(c)] EXCEPT ![req[t].comp] = req[t].dst]
  BY <1>1, <1>2, <1>4
<1>6. [u \in Threads |-> Phase(u)]'
        = [[u \in Threads |-> Phase(u)] EXCEPT ![t] = "performing"]
  OBVIOUS
<1>7. [u \in Threads |-> Phase(u)][t] = "prepared"
  OBVIOUS
<1>8. d # NoDevice => Cardinality(Promise!Occupants(d)) < Capacity[d]
  <2> SUFFICES ASSUME d # NoDevice
               PROVE  Cardinality(Promise!Occupants(d)) < Capacity[d]
    OBVIOUS
  <2>2. d \in Devices
    BY <1>2 DEF Places
  <2>3. PhysicalCapacity'
    BY CapacityKept, PTL
  <2>10. PICK old : old = {c \in Components : PhysicalPlace(c) = d}
    OBVIOUS
  <2>11. PICK new : new = {c \in Components : PhysicalPlace(c)' = d}
    OBVIOUS
  <2>4. Cardinality(new) <= Capacity[d]
    BY <2>2, <2>3, <2>11 DEF PhysicalCapacity
  <2>5. new = old \cup {req[t].comp} /\ req[t].comp \notin old
    BY <1>2, <1>3, <1>4, <2>2, <2>10, <2>11, StorageAssumption
  <2>6. IsFiniteSet(old)
    <3>1. old \in SUBSET Components
      BY <2>10
    <3> QED BY <3>1, FS_Subset, StorageAssumption
  <2>7. Cardinality(new) = Cardinality(old) + 1 /\ Cardinality(old) \in Nat
    BY <2>5, <2>6, FS_AddElement, FS_CardinalityType
  <2>8. Promise!Occupants(d) = old
    BY <2>10 DEF Promise!Occupants
  <2>9. Capacity[d] \in Nat
    BY <2>2, StorageAssumption
  <2> QED BY <2>4, <2>7, <2>8, <2>9
<1>9. req[t].dst # NoDevice =>
        Promise!Cardinality(Promise!Occupants(req[t].dst)) < Capacity[req[t].dst]
  BY <1>1, <1>8, SameCardinality
<1>10. req' = req
  BY <1>2
<1> QED BY <1>5, <1>6, <1>7, <1>9, <1>10 DEF Promise!StartPerform

LEMMA TransferReturns ==
  ASSUME SlotsInv, SlotsInv', PlacesRight, PlacesRight',
         NEW t \in Threads, TransferCompleted(t)
  PROVE  Promise!Return(t)
<1>2. Running(t) /\ req[t].comp \in Components
  BY DEF TransferCompleted, Running, SlotsInv, Inv, StepInv
<1>1. /\ Phase(t) = "performing" /\ Phase(t)' = "idle"
      /\ req' = [req EXCEPT ![t] = NoReq] /\ req'[t] = NoReq
      /\ \A u \in Threads \ {t} : Phase(u)' = Phase(u) /\ req'[u] = req[u]
      /\ \A c \in Components :
           componentPlacement'[c] = IF c = req[t].comp THEN req[t].dst
                                    ELSE componentPlacement[c]
  BY DEF TransferCompleted, Phase, Running, Prepared, Performing, SlotsInv, Inv, TypeOK
<1>3. \A u \in Threads : req'[u].comp # req[t].comp
  <2>1. \A u \in Threads \ {t} : req[u].comp # req[t].comp
    BY <1>1, <1>2 DEF SlotsInv, Inv, ExclusiveComponent, StepInv
  <2>2. NoReq.comp = NoComponent /\ NoComponent \notin Components
    BY StorageAssumption DEF NoReq
  <2>3. ASSUME NEW u \in Threads PROVE req'[u].comp # req[t].comp
    <3>1. CASE u = t
      BY <1>1, <1>2, <2>2, <3>1
    <3>2. CASE u # t
      BY <1>1, <2>1, <3>2
    <3> QED BY <3>1, <3>2
  <2> QED BY <2>3
<1>4. ASSUME NEW c \in Components PROVE PhysicalPlace(c)' = PhysicalPlace(c)
  <2>1. CASE c = req[t].comp
    <3>1. PhysicalPlace(c) = req[t].dst
      BY <1>1, <1>2, <2>1 DEF PlacesRight
    <3>2. PhysicalPlace(c)' = componentPlacement'[c]
      BY <1>3, <2>1 DEF PlacesRight
    <3> QED BY <1>1, <2>1, <3>1, <3>2
  <2>2. CASE c # req[t].comp
    <3>1. req'[t].comp # c
      BY <1>1, StorageAssumption DEF NoReq
    <3> QED BY <1>1, <2>2, <3>1, OthersStand
  <2> QED BY <2>1, <2>2
<1>5. [c \in Components |-> PhysicalPlace(c)]' = [c \in Components |-> PhysicalPlace(c)]
  BY <1>4
<1>6. [u \in Threads |-> Phase(u)]'
        = [[u \in Threads |-> Phase(u)] EXCEPT ![t] = "idle"]
  BY <1>1
<1>7. [u \in Threads |-> Phase(u)][t] = "performing"
  BY <1>1
<1> QED BY <1>1, <1>5, <1>6, <1>7 DEF Promise!Return, Promise!NoJob, NoReq

\* Only t moves, from pc "from" to pc "to", and no transfer or record changes.
Moves(t, from, to) ==
  /\ pc[t] \in from
  /\ \E p \in to : pc' = [pc EXCEPT ![t] = p]
  /\ UNCHANGED <<req, componentPlacement>>

\* A move inside one phase changes no phase at all.
LEMMA SamePhase ==
  ASSUME SlotsInv, SlotsInv', PlacesRight, PlacesRight', NEW t \in Threads,
         NEW steps,
         steps = {"idle", "threw"} \/ steps = {"queued", "woken", "prepare"}
           \/ steps = {"vacate", "signalChild", "signalQueue", "await"}
           \/ steps = {"perform", "complete"},
         Moves(t, steps, steps)
  PROVE  UNCHANGED Promise!vars
<1>1. TypeOK /\ TypeOK'
  BY DEF SlotsInv, Inv
<1>2. \A u \in Threads \ {t} : pc'[u] = pc[u]
  BY <1>1 DEF Moves, TypeOK
<1>3. pc[t] \in steps /\ pc'[t] \in steps
  BY <1>1 DEF Moves, TypeOK
<1>4. \A u \in Threads \ {t} : Phase(u)' = Phase(u)
  BY <1>2 DEF Phase, Running, Prepared, Performing
<1>5. Phase(t)' = Phase(t)
  BY <1>1, <1>3 DEF Phase, Running, Prepared, Performing, TypeOK
<1> QED BY <1>4, <1>5, Stutters DEF Moves

\* A move from the second half of a transfer into perform() starts it.
LEMMA MoveStarts ==
  ASSUME SlotsInv, SlotsInv', PlacesRight, PlacesRight', NEW t \in Threads,
         Moves(t, {"vacate", "signalChild", "signalQueue", "await"}, {"perform"})
  PROVE  Promise!StartPerform(t)
<1>1. TypeOK /\ TypeOK'
  BY DEF SlotsInv, Inv
<1>2. \A u \in Threads \ {t} : pc'[u] = pc[u]
  BY <1>1 DEF Moves, TypeOK
<1>3. pc'[t] = "perform"
  BY <1>1 DEF Moves, TypeOK
<1>4. \A u \in Threads \ {t} : Phase(u)' = Phase(u)
  BY <1>2 DEF Phase, Running, Prepared, Performing
<1>5. Phase(t) = "prepared" /\ Phase(t)' = "performing"
  BY <1>1, <1>3 DEF Moves, Phase, Running, Prepared, Performing, TypeOK
<1> QED BY <1>4, <1>5, PerformStarts DEF Moves

Waited == {"vacate", "signalChild", "signalQueue", "await"}

\* Every step of the queues and semaphores is a step of the simple system or none.
LEMMA StepRefines ==
  ASSUME SlotsInv, SlotsInv', PlacesRight, PlacesRight', [Next]_vars
  PROVE  [Promise!Next]_(Promise!vars)
<1>1. CASE UNCHANGED vars
  <2>1. UNCHANGED <<pc, req, componentPlacement>>
    BY <1>1 DEF vars, shared
  <2>2. \A u \in Threads : Phase(u)' = Phase(u)
    BY <2>1 DEF Phase, Running, Prepared, Performing
  <2> QED BY <2>1, <2>2, Stutters
<1>2. ASSUME NEW t \in Threads, Execute(t) PROVE [Promise!Next]_(Promise!vars)
  <2>1. CASE Throw(t)
    <3>1. Moves(t, {"idle", "threw"}, {"idle", "threw"})
      BY <2>1 DEF Throw, Moves, shared
    <3> QED BY <3>1, SamePhase
  <2>2. CASE ExecuteNoDepend(t) \/ ExecuteReserve(t) \/ ExecuteCycle(t)
               \/ ExecuteEnqueue(t)
    <3>1. PICK r \in Requests, step \in {"prepare", "queued"} :
            Admit(t, r) /\ pc' = [pc EXCEPT ![t] = step]
      BY <2>2 DEF ExecuteNoDepend, ExecuteReserve, ExecuteCycle, ExecuteEnqueue, NoDepend
    <3>2. Promise!Request(t)
      BY <3>1, AdmitRequests
    <3> QED BY <3>2 DEF Promise!Next
  <2> QED BY <1>2, <2>1, <2>2 DEF Execute
<1>3. ASSUME NEW t \in Threads, Continue(t) PROVE [Promise!Next]_(Promise!vars)
  <2>1. CASE Catch(t)
    <3>1. Moves(t, {"idle", "threw"}, {"idle", "threw"})
      BY <2>1 DEF Catch, Moves, shared
    <3> QED BY <3>1, SamePhase
  <2>2. CASE LeaveQueue(t) \/ WokenAlone(t) \/ WokenByParent(t)
    <3>1. Moves(t, {"queued", "woken", "prepare"}, {"queued", "woken", "prepare"})
      BY <2>2 DEF LeaveQueue, WokenAlone, NoDepend, WokenByParent, Moves, shared
    <3> QED BY <3>1, SamePhase
  <2>3. CASE Prepare(t)
    BY <2>3, PrepareEnds DEF Promise!Next
  <2>4. CASE ReleaseChild(t) \/ FreeSlot(t) \/ SignalChild(t) \/ SignalQueue(t) \/ Await(t)
    <3>1. Moves(t, Waited, Waited) \/ Moves(t, Waited, {"perform"})
      <4>1. CASE ReleaseChild(t)
        BY <4>1 DEF ReleaseChild, AfterVacate, Moves, Waited, shared
      <4>2. CASE FreeSlot(t)
        BY <4>2 DEF FreeSlot, AfterVacate, Moves, Waited
      <4>3. CASE SignalChild(t)
        BY <4>3 DEF SignalChild, AfterVacate, Moves, Waited, shared
      <4>4. CASE SignalQueue(t)
        BY <4>4 DEF SignalQueue, AfterVacate, Moves, Waited, shared
      <4>5. CASE Await(t)
        BY <4>5 DEF Await, Moves, Waited, shared
      <4> QED BY <2>4, <4>1, <4>2, <4>3, <4>4, <4>5
    <3>2. CASE Moves(t, Waited, Waited)
      BY <3>2, SamePhase DEF Waited
    <3>3. CASE Moves(t, Waited, {"perform"})
      <4>1. Promise!StartPerform(t)
        BY <3>3, MoveStarts DEF Waited
      <4> QED BY <4>1 DEF Promise!Next
    <3> QED BY <3>1, <3>2, <3>3
  <2>5. CASE Perform(t)
    <3>1. Moves(t, {"perform", "complete"}, {"perform", "complete"})
      BY <2>5 DEF Perform, Moves, shared
    <3> QED BY <3>1, SamePhase
  <2>6. CASE TransferCompleted(t)
    BY <2>6, TransferReturns DEF Promise!Next
  <2> QED BY <1>3, <2>1, <2>2, <2>3, <2>4, <2>5, <2>6 DEF Continue
<1> QED BY <1>1, <1>2, <1>3 DEF Next

LEMMA InitRefines == Init => Promise!Init
<1> SUFFICES ASSUME Init PROVE Promise!Init
  OBVIOUS
<1>1. \A t \in Threads : Phase(t) = "idle" /\ ~Prepared(t)
  BY DEF Init, Phase, Running, Prepared, Performing
<1>2. [t \in Threads |-> Phase(t)] = [t \in Threads |-> "idle"]
  BY <1>1
<1>3. \A c \in Components : PhysicalPlace(c) = componentPlacement[c]
  BY <1>1 DEF PhysicalPlace
<1>4. [c \in Components |-> PhysicalPlace(c)] = componentPlacement
  BY <1>3 DEF Init
<1>5. [c \in Components |-> PhysicalPlace(c)] \in [Components -> Devices \cup {NoDevice}]
  BY <1>4 DEF Init, Places
<1>6. ASSUME NEW d \in Devices
      PROVE  Promise!Cardinality(Promise!Occupants(d)) <= Capacity[d]
  <2>1. Promise!Occupants(d) = Placed(d)
    BY <1>3 DEF Promise!Occupants, Placed
  <2>2. Promise!Cardinality(Placed(d)) <= Capacity[d]
    BY SameCardinality DEF Init
  <2> QED BY <2>1, <2>2
<1>7. req = [t \in Threads |-> Promise!NoJob]
  BY DEF Init, NoReq, Promise!NoJob
<1> QED BY <1>2, <1>5, <1>6, <1>7 DEF Promise!Init

\* Every execution of the queues and semaphores of StorageSystemImpl is an
\* execution of the simple storage system: prepare() frees a slot, and perform()
\* starts only when the destination physically has one.
THEOREM Refinement == Spec => KeepsPromise
<1>1. SlotsInv /\ SlotsInv' /\ PlacesRight /\ PlacesRight' /\ [Next]_vars
        => [Promise!Next]_(Promise!vars)
  BY StepRefines
<1>2. Spec => Promise!Spec
  BY <1>1, InitRefines, PlacesHold, SlotsInvariance, PTL DEF Spec, Promise!Spec
<1> QED BY <1>2 DEF KeepsPromise
=============================================================================
