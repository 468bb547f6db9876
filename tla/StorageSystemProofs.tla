------------------------- MODULE StorageSystemProofs -------------------------
(***************************************************************************)
(* Proofs about StorageSystem, for every set of callers, components and    *)
(* devices: type correctness, exclusive use of a component, and the        *)
(* hand-over rule for slots, from the inductive invariant Inv.             *)
(***************************************************************************)
EXTENDS StorageSystem, TLAPS, FiniteSetTheorems, SequenceTheorems

Injective(q) == \A i, j \in 1..Len(q) : q[i] = q[j] => i = j

AtMostOne(q, R) == \A i, j \in 1..Len(q) : q[i] \in R /\ q[j] \in R => i = j

LEMMA RangeSeq ==
  ASSUME NEW S, NEW q \in Seq(S)
  PROVE  /\ \A x : x \in Range(q) <=> \E i \in 1..Len(q) : q[i] = x
         /\ Range(q) \subseteq S
BY DEF Range

\* What taking out the k-th element leaves.
LEMMA RemoveAtProperties ==
  ASSUME NEW S, NEW q \in Seq(S), NEW k \in 1..Len(q)
  PROVE  /\ RemoveAt(q, k) \in Seq(S)
         /\ Len(RemoveAt(q, k)) = Len(q) - 1
         /\ \A i \in 1..Len(RemoveAt(q, k)) :
              RemoveAt(q, k)[i] = IF i < k THEN q[i] ELSE q[i + 1]
<1> DEFINE w == RemoveAt(q, k)
           p == SubSeq(q, 1, k - 1)
           r == SubSeq(q, k + 1, Len(q))
<1>0. Len(q) \in Nat /\ k \in Int
  BY LenProperties
<1>1. /\ p \in Seq(S) /\ Len(p) = k - 1
      /\ \A i \in 1..(k - 1) : p[i] = q[i]
  <2>1. \A i \in 1..(k - 1) : q[i] \in S
    BY <1>0, ElementOfSeq
  <2> QED BY <1>0, <2>1, SubSeqProperties
<1>2. /\ r \in Seq(S) /\ Len(r) = Len(q) - k
      /\ \A i \in 1..(Len(q) - k) : r[i] = q[k + i]
  <2>1. \A i \in (k + 1)..Len(q) : q[i] \in S
    BY <1>0, ElementOfSeq
  <2> QED BY <1>0, <2>1, SubSeqProperties
<1>3. w = p \o r
  BY DEF RemoveAt
<1> HIDE DEF p, r, w
<1>4. /\ w \in Seq(S) /\ Len(w) = Len(p) + Len(r)
      /\ \A i \in 1..(Len(p) + Len(r)) :
           w[i] = IF i <= Len(p) THEN p[i] ELSE r[i - Len(p)]
  BY <1>1, <1>2, <1>3, ConcatProperties
<1>5. Len(w) = Len(q) - 1
  BY <1>0, <1>1, <1>2, <1>4
<1>6. ASSUME NEW i \in 1..Len(w)
      PROVE  w[i] = IF i < k THEN q[i] ELSE q[i + 1]
  <2>1. CASE i < k
    BY <1>0, <1>1, <1>2, <1>4, <1>5, <2>1
  <2>2. CASE ~(i < k)
    <3>1. i - (k - 1) \in 1..(Len(q) - k) /\ k + (i - (k - 1)) = i + 1
      BY <1>0, <1>5, <2>2
    <3>2. w[i] = r[i - (k - 1)]
      BY <1>0, <1>1, <1>2, <1>4, <1>5, <2>2
    <3> QED BY <1>2, <2>2, <3>1, <3>2
  <2> QED BY <2>1, <2>2
<1> QED BY <1>4, <1>5, <1>6 DEF w

\* Taking one element out of a queue keeps its type and its order, keeps the
\* entries distinct, and takes out what was asked for.
LEMMA WithoutProperties ==
  ASSUME NEW S, NEW q \in Seq(S), NEW R
  PROVE  /\ Without(q, R) \in Seq(S)
         /\ Range(Without(q, R)) \subseteq Range(q)
         /\ Injective(q) => Injective(Without(q, R))
         /\ AtMostOne(q, R) => Range(Without(q, R)) \cap R = {}
<1>1. CASE ~\E k \in 1..Len(q) : q[k] \in R
  BY <1>1, RangeSeq DEF Without
<1>2. CASE \E k \in 1..Len(q) : q[k] \in R
  <2> DEFINE k == CHOOSE i \in 1..Len(q) : q[i] \in R
             w == RemoveAt(q, k)
  <2>1. k \in 1..Len(q) /\ q[k] \in R
    BY <1>2
  <2>2. Without(q, R) = w
    BY <1>2 DEF Without
  <2> HIDE DEF k
  <2>3. /\ w \in Seq(S)
        /\ Len(w) = Len(q) - 1
        /\ \A i \in 1..Len(w) : w[i] = IF i < k THEN q[i] ELSE q[i + 1]
    BY <2>1, RemoveAtProperties DEF w
  <2> HIDE DEF w
  <2>4. Range(w) \subseteq Range(q)
    BY <2>1, <2>3, RangeSeq
  <2>5. Injective(q) => Injective(w)
    <3> DEFINE at(i) == IF i < k THEN i ELSE i + 1
    <3>1. ASSUME NEW i \in 1..Len(w)
          PROVE  at(i) \in 1..Len(q) /\ w[i] = q[at(i)]
      <4>1. i \in 1..(Len(q) - 1) /\ w[i] = IF i < k THEN q[i] ELSE q[i + 1]
        BY <2>3
      <4>2. Len(q) \in Nat /\ k \in 1..Len(q)
        BY <2>1, LenProperties
      <4>3. CASE i < k
        BY <4>1, <4>2, <4>3
      <4>4. CASE ~(i < k)
        BY <4>1, <4>2, <4>4
      <4> QED BY <4>3, <4>4
    <3>2. ASSUME NEW i \in 1..Len(w), NEW j \in 1..Len(w), at(i) = at(j)
          PROVE  i = j
      <4>1. k \in Int /\ i \in Int /\ j \in Int
        BY <2>1
      <4> QED BY <3>2, <4>1
    <3> HIDE DEF at
    <3> SUFFICES ASSUME Injective(q), NEW i \in 1..Len(w), NEW j \in 1..Len(w),
                        w[i] = w[j]
                 PROVE  i = j
      BY DEF Injective
    <3> QED BY <3>1, <3>2 DEF Injective
  <2>6. AtMostOne(q, R) => Range(w) \cap R = {}
    BY <2>1, <2>3, RangeSeq DEF AtMostOne
  <2> QED BY <2>2, <2>3, <2>4, <2>5, <2>6
<1> QED BY <1>1, <1>2

LEMMA AppendFresh ==
  ASSUME NEW S, NEW q \in Seq(S), NEW e \in S, e \notin Range(q), Injective(q)
  PROVE  Injective(Append(q, e)) /\ Range(Append(q, e)) = Range(q) \cup {e}
<1> DEFINE r == Append(q, e)
<1>1. /\ r \in Seq(S) /\ Len(r) = Len(q) + 1 /\ r[Len(q) + 1] = e
      /\ \A i \in 1..Len(q) : r[i] = q[i]
      /\ Len(q) \in Nat
  BY AppendProperties, LenProperties
<1> HIDE DEF r
<1>2. \A i \in 1..Len(r) : i \in 1..Len(q) \/ i = Len(q) + 1
  BY <1>1
<1>3. Range(r) = Range(q) \cup {e}
  <2>1. Range(r) \subseteq Range(q) \cup {e}
    BY <1>1, <1>2, RangeSeq
  <2>2. Range(q) \subseteq Range(r)
    BY <1>1, RangeSeq
  <2>3. e \in Range(r)
    BY <1>1, RangeSeq
  <2> QED BY <2>1, <2>2, <2>3
<1>4. \A i \in 1..Len(q) : q[i] # e
  BY RangeSeq
<1>5. Injective(r)
  <2> SUFFICES ASSUME NEW i \in 1..Len(r), NEW j \in 1..Len(r), r[i] = r[j]
               PROVE  i = j
    BY DEF Injective
  <2>1. CASE i \in 1..Len(q) /\ j \in 1..Len(q)
    BY <1>1, <2>1 DEF Injective
  <2> QED BY <1>1, <1>2, <1>4, <2>1
<1> QED BY <1>3, <1>5 DEF r

LEMMA HeirsAreThreads ==
  ASSUME TypeOK, NEW p \in Threads
  PROVE  Heirs(p) \subseteq Threads
<1>1. child[p] \in Ids /\ wtChild[p] \in Ids
  BY DEF TypeOK
<1> QED BY <1>1 DEF Heirs, Ids

LEMMA OneMore ==
  ASSUME NEW D, NEW f \in [D -> Nat], NEW i
  PROVE  [f EXCEPT ![i] = @ + 1] \in [D -> Nat]
<1>1. ASSUME NEW e \in D PROVE [f EXCEPT ![i] = @ + 1][e] \in Nat
  <2>1. CASE e = i
    BY <2>1
  <2>2. CASE e # i
    BY <2>2
  <2> QED BY <2>1, <2>2
<1> QED BY <1>1

LEMMA WaitersAreThreads ==
  ASSUME TypeOK
  PROVE  Waiters \subseteq Threads
BY DEF Waiters

\* The members of a woken list are distinct waiting threads, and every member
\* has a next semaphore.
LEMMA ListMembers ==
  ASSUME NEW s \in WaiterLists, NEW last \in Ids
  PROVE  /\ Range(s) \subseteq Waiters
         /\ Len(s) \in Nat
         /\ s # <<>> => s[1] \in Range(s)
         /\ \A u \in Range(s) : NextInList(s, u, last) \in Range(s) \cup {last}
<1>1. PICK n \in 0..Cardinality(Waiters) : s \in [1..n -> Waiters]
  BY DEF WaiterLists
<1>2. Cardinality(Waiters) \in Nat /\ n \in Nat
  <2>1. IsFiniteSet(Waiters)
    BY FS_Subset, StorageAssumption DEF Waiters
  <2> QED BY <2>1, <1>1, FS_CardinalityType
<1>3. s \in Seq(Waiters) /\ Len(s) = n
  BY <1>1, <1>2
<1>4. ASSUME NEW u \in Range(s)
      PROVE  NextInList(s, u, last) \in Range(s) \cup {last}
  <2> DEFINE i == CHOOSE k \in 1..Len(s) : s[k] = u
  <2>1. i \in 1..Len(s) /\ s[i] = u
    BY <1>3, <1>4, RangeSeq
  <2> HIDE DEF i
  <2>2. NextInList(s, u, last) = IF i < Len(s) THEN s[i + 1] ELSE last
    BY DEF NextInList, i
  <2> QED BY <1>2, <1>3, <2>1, <2>2, RangeSeq
<1> QED BY <1>2, <1>3, <1>4, RangeSeq

-----------------------------------------------------------------------------
(* Type correctness *)

LEMMA WakeType ==
  ASSUME TypeOK, NEW t \in Threads, NEW s \in WaiterLists,
         NEW last \in Ids, NEW branch \in {"noDepend", "cycle"},
         Wake(t, s, last, branch)
  PROVE  /\ child' \in [Threads -> Ids]
         /\ path' \in [Threads -> {"none", "noDepend", "reserved", "cycle",
                                   "waiting", "chained"}]
         /\ queueLeft' \in [Threads -> Nat]
         /\ waitingTransfers' \in [Devices -> Seq(Threads)]
<1>1. /\ Range(s) \subseteq Threads
      /\ s # <<>> => s[1] \in Threads
      /\ \A u \in Range(s) : NextInList(s, u, last) \in Ids
  BY ListMembers, WaitersAreThreads DEF Ids
<1>2. child' \in [Threads -> Ids]
  BY <1>1 DEF Wake, TypeOK, Ids
<1>3. \A d \in Devices : Without(waitingTransfers[d], Range(s)) \in Seq(Threads)
  BY WithoutProperties DEF TypeOK
<1>4. waitingTransfers' \in [Devices -> Seq(Threads)]
  BY <1>3 DEF Wake
<1> QED BY <1>2, <1>4 DEF Wake, TypeOK

LEMMA TypeInit == Init => TypeOK
<1> SUFFICES ASSUME Init PROVE TypeOK
  OBVIOUS
<1>1. freeSlots \in [Devices -> Nat]
  <2> SUFFICES ASSUME NEW d \in Devices
               PROVE  Capacity[d] - Cardinality(Placed(d)) \in Nat
    BY DEF Init
  <2>1. IsFiniteSet(Placed(d))
    BY FS_Subset, StorageAssumption DEF Placed
  <2>2. Cardinality(Placed(d)) \in Nat
    BY <2>1, FS_CardinalityType
  <2>3. Capacity[d] \in Nat /\ Cardinality(Placed(d)) <= Capacity[d]
    BY StorageAssumption DEF Init
  <2> QED BY <2>2, <2>3
<1> QED BY <1>1 DEF Init, TypeOK, Ids, NoReq, Places

LEMMA TypeStep == TypeOK /\ [Next]_vars => TypeOK'
<1> SUFFICES ASSUME TypeOK, [Next]_vars PROVE TypeOK'
  OBVIOUS
<1> USE DEF vars, shared, handles, sems
<1>0. CASE UNCHANGED vars
  BY <1>0 DEF TypeOK
<1>a. ASSUME NEW t \in Threads, NEW r, NoDepend(t, r), r.src \in Places
      PROVE  /\ child' \in [Threads -> Ids]
             /\ path' \in [Threads -> {"none", "noDepend", "reserved", "cycle",
                                       "waiting", "chained"}]
             /\ queueLeft' \in [Threads -> Nat]
             /\ waitingTransfers' \in [Devices -> Seq(Threads)]
             /\ workingTransfers' \in [Devices -> Seq(Threads)]
  <2>1. PICK s \in WaiterLists :
          /\ Wake(t, s, NoThread, "noDepend")
          /\ workingTransfers' =
               IF s = <<>> /\ r.src # NoDevice
                 THEN [workingTransfers EXCEPT ![r.src] = Append(@, t)]
                 ELSE workingTransfers
    BY <1>a DEF NoDepend
  <2>2. workingTransfers' \in [Devices -> Seq(Threads)]
    BY <1>a, <2>1, AppendProperties DEF TypeOK, Places
  <2> QED BY <2>1, <2>2, WakeType DEF Ids
<1>b. ASSUME NEW t \in Threads, NEW r \in Requests, Verdict(r) = "ok"
      PROVE  r.src \in Places /\ r.dst \in Places /\ r.comp \in Components
  BY <1>b DEF Verdict, Requests
<1>1. ASSUME NEW t \in Threads, Throw(t) PROVE TypeOK'
  BY <1>1 DEF Throw, TypeOK
<1>2. ASSUME NEW t \in Threads, ExecuteNoDepend(t) PROVE TypeOK'
  <2>1. PICK r \in Requests :
          /\ Admit(t, r) /\ ~MustWait(r) /\ NoDepend(t, r) /\ UNCHANGED wtChild
          /\ freeSlots' = IF r.dst = NoDevice THEN freeSlots
                          ELSE [freeSlots EXCEPT ![r.dst] = @ - 1]
    BY <1>2 DEF ExecuteNoDepend
  <2>2. r.src \in Places /\ r.dst \in Places /\ r.comp \in Components
    BY <2>1, <1>b DEF Admit
  <2>3. freeSlots' \in [Devices -> Nat]
    BY <2>1, <2>2 DEF MustWait, TypeOK, Places
  <2>4. req' \in [Threads -> [comp : Components \cup {NoComponent},
                              src : Places, dst : Places]]
    BY <2>1, <2>2 DEF Admit, TypeOK, Requests
  <2>5. pc' = [pc EXCEPT ![t] = "prepare"]
    BY <2>1 DEF NoDepend
  <2> QED BY <2>1, <2>2, <2>3, <2>4, <2>5, <1>a DEF Admit, TypeOK
<1>3. ASSUME NEW t \in Threads, ExecuteReserve(t) PROVE TypeOK'
  <2>1. PICK r \in Requests :
          /\ Admit(t, r) /\ MustWait(r) /\ r.src # NoDevice
          /\ workingTransfers[r.dst] # <<>>
          /\ wtChild' = [wtChild EXCEPT ![Head(workingTransfers[r.dst])] = t]
          /\ workingTransfers' = [workingTransfers EXCEPT
                                   ![r.dst] = Tail(@), ![r.src] = Append(@, t)]
          /\ path' = [path EXCEPT ![t] = "reserved"]
          /\ pc' = [pc EXCEPT ![t] = "prepare"]
          /\ UNCHANGED <<child, queueLeft, freeSlots, waitingTransfers>>
    BY <1>3 DEF ExecuteReserve
  <2>2. r.src \in Devices /\ r.dst \in Devices /\ r.comp \in Components
    BY <2>1, <1>b DEF Admit, MustWait, Places
  <2>3. /\ Head(workingTransfers[r.dst]) \in Threads
        /\ Tail(workingTransfers[r.dst]) \in Seq(Threads)
    BY <2>1, <2>2, HeadTailProperties DEF TypeOK
  <2>4. workingTransfers' \in [Devices -> Seq(Threads)]
    BY <2>1, <2>2, <2>3, AppendProperties DEF TypeOK
  <2>5. req' \in [Threads -> [comp : Components \cup {NoComponent},
                              src : Places, dst : Places]]
    BY <2>1, <2>2 DEF Admit, TypeOK, Requests, Places
  <2> QED BY <2>1, <2>2, <2>3, <2>4, <2>5 DEF Admit, TypeOK, Ids
<1>4. ASSUME NEW t \in Threads, ExecuteCycle(t) PROVE TypeOK'
  <2>1. PICK r \in Requests, s \in WaiterLists :
          /\ Admit(t, r) /\ Wake(t, s, t, "cycle")
          /\ pc' = [pc EXCEPT ![t] = "prepare"]
          /\ UNCHANGED <<wtChild, freeSlots, workingTransfers>>
    BY <1>4 DEF ExecuteCycle
  <2>2. r.src \in Places /\ r.dst \in Places /\ r.comp \in Components
    BY <2>1, <1>b DEF Admit
  <2>3. req' \in [Threads -> [comp : Components \cup {NoComponent},
                              src : Places, dst : Places]]
    BY <2>1, <2>2 DEF Admit, TypeOK, Requests
  <2>4. t \in Ids
    BY DEF Ids
  <2> QED BY <2>1, <2>2, <2>3, <2>4, WakeType DEF Admit, TypeOK
<1>5. ASSUME NEW t \in Threads, ExecuteEnqueue(t) PROVE TypeOK'
  <2>1. PICK r \in Requests :
          /\ Admit(t, r) /\ MustWait(r)
          /\ waitingTransfers' = [waitingTransfers EXCEPT ![r.dst] = Append(@, t)]
          /\ path' = [path EXCEPT ![t] = "waiting"]
          /\ pc' = [pc EXCEPT ![t] = "queued"]
          /\ UNCHANGED <<child, wtChild, queueLeft, freeSlots, workingTransfers>>
    BY <1>5 DEF ExecuteEnqueue
  <2>2. r.src \in Places /\ r.dst \in Devices /\ r.comp \in Components
    BY <2>1, <1>b DEF Admit, MustWait, Places
  <2>3. waitingTransfers' \in [Devices -> Seq(Threads)]
    BY <2>1, <2>2, AppendProperties DEF TypeOK
  <2>4. req' \in [Threads -> [comp : Components \cup {NoComponent},
                              src : Places, dst : Places]]
    BY <2>1, <2>2 DEF Admit, TypeOK, Requests, Places
  <2> QED BY <2>1, <2>2, <2>3, <2>4 DEF Admit, TypeOK
<1>6. ASSUME NEW t \in Threads, WokenAlone(t) PROVE TypeOK'
  <2>1. req[t].src \in Places
    BY DEF TypeOK
  <2>2. pc' = [pc EXCEPT ![t] = "prepare"]
    BY <1>6 DEF WokenAlone, NoDepend
  <2>3. NoDepend(t, req[t])
    BY <1>6 DEF WokenAlone
  <2>4. /\ child' \in [Threads -> Ids]
        /\ path' \in [Threads -> {"none", "noDepend", "reserved", "cycle",
                                  "waiting", "chained"}]
        /\ queueLeft' \in [Threads -> Nat]
        /\ waitingTransfers' \in [Devices -> Seq(Threads)]
        /\ workingTransfers' \in [Devices -> Seq(Threads)]
    BY <2>1, <2>3, <1>a
  <2> QED BY <1>6, <2>2, <2>4 DEF WokenAlone, TypeOK
<1>7. ASSUME NEW t \in Threads, WokenByParent(t) PROVE TypeOK'
  <2>1. workingTransfers' \in [Devices -> Seq(Threads)]
    BY <1>7, AppendProperties DEF WokenByParent, TypeOK, Places
  <2> QED BY <1>7, <2>1 DEF WokenByParent, TypeOK
<1>8. ASSUME NEW t \in Threads, FreeSlot(t) PROVE TypeOK'
  <2> DEFINE d == req[t].src
  <2>1. AfterVacate(t) \in {"await", "perform"}
    BY DEF AfterVacate
  <2>2. pc' \in [Threads -> {"idle", "threw", "queued", "woken", "prepare",
                  "vacate", "signalChild", "signalQueue", "await", "perform",
                  "complete"}]
    BY <1>8, <2>1 DEF FreeSlot, TypeOK
  <2>3. workingTransfers' \in [Devices -> Seq(Threads)]
    <3>1. d # NoDevice => /\ d \in Devices
                          /\ Without(workingTransfers[d], {t}) \in Seq(Threads)
      BY WithoutProperties DEF TypeOK, Places
    <3> QED BY <1>8, <3>1 DEF FreeSlot, TypeOK
  <2>4. /\ waitingTransfers' \in [Devices -> Seq(Threads)]
        /\ polled' \in [Threads -> Ids]
    <3>1. d # NoDevice /\ waitingTransfers[d] # <<>> =>
            /\ Tail(waitingTransfers[d]) \in Seq(Threads)
            /\ Head(waitingTransfers[d]) \in Threads
      BY HeadTailProperties DEF TypeOK, Places
    <3>2. \/ UNCHANGED <<polled, waitingTransfers>>
          \/ /\ d # NoDevice /\ waitingTransfers[d] # <<>>
             /\ waitingTransfers' =
                  [waitingTransfers EXCEPT ![d] = Tail(waitingTransfers[d])]
             /\ polled' = [polled EXCEPT ![t] = Head(waitingTransfers[d])]
      BY <1>8 DEF FreeSlot
    <3> HIDE DEF d
    <3>3. CASE UNCHANGED <<polled, waitingTransfers>>
      BY <3>3 DEF TypeOK
    <3>4. CASE /\ d # NoDevice /\ waitingTransfers[d] # <<>>
               /\ waitingTransfers' =
                    [waitingTransfers EXCEPT ![d] = Tail(waitingTransfers[d])]
               /\ polled' = [polled EXCEPT ![t] = Head(waitingTransfers[d])]
      <4> DEFINE rest == Tail(waitingTransfers[d])
                 first == Head(waitingTransfers[d])
      <4>1. rest \in Seq(Threads) /\ first \in Ids
        BY <3>1, <3>4 DEF Ids
      <4>2. /\ waitingTransfers' = [waitingTransfers EXCEPT ![d] = rest]
            /\ polled' = [polled EXCEPT ![t] = first]
        BY <3>4
      <4> HIDE DEF rest, first
      <4> QED BY <4>1, <4>2 DEF TypeOK
    <3> QED BY <3>2, <3>3, <3>4
  <2>5. freeSlots' \in [Devices -> Nat]
    <3>1. UNCHANGED freeSlots \/ freeSlots' = [freeSlots EXCEPT ![d] = @ + 1]
      BY <1>8 DEF FreeSlot
    <3> HIDE DEF d
    <3>2. freeSlots \in [Devices -> Nat]
      BY DEF TypeOK
    <3>3. [freeSlots EXCEPT ![d] = @ + 1] \in [Devices -> Nat]
      BY <3>2, OneMore
    <3> QED BY <3>1, <3>2, <3>3
  <2>6. /\ UNCHANGED <<req, path, child, wtChild, queueLeft, permits>>
        /\ UNCHANGED <<isBusy, componentPlacement>>
    BY <1>8, Zenon DEF FreeSlot
  <2> QED BY <2>2, <2>3, <2>4, <2>5, <2>6 DEF TypeOK
<1>9. ASSUME NEW t \in Threads,
             \/ Catch(t) \/ LeaveQueue(t) \/ Prepare(t) \/ ReleaseChild(t)
             \/ SignalChild(t) \/ SignalQueue(t) \/ Await(t) \/ Perform(t)
      PROVE  TypeOK'
  <2>1. CASE Catch(t)
    BY <2>1 DEF Catch, TypeOK
  <2>2. CASE LeaveQueue(t)
    BY <2>2 DEF LeaveQueue, TypeOK
  <2>3. CASE Prepare(t)
    BY <2>3 DEF Prepare, TypeOK
  <2>4. CASE ReleaseChild(t)
    <3>1. permits' \in [Threads -> Nat]
      BY <2>4, OneMore DEF ReleaseChild, TypeOK
    <3> QED BY <2>4, <3>1 DEF ReleaseChild, AfterVacate, TypeOK
  <2>5. CASE SignalChild(t)
    <3>1. permits' \in [Threads -> Nat]
      BY <2>5, OneMore DEF SignalChild, TypeOK
    <3> QED BY <2>5, <3>1 DEF SignalChild, AfterVacate, TypeOK
  <2>6. CASE SignalQueue(t)
    <3>1. queueLeft' \in [Threads -> Nat]
      BY <2>6, OneMore DEF SignalQueue, TypeOK
    <3> QED BY <2>6, <3>1 DEF SignalQueue, AfterVacate, TypeOK
  <2>7. CASE Await(t)
    BY <2>7 DEF Await, TypeOK
  <2>8. CASE Perform(t)
    BY <2>8 DEF Perform, TypeOK
  <2> QED BY <1>9, <2>1, <2>2, <2>3, <2>4, <2>5, <2>6, <2>7, <2>8
<1>10. ASSUME NEW t \in Threads, TransferCompleted(t) PROVE TypeOK'
  BY <1>10 DEF TransferCompleted, TypeOK, NoReq, Places, Ids
<1> QED
  BY <1>0, <1>1, <1>2, <1>3, <1>4, <1>5, <1>6, <1>7, <1>8, <1>9, <1>10
  DEF Next, Execute, Continue

\* Every variable keeps the type of its Java field, whatever the numbers of
\* callers, components, devices and slots (StorageSystemImpl.java).
THEOREM TypeCorrect == Spec => []TypeOK
<1> QED BY TypeInit, TypeStep, PTL DEF Spec

-----------------------------------------------------------------------------
(* The inductive invariant *)

\* In this step nobody but t joins a list of working transfers, and t that of d.
WorkingGrows(t, d) ==
  \A e \in Devices :
    /\ Injective(workingTransfers'[e])
    /\ Range(workingTransfers'[e]) \subseteq
         IF e = d THEN Range(workingTransfers[e]) \cup {t}
         ELSE Range(workingTransfers[e])

\* A thread that has not started its transfer may offer its slot: the queue of
\* working transfers keeps its entries distinct.
LEMMA WorkingAppend ==
  ASSUME Inv, NEW t \in Threads, NotStarted(t), NEW d \in Devices,
         workingTransfers' = [workingTransfers EXCEPT ![d] = Append(@, t)]
  PROVE  WorkingGrows(t, d)
<1>1. /\ workingTransfers[d] \in Seq(Threads)
      /\ \A e \in Devices : t \notin Range(workingTransfers[e])
  BY DEF Inv, TypeOK, WorkingInv
<1> SUFFICES ASSUME NEW e \in Devices
             PROVE  /\ Injective(workingTransfers'[e])
                    /\ Range(workingTransfers'[e]) \subseteq
                         IF e = d THEN Range(workingTransfers[e]) \cup {t}
                         ELSE Range(workingTransfers[e])
  BY DEF WorkingGrows
<1>2. Injective(workingTransfers[e])
  BY DEF Inv, WorkingInv, Injective
<1>3. CASE e = d
  <2>1. workingTransfers'[e] = Append(workingTransfers[d], t)
    BY <1>1, <1>3 DEF Inv, TypeOK
  <2> QED BY <1>1, <1>2, <1>3, <2>1, AppendFresh
<1>4. CASE e # d
  <2>1. workingTransfers'[e] = workingTransfers[e]
    BY <1>4 DEF Inv, TypeOK
  <2> QED BY <1>2, <1>4, <2>1
<1> QED BY <1>3, <1>4

\* In a woken list the hand-over order is one-to-one: two members never have the
\* same next one, and nobody in the list hands over to the first member.
LEMMA ListOrder ==
  ASSUME NEW s \in WaiterLists, NEW last \in Ids, last \notin Range(s)
  PROVE  /\ \A u, v \in Range(s) : NextInList(s, u, last) = NextInList(s, v, last)
                                     => u = v
         /\ \A u \in Range(s) : NextInList(s, u, last) # s[1]
<1>1. /\ Len(s) \in Nat /\ s \in Seq(Waiters)
      /\ \A i, j \in 1..Len(s) : s[i] = s[j] => i = j
  <2>1. PICK n \in 0..Cardinality(Waiters) :
          /\ s \in [1..n -> Waiters]
          /\ \A i, j \in 1..n : req[s[i]].dst = req[s[j]].dst => i = j
    BY DEF WaiterLists
  <2>2. Cardinality(Waiters) \in Nat /\ n \in Nat
    <3>1. IsFiniteSet(Waiters)
      BY FS_Subset, StorageAssumption DEF Waiters
    <3> QED BY <3>1, <2>1, FS_CardinalityType
  <2> QED BY <2>1, <2>2
<1>2. ASSUME NEW u \in Range(s)
      PROVE  \E i \in 1..Len(s) :
               /\ s[i] = u
               /\ NextInList(s, u, last) = IF i < Len(s) THEN s[i + 1] ELSE last
  <2> DEFINE i == CHOOSE k \in 1..Len(s) : s[k] = u
  <2>1. i \in 1..Len(s) /\ s[i] = u
    BY <1>1, <1>2, RangeSeq
  <2> HIDE DEF i
  <2>2. NextInList(s, u, last) = IF i < Len(s) THEN s[i + 1] ELSE last
    BY DEF NextInList, i
  <2> QED BY <2>1, <2>2
<1>3. \A i \in 1..Len(s) : s[i] # last
  BY <1>1, RangeSeq
<1>4. ASSUME NEW u \in Range(s), NEW v \in Range(s),
             NextInList(s, u, last) = NextInList(s, v, last)
      PROVE  u = v
  <2>1. PICK i \in 1..Len(s) :
          /\ s[i] = u
          /\ NextInList(s, u, last) = IF i < Len(s) THEN s[i + 1] ELSE last
    BY <1>2
  <2>2. PICK j \in 1..Len(s) :
          /\ s[j] = v
          /\ NextInList(s, v, last) = IF j < Len(s) THEN s[j + 1] ELSE last
    BY <1>2
  <2>3. CASE i < Len(s) /\ j < Len(s)
    <3>1. i + 1 \in 1..Len(s) /\ j + 1 \in 1..Len(s) /\ s[i + 1] = s[j + 1]
      <4>1. i \in Int /\ j \in Int
        BY <2>1, <2>2
      <4>2. s[i + 1] = s[j + 1]
        BY <1>4, <2>1, <2>2, <2>3
      <4> QED BY <1>1, <4>1, <4>2, <2>3, SMT
    <3>2. i = j
      BY <1>1, <3>1
    <3> QED BY <2>1, <2>2, <3>2
  <2>4. CASE ~(i < Len(s)) /\ ~(j < Len(s))
    BY <1>1, <2>1, <2>2, <2>4
  <2>5. CASE i < Len(s) /\ ~(j < Len(s))
    <3>1. i + 1 \in 1..Len(s) /\ s[i + 1] = last
      <4>1. s[i + 1] = last
        BY <1>4, <2>1, <2>2, <2>5
      <4> QED BY <1>1, <2>5, <4>1
    <3> QED BY <1>3, <3>1
  <2>6. CASE j < Len(s) /\ ~(i < Len(s))
    <3>1. j + 1 \in 1..Len(s) /\ s[j + 1] = last
      <4>1. s[j + 1] = last
        BY <1>4, <2>1, <2>2, <2>6
      <4> QED BY <1>1, <2>6, <4>1
    <3> QED BY <1>3, <3>1
  <2> QED BY <2>3, <2>4, <2>5, <2>6
<1>5. ASSUME NEW u \in Range(s) PROVE NextInList(s, u, last) # s[1]
  <2>1. PICK i \in 1..Len(s) :
          /\ s[i] = u
          /\ NextInList(s, u, last) = IF i < Len(s) THEN s[i + 1] ELSE last
    BY <1>2
  <2>2. 1 \in 1..Len(s)
    BY <1>1, <2>1
  <2>3. CASE i < Len(s)
    BY <1>1, <2>1, <2>2, <2>3
  <2> QED BY <1>1, <1>3, <2>1, <2>2, <2>3
<1> QED BY <1>4, <1>5

\* What a wake-up does to the members of the list and to the queues.
LEMMA WakeFacts ==
  ASSUME Inv, NEW t \in Threads, pc[t] # "queued", NEW s \in WaiterLists,
         NEW last \in Ids, last \in {NoThread, t},
         NEW branch, Wake(t, s, last, branch)
  PROVE  /\ t \notin Range(s) /\ last \notin Range(s)
         /\ \A u \in Range(s) :
              /\ u \in Threads /\ pc[u] = "queued" /\ path[u] = "waiting"
              /\ permits[u] = 0 /\ queueLeft[u] = 0 /\ InQueue(u)
         /\ \A d \in Devices :
              /\ Injective(waitingTransfers'[d])
              /\ Range(waitingTransfers'[d]) \subseteq Range(waitingTransfers[d])
              /\ Range(waitingTransfers'[d]) \cap Range(s) = {}
<1>1. /\ Range(s) \subseteq Waiters
      /\ \A u \in Range(s) : InQueue(u) /\ u \in Threads
  BY ListMembers DEF Waiters
<1>2. \A u \in Range(s) : /\ pc[u] = "queued" /\ path[u] = "waiting"
                          /\ permits[u] = 0 /\ queueLeft[u] = 0
  BY <1>1 DEF Inv, WaitingInv, InQueue
<1>3. t \notin Range(s) /\ last \notin Range(s)
  BY <1>1, <1>2, StorageAssumption
<1>4. ASSUME NEW d \in Devices
      PROVE  /\ Injective(waitingTransfers'[d])
             /\ Range(waitingTransfers'[d]) \subseteq Range(waitingTransfers[d])
             /\ Range(waitingTransfers'[d]) \cap Range(s) = {}
  <2> DEFINE q == waitingTransfers[d]
  <2>1. q \in Seq(Threads) /\ waitingTransfers'[d] = Without(q, Range(s))
    BY DEF Inv, TypeOK, Wake
  <2>2. Injective(q) /\ \A u \in Range(q) : req[u].dst = d
    BY DEF Inv, WaitingInv, Injective
  <2>3. \A u, v \in Range(s) : req[u].dst = req[v].dst => u = v
    <3>1. PICK n \in 0..Cardinality(Waiters) :
            /\ s \in [1..n -> Waiters]
            /\ \A i, j \in 1..n : req[s[i]].dst = req[s[j]].dst => i = j
      BY DEF WaiterLists
    <3> QED BY <3>1 DEF Range
  <2> HIDE DEF q
  <2>4. AtMostOne(q, Range(s))
    BY <2>1, <2>2, <2>3, RangeSeq DEF AtMostOne, Injective
  <2> QED BY <2>1, <2>2, <2>4, WithoutProperties DEF q
<1> QED BY <1>1, <1>2, <1>3, <1>4
LEMMA ThrowKeeps ==
  ASSUME Inv, NEW t \in Threads, Throw(t)
  PROVE  Inv'
<1> USE DEF vars, shared, handles, sems
<1>0. TypeOK'
  BY TypeStep DEF Inv, Next, Execute, Continue
<1>1. ExclusiveComponent'
  BY DEF Inv, Throw, TypeOK, ExclusiveComponent, Running, StepInv,
         NotStarted
<1>2. StepInv'
  BY DEF Inv, Throw, TypeOK, StepInv, Running, NotStarted, HeirInv,
         Heirs, Owes, BeforeAwait, WaitingInv, PolledInv, InQueue,
         WorkingInv
<1>3. HeirInv'
  BY DEF Inv, Throw, TypeOK, StepInv, Running, NotStarted, HeirInv,
         Heirs, Owes, BeforeAwait, OneParent, WaitingInv, PolledInv,
         InQueue, WorkingInv
<1>4. OneParent'
  <2>1. \A p \in Threads : Owes(p)' => Owes(p)
    BY DEF Inv, TypeOK, Throw, Owes
  <2>2. \A p \in Threads : Heirs(p)' \subseteq Heirs(p)
    BY DEF Inv, TypeOK, Throw, Heirs
  <2> QED BY <2>1, <2>2 DEF Inv, OneParent
<1>5. WaitingInv'
  BY DEF Inv, Throw, TypeOK, StepInv, Running, NotStarted, HeirInv,
         Heirs, Owes, BeforeAwait, WaitingInv, PolledInv, InQueue
<1>6. PolledInv'
  BY DEF Inv, Throw, TypeOK, StepInv, Running, NotStarted, WaitingInv,
         PolledInv, InQueue
<1>7. WorkingInv'
  BY DEF Inv, Throw, TypeOK, StepInv, Running, NotStarted, HeirInv,
         Heirs, Owes, BeforeAwait, WaitingInv, PolledInv, InQueue,
         WorkingInv
<1> QED BY <1>0, <1>1, <1>2, <1>3, <1>4, <1>5, <1>6, <1>7 DEF Inv

LEMMA CatchKeeps ==
  ASSUME Inv, NEW t \in Threads, Catch(t)
  PROVE  Inv'
<1> USE DEF vars, shared, handles, sems
<1>0. TypeOK'
  BY TypeStep DEF Inv, Next, Execute, Continue
<1>1. ExclusiveComponent'
  BY DEF Inv, Catch, TypeOK, ExclusiveComponent, Running, StepInv,
         NotStarted
<1>2. StepInv'
  BY DEF Inv, Catch, TypeOK, StepInv, Running, NotStarted, HeirInv,
         Heirs, Owes, BeforeAwait, WaitingInv, PolledInv, InQueue,
         WorkingInv
<1>3. HeirInv'
  BY DEF Inv, Catch, TypeOK, StepInv, Running, NotStarted, HeirInv,
         Heirs, Owes, BeforeAwait, OneParent, WaitingInv, PolledInv,
         InQueue, WorkingInv
<1>4. OneParent'
  <2>1. \A p \in Threads : Owes(p)' => Owes(p)
    BY DEF Inv, TypeOK, Catch, Owes
  <2>2. \A p \in Threads : Heirs(p)' \subseteq Heirs(p)
    BY DEF Inv, TypeOK, Catch, Heirs
  <2> QED BY <2>1, <2>2 DEF Inv, OneParent
<1>5. WaitingInv'
  BY DEF Inv, Catch, TypeOK, StepInv, Running, NotStarted, HeirInv,
         Heirs, Owes, BeforeAwait, WaitingInv, PolledInv, InQueue
<1>6. PolledInv'
  BY DEF Inv, Catch, TypeOK, StepInv, Running, NotStarted, WaitingInv,
         PolledInv, InQueue
<1>7. WorkingInv'
  BY DEF Inv, Catch, TypeOK, StepInv, Running, NotStarted, HeirInv,
         Heirs, Owes, BeforeAwait, WaitingInv, PolledInv, InQueue,
         WorkingInv
<1> QED BY <1>0, <1>1, <1>2, <1>3, <1>4, <1>5, <1>6, <1>7 DEF Inv

LEMMA LeaveQueueKeeps ==
  ASSUME Inv, NEW t \in Threads, LeaveQueue(t)
  PROVE  Inv'
<1> USE DEF vars, shared, handles, sems
<1>0. TypeOK'
  BY TypeStep DEF Inv, Next, Execute, Continue
<1>1. ExclusiveComponent'
  BY DEF Inv, LeaveQueue, TypeOK, ExclusiveComponent, Running, StepInv,
         NotStarted
<1>2. StepInv'
  BY DEF Inv, LeaveQueue, TypeOK, StepInv, Running, NotStarted,
         HeirInv, Heirs, Owes, BeforeAwait, WaitingInv, PolledInv, InQueue,
         WorkingInv
<1>3. HeirInv'
  BY DEF Inv, LeaveQueue, TypeOK, StepInv, Running, NotStarted,
         HeirInv, Heirs, Owes, BeforeAwait, OneParent, WaitingInv,
         PolledInv, InQueue, WorkingInv
<1>4. OneParent'
  <2>1. \A p \in Threads : Owes(p)' => Owes(p)
    BY DEF Inv, TypeOK, LeaveQueue, Owes
  <2>2. \A p \in Threads : Heirs(p)' \subseteq Heirs(p)
    BY DEF Inv, TypeOK, LeaveQueue, Heirs
  <2> QED BY <2>1, <2>2 DEF Inv, OneParent
<1>5. WaitingInv'
  BY DEF Inv, LeaveQueue, TypeOK, StepInv, Running, NotStarted,
         HeirInv, Heirs, Owes, BeforeAwait, WaitingInv, PolledInv, InQueue
<1>6. PolledInv'
  BY DEF Inv, LeaveQueue, TypeOK, StepInv, Running, NotStarted,
         WaitingInv, PolledInv, InQueue
<1>7. WorkingInv'
  BY DEF Inv, LeaveQueue, TypeOK, StepInv, Running, NotStarted,
         HeirInv, Heirs, Owes, BeforeAwait, WaitingInv, PolledInv, InQueue,
         WorkingInv
<1> QED BY <1>0, <1>1, <1>2, <1>3, <1>4, <1>5, <1>6, <1>7 DEF Inv

LEMMA WokenByParentKeeps ==
  ASSUME Inv, NEW t \in Threads, WokenByParent(t)
  PROVE  Inv'
<1> USE DEF vars, shared, handles, sems
<1>0. TypeOK'
  BY TypeStep DEF Inv, Next, Execute, Continue
<1>1. ExclusiveComponent'
  BY DEF Inv, WokenByParent, TypeOK, ExclusiveComponent, Running,
         StepInv, NotStarted
<1>2. StepInv'
  BY DEF Inv, WokenByParent, TypeOK, StepInv, Running, NotStarted,
         HeirInv, Heirs, Owes, BeforeAwait, WaitingInv, PolledInv, InQueue,
         WorkingInv
<1>3. HeirInv'
  BY DEF Inv, WokenByParent, TypeOK, StepInv, Running, NotStarted,
         HeirInv, Heirs, Owes, BeforeAwait, OneParent, WaitingInv,
         PolledInv, InQueue, WorkingInv
<1>4. OneParent'
  <2>1. \A p \in Threads : Owes(p)' => Owes(p)
    BY DEF Inv, TypeOK, WokenByParent, Owes
  <2>2. \A p \in Threads : Heirs(p)' \subseteq Heirs(p)
    BY DEF Inv, TypeOK, WokenByParent, Heirs
  <2> QED BY <2>1, <2>2 DEF Inv, OneParent
<1>5. WaitingInv'
  BY DEF Inv, WokenByParent, TypeOK, StepInv, Running, NotStarted,
         HeirInv, Heirs, Owes, BeforeAwait, WaitingInv, PolledInv, InQueue
<1>6. PolledInv'
  BY DEF Inv, WokenByParent, TypeOK, StepInv, Running, NotStarted,
         WaitingInv, PolledInv, InQueue
<1>7. WorkingInv'
  <2> DEFINE d == req[t].src
  <2>1. CASE workingTransfers' = workingTransfers
    BY <2>1 DEF Inv, WokenByParent, TypeOK, WorkingInv, NotStarted, Owes
  <2>2. CASE /\ d # NoDevice /\ child[t] = NoThread
             /\ workingTransfers' = [workingTransfers EXCEPT ![d] = Append(@, t)]
    <3>1. d \in Devices /\ workingTransfers[d] \in Seq(Threads)
      BY <2>2 DEF Inv, TypeOK, Places
    <3>2. /\ wtChild[t] = NoThread /\ pc[t] = "woken"
          /\ \A e \in Devices : t \notin Range(workingTransfers[e])
      <4>1. pc[t] = "woken" /\ NotStarted(t)
        BY DEF WokenByParent, NotStarted
      <4>2. wtChild[t] = NoThread
        BY <4>1 DEF Inv, StepInv
      <4>3. \A e \in Devices : t \notin Range(workingTransfers[e])
        BY <4>1 DEF Inv, WorkingInv
      <4> QED BY <4>1, <4>2, <4>3
    <3>3. WorkingGrows(t, d)
      <4>1. NotStarted(t)
        BY <3>2 DEF NotStarted
      <4> HIDE DEF d
      <4> QED BY <2>2, <3>1, <4>1, WorkingAppend
    <3>4. /\ req'[t].src = d /\ pc'[t] = "prepare"
          /\ UNCHANGED <<child, wtChild, req, path>>
          /\ \A u \in Threads : u # t => pc'[u] = pc[u]
      <4>1. UNCHANGED <<child, wtChild, req, path>> /\ pc' = [pc EXCEPT ![t] = "prepare"]
        BY DEF WokenByParent, handles
      <4>2. pc \in [Threads -> {"idle", "threw", "queued", "woken", "prepare", "vacate",
                "signalChild", "signalQueue", "await", "perform", "complete"}]
        BY DEF Inv, TypeOK
      <4> QED BY <4>1, <4>2
    <3> HIDE DEF d
    <3>5. ASSUME NEW e \in Devices, NEW u \in Range(workingTransfers'[e])
          PROVE  /\ ~NotStarted(u)' /\ Owes(u)' /\ pc'[u] # "signalChild"
                 /\ child'[u] = NoThread /\ wtChild'[u] = NoThread
                 /\ req'[u].src = e
      <4>1. CASE u = t /\ e = d
        <5>1. child'[t] = NoThread /\ wtChild'[t] = NoThread
          BY <2>2, <3>2, <3>4
        <5>2. ~NotStarted(t)' /\ Owes(t)' /\ pc'[t] # "signalChild"
          BY <3>4 DEF NotStarted, Owes
        <5> QED BY <3>4, <4>1, <5>1, <5>2
      <4>2. CASE u \in Range(workingTransfers[e])
        <5>1. u \in Threads /\ u # t
          BY <3>2, <4>2, RangeSeq DEF Inv, TypeOK
        <5> QED BY <3>4, <4>2, <5>1 DEF Inv, WorkingInv, NotStarted, Owes
      <4> QED BY <3>3, <4>1, <4>2 DEF WorkingGrows
    <3> QED BY <3>3, <3>5 DEF WorkingInv, WorkingGrows, Injective
  <2> QED BY <2>1, <2>2 DEF WokenByParent
<1> QED BY <1>0, <1>1, <1>2, <1>3, <1>4, <1>5, <1>6, <1>7 DEF Inv

LEMMA PrepareKeeps ==
  ASSUME Inv, NEW t \in Threads, Prepare(t)
  PROVE  Inv'
<1> USE DEF vars, shared, handles, sems
<1>0. TypeOK'
  BY TypeStep DEF Inv, Next, Execute, Continue
<1>1. ExclusiveComponent'
  BY DEF Inv, Prepare, TypeOK, ExclusiveComponent, Running, StepInv,
         NotStarted
<1>2. StepInv'
  BY DEF Inv, Prepare, TypeOK, StepInv, Running, NotStarted, HeirInv,
         Heirs, Owes, BeforeAwait, WaitingInv, PolledInv, InQueue,
         WorkingInv
<1>3. HeirInv'
  BY DEF Inv, Prepare, TypeOK, StepInv, Running, NotStarted, HeirInv,
         Heirs, Owes, BeforeAwait, OneParent, WaitingInv, PolledInv,
         InQueue, WorkingInv
<1>4. OneParent'
  <2>1. \A p \in Threads : Owes(p)' => Owes(p)
    BY DEF Inv, TypeOK, Prepare, Owes
  <2>2. \A p \in Threads : Heirs(p)' \subseteq Heirs(p)
    BY DEF Inv, TypeOK, Prepare, Heirs
  <2> QED BY <2>1, <2>2 DEF Inv, OneParent
<1>5. WaitingInv'
  BY DEF Inv, Prepare, TypeOK, StepInv, Running, NotStarted, HeirInv,
         Heirs, Owes, BeforeAwait, WaitingInv, PolledInv, InQueue
<1>6. PolledInv'
  BY DEF Inv, Prepare, TypeOK, StepInv, Running, NotStarted,
         WaitingInv, PolledInv, InQueue
<1>7. WorkingInv'
  BY DEF Inv, Prepare, TypeOK, StepInv, Running, NotStarted, HeirInv,
         Heirs, Owes, BeforeAwait, WaitingInv, PolledInv, InQueue,
         WorkingInv
<1> QED BY <1>0, <1>1, <1>2, <1>3, <1>4, <1>5, <1>6, <1>7 DEF Inv

LEMMA SignalQueueKeeps ==
  ASSUME Inv, NEW t \in Threads, SignalQueue(t)
  PROVE  Inv'
<1> USE DEF vars, shared, handles, sems
<1>0. TypeOK'
  BY TypeStep DEF Inv, Next, Execute, Continue
<1>1. ExclusiveComponent'
  BY DEF Inv, SignalQueue, AfterVacate, TypeOK, ExclusiveComponent,
         Running, StepInv, NotStarted
<1>2. StepInv'
  BY DEF Inv, SignalQueue, AfterVacate, TypeOK, StepInv, Running,
         NotStarted, HeirInv, Heirs, Owes, BeforeAwait, WaitingInv,
         PolledInv, InQueue, WorkingInv
<1>3. HeirInv'
  BY DEF Inv, SignalQueue, AfterVacate, TypeOK, StepInv, Running,
         NotStarted, HeirInv, Heirs, Owes, BeforeAwait, OneParent,
         WaitingInv, PolledInv, InQueue, WorkingInv
<1>4. OneParent'
  <2>1. \A p \in Threads : Owes(p)' => Owes(p)
    BY DEF Inv, TypeOK, SignalQueue, AfterVacate, Owes
  <2>2. \A p \in Threads : Heirs(p)' \subseteq Heirs(p)
    BY DEF Inv, TypeOK, SignalQueue, AfterVacate, Heirs
  <2> QED BY <2>1, <2>2 DEF Inv, OneParent
<1>5. WaitingInv'
  BY DEF Inv, SignalQueue, AfterVacate, TypeOK, StepInv, Running,
         NotStarted, HeirInv, Heirs, Owes, BeforeAwait, WaitingInv,
         PolledInv, InQueue
<1>6. PolledInv'
  BY DEF Inv, SignalQueue, AfterVacate, TypeOK, StepInv, Running,
         NotStarted, WaitingInv, PolledInv, InQueue
<1>7. WorkingInv'
  BY DEF Inv, SignalQueue, AfterVacate, TypeOK, StepInv, Running,
         NotStarted, HeirInv, Heirs, Owes, BeforeAwait, WaitingInv,
         PolledInv, InQueue, WorkingInv
<1> QED BY <1>0, <1>1, <1>2, <1>3, <1>4, <1>5, <1>6, <1>7 DEF Inv

LEMMA AwaitKeeps ==
  ASSUME Inv, NEW t \in Threads, Await(t)
  PROVE  Inv'
<1> USE DEF vars, shared, handles, sems
<1>0. TypeOK'
  BY TypeStep DEF Inv, Next, Execute, Continue
<1>1. ExclusiveComponent'
  BY DEF Inv, Await, TypeOK, ExclusiveComponent, Running, StepInv,
         NotStarted
<1>2. StepInv'
  BY DEF Inv, Await, TypeOK, StepInv, Running, NotStarted, HeirInv,
         Heirs, Owes, BeforeAwait, WaitingInv, PolledInv, InQueue,
         WorkingInv
<1>3. HeirInv'
  BY DEF Inv, Await, TypeOK, StepInv, Running, NotStarted, HeirInv,
         Heirs, Owes, BeforeAwait, OneParent, WaitingInv, PolledInv,
         InQueue, WorkingInv
<1>4. OneParent'
  <2>1. \A p \in Threads : Owes(p)' => Owes(p)
    BY DEF Inv, TypeOK, Await, Owes
  <2>2. \A p \in Threads : Heirs(p)' \subseteq Heirs(p)
    BY DEF Inv, TypeOK, Await, Heirs
  <2> QED BY <2>1, <2>2 DEF Inv, OneParent
<1>5. WaitingInv'
  BY DEF Inv, Await, TypeOK, StepInv, Running, NotStarted, HeirInv,
         Heirs, Owes, BeforeAwait, WaitingInv, PolledInv, InQueue
<1>6. PolledInv'
  BY DEF Inv, Await, TypeOK, StepInv, Running, NotStarted, WaitingInv,
         PolledInv, InQueue
<1>7. WorkingInv'
  BY DEF Inv, Await, TypeOK, StepInv, Running, NotStarted, HeirInv,
         Heirs, Owes, BeforeAwait, WaitingInv, PolledInv, InQueue,
         WorkingInv
<1> QED BY <1>0, <1>1, <1>2, <1>3, <1>4, <1>5, <1>6, <1>7 DEF Inv

LEMMA PerformKeeps ==
  ASSUME Inv, NEW t \in Threads, Perform(t)
  PROVE  Inv'
<1> USE DEF vars, shared, handles, sems
<1>0. TypeOK'
  BY TypeStep DEF Inv, Next, Execute, Continue
<1>1. ExclusiveComponent'
  BY DEF Inv, Perform, TypeOK, ExclusiveComponent, Running, StepInv,
         NotStarted
<1>2. StepInv'
  BY DEF Inv, Perform, TypeOK, StepInv, Running, NotStarted, HeirInv,
         Heirs, Owes, BeforeAwait, WaitingInv, PolledInv, InQueue,
         WorkingInv
<1>3. HeirInv'
  BY DEF Inv, Perform, TypeOK, StepInv, Running, NotStarted, HeirInv,
         Heirs, Owes, BeforeAwait, OneParent, WaitingInv, PolledInv,
         InQueue, WorkingInv
<1>4. OneParent'
  <2>1. \A p \in Threads : Owes(p)' => Owes(p)
    BY DEF Inv, TypeOK, Perform, Owes
  <2>2. \A p \in Threads : Heirs(p)' \subseteq Heirs(p)
    BY DEF Inv, TypeOK, Perform, Heirs
  <2> QED BY <2>1, <2>2 DEF Inv, OneParent
<1>5. WaitingInv'
  BY DEF Inv, Perform, TypeOK, StepInv, Running, NotStarted, HeirInv,
         Heirs, Owes, BeforeAwait, WaitingInv, PolledInv, InQueue
<1>6. PolledInv'
  BY DEF Inv, Perform, TypeOK, StepInv, Running, NotStarted,
         WaitingInv, PolledInv, InQueue
<1>7. WorkingInv'
  BY DEF Inv, Perform, TypeOK, StepInv, Running, NotStarted, HeirInv,
         Heirs, Owes, BeforeAwait, WaitingInv, PolledInv, InQueue,
         WorkingInv
<1> QED BY <1>0, <1>1, <1>2, <1>3, <1>4, <1>5, <1>6, <1>7 DEF Inv

LEMMA ReleaseChildKeeps ==
  ASSUME Inv, NEW t \in Threads, ReleaseChild(t)
  PROVE  Inv'
<1> USE DEF vars, shared, handles, sems
<1>0. TypeOK'
  BY TypeStep DEF Inv, Next, Execute, Continue
<1>a. /\ child[t] \in Threads /\ child[t] \in Heirs(t) /\ Owes(t)
      /\ pc' = [pc EXCEPT ![t] = AfterVacate(t)] /\ ~Owes(t)'
      /\ permits' = [permits EXCEPT ![child[t]] = @ + 1]
      /\ UNCHANGED <<req, path, handles, queueLeft, shared>>
  BY DEF Inv, TypeOK, ReleaseChild, Heirs, Owes, AfterVacate, Ids, StepInv
<1>b. path[child[t]] \in {"reserved", "cycle", "chained"} /\ Running(child[t])
  BY <1>a DEF Inv, HeirInv, StepInv
<1>1. ExclusiveComponent'
  BY DEF Inv, ReleaseChild, AfterVacate, TypeOK, ExclusiveComponent,
         Running, StepInv, NotStarted
<1>2. StepInv'
  BY <1>a, <1>b DEF Inv, TypeOK, StepInv, Running, NotStarted, AfterVacate,
                    ReleaseChild
<1>3. HeirInv'
  <2>1. ASSUME NEW p \in Threads, NEW u \in Heirs(p), Owes(p)'
        PROVE  p # t /\ u # child[t] /\ Owes(p)
    BY <1>a, <2>1 DEF Inv, OneParent, TypeOK, Owes
  <2>2. \A p \in Threads : Heirs(p)' = Heirs(p)
    BY <1>a DEF Heirs
  <2>3. \A p \in Threads : \A u \in Heirs(p) : u \in Threads
    BY HeirsAreThreads, Zenon DEF Inv
  <2>4. ASSUME NEW p \in Threads, NEW u \in Heirs(p), Owes(p)'
        PROVE  /\ path'[u] \in {"reserved", "cycle", "chained"}
               /\ BeforeAwait(u)' /\ permits'[u] = 0
    <3>1. /\ u \in Threads /\ path[u] \in {"reserved", "cycle", "chained"}
          /\ BeforeAwait(u) /\ permits[u] = 0 /\ u # child[t]
      BY <2>1, <2>3, <2>4 DEF Inv, HeirInv
    <3>2. permits'[u] = 0 /\ path'[u] = path[u]
      BY <1>a, <3>1 DEF Inv, TypeOK
    <3>3. BeforeAwait(u)'
      BY <1>a, <3>1 DEF Inv, TypeOK, BeforeAwait, AfterVacate, ReleaseChild
    <3> QED BY <3>1, <3>2, <3>3
  <2> QED BY <2>2, <2>4 DEF HeirInv
<1>4. OneParent'
  <2>1. \A p \in Threads : Owes(p)' => Owes(p)
    BY DEF Inv, TypeOK, ReleaseChild, AfterVacate, Owes
  <2>2. \A p \in Threads : Heirs(p)' \subseteq Heirs(p)
    BY DEF Inv, TypeOK, ReleaseChild, AfterVacate, Heirs
  <2> QED BY <2>1, <2>2 DEF Inv, OneParent
<1>5. WaitingInv'
  <2>1. \A d \in Devices : \A u \in Range(waitingTransfers[d]) :
          u # child[t] /\ u # t /\ u \in Threads
    BY <1>a, <1>b, RangeSeq DEF Inv, TypeOK, WaitingInv, Owes, ReleaseChild
  <2> QED BY <1>a, <2>1 DEF Inv, TypeOK, WaitingInv
<1>6. PolledInv'
  BY DEF Inv, ReleaseChild, AfterVacate, TypeOK, StepInv, Running,
         NotStarted, WaitingInv, PolledInv, InQueue
<1>7. WorkingInv'
  BY DEF Inv, ReleaseChild, AfterVacate, TypeOK, StepInv, Running,
         NotStarted, HeirInv, Heirs, Owes, BeforeAwait, WaitingInv,
         PolledInv, InQueue, WorkingInv
<1> QED BY <1>0, <1>1, <1>2, <1>3, <1>4, <1>5, <1>6, <1>7 DEF Inv

LEMMA SignalChildKeeps ==
  ASSUME Inv, NEW t \in Threads, SignalChild(t)
  PROVE  Inv'
<1> USE DEF vars, shared, handles, sems
<1>0. TypeOK'
  BY TypeStep DEF Inv, Next, Execute, Continue
<1>a. /\ wtChild[t] \in Threads /\ wtChild[t] \in Heirs(t) /\ Owes(t)
      /\ pc' = [pc EXCEPT ![t] = AfterVacate(t)] /\ ~Owes(t)'
      /\ permits' = [permits EXCEPT ![wtChild[t]] = @ + 1]
      /\ UNCHANGED <<req, path, handles, queueLeft, shared>>
  BY DEF Inv, TypeOK, SignalChild, Heirs, Owes, AfterVacate, Ids, StepInv
<1>b. path[wtChild[t]] \in {"reserved", "cycle", "chained"} /\ Running(wtChild[t])
  BY <1>a DEF Inv, HeirInv, StepInv
<1>1. ExclusiveComponent'
  BY DEF Inv, SignalChild, AfterVacate, TypeOK, ExclusiveComponent,
         Running, StepInv, NotStarted
<1>2. StepInv'
  BY <1>a, <1>b DEF Inv, TypeOK, StepInv, Running, NotStarted, AfterVacate,
                    SignalChild
<1>3. HeirInv'
  <2>1. ASSUME NEW p \in Threads, NEW u \in Heirs(p), Owes(p)'
        PROVE  p # t /\ u # wtChild[t] /\ Owes(p)
    BY <1>a, <2>1 DEF Inv, OneParent, TypeOK, Owes
  <2>2. \A p \in Threads : Heirs(p)' = Heirs(p)
    BY <1>a DEF Heirs
  <2>3. \A p \in Threads : \A u \in Heirs(p) : u \in Threads
    BY HeirsAreThreads, Zenon DEF Inv
  <2>4. ASSUME NEW p \in Threads, NEW u \in Heirs(p), Owes(p)'
        PROVE  /\ path'[u] \in {"reserved", "cycle", "chained"}
               /\ BeforeAwait(u)' /\ permits'[u] = 0
    <3>1. /\ u \in Threads /\ path[u] \in {"reserved", "cycle", "chained"}
          /\ BeforeAwait(u) /\ permits[u] = 0 /\ u # wtChild[t]
      BY <2>1, <2>3, <2>4 DEF Inv, HeirInv
    <3>2. permits'[u] = 0 /\ path'[u] = path[u]
      BY <1>a, <3>1 DEF Inv, TypeOK
    <3>3. BeforeAwait(u)'
      BY <1>a, <3>1 DEF Inv, TypeOK, BeforeAwait, AfterVacate, SignalChild
    <3> QED BY <3>1, <3>2, <3>3
  <2> QED BY <2>2, <2>4 DEF HeirInv
<1>4. OneParent'
  <2>1. \A p \in Threads : Owes(p)' => Owes(p)
    BY DEF Inv, TypeOK, SignalChild, AfterVacate, Owes
  <2>2. \A p \in Threads : Heirs(p)' \subseteq Heirs(p)
    BY DEF Inv, TypeOK, SignalChild, AfterVacate, Heirs
  <2> QED BY <2>1, <2>2 DEF Inv, OneParent
<1>5. WaitingInv'
  <2>1. \A d \in Devices : \A u \in Range(waitingTransfers[d]) :
          u # wtChild[t] /\ u # t /\ u \in Threads
    BY <1>a, <1>b, RangeSeq DEF Inv, TypeOK, WaitingInv, Owes, SignalChild
  <2> QED BY <1>a, <2>1 DEF Inv, TypeOK, WaitingInv
<1>6. PolledInv'
  BY DEF Inv, SignalChild, AfterVacate, TypeOK, StepInv, Running,
         NotStarted, WaitingInv, PolledInv, InQueue
<1>7. WorkingInv'
  BY DEF Inv, SignalChild, AfterVacate, TypeOK, StepInv, Running,
         NotStarted, HeirInv, Heirs, Owes, BeforeAwait, WaitingInv,
         PolledInv, InQueue, WorkingInv
<1> QED BY <1>0, <1>1, <1>2, <1>3, <1>4, <1>5, <1>6, <1>7 DEF Inv

LEMMA TransferCompletedKeeps ==
  ASSUME Inv, NEW t \in Threads, TransferCompleted(t)
  PROVE  Inv'
<1> USE DEF vars, shared, handles, sems
<1>0. TypeOK'
  BY TypeStep DEF Inv, Next, Execute, Continue
<1>1. ExclusiveComponent'
  BY StorageAssumption DEF Inv, TransferCompleted, NoReq, TypeOK, ExclusiveComponent,
         Running, StepInv, NotStarted
<1>2. StepInv'
  BY StorageAssumption DEF Inv, TransferCompleted, NoReq, TypeOK, StepInv, Running,
         NotStarted, HeirInv, Heirs, Owes, BeforeAwait, WaitingInv,
         PolledInv, InQueue, WorkingInv
<1>3. HeirInv'
  BY StorageAssumption DEF Inv, TransferCompleted, NoReq, TypeOK, StepInv, Running,
         NotStarted, HeirInv, Heirs, Owes, BeforeAwait, OneParent,
         WaitingInv, PolledInv, InQueue, WorkingInv
<1>4. OneParent'
  <2>1. \A p \in Threads : Owes(p)' => Owes(p)
    BY DEF Inv, TypeOK, TransferCompleted, NoReq, Owes
  <2>2. \A p \in Threads : Heirs(p)' \subseteq Heirs(p)
    BY DEF Inv, TypeOK, TransferCompleted, NoReq, Heirs
  <2> QED BY <2>1, <2>2 DEF Inv, OneParent
<1>5. WaitingInv'
  BY StorageAssumption DEF Inv, TransferCompleted, NoReq, TypeOK, StepInv, Running,
         NotStarted, HeirInv, Heirs, Owes, BeforeAwait, WaitingInv,
         PolledInv, InQueue
<1>6. PolledInv'
  BY StorageAssumption DEF Inv, TransferCompleted, NoReq, TypeOK, StepInv, Running,
         NotStarted, WaitingInv, PolledInv, InQueue
<1>7. WorkingInv'
  BY StorageAssumption DEF Inv, TransferCompleted, NoReq, TypeOK, StepInv, Running,
         NotStarted, HeirInv, Heirs, Owes, BeforeAwait, WaitingInv,
         PolledInv, InQueue, WorkingInv
<1> QED BY <1>0, <1>1, <1>2, <1>3, <1>4, <1>5, <1>6, <1>7 DEF Inv



\* The wake-ups of noDepend and of a closed cycle keep every part of the
\* invariant that speaks of heirs, waiting queues and semaphores.
LEMMA WakeKeeps ==
  ASSUME Inv, NEW t \in Threads, pc[t] \in {"idle", "woken"},
         path[t] \in {"none", "waiting"},
         NEW r \in Requests, r.comp \in Components, r.src # r.dst,
         NEW s \in WaiterLists, NEW last \in {NoThread, t},
         NEW branch \in {"noDepend", "cycle"},
         branch = "cycle" => permits[t] = 0,
         last = t => branch = "cycle",
         Wake(t, s, last, branch),
         pc' = [pc EXCEPT ![t] = "prepare"],
         req' = [req EXCEPT ![t] = r],
         UNCHANGED <<wtChild, polled, permits>>
  PROVE  StepInv' /\ HeirInv' /\ OneParent' /\ WaitingInv' /\ PolledInv'
<1>1. last \in Ids
  BY DEF Ids
<1>2. /\ t \notin Range(s) /\ last \notin Range(s)
      /\ \A u \in Range(s) :
           /\ u \in Threads /\ pc[u] = "queued" /\ path[u] = "waiting"
           /\ permits[u] = 0 /\ queueLeft[u] = 0 /\ InQueue(u)
      /\ \A d \in Devices :
           /\ Injective(waitingTransfers'[d])
           /\ Range(waitingTransfers'[d]) \subseteq Range(waitingTransfers[d])
           /\ Range(waitingTransfers'[d]) \cap Range(s) = {}
  BY <1>1, WakeFacts
<1>3. /\ s # <<>> => s[1] \in Range(s)
      /\ \A u \in Range(s) : NextInList(s, u, last) \in Range(s) \cup {last}
  BY <1>1, ListMembers
<1>4. /\ child'[t] = IF s = <<>> THEN NoThread ELSE s[1]
      /\ \A u \in Range(s) : child'[u] = NextInList(s, u, last)
      /\ \A u \in Threads : u # t /\ u \notin Range(s) => child'[u] = child[u]
  BY <1>2 DEF Wake
<1>5. /\ path'[t] = branch
      /\ \A u \in Range(s) : path'[u] = "chained"
      /\ \A u \in Threads : u # t /\ u \notin Range(s) => path'[u] = path[u]
      /\ \A u \in Range(s) : queueLeft'[u] = queueLeft[u] + 1
      /\ \A u \in Threads : u \notin Range(s) => queueLeft'[u] = queueLeft[u]
  BY <1>2 DEF Wake
<1>6. /\ pc'[t] = "prepare" /\ req'[t] = r
      /\ \A u \in Threads : u # t => pc'[u] = pc[u] /\ req'[u] = req[u]
  BY DEF Inv, TypeOK
<1>7. wtChild[t] = NoThread /\ wtChild'[t] = NoThread
  BY DEF Inv, StepInv, NotStarted
<1>8. StepInv'
  <2> SUFFICES ASSUME NEW u \in Threads
               PROVE  /\ pc'[u] \in {"queued", "woken"} => path'[u] \in {"waiting", "chained"}
                      /\ path'[u] = "waiting" => pc'[u] \in {"queued", "woken"}
                      /\ path'[u] = "none" <=> ~Running(u)'
                      /\ pc'[u] = "await" => path'[u] \in {"reserved", "cycle", "chained"}
                      /\ NotStarted(u)' => wtChild'[u] = NoThread
                      /\ pc'[u] = "signalChild" => wtChild'[u] # NoThread
                      /\ Running(u)' <=> req'[u].comp \in Components
                      /\ ~Running(u)' => /\ permits'[u] = 0 /\ queueLeft'[u] = 0
                                         /\ child'[u] = NoThread
                      /\ Running(u)' => req'[u].src # req'[u].dst
    BY DEF StepInv
  <2>1. CASE u = t
    BY <1>5, <1>6, <1>7, <2>1 DEF Running, NotStarted
  <2>2. CASE u \in Range(s)
    BY <1>2, <1>5, <1>6, <2>2 DEF Inv, StepInv, Running, NotStarted
  <2>3. CASE u # t /\ u \notin Range(s)
    BY <1>4, <1>5, <1>6, <2>3 DEF Inv, StepInv, Running, NotStarted
  <2> QED BY <2>1, <2>2, <2>3
<1>9. \A p \in Threads : t \in Heirs(p) => ~Owes(p)
  BY DEF Inv, HeirInv
<1>10. \A p \in Threads : p # t /\ p \notin Range(s) =>
         /\ Heirs(p)' = Heirs(p) /\ (Owes(p)' <=> Owes(p))
         /\ Owes(p) => Heirs(p) \cap (Range(s) \cup {t}) = {}
  <2> SUFFICES ASSUME NEW p \in Threads, p # t, p \notin Range(s)
               PROVE  /\ Heirs(p)' = Heirs(p) /\ (Owes(p)' <=> Owes(p))
                      /\ Owes(p) => Heirs(p) \cap (Range(s) \cup {t}) = {}
    OBVIOUS
  <2>1. Heirs(p)' = Heirs(p)
    BY <1>4 DEF Heirs
  <2>2. Owes(p)' <=> Owes(p)
    BY <1>5, <1>6 DEF Owes
  <2>3. \A u \in Range(s) : u \in Heirs(p) => ~Owes(p)
    BY <1>2 DEF Inv, HeirInv
  <2> QED BY <1>9, <2>1, <2>2, <2>3
<1>11. /\ \A u \in Heirs(t)' : s # <<>> /\ u = s[1] /\ u \in Range(s)
       /\ \A p \in Range(s) : \A u \in Heirs(p)' :
            /\ u = NextInList(s, p, last)
            /\ u \in Range(s) \/ (u = t /\ branch = "cycle")
  <2>1. \A p \in Range(s) : wtChild'[p] = NoThread
    BY <1>2 DEF Inv, StepInv, NotStarted
  <2> QED BY <1>3, <1>4, <1>7, <2>1 DEF Heirs
<1>12. HeirInv'
  <2> SUFFICES ASSUME NEW p \in Threads, NEW u \in Heirs(p)', Owes(p)'
               PROVE  /\ path'[u] \in {"reserved", "cycle", "chained"}
                      /\ BeforeAwait(u)' /\ permits'[u] = 0
    BY DEF HeirInv
  <2>1. CASE u \in Range(s)
    <3>1. u # t /\ pc'[u] = "queued" /\ path'[u] = "chained" /\ permits'[u] = 0
      BY <1>2, <1>5, <1>6, <2>1
    <3> QED BY <3>1 DEF BeforeAwait
  <2>2. CASE u = t /\ branch = "cycle"
    BY <1>5, <1>6, <2>2 DEF BeforeAwait
  <2>3. CASE p # t /\ p \notin Range(s)
    <3>1. /\ u \in Heirs(p) /\ Owes(p) /\ u # t /\ u \notin Range(s)
          /\ u \in Threads
      BY <1>10, <2>3, HeirsAreThreads DEF Inv
    <3>2. /\ path[u] \in {"reserved", "cycle", "chained"}
          /\ BeforeAwait(u) /\ permits[u] = 0
      BY <3>1 DEF Inv, HeirInv
    <3>3. pc'[u] = pc[u] /\ path'[u] = path[u] /\ permits'[u] = permits[u]
      BY <1>5, <1>6, <3>1
    <3> QED BY <3>2, <3>3 DEF BeforeAwait
  <2> QED BY <1>11, <2>1, <2>2, <2>3
<1>13. OneParent'
  <2> SUFFICES ASSUME NEW p \in Threads, NEW q \in Threads, NEW u \in Heirs(p)',
                      Owes(p)', Owes(q)', u \in Heirs(q)'
               PROVE  p = q
    BY DEF OneParent
  <2> DEFINE New(x) == x = t \/ x \in Range(s)
  <2>1. CASE ~New(p) /\ ~New(q)
    BY <1>10, <2>1 DEF Inv, OneParent
  <2>2. CASE New(p) /\ ~New(q)
    BY <1>10, <1>11, <2>2
  <2>3. CASE ~New(p) /\ New(q)
    BY <1>10, <1>11, <2>3
  <2>4. CASE New(p) /\ New(q)
    BY <1>1, <1>2, <1>11, <2>4, ListOrder
  <2> QED BY <2>1, <2>2, <2>3, <2>4
<1>14. WaitingInv'
  <2> SUFFICES ASSUME NEW d \in Devices, NEW u \in Range(waitingTransfers'[d])
               PROVE  /\ pc'[u] = "queued" /\ path'[u] = "waiting" /\ req'[u].dst = d
                      /\ permits'[u] = 0 /\ queueLeft'[u] = 0
    BY <1>2 DEF WaitingInv, Injective
  <2>1. u \in Range(waitingTransfers[d]) /\ u \notin Range(s)
    BY <1>2
  <2>2. /\ pc[u] = "queued" /\ path[u] = "waiting" /\ req[u].dst = d
        /\ permits[u] = 0 /\ queueLeft[u] = 0
    BY <2>1 DEF Inv, WaitingInv
  <2>3. u \in Threads /\ u # t
    BY <2>1, <2>2, RangeSeq DEF Inv, TypeOK
  <2> QED BY <1>5, <1>6, <2>1, <2>2, <2>3
<1>15. PolledInv'
  <2> SUFFICES ASSUME NEW p \in Threads, NEW q \in Threads, pc'[p] = "signalQueue"
               PROVE  /\ polled'[p] \in Threads
                      /\ pc'[polled'[p]] = "queued" /\ path'[polled'[p]] = "waiting"
                      /\ queueLeft'[polled'[p]] = 0 /\ ~InQueue(polled[p])'
                      /\ pc'[q] = "signalQueue" /\ polled'[q] = polled'[p] => q = p
    BY DEF PolledInv
  <2>1. p # t /\ pc[p] = "signalQueue" /\ (pc'[q] = "signalQueue" => pc[q] = "signalQueue")
    BY <1>6
  <2>2. /\ polled[p] \in Threads
        /\ pc[polled[p]] = "queued" /\ path[polled[p]] = "waiting"
        /\ queueLeft[polled[p]] = 0 /\ ~InQueue(polled[p])
        /\ pc[q] = "signalQueue" /\ polled[q] = polled[p] => q = p
    BY <2>1 DEF Inv, PolledInv
  <2>3. polled[p] \notin Range(s) /\ polled[p] # t
    BY <1>2, <2>2
  <2>4. ~InQueue(polled[p])'
    BY <1>2, <2>2 DEF InQueue
  <2> QED BY <1>5, <1>6, <2>1, <2>2, <2>3, <2>4
<1> QED BY <1>8, <1>12, <1>13, <1>14, <1>15

\* An admitted request is a well-formed one.
LEMMA Admitted ==
  ASSUME TypeOK, NEW t \in Threads, NEW r \in Requests, Admit(t, r)
  PROVE  /\ r.src \in Places /\ r.dst \in Places /\ r.comp \in Components
         /\ r.src # r.dst /\ isBusy[r.comp] = FALSE
         /\ pc[t] = "idle" /\ req' = [req EXCEPT ![t] = r]
         /\ isBusy' = [isBusy EXCEPT ![r.comp] = TRUE]
         /\ UNCHANGED <<polled, permits, componentPlacement>>
BY DEF Admit, Verdict, Requests, TypeOK

\* A thread that admits a request becomes the only one that moves its component.
LEMMA AdmitExclusive ==
  ASSUME Inv, NEW t \in Threads, NEW r \in Requests, Admit(t, r),
         NEW step \in {"prepare", "queued"}, pc' = [pc EXCEPT ![t] = step]
  PROVE  ExclusiveComponent'
<1>1. /\ r.comp \in Components /\ isBusy[r.comp] = FALSE /\ pc[t] = "idle"
      /\ req' = [req EXCEPT ![t] = r]
      /\ isBusy' = [isBusy EXCEPT ![r.comp] = TRUE]
  BY Admitted DEF Inv
<1>2. /\ Running(t)' /\ req'[t].comp = r.comp
      /\ \A u \in Threads : u # t => (Running(u)' <=> Running(u)) /\ req'[u] = req[u]
  BY <1>1 DEF Inv, TypeOK, Running
<1>3. \A u \in Threads : Running(u) => req[u].comp # r.comp
  BY <1>1 DEF Inv, ExclusiveComponent
<1>4. ~Running(t)
  BY <1>1 DEF Running
<1>5. \A u, v \in Threads :
        Running(u)' /\ Running(v)' /\ req'[u].comp = req'[v].comp => u = v
  BY <1>2, <1>3 DEF Inv, ExclusiveComponent
<1>6. ASSUME NEW c \in Components
      PROVE  isBusy'[c] <=> \E u \in Threads : Running(u)' /\ req'[u].comp = c
  <2>1. CASE c = r.comp
    <3>1. isBusy'[c] = TRUE
      BY <1>1, <2>1 DEF Inv, TypeOK
    <3> QED BY <1>2, <2>1, <3>1
  <2>2. CASE c # r.comp
    <3>1. isBusy'[c] = isBusy[c]
      BY <1>1, <2>2 DEF Inv, TypeOK
    <3>2. isBusy[c] <=> \E u \in Threads : Running(u) /\ req[u].comp = c
      BY DEF Inv, ExclusiveComponent
    <3>3. (\E u \in Threads : Running(u) /\ req[u].comp = c)
            <=> \E u \in Threads : Running(u)' /\ req'[u].comp = c
      BY <1>2, <1>4, <2>2
    <3> QED BY <3>1, <3>2, <3>3
  <2> QED BY <2>1, <2>2
<1> QED BY <1>5, <1>6 DEF ExclusiveComponent

\* The working transfers do not change when a thread that was not working starts
\* and t is the only new entry, or there is none.
LEMMA WorkingKeeps ==
  ASSUME Inv, NEW t \in Threads, NotStarted(t),
         NEW s \in WaiterLists, NEW last \in {NoThread, t},
         NEW branch \in {"noDepend", "cycle"}, pc[t] # "queued",
         Wake(t, s, last, branch),
         pc' = [pc EXCEPT ![t] = "prepare"],
         NEW d \in Places,
         \A u \in Threads : u # t => req'[u] = req[u],
         req'[t].src = d,
         UNCHANGED wtChild,
         workingTransfers' = IF s = <<>> /\ d # NoDevice
                               THEN [workingTransfers EXCEPT ![d] = Append(@, t)]
                               ELSE workingTransfers
  PROVE  WorkingInv'
<1>1. last \in Ids
  BY DEF Ids
<1>2. /\ t \notin Range(s)
      /\ \A u \in Range(s) : pc[u] = "queued"
  BY <1>1, WakeFacts
<1>3. \A u \in Threads : u # t /\ u \notin Range(s) =>
        /\ child'[u] = child[u] /\ path'[u] = path[u] /\ pc'[u] = pc[u]
  BY DEF Wake, Inv, TypeOK
<1>4. \A e \in Devices : \A u \in Range(workingTransfers[e]) :
        /\ u \in Threads /\ u # t /\ u \notin Range(s)
        /\ ~NotStarted(u) /\ Owes(u) /\ pc[u] # "signalChild"
        /\ child[u] = NoThread /\ wtChild[u] = NoThread /\ req[u].src = e
  BY <1>2, RangeSeq DEF Inv, TypeOK, WorkingInv, NotStarted
<1>5. \A e \in Devices : \A u \in Range(workingTransfers[e]) :
        /\ ~NotStarted(u)' /\ Owes(u)' /\ pc'[u] # "signalChild"
        /\ child'[u] = NoThread /\ wtChild'[u] = NoThread /\ req'[u].src = e
  BY <1>3, <1>4 DEF NotStarted, Owes
<1>6. CASE workingTransfers' = workingTransfers
  BY <1>5, <1>6 DEF Inv, WorkingInv
<1>7. CASE /\ s = <<>> /\ d \in Devices
           /\ workingTransfers' = [workingTransfers EXCEPT ![d] = Append(@, t)]
  <2>1. WorkingGrows(t, d)
    BY <1>7, WorkingAppend
  <2>2. /\ child'[t] = NoThread /\ pc'[t] = "prepare" /\ wtChild'[t] = NoThread
        /\ req'[t].src = d
    <3>1. child' = [u \in Threads |-> IF u = t THEN IF s = <<>> THEN NoThread ELSE s[1]
                                     ELSE IF u \in Range(s) THEN NextInList(s, u, last)
                                     ELSE child[u]]
      BY DEF Wake
    <3>2. child'[t] = NoThread
      BY <1>7, <3>1
    <3>3. pc'[t] = "prepare"
      BY DEF Inv, TypeOK
    <3>4. wtChild'[t] = NoThread
      BY DEF Inv, StepInv
    <3> QED BY <3>2, <3>3, <3>4
  <2>3. ~NotStarted(t)' /\ Owes(t)'
    BY <2>2 DEF NotStarted, Owes
  <2>4. ASSUME NEW e \in Devices, NEW u \in Range(workingTransfers'[e])
        PROVE  \/ u \in Range(workingTransfers[e])
               \/ u = t /\ e = d
    BY <2>1 DEF WorkingGrows
  <2>5. \A e \in Devices : \A u \in Range(workingTransfers'[e]) :
          /\ ~NotStarted(u)' /\ Owes(u)' /\ pc'[u] # "signalChild"
          /\ child'[u] = NoThread /\ wtChild'[u] = NoThread /\ req'[u].src = e
    BY <1>5, <2>2, <2>3, <2>4
  <2> QED BY <2>1, <2>5 DEF WorkingInv, WorkingGrows, Injective
<1> QED BY <1>6, <1>7 DEF Places

LEMMA ExecuteNoDependKeeps ==
  ASSUME Inv, NEW t \in Threads, ExecuteNoDepend(t)
  PROVE  Inv'
<1>0. TypeOK'
  BY TypeStep DEF Inv, Next, Execute
<1>1. PICK r \in Requests : Admit(t, r) /\ NoDepend(t, r) /\ UNCHANGED wtChild
  BY DEF ExecuteNoDepend
<1>2. PICK s \in WaiterLists :
        /\ Wake(t, s, NoThread, "noDepend")
        /\ workingTransfers' =
             IF s = <<>> /\ r.src # NoDevice
               THEN [workingTransfers EXCEPT ![r.src] = Append(@, t)]
               ELSE workingTransfers
  BY <1>1 DEF NoDepend
<1>3. pc' = [pc EXCEPT ![t] = "prepare"]
  BY <1>1 DEF NoDepend
<1>4. /\ r.src \in Places /\ r.comp \in Components /\ r.src # r.dst
      /\ pc[t] = "idle" /\ req' = [req EXCEPT ![t] = r]
      /\ UNCHANGED <<polled, permits>>
  BY <1>1, Admitted DEF Inv
<1>5. path[t] = "none" /\ NotStarted(t) /\ NoThread # t
  BY <1>4, StorageAssumption DEF Inv, StepInv, Running, NotStarted
<1>6. StepInv' /\ HeirInv' /\ OneParent' /\ WaitingInv' /\ PolledInv'
  BY <1>1, <1>2, <1>3, <1>4, <1>5, WakeKeeps
<1>7. ExclusiveComponent'
  BY <1>1, <1>3, AdmitExclusive
<1>8. req'[t].src = r.src /\ \A u \in Threads : u # t => req'[u] = req[u]
  BY <1>4 DEF Inv, TypeOK
<1>9. WorkingInv'
  BY <1>1, <1>2, <1>3, <1>4, <1>5, <1>8, WorkingKeeps
<1> QED BY <1>0, <1>6, <1>7, <1>9 DEF Inv

LEMMA ExecuteCycleKeeps ==
  ASSUME Inv, NEW t \in Threads, ExecuteCycle(t)
  PROVE  Inv'
<1>0. TypeOK'
  BY TypeStep DEF Inv, Next, Execute
<1>1. PICK r \in Requests, s \in WaiterLists :
        /\ Admit(t, r) /\ r.src # NoDevice
        /\ IsWakeCycle(r.src, r.dst, s) /\ Wake(t, s, t, "cycle")
        /\ pc' = [pc EXCEPT ![t] = "prepare"]
        /\ UNCHANGED <<wtChild, freeSlots, workingTransfers>>
  BY DEF ExecuteCycle
<1>2. /\ r.src \in Places /\ r.comp \in Components /\ r.src # r.dst
      /\ pc[t] = "idle" /\ req' = [req EXCEPT ![t] = r]
      /\ UNCHANGED <<polled, permits>>
  BY <1>1, Admitted DEF Inv
<1>3. path[t] = "none" /\ NotStarted(t) /\ permits[t] = 0
  BY <1>2 DEF Inv, StepInv, Running, NotStarted
<1>4. StepInv' /\ HeirInv' /\ OneParent' /\ WaitingInv' /\ PolledInv'
  BY <1>1, <1>2, <1>3, WakeKeeps
<1>5. ExclusiveComponent'
  BY <1>1, AdmitExclusive
<1>6. req'[t].src = r.src /\ \A u \in Threads : u # t => req'[u] = req[u]
  BY <1>2 DEF Inv, TypeOK
<1>7. s # <<>>
  BY <1>1 DEF IsWakeCycle, Cycles, IsCycle
<1>8. WorkingInv'
  BY <1>1, <1>2, <1>3, <1>6, <1>7, WorkingKeeps
<1> QED BY <1>0, <1>4, <1>5, <1>8 DEF Inv

LEMMA WokenAloneKeeps ==
  ASSUME Inv, NEW t \in Threads, WokenAlone(t)
  PROVE  Inv'
<1> DEFINE r == req[t]
<1>0. TypeOK'
  BY TypeStep DEF Inv, Next, Continue
<1>1. /\ pc[t] = "woken" /\ path[t] = "waiting" /\ NoDepend(t, r)
      /\ UNCHANGED <<req, wtChild, polled, permits, isBusy>>
  BY DEF WokenAlone
<1>2. PICK s \in WaiterLists :
        /\ Wake(t, s, NoThread, "noDepend")
        /\ workingTransfers' =
             IF s = <<>> /\ r.src # NoDevice
               THEN [workingTransfers EXCEPT ![r.src] = Append(@, t)]
               ELSE workingTransfers
  BY <1>1 DEF NoDepend
<1>3. pc' = [pc EXCEPT ![t] = "prepare"]
  BY <1>1 DEF NoDepend
<1>4. /\ r.src \in Places /\ r.comp \in Components /\ r.src # r.dst
      /\ r \in Requests /\ req' = [req EXCEPT ![t] = r]
  <2>1. r \in [comp : Components \cup {NoComponent}, src : Places, dst : Places]
    BY DEF Inv, TypeOK
  <2>2. r.comp \in Components /\ r.src # r.dst
    BY <1>1 DEF Inv, StepInv, Running
  <2>3. req' = [req EXCEPT ![t] = r]
    BY <1>1 DEF Inv, TypeOK
  <2> QED BY <2>1, <2>2, <2>3 DEF Requests
<1>5. NotStarted(t) /\ NoThread # t
  BY <1>1, StorageAssumption DEF NotStarted
<1> HIDE DEF r
<1>6. StepInv' /\ HeirInv' /\ OneParent' /\ WaitingInv' /\ PolledInv'
  BY <1>1, <1>2, <1>3, <1>4, <1>5, WakeKeeps
<1>7. ExclusiveComponent'
  BY <1>1, <1>3 DEF Inv, TypeOK, ExclusiveComponent, Running
<1>8. req'[t].src = r.src /\ \A u \in Threads : u # t => req'[u] = req[u]
  BY <1>4 DEF Inv, TypeOK
<1>9. WorkingInv'
  BY <1>1, <1>2, <1>3, <1>4, <1>5, <1>8, WorkingKeeps
<1> QED BY <1>0, <1>6, <1>7, <1>9 DEF Inv

LEMMA ExecuteReserveKeeps ==
  ASSUME Inv, NEW t \in Threads, ExecuteReserve(t)
  PROVE  Inv'
<1>0. TypeOK'
  BY TypeStep DEF Inv, Next, Execute
<1>1. PICK r \in Requests :
        /\ Admit(t, r) /\ MustWait(r) /\ r.src # NoDevice
        /\ workingTransfers[r.dst] # <<>>
        /\ wtChild' = [wtChild EXCEPT ![Head(workingTransfers[r.dst])] = t]
        /\ workingTransfers' = [workingTransfers EXCEPT
                                 ![r.dst] = Tail(@), ![r.src] = Append(@, t)]
        /\ path' = [path EXCEPT ![t] = "reserved"]
        /\ pc' = [pc EXCEPT ![t] = "prepare"]
        /\ UNCHANGED <<child, queueLeft, freeSlots, waitingTransfers>>
  BY DEF ExecuteReserve
<1> DEFINE q == workingTransfers[r.dst]
<1>2. /\ r.src \in Devices /\ r.dst \in Devices /\ r.comp \in Components
      /\ r.src # r.dst /\ pc[t] = "idle" /\ req' = [req EXCEPT ![t] = r]
      /\ UNCHANGED <<polled, permits>>
  BY <1>1, Admitted DEF Inv, MustWait, Places
<1>3. /\ path[t] = "none" /\ permits[t] = 0 /\ queueLeft[t] = 0
      /\ child[t] = NoThread /\ wtChild[t] = NoThread /\ t # NoThread
  BY <1>2, StorageAssumption DEF Inv, StepInv, Running, NotStarted
<1>4. PICK h \in Threads :
        /\ h = Head(q) /\ h \in Range(q)
        /\ q \in Seq(Threads) /\ Injective(q) /\ q # <<>>
        /\ Tail(q) \in Seq(Threads) /\ Injective(Tail(q))
        /\ Range(Tail(q)) \subseteq Range(q) \ {h}
  <2>1. q \in Seq(Threads) /\ Injective(q) /\ q # <<>>
    BY <1>1, <1>2 DEF Inv, TypeOK, WorkingInv, Injective
  <2> HIDE DEF q
  <2> DEFINE h == Head(q)
             rest == Tail(q)
  <2>2. /\ Len(q) \in Nat \ {0} /\ h = q[1] /\ h \in Threads
        /\ rest \in Seq(Threads) /\ Len(rest) = Len(q) - 1
        /\ \A i \in 1..Len(rest) : rest[i] = q[i + 1]
    BY <2>1, HeadTailProperties, EmptySeq
  <2> HIDE DEF h, rest
  <2>3. h \in Range(q)
    BY <2>1, <2>2, RangeSeq
  <2>4. Injective(rest)
    BY <2>1, <2>2 DEF Injective
  <2>5. Range(rest) \subseteq Range(q) \ {h}
    <3> SUFFICES ASSUME NEW u \in Range(rest) PROVE u \in Range(q) \ {h}
      OBVIOUS
    <3>1. PICK i \in 1..Len(rest) : u = rest[i]
      BY <2>2, RangeSeq
    <3>2. i + 1 \in 1..Len(q) /\ i + 1 # 1 /\ u = q[i + 1] /\ 1 \in 1..Len(q)
      BY <2>2, <3>1
    <3> QED BY <2>1, <2>2, <3>2, RangeSeq DEF Injective
  <2> QED BY <2>1, <2>2, <2>3, <2>4, <2>5 DEF h, rest
<1>5. /\ ~NotStarted(h) /\ Owes(h) /\ pc[h] # "signalChild"
      /\ child[h] = NoThread /\ wtChild[h] = NoThread /\ req[h].src = r.dst
      /\ h # t
  BY <1>2, <1>4 DEF Inv, WorkingInv, NotStarted
<1>6. /\ wtChild'[h] = t /\ \A u \in Threads : u # h => wtChild'[u] = wtChild[u]
      /\ pc'[t] = "prepare" /\ path'[t] = "reserved" /\ req'[t] = r
      /\ \A u \in Threads : u # t => /\ pc'[u] = pc[u] /\ path'[u] = path[u]
                                     /\ req'[u] = req[u]
      /\ UNCHANGED <<child, queueLeft, permits, polled, waitingTransfers>>
  BY <1>1, <1>2, <1>4 DEF Inv, TypeOK
<1>7. \A e \in Devices :
        /\ Injective(workingTransfers'[e])
        /\ Range(workingTransfers'[e]) \subseteq
             IF e = r.dst THEN Range(q) \ {h}
             ELSE IF e = r.src THEN Range(workingTransfers[e]) \cup {t}
             ELSE Range(workingTransfers[e])
  <2> SUFFICES ASSUME NEW e \in Devices
               PROVE  /\ Injective(workingTransfers'[e])
                      /\ Range(workingTransfers'[e]) \subseteq
                           IF e = r.dst THEN Range(q) \ {h}
                           ELSE IF e = r.src THEN Range(workingTransfers[e]) \cup {t}
                           ELSE Range(workingTransfers[e])
    OBVIOUS
  <2>1. /\ workingTransfers[e] \in Seq(Threads) /\ Injective(workingTransfers[e])
        /\ t \notin Range(workingTransfers[e])
    BY <1>2 DEF Inv, TypeOK, WorkingInv, Injective, NotStarted
  <2>2. CASE e = r.dst
    <3>1. workingTransfers'[e] = Tail(q)
      BY <1>1, <1>2, <2>2 DEF Inv, TypeOK
    <3> QED BY <1>4, <2>2, <3>1
  <2>3. CASE e = r.src
    <3>1. workingTransfers'[e] = Append(workingTransfers[e], t)
      BY <1>1, <1>2, <2>3 DEF Inv, TypeOK
    <3> QED BY <1>2, <2>1, <2>3, <3>1, AppendFresh
  <2>4. CASE e # r.dst /\ e # r.src
    <3>1. workingTransfers'[e] = workingTransfers[e]
      BY <1>1, <1>2, <2>4 DEF Inv, TypeOK
    <3> QED BY <2>1, <2>4, <3>1
  <2> QED BY <2>2, <2>3, <2>4
<1>8. ExclusiveComponent'
  BY <1>1, AdmitExclusive
<1>9. StepInv'
  BY <1>2, <1>3, <1>5, <1>6 DEF Inv, StepInv, Running, NotStarted
<1>10. /\ Heirs(h)' = {t}
       /\ \A p \in Threads : p # h => Heirs(p)' = Heirs(p)
       /\ \A p \in Threads : p # t => (Owes(p)' <=> Owes(p))
       /\ \A p \in Threads : t \in Heirs(p) => ~Owes(p)
       /\ Heirs(t)' = {}
  <2>1. Heirs(h)' = {t}
    BY <1>3, <1>4, <1>5, <1>6 DEF Heirs
  <2>2. \A p \in Threads : p # h => Heirs(p)' = Heirs(p)
    BY <1>6 DEF Heirs
  <2>3. \A p \in Threads : p # t => (Owes(p)' <=> Owes(p))
    BY <1>6 DEF Owes
  <2>4. \A p \in Threads : t \in Heirs(p) => ~Owes(p)
    BY <1>3 DEF Inv, HeirInv
  <2>5. Heirs(t)' = {}
    BY <1>3, <1>5, <1>6 DEF Heirs
  <2> QED BY <2>1, <2>2, <2>3, <2>4, <2>5
<1>11. HeirInv'
  <2> SUFFICES ASSUME NEW p \in Threads, NEW u \in Heirs(p)', Owes(p)'
               PROVE  /\ path'[u] \in {"reserved", "cycle", "chained"}
                      /\ BeforeAwait(u)' /\ permits'[u] = 0
    BY DEF HeirInv
  <2>1. CASE u = t
    BY <1>3, <1>6, <2>1 DEF BeforeAwait
  <2>2. CASE u # t
    <3>1. /\ u \in Heirs(p) /\ Owes(p) /\ u \in Threads
      BY <1>10, <2>2, HeirsAreThreads DEF Inv
    <3>2. /\ path[u] \in {"reserved", "cycle", "chained"}
          /\ BeforeAwait(u) /\ permits[u] = 0
      BY <3>1 DEF Inv, HeirInv
    <3> QED BY <1>6, <2>2, <3>1, <3>2 DEF BeforeAwait
  <2> QED BY <2>1, <2>2
<1>12. OneParent'
  BY <1>5, <1>10 DEF Inv, OneParent
<1>13. WaitingInv'
  <2>1. \A d \in Devices : \A u \in Range(waitingTransfers[d]) :
          u \in Threads /\ u # t
    BY <1>2, RangeSeq DEF Inv, TypeOK, WaitingInv
  <2> QED BY <1>6, <2>1 DEF Inv, WaitingInv
<1>14. PolledInv'
  BY <1>2, <1>6 DEF Inv, PolledInv, InQueue
<1>15. WorkingInv'
  <2> SUFFICES ASSUME NEW e \in Devices, NEW u \in Range(workingTransfers'[e])
               PROVE  /\ ~NotStarted(u)' /\ Owes(u)' /\ pc'[u] # "signalChild"
                      /\ child'[u] = NoThread /\ wtChild'[u] = NoThread
                      /\ req'[u].src = e
    BY <1>7 DEF WorkingInv, Injective
  <2>1. CASE u = t /\ e = r.src
    BY <1>3, <1>5, <1>6, <2>1 DEF NotStarted, Owes
  <2>2. CASE u \in Range(workingTransfers[e])
    <3>1. /\ u \in Threads /\ ~NotStarted(u) /\ Owes(u) /\ pc[u] # "signalChild"
          /\ child[u] = NoThread /\ wtChild[u] = NoThread /\ req[u].src = e
      BY <2>2, RangeSeq DEF Inv, TypeOK, WorkingInv
    <3>2. u # t
      BY <1>2, <3>1 DEF NotStarted
    <3>3. u # h
      <4>1. CASE e = r.dst
        BY <1>2, <1>7, <4>1
      <4>2. CASE e # r.dst
        BY <1>5, <3>1, <4>2
      <4> QED BY <4>1, <4>2
    <3> QED BY <1>6, <3>1, <3>2, <3>3 DEF NotStarted, Owes
  <2>3. u \in Range(workingTransfers[e]) \/ (u = t /\ e = r.src)
    BY <1>2, <1>7
  <2> QED BY <2>1, <2>2, <2>3
<1> QED BY <1>0, <1>8, <1>9, <1>11, <1>12, <1>13, <1>14, <1>15 DEF Inv

LEMMA ExecuteEnqueueKeeps ==
  ASSUME Inv, NEW t \in Threads, ExecuteEnqueue(t)
  PROVE  Inv'
<1>0. TypeOK'
  BY TypeStep DEF Inv, Next, Execute
<1>1. PICK r \in Requests :
        /\ Admit(t, r) /\ MustWait(r)
        /\ waitingTransfers' = [waitingTransfers EXCEPT ![r.dst] = Append(@, t)]
        /\ path' = [path EXCEPT ![t] = "waiting"]
        /\ pc' = [pc EXCEPT ![t] = "queued"]
        /\ UNCHANGED <<child, wtChild, queueLeft, freeSlots, workingTransfers>>
  BY DEF ExecuteEnqueue
<1>2. /\ r.dst \in Devices /\ r.comp \in Components
      /\ r.src # r.dst /\ pc[t] = "idle" /\ req' = [req EXCEPT ![t] = r]
      /\ UNCHANGED <<polled, permits>>
  BY <1>1, Admitted DEF Inv, MustWait, Places
<1>3. /\ path[t] = "none" /\ permits[t] = 0 /\ queueLeft[t] = 0
      /\ child[t] = NoThread /\ wtChild[t] = NoThread
  BY <1>2 DEF Inv, StepInv, Running, NotStarted
<1>4. /\ pc'[t] = "queued" /\ path'[t] = "waiting" /\ req'[t] = r
      /\ \A u \in Threads : u # t => /\ pc'[u] = pc[u] /\ path'[u] = path[u]
                                     /\ req'[u] = req[u]
      /\ UNCHANGED <<child, wtChild, queueLeft, permits, polled, workingTransfers>>
  BY <1>1, <1>2 DEF Inv, TypeOK
<1>5. \A d \in Devices :
        /\ Injective(waitingTransfers'[d])
        /\ Range(waitingTransfers'[d]) \subseteq
             IF d = r.dst THEN Range(waitingTransfers[d]) \cup {t}
             ELSE Range(waitingTransfers[d])
  <2> SUFFICES ASSUME NEW d \in Devices
               PROVE  /\ Injective(waitingTransfers'[d])
                      /\ Range(waitingTransfers'[d]) \subseteq
                           IF d = r.dst THEN Range(waitingTransfers[d]) \cup {t}
                           ELSE Range(waitingTransfers[d])
    OBVIOUS
  <2>1. /\ waitingTransfers[d] \in Seq(Threads) /\ Injective(waitingTransfers[d])
        /\ t \notin Range(waitingTransfers[d])
    BY <1>2 DEF Inv, TypeOK, WaitingInv, Injective
  <2>2. CASE d = r.dst
    <3>1. waitingTransfers'[d] = Append(waitingTransfers[d], t)
      BY <1>1, <1>2, <2>2 DEF Inv, TypeOK
    <3> QED BY <2>1, <2>2, <3>1, AppendFresh
  <2>3. CASE d # r.dst
    <3>1. waitingTransfers'[d] = waitingTransfers[d]
      BY <1>1, <1>2, <2>3 DEF Inv, TypeOK
    <3> QED BY <2>1, <2>3, <3>1
  <2> QED BY <2>2, <2>3
<1>6. ExclusiveComponent'
  BY <1>1, AdmitExclusive
<1>7. StepInv'
  BY <1>2, <1>3, <1>4 DEF Inv, StepInv, Running, NotStarted
<1>8. /\ \A p \in Threads : Heirs(p)' = Heirs(p)
      /\ \A p \in Threads : p # t => (Owes(p)' <=> Owes(p))
      /\ Heirs(t) = {}
      /\ \A p \in Threads : t \in Heirs(p) => ~Owes(p)
  <2>1. \A p \in Threads : t \in Heirs(p) => ~Owes(p)
    BY <1>3 DEF Inv, HeirInv
  <2> QED BY <1>3, <1>4, <2>1 DEF Heirs, Owes
<1>9. HeirInv'
  <2> SUFFICES ASSUME NEW p \in Threads, NEW u \in Heirs(p)', Owes(p)'
               PROVE  /\ path'[u] \in {"reserved", "cycle", "chained"}
                      /\ BeforeAwait(u)' /\ permits'[u] = 0
    BY DEF HeirInv
  <2>1. /\ u \in Heirs(p) /\ Owes(p) /\ u \in Threads /\ u # t
    BY <1>8, HeirsAreThreads DEF Inv
  <2>2. /\ path[u] \in {"reserved", "cycle", "chained"}
        /\ BeforeAwait(u) /\ permits[u] = 0
    BY <2>1 DEF Inv, HeirInv
  <2> QED BY <1>4, <2>1, <2>2 DEF BeforeAwait
<1>10. OneParent'
  BY <1>8 DEF Inv, OneParent
<1>11. WaitingInv'
  <2> SUFFICES ASSUME NEW d \in Devices, NEW u \in Range(waitingTransfers'[d])
               PROVE  /\ pc'[u] = "queued" /\ path'[u] = "waiting" /\ req'[u].dst = d
                      /\ permits'[u] = 0 /\ queueLeft'[u] = 0
    BY <1>5 DEF WaitingInv, Injective
  <2>1. CASE u = t /\ d = r.dst
    BY <1>3, <1>4, <2>1
  <2>2. CASE u \in Range(waitingTransfers[d])
    <3>1. /\ u \in Threads /\ pc[u] = "queued" /\ path[u] = "waiting"
          /\ req[u].dst = d /\ permits[u] = 0 /\ queueLeft[u] = 0
      BY <2>2, RangeSeq DEF Inv, TypeOK, WaitingInv
    <3>2. u # t
      BY <1>2, <3>1
    <3> QED BY <1>4, <3>1, <3>2
  <2> QED BY <1>5, <2>1, <2>2
<1>12. PolledInv'
  <2> SUFFICES ASSUME NEW p \in Threads, NEW q \in Threads, pc'[p] = "signalQueue"
               PROVE  /\ polled'[p] \in Threads
                      /\ pc'[polled'[p]] = "queued" /\ path'[polled'[p]] = "waiting"
                      /\ queueLeft'[polled'[p]] = 0 /\ ~InQueue(polled[p])'
                      /\ pc'[q] = "signalQueue" /\ polled'[q] = polled'[p] => q = p
    BY DEF PolledInv
  <2>1. pc[p] = "signalQueue" /\ (pc'[q] = "signalQueue" => pc[q] = "signalQueue")
    BY <1>4
  <2>2. /\ polled[p] \in Threads
        /\ pc[polled[p]] = "queued" /\ path[polled[p]] = "waiting"
        /\ queueLeft[polled[p]] = 0 /\ ~InQueue(polled[p])
        /\ pc[q] = "signalQueue" /\ polled[q] = polled[p] => q = p
    BY <2>1 DEF Inv, PolledInv
  <2>3. polled[p] # t
    BY <1>2, <2>2
  <2>4. ~InQueue(polled[p])'
    BY <1>4, <1>5, <2>2, <2>3 DEF InQueue
  <2> QED BY <1>4, <2>1, <2>2, <2>3, <2>4
<1>13. WorkingInv'
  <2>1. \A d \in Devices : \A u \in Range(workingTransfers[d]) : u \in Threads /\ u # t
    BY <1>2, RangeSeq DEF Inv, TypeOK, WorkingInv, NotStarted
  <2> QED BY <1>4, <2>1 DEF Inv, WorkingInv, NotStarted, Owes
<1> QED BY <1>0, <1>6, <1>7, <1>9, <1>10, <1>11, <1>12, <1>13 DEF Inv

LEMMA FreeSlotKeeps ==
  ASSUME Inv, NEW t \in Threads, FreeSlot(t)
  PROVE  Inv'
<1>0. TypeOK'
  BY TypeStep DEF Inv, Next, Continue
<1>1. PICK d \in Places : d = req[t].src
  BY DEF Inv, TypeOK
<1>2. /\ pc[t] = "vacate" /\ child[t] = NoThread
      /\ UNCHANGED <<req, path, child, wtChild, queueLeft, permits>>
      /\ UNCHANGED <<isBusy, componentPlacement>>
  BY Zenon DEF FreeSlot, sems
<1>3. PICK v \in {"await", "perform", "signalChild", "signalQueue"} :
        /\ pc' = [pc EXCEPT ![t] = v]
        /\ v \in {"await", "perform"} => v = AfterVacate(t)
        /\ v = "signalChild" => wtChild[t] # NoThread
        /\ d # NoDevice /\ wtChild[t] # NoThread => v = "signalChild"
        /\ v = "signalQueue" => /\ d # NoDevice /\ waitingTransfers[d] # <<>>
                                /\ polled' = [polled EXCEPT
                                     ![t] = Head(waitingTransfers[d])]
                                /\ waitingTransfers' = [waitingTransfers EXCEPT
                                     ![d] = Tail(@)]
        /\ v # "signalQueue" => UNCHANGED <<polled, waitingTransfers>>
        /\ workingTransfers' =
             IF d = NoDevice THEN workingTransfers
             ELSE [workingTransfers EXCEPT ![d] = Without(@, {t})]
  <2>1. AfterVacate(t) \in {"await", "perform"}
    BY DEF AfterVacate
  <2> QED BY <1>1, <2>1 DEF FreeSlot
<1>4. /\ pc'[t] = v
      /\ \A u \in Threads : u # t => pc'[u] = pc[u]
  BY <1>3 DEF Inv, TypeOK
<1>5. v = "await" <=> v \in {"await", "perform"} /\ path[t] \in {"chained", "cycle"}
  BY <1>3 DEF AfterVacate
<1>6. path[t] # "none" /\ path[t] # "waiting"
  BY <1>2 DEF Inv, StepInv, Running
<1>7. \A e \in Devices :
        /\ Injective(workingTransfers'[e])
        /\ Range(workingTransfers'[e]) \subseteq Range(workingTransfers[e]) \ {t}
  <2> SUFFICES ASSUME NEW e \in Devices
               PROVE  /\ Injective(workingTransfers'[e])
                      /\ Range(workingTransfers'[e])
                           \subseteq Range(workingTransfers[e]) \ {t}
    OBVIOUS
  <2>1. /\ workingTransfers[e] \in Seq(Threads) /\ Injective(workingTransfers[e])
        /\ e # d => t \notin Range(workingTransfers[e])
    BY <1>1 DEF Inv, TypeOK, WorkingInv, Injective
  <2>2. CASE e = d
    <3>1. workingTransfers'[e] = Without(workingTransfers[e], {t})
      BY <1>3, <2>2, StorageAssumption DEF Inv, TypeOK
    <3>2. AtMostOne(workingTransfers[e], {t})
      BY <2>1 DEF AtMostOne, Injective
    <3> DEFINE w == Without(workingTransfers[e], {t})
    <3>3. /\ Range(w) \subseteq Range(workingTransfers[e])
          /\ Injective(w) /\ Range(w) \cap {t} = {}
      BY <2>1, <3>2, WithoutProperties
    <3> HIDE DEF w
    <3>4. workingTransfers'[e] = w
      BY <3>1 DEF w
    <3> QED BY <3>3, <3>4
  <2>3. CASE e # d
    <3>1. workingTransfers'[e] = workingTransfers[e]
      BY <1>3, <2>3 DEF Inv, TypeOK
    <3> QED BY <2>1, <2>3, <3>1
  <2> QED BY <2>2, <2>3
<1>8. /\ \A e \in Devices :
           /\ Injective(waitingTransfers'[e])
           /\ Range(waitingTransfers'[e]) \subseteq Range(waitingTransfers[e])
      /\ v = "signalQueue" =>
           \E u \in Threads :
             /\ polled'[t] = u
             /\ d \in Devices /\ u \in Range(waitingTransfers[d])
             /\ \A e \in Devices : u \notin Range(waitingTransfers'[e])
      /\ \A p \in Threads : p # t => polled'[p] = polled[p]
  <2>1. CASE v # "signalQueue"
    BY <1>3, <2>1 DEF Inv, WaitingInv, Injective
  <2>2. CASE v = "signalQueue"
    <3> DEFINE q == waitingTransfers[d]
    <3>1. /\ d \in Devices /\ q \in Seq(Threads) /\ q # <<>> /\ Injective(q)
      BY <1>3, <2>2 DEF Inv, TypeOK, Places, WaitingInv, Injective
    <3>2. PICK u \in Threads, rest \in Seq(Threads) :
            /\ u = Head(q) /\ rest = Tail(q)
            /\ u \in Range(q) /\ Injective(rest)
            /\ Range(rest) \subseteq Range(q) \ {u}
      <4> DEFINE h == Head(q)
                 r == Tail(q)
      <4> HIDE DEF q
      <4>1. /\ Len(q) \in Nat \ {0} /\ h = q[1] /\ h \in Threads
            /\ r \in Seq(Threads) /\ Len(r) = Len(q) - 1
            /\ \A i \in 1..Len(r) : r[i] = q[i + 1]
        BY <3>1, HeadTailProperties, EmptySeq
      <4> HIDE DEF h, r
      <4>2. h \in Range(q)
        BY <3>1, <4>1, RangeSeq
      <4>3. Injective(r)
        BY <3>1, <4>1 DEF Injective
      <4>4. Range(r) \subseteq Range(q) \ {h}
        <5> SUFFICES ASSUME NEW x \in Range(r) PROVE x \in Range(q) \ {h}
          OBVIOUS
        <5>1. PICK i \in 1..Len(r) : x = r[i]
          BY <4>1, RangeSeq
        <5>2. i + 1 \in 1..Len(q) /\ i + 1 # 1 /\ x = q[i + 1] /\ 1 \in 1..Len(q)
          BY <4>1, <5>1
        <5> QED BY <3>1, <4>1, <5>2, RangeSeq DEF Injective
      <4> QED BY <4>1, <4>2, <4>3, <4>4 DEF h, r
    <3>3. /\ polled' = [polled EXCEPT ![t] = u]
          /\ waitingTransfers' = [waitingTransfers EXCEPT ![d] = rest]
      BY <1>3, <2>2, <3>2
    <3>4. /\ waitingTransfers'[d] = rest
          /\ \A e \in Devices : e # d => waitingTransfers'[e] = waitingTransfers[e]
          /\ polled'[t] = u
          /\ \A p \in Threads : p # t => polled'[p] = polled[p]
      BY <3>1, <3>3 DEF Inv, TypeOK
    <3>5. \A e \in Devices : e # d => u \notin Range(waitingTransfers[e])
      <4>1. req[u].dst = d
        BY <3>1, <3>2 DEF Inv, WaitingInv
      <4> QED BY <4>1 DEF Inv, WaitingInv
    <3>6. \A e \in Devices : Injective(waitingTransfers[e])
      BY DEF Inv, WaitingInv, Injective
    <3> QED BY <3>1, <3>2, <3>4, <3>5, <3>6
  <2> QED BY <2>1, <2>2
<1>9. ExclusiveComponent'
  <2>1. \A u \in Threads : Running(u)' <=> Running(u)
    BY <1>2, <1>3, <1>4 DEF Running
  <2> QED BY <1>2, <2>1 DEF Inv, ExclusiveComponent
<1>10. StepInv'
  <2> SUFFICES ASSUME NEW u \in Threads
               PROVE  /\ pc'[u] \in {"queued", "woken"} => path'[u] \in {"waiting", "chained"}
                      /\ path'[u] = "waiting" => pc'[u] \in {"queued", "woken"}
                      /\ path'[u] = "none" <=> ~Running(u)'
                      /\ pc'[u] = "await" => path'[u] \in {"reserved", "cycle", "chained"}
                      /\ NotStarted(u)' => wtChild'[u] = NoThread
                      /\ pc'[u] = "signalChild" => wtChild'[u] # NoThread
                      /\ Running(u)' <=> req'[u].comp \in Components
                      /\ ~Running(u)' => /\ permits'[u] = 0 /\ queueLeft'[u] = 0
                                         /\ child'[u] = NoThread
                      /\ Running(u)' => req'[u].src # req'[u].dst
    BY DEF StepInv
  <2>1. CASE u = t
    <3>1. Running(t) /\ Running(t)' /\ ~NotStarted(t)'
      BY <1>2, <1>3, <1>4 DEF Running, NotStarted
    <3> QED BY <1>2, <1>3, <1>4, <1>5, <1>6, <2>1, <3>1 DEF Inv, StepInv
  <2>2. CASE u # t
    BY <1>2, <1>4, <2>2 DEF Inv, StepInv, Running, NotStarted
  <2> QED BY <2>1, <2>2
<1>11. /\ \A p \in Threads : Heirs(p)' = Heirs(p)
       /\ \A p \in Threads : Owes(p)' => Owes(p)
  BY <1>2, <1>4 DEF Heirs, Owes
<1>12. HeirInv'
  <2> SUFFICES ASSUME NEW p \in Threads, NEW u \in Heirs(p)', Owes(p)'
               PROVE  /\ path'[u] \in {"reserved", "cycle", "chained"}
                      /\ BeforeAwait(u)' /\ permits'[u] = 0
    BY DEF HeirInv
  <2>1. /\ u \in Threads /\ path[u] \in {"reserved", "cycle", "chained"}
        /\ BeforeAwait(u) /\ permits[u] = 0
    BY <1>11, HeirsAreThreads DEF Inv, HeirInv
  <2>2. CASE u = t
    BY <1>2, <1>3, <1>4, <1>5, <2>1, <2>2 DEF BeforeAwait
  <2>3. CASE u # t
    BY <1>2, <1>4, <2>1, <2>3 DEF BeforeAwait
  <2> QED BY <1>2, <2>1, <2>2, <2>3
<1>13. OneParent'
  BY <1>11 DEF Inv, OneParent
<1>14. WaitingInv'
  <2> SUFFICES ASSUME NEW e \in Devices, NEW u \in Range(waitingTransfers'[e])
               PROVE  /\ pc'[u] = "queued" /\ path'[u] = "waiting" /\ req'[u].dst = e
                      /\ permits'[u] = 0 /\ queueLeft'[u] = 0
    BY <1>8 DEF WaitingInv, Injective
  <2>1. /\ u \in Threads /\ pc[u] = "queued" /\ path[u] = "waiting"
        /\ req[u].dst = e /\ permits[u] = 0 /\ queueLeft[u] = 0
    BY <1>8, RangeSeq DEF Inv, TypeOK, WaitingInv
  <2> QED BY <1>2, <1>4, <2>1
<1>15. PolledInv'
  <2>1. \A p, q \in Threads :
          pc[p] = "signalQueue" =>
            /\ polled[p] \in Threads
            /\ pc[polled[p]] = "queued" /\ path[polled[p]] = "waiting"
            /\ queueLeft[polled[p]] = 0 /\ ~InQueue(polled[p])
            /\ pc[q] = "signalQueue" /\ polled[q] = polled[p] => q = p
    BY DEF Inv, PolledInv
  <2>2. \A p \in Threads : p # t /\ pc'[p] = "signalQueue" =>
          /\ pc[p] = "signalQueue" /\ polled'[p] = polled[p] /\ polled[p] # t
          /\ \A e \in Devices : polled[p] \notin Range(waitingTransfers[e])
    BY <1>2, <1>4, <1>8, <2>1 DEF InQueue
  <2>3. v = "signalQueue" =>
          /\ polled'[t] \in Threads /\ polled'[t] # t
          /\ pc[polled'[t]] = "queued" /\ path[polled'[t]] = "waiting"
          /\ queueLeft[polled'[t]] = 0
          /\ \A e \in Devices : polled'[t] \notin Range(waitingTransfers'[e])
          /\ \E e \in Devices : polled'[t] \in Range(waitingTransfers[e])
    BY <1>2, <1>8 DEF Inv, WaitingInv
  <2> SUFFICES ASSUME NEW p \in Threads, NEW q \in Threads, pc'[p] = "signalQueue"
               PROVE  /\ polled'[p] \in Threads
                      /\ pc'[polled'[p]] = "queued" /\ path'[polled'[p]] = "waiting"
                      /\ queueLeft'[polled'[p]] = 0
                      /\ \A e \in Devices : polled'[p] \notin Range(waitingTransfers'[e])
                      /\ pc'[q] = "signalQueue" /\ polled'[q] = polled'[p] => q = p
    BY DEF PolledInv, InQueue
  <2>4. CASE p = t
    BY <1>2, <1>4, <2>2, <2>3, <2>4
  <2>5. CASE p # t
    BY <1>2, <1>4, <1>8, <2>1, <2>2, <2>3, <2>5
  <2> QED BY <2>4, <2>5
<1>16. WorkingInv'
  <2> SUFFICES ASSUME NEW e \in Devices, NEW u \in Range(workingTransfers'[e])
               PROVE  /\ ~NotStarted(u)' /\ Owes(u)' /\ pc'[u] # "signalChild"
                      /\ child'[u] = NoThread /\ wtChild'[u] = NoThread
                      /\ req'[u].src = e
    BY <1>7 DEF WorkingInv, Injective
  <2>1. /\ u \in Threads /\ u # t /\ ~NotStarted(u) /\ Owes(u)
        /\ pc[u] # "signalChild" /\ child[u] = NoThread
        /\ wtChild[u] = NoThread /\ req[u].src = e
    BY <1>7, RangeSeq DEF Inv, TypeOK, WorkingInv
  <2> QED BY <1>2, <1>4, <2>1 DEF NotStarted, Owes
<1> QED BY <1>0, <1>9, <1>10, <1>12, <1>13, <1>14, <1>15, <1>16 DEF Inv

-----------------------------------------------------------------------------
(* The invariant and what follows from it *)

LEMMA InvInit == Init => Inv
<1> SUFFICES ASSUME Init PROVE Inv
  OBVIOUS
<1>1. TypeOK
  BY TypeInit
<1>2. \A d \in Devices : /\ Range(waitingTransfers[d]) = {} /\ Len(waitingTransfers[d]) = 0
                         /\ Range(workingTransfers[d]) = {} /\ Len(workingTransfers[d]) = 0
  BY DEF Init, Range
<1>0. \A i : ~(i \in 1..0)
  OBVIOUS
<1>3. \A t \in Threads : ~Running(t) /\ Heirs(t) = {} /\ ~Owes(t) /\ NotStarted(t)
                         /\ req[t] = NoReq
  BY DEF Init, Running, Heirs, Owes, NotStarted
<1>4. ExclusiveComponent
  BY <1>3 DEF Init, ExclusiveComponent
<1>5. StepInv
  BY <1>3, StorageAssumption DEF Init, StepInv, NoReq
<1>6. HeirInv /\ OneParent
  BY <1>3 DEF HeirInv, OneParent
<1>7. WaitingInv /\ WorkingInv
  BY <1>0, <1>2 DEF WaitingInv, WorkingInv
<1>8. PolledInv
  BY DEF Init, PolledInv
<1> QED BY <1>1, <1>4, <1>5, <1>6, <1>7, <1>8 DEF Inv

LEMMA InvStep == Inv /\ [Next]_vars => Inv'
<1> SUFFICES ASSUME Inv, [Next]_vars PROVE Inv'
  OBVIOUS
<1>1. CASE UNCHANGED vars
  BY <1>1 DEF Inv, TypeOK, ExclusiveComponent, StepInv, HeirInv, OneParent, WaitingInv,
              PolledInv, WorkingInv, Running, NotStarted, Owes, BeforeAwait, Heirs,
              InQueue, vars, shared, handles, sems
<1>2. CASE Next
  BY <1>2, ThrowKeeps, CatchKeeps, ExecuteNoDependKeeps, ExecuteReserveKeeps,
     ExecuteCycleKeeps, ExecuteEnqueueKeeps, LeaveQueueKeeps, WokenAloneKeeps,
     WokenByParentKeeps, PrepareKeeps, ReleaseChildKeeps, FreeSlotKeeps,
     SignalChildKeeps, SignalQueueKeeps, AwaitKeeps, PerformKeeps,
     TransferCompletedKeeps
     DEF Next, Execute, Continue
<1> QED BY <1>1, <1>2

\* The inductive invariant of execute(): who stands in which queue, who has
\* claimed whose slot, and which semaphore release is still owed to whom.
THEOREM Invariance == Spec => []Inv
<1> QED BY InvInit, InvStep, PTL DEF Spec

\* However many callers there are, no component is moved by two of them at once,
\* and isBusy is set for exactly the components being moved (execute(), lines
\* 80-85, transferCompleted()).
THEOREM Exclusive == Spec => []ExclusiveComponent
<1>1. Inv => ExclusiveComponent
  BY DEF Inv
<1> QED BY <1>1, Invariance, PTL

\* However many callers, devices and slots there are, a transfer that takes over
\* the slot of another one starts perform() only after the other has ended
\* prepare() (noDepend, hasDepend, onFrozenWake, freeSlot).
THEOREM SafeHandOver == Spec => []HandOver
<1>1. Inv => HandOver
  <2> SUFFICES ASSUME Inv, NEW t \in Threads, NEW u \in Heirs(t), Performing(u)
               PROVE  Prepared(t)
    BY DEF HandOver
  <2>1. CASE Owes(t)
    <3>1. BeforeAwait(u)
      BY <2>1 DEF Inv, HeirInv
    <3> QED BY <3>1 DEF BeforeAwait, Performing
  <2>2. CASE ~Owes(t)
    <3>1. pc[t] \notin {"idle", "threw"}
      BY DEF Inv, StepInv, Heirs, Running, NotStarted
    <3> QED BY <2>2, <3>1 DEF Inv, TypeOK, Owes, Prepared, Performing
  <2> QED BY <2>1, <2>2
<1> QED BY <1>1, Invariance, PTL
=============================================================================
