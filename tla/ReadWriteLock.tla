---------------------------- MODULE ReadWriteLock ----------------------------
(***************************************************************************)
(* PW/mikro/c/8/rw.c: the readers-writers lock and the threads of the       *)
(* library that use it.  Each operation of the lock runs under its mutex    *)
(* up to its end or to pthread_cond_wait, so that is one step.              *)
(***************************************************************************)
EXTENDS Integers, FiniteSets, FiniteSetTheorems, TLAPS

CONSTANTS N_READERS, N_WRITERS

VARIABLES pc, shared     \* shared: the ReadWriteLock and library.working

vars == <<pc, shared>>

Readers == 0..N_READERS - 1
Writers == N_READERS..N_READERS + N_WRITERS - 1
Main == N_READERS + N_WRITERS
Waiting(S) == {t \in S : pc[t] = "waiting"}

Init ==
  /\ pc = [t \in Readers \cup Writers \cup {Main} |-> "loop"]
  /\ shared = [n_reading |-> 0, n_writing |-> 0, n_readers_waiting |-> 0,
               n_writers_waiting |-> 0, change |-> FALSE, working |-> TRUE]

\* A thread looks at library->working; main clears it and joins the others.
Loop(t) ==
  /\ pc[t] = "loop"
  /\ IF t = Main
     THEN pc' = [pc EXCEPT ![t] = "join"] /\ shared' = [shared EXCEPT !.working = FALSE]
     ELSE /\ pc' = [pc EXCEPT ![t] = IF shared.working THEN "before" ELSE "done"]
          /\ UNCHANGED shared

Join ==
  /\ pc[Main] = "join" /\ \A t \in Readers \cup Writers : pc[t] = "done"
  /\ pc' = [pc EXCEPT ![Main] = "done"] /\ UNCHANGED shared

\* pthread_cond_signal, when a thread waits for it; broadcast wakes all.
Signal(from, S) ==
  IF Waiting(S) = {} THEN pc' = from
  ELSE \E t \in Waiting(S) : pc' = [from EXCEPT ![t] = "woken"]
Broadcast(from, S) == [t \in DOMAIN from |-> IF t \in Waiting(S) THEN "woken" ELSE from[t]]

\* A condition variable may let a thread go without a signal.
Spurious(t) == pc[t] = "waiting" /\ pc' = [pc EXCEPT ![t] = "woken"] /\ UNCHANGED shared

before_write(t) ==
  LET lock == IF pc[t] = "woken" THEN [shared EXCEPT !.n_writers_waiting = @ - 1] ELSE shared
  IN /\ t \in Writers /\ pc[t] \in {"before", "woken"}
     /\ IF lock.n_reading > 0 \/ lock.n_writing > 0
        THEN /\ shared' = [lock EXCEPT !.n_writers_waiting = @ + 1]
             /\ pc' = [pc EXCEPT ![t] = "waiting"]
        ELSE shared' = [lock EXCEPT !.n_writing = 1] /\ pc' = [pc EXCEPT ![t] = "inside"]

after_write(t) ==
  LET out == [pc EXCEPT ![t] = "loop"] IN
  /\ t \in Writers /\ pc[t] = "inside"
  /\ shared' = [shared EXCEPT !.n_writing = 0, !.change = @ \/ shared.n_readers_waiting > 0]
  /\ IF shared.n_readers_waiting > 0 THEN pc' = Broadcast(out, Readers)
     ELSE IF shared.n_writers_waiting > 0 THEN Signal(out, Writers)
     ELSE pc' = out

before_read(t) ==
  LET lock == IF pc[t] = "woken" THEN [shared EXCEPT !.n_readers_waiting = @ - 1] ELSE shared
  IN /\ t \in Readers /\ pc[t] \in {"before", "woken"}
     /\ IF lock.n_writing > 0 \/ (lock.n_writers_waiting > 0 /\ ~lock.change)
        THEN /\ shared' = [lock EXCEPT !.n_readers_waiting = @ + 1]
             /\ pc' = [pc EXCEPT ![t] = "waiting"]
        ELSE shared' = [lock EXCEPT !.n_reading = @ + 1] /\ pc' = [pc EXCEPT ![t] = "inside"]

\* Fault: a reader that leaves wakes nobody.
after_readSilent(t) ==
  /\ t \in Readers /\ pc[t] = "inside"
  /\ shared' = [shared EXCEPT !.n_reading = @ - 1, !.change = FALSE]
  /\ pc' = [pc EXCEPT ![t] = "loop"]

after_read(t) ==
  LET out == [pc EXCEPT ![t] = "loop"] IN
  /\ t \in Readers /\ pc[t] = "inside"
  /\ shared' = [shared EXCEPT !.n_reading = @ - 1, !.change = FALSE]
  /\ IF shared.n_reading = 1 /\ shared.n_writers_waiting > 0 THEN Signal(out, Writers)
     ELSE pc' = out

Step(t) == \/ Loop(t) \/ (t = Main /\ Join)
           \/ before_read(t) \/ after_read(t) \/ before_write(t) \/ after_write(t)

Next == \E t \in DOMAIN pc : Step(t) \/ Spurious(t)

Done == \A t \in DOMAIN pc : pc[t] = "done"
-----------------------------------------------------------------------------
\* Nobody is in the library with a writer, and the lock knows who is there.
Exclusion ==
  /\ \A w \in Writers : pc[w] = "inside" => \A t \in DOMAIN pc \ {w} : pc[t] # "inside"
  /\ shared.n_reading > 0 <=> \E t \in Readers : pc[t] = "inside"
-----------------------------------------------------------------------------
(* Exclusion for any number of readers and writers, with spurious wake-ups *)

Threads == Readers \cup Writers \cup {Main}
Reading == {t \in Readers : pc[t] = "inside"}
Writing == {t \in Writers : pc[t] = "inside"}

Typed ==
  /\ pc \in [Threads -> {"loop", "before", "waiting", "woken", "inside", "join", "done"}]
  /\ shared \in [n_reading : Nat, n_writing : {0, 1}, n_readers_waiting : Int,
                 n_writers_waiting : Int, change : BOOLEAN, working : BOOLEAN]
  /\ pc[Main] \in {"loop", "join", "done"}

\* The lock's numbers are those of the threads inside, and not both are positive.
Counted ==
  /\ shared.n_reading = Cardinality(Reading)
  /\ shared.n_writing = 1 <=> Writing # {}
  /\ \A v, w \in Writing : v = w
  /\ Writing # {} => Reading = {}

IInv == Typed /\ Counted

Numbers == N_READERS \in Nat /\ N_WRITERS \in Nat

LEMMA ReadersFinite == ASSUME Numbers PROVE IsFiniteSet(Reading)
<1>1. Readers = 0..(N_READERS - 1) /\ IsFiniteSet(Readers)
  BY FS_Interval DEF Readers, Numbers
<1>2. Reading \subseteq Readers
  BY DEF Reading
<1> QED BY <1>1, <1>2, FS_Subset

LEMMA Apart ==
  ASSUME Numbers
  PROVE  /\ Readers \cap Writers = {}
         /\ Main \notin Readers /\ Main \notin Writers
BY DEF Numbers, Readers, Writers, Main

LEMMA InitHolds == Numbers /\ Init => IInv
<1> SUFFICES ASSUME Numbers, Init PROVE IInv
  OBVIOUS
<1>1. Typed
  BY DEF Init, Typed, Threads
<1>2. Reading = {} /\ Writing = {}
  BY DEF Init, Reading, Writing
<1>3. Cardinality(Reading) = 0
  BY <1>2, FS_EmptySet
<1> QED BY <1>1, <1>2, <1>3 DEF IInv, Counted, Init

\* A step after which the same threads are inside keeps the lock's numbers right.
LEMMA SameInside ==
  ASSUME IInv, Typed', Reading' = Reading, Writing' = Writing,
         shared'.n_reading = shared.n_reading, shared'.n_writing = shared.n_writing
  PROVE  IInv'
BY DEF IInv, Counted

\* What Signal and Broadcast leave alone.
Woken(from) ==
  /\ \A t \in Threads : pc'[t] = from[t] \/ (from[t] = "waiting" /\ pc'[t] = "woken")
  /\ pc' \in [Threads -> {"loop", "before", "waiting", "woken", "inside", "join", "done"}]

LEMMA SignalWakes ==
  ASSUME Numbers, IInv, NEW S \in {Readers, Writers}, NEW u \in Readers \cup Writers,
         pc[u] = "inside",
         NEW out, out = [pc EXCEPT ![u] = "loop"],
         \/ pc' = out \/ Signal(out, S) \/ pc' = Broadcast(out, S)
  PROVE  Woken(out)
<1>1. out \in [Threads -> {"loop", "before", "waiting", "woken", "inside", "join", "done"}]
  BY DEF IInv, Typed
<1>2. \A t \in Waiting(S) : t \in Threads /\ out[t] = "waiting"
  BY DEF Waiting, Threads, IInv, Typed
<1>3. CASE pc' = out
  BY <1>1, <1>3 DEF Woken
<1>4. CASE \E t \in Waiting(S) : pc' = [out EXCEPT ![t] = "woken"]
  BY <1>1, <1>2, <1>4 DEF Woken
<1>5. CASE pc' = Broadcast(out, S)
  <2>1. DOMAIN out = Threads
    BY <1>1
  <2> QED BY <1>1, <1>2, <1>5, <2>1 DEF Woken, Broadcast
<1> QED BY <1>3, <1>4, <1>5 DEF Signal

LEMMA LoopHolds ==
  ASSUME Numbers, IInv, NEW t \in Threads, Loop(t) \/ Spurious(t) \/ (t = Main /\ Join)
  PROVE  IInv'
<1>1. /\ \E place \in {"loop", "before", "woken", "join", "done"} :
           pc' = [pc EXCEPT ![t] = place]
      /\ pc[t] # "inside"
      /\ t = Main => pc'[t] \in {"loop", "join", "done"}
  BY Apart DEF Loop, Spurious, Join, IInv, Typed, Threads
<1>2. Typed'
  <2>1. shared' \in {shared, [shared EXCEPT !.working = FALSE]}
    BY DEF Loop, Spurious, Join
  <2>2. pc'[Main] \in {"loop", "join", "done"}
    BY <1>1 DEF IInv, Typed
  <2>3. pc' \in [Threads -> {"loop", "before", "waiting", "woken", "inside", "join", "done"}]
    BY <1>1 DEF IInv, Typed
  <2>4. shared' \in [n_reading : Nat, n_writing : {0, 1}, n_readers_waiting : Int,
                     n_writers_waiting : Int, change : BOOLEAN, working : BOOLEAN]
    BY <2>1 DEF IInv, Typed
  <2> QED BY <2>2, <2>3, <2>4 DEF Typed
<1>3. Reading' = Reading /\ Writing' = Writing
  BY <1>1 DEF Reading, Writing, IInv, Typed, Threads
<1>4. shared'.n_reading = shared.n_reading /\ shared'.n_writing = shared.n_writing
  BY DEF Loop, Spurious, Join, IInv, Typed
<1> QED BY <1>2, <1>3, <1>4, SameInside

LEMMA BeforeWriteHolds ==
  ASSUME Numbers, IInv, NEW t \in Threads, before_write(t)
  PROVE  IInv'
<1>1. /\ t \in Writers /\ t \notin Readers /\ t # Main /\ pc[t] # "inside"
      /\ \E place \in {"waiting", "inside"} : pc' = [pc EXCEPT ![t] = place]
  BY Apart DEF before_write
<1>2. Typed'
  BY <1>1 DEF before_write, IInv, Typed, Threads
<1>3. CASE pc' = [pc EXCEPT ![t] = "waiting"]
  <2>1. Reading' = Reading /\ Writing' = Writing
    BY <1>1, <1>3 DEF Reading, Writing, IInv, Typed, Threads
  <2>2. pc'[t] = "waiting"
    BY <1>3 DEF IInv, Typed
  <2>3. pc' # [pc EXCEPT ![t] = "inside"]
    BY <2>2 DEF IInv, Typed
  <2>4. shared'.n_reading = shared.n_reading /\ shared'.n_writing = shared.n_writing
    BY <2>3 DEF before_write, IInv, Typed
  <2> QED BY <1>2, <2>1, <2>4, SameInside
<1>4. CASE pc' = [pc EXCEPT ![t] = "inside"]
  <2>1. pc'[t] = "inside"
    BY <1>4 DEF IInv, Typed
  <2>2. pc' # [pc EXCEPT ![t] = "waiting"]
    BY <2>1 DEF IInv, Typed
  <2>3. /\ shared.n_reading = 0 /\ shared.n_writing = 0
        /\ shared'.n_reading = 0 /\ shared'.n_writing = 1
    BY <2>2 DEF before_write, IInv, Typed
  <2>4. Reading = {} /\ Writing = {}
    <3>1. Cardinality(Reading) = 0 /\ Writing = {}
      BY <2>3 DEF IInv, Counted
    <3> QED BY <3>1, ReadersFinite, FS_EmptySet
  <2>5. Reading' = {} /\ Writing' = {t}
    BY <1>1, <1>4, <2>4 DEF Reading, Writing, IInv, Typed, Threads
  <2>6. Cardinality(Reading') = 0
    BY <2>5, FS_EmptySet
  <2> QED BY <1>2, <2>3, <2>5, <2>6 DEF IInv, Counted
<1> QED BY <1>1, <1>3, <1>4

LEMMA BeforeReadHolds ==
  ASSUME Numbers, IInv, NEW t \in Threads, before_read(t)
  PROVE  IInv'
<1>1. /\ t \in Readers /\ t \notin Writers /\ t # Main /\ pc[t] # "inside"
      /\ \E place \in {"waiting", "inside"} : pc' = [pc EXCEPT ![t] = place]
  BY Apart DEF before_read
<1>2. Typed'
  BY <1>1 DEF before_read, IInv, Typed, Threads
<1>3. CASE pc' = [pc EXCEPT ![t] = "waiting"]
  <2>1. Reading' = Reading /\ Writing' = Writing
    BY <1>1, <1>3 DEF Reading, Writing, IInv, Typed, Threads
  <2>2. pc'[t] = "waiting"
    BY <1>3 DEF IInv, Typed
  <2>3. pc' # [pc EXCEPT ![t] = "inside"]
    BY <2>2 DEF IInv, Typed
  <2>4. shared'.n_reading = shared.n_reading /\ shared'.n_writing = shared.n_writing
    BY <2>3 DEF before_read, IInv, Typed
  <2> QED BY <1>2, <2>1, <2>4, SameInside
<1>4. CASE pc' = [pc EXCEPT ![t] = "inside"]
  <2>1. pc'[t] = "inside"
    BY <1>4 DEF IInv, Typed
  <2>2. pc' # [pc EXCEPT ![t] = "waiting"]
    BY <2>1 DEF IInv, Typed
  <2>3. /\ shared.n_writing = 0 /\ shared'.n_writing = 0
        /\ shared'.n_reading = shared.n_reading + 1
    BY <2>2 DEF before_read, IInv, Typed
  <2>4. Writing = {}
    BY <2>3 DEF IInv, Counted
  <2>5. Reading' = Reading \cup {t} /\ t \notin Reading /\ Writing' = {}
    BY <1>1, <1>4, <2>4 DEF Reading, Writing, IInv, Typed, Threads
  <2>6. Cardinality(Reading') = Cardinality(Reading) + 1
    BY <2>5, ReadersFinite, FS_AddElement
  <2> QED BY <1>2, <2>3, <2>5, <2>6 DEF IInv, Counted
<1> QED BY <1>1, <1>3, <1>4

LEMMA AfterWriteHolds ==
  ASSUME Numbers, IInv, NEW t \in Threads, after_write(t)
  PROVE  IInv'
<1>1. t \in Writers /\ t \notin Readers /\ t # Main /\ pc[t] = "inside"
  BY Apart DEF after_write
<1>2. PICK out : out = [pc EXCEPT ![t] = "loop"]
  OBVIOUS
<1>3. Woken(out)
  <2>1. pc' = out \/ Signal(out, Writers) \/ pc' = Broadcast(out, Readers)
    BY <1>2 DEF after_write
  <2> QED BY <1>1, <1>2, <2>1, SignalWakes
<1>4. shared' = [shared EXCEPT !.n_writing = 0,
                               !.change = @ \/ shared.n_readers_waiting > 0]
  BY DEF after_write
<1>5. Typed'
  BY <1>1, <1>2, <1>3, <1>4 DEF Woken, IInv, Typed, Threads
<1>6. Writing = {t} /\ Reading = {}
  BY <1>1 DEF IInv, Counted, Writing
<1>7. Reading' = {} /\ Writing' = {}
  BY <1>1, <1>2, <1>3, <1>6 DEF Woken, Reading, Writing, IInv, Typed, Threads
<1>8. Cardinality(Reading) = 0 /\ Cardinality(Reading') = 0
  BY <1>6, <1>7, FS_EmptySet
<1>9. shared'.n_reading = shared.n_reading /\ shared'.n_writing = 0
  BY <1>4 DEF IInv, Typed
<1> QED BY <1>5, <1>7, <1>8, <1>9 DEF IInv, Counted

LEMMA AfterReadHolds ==
  ASSUME Numbers, IInv, NEW t \in Threads, after_read(t)
  PROVE  IInv'
<1>1. t \in Readers /\ t \notin Writers /\ t # Main /\ pc[t] = "inside"
  BY Apart DEF after_read
<1>2. PICK out : out = [pc EXCEPT ![t] = "loop"]
  OBVIOUS
<1>3. Woken(out)
  <2>1. pc' = out \/ Signal(out, Writers)
    BY <1>2 DEF after_read
  <2> QED BY <1>1, <1>2, <2>1, SignalWakes
<1>4. shared' = [shared EXCEPT !.n_reading = @ - 1, !.change = FALSE]
  BY DEF after_read
<1>6. t \in Reading /\ Writing = {}
  BY <1>1 DEF IInv, Counted, Reading
<1>7. Reading' = Reading \ {t} /\ Writing' = {}
  BY <1>1, <1>2, <1>3, <1>6 DEF Woken, Reading, Writing, IInv, Typed, Threads
<1>8. /\ Cardinality(Reading') = Cardinality(Reading) - 1
      /\ Cardinality(Reading') \in Nat
  <2>1. IsFiniteSet(Reading) /\ IsFiniteSet(Reading')
    BY <1>7, ReadersFinite, FS_Subset
  <2> QED BY <1>6, <1>7, <2>1, FS_RemoveElement, FS_CardinalityType
<1>9. /\ shared'.n_reading = shared.n_reading - 1 /\ shared'.n_writing = shared.n_writing
      /\ shared'.n_reading \in Nat
  BY <1>4, <1>8 DEF IInv, Typed, Counted
<1>5. Typed'
  BY <1>1, <1>2, <1>3, <1>4, <1>9 DEF Woken, IInv, Typed, Threads
<1> QED BY <1>5, <1>6, <1>7, <1>8, <1>9 DEF IInv, Counted

LEMMA StepHolds == Numbers /\ IInv /\ [Next]_vars => IInv'
<1> SUFFICES ASSUME Numbers, IInv, [Next]_vars PROVE IInv'
  OBVIOUS
<1>1. CASE UNCHANGED vars
  BY <1>1 DEF vars, IInv, Typed, Counted, Reading, Writing
<1>2. CASE Next
  <2>1. PICK t \in Threads : Step(t) \/ Spurious(t)
    BY <1>2 DEF Next, IInv, Typed
  <2> QED BY <2>1, LoopHolds, BeforeWriteHolds, BeforeReadHolds, AfterWriteHolds,
             AfterReadHolds DEF Step
<1> QED BY <1>1, <1>2

LEMMA CountedExcludes == Numbers /\ IInv => Exclusion
<1> SUFFICES ASSUME Numbers, IInv PROVE Exclusion
  OBVIOUS
<1>1. ASSUME NEW w \in Writers, pc[w] = "inside", NEW t \in DOMAIN pc \ {w}
      PROVE  pc[t] # "inside"
  <2>1. t \in Threads /\ Reading = {} /\ w \in Writing
    BY <1>1 DEF IInv, Typed, Counted, Writing
  <2>2. t \in Writers => t \notin Writing
    BY <1>1, <2>1 DEF IInv, Counted
  <2> QED BY <2>1, <2>2 DEF Threads, Reading, Writing, IInv, Typed
<1>2. shared.n_reading > 0 <=> Reading # {}
  <2>1. Cardinality(Reading) = 0 <=> Reading = {}
    BY ReadersFinite, FS_EmptySet
  <2> QED BY <2>1 DEF IInv, Typed, Counted
<1> QED BY <1>1, <1>2 DEF Exclusion, Reading

\* A writer is alone in the library, whatever the threads do between the calls and
\* however often pthread_cond_wait returns without a signal; n_reading is positive
\* exactly while a reader is inside (before_read to after_write of rw.c).
THEOREM Excludes ==
  ASSUME Numbers
  PROVE  Init /\ [][Next]_vars => []Exclusion
<1>1. Init => IInv
  BY InitHolds
<1>2. IInv /\ [Next]_vars => IInv'
  BY StepHolds
<1>3. IInv => Exclusion
  BY CountedExcludes
<1> QED BY <1>1, <1>2, <1>3, PTL
=============================================================================
