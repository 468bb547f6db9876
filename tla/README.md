# Verification of mimuw-laby-23

TLA+ modules, TLC configurations and TLAPS proofs for the programs of this
repository. The repository collects coursework: three projects on concurrent
programming (`PW/projekt1`, `PW/projekt2`, `PW/projekt3`), two network projects
(`SIK/projekt1`, `SIK/projekt2`), sets of small exercises in synchronisation
(`PW/mikro`) and in sockets (`SIK/miniprojekty`), programs for a course on
algorithms (`ASD`), and a few scripts and services (`PYT`, `WWW/egzamin`).

Run a configuration with `tlc -workers 2 -config MCStorage.cfg MCStorage` and
the proofs with `tlapm M.tla` for the modules M named in section 4, both in this
directory.

## 1. Inventory

| Component | State it keeps | Operations | Interaction | Correct when |
|---|---|---|---|---|
| **Storage system** `PW/projekt1`, `StorageSystemImpl` | free slots, placement and busy flag per component, a queue of waiting and one of unclaimed "working" transfers per device, semaphores | `execute()` with its branches `noDepend`, `hasDepend`, `onFrozenWake`, `freeSlot`, `transferCompleted`, searches `wakeChain`, `wakeCycle` | one `mutex`; every hand-over of a slot is a semaphore created for the pair | no slot lost or given twice, `perform()` into a slot only after its `prepare()`, nobody waits who could move, no deadlock of the semaphores |
| **SimpleQueue**, **RingsQueue** `PW/projekt3` | linked list (of ring buffers), two mutexes | new, delete, push, pop, is_empty | producers and consumers meet at one node under different mutexes | linearizable, no use after free, no leak |
| **LLQueue**, **BLQueue** `PW/projekt3` | lock-free linked list (of buffers), head and tail | the same | compare-and-swap and fetch-and-add, helping | linearizable, lock-free, no use after free |
| **HazardPointer** `PW/projekt3` | reservations and retired addresses per thread | initialize, finalize, register, protect, clear, retire | scans read the reservations of all threads | a reserved node is not freed, a retired one is in the end (neither holds, section 6); what is retired has left the list |
| **MIMPI point to point** `PW/projekt2`, `mimpi.c` | per pair of processes two pipes, a list of received messages, the `buffer_update` record; the set of finished processes | `MIMPI_Init`, `Send`, `Recv`, `Finalize`, a buffer thread per peer, the deadlock watchdog | pipes, condition variables, an EOF when a process leaves | every message once, whole, in order; every call returns |
| **MIMPI detector** `mimpirun.c` | what each process waits for | one loop over packets | pipes from and to all processes | reports deadlocked pairs, and only those |
| **MIMPI collectives** `mimpi.c` | none of their own | `Barrier`, `Bcast`, `Reduce` along a binary tree | point-to-point messages with negative tags | nobody leaves a barrier before all have entered; results are those of all processes |
| **PPCB** `SIK/projekt1` | client: packet number, retransmissions left; server: session, packet number | CONN, CONNACC, CONNRJT, DATA, ACC, RJT, RCVD over TCP, UDP, UDP with retransmission (UDPR) | datagrams that are lost, doubled, reordered | what the server prints is what the client sent |
| **Kierki server** `SIK/projekt2` | seats, hands, the trick, scores; semaphores and a barrier of bytes in pipes | a thread per player: accept, deal, trick, score; disconnection and return | barrier, semaphore per seat, counters all threads write | all players see the same tricks, and play in turn (which they do not, section 6); a returned player goes on where the old one stopped |
| **Kierki client** `SIK/projekt2` | the hand, the trick it answers for | reads lines of the server and of the keyboard, chooses a card | one connection, answers and repeated questions cross | a card counts for the trick it was chosen for; both ends know the same hand |
| **Exercises** `PW/mikro` | readers-writers lock, storage of gifts, Dekker's algorithm, blocking queue, pipeline of processes, row sums of a matrix, vectors, primes | lock and unlock, put and take, fork | semaphores, condition variables, atomics, shared memory, pipes | exclusion, nothing lost, everybody ends |
| **Poll servers** `SIK/miniprojekty/4` | descriptors given to `poll`, the number of clients | accept, read, echo, count, end after SIGINT | clients that come, go, and are reset | the count is right, bytes come back in order |
| **File upload** `SIK/miniprojekty/3` | a file per connection, the total | header, name, contents | a thread per connection, reads in pieces | files whole, the total exact |
| **Relay** `SIK/miniprojekty/5` | two circular buffers that grow | a poll loop | a TCP connection and a multicast group | every byte once, in order |
| **Change notifier** `WWW/egzamin` (zad2) | a value, the sockets that listen; the page's copy | change, tell, join, leave, load | coroutines that interleave where they await | the copy is the value |
| **Algorithms and scripts** `ASD`, `PYT`, `WWW/egzamin` (zad1) | - | one answer for one input | - | the answer is the one asked for |
| The rest of `SIK`, `WWW`, `PYT`; `BD`, `WUM` | - | - | - | not modelled, section 7 |

What is hard here, and what the properties are for: slots that change hands
while their old and new owner run at different speeds; a wake-up issued after
the mutex is gone; two mutexes (or none) around one list; a node freed and its
address returned by `malloc` while somebody still compares it; a wait whose end
may be a message, the end of a process or a deadlock report, all at once; a
detector that works on records which lag behind the messages; retransmissions that
cross their answers; threads kept in step by anonymous bytes; a client that goes
away and comes back; what `poll` reported used after the descriptor has changed; a
list that changes while a coroutine walks over it. `PROJECT.json` lists the places
that matter most with their lines.

## 2. Modules

| Module | Models | Needs |
|---|---|---|
| `StorageSpec` | what `execute()` promises, with no queue and no semaphore | |
| `StorageSystem` | `StorageSystemImpl.java`, `FrozenTransfer.java`, `WorkingTransfer.java` | refines `StorageSpec` |
| `StorageSystemProofs`, `StorageSlotsProofs` | theorems about `StorageSystem`: hand-over; slots, needless waits, refinement | TLAPS |
| `WakeSearch` | `wakeChain` and `wakeCycle` as the recursive procedures they are | `StorageSystem` |
| `FifoQueue` | the promise of the four queues: indivisible push, pop, is_empty | |
| `SimpleQueue`, `RingsQueue`, `LLQueue` | the C files of the same names | refine `FifoQueue` |
| `SimpleQueueProofs` | theorems about `SimpleQueue`, its refinement among them | TLAPS |
| `RingsQueueProofs` | theorems about `RingsQueue`, its refinement among them | TLAPS |
| `HazardPointer` | `HazardPointer.c`, as actions the two lock-free queues are composed with | |
| `BLQueue` | `BLQueue.c` | `HazardPointer` |
| `MessagePassing` | what `MIMPI_Send`, `MIMPI_Recv` and leaving the MPI block promise | |
| `Mimpirun` | `deadlock_thread` of `mimpirun.c` | |
| `Mimpi` | `mimpi.c` point to point, composed with `Mimpirun` | refines `MessagePassing` |
| `MimpiProofs` | theorems about `Mimpi` | TLAPS |
| `Collectives` | `Barrier`, `Bcast`, `Reduce` of `mimpi.c` as sets of messages to receive and to send | |
| `Ppcb` | clients and server of PPCB over the three protocols, and the network between them | |
| `PpcbProofs` | theorems about `Ppcb` | TLAPS |
| `Frames` | the packets of PPCB as bytes: laid out, turned into network order, found again in a stream, typed in `ppcat.cpp` | |
| `Kierki` | the server's threads, `sync.cpp`, `gamefile.cpp`, the hand a client keeps and `autoplayer.cpp` | |
| `KierkiProofs` | theorems about `Kierki` | TLAPS |
| `KierkiDialog` | one thread and one client, automatic or a person's, with the lines between them | |
| `Texts` | the lines of the game as they are written and read, character by character | |
| `ReadWriteLock` | the lock of `PW/mikro`, and a theorem about it | TLAPS |
| `Gifts`, `Dekker`, `BlockingQueue`, `Pipeline`, `RowSums` | the programs of `PW/mikro` with threads or processes that share something | |
| `PollServers`, `Uploads`, `Relay` | `SIK/miniprojekty/4`, `3` and `5` | |
| `Notifier` | `zad2-server.py` and `ts/zad2.ts` | |
| `Contest` | the programs of `ASD`, `PYT`, `WWW/egzamin` and `PW/mikro/java` that compute one answer, an operator for each | |
| `AlgorithmCases` | their inputs, and what the answers are by definition | `Contest`, `Texts`, `Frames` |
| `MCPrograms` | the smaller programs side by side (below) | all of the last seven rows, `Collectives`, `WakeSearch`, `LLQueue` |
| other `MC*` | small instances for TLC | |

Operators named `...Not`, `...Twice`, `...Lost` and so on, each behind a comment
"Fault:", are variants of an action with a plausible bug. No specification uses
them; `PROJECT.json` pairs each with a property that TLC finds violated when the
variant takes the action's place.

### How state and actions correspond to the code

**Storage.** A caller of `execute()` is a thread; it moves one component. All
maps and queues are read and written only between `mutexAcquire` and
`mutexRelease`, so a critical section is one action (`ExecuteNoDepend`,
`ExecuteReserve`, `ExecuteCycle`, `ExecuteEnqueue`, `WokenAlone`,
`WokenByParent`, `FreeSlot`, `TransferCompleted`); each semaphore operation
outside it is one (`LeaveQueue`, `ReleaseChild`, `SignalChild`, `SignalQueue`,
`Await`), and so is the end of `prepare()` and of `perform()`. A `Semaphore`
object created for a hand-over is named by the only thread that acquires it. The
two searches are written as relations on lists of waiting transfers, which proofs
can use; `WakeSearch` holds the recursive procedures and compares both.

**Queues.** One action per shared read or write, joined only with accesses to what
a held mutex protects. `local[t]` is a record: where thread t stands (`pc`), the
local variables of the function it runs, under their names in the code, and `ret`,
its argument or its result; a thread between two calls is `Idle`. `mem[n]` holds
the fields of node n. Steps of one shape share an operator: `Load` reads into a
local variable, `Lock` and `Unlock` take and leave one of the two mutexes,
`TakeIndex` and `StoreIndex` (BLQueue) are the two atomic operations on an index.
`malloc` returns any address that is not allocated, so addresses come back (the ABA
situation; for the lock-free queues see the restrictions in section 3). The history variable `chain` is the list as it was linked; `seen`
collects for each running operation whether the queue was empty at some moment of
it: `FifoQueue` uses it to let an is_empty, or a pop that found nothing, take effect
in the past. `stored` and `popped` (BLQueue) record values.

**MIMPI.** Per process: the program (`pc`), one buffer thread per peer
(`thread`), the watchdog. A pipe is a bounded sequence of blocks, a message a
header and `count` more blocks, so a send blocks in its middle and a receiver may
leave between two blocks. The critical sections of `mutex.buffers` are one action
each; `global.states` has a mutex of its own, so `ReadEnd` (which sets it) and
`wake_recv_uncond` are two. A condition variable is a flag `signal`; `RecvWake`
may also fire without it (spurious wake-up), but no fairness is assumed then.
Closing a descriptor leaves a read that has begun alive, as in Linux.

**Collectives.** A call is a sequence of stages, each a set of messages that are
received or sent one by one (`Bcast`, `Reduce`, `Barrier` build them from the tree
of ranks); results are bytes modulo 2^8. A process may finish before a call, and
whoever waits for it gets an error and finishes too, as the examples do.

**PPCB.** A step of a process is what lies between two waits for a packet. A
packet's data is its number, a session is named by its client. `net` is the bag of
datagrams under way, as a sequence: `Lose`, `Duplicate` and a wait that ends before
its packet comes are the faults; over TCP nothing of it happens. Packet numbers are
compared in the order of the network's bytes, as in the code, with a byte of two
values.

**Kierki.** `th[p]` is the thread of seat p with its local variables; a step runs
from one wait to the next, or to the next read of a variable that others write
(`current_player`, `first_seat`). `bytes[p]` and `sem[p]` count the bytes for p in
the pipes of barrier and semaphore. A thread that has put down its card names the next
player in `current_player` first (`PlayCard`) and writes the byte that wakes it in
another step (`WakeNext`): the player may come in between, find that its turn has come,
and leave that byte in the pipe. `smooth` is a history variable, see below.
`KierkiDialog` takes one thread and one client out of it: the other players are a
suit led, chosen anew at each turn; messages of one connection stay in order;
`Timeout` repeats the question (5 s), a person may type a card before the question, and
what comes while the thread waits for the others is answered WRONG (`Wait`).

**Small programs.** They share the variables `pc` and `shared`: the place of each
thread or process, and a record of the globals under their names in the code. What
runs under one mutex, in one `synchronized` method or in one turn of an event loop
is one step; each atomic operation outside is one. In `PollServers` the `poll`, the
accepts and the service of one descriptor are steps, and clients act in between. In
`Uploads` a read gives any part of what has come, and fails after a reset. In `Notifier` every `await` ends
a step.

**Algorithms.** An operator for each program, named after its file, from input to
answer, with the program's own data structures (heaps as sets, trees and tables as
functions). `AnswerIsWanted` compares it with a definition that does not follow the
program's way, and `KnownWrong` names the inputs on which the two differ. `Texts` is written in characters because the code's hazard is there:
nothing separates the number of a trick from the cards behind it.

## 3. Runs

Every passing run is exhaustive within its bounds.

| Run | Instance | Shows |
|---|---|---|
| `storage_safety` | 3 callers, 3 components, 3 devices of one slot | slots, hand-over order, exclusive components, no needless wait, the inductive invariant `Inv`, and refinement of `StorageSpec` |
| `storage_live` | 3 callers that each move their own component, 3 devices of one slot | with a mutex that is not fair, a transfer that has got its slot completes once no new calls come |
| `simple_queue` | 3 threads, 4 addresses, 2 values | linearizability, memory, mutexes |
| `rings_queue` | 2 threads, 3 addresses, buffers of 4 | push and pop across node boundaries: linearizability, memory |
| `lock_free` | `LLQueue`: 2 threads, 4 addresses, threshold 1, restricted scans and addresses (below); `BLQueue`: 2 threads, 4 values, buffers of 4, 3 addresses | `LLQueue` is linearizable with helping, what it retires has left its list; in `BLQueue` a slot belongs to one pusher, nothing is popped twice |
| `mimpi` | 2 processes with 2 and 1 calls, pipes of one block | refinement of `MessagePassing`, no lost wake-up, every call returns |
| `ppcb` | 2 clients, 4 pairs of plans, 3 faults | order and completeness of what is written, recovery from one fault, every transfer ends |
| `kierki` | 4 players, 2 games of 2 tricks, 2 departures | while in step, tricks, totals and hands agree; the games end |
| `programs` | 14 programs, one behaviour for each, and the tables of inputs | what each program promises, and that it ends |
| `ll_use_after_free` (violation) | 2 threads, threshold 2 | `LLQueue` reads a freed node |
| `mimpi_deadlock` (violation) | as `mimpi` | a deadlock is reported that is none |
| `kierki_turns` (violation) | as `kierki`, nobody leaves | a player is asked for its card before its turn |

`programs` starts in the initial state of any of the smaller programs, and
`running` says which one moves; the variables of the others stand still. Its
properties are `ProgramsSafe` (the safety property of the running program, defined
in its module), `CollectivesCorrect`, `AlgorithmsAgree` (each answer, for each
input), `SearchesAgree` (the relations of `StorageSystem` wake what the recursive
`wakeChain` and `wakeCycle` of `WakeSearch` wake), `LoneFinishes` (a thread of
`LLQueue` finishes each operation while the other may be suspended anywhere) and
`ProgramsEnd` (every program comes to its end).

### Bounds, and why they are enough

- *Storage*: the branches of `execute()` involve at most a parent, a transfer and
  a child. Three callers give every pair of neighbouring roles a third, a cycle of
  three, a reservation of a reserved slot and a reservation behind a woken chain;
  one-slot devices make every transfer contend. In `storage_live` one component comes and
  goes and the other two move about among the three devices. Devices of two
  slots are in the searches (up to four transfers that wait, over three devices),
  and in the proofs, which hold for all capacities.
- *Queues*: three threads let two producers (or two consumers) and one of the other
  kind meet. Addresses are one or two more than fit in the list, so pushes stop
  when they run out (the callers of the code are limited by memory) and freed
  addresses are reused while others hold them. `RING_SIZE` and `BUFFER_SIZE` are 4
  because the code allows no less; the lists then span two nodes.
- *MIMPI*: `PipeSize` = 1 makes a send of two blocks wait for the reader.
  `MaxCalls` is two for rank 0 and one for rank 1: enough for two messages of one
  tag, a message followed by a wait, and every order of leaving. Tag -1 stands for
  the tags of the collectives, 0 is `MIMPI_ANY_TAG`. The collectives run in groups
  of two and of four, where ranks 0 and 1 have children; `MaxQuits` is 1.
- *PPCB*: three tries of a packet (`MAX_RETRANSMITS` is 10 in `protconst.h`) and
  three faults, so that all tries may be used up; packets 0 to 2 with bytes of two
  values, so that one number needs two bytes; a second client meets the server in
  every state.
- *Kierki*: two tricks per game, so that the first seat changes and a trick is both
  first and last; two games, so that the loops start again; two departures. The
  dialogue has two repeated questions and one card typed unasked.
- *Small programs*: two threads of each kind (three columns of the matrix, four
  programs in the pipe); each loops twice, where the code loops more. Poll servers have the
  code's `CONNECTIONS` = 3 and as many clients as fill the slots and one more
  (echo: two). Uploads are two of two bytes, with one name or two. The relay's buffer starts with
  two places and has to grow while it is wrapped. `Notifier` has two pages, two
  changes, one lost connection.
- *Algorithms*: the inputs are those of `Inputs` in `AlgorithmCases`: all lists,
  trees or requests up to a small size. Numbers stay far from the limits of their
  types, and the constants that only cut the work in pieces are small.
- *Symmetry* is used only in runs without liveness properties: threads,
  components, devices and addresses are interchangeable there. Poll clients and
  pages that are alike come in the order of their numbers instead.

### Restrictions stated in the modules

- `MCLockFree.QuietScans`: in `LLQueue` a scan of retired nodes starts only while every
  other thread is between two operations or stands at line 65 of `LLQueue.c`, where it has
  reserved the tail and not read it yet. Without it a thread reads freed memory
  (`ll_use_after_free`), after which nothing else means anything.
  `MCLockFree.FreshAddresses`: `malloc` returns no address that another thread still has
  in a local variable; without it the tail may go back to a retired node (section 6,
  `LLQueue.c:66`). Under both, nothing is claimed about the memory itself: whether a freed
  node is read, and whether each retired one is freed in the end, depends on the very
  scans that are left out, and for the code the answers are yes and no (section 6). What
  the run shows is that pushers, helpers and poppers agree on one list.
- `BLQueue` has three addresses and fewer pops than a scan needs, so no address comes back.
- `MCKierki.InStepSoFar`: TLC does not go on from a state in which `smooth` has
  become false. That is when a thread comes to its turn, does not sleep, and the byte
  that should wake it is in its semaphore's pipe already or about to be written there,
  and when a player leaves at any moment but while its own card is being asked for. The
  code does not recover from these (section 6); the run says that the tricks, the
  totals and the hands are right before. It says nothing of the order of turns: that they
  are wrong without any departure is what `kierki_turns` shows, which speaks of all
  threads, in step or not. For the same reason neither run checks for deadlock.
- `MCKierki.BackExists` ends `kierki_turns` where a thread asks an empty `taken` for its
  last element, which has no meaning.
- `GameEnds` is about players who leave on their own turn. Other departures make the
  games hang (section 6), and no property covers them.
- `Recovers` speaks of a UDPR client that is alone, has at least one packet and no
  number of two bytes, and counts three faults as harmless: the loss of a DATA packet
  other than the first, of an ACC other than the last, and an answer slower than the
  wait of a retransmission. After any other fault (a packet doubled or out of order,
  another one lost) the code may fail, and does (section 6).
- `ServersKeepCount`, `UploadsWhole` and `NotifiedRight` name their exceptions: clients that
  were reset, uploads of one name, pages that loaded while the value changed or
  were passed over. The count of the counting server is that of its slots, not of the
  clients that are there.
- `ProgramsEnd` has two exceptions (`PollServers.Hangs`), in which the server keeps polling
  for ever: the counting server once a client has a slot, and the echo server whose
  counter has passed below zero (section 6).
- `AlgorithmsAgree` has the exceptions of `AlgorithmCases.KnownWrong`, and says of each that
  the answer is another one: MOD itself, which `modular` leaves as it is; the primes 2, 3
  and 5; an empty list for `sortowanie.py`; data typed into `ppcat`; and pages that `zad1.py`
  has not all got when the clock of its loop passes 5 (section 6). In the inputs that
  clock starts at 0, 3 or 100 and each page takes one unit.
- `DialogAgrees` lets the client end with an error when a line too many was answered
  WRONG after the last TOTAL (section 6).
- `RingsQueue.Linearizable` leaves `is_empty` aside, `BLQueue` has no refinement of
  `FifoQueue`: see section 6.
- `MessagePassing.RecvFails` lets a receive with `MIMPI_ANY_TAG` miss a message
  whose source has left, which the code does after a spurious wake-up.

### Fairness

- Storage (`StorageSystem.Fairness`): outside the mutex, weak fairness for each call
  that has begun: `prepare()` and `perform()` return, and a thread acquires a
  semaphore that was released for it (each of these is acquired by one thread only, so
  it does not matter that they are not fair). The mutex is `new Semaphore(1)`, which is
  not fair either: for it the assumption is only that while threads stand at it somebody
  enters again and again, perhaps always another one or a new caller. Hence
  `ServedCompletes` is claimed from the moment on when no new calls come; as
  long as they do, a thread may be overtaken at the mutex without end. Nothing is
  said of transfers that still wait in a queue: the code lets later ones overtake.
- MIMPI: every thread and the detector are scheduled, and every program leaves its
  MPI block in the end (after its last call it can only call `MIMPI_Finalize`); the
  assignment asks for both.
- PPCB: server and clients are scheduled and their timers run; packets need not
  arrive, faults are bounded.
- Kierki: every thread whose wait is over runs; nothing makes a player leave, but one
  that has left comes back.
- `programs`: weak fairness for each thread, process or coroutine (`Step(p)`), for
  the clients of the poll servers, which leave in the end, for the signal, which
  comes, and for a page whose user loads it again. Spurious wake-ups, stopped
  uploads and lost connections have none. Of `LLQueue` only the operations of
  thread 0 are scheduled: the other thread may stop at any line.

## 4. Proofs

`StorageSystemProofs` proves for any finite number of callers and components,
any devices and any positive capacities (`StorageAssumption`):

- `TypeCorrect`: `Spec => []TypeOK`, in particular no slot counter goes below zero;
- `Invariance`: `Spec => []Inv`, the inductive invariant;
- `Exclusive`: `Spec => []ExclusiveComponent`;
- `SafeHandOver`: `Spec => []HandOver`.

`HandOver` ("a transfer performs into a slot handed to it only after its parent
has prepared") is not inductive: nothing in it says that the permit a heir
acquires was released by that parent. `Inv` adds what the code keeps without
saying so:

- `HeirInv`: while a parent still owes the release, its heir has not passed the
  wait and has no permit;
- `OneParent`: no two transfers owe a release to the same heir, so a permit can
  only come from the right one;
- `WaitingInv`, `PolledInv`: a queue entry is a caller asleep in its queue with no
  permit, in one queue once, and a polled transfer is out of every queue and
  polled by one thread;
- `WorkingInv`: an entry of `workingTransfers` has no heir yet, so a reservation
  never replaces another one;
- `StepInv`: which branch of `execute()` can be at which step.

The proof has one lemma per action. The lemmas about lists at its head (members of a list
after an append, a removal, a tail) carry the queue steps, and `Wake`, which
changes many threads at once, has lemmas of its own used by the three actions
that wake a chain or a cycle.

`SimpleQueueProofs` proves for any threads, values and
addresses (`SimpleQueueAssumption`: `NULL` is no address, an unlocked mutex has no
holder, `EMPTY_VALUE` is never pushed):

- `Mutexes`: `Spec => []MutexesHeld`;
- `ListWhole`: `Spec => []ListIntact`;
- `Memory`: `Spec => []MemorySafe`;
- `Refinement`: `Spec => Linearizable`, that is, `SimpleQueue` implements `FifoQueue`.

The inductive invariant `IInv` adds to these who owns a node: one that a thread is
about to link or to free is allocated, out of the list and in no other thread's
hands (`NodesOwned`), one about to be linked has no successor (`NewNodes`), what a
consumer read under its mutex still holds when it moves the head (`Taking`), and
all nodes of the list are allocated (`ChainAllocated`). It is needed because the
old dummy is freed outside the mutex: that nobody still uses it follows only from
the two mutexes together with the shape of the list. The refinement maps the list
after its dummy to the queue (`Contents`) and the place where a thread stands to
the phase of its operation (`Calls`); it also needs that a node on its way in still
holds the pushed value (`Pushing`) and that a running operation has seen the queue
as it is now (`SeenNow`), so that a pop that loads `NULL` may answer "empty".

`StorageSlotsProofs` goes on from `Invariance` of the storage system, under the same
assumptions:

- `SlotsInvariance`: `Spec => []SlotsInv`;
- `SlotsAddUp`: `Spec => []SlotAccounting`;
- `Capacities`: `Spec => []PhysicalCapacity`;
- `NobodyWaitsInVain`: `Spec => []NoNeedlessWait`;
- `Refinement`: `Spec => KeepsPromise`.

`SlotAccounting` alone is not inductive either: that a permit is worth a slot of the
right device is nowhere in it. `SlotsInv` adds to `Inv` that the component of a
running transfer is still on record where it came from (`PlacedInv`), that a
transfer waiting in a queue has promised its own slot to nobody (`AloneInv`), that
an heir comes to the very device its parent leaves and waits in no queue
(`HeirPlace`), and that nobody waits for a device with a free slot (`QueueFull`,
the first half of `NoNeedlessWait`). The proof looks at one device at a time
(`Balance`): in each step a slot of it is kept, passed from the one who leaves to the
one who comes, freed, or taken. For a woken chain or cycle, in which many
threads change at once, the list itself gives the argument: each member comes to the
device that the one before it leaves. `PhysicalCapacity` follows by an injection of
the components that stand on a device into the slots that are held there.

The second half of `NoNeedlessWait` says that no group of waiting transfers could move
at once, each to the slot of another one (`NoneStuck`). Only `ExecuteEnqueue` adds a
waiting transfer, after `wakeCycle` has found no list of waiting transfers that leads
from its source back to its target (`Cycles`). Suppose its coming closed such a group.
Call a member reached when a list of waiting transfers leads to it from the newcomer's
source. The members not reached would be such a group themselves, without the newcomer,
so there are none: everybody is reached, also the one who leaves the newcomer's target,
and the list that leads to it is one that the search finds.

`Refinement`: each action maps to `Request`, `EndPrepare`, `StartPerform` or `Return` of
`StorageSpec`, or to no step; `StartPerform` needs `PhysicalCapacity` after the step, and
that only the component of the thread that moves changes its place (`PlacesRight`).

`RingsQueueProofs` proves for any threads, values and addresses and any `RING_SIZE`
(`RingsQueueAssumption`; among others, a null buffer is no buffer):

- `Invariance`: `Spec => []IInv`;
- `ListOfBuffers`: `Spec => []ListIntact`;
- `Memory`: `Spec => []MemorySafe`;
- `Refinement`: `Spec => Linearizable`, that is, push and pop implement those of
  `FifoQueue`.

A pusher and a popper use the two indices of one node under different mutexes, so
what one has read may be old when it acts. `IInv` says what cannot be: the tail a
pusher found with room keeps it, one it found full stays full (`Pushing`), a slot a
popper found filled stays filled, and the node it moves past is full and used up
(`Popping`); the node unlinked under the mutex and freed after it is in no list and in
no other thread's hands (`Freeing`, `NodesOwned`); every allocated node is in the list
or about to be freed (`Accounted`).

The refinement maps the list to the queue node by node: `Contents` joins the parts
(`Parts`), of each node behind the first what lies between its two indices. It adds
to `IInv` that the value a pusher is about to publish is in its slot and that a popper
still knows whether its slot is the last (`Slotted`), that no node stays in the list with
all slots taken (`RoomLeft`), and `SeenNow` as above. A push adds to the last part
(`PublishIsPush`), or an empty part behind it (`ExtendIsSilent`); a pop takes the head of
the first part (`ItemIsPop`), or the whole of it, which is then one value
(`LastIsPop`); a pop may find nothing because the first part is empty only if it is the last
(`EmptyWithoutPublished`). What `FlattenSeq` of the community modules makes of an
append or of a first part (`FlattenAppend`, `FlattenCons`) is proved too: its
recursion is taken up to each length (`JoinsUpTo`), by `Induction` over a set of
numbers, which follows from the well-foundedness of their order.

`MimpiProofs` proves for any number of processes, any tags and sizes, any size of the
pipes and with or without the detector (`MimpiAssumption`):

- `Invariance`: `Spec => []IInv`;
- `NoRecvSleepsOver`: `Spec => []NoLostWakeup`;
- `Delivery`: `Spec => DeliversMessages`, that is, `Mimpi` implements `MessagePassing`.

That an entry of the list of messages is a message at all is not obvious: a pipe
carries blocks, and nothing in a block says whether it is a header. `StreamsFit` is
what both ends keep in step: a pipe that somebody reads holds whole messages, but
for the one its reader has begun (`missing` blocks to come) and the one its writer is
inside (`left` blocks to come). `Framed` says this by a count of the blocks due
after each block, so that an append and a tail change it at one end only. A process
that finishes stops reading in the middle, and from then on nothing is said of that
pipe; hence `OpenFits`: only a process that finishes closes one. `WaitFits` is the
part for the sleeping receiver: `update` holds its tag and size, so the buffer thread
recognises the message it appends, and each of the three things that end the wait
(message, end of the source, report) has signalled or is about to.

`Delivery` maps the list, what the buffer thread holds and the headers in the pipe to
one channel (`InTransit`), and the place of a program to what its call is doing
(`Status`). The header a send writes is its `Put`; the exit of the loop of `MIMPI_Recv`
is `Take`, `RecvFails` or `Deadlock`; whatever the threads move from the pipe into the
list, the detector, and the steps of `MIMPI_Finalize` after its first are no step of the
channels. `Headers` picks the headers of a pipe by their rank, and a few lemmas say what
an append and a tail do to it. Beyond `IInv` the argument needs what the end of a
process means (`EndsFit`): who is on record as finished has left, its pipe is empty and
the thread for it reads no more. So a Recv that finds its source finished has looked at
everything that source ever sent, although the record and the list have a mutex each.

`PpcbProofs` proves for any clients, plans, byte size and number of faults, over all
three protocols:

- `InOrder`: `Spec => []WritesInOrder`;
- `NoFalseSuccess`: `Spec => []SuccessIsReal`;
- `CompleteWhenWritten`: the step that makes a session complete leaves all its packets
  in the output, and what is complete stays complete.

The number the server expects counts what it has written (`Counting`), and what is
left and what is written are together the announced length (`ServerFits`). A RCVD
under way names a complete session (`Messages`, the packets there can be at a moment),
whoever it is sent to; a client believes only one that names its own.

`KierkiProofs` proves for any number of games, of tricks and of departures, whatever the
cards and the rules:

- `Invariance`: `Spec => []IInv`;
- `ToldRight`: `Spec => []TakenRight`;
- `AutoPlaysOn`: `Spec => []AutoPlays`;
- `TotalsAddUp`: `Spec => []TotalsRight`.

It assumes that the games file is well formed (`GamesAssumption`): each player has one
card for each trick and no card is in two hands. `README.md` of `SIK/projekt2` lets the
server assume it (line 161; line 5 says what a deal is). As in the properties
themselves, all is said of runs whose threads stay in step (`smooth`, section 3).

The bytes of the barrier have no names, so nothing in a byte says for which
barrier it was sent. `IInv` says that such a run is always in one of four stages, or
over (`Stages`), and what each thread does and how many bytes it has read in each: cards
are put down (`CardRound`), everybody finds the loser (`KnownRound`), the loser takes the
trick and the players are told in turn (`TellRound`), all end the game (`EndRound`). A
fast thread may be one barrier ahead of a slow one, never two, because a slow one that
has not entered keeps the count below four. On this rest three more layers:

- what was told (`DoneTold`, `TakenNow`): all threads have computed the same loser from
  the old `first_seat` before the loser, and only the loser, stores the new one;
- the cards (`CardHands`, `TellHands`, ...): a hand is what was dealt without what lies on
  the table or was taken (`Left`), a client knows it but for the table (`HandKnown`),
  what lies on the table comes from the hand of the seat it stands for (`Dealt`) and is
  not a card taken before (`Fresh`), and each hand shrinks by one a trick;
- the points (`CardPoints`, `TellPoints`, ...): the totals together are what the games
  before and the cards taken in this one are worth (`Worth`); the step of the loser is the
  only one that adds to them (`KnownGives`), and adds what the four cards add to `Worth`
  (`WorthMore`). When all cards are taken, that is `GamePoints`.

Neither the fold in `Best` nor the sums can be expanded by the provers, so their values
are proved: `BestIs` step by step, `SumsAre` by `Induction` over the size of the set, for
a function that adds numbers in any order (`Adds`). The proof also covers the rule
`NO_7_13` (tricks 7 and 13), which the run with its two tricks does not reach.

`ReadWriteLock` proves at its end for any numbers of readers and writers, with spurious
wake-ups, `Excludes`: a writer is alone and `n_reading` is positive exactly while a
reader is inside. The counters are the numbers of threads inside (`Counted`); that a
thread tests its condition again after each wake-up is what makes this inductive.

Only model-checked:

- the invariants of `LLQueue` and `BLQueue`. Those of `LLQueue` hold only under the
  restrictions of its run (section 3), those of `BLQueue` only while no address comes back,
  which the bounds exclude and the code does not;
- the recovery of PPCB from one fault, and the smaller programs;
- every property under fairness, and the recursive searches of `WakeSearch`, which are
  beyond the prover.

## 5. Plan

What could follow, in this order:

1. a variant of `sync.cpp` whose barrier names its round, to see whether it keeps all
   properties of `Kierki` without `smooth`, also when players leave inside it;
2. `BLQueue` and `LLQueue` with addresses that are never used again, for which the list
   could be proved whole, beside the code's own behaviour, and a variant of `LLQueue` that protects what it reads, to see
   whether the memory is then right.

## 6. Differences between code and documentation

Shown by a run:

- `LLQueue.c:89`: pop reads a node it has not protected (`ll_use_after_free`).
- `mimpirun.c:43`: two processes on record as waiting for each other are reported
  although the message one of them waits for has been sent (`mimpi_deadlock`).
- `server.cpp:84` (Kierki): a thread that finds its turn come does not sleep and leaves the
  byte that should wake it in its semaphore's pipe; at a later turn that byte wakes it at
  once, and two players are asked at a time (`kierki_turns`; its `README.md:5` wants the
  others to play in clockwise order). With nothing taken yet such a thread may also look
  into an empty vector (`taken.back()`, line 138).

Seen while modelling, modelled as the code has it, and without a run:

- `RingsQueue.c:130`: is_empty compares `pop_idx` with `RING_SIZE`, a value pop never
  stores, so after the last value is popped it still answers FALSE; and it reads the
  node after the unlock (line 129), when another thread may have freed it.
- `BLQueue.c:106`: pop does not exchange the slot for `TAKEN_VALUE` (`readme.md:152`),
  and push writes without looking (`readme.md:138`): a value written after a pop
  has taken its index is lost. `BLQueue.c:86` forgets a new node when its
  compare-and-swap fails, and `BLQueue.c:131` calls a queue empty by its nodes, not by
  their slots.
- `HazardPointer.c:66`: a scan removes reserved addresses from the array without
  freeing them, so they are never freed (`readme.md:188` removes only what is freed).
  `HazardPointer.c:78` retires the thread's own reservation too, a node that may still be
  in the list; push always leaves its thread with an empty reservation (line 66 of
  `LLQueue.c` with `next` = NULL), which is what makes it harmless
  (`RetiredLeftList`).
- `LLQueue.c:66`: protecting `next` gives up the reservation of `tail`, so `tail` may be
  freed, reused and linked again before line 67 compares it with `queue->tail`: a pusher
  that stopped there with `tail` = n1 and `next` = n2 finds n1 once more and sets
  `queue->tail` to n2, by then retired.
- `mimpi.c:214`: a Recv with `MIMPI_ANY_TAG` that already waits is not woken by its
  message, only by the end of the source or by the detector.
- One process of a deadlocked pair may get `REMOTE_FINISHED`: the other was told
  first, left, and its end arrived before the report (`assignment.md:132` asks for
  the deadlock code in both).

PPCB:

- A packet that comes twice is to be ignored by its README; a second CONNACC, or an
  ACC that comes after its DATA was sent again, makes the client fail.
- The first DATA packet is waited for once, so its loss ends the server's side and the
  packet sent again is rejected (`server.cpp:56`). After the last ACC or RCVD is lost the
  server has everything and the client fails; nobody answers it any more.
- Packet numbers are compared in network byte order (`client.cpp:181`): from packet
  256 on, earlier and later are mixed up. A transfer of no bytes by UDPR fails.
- The answer goes to `prev_addr`, a global (`common.cpp:328`, `common.cpp:373`): to
  whoever the server heard of last. After the first round `data_packet` is not
  assigned (`server.cpp:55`); the model takes it to point into the buffer still.

Kierki:

- A player who leaves while the others are at a barrier makes them wait for ever, or
  lets them pass one round early after the return (`sync.cpp:61`).
- The loser of a trick writes `first_seat` while others may still compute their place
  from it. At the end of a game each thread writes the scores of all and then clears
  its own (`server.cpp:159`): one that comes later announces zeros.
- A player who comes back after playing its card is asked for one again;
  `server.cpp:77` tests a state that never occurs there. A line that is too long ends
  the thread (`server.cpp:43`) without releasing the seat.
- Reading a card looks past the end of a short line (`card.cpp:28`); after a timeout in
  the middle of a line its beginning is lost (`common/utils.cpp:52`); a write that was
  cut short starts again from the beginning (`common/utils.cpp:74`).
- The automatic client ignores WRONG; the dialogue ends because the server repeats the
  question. While a thread waits for the others, a card that comes is answered WRONG and
  thrown away (`sync.cpp:53`); one that is still in the connection when the question is
  asked counts as its answer. After the last TOTAL the thread waits at a barrier once
  more: a second answer to a repeated question that comes there is answered WRONG, and
  the client, whose last line should be TOTAL, ends with code 1 after a complete game
  (`kierki-klient.cpp:258`; its `README.md:151` wants 0).

Smaller programs:

- `poll-server-count.c:132` polls three of its five descriptors, so clients' data are
  never read, the server does not end once a client was accepted, and the count keeps
  those who left. A control command may be read with the tail of an older one.
- `echo-server-nonblocking.c:146`: a client whose read fails is subtracted twice, so the
  counter wraps or the server ends while others are connected.
- `sum-server.c:84` adds -1 for a read that would block.
- `file-server-tcp.c:88` adds the announced length though the stream ended early; two
  uploads of one name mix in one file; `file-client-tcp.c` never ends if its file
  shrinks meanwhile.
- `rozglaszacz.c:184` drops what is buffered when the TCP connection ends; an empty
  datagram leaves `POLLOUT` on and the loop spins.
- `zad2`: a change between a page's load and its socket is lost to it, one in
  progress may be counted twice; removing a listener while all are told makes the next
  one miss the change; a listener that is just closing may end the background task.
- `Primes.java:41` takes 2, 3 and 5 for composite, which its own assertion (line 69)
  denies. `sortowanie.py` writes a broken list for an empty one. `zad1.py` (line 141) calls
  `asyncio.Timeout(5)`, an absolute time on the loop's clock, where line 131 promises 60
  seconds: on a machine that has run for longer than five it gives up at its first page.
- `ppcat.cpp:108` takes the blank in front of the data for their first byte and drops their
  last, against its help (line 75).
- `sor.cpp`'s `sort_bitset` is right only for fragments of at most 31 elements;
  `mon.cpp` keeps its result in an int; `modular(MOD)` of `template.cpp` stays `MOD`.
- `gifts.c`: the last token that says "filled" is what lets all reindeer leave, one
  after another.
- `repl.c:235` tests "init" before "init deadlock" (line 238), which its help offers.

## 7. Not modelled

- Everywhere: timing beyond "a timeout may come", logging, the bytes of messages where
  they are only carried (a message is its tag, size and an identity), arguments and
  the set-up of sockets, pipes and processes (the initial state), errors of the file
  system, `SIGPIPE`, interrupted Java threads.
- MIMPI: crashes of a process outside `MIMPI_Finalize`, which would show an EOF in
  the middle of a message; calls with a bad rank, which return at once; `repl.c` and
  the examples, which call what is modelled.
- HazardPointer: `HazardPointer_clear`, which nothing calls, and several queues in
  one program sharing `_retired`.
- `ppcat.cpp` but for the packets it makes of what is typed; `SIK/miniprojekty/1` and `2`
  (a request, an answer, nothing kept); `SIK/projekt3` (no program).
- `PW/mikro`: `line.c` (a fork per process, nothing shared) and exercises that are
  templates. `ASD`: `dyn.cpp`, and reading and printing.
- The rest of `WWW`, `PYT`, `BD`, `WUM`: pages, notebooks, queries and data.

Hazards left without a property: a transfer that adds a component never reserves a
slot, so later ones may overtake it for ever (`StorageSystemImpl.java:124`; nothing
promises otherwise); a reserved address that a scan drops, and a value pushed to `BLQueue`
after its slot was passed, which is lost; the count of clients that have left
(`poll-server-count.c`) and the one of clients subtracted twice
(`echo-server-nonblocking.c`), where the properties only bound the error (all in section 6).
