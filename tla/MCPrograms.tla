----------------------------- MODULE MCPrograms -----------------------------
(***************************************************************************)
(* The smaller programs of the repository, one behaviour for one program:   *)
(* running says which.  A program that is not running keeps its variables   *)
(* where they are, so the numbers of states add up.                         *)
(***************************************************************************)
EXTENDS Integers, Sequences, FiniteSets, TLC

CONSTANTS Null, None, EMPTY_VALUE, v

VARIABLES
  running,
  pc, shared,                                     \* the exercises
  size, program, call, stages, buffer, failed, results, finished, channel, \* Collectives
  local, head, tail, mem, deleted, chain, seen, pointer, retired, scan, allocated  \* LLQueue

exercise == <<pc, shared>>
collective == <<size, program, call, stages, buffer, failed, results, finished, channel>>
queue == <<local, head, tail, mem, deleted, chain, seen, pointer, retired, scan, allocated>>
vars == <<running, exercise, collective, queue>>

Bytes == 0 :> 200 @@ 1 :> 100 @@ 2 :> 7 @@ 3 :> 3
Call(name, root) == [name |-> name, root |-> root]

Coll == INSTANCE Collectives WITH
  Sizes <- {2, 4}, Data <- Bytes, MaxQuits <- 1,
  Programs <- {<<Call("Barrier", 0), Call("Bcast", 1), Call("SUM", 0)>>,
               <<Call("PROD", 1), Call("MIN", 1)>>, <<Call("Barrier", 0), Call("Barrier", 0)>>}

Rw == INSTANCE ReadWriteLock WITH N_READERS <- 2, N_WRITERS <- 2
Gift == INSTANCE Gifts WITH N_ELFS <- 2, N_REINDEERS <- 2, BUFFSIZE <- 2, LOOPS <- 2
Dekk == INSTANCE Dekker WITH counter <- 2
Queue == INSTANCE BlockingQueue WITH Putters <- 2, Takers <- 2, capacity <- 1, Each <- 2
Pipe == INSTANCE Pipeline WITH Programs <- 4
Sums == INSTANCE RowSums WITH numRows <- 2, numColumns <- 3
Rel == INSTANCE Relay WITH CB_INITIAL_SIZE <- 2, MAX_MESSAGE_SIZE <- 2, Bytes <- 4, Chunk <- 2
Poll == INSTANCE PollServers WITH
  CONNECTIONS <- 3, Clients <- "poll" :> 1..3 @@ "count" :> 1..3 @@ "echo" :> 1..2,
  Bytes <- "poll" :> <<1, 0, 0>> @@ "count" :> <<1, 0, 1>> @@ "echo" :> <<2, 1>>

Card(suit, rank) == [suit |-> suit, rank |-> rank]
Dialog == INSTANCE KierkiDialog WITH
  Deals <- <<{Card("C", 2), Card("D", 3)}, {Card("C", 2), Card("D", 4)}>>,
  NoSuit <- "none", MaxTimeouts <- 2, MaxTyped <- 1

Up == INSTANCE Uploads WITH Lengths <- <<2, 2>>, BUF_SIZE <- 3
Noti == INSTANCE Notifier WITH Pages <- {1, 2}, MaxUpdates <- 2, MaxCloses <- 1

(* The programs that only compute: pc names one, shared is its input. *)
Cases == INSTANCE AlgorithmCases WITH
  MOD <- 10, HASH_MOD <- 40009, HASH_BASE <- 37, BASE_LOG <- 3, CHUNK_LENGTH <- 3, chunk_size <- 2

(* The searches of the storage system: shared is the list of the transfers that *)
(* wait, in the order in which they came, and pc their callers.                 *)
Devices == {"a", "b", "c"}
Moves == {[comp |-> "x", src |-> s, dst |-> d] : s \in Devices \cup {"none"}, d \in Devices}
Waiting(d) == SelectSeq(pc, LAMBDA t : shared[t].dst = d)

\* No transfer waits that closes a cycle, and a device has two slots.  The devices are
\* interchangeable: the first transfer goes to a, and b is named no later than c.
Named(req, d) == {t \in DOMAIN req : d \in {req[t].src, req[t].dst}}
RECURSIVE LeadsTo(_, _)
LeadsTo(req, D) ==
  LET more == D \cup {req[t].src : t \in {t \in DOMAIN req : req[t].dst \in D}}
  IN IF more = D THEN D ELSE LeadsTo(req, more)
Queued == {req \in UNION {[1..n -> Moves] : n \in 0..4} :
             /\ req # <<>> => req[1].dst = "a"
             /\ \A t \in Named(req, "c") : \E u \in Named(req, "b") : u <= t
             /\ \A d \in Devices :
                  /\ d \notin LeadsTo(req, {req[t].src : t \in {t \in DOMAIN req : req[t].dst = d}})
                  /\ Cardinality({t \in DOMAIN req : req[t].src = d}) <= 2}

Search == INSTANCE WakeSearch WITH
  Threads <- 1..4, Components <- {"x"}, Capacity <- [d \in Devices |-> 2],
  UnknownDevice <- "unknown", NoThread <- 0, NoComponent <- "nothing", NoDevice <- "none",
  pc <- <<>>, req <- shared, path <- <<>>, child <- <<>>, wtChild <- <<>>, polled <- <<>>,
  queueLeft <- <<>>, permits <- <<>>, freeSlots <- <<>>, isBusy <- <<>>, componentPlacement <- <<>>,
  workingTransfers <- <<>>, waitingTransfers <- [d \in Devices |-> Waiting(d)]

(* LLQueue where one thread may be suspended anywhere, for ever: the threshold *)
(* lies above what is ever retired.                                            *)
Lone == INSTANCE LLQueue WITH
  num_threads <- 2, RETIRED_THRESHOLD <- 4, Nodes <- 1..3, Values <- {v}

NoExercise == pc = <<>> /\ shared = <<>>
NoCollective ==
  /\ size = 0 /\ program = <<>> /\ call = <<>> /\ stages = <<>> /\ buffer = <<>>
  /\ failed = <<>> /\ results = <<>> /\ finished = {} /\ channel = <<>>
NoQueue ==
  /\ local = <<>> /\ head = 0 /\ tail = 0 /\ mem = <<>> /\ deleted = FALSE /\ chain = <<>>
  /\ seen = <<>> /\ pointer = <<>> /\ retired = <<>> /\ scan = <<>> /\ allocated = {}

Init ==
  \/ running = "Collectives" /\ Coll!Init /\ NoExercise /\ NoQueue
  \/ running = "LLQueue" /\ Lone!Init /\ head = 1 /\ NoExercise /\ NoCollective
  \/ /\ NoCollective /\ NoQueue
     /\ \/ running = "ReadWriteLock" /\ Rw!Init
        \/ running = "Gifts" /\ Gift!Init
        \/ running = "Dekker" /\ Dekk!Init
        \/ running = "BlockingQueue" /\ Queue!Init
        \/ running = "Pipeline" /\ Pipe!Init
        \/ running = "RowSums" /\ Sums!Init
        \/ running = "Relay" /\ Rel!Init
        \/ running = "PollServers" /\ Poll!Init
        \/ running = "KierkiDialog" /\ Dialog!Init
        \/ running = "Uploads" /\ Up!Init
        \/ running = "Notifier" /\ Noti!Init
        \/ running = "Algorithms" /\ \E name \in Cases!Programs : pc = <<name>> /\ shared \in Cases!Inputs(name)
        \/ running = "WakeSearch" /\ shared \in Queued /\ pc = [i \in DOMAIN shared |-> i]

Is(name) == running = name /\ UNCHANGED <<running, collective, queue>>

Done == CASE running = "ReadWriteLock" -> Rw!Done
          [] running = "Gifts" -> Gift!Done
          [] running = "Dekker" -> Dekk!Done
          [] running = "BlockingQueue" -> Queue!Done
          [] running = "Pipeline" -> Pipe!Done
          [] running = "RowSums" -> Sums!Done
          [] running = "Relay" -> Rel!Done
          [] running = "PollServers" -> Poll!Done
          [] running = "KierkiDialog" -> Dialog!Done
          [] running = "Uploads" -> Up!Done
          [] running = "Notifier" -> Noti!Done
          [] running = "Collectives" -> Coll!Done
          [] OTHER -> TRUE

IsQueue == Lone!Fifo!Witness /\ UNCHANGED <<running, exercise, collective>>

Next ==
  \/ running = "Collectives" /\ Coll!Next /\ UNCHANGED <<running, exercise, queue>>
  \/ Is("ReadWriteLock") /\ Rw!Next
  \/ Is("Gifts") /\ Gift!Next
  \/ Is("Dekker") /\ Dekk!Next
  \/ Is("BlockingQueue") /\ Queue!Next
  \/ Is("Pipeline") /\ Pipe!Next
  \/ Is("RowSums") /\ Sums!Next
  \/ Is("Relay") /\ Rel!Next
  \/ Is("PollServers") /\ Poll!Next
  \/ Is("KierkiDialog") /\ Dialog!Next
  \/ Is("Uploads") /\ Up!Next
  \/ Is("Notifier") /\ Noti!Next
  \/ running = "LLQueue" /\ (\E t \in Lone!Threads : Lone!Call(t) \/ Lone!Op(t)) /\ IsQueue
  \/ Done /\ UNCHANGED vars

\* Every thread and process is scheduled, but of the queue only thread 0 is sure to be.
Step(p) ==
  \/ running = "Collectives" /\ p \in Coll!Procs /\ Coll!Step(p) /\ UNCHANGED <<running, exercise, queue>>
  \/ Is("ReadWriteLock") /\ Rw!Step(p)
  \/ Is("Gifts") /\ p \in DOMAIN pc /\ Gift!Step(p)
  \/ Is("Dekker") /\ p \in DOMAIN pc /\ Dekk!Step(p)
  \/ Is("BlockingQueue") /\ p \in DOMAIN pc /\ Queue!Step(p)
  \/ Is("Pipeline") /\ p \in DOMAIN pc /\ Pipe!Step(p)
  \/ Is("RowSums") /\ p \in DOMAIN pc /\ Sums!Step(p)
  \/ Is("Relay") /\ p \in DOMAIN pc /\ Rel!Step(p)
  \/ Is("PollServers") /\ Poll!Step(p)
  \/ Is("KierkiDialog") /\ Dialog!Step(p)
  \/ Is("Uploads") /\ p \in DOMAIN pc /\ Up!Step(p)
  \/ Is("Notifier") /\ p \in DOMAIN pc /\ Noti!Step(p)

Spec == Init /\ [][Next]_vars /\ \A p \in 0..4 : WF_vars(Step(p))
             /\ WF_vars(running = "LLQueue" /\ Lone!Op(0) /\ IsQueue)
-----------------------------------------------------------------------------
\* What each program promises while it runs (see the definitions in its module).
ProgramsSafe ==
  CASE running = "ReadWriteLock" -> Rw!Exclusion
    [] running = "Gifts" -> Gift!GiftsInOrder
    [] running = "Dekker" -> Dekk!NothingLost
    [] running = "BlockingQueue" -> Queue!QueueInOrder
    [] running = "Pipeline" -> Pipe!NoSpareEnds
    [] running = "RowSums" -> Sums!SumsRight
    [] running = "Relay" -> Rel!RelayInOrder
    [] running = "PollServers" -> Poll!ServersKeepCount
    [] running = "KierkiDialog" -> Dialog!DialogAgrees
    [] running = "Uploads" -> Up!UploadsWhole
    [] running = "Notifier" -> Noti!NotifiedRight
    [] OTHER -> TRUE

\* What a call that succeeds has given, and that no call takes a message of another.
CollectivesCorrect == running = "Collectives" => Coll!CollectivesCorrect /\ Coll!CollectivesKeepApart

\* Every program that computes one answer gives the one its definition says, on each
\* input tried but those of KnownWrong in AlgorithmCases, and on none of those.
AlgorithmsAgree == running = "Algorithms" => Cases!AnswerIsWanted(pc[1], shared)

\* The recursive searches of the storage system wake what its model says.
SearchesAgree == running = "WakeSearch" => Search!ChainAgrees /\ Search!CycleAgrees

\* Every program comes to its end: no wake-up is lost and nobody waits for ever.  Two do
\* not, and keep polling: a poll server that counts clients, once a client has a slot
\* (poll-server-count.c, lines 132 and 250), and the echo server whose counter has passed
\* below zero (echo-server-nonblocking.c, lines 155 and 180).
ProgramsEnd == <>(Done \/ (running = "PollServers" /\ Poll!Hangs))

\* Thread 0 finishes every operation though the other one stops at the worst moment:
\* every failed exchange means that another operation has moved on, and the helping
\* steps leave nothing to wait for (PW/projekt3/readme.md, lines 21-25).
LoneFinishes == running = "LLQueue" /\ ~Lone!At(0, "idle") ~> running = "LLQueue" /\ Lone!At(0, "idle")
=============================================================================
