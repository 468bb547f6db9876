----------------------------- MODULE Collectives -----------------------------
(***************************************************************************)
(* The collective operations of MIMPI (PW/projekt2/mimpi.c, lines 537-705): *)
(* Barrier, Bcast and Reduce, as the messages that each process receives    *)
(* and sends, over point-to-point messages that arrive in order (Mimpi      *)
(* models those).  Every process makes the same calls; a process may finish *)
(* before a call, and one whose call fails finishes, as the programs in     *)
(* examples/ do.                                                            *)
(***************************************************************************)
EXTENDS Integers, Sequences, SequencesExt, FiniteSetsExt

CONSTANTS
  Sizes,      \* numbers of processes to try
  Programs,   \* sequences of calls [name, root] to try; ops of Reduce are names
  Data,       \* Data[p]: the byte that process p passes
  MaxQuits    \* bound: processes that finish before their last call

VARIABLES
  size, program,
  call,       \* call[p]: number of the call p is in, 0 before the first
  stages,     \* stages[p]: what is left of the call: sets of messages to receive
              \* or send, the sets one after the other
  buffer,     \* buffer[p]: the data of the call
  failed,     \* failed[p]: an operation of the call has failed
  results,    \* results[p]: what the calls gave so far
  finished,   \* processes that have left the MIMPI block
  channel     \* channel[<<p, q, tag>>]: messages from p that q has not received

vars == <<size, program, call, stages, buffer, failed, results, finished, channel>>

Procs == 0..size - 1
Tags == {"BCAST", "REDUCE"}

Init ==
  /\ size \in Sizes /\ program \in Programs
  /\ call = [p \in Procs |-> 0]
  /\ stages = [p \in Procs |-> <<>>]
  /\ buffer = [p \in Procs |-> 0]
  /\ failed = [p \in Procs |-> FALSE]
  /\ results = [p \in Procs |-> <<>>]
  /\ finished = {}
  /\ channel = [c \in Procs \X Procs \X Tags |-> <<>>]
-----------------------------------------------------------------------------
(* The tree, and what each process does in a call *)

T_TreeIndex(rank, root) == ((rank - root + size) % size) + 1
T_Rank(index, root) == IF index - 1 >= size THEN index - 1 ELSE (index - 1 + root) % size
T_Parent(rank, root) == T_Rank(T_TreeIndex(rank, root) \div 2, root)

Children(rank, root) ==
  {T_Rank(T_TreeIndex(rank, root) * 2 + i, root) : i \in {0, 1}} \cap Procs

Send(q, tag) == [does |-> "send", peer |-> q, tag |-> tag]
Recv(q, tag) == [does |-> "recv", peer |-> q, tag |-> tag]

\* The sends to the children run at the same time.
Bcast(p, root) ==
  CASE size = 1 -> <<>>
    [] size = 2 -> <<{IF p = root THEN Send((root + 1) % 2, "BCAST") ELSE Recv(root, "BCAST")}>>
    [] OTHER -> (IF p = root THEN <<>> ELSE <<{Recv(T_Parent(p, root), "BCAST")}>>)
                  \o <<{Send(q, "BCAST") : q \in Children(p, root)}>>

Reduce(p, root) ==
  LET sorted == SetToSortSeq(Children(p, root), LAMBDA q, r :
                               T_TreeIndex(q, root) < T_TreeIndex(r, root))
  IN CASE size = 1 -> <<>>
       [] size = 2 -> <<{IF p = root THEN Recv((root + 1) % 2, "REDUCE") ELSE Send(root, "REDUCE")}>>
       [] OTHER -> [i \in DOMAIN sorted |-> {Recv(sorted[i], "REDUCE")}]
                     \o (IF p = root THEN <<>> ELSE <<{Send(T_Parent(p, root), "REDUCE")}>>)

\* Fault: who has sent its part up the tree does not wait to be let go.
BarrierUp(p) == Reduce(p, 0)

Barrier(p) ==
  IF size = 2 THEN <<{Send((p + 1) % 2, "BCAST")}, {Recv((p + 1) % 2, "BCAST")}>>
  ELSE Reduce(p, 0) \o Bcast(p, 0)

Stages(p, c) ==
  LET all == CASE c.name = "Barrier" -> Barrier(p)
               [] c.name = "Bcast" -> Bcast(p, c.root)
               [] OTHER -> Reduce(p, c.root)
  IN SelectSeq(all, LAMBDA stage : stage # {})

\* apply: the buffers are of bytes.
apply(op, received, our) ==
  CASE op = "MAX" -> IF our < received THEN received ELSE our
    [] op = "MIN" -> IF our > received THEN received ELSE our
    [] op = "SUM" -> (our + received) % 256
    [] op = "PROD" -> (our * received) % 256
    [] OTHER -> received
-----------------------------------------------------------------------------
(* The processes *)

Current(p) == program[call[p]]

Running(p) == p \notin finished /\ stages[p] # <<>>

Idle(p) == p \notin finished /\ stages[p] = <<>> /\ Len(results[p]) = call[p]

\* A process enters its next call.  Barrier looks first whether anybody is known
\* to have finished.
Enter(p) ==
  /\ Idle(p) /\ call[p] < Len(program)
  /\ call' = [call EXCEPT ![p] = @ + 1]
  /\ buffer' = [buffer EXCEPT ![p] = Data[p]]
  /\ \/ stages' = [stages EXCEPT ![p] = Stages(p, program[call[p] + 1])]
        /\ UNCHANGED finished
     \/ /\ program[call[p] + 1].name = "Barrier" /\ size > 2 /\ finished # {}
        /\ finished' = finished \cup {p}
        /\ UNCHANGED stages
  /\ UNCHANGED <<size, program, failed, results, channel>>

\* One message of the current stage; done: it went well.
Does(p, m, done) ==
  LET rest == Head(stages[p]) \ {m} IN
  /\ stages' = [stages EXCEPT ![p] =
       CASE rest # {} -> <<rest>> \o Tail(@)
         [] rest = {} /\ (failed[p] \/ ~done) -> <<>>
         [] OTHER -> Tail(@)]
  /\ failed' = [failed EXCEPT ![p] = @ \/ ~done]
  /\ UNCHANGED <<size, program, call, results, finished>>

SendMessage(p, m) ==
  /\ m.does = "send"
  /\ Does(p, m, TRUE)
  /\ channel' = [channel EXCEPT ![<<p, m.peer, m.tag>>] = Append(@, buffer[p])]
  /\ UNCHANGED buffer

RecvMessage(p, m) ==
  LET from == <<m.peer, p, m.tag>> IN
  /\ m.does = "recv" /\ channel[from] # <<>>
  /\ Does(p, m, TRUE)
  /\ channel' = [channel EXCEPT ![from] = Tail(@)]
  /\ buffer' = [buffer EXCEPT ![p] =
       IF m.tag = "REDUCE" THEN apply(Current(p).name, Head(channel[from]), @)
       ELSE Head(channel[from])]

\* The peer is known to have left: nothing can be sent to it, and nothing more
\* comes from it.
Broken(p, m) ==
  /\ m.peer \in finished
  /\ m.does = "recv" => channel[<<m.peer, p, m.tag>>] = <<>>
  /\ Does(p, m, FALSE)
  /\ UNCHANGED <<buffer, channel>>

Message(p) ==
  Running(p) /\ \E m \in Head(stages[p]) : SendMessage(p, m) \/ RecvMessage(p, m) \/ Broken(p, m)

\* The call returns; after an error the process finishes.
Return(p) ==
  /\ p \notin finished /\ stages[p] = <<>> /\ Len(results[p]) < call[p]
  /\ IF failed[p] THEN finished' = finished \cup {p} /\ UNCHANGED results
     ELSE results' = [results EXCEPT ![p] = Append(@, buffer[p])] /\ UNCHANGED finished
  /\ UNCHANGED <<size, program, call, stages, buffer, failed, channel>>

Finish(p) ==
  /\ Idle(p)
  /\ call[p] = Len(program) \/ Cardinality({q \in finished : call[q] < Len(program)}) < MaxQuits
  /\ finished' = finished \cup {p}
  /\ UNCHANGED <<size, program, call, stages, buffer, failed, results, channel>>

\* What a process must go on to do; it may finish earlier, if it is one of MaxQuits.
Step(p) == Enter(p) \/ Message(p) \/ Return(p) \/ (call[p] = Len(program) /\ Finish(p))

Next == \E p \in Procs : Step(p) \/ Finish(p)

Done == finished = Procs
-----------------------------------------------------------------------------
\* What a call that succeeds has given: nobody leaves a Barrier before everybody
\* has come to it, Bcast brings the root's byte to all, Reduce brings the root
\* all bytes put together, each once, modulo 2^8, whoever the root is
\* (mimpi.c, lines 546-705).
CollectivesCorrect ==
  \A p \in Procs : \A k \in DOMAIN results[p] :
    LET c == program[k] IN
    CASE c.name = "Barrier" -> \A q \in Procs : call[q] >= k
      [] c.name = "Bcast" -> results[p][k] = Data[c.root]
      [] OTHER -> p = c.root => results[p][k] =
           FoldSet(LAMBDA q, x : apply(c.name, Data[q], x), Data[p], Procs \ {p})

\* A message is taken by the call it was sent in: what is on the way to p in a
\* tag is of calls that p has not left.
CollectivesKeepApart ==
  \A p \in Procs : p \notin finished /\ finished = {} /\ call[p] = Len(program)
                     /\ Len(results[p]) = call[p]
    => \A q \in Procs, tag \in Tags : channel[<<q, p, tag>>] = <<>>
=============================================================================
