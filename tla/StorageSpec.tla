----------------------------- MODULE StorageSpec -----------------------------
(***************************************************************************)
(* What StorageSystem.execute promises to its callers, with no queue, no   *)
(* semaphore and no reservation: a component physically occupies at most   *)
(* one slot, it leaves the source slot when prepare() ends, it takes a     *)
(* slot of the destination when perform() starts, and perform() may start  *)
(* only while the destination physically has a free slot.                  *)
(***************************************************************************)
EXTENDS Naturals, FiniteSets

CONSTANTS Threads, Components, Devices, Capacity, NoDevice, NoComponent

VARIABLES
  phase,   \* phase[t]: how far the transfer run by caller t has got
  job,     \* job[t]: the transfer, a record [comp, src, dst]
  at       \* at[c]: the device whose slot c physically occupies

vars == <<phase, job, at>>

NoJob == [comp |-> NoComponent, src |-> NoDevice, dst |-> NoDevice]

Occupants(d) == {c \in Components : at[c] = d}

Init ==
  /\ phase = [t \in Threads |-> "idle"]
  /\ job = [t \in Threads |-> NoJob]
  /\ at \in [Components -> Devices \cup {NoDevice}]
  /\ \A d \in Devices : Cardinality(Occupants(d)) <= Capacity[d]

Request(t) ==
  /\ phase[t] = "idle"
  /\ \E c \in Components, d \in Devices \cup {NoDevice} :
       /\ \A u \in Threads : job[u].comp # c
       /\ d # at[c]
       /\ job' = [job EXCEPT ![t] = [comp |-> c, src |-> at[c], dst |-> d]]
  /\ phase' = [phase EXCEPT ![t] = "requested"]
  /\ UNCHANGED at

EndPrepare(t) ==
  /\ phase[t] = "requested"
  /\ phase' = [phase EXCEPT ![t] = "prepared"]
  /\ at' = [at EXCEPT ![job[t].comp] = NoDevice]
  /\ UNCHANGED job

StartPerform(t) ==
  /\ phase[t] = "prepared"
  /\ job[t].dst # NoDevice =>
       Cardinality(Occupants(job[t].dst)) < Capacity[job[t].dst]
  /\ phase' = [phase EXCEPT ![t] = "performing"]
  /\ at' = [at EXCEPT ![job[t].comp] = job[t].dst]
  /\ UNCHANGED job

Return(t) ==
  /\ phase[t] = "performing"
  /\ phase' = [phase EXCEPT ![t] = "idle"]
  /\ job' = [job EXCEPT ![t] = NoJob]
  /\ UNCHANGED at

Next == \E t \in Threads :
          Request(t) \/ EndPrepare(t) \/ StartPerform(t) \/ Return(t)

Spec == Init /\ [][Next]_vars
=============================================================================
