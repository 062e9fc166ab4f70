----------------------------- MODULE VmContract -----------------------------
(***************************************************************************)
(* What the runtime promises of each VM, without tasks, handles, sockets   *)
(* or crashes: a row with a status that follows Status::can_transition_to  *)
(* and never comes back once gone, and a disk that at most one guest       *)
(* writes and none once the row says Stopped or is gone.                   *)
(***************************************************************************)
CONSTANTS Vms, Pids

VARIABLES row,      \* [Vms -> "none" or a Status]
          gone,     \* VMs removed, or given up before their row was written
          guests    \* [Vms -> guests that write the disk]

contractVars == <<row, gone, guests>>

Init ==
    /\ row = [v \in Vms |-> "none"]
    /\ gone = {}
    /\ guests = [v \in Vms |-> {}]

Becomes(v, from, to) == row[v] \in from /\ row'[v] = to

\* The row of v as create, start, stop and the marking of an exit write it; a
\* row is marked Stopped only when its guest is.
RowStep(v) ==
    \/ row'[v] = row[v] /\ (v \in gone' <=> v \in gone)
    \/ Becomes(v, {"none"}, "Running") /\ v \notin gone /\ v \notin gone'
    \/ Becomes(v, {"Stopped"}, "Running") /\ v \notin gone'
    \/ Becomes(v, {"Running"}, "Stopping") /\ v \notin gone'
    \/ Becomes(v, {"Running", "Stopping"}, "Stopped") /\ guests'[v] = {} /\ v \notin gone'
    \/ row'[v] = "none" /\ guests'[v] = {} /\ v \in gone'

\* A guest boots on a disk nobody writes, or the writer ends.
GuestStep(v) ==
    \/ guests'[v] = guests[v]
    \/ guests[v] = {} /\ v \notin gone /\ \E p \in Pids : guests'[v] = {p}
    \/ guests'[v] = {}

\* One step may change several VMs: the shutdown of the runtime does.
Next == \A v \in Vms : RowStep(v) /\ GuestStep(v)

Spec == Init /\ [][Next]_contractVars
=============================================================================
