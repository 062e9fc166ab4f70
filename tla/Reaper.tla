------------------------------- MODULE Reaper -------------------------------
(***************************************************************************)
(* The guest agent's child reaper (crates/bux-guest/src/reaper.rs).  PID 1 *)
(* is the only caller of waitpid: exec sessions fork under the reap lock,  *)
(* a drain task empties the zombies on SIGCHLD, and an exit status reaches *)
(* its session through the waiter registered for the pid.                  *)
(*                                                                         *)
(* A process stands for its pid; exit statuses are not told apart.         *)
(***************************************************************************)
EXTENDS Naturals

CONSTANTS Kids,      \* processes that exec sessions fork
          Strays,    \* re-parented processes nobody waits for
          Drain,     \* the SIGCHLD drain task
          Nobody     \* the free reap lock

VARIABLES proc,      \* [Kids \cup Strays -> process state]
          waiters,   \* Inner.waiters: pids with a oneshot sender
          told,      \* pids whose oneshot carries the exit
          lock,      \* holder of Reaper.inner
          rstep,     \* [Kids \cup {Drain} -> where the spawner or the task is]
          sigchld    \* a SIGCHLD the signal stream has not delivered

rvars == <<proc, waiters, told, lock, rstep, sigchld>>

Procs == Kids \cup Strays

Init ==
  /\ proc = [p \in Procs |-> "none"]
  /\ waiters = {} /\ told = {} /\ lock = Nobody /\ sigchld = FALSE
  /\ rstep = [o \in Kids \cup {Drain} |-> "idle"]

Zombies == {p \in Procs : proc[p] = "zombie"}
At(o, s) == rstep[o] = s
Move(o, s) == rstep' = [rstep EXCEPT ![o] = s]

\* Mutation: spawn without the reap lock.
LockFree(o) ==
  /\ lock = Nobody
  /\ At(o, IF o = Drain THEN "woken" ELSE "idle")
  /\ lock' = IF o = Drain THEN o ELSE Nobody
  /\ Move(o, "reap")
  /\ UNCHANGED <<proc, waiters, told, sigchld>>

\* Lock the table; both reap_locked and spawn start by emptying the zombies.
Lock(o) ==
  /\ lock = Nobody
  /\ At(o, IF o = Drain THEN "woken" ELSE "idle")
  /\ lock' = o
  /\ Move(o, "reap")
  /\ UNCHANGED <<proc, waiters, told, sigchld>>

\* One turn of the waitpid loop: the waiter of the pid is told, an orphan is dropped.
Reap(o) ==
  /\ At(o, "reap") \/ At(o, "reap again")
  /\ \E p \in Zombies :
       /\ proc' = [proc EXCEPT ![p] = "reaped"]
       /\ waiters' = waiters \ {p}
       /\ told' = told \cup (waiters \cap {p})
  /\ UNCHANGED <<lock, rstep, sigchld>>

\* StillAlive or ECHILD ends the loop; the drain task then drops the lock.
ReapEnd(o) ==
  /\ Zombies = {}
  /\ \/ o = Drain /\ At(o, "reap") /\ lock' = Nobody /\ Move(o, "idle")
     \/ o \in Kids /\ At(o, "reap") /\ lock' = lock /\ Move(o, "fork")
     \/ o \in Kids /\ At(o, "reap again") /\ lock' = Nobody /\ Move(o, "waiting")
  /\ UNCHANGED <<proc, waiters, told, sigchld>>

\* cmd.spawn(): the fork succeeds, or the error ends spawn and drops the lock.
Fork(k) ==
  /\ At(k, "fork")
  /\ \/ proc' = [proc EXCEPT ![k] = "running"] /\ Move(k, "insert") /\ lock' = lock
     \/ proc' = proc /\ Move(k, "done") /\ lock' = Nobody
  /\ UNCHANGED <<waiters, told, sigchld>>

Insert(k) ==
  /\ At(k, "insert")
  /\ waiters' = waiters \cup {k}
  /\ Move(k, "reap again")
  /\ UNCHANGED <<proc, told, lock, sigchld>>

\* The session's `exit.await` completes.
Await(k) ==
  /\ At(k, "waiting") /\ k \in told
  /\ Move(k, "done")
  /\ UNCHANGED <<proc, waiters, told, lock, sigchld>>

\* sig.recv(): signals raised since the last delivery are one delivery.
Wake ==
  /\ sigchld /\ At(Drain, "idle")
  /\ sigchld' = FALSE
  /\ Move(Drain, "woken")
  /\ UNCHANGED <<proc, waiters, told, lock>>

\* The kernel: a process ends, or a stray is re-parented to PID 1.
Die(p) ==
  /\ proc[p] = "running"
  /\ proc' = [proc EXCEPT ![p] = "zombie"]
  /\ sigchld' = TRUE
  /\ UNCHANGED <<waiters, told, lock, rstep>>

Adopt(p) ==
  /\ p \in Strays /\ proc[p] = "none"
  /\ proc' = [proc EXCEPT ![p] = "running"]
  /\ UNCHANGED <<waiters, told, lock, rstep, sigchld>>

Task(o) == Lock(o) \/ Reap(o) \/ ReapEnd(o)
Spawner(k) == Task(k) \/ Fork(k) \/ Insert(k) \/ Await(k)

DrainTask == Task(Drain) \/ Wake

Next ==
  \/ \E k \in Kids : Spawner(k)
  \/ DrainTask
  \/ \E p \in Procs : Die(p) \/ Adopt(p)

\* The agent's runtime polls the drain task and every session.
Fairness == WF_rvars(DrainTask) /\ \A k \in Kids : WF_rvars(Spawner(k))

Spec == Init /\ [][Next]_rvars /\ Fairness
-----------------------------------------------------------------------------

\* The exit of every child reaches its session: signals may coalesce, and other
\* sessions may take the lock and reap the child meanwhile.
ExitDelivered == \A k \in Kids : (At(k, "waiting") /\ proc[k] # "running") ~> At(k, "done")
=============================================================================
