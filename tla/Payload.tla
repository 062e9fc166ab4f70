------------------------------ MODULE Payload ------------------------------
(***************************************************************************)
(* How a process obtains its helper binaries (bux/src/payload.rs): beside  *)
(* the executable, else from the payload store that all processes of the   *)
(* user share, which is filled from a release under an exclusive file      *)
(* lock.  The store has two items, the product directory and the cached    *)
(* guest agent.  Each is "none", "part" (some member missing or not        *)
(* valid) or "whole"; each has one staging path.                           *)
(***************************************************************************)
EXTENDS Naturals

CONSTANTS Procs,       \* processes that call ensure_blocking
          Attempts,    \* attempts of http_get: 3 in the code
          MaxDamage    \* bound on outside damage to the store

VARIABLES store, staging, flock, proc_at, damaged
pvars == <<store, staging, flock, proc_at, damaged>>

Items == {"product", "agent"}
Free == "free"
\* want: what is missing beside the executable (the agent alone, or all);
\* tries: attempts left; got: the item the paths returned point into.
Absent == [at |-> "idle", want |-> "product", tries |-> 0, got |-> "none"]

Init ==
  /\ store = [i \in Items |-> "none"] /\ staging = [i \in Items |-> "none"]
  /\ flock = Free
  /\ proc_at = [p \in Procs |-> Absent]
  /\ damaged = 0

At(p, at) == proc_at[p].at = at
Goto(p, at) == proc_at' = [proc_at EXCEPT ![p].at = at]
Return(p, got) ==
  /\ proc_at' = [proc_at EXCEPT ![p] = [Absent EXCEPT !.at = "done", !.got = got]]
  /\ flock' = Free
Discard(i) == staging' = [staging EXCEPT ![i] = "none"]

\* resolve_override and sibling_file/sibling_guest leave something to find.
Ensure(p) ==
  /\ proc_at[p].at \in {"idle", "done"}
  /\ \E w \in Items : proc_at' = [proc_at EXCEPT ![p] = [Absent EXCEPT !.at = "lock", !.want = w]]
  /\ UNCHANGED <<store, staging, flock, damaged>>

\* Both are present, or an override is wrong: the store is not touched.
EnsureLocal(p) ==
  /\ proc_at[p].at \in {"idle", "done"}
  /\ proc_at' = [proc_at EXCEPT ![p] = [Absent EXCEPT !.at = "done"]]
  /\ UNCHANGED <<store, staging, flock, damaged>>

\* Mutation: the lock is shared.
LockShared(p) ==
  /\ At(p, "lock")
  /\ flock' = p
  /\ Goto(p, "check")
  /\ UNCHANGED <<store, staging, damaged>>
\* lock_payload_root
Lock(p) ==
  /\ At(p, "lock") /\ flock = Free
  /\ flock' = p
  /\ Goto(p, "check")
  /\ UNCHANGED <<store, staging, damaged>>

\* complete_product_dir, then guest_from_cache_or_fetch.
Check(p) ==
  LET w == proc_at[p].want IN
  /\ At(p, "check")
  /\ \/ /\ store["product"] = "whole" /\ Return(p, "product")
     \/ /\ store["product"] # "whole" /\ w = "agent" /\ store["agent"] = "whole"
        /\ Return(p, "agent")
     \/ /\ store["product"] # "whole" /\ (w = "product" \/ store["agent"] # "whole")
        /\ proc_at' = [proc_at EXCEPT ![p].at = "fetch", ![p].tries = Attempts]
        /\ UNCHANGED flock
  /\ UNCHANGED <<store, staging, damaged>>

\* download_verified: checksum and body, each by http_get, which follows
\* redirects to allowed hosts and tries again after a Busy or Io error while
\* its deadline allows.  Any other error, or a wrong digest, is final.
Fetch(p) ==
  /\ At(p, "fetch")
  /\ Goto(p, "stage")
  /\ UNCHANGED <<store, staging, flock, damaged>>

Retry(p) ==
  /\ At(p, "fetch") /\ proc_at[p].tries > 1
  /\ proc_at' = [proc_at EXCEPT ![p].tries = @ - 1]
  /\ UNCHANGED <<store, staging, flock, damaged>>

\* The last attempt, a status, a redirect elsewhere, a body that is too long.
FetchFails(p) ==
  /\ At(p, "fetch")
  /\ Return(p, "none")
  /\ UNCHANGED <<store, staging, damaged>>

\* extract_product: a staging directory left by a crash goes first.
Stage(p) ==
  /\ At(p, "stage") /\ proc_at[p].want = "product"
  /\ \/ staging' = [staging EXCEPT !["product"] = "part"] /\ Goto(p, "unpack") /\ UNCHANGED flock
     \/ Return(p, "none") /\ UNCHANGED staging
  /\ UNCHANGED <<store, damaged>>

\* install_guest_bytes writes over what a crash left.
StageAgent(p) ==
  /\ At(p, "stage") /\ proc_at[p].want = "agent"
  /\ \/ staging' = [staging EXCEPT !["agent"] = "part"] /\ Goto(p, "unpack") /\ UNCHANGED flock
     \/ Return(p, "none") /\ UNCHANGED staging
  /\ UNCHANGED <<store, damaged>>

\* unpack_allowlisted writes the members one by one; what the archive held
\* may still be less than a product.
Unpack(p) ==
  LET i == proc_at[p].want IN
  /\ At(p, "unpack") /\ staging[i] # "none"
  /\ \E s \in {"part", "whole"} : staging' = [staging EXCEPT ![i] = s]
  /\ Goto(p, "verify")
  /\ UNCHANGED <<store, flock, damaged>>

\* A member or a link target that is not allowed ends it; the guard removes
\* the staging directory.
UnpackRefused(p) ==
  /\ At(p, "unpack")
  /\ Discard(proc_at[p].want) /\ Return(p, "none")
  /\ UNCHANGED <<store, damaged>>

\* product_complete: every name of the product is there.
Verify(p) ==
  /\ At(p, "verify") /\ proc_at[p].want = "product"
  /\ \/ staging["product"] = "whole" /\ Goto(p, "remove") /\ UNCHANGED <<flock, staging>>
     \/ staging["product"] # "whole" /\ Discard("product") /\ Return(p, "none")
  /\ UNCHANGED <<store, damaged>>

\* ManagedGuestBinary::from_path: a static ELF file of the host's architecture.
VerifyAgent(p) ==
  /\ At(p, "verify") /\ proc_at[p].want = "agent"
  /\ \/ staging["agent"] = "whole" /\ Goto(p, "remove") /\ UNCHANGED <<flock, staging>>
     \/ staging["agent"] # "whole" /\ Discard("agent") /\ Return(p, "none")
  /\ UNCHANGED <<store, damaged>>

Remove(p) ==
  LET i == proc_at[p].want IN
  /\ At(p, "remove")
  /\ \/ store' = [store EXCEPT ![i] = "none"] /\ Goto(p, "rename") /\ UNCHANGED <<flock, staging>>
     \/ \* remove_dir_all fails part way
        /\ store[i] # "none" /\ store' = [store EXCEPT ![i] = "part"]
        /\ Discard(i) /\ Return(p, "none")
  /\ UNCHANGED damaged

Rename(p) ==
  LET i == proc_at[p].want IN
  /\ At(p, "rename")
  /\ \/ /\ staging[i] # "none" /\ store[i] = "none"
        /\ store' = [store EXCEPT ![i] = staging[i]]
        /\ Return(p, i)
     \/ UNCHANGED store /\ Return(p, "none")
  /\ Discard(i)
  /\ UNCHANGED damaged

\* The process is killed: the kernel drops its lock, its files stay.
Kill(p) ==
  /\ proc_at[p].at \notin {"idle", "done"}
  /\ proc_at' = [proc_at EXCEPT ![p] = Absent]
  /\ flock' = IF flock = p THEN Free ELSE flock
  /\ UNCHANGED <<store, staging, damaged>>

\* Someone removes a file of the store.
Damage ==
  /\ damaged < MaxDamage
  /\ \E i \in Items : store[i] = "whole" /\ store' = [store EXCEPT ![i] = "part"]
  /\ damaged' = damaged + 1
  /\ proc_at' = [p \in Procs |-> IF At(p, "done") THEN Absent ELSE proc_at[p]]
  /\ UNCHANGED <<staging, flock>>

Step(p) ==
  \/ Ensure(p) \/ EnsureLocal(p) \/ Lock(p) \/ Check(p)
  \/ Fetch(p) \/ Retry(p) \/ FetchFails(p) \/ Stage(p) \/ StageAgent(p)
  \/ Unpack(p) \/ UnpackRefused(p) \/ Verify(p) \/ VerifyAgent(p) \/ Remove(p) \/ Rename(p) \/ Kill(p)
Next == (\E p \in Procs : Step(p)) \/ Damage
Spec == Init /\ [][Next]_pvars

-----------------------------------------------------------------------------
\* The binaries a process was given stay there, whole, for as long as nobody
\* but ensure_blocking touches the store: neither another process that fetches
\* at the same time nor the next start after a crash takes them away or leaves
\* half of them.
PayloadStays ==
  \A p \in Procs : At(p, "done") /\ proc_at[p].got # "none" => store[proc_at[p].got] = "whole"
=============================================================================
