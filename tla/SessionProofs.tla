---------------------------- MODULE SessionProofs ----------------------------
(***************************************************************************)
(* The safety of the components of MCSessions, for any values of their     *)
(* constants.  Snapshots: what is frozen can be thawed, rows stand for     *)
(* whole copies, and an embedder that takes one snapshot at a time gets no *)
(* torn one of a guest whose mounts were frozen.  Exec sessions: nothing   *)
(* of a job's group outlives its session, and the exit comes after the     *)
(* output.  Launch: a create that fails leaves nothing, and a shim enters  *)
(* the VM as confined as its configuration asks.                           *)
(***************************************************************************)
EXTENDS MCSessions, TLAPS

-----------------------------------------------------------------------------
(* Snapshots.                                                              *)

\* A create that has started its copy and not inserted its row.
Copying(s) == step[s] \in {"copy", "copy_cold", "thaw", "insert"}

\* The file of a create stays until its row is deleted, and only one that
\* has ended has a row.
Stored(s) ==
    /\ Copying(s) => s \in files /\ copy[s] # "none"
    /\ step[s] \in {"new", "quiesce"} => copy[s] = "none"
    /\ s \in rows => /\ copy[s] = "done" /\ step[s] \in {"end", "delete"}
                     /\ s \in files \/ step[s] = "delete"

NamesDiffer == \A s, t \in rows : name[s] = name[t] => s = t \/ name[s] = NoName

\* With one snapshot at a time, a copy that runs is bare, of a stopped VM, or
\* of a frozen guest that no request will thaw.
OneAtATime ==
    serial =>
        /\ \A s, t \in Snaps : InProgress(s) /\ InProgress(t) => s = t
        /\ \A s \in Snaps : /\ <<s, "quiesce">> \in req => step[s] = "quiesce"
                            /\ <<s, "thaw">> \in req => step[s] = "thaw"
                            /\ step[s] = "thaw" => copy[s] # "running"
                            /\ copy[s] = "running" => step[s] \in {"copy", "copy_cold"}
                            /\ step[s] = "copy" /\ copy[s] = "running" /\ Up
                                   => frozen = Mounts \/ s \in bare
                            /\ step[s] = "copy_cold" /\ Up => s \in bare
                            /\ torn[s] => s \in bare

SInv == TypeOK /\ FrozenTracked /\ (\A s \in Snaps : Stored(s)) /\ NamesDiffer /\ OneAtATime

\* The invariant is what the properties say and more.
LEMMA SInvSafe == SInv => TypeOK /\ FrozenTracked /\ RowsAreWhole /\ SerialNeverTorn
BY Zenon DEF SInv, Stored, NamesDiffer, OneAtATime, RowsAreWhole, SerialNeverTorn, TypeOK

\* Nothing is frozen, copied or stored at first.
LEMMA SInvInit == Init => SInv
BY DEF Init, SInv, TypeOK, FrozenTracked, Stored, Copying, NamesDiffer, OneAtATime, InProgress, Up

\* The types.
LEMMA TypeNext == ASSUME TypeOK, [Next]_vars PROVE TypeOK'
<1> USE DEF TypeOK, guestVars, hostVars, Goto
<1>1. ASSUME NEW s \in Snaps, SnapStep(s) PROVE TypeOK'
    <2>1. ASSUME NEW n \in Names \union {NoName}, Begin(s, n) PROVE TypeOK'
        BY <2>1 DEF Begin, Send, StartCopy
    <2>2. CASE QuiesceFails(s)
        BY <2>2 DEF QuiesceFails
    <2>3. CASE CopyEnds(s)
        BY <2>3 DEF CopyEnds
    <2>4. CASE CopyReturns(s)
        BY <2>4 DEF CopyReturns, Send
    <2>5. CASE ThawFails(s) \/ Insert(s) \/ DeleteFile(s) \/ DeleteRow(s) \/ Cancel(s)
        BY <2>5 DEF ThawFails, Insert, DeleteFile, DeleteRow, Cancel
    <2> QED BY <1>1, <2>1, <2>2, <2>3, <2>4, <2>5 DEF SnapStep
<1>2. ASSUME NEW s \in Snaps, Quiesce(s) PROVE TypeOK'
    BY <1>2 DEF Quiesce, Freeze, StartCopy
<1>3. ASSUME NEW s \in Snaps, Thaw(s) PROVE TypeOK'
    BY <1>3 DEF Thaw
<1>4. CASE GuestWrite \/ VmStopping \/ VmStops \/ VmStarts \/ VmRemoved
    BY <1>4, Zenon DEF GuestWrite, VmStopping, VmStops, VmStarts, VmRemoved
<1>5. CASE UNCHANGED vars
    BY <1>5 DEF vars
<1> QED BY <1>1, <1>2, <1>3, <1>4, <1>5 DEF Next, GuestStep

\* Quiesce lists what it freezes, Thaw thaws what is listed, and what slips
\* through either is accounted for.
LEMMA FrozenNext == ASSUME FrozenTracked, [Next]_vars PROVE FrozenTracked'
<1> USE DEF FrozenTracked, guestVars
<1>1. ASSUME NEW s \in Snaps, SnapStep(s) PROVE FrozenTracked'
    BY <1>1 DEF SnapStep, Begin, QuiesceFails, CopyEnds, CopyReturns, ThawFails, Insert,
                DeleteFile, DeleteRow, Cancel
<1>2. ASSUME NEW s \in Snaps, GuestStep(s) PROVE FrozenTracked'
    BY <1>2 DEF GuestStep, Quiesce, Freeze, Thaw
<1>3. CASE GuestWrite \/ VmStopping \/ VmStops \/ VmStarts \/ VmRemoved
    BY <1>3 DEF GuestWrite, VmStopping, VmStops, VmStarts, VmRemoved
<1>4. CASE UNCHANGED vars
    BY <1>4 DEF vars
<1> QED BY SMTT(20), <1>1, <1>2, <1>3, <1>4 DEF Next

\* A copy starts once, its file outlives the row, and Insert takes only a
\* copy that is done.
LEMMA StoredNext ==
    ASSUME TypeOK, \A s \in Snaps : Stored(s), [Next]_vars
    PROVE  \A s \in Snaps : Stored(s)'
<1> SUFFICES ASSUME NEW t \in Snaps PROVE Stored(t)'
    OBVIOUS
<1>0. Stored(t)
    OBVIOUS
<1> USE <1>0 DEF Stored, Copying, TypeOK, guestVars, hostVars, Goto
<1>1. ASSUME NEW s \in Snaps, SnapStep(s) PROVE Stored(t)'
    <2>1. ASSUME NEW n \in Names \union {NoName}, Begin(s, n) PROVE Stored(t)'
        BY <2>1 DEF Begin, StartCopy
    <2>2. CASE QuiesceFails(s)
        BY <2>2 DEF QuiesceFails
    <2>3. CASE CopyEnds(s)
        BY <2>3 DEF CopyEnds
    <2>4. CASE CopyReturns(s)
        BY <2>4 DEF CopyReturns
    <2>5. CASE ThawFails(s)
        BY <2>5 DEF ThawFails
    <2>6. CASE Insert(s)
        BY <2>6 DEF Insert
    <2>7. CASE DeleteFile(s)
        BY <2>7 DEF DeleteFile
    <2>8. CASE DeleteRow(s)
        BY <2>8 DEF DeleteRow
    <2>9. CASE Cancel(s)
        BY <2>9 DEF Cancel
    <2> QED BY <1>1, <2>1, <2>2, <2>3, <2>4, <2>5, <2>6, <2>7, <2>8, <2>9 DEF SnapStep
<1>2. ASSUME NEW s \in Snaps, Quiesce(s) PROVE Stored(t)'
    BY <1>2 DEF Quiesce, StartCopy
<1>3. ASSUME NEW s \in Snaps, Thaw(s) PROVE Stored(t)'
    BY <1>3 DEF Thaw
<1>4. CASE GuestWrite \/ VmStopping \/ VmStops \/ VmStarts \/ VmRemoved
    BY <1>4 DEF GuestWrite, VmStopping, VmStops, VmStarts, VmRemoved
<1>5. CASE UNCHANGED vars
    BY <1>5 DEF vars
<1> QED BY <1>1, <1>2, <1>3, <1>4, <1>5 DEF Next, GuestStep

\* A name is set before the row exists, and Insert refuses one that is taken.
LEMMA NamesNext ==
    ASSUME TypeOK, NamesDiffer, \A s \in Snaps : Stored(s), [Next]_vars
    PROVE  NamesDiffer'
<1> USE DEF NamesDiffer, TypeOK, guestVars, hostVars
<1>1. ASSUME NEW s \in Snaps, SnapStep(s) PROVE NamesDiffer'
    <2>1. ASSUME NEW n \in Names \union {NoName}, Begin(s, n) PROVE NamesDiffer'
        <3>1. s \notin rows
            BY <2>1 DEF Begin, Stored
        <3> QED BY <2>1, <3>1 DEF Begin
    <2>2. CASE Insert(s)
        BY SMTT(20), <2>2 DEF Insert, Insertable
    <2>3. CASE QuiesceFails(s) \/ CopyEnds(s) \/ CopyReturns(s) \/ ThawFails(s) \/ DeleteFile(s)
               \/ DeleteRow(s) \/ Cancel(s)
        BY <2>3 DEF QuiesceFails, CopyEnds, CopyReturns, ThawFails, DeleteFile, DeleteRow, Cancel
    <2> QED BY <1>1, <2>1, <2>2, <2>3 DEF SnapStep
<1>2. ASSUME NEW s \in Snaps, GuestStep(s) PROVE NamesDiffer'
    BY <1>2 DEF GuestStep, Quiesce, Thaw
<1>3. CASE GuestWrite \/ VmStopping \/ VmStops \/ VmStarts \/ VmRemoved
    BY <1>3 DEF GuestWrite, VmStopping, VmStops, VmStarts, VmRemoved
<1>4. CASE UNCHANGED vars
    BY SMTT(20), <1>4 DEF vars
<1> QED BY <1>1, <1>2, <1>3, <1>4 DEF Next

\* The embedder waits for the last snapshot, so no request is left to thaw
\* the guest of the next one.
LEMMA SerialNext ==
    ASSUME TypeOK, OneAtATime, \A s \in Snaps : Stored(s), [Next]_vars
    PROVE  OneAtATime'
<1> USE DEF OneAtATime, InProgress, TypeOK, guestVars, hostVars, Goto, Up
<1>1. ASSUME NEW s \in Snaps, SnapStep(s) PROVE OneAtATime'
    <2>1. ASSUME NEW n \in Names \union {NoName}, Begin(s, n) PROVE OneAtATime'
        BY <2>1 DEF Begin, StartCopy, Send, NoneInProgress
    <2>2. CASE QuiesceFails(s)
        BY <2>2 DEF QuiesceFails, Stored
    <2>3. CASE CopyEnds(s)
        BY <2>3 DEF CopyEnds
    <2>4. CASE CopyReturns(s)
        BY <2>4 DEF CopyReturns, Send
    <2>5. CASE ThawFails(s)
        BY <2>5 DEF ThawFails
    <2>6. CASE Insert(s)
        BY <2>6 DEF Insert
    <2>7. CASE DeleteFile(s)
        BY <2>7 DEF DeleteFile
    <2>8. CASE DeleteRow(s)
        BY <2>8 DEF DeleteRow
    <2>9. CASE Cancel(s)
        BY <2>9 DEF Cancel
    <2> HIDE DEF OneAtATime, InProgress, TypeOK
    <2> QED BY Zenon, <1>1, <2>1, <2>2, <2>3, <2>4, <2>5, <2>6, <2>7, <2>8, <2>9 DEF SnapStep
<1>2. ASSUME NEW s \in Snaps, Quiesce(s) PROVE OneAtATime'
    BY <1>2 DEF Quiesce, StartCopy, Freeze
<1>3. ASSUME NEW s \in Snaps, Thaw(s) PROVE OneAtATime'
    <2>1. serial => step' = [step EXCEPT ![s] = "insert"] /\ step[s] = "thaw"
        BY <1>3, Zenon DEF Thaw
    <2>2. serial => \A t \in Snaps \ {s} : ~InProgress(t)
        BY <2>1
    <2> QED BY <1>3, <2>1, <2>2 DEF Thaw
<1>4. CASE GuestWrite
    BY <1>4 DEF GuestWrite
<1>5. CASE VmStopping \/ VmStops
    BY <1>5, Zenon DEF VmStopping, VmStops
<1>6. CASE VmStarts
    BY <1>6 DEF VmStarts, NoneInProgress
<1>7. CASE VmRemoved
    BY <1>7 DEF VmRemoved
<1>8. CASE UNCHANGED vars
    BY <1>8 DEF vars
<1> HIDE DEF OneAtATime, InProgress, TypeOK
<1> QED BY Zenon, <1>1, <1>2, <1>3, <1>4, <1>5, <1>6, <1>7, <1>8 DEF Next, GuestStep

\* The invariant holds in every state snapshot.rs and the guest's control.rs
\* reach.
LEMMA SInvAlways == Spec => []SInv
<1>1. SInv /\ [Next]_vars => SInv'
    BY TypeNext, FrozenNext, StoredNext, NamesNext, SerialNext DEF SInv
<1> QED BY <1>1, SInvInit, PTL DEF Spec

\* Every mount freeze_filesystems froze is on FROZEN_MOUNTS, whatever calls
\* overlap, are cancelled or lose their guest, unless an ioctl on it failed.
THEOREM FrozenIsTracked == Spec => []FrozenTracked
BY SInvAlways, SInvSafe, PTL

\* A row of the snapshots table is a whole copy under a name of its own, for
\* every interleaving of creates and deletes.
THEOREM RowsStayWhole == Spec => []RowsAreWhole
BY SInvAlways, SInvSafe, PTL

\* An embedder that lets each snapshot finish before the next gets no torn
\* one, though the guest writes whenever it is not frozen: but of a VM that
\* is stopping, or where freeze_filesystems skipped a mount.
THEOREM SerialIsNeverTorn == Spec => []SerialNeverTorn
BY SInvAlways, SInvSafe, PTL

-----------------------------------------------------------------------------
(* Exec sessions.                                                          *)

\* The job of a session and the handle of its host.
Jobs == [child : {"none", "alive", "exited", "killed"}, helper : {"none", "member", "apart"}]
Hosts == [pc : {"idle", "ack", "collect", "closed"}, sent : Nat, kept : Nat,
          signaled : BOOLEAN]

\* What the variables of a session may hold.
ExecTypes ==
    /\ job \in Jobs /\ host \in Hosts
    /\ outpipe \in [X!AllStreams -> Nat] /\ open \subseteq X!AllStreams
    /\ skewed \in BOOLEAN /\ unguarded \in BOOLEAN

\* Nothing runs before the spawn.
Unspawned ==
    /\ host.pc = "idle" => guest = "idle"
    /\ guest \in {"idle", "spawn"} =>
           ~X!Alive /\ open = {} /\ ended = {} /\ \A x \in X!AllStreams : outpipe[x] = 0

\* A stream that ended is empty, and nobody holds it.
EndedEmpty == ended \subseteq X!AllStreams /\ \A x \in ended : x \notin open /\ outpipe[x] = 0

\* A session behind its guard has killed the group, and has read all its output unless the
\* host is gone or the stream from it was out of step.
Behind == guest = "exit" \/ (guest = "done" /\ ~unguarded)
Drained == \A x \in X!Streams : x \notin open /\ outpipe[x] = 0
KilledAndRead == Behind => ~X!GroupAlive /\ (skewed \/ ~X!HostOpen \/ Drained)

\* The inductive invariant of a session.
XInv == ExecTypes /\ Unspawned /\ EndedEmpty /\ KilledAndRead

\* Before the host connects there is no job.
LEMMA XInvInit == X!Init => XInv
<1> SUFFICES ASSUME X!Init PROVE XInv
    OBVIOUS
<1>1. job \in Jobs /\ ~X!Alive
    BY Zenon DEF X!Init, Jobs, X!Alive
<1>2. host \in Hosts
    BY DEF X!Init, Hosts
<1>3. /\ outpipe \in [X!AllStreams -> Nat] /\ open \subseteq X!AllStreams
      /\ skewed \in BOOLEAN /\ unguarded \in BOOLEAN
      /\ open = {} /\ ended = {} /\ guest = "idle" /\ \A x \in X!AllStreams : outpipe[x] = 0
    BY Zenon DEF X!Init
<1> QED BY Zenon, <1>1, <1>2, <1>3 DEF XInv, ExecTypes, Unspawned, EndedEmpty, KilledAndRead, Behind

\* The invariant is what the properties say and more.
LEMMA XInvSafe == XInv => X!JobEndsWithSession /\ X!OutputBeforeExit
BY Zenon DEF XInv, KilledAndRead, Behind, Drained, X!JobEndsWithSession, X!OutputBeforeExit, ExecTypes

\* A step of the host alone: what it was told is gone stays gone.
LEMMA HostStep ==
    ASSUME XInv, UNCHANGED <<opt, X!gvars, X!jvars>>, host' \in Hosts, host'.pc # "idle",
           host.pc = "closed" => host'.pc = "closed"
    PROVE  XInv'
<1>1. /\ opt' = opt /\ guest' = guest /\ job' = job /\ outpipe' = outpipe /\ open' = open
      /\ ended' = ended /\ skewed' = skewed /\ unguarded' = unguarded
    BY DEF X!gvars, X!jvars
<1>2. /\ X!Alive' = X!Alive /\ X!GroupAlive' = X!GroupAlive
      /\ Behind' = Behind /\ Drained' = Drained
    BY Zenon, <1>1 DEF X!Alive, X!GroupAlive, Behind, Drained, X!Streams
<1> QED
    BY Zenon, <1>1, <1>2 DEF XInv, ExecTypes, Unspawned, EndedEmpty, KilledAndRead, X!HostOpen

\* A step of the stream alone.
LEMMA StillStep == ASSUME XInv, UNCHANGED <<opt, host, X!gvars, X!jvars>> PROVE XInv'
<1>1. /\ opt' = opt /\ guest' = guest /\ job' = job /\ outpipe' = outpipe /\ open' = open
      /\ ended' = ended /\ skewed' = skewed /\ unguarded' = unguarded /\ host' = host
    BY DEF X!gvars, X!jvars
<1> QED
    BY Zenon, <1>1 DEF XInv, ExecTypes, Unspawned, EndedEmpty, KilledAndRead, X!HostOpen, X!Alive,
                       X!GroupAlive, Behind, Drained, X!Streams

\* A step of the session.
LEMMA SessionStep ==
    ASSUME XInv, UNCHANGED X!hvars, guest # "idle", guest' \notin {"idle", "spawn"},
           job' \in Jobs, outpipe' \in [X!AllStreams -> Nat], open' \subseteq X!AllStreams,
           skewed' \in BOOLEAN, unguarded' \in BOOLEAN, EndedEmpty', KilledAndRead'
    PROVE  XInv'
<1>1. host' = host
    BY DEF X!hvars
<1> QED
    BY Zenon, <1>1 DEF XInv, ExecTypes, Unspawned

\* A step of a session that is still in its loop leaves the job alone.
LEMMA LoopStep ==
    ASSUME XInv, UNCHANGED X!hvars, guest # "idle", guest' \in {"started", "loop", "send", "stdin"},
           job' \in Jobs, outpipe' \in [X!AllStreams -> Nat], open' \subseteq X!AllStreams,
           skewed' \in BOOLEAN, unguarded' = unguarded, EndedEmpty'
    PROVE  XInv'
<1>1. KilledAndRead'
    BY DEF KilledAndRead, Behind
<1>2. unguarded' \in BOOLEAN
    BY DEF XInv, ExecTypes
<1> QED
    BY <1>1, <1>2, SessionStep

\* kill_job leaves no process of the group, and opens nothing.
LEMMA KillEffect ==
    ASSUME XInv, NEW why, X!Kill(why)
    PROVE  /\ job' \in Jobs /\ ~X!GroupAlive' /\ (X!Alive' => X!Alive)
           /\ open' \subseteq open /\ outpipe' = outpipe
<1>1. job \in Jobs
    BY DEF XInv, ExecTypes
<1>2. job' = [child |-> IF job.child = "alive" THEN "killed" ELSE job.child,
              helper |-> IF job.helper = "member" THEN "none" ELSE job.helper]
    BY DEF X!Kill
<1>3. /\ job' \in Jobs /\ job'.child # "alive" /\ job'.helper # "member"
      /\ job'.helper # "none" => job.helper # "none"
    BY <1>1, <1>2 DEF Jobs
<1> QED BY <1>3 DEF X!Kill, X!Alive, X!GroupAlive

\* The guard ends a session that has read everything, or has lost its host or its step.
LEMMA GuardStep ==
    ASSUME XInv, UNCHANGED <<X!hvars, ended, unguarded>>, guest # "idle", NEW why,
           NEW pc \in {"exit", "done"}, X!DropGuard(why, pc), skewed' = skewed,
           skewed \/ ~X!HostOpen \/ ended = X!Streams
    PROVE  XInv'
<1>1. job' \in Jobs /\ ~X!GroupAlive' /\ open' \subseteq open /\ outpipe' = outpipe /\ guest' = pc
    BY KillEffect DEF X!DropGuard
<1>2. X!HostOpen' = X!HostOpen /\ X!Streams' = X!Streams
    BY DEF X!hvars, X!HostOpen, X!Streams
<1>3. EndedEmpty'
    BY <1>1 DEF XInv, EndedEmpty
<1>4. KilledAndRead'
    <2>1. ended = X!Streams => Drained'
        BY <1>1, <1>2 DEF XInv, EndedEmpty, Drained
    <2> QED BY Zenon, <1>1, <1>2, <2>1 DEF KilledAndRead
<1>5. /\ outpipe \in [X!AllStreams -> Nat] /\ skewed \in BOOLEAN /\ unguarded \in BOOLEAN
      /\ open \subseteq X!AllStreams
    BY DEF XInv, ExecTypes
<1> QED
    BY <1>1, <1>3, <1>4, <1>5, SessionStep

-----------------------------------------------------------------------------
\* The fields of a host that moved.
LEMMA HostFields ==
    ASSUME host \in Hosts
    PROVE  /\ \A p \in {"ack", "collect"} :
                 [host EXCEPT !.pc = p] \in Hosts /\ [host EXCEPT !.pc = p].pc = p
           /\ X!Close \in Hosts /\ X!Close.pc = "closed"
           /\ [host EXCEPT !.signaled = TRUE] \in Hosts
           /\ [host EXCEPT !.signaled = TRUE].pc = host.pc
           /\ \A n \in Nat : /\ [host EXCEPT !.kept = n] \in Hosts
                             /\ [host EXCEPT !.kept = n].pc = host.pc
                             /\ [host EXCEPT !.sent = n] \in Hosts
                             /\ [host EXCEPT !.sent = n].pc = host.pc
<1>1. ASSUME NEW p \in {"ack", "collect"}
      PROVE  [host EXCEPT !.pc = p] \in Hosts /\ [host EXCEPT !.pc = p].pc = p
    BY Zenon DEF Hosts
<1>2. X!Close \in Hosts /\ X!Close.pc = "closed"
    BY DEF Hosts, X!Close
<1>3. [host EXCEPT !.signaled = TRUE] \in Hosts /\ [host EXCEPT !.signaled = TRUE].pc = host.pc
    BY Zenon DEF Hosts
<1>4. ASSUME NEW n \in Nat
      PROVE  /\ [host EXCEPT !.kept = n] \in Hosts /\ [host EXCEPT !.kept = n].pc = host.pc
             /\ [host EXCEPT !.sent = n] \in Hosts /\ [host EXCEPT !.sent = n].pc = host.pc
    BY Zenon DEF Hosts
<1> QED BY Zenon, <1>1, <1>2, <1>3, <1>4

\* A session starts with nothing spawned.
LEMMA ConnectInv == ASSUME XInv, X!Connect PROVE XInv'
<1>1. /\ host \in Hosts /\ host.pc = "idle" /\ guest = "idle" /\ guest' = "spawn"
      /\ host' = [host EXCEPT !.pc = "ack"]
    BY Zenon DEF XInv, ExecTypes, Unspawned, X!Connect
<1>2. host' \in Hosts /\ host'.pc = "ack"
    BY Zenon, <1>1, HostFields
<1>3. /\ job' = job /\ outpipe' = outpipe /\ open' = open
      /\ ended' = ended /\ skewed' = skewed /\ unguarded' = unguarded
    BY DEF X!Connect, X!jvars
<1> QED
    BY Zenon, <1>1, <1>2, <1>3
    DEF XInv, ExecTypes, Unspawned, EndedEmpty, KilledAndRead, Behind, X!Alive

\* What the host receives, sends, or gives up.
LEMMA HostInv ==
    ASSUME XInv, X!HostRecv \/ X!Deliver \/ X!SendStdin \/ X!SendSignal \/ X!Deadline \/ X!Vanish
    PROVE  XInv'
<1>1. host \in Hosts /\ host.kept \in Nat /\ host.sent \in Nat
      /\ (host.pc = "idle" => guest = "idle")
    BY DEF XInv, ExecTypes, Unspawned, Hosts
<1>2. CASE X!RecvAck
    <2>1. host' = [host EXCEPT !.pc = "collect"] \/ host' = X!Close
        BY <1>2, Zenon DEF X!RecvAck
    <2>2. host' \in Hosts /\ host'.pc # "idle"
        BY Zenon, <1>1, <2>1, HostFields
    <2> QED BY Zenon, <1>2, <2>2, HostStep DEF X!RecvAck
<1>3. CASE X!RecvOut
    <2>1. host.pc = "collect"
        BY <1>3 DEF X!RecvOut
    <2>2. host.kept + 1 \in Nat
        BY <1>1
    <2>3. \/ host' = X!Close \/ host' = [host EXCEPT !.signaled = TRUE] \/ host' = host
          \/ \E n \in Nat : host' = [host EXCEPT !.kept = n]
        BY <1>1, <1>3, <2>2 DEF X!RecvOut
    <2>4. host' \in Hosts /\ host'.pc # "idle"
        BY Zenon, <1>1, <2>1, <2>3, HostFields
    <2> QED BY Zenon, <1>3, <2>1, <2>4, HostStep DEF X!RecvOut
<1>4. CASE X!Deliver
    <2>1. UNCHANGED <<opt, host, X!gvars, X!jvars>>
        BY <1>4 DEF X!Deliver
    <2> QED BY <2>1, StillStep
<1>5. CASE X!SendStdin
    <2>1. host.pc = "collect" /\ host' = [host EXCEPT !.sent = host.sent + 1]
        BY <1>5 DEF X!SendStdin
    <2>2. host.sent + 1 \in Nat
        BY <1>1
    <2>3. host' \in Hosts /\ host'.pc # "idle"
        BY Zenon, <1>1, <2>1, <2>2, HostFields
    <2> QED BY Zenon, <1>5, <2>1, <2>3, HostStep DEF X!SendStdin
<1>6. CASE X!SendSignal
    <2>1. host.pc = "collect" /\ host' = [host EXCEPT !.signaled = TRUE]
        BY <1>6 DEF X!SendSignal
    <2>2. host' \in Hosts /\ host'.pc # "idle"
        BY Zenon, <1>1, <2>1, HostFields
    <2> QED BY Zenon, <1>6, <2>1, <2>2, HostStep DEF X!SendSignal
<1>7. CASE X!Deadline \/ X!Vanish
    <2>1. host' = X!Close /\ UNCHANGED <<opt, X!gvars, X!jvars>>
        BY <1>7 DEF X!Deadline, X!Vanish
    <2>2. host' \in Hosts /\ host'.pc = "closed"
        BY Zenon, <1>1, <2>1, HostFields
    <2> QED BY Zenon, <2>1, <2>2, HostStep
<1> QED BY <1>2, <1>3, <1>4, <1>5, <1>6, <1>7 DEF X!HostRecv

-----------------------------------------------------------------------------
\* What every step of the session starts from.
LEMMA ExecFacts ==
    ASSUME XInv
    PROVE  /\ job \in Jobs /\ outpipe \in [X!AllStreams -> Nat] /\ open \subseteq X!AllStreams
           /\ skewed \in BOOLEAN /\ unguarded \in BOOLEAN /\ EndedEmpty /\ X!Streams \subseteq X!AllStreams
BY Zenon DEF XInv, ExecTypes, X!Streams, X!AllStreams

\* The fields of a job that changed.
LEMMA JobFields ==
    ASSUME job \in Jobs
    PROVE  /\ \A c \in {"alive", "exited"} :
                 /\ [job EXCEPT !.child = c] \in Jobs /\ [job EXCEPT !.child = c].child = c
                 /\ [job EXCEPT !.child = c].helper = job.helper
           /\ \A h \in {"none", "member", "apart"} :
                 /\ [job EXCEPT !.helper = h] \in Jobs /\ [job EXCEPT !.helper = h].child = job.child
                 /\ [job EXCEPT !.helper = h].helper = h
BY Zenon DEF Jobs

\* The spawn, and the two ways it fails: one before and one after the child runs.
LEMMA SpawnInv ==
    ASSUME XInv, X!Spawned \/ X!SpawnFails \/ X!PtyFails
    PROVE  XInv'
<1>1. /\ guest = "spawn" /\ ~X!Alive /\ open = {} /\ ended = {}
      /\ \A x \in X!AllStreams : outpipe[x] = 0
    BY Zenon DEF XInv, Unspawned, X!Spawned, X!SpawnFails, X!PtyFails
<1>2. CASE X!Spawned
    <2>1. job' \in Jobs
        BY Zenon, <1>2, ExecFacts, JobFields DEF X!Spawned
    <2>2. /\ guest' = "started" /\ open' = X!Streams /\ ended' = {} /\ outpipe' = outpipe
          /\ skewed' = skewed /\ unguarded' = unguarded /\ UNCHANGED X!hvars
        BY Zenon, <1>1, <1>2 DEF X!Spawned
    <2>3. EndedEmpty'
        BY <2>2 DEF EndedEmpty
    <2> QED BY <1>1, <2>1, <2>2, <2>3, ExecFacts, LoopStep
<1>3. CASE X!SpawnFails
    <2>1. /\ guest' = "done" /\ job' = job /\ open' = open /\ ended' = ended /\ outpipe' = outpipe
          /\ skewed' = skewed /\ unguarded' = unguarded /\ UNCHANGED X!hvars
        BY <1>3 DEF X!SpawnFails, X!jvars
    <2>2. EndedEmpty' /\ ~X!GroupAlive' /\ X!Streams' = X!Streams
        BY <1>1, <2>1 DEF EndedEmpty, X!Alive, X!GroupAlive, X!hvars, X!Streams
    <2>3. KilledAndRead'
        BY Zenon, <1>1, <2>1, <2>2, ExecFacts DEF KilledAndRead, Drained
    <2> QED BY <1>1, <2>1, <2>2, <2>3, ExecFacts, SessionStep
<1>4. CASE X!PtyFails
    <2>1. job' \in Jobs
        BY Zenon, <1>4, ExecFacts, JobFields DEF X!PtyFails
    <2>2. /\ guest' = "done" /\ open' = open /\ ended' = ended /\ outpipe' = outpipe
          /\ skewed' = skewed /\ unguarded' = TRUE /\ UNCHANGED X!hvars
        BY <1>4 DEF X!PtyFails
    <2>3. EndedEmpty' /\ KilledAndRead'
        BY <1>1, <2>2 DEF EndedEmpty, KilledAndRead, Behind
    <2> QED BY <1>1, <2>1, <2>2, <2>3, ExecFacts, SessionStep
<1> QED BY <1>2, <1>3, <1>4

\* ExecStarted is sent, and the guard made, or neither.
LEMMA StartedInv == ASSUME XInv, X!Started PROVE XInv'
<1>1. /\ guest = "started" /\ job' = job /\ open' = open /\ ended' = ended /\ outpipe' = outpipe
      /\ skewed' = skewed /\ UNCHANGED X!hvars
      /\ (guest' = "loop" /\ unguarded' = unguarded) \/ (guest' = "done" /\ unguarded' = TRUE)
    BY DEF X!Started, X!jvars
<1>2. EndedEmpty'
    BY <1>1, ExecFacts DEF EndedEmpty
<1>3. CASE guest' = "loop" /\ unguarded' = unguarded
    BY <1>1, <1>2, <1>3, ExecFacts, LoopStep
<1>4. CASE guest' = "done" /\ unguarded' = TRUE
    <2>1. KilledAndRead'
        BY <1>4 DEF KilledAndRead, Behind
    <2> QED BY <1>1, <1>2, <1>4, <2>1, ExecFacts, SessionStep
<1> QED BY Zenon, <1>1, <1>3, <1>4

\* A branch of select! that touches neither the job nor the end of a stream.
LEMMA QuietLoop ==
    ASSUME XInv, UNCHANGED <<X!hvars, job, open, ended, outpipe, unguarded>>, guest # "idle",
           guest' \in {"loop", "send", "stdin"}, skewed' \in BOOLEAN
    PROVE  XInv'
<1>1. EndedEmpty'
    BY ExecFacts DEF EndedEmpty
<1> QED BY <1>1, ExecFacts, LoopStep

\* What arrives from the host.
LEMMA RecvInv ==
    ASSUME XInv, X!RecvPart \/ X!RecvFrame \/ X!RecvSkewed \/ X!RecvEof
    PROVE  XInv'
<1>0. guest = "loop" /\ ended # X!Streams /\ UNCHANGED <<X!hvars, ended, unguarded, skewed>>
    BY DEF X!RecvPart, X!RecvFrame, X!RecvSkewed, X!RecvEof, X!Looping
<1>1. CASE X!RecvPart
    <2>1. UNCHANGED <<guest, job, open, outpipe>>
        BY <1>1 DEF X!RecvPart, X!jvars
    <2> QED BY <1>0, <2>1, ExecFacts, QuietLoop
<1>2. CASE X!RecvFrame
    <2>1. guest' \in {"loop", "stdin"} /\ (X!Kill("signal") \/ UNCHANGED X!jvars)
        BY <1>2 DEF X!RecvFrame
    <2>2. CASE UNCHANGED X!jvars
        BY <1>0, <2>1, <2>2, ExecFacts, QuietLoop DEF X!jvars
    <2>3. CASE X!Kill("signal")
        <3>1. job' \in Jobs /\ open' \subseteq open /\ outpipe' = outpipe
            BY <2>3, KillEffect
        <3>2. EndedEmpty'
            BY <1>0, <3>1, ExecFacts DEF EndedEmpty
        <3> QED BY <1>0, <2>1, <3>1, <3>2, ExecFacts, LoopStep
    <2> QED BY <2>1, <2>2, <2>3
<1>3. CASE X!RecvSkewed
    <2>1. CASE X!DropGuard("disconnect", "exit")
        BY <1>0, <1>3, <2>1, GuardStep DEF X!RecvSkewed
    <2>2. CASE UNCHANGED <<guest, killer, job, inpipe, outpipe, open, cause>>
        BY <1>0, <2>2, ExecFacts, QuietLoop
    <2> QED BY <1>3, <2>1, <2>2 DEF X!RecvSkewed
<1>4. CASE X!RecvEof
    BY <1>0, <1>4, GuardStep DEF X!RecvEof
<1> QED BY <1>1, <1>2, <1>3, <1>4

\* Output and the ends of streams.
LEMMA RelayInv ==
    ASSUME XInv, X!ReadOut \/ X!ReadEof \/ X!SendOut \/ X!WriteStdin \/ X!LoopEnd
    PROVE  XInv'
<1>0. guest \in {"loop", "send", "stdin"} /\ UNCHANGED <<X!hvars, unguarded>>
    BY DEF X!ReadOut, X!ReadEof, X!SendOut, X!WriteStdin, X!LoopEnd, X!Looping
<1>1. CASE X!ReadOut
    <2>1. PICK x \in X!Streams \ ended : outpipe[x] > 0 /\ outpipe' = [outpipe EXCEPT ![x] = @ - 1]
        BY Zenon, <1>1 DEF X!ReadOut
    <2>2. x \in X!AllStreams /\ outpipe[x] - 1 \in Nat
        BY <2>1, ExecFacts
    <2>3. outpipe' \in [X!AllStreams -> Nat] /\ \A y \in ended : outpipe'[y] = outpipe[y]
        BY <2>1, <2>2, ExecFacts
    <2>4. guest' = "send" /\ job' = job /\ open' = open /\ ended' = ended /\ skewed' \in BOOLEAN
        BY Zenon, <1>1 DEF X!ReadOut, X!CancelRecv
    <2>5. EndedEmpty'
        BY <2>3, <2>4, ExecFacts DEF EndedEmpty
    <2> QED BY <1>0, <2>3, <2>4, <2>5, ExecFacts, LoopStep
<1>2. CASE X!ReadEof
    <2>1. PICK x \in X!Streams \ (ended \cup open) : outpipe[x] = 0 /\ ended' = ended \cup {x}
        BY <1>2 DEF X!ReadEof
    <2>2. guest' = "loop" /\ job' = job /\ open' = open /\ outpipe' = outpipe /\ skewed' \in BOOLEAN
        BY Zenon, <1>2 DEF X!ReadEof, X!CancelRecv, X!jvars, X!Looping
    <2>3. EndedEmpty'
        BY <2>1, <2>2, ExecFacts DEF EndedEmpty
    <2> QED BY <1>0, <2>2, <2>3, ExecFacts, LoopStep
<1>3. CASE X!SendOut
    <2>1. UNCHANGED <<ended, skewed>>
        BY <1>3 DEF X!SendOut
    <2>2. CASE guest' = "loop" /\ UNCHANGED X!jvars
        BY <1>0, <2>1, <2>2, ExecFacts, QuietLoop DEF X!jvars
    <2>3. CASE ~X!HostOpen /\ X!DropGuard("guard", "done")
        BY <1>0, <2>1, <2>3, GuardStep
    <2> QED BY <1>3, <2>2, <2>3 DEF X!SendOut
<1>4. CASE X!WriteStdin
    <2>1. guest' = "loop" /\ UNCHANGED <<job, open, ended, outpipe, skewed>>
        BY <1>4 DEF X!WriteStdin
    <2> QED BY <1>0, <2>1, ExecFacts, QuietLoop
<1>5. CASE X!LoopEnd
    <2>1. ended = X!Streams
        BY <1>5 DEF X!LoopEnd, X!Looping
    <2> QED BY <1>0, <1>5, <2>1, GuardStep DEF X!LoopEnd
<1> QED BY SMTT(20), <1>1, <1>2, <1>3, <1>4, <1>5

\* The exit goes out from behind the guard.
LEMMA ReportInv == ASSUME XInv, X!ReportExit PROVE XInv'
<1>1. /\ guest = "exit" /\ guest' = "done" /\ UNCHANGED X!hvars
      /\ job' = job /\ outpipe' = outpipe /\ open' = open /\ ended' = ended
      /\ skewed' = skewed /\ unguarded' = unguarded
    BY DEF X!ReportExit, X!jvars
<1>2. /\ EndedEmpty' /\ X!GroupAlive' = X!GroupAlive /\ X!HostOpen' = X!HostOpen /\ Drained' = Drained
    BY <1>1, ExecFacts DEF EndedEmpty, X!GroupAlive, X!HostOpen, Drained, X!Streams, X!hvars
<1>3. KilledAndRead'
    BY Zenon, <1>1, <1>2 DEF XInv, KilledAndRead, Behind
<1> QED BY <1>1, <1>2, <1>3, ExecFacts, SessionStep

\* A step that neither the host nor the session takes.
LEMMA JobInv ==
    ASSUME XInv, UNCHANGED <<X!hvars, guest, skewed, ended, unguarded>>, job' \in Jobs,
           outpipe' \in [X!AllStreams -> Nat], open' \subseteq open, X!Alive' => X!Alive,
           X!GroupAlive' => X!GroupAlive,
           \A x \in X!AllStreams : outpipe'[x] = outpipe[x] \/ (X!Alive /\ x \in open)
    PROVE  XInv'
<1>1. /\ host' = host /\ X!HostOpen' = X!HostOpen /\ X!Streams' = X!Streams /\ Behind' = Behind
    BY DEF X!hvars, X!HostOpen, X!Streams, Behind
<1>2. EndedEmpty'
    BY ExecFacts DEF EndedEmpty
<1>3. KilledAndRead'
    BY Zenon, <1>1, ExecFacts DEF XInv, KilledAndRead, Drained
<1>4. Unspawned'
    BY Zenon, <1>1, ExecFacts DEF XInv, Unspawned
<1> QED
    BY Zenon, <1>1, <1>2, <1>3, <1>4, ExecFacts DEF XInv, ExecTypes

\* The timeout, and any program the job may be.
LEMMA EnvironmentInv == ASSUME XInv, X!Timeout \/ X!Environment PROVE XInv'
<1>0. UNCHANGED <<X!hvars, guest, skewed, ended, unguarded>>
    BY DEF X!Timeout, X!Environment, X!JobStep, X!gvars
<1>1. CASE X!Timeout
    <2>1. X!Kill("timeout")
        BY <1>1 DEF X!Timeout
    <2>2. /\ job' \in Jobs /\ ~X!GroupAlive' /\ (X!Alive' => X!Alive)
          /\ open' \subseteq open /\ outpipe' = outpipe
        BY <2>1, KillEffect
    <2> QED BY <1>0, <2>2, ExecFacts, JobInv
<1>2. CASE X!ChildFork
    <2>1. /\ job.child = "alive" /\ job' = [job EXCEPT !.helper = "member"]
          /\ outpipe' = outpipe /\ open' = open
        BY <1>2 DEF X!ChildFork
    <2>2. job' \in Jobs /\ X!Alive /\ X!GroupAlive
        BY Zenon, <2>1, ExecFacts, JobFields DEF X!Alive, X!GroupAlive
    <2> QED BY <1>0, <2>1, <2>2, ExecFacts, JobInv
<1>3. CASE X!ChildRead
    <2>1. job' = job /\ outpipe' = outpipe /\ open' = open
        BY <1>3 DEF X!ChildRead
    <2>2. X!Alive' = X!Alive /\ X!GroupAlive' = X!GroupAlive
        BY <2>1 DEF X!Alive, X!GroupAlive
    <2> QED BY <1>0, <2>1, <2>2, ExecFacts, JobInv
<1>4. CASE X!ChildWrite
    <2>1. PICK x \in open : outpipe' = [outpipe EXCEPT ![x] = @ + 1]
        BY Zenon, <1>4 DEF X!ChildWrite
    <2>2. /\ X!Alive /\ job' = job /\ open' = open /\ X!Alive' = X!Alive
          /\ X!GroupAlive' = X!GroupAlive
        BY <1>4 DEF X!ChildWrite, X!Alive, X!GroupAlive
    <2>3. x \in X!AllStreams /\ outpipe[x] + 1 \in Nat
        BY ExecFacts
    <2>4. outpipe' \in [X!AllStreams -> Nat]
          /\ \A y \in X!AllStreams : outpipe'[y] = outpipe[y] \/ y \in open
        BY <2>1, <2>3, ExecFacts
    <2> QED BY <1>0, <2>2, <2>4, ExecFacts, JobInv
<1>5. CASE X!ChildClose
    <2>1. job' = job /\ outpipe' = outpipe /\ open' \subseteq open
        BY <1>5 DEF X!ChildClose
    <2>2. X!Alive' = X!Alive /\ X!GroupAlive' = X!GroupAlive
        BY <2>1 DEF X!Alive, X!GroupAlive
    <2> QED BY <1>0, <2>1, <2>2, ExecFacts, JobInv
<1>6. CASE X!ProcessExit
    <2>1. /\ outpipe' = outpipe /\ open' \subseteq open
          /\ \/ job.child = "alive" /\ job' = [job EXCEPT !.child = "exited"]
             \/ job.helper # "none" /\ job' = [job EXCEPT !.helper = "none"]
        BY <1>6 DEF X!ProcessExit
    <2>2. job' \in Jobs /\ X!Alive /\ (X!GroupAlive' => X!GroupAlive)
        BY Zenon, <2>1, ExecFacts, JobFields DEF X!Alive, X!GroupAlive
    <2> QED BY <1>0, <2>1, <2>2, ExecFacts, JobInv
<1>7. CASE X!HelperLeaves
    <2>1. /\ job.helper = "member" /\ job' = [job EXCEPT !.helper = "apart"]
          /\ outpipe' = outpipe /\ open' = open
        BY <1>7 DEF X!HelperLeaves
    <2>2. job' \in Jobs /\ X!Alive /\ X!GroupAlive
        BY Zenon, <2>1, ExecFacts, JobFields DEF X!Alive, X!GroupAlive
    <2> QED BY <1>0, <2>1, <2>2, ExecFacts, JobInv
<1> QED BY SMTT(20), <1>1, <1>2, <1>3, <1>4, <1>5, <1>6, <1>7 DEF X!Environment, X!JobStep

\* No step of the host, the session, the timer or the job breaks the invariant.
LEMMA XInvNext == ASSUME XInv, [X!Next]_(X!xvars) PROVE XInv'
<1>1. CASE UNCHANGED X!xvars
    <2>1. UNCHANGED <<opt, host, X!gvars, X!jvars>>
        BY <1>1 DEF X!xvars, X!gvars, X!jvars
    <2> QED BY <2>1, StillStep
<1>2. CASE X!GuestStep
    BY <1>2, SpawnInv, StartedInv, RecvInv, RelayInv, ReportInv DEF X!GuestStep
<1> QED BY <1>1, <1>2, ConnectInv, HostInv, EnvironmentInv DEF X!Next

\* The same, along a behaviour.
LEMMA XInvAlways == X!Spec => []XInv
<1>1. XInv /\ [X!Next]_(X!xvars) => XInv'
    BY XInvNext
<1> QED BY <1>1, XInvInit, PTL DEF X!Spec

\* However a session ends (exit, timeout, disconnect, a failed send) no process of the job's
\* group outlives it, if the guard existed: for any pipes and any program (exec/mod.rs,
\* KillerGuard).
THEOREM JobsEnd == X!Spec => []JobEndsWithSession
<1>1. XInv => JobEndsWithSession
    BY XInvSafe DEF JobEndsWithSession
<1> QED BY <1>1, XInvAlways, PTL

\* When Exit is on its way to a host that listens and kept step, nothing the job wrote is
\* left in its pipes, whatever their size (exec/mod.rs, the relay loop).
THEOREM ExitAfterOutput == X!Spec => []OutputBeforeExit
<1>1. XInv => OutputBeforeExit
    BY XInvSafe DEF OutputBeforeExit
<1> QED BY <1>1, XInvAlways, PTL

-----------------------------------------------------------------------------
(* The launch of a shim.                                                   *)

\* What the variables of a launch may hold.
LaunchTypes ==
    /\ lcfg \in L!Config /\ kern \in L!Host
    /\ parent \in {"up", "dead"} /\ lop \in {"none", "create", "start"} /\ lpc \in L!Steps
    /\ held \in BOOLEAN /\ carried \in BOOLEAN /\ required \in BOOLEAN /\ keep \in BOOLEAN
    /\ ghost \in BOOLEAN /\ strayed \in BOOLEAN

\* Which operation a launch belongs to, and what it may have done so far.
Launched ==
    /\ lop = "none" => lpc = "idle" /\ ~L!Alive /\ ~required
    /\ lop = "start" => row # "none"
    /\ lop = "create" /\ lpc \notin {"idle", "ready"} => ~required
    /\ required => carried
    /\ parent = "dead" => lpc = "idle" /\ ~held /\ ~keep
    /\ ghost => strayed

\* A create undoes what it has done before its row exists.
Undone ==
    parent = "up" /\ row = "none" /\ ~strayed =>
        /\ lpc \in {"idle", "prepare", "overlay"} => arts \cap {"overlay", "json", "sock", "net"} = {}
        /\ lpc \in {"idle", "prepare", "overlay", "secrets", "boot"} => ~held
        /\ lpc # "commit" => ~L!Alive /\ ~keep
        /\ lpc # "ready"

\* What a shim was forked with.
Forked ==
    /\ kern.os = "linux" =>
         /\ lcfg.jailer => "bwrap" \in layers
         /\ lcfg.landlock # "off" =>
              "landlock" \in layers \/ (lcfg.landlock = "degradable" /\ ~kern.landlock)
    /\ kern.os = "macos" /\ lcfg.jailer /\ kern.wrapper => "seatbelt" \in layers
    /\ ~lcfg.net => "nic" \notin layers

\* Its own gvproxy; its network device, or a vsock without one; its filter.
Wired == lcfg.net => "gvproxy" \in layers
Devised == IF lcfg.net THEN "nic" \in layers ELSE "plainvsock" \in layers
Sealed == kern.os = "linux" => "seccomp" \in layers

\* What it has done to itself since.
Confined ==
    /\ L!Alive => Forked
    /\ shim \in {"net", "machine", "device", "prepared", "sealed", "vm"} => Wired
    /\ shim \in {"device", "prepared", "sealed", "vm"} => Devised
    /\ shim \in {"sealed", "vm"} => Sealed

\* The inductive invariant of a launch.
LInv == LaunchTypes /\ Launched /\ Undone /\ Confined

\* The invariant is what the properties say and more.
LEMMA LInvSafe == LInv => L!FailedCreateLeavesNothing /\ L!EnteredAsConfigured
<1> SUFFICES ASSUME LInv PROVE L!FailedCreateLeavesNothing /\ L!EnteredAsConfigured
    OBVIOUS
<1>1. L!FailedCreateLeavesNothing
    BY DEF LInv, Undone, L!FailedCreateLeavesNothing
<1>2. L!EnteredAsConfigured
    <2> SUFFICES ASSUME shim = "vm" PROVE L!EnteredAsConfigured
        BY DEF L!EnteredAsConfigured
    <2>1. Forked /\ Wired /\ Devised /\ Sealed /\ (required => carried)
        BY DEF LInv, Launched, Confined, L!Alive
    <2> QED BY <2>1 DEF Forked, Wired, Devised, Sealed, L!EnteredAsConfigured
<1> QED BY <1>1, <1>2

\* No VM, no shim.
LEMMA LInvInit == L!Init => LInv
<1> SUFFICES ASSUME L!Init PROVE LInv
    OBVIOUS
<1>1. lcfg \in L!Config /\ kern \in L!Host
    BY Zenon DEF L!Init, L!NoConfig, L!Config, L!Host
<1>2. LaunchTypes
    BY Zenon, <1>1 DEF L!Init, LaunchTypes, L!Steps
<1>3. Launched /\ Undone
    BY Zenon DEF L!Init, Launched, Undone, L!Alive
<1>4. Confined
    BY DEF L!Init, Confined, L!Alive
<1> QED BY Zenon, <1>2, <1>3, <1>4 DEF LInv

\* A step that forks no shim and lets none go on: it stays as confined as it was.
LEMMA ConfinedStays ==
    ASSUME LInv, UNCHANGED <<lcfg, kern, layers>>, shim' \in {shim, "dead"}
    PROVE  Confined'
BY Zenon DEF LInv, Confined, L!Alive, Forked, Wired, Devised, Sealed

\* A kill reaches the shim, and a ghost it makes is known to be one.
LEMMA SigKillEffect ==
    ASSUME LInv, L!SigKill
    PROVE  /\ shim' \in {shim, "dead"} /\ layers' = layers /\ ~L!Alive'
           /\ ghost' \in BOOLEAN /\ strayed' \in BOOLEAN /\ (ghost' => strayed')
           /\ strayed => strayed'
BY Zenon DEF LInv, LaunchTypes, L!SigKill, L!Alive

\* The undo of a create that failed leaves nothing.
LEMMA AbortInv ==
    ASSUME LInv, L!Abort, UNCHANGED L!fixed, lop = "create"
    PROVE  LInv'
<1>1. /\ lcfg' = lcfg /\ kern' = kern /\ parent' = parent /\ lop' = lop
      /\ arts' = arts \ {"sock", "json", "net", "overlay"}
      /\ held' = FALSE /\ row' = "none" /\ keep' = FALSE /\ lpc' = "idle"
      /\ carried' = carried /\ required' = required /\ L!SigKill
    BY DEF L!Abort, L!CleanUnready, L!fixed
<1>2. LaunchTypes'
    BY Zenon, <1>1, SigKillEffect DEF LInv, LaunchTypes, L!Steps
<1>3. Launched'
    BY Zenon, <1>1, SigKillEffect DEF LInv, Launched
<1>4. arts' \cap {"overlay", "json", "sock", "net"} = {}
    BY <1>1
<1>5. Undone'
    BY Zenon, <1>1, <1>4, SigKillEffect DEF Undone
<1>6. Confined'
    BY <1>1, SigKillEffect, ConfinedStays
<1> QED BY Zenon, <1>2, <1>3, <1>5, <1>6 DEF LInv

\* A step of a launch that fails: a create whose guard is armed undoes what it did, a
\* start and an earlier create leave what was there.
LEMMA FailInv ==
    ASSUME LInv, NEW left, L!Fail(left), UNCHANGED L!fixed, parent = "up", lpc # "idle",
           lpc \in {"prepare", "overlay"} => left \subseteq arts \cup {"tmp"}
    PROVE  LInv'
<1>1. CASE lop = "create" /\ lpc \notin {"prepare", "overlay"}
    BY <1>1, AbortInv DEF L!Fail
<1>2. CASE ~(lop = "create" /\ lpc \notin {"prepare", "overlay"})
    <2>1. /\ lcfg' = lcfg /\ kern' = kern /\ parent' = parent /\ lop' = lop
          /\ arts' = left /\ lpc' = "idle" /\ keep' = FALSE /\ row' = row
          /\ held' = held /\ carried' = carried /\ required' = required
          /\ shim' = shim /\ layers' = layers /\ ghost' = ghost /\ strayed' = strayed
        BY <1>2 DEF L!Fail, L!fixed, L!secretvars, L!shimvars
    <2>2. LaunchTypes'
        BY Zenon, <2>1 DEF LInv, LaunchTypes, L!Steps
    <2>3. Launched'
        BY Zenon, <2>1 DEF LInv, Launched, L!Alive
    <2>4. Undone'
        <3>1. CASE row = "none"
            <4>1. lpc \in {"prepare", "overlay"}
                BY Zenon, <1>2, <3>1 DEF LInv, LaunchTypes, Launched
            <4>2. arts \cap {"overlay", "json", "sock", "net"} = {} =>
                      arts' \cap {"overlay", "json", "sock", "net"} = {}
                BY <2>1, <4>1
            <4> QED BY Zenon, <2>1, <4>1, <4>2 DEF LInv, Undone, L!Alive
        <3> QED BY Zenon, <2>1, <3>1 DEF Undone
    <2>5. Confined'
        BY <2>1, ConfinedStays
    <2> QED BY Zenon, <2>2, <2>3, <2>4, <2>5 DEF LInv
<1> QED BY <1>1, <1>2

\* A step of a launch that goes on.
LEMMA ProceedInv ==
    ASSUME LInv, NEW to \in L!Steps \ {"idle", "commit", "ready"}, L!Proceed(to), parent = "up",
           lpc \notin {"idle", "commit", "ready"}, keep' = keep, held' \in BOOLEAN,
           carried' \in BOOLEAN, required' = required, required => carried',
           to # "prepare", to = "overlay" => arts' = arts /\ lpc = "prepare",
           to \in {"overlay", "secrets", "boot"} =>
               /\ lpc \in {"prepare", "overlay", "secrets"}
               /\ row = "none" => held' = held
    PROVE  LInv'
<1>1. /\ lcfg' = lcfg /\ kern' = kern /\ parent' = parent /\ lop' = lop /\ lpc' = to /\ row' = row
      /\ shim' = shim /\ layers' = layers /\ ghost' = ghost /\ strayed' = strayed
    BY DEF L!Proceed, L!fixed, L!shimvars
<1>2. LaunchTypes'
    BY Zenon, <1>1 DEF LInv, LaunchTypes
<1>3. Launched'
    BY Zenon, <1>1 DEF LInv, Launched, L!Alive
<1>4. Undone'
    <2>1. L!Alive' = L!Alive
        BY <1>1 DEF L!Alive
    <2> SUFFICES ASSUME row = "none", ~strayed PROVE Undone'
        BY Zenon, <1>1 DEF Undone
    <2>2. ~L!Alive /\ ~keep
        BY Zenon DEF LInv, Undone
    <2>3. lpc \in {"prepare", "overlay", "secrets"} => ~held
        BY Zenon DEF LInv, Undone
    <2>4. lpc = "prepare" => arts \cap {"overlay", "json", "sock", "net"} = {}
        BY Zenon DEF LInv, Undone
    <2> QED BY <1>1, <2>1, <2>2, <2>3, <2>4 DEF Undone
<1>5. Confined'
    BY <1>1, ConfinedStays
<1> QED BY Zenon, <1>2, <1>3, <1>4, <1>5 DEF LInv

\* The requests: a create comes once and first, a start finds a stopped row.
LEMMA RequestInv == ASSUME LInv, L!RequestCreate \/ L!CreateRefused \/ L!RequestStart PROVE LInv'
<1>1. /\ parent' = parent /\ arts' = arts /\ row' = row /\ keep' = keep /\ held' = held
      /\ carried' = carried /\ required' = required /\ shim' = shim /\ layers' = layers
      /\ ghost' = ghost /\ strayed' = strayed /\ parent = "up" /\ lpc = "idle"
    BY DEF L!RequestCreate, L!CreateRefused, L!RequestStart, L!secretvars, L!shimvars
<1>2. \/ lop = "none" /\ lop' = "create" /\ lpc' = "prepare" /\ lcfg' \in L!Config /\ kern' \in L!Host
      \/ lop = "none" /\ lop' = "create" /\ lpc' = "idle" /\ lcfg' = lcfg /\ kern' = kern
      \/ row = "Stopped" /\ lop' = "start" /\ lpc' = "prepare" /\ lcfg' = lcfg /\ kern' = kern
    BY Zenon, <1>1 DEF L!RequestCreate, L!CreateRefused, L!RequestStart
<1>3. LaunchTypes'
    BY Zenon, <1>1, <1>2 DEF LInv, LaunchTypes, L!Steps
<1>4. Launched'
    BY <1>1, <1>2 DEF LInv, Launched, LaunchTypes, L!Alive
<1>5. Undone'
    BY <1>1, <1>2 DEF LInv, Undone, LaunchTypes, L!Alive
<1>6. Confined'
    <2>1. CASE lop = "none"
        BY <1>1, <2>1 DEF LInv, Launched, Confined, L!Alive
    <2>2. CASE lcfg' = lcfg /\ kern' = kern
        BY <1>1, <2>2, ConfinedStays
    <2> QED BY <1>2, <2>1, <2>2
<1> QED BY Zenon, <1>3, <1>4, <1>5, <1>6 DEF LInv

\* The steps up to the fork.
LEMMA PreparingInv ==
    ASSUME LInv, \/ L!Prepare \/ L!Overlay \/ L!Secrets \/ L!SecretsFail \/ L!Boot \/ L!BootFails
                 \/ L!WriteJson \/ L!JsonFails \/ L!Files \/ L!FilesFail \/ L!ForkFails
    PROVE  LInv'
<1> USE DEF L!Steps
<1>0. /\ lop \in {"none", "create", "start"} /\ held \in BOOLEAN /\ carried \in BOOLEAN
      /\ lop = "none" => lpc = "idle"
      /\ lop = "start" => row # "none"
      /\ lop = "create" /\ lpc \notin {"idle", "ready"} => ~required
      /\ required => carried
    BY DEF LInv, LaunchTypes, Launched
<1>1. CASE L!Prepare
    <2>1. CASE L!Fail(arts) /\ UNCHANGED L!fixed
        BY SMTT(20), <1>1, <2>1, FailInv DEF L!Prepare
    <2>2. CASE L!Proceed(IF lop = "create" THEN "overlay" ELSE "secrets") /\ UNCHANGED <<arts, L!secretvars, keep>>
        BY SMTT(20), <1>0, <1>1, <2>2, ProceedInv DEF L!Prepare, L!secretvars
    <2> QED BY <1>1, <2>1, <2>2 DEF L!Prepare
<1>2. CASE L!Overlay
    <2>1. ASSUME NEW left \in {arts, arts \cup {"tmp"}}, L!Fail(left), UNCHANGED L!fixed PROVE LInv'
        BY SMTT(20), <1>2, <2>1, FailInv DEF L!Overlay
    <2>2. CASE L!Proceed("secrets") /\ UNCHANGED <<L!secretvars, keep>>
        BY SMTT(20), <1>0, <1>2, <2>2, ProceedInv DEF L!Overlay, L!secretvars
    <2> QED BY SMTT(20), <1>2, <2>1, <2>2 DEF L!Overlay
<1>3. CASE L!Secrets
    <2>1. PICK given \in BOOLEAN :
              L!SecretsFor(given) /\ L!Proceed("boot") /\ UNCHANGED <<arts, keep>>
        <3>1. lcfg.secrets \in BOOLEAN
            BY DEF LInv, LaunchTypes, L!Config
        <3> QED BY Zenon, <1>3, <3>1 DEF L!Secrets
    <2>2. /\ carried' = (given \/ (lop = "start" /\ held))
          /\ held' = (held \/ (lop = "start" /\ given)) /\ required' = required
          /\ lop = "start" /\ ~given /\ required => held
        BY Zenon, <2>1 DEF L!SecretsFor, L!Carry
    <2>3. carried' \in BOOLEAN /\ held' \in BOOLEAN
        BY Zenon, <2>2
    <2>4. (required => carried') /\ (row = "none" => held' = held)
        BY SMTT(20), <1>0, <1>3, <2>2 DEF L!Secrets
    <2> QED BY <1>3, <2>1, <2>2, <2>3, <2>4, ProceedInv DEF L!Secrets
<1>4. CASE L!Boot
    <2>1. held' \in BOOLEAN
        BY Zenon, <1>4 DEF L!Boot
    <2> QED BY <1>0, <1>4, <2>1, ProceedInv DEF L!Boot
<1>5. CASE L!WriteJson
    BY SMTT(20), <1>0, <1>5, ProceedInv DEF L!WriteJson, L!secretvars
<1>6. CASE L!Files
    BY SMTT(20), <1>0, <1>6, ProceedInv DEF L!Files, L!secretvars
<1>7. CASE L!SecretsFail \/ L!BootFails \/ L!JsonFails \/ L!FilesFail \/ L!ForkFails
    <2>1. PICK left : L!Fail(left) /\ UNCHANGED L!fixed
        BY Zenon, <1>7 DEF L!SecretsFail, L!BootFails, L!JsonFails, L!FilesFail, L!ForkFails
    <2>2. parent = "up" /\ lpc \notin {"idle", "prepare", "overlay"}
        BY <1>7 DEF L!SecretsFail, L!BootFails, L!JsonFails, L!FilesFail, L!ForkFails
    <2> QED BY <2>1, <2>2, FailInv
<1> QED BY SMTT(20), <1>1, <1>2, <1>3, <1>4, <1>5, <1>6, <1>7

\* The jail: what a fork confines is what the configuration asks of this host.
LEMMA ConfinementForks ==
    ASSUME LInv, L!LandlockResolved, shim' = "main", UNCHANGED <<lcfg, kern>>,
           L!Confinement \subseteq layers', "nic" \notin layers'
    PROVE  Confined'
<1>1. Forked'
    <2>1. /\ lcfg.landlock \in {"off", "required", "degradable"} /\ kern.os \in {"linux", "macos"}
          /\ lcfg' = lcfg /\ kern' = kern
        BY DEF LInv, LaunchTypes, L!Config, L!Host
    <2>2. /\ lcfg.jailer /\ kern.os = "linux" => "bwrap" \in layers'
          /\ lcfg.jailer /\ kern.os = "macos" /\ kern.wrapper => "seatbelt" \in layers'
          /\ L!Enforceable => "landlock" \in layers'
        BY DEF L!Confinement, L!Jailed, L!Seatbelted, L!Landlocked
    <2>3. kern.os = "linux" /\ lcfg.landlock # "off" =>
              L!Enforceable \/ (lcfg.landlock = "degradable" /\ ~kern.landlock)
        BY <2>1 DEF L!Enforceable, L!LandlockResolved
    <2> QED BY <2>1, <2>2, <2>3 DEF Forked
<1> QED BY <1>1 DEF Confined, L!Alive

\* The fork gives the shim its confinement.
LEMMA ForkInv == ASSUME LInv, L!Fork PROVE LInv'
<1>1. /\ lcfg' = lcfg /\ kern' = kern /\ parent' = parent /\ lop' = lop /\ lpc = "fork"
      /\ lpc' = "commit" /\ arts' = arts /\ row' = row /\ held' = held /\ carried' = carried
      /\ required' = required /\ shim' = "main" /\ parent = "up" /\ L!LandlockResolved
      /\ layers' = L!Confinement \cup L!DiesWithParent
    BY DEF L!Fork, L!fixed, L!secretvars
<1>2. /\ ghost' \in BOOLEAN /\ strayed' \in BOOLEAN /\ keep' \in BOOLEAN
      /\ ghost' => strayed'
    <2>1. ghost' = (ghost \/ L!Alive) /\ strayed' = (strayed \/ ghost') /\ keep' = ~lcfg.detach
        BY DEF L!Fork, L!Watches
    <2> QED BY Zenon, <2>1
<1>3. LaunchTypes'
    BY Zenon, <1>1, <1>2 DEF LInv, LaunchTypes, L!Steps
<1>4. Launched'
    BY <1>1, <1>2 DEF LInv, LaunchTypes, Launched
<1>5. Undone'
    BY <1>1 DEF Undone
<1>6. Confined'
    <2>1. "nic" \notin layers'
        BY <1>1 DEF L!Confinement, L!Jailed, L!Seatbelted, L!Landlocked, L!Watched, L!DiesWithParent
    <2> QED BY <1>1, <2>1, ConfinementForks
<1> QED BY Zenon, <1>3, <1>4, <1>5, <1>6 DEF LInv

\* A step that ends with a row, or with the shim gone.
LEMMA RowInv ==
    ASSUME LInv, UNCHANGED <<lcfg, kern, lop, layers>>, parent' = "up", lpc' \in L!Steps,
           lop = "none" => lpc' = "idle",
           shim' \in {shim, "dead"}, held' \in BOOLEAN, carried' = carried, keep' \in BOOLEAN,
           required' \in BOOLEAN, required' => carried,
           lop = "create" /\ lpc' \notin {"idle", "ready"} => ~required',
           lop = "none" => ~required',
           ghost' \in BOOLEAN, strayed' \in BOOLEAN, ghost' => strayed', row' # "none"
    PROVE  LInv'
<1>1. lcfg' = lcfg /\ kern' = kern /\ lop' = lop /\ layers' = layers
    OBVIOUS
<1>2. LaunchTypes'
    BY Zenon, <1>1 DEF LInv, LaunchTypes
<1>3. Launched'
    BY Zenon, <1>1 DEF LInv, Launched, L!Alive
<1>4. Undone'
    BY Zenon DEF Undone
<1>5. Confined'
    BY SMTT(20), <1>1, ConfinedStays
<1> QED BY Zenon, <1>2, <1>3, <1>4, <1>5 DEF LInv

\* What a launch and the embedder do once a shim runs.
LEMMA CommitInv ==
    ASSUME LInv, L!Commit \/ L!CommitFails \/ L!Ready \/ L!ReadyFails \/ L!StopVm
    PROVE  LInv'
<1> USE DEF L!Steps
<1>0. /\ held \in BOOLEAN /\ carried \in BOOLEAN /\ required \in BOOLEAN /\ keep \in BOOLEAN
      /\ ghost \in BOOLEAN /\ strayed \in BOOLEAN /\ (ghost => strayed) /\ (required => carried)
      /\ (lop = "none" => lpc = "idle" /\ ~required) /\ (lop = "start" => row # "none")
      /\ lop = "create" /\ lpc \notin {"idle", "ready"} => ~required
    BY SMTT(20) DEF LInv, LaunchTypes, Launched
<1>1. CASE L!Commit
    <2>1. required' \in BOOLEAN /\ (required' => carried)
        BY Zenon, <1>0, <1>1 DEF L!Commit
    <2> QED BY <1>0, <1>1, <2>1, RowInv DEF L!Commit, L!fixed, L!shimvars
<1>2. CASE lop = "create" /\ L!Abort /\ UNCHANGED L!fixed
    BY SMTT(20), <1>2, AbortInv
<1>3. ASSUME lop = "start", L!SigKill, row' \in {"Stopped", "Running"}, keep' \in BOOLEAN,
             lpc' = "idle", UNCHANGED L!secretvars, UNCHANGED L!fixed, parent = "up"
      PROVE  LInv'
    BY <1>0, <1>3, SigKillEffect, RowInv DEF L!fixed, L!secretvars
<1>4. CASE L!Ready
    <2>1. lpc = "ready" /\ UNCHANGED <<lcfg, kern, parent, lop, row, held, carried, required, keep,
                                       shim, layers, ghost, strayed>> /\ parent = "up" /\ lpc' = "idle"
        BY <1>4 DEF L!Ready, L!fixed, L!secretvars, L!shimvars
    <2>2. CASE row = "none"
        <3>1. strayed
            BY <2>1, <2>2 DEF LInv, Undone
        <3>2. LaunchTypes'
            BY Zenon, <2>1 DEF LInv, LaunchTypes
        <3>3. Launched'
            BY Zenon, <2>1 DEF LInv, Launched, L!Alive
        <3>4. Undone'
            BY Zenon, <2>1, <3>1 DEF Undone
        <3>5. Confined'
            BY SMTT(20), <2>1, ConfinedStays
        <3> QED BY Zenon, <3>2, <3>3, <3>4, <3>5 DEF LInv
    <2>3. CASE row # "none"
        BY <1>0, <2>1, <2>3, RowInv
    <2> QED BY SMTT(20), <2>2, <2>3
<1>5. CASE L!StopVm
    <2>1. CASE L!SigKill
        BY SMTT(20), <1>0, <1>5, <2>1, SigKillEffect, RowInv DEF L!StopVm, L!fixed, L!secretvars
    <2>2. CASE shim' = (IF L!Alive THEN "dead" ELSE shim) /\ UNCHANGED <<layers, ghost, strayed>>
        BY <1>0, <1>5, <2>2, RowInv DEF L!StopVm, L!fixed, L!secretvars
    <2> QED BY Zenon, <1>5, <2>1, <2>2 DEF L!StopVm
<1>6. CASE L!CommitFails
    BY Zenon, <1>2, <1>3, <1>6 DEF L!CommitFails
<1>7. CASE L!ReadyFails
    BY SMTT(20), <1>0, <1>2, <1>3, <1>7 DEF L!ReadyFails
<1> QED BY <1>1, <1>4, <1>5, <1>6, <1>7

\* The handle goes, the parent dies, the runtime is opened again.
LEMMA ParentInv == ASSUME LInv, L!DropHandle \/ L!Crash \/ L!Reopen PROVE LInv'
<1>0. /\ held \in BOOLEAN /\ carried \in BOOLEAN /\ required \in BOOLEAN /\ keep \in BOOLEAN
      /\ ghost \in BOOLEAN /\ strayed \in BOOLEAN /\ (ghost => strayed) /\ (required => carried)
    BY DEF LInv, LaunchTypes, Launched
<1>1. CASE L!DropHandle
    <2>1. /\ lcfg' = lcfg /\ kern' = kern /\ parent' = parent /\ lop' = lop /\ lpc' = lpc
          /\ arts' = arts /\ row' = row /\ held' = held /\ carried' = carried
          /\ required' = required /\ keep' = FALSE /\ shim' = shim /\ layers' = layers
          /\ ghost' = ghost /\ strayed' = strayed
        BY <1>1 DEF L!DropHandle, L!fixed, L!secretvars, L!shimvars
    <2>2. LaunchTypes'
        BY Zenon, <2>1 DEF LInv, LaunchTypes
    <2>3. Launched' /\ Undone'
        BY Zenon, <2>1 DEF LInv, Launched, Undone, L!Alive
    <2>4. Confined'
        BY <2>1, ConfinedStays
    <2> QED BY Zenon, <2>2, <2>3, <2>4 DEF LInv
<1>2. CASE L!Crash
    <2>1. /\ lcfg' = lcfg /\ kern' = kern /\ parent' = "dead" /\ lop' = lop /\ lpc' = "idle"
          /\ row' = row /\ held' = FALSE /\ carried' = carried /\ required' = required
          /\ keep' = FALSE
        BY <1>2 DEF L!Crash
    <2>2. /\ ghost' \in BOOLEAN /\ strayed' \in BOOLEAN /\ (ghost' => strayed')
          /\ Confined' /\ (lop = "none" => ~L!Alive')
        <3>0. lop = "none" => lpc = "idle" /\ ~L!Alive
            BY DEF LInv, Launched
        <3>1. CASE L!SigKill
            BY <2>1, <3>1, SigKillEffect, ConfinedStays
        <3>2. CASE strayed' = (strayed \/ row # "Running") /\ UNCHANGED L!shimvars
            <4>1. shim' = shim /\ layers' = layers /\ ghost' = ghost
                BY <3>2 DEF L!shimvars
            <4>2. Confined' /\ L!Alive' = L!Alive
                BY <2>1, <4>1, ConfinedStays DEF L!Alive
            <4>3. strayed' \in BOOLEAN /\ (strayed => strayed')
                BY Zenon, <3>2
            <4> QED BY Zenon, <1>0, <3>0, <4>1, <4>2, <4>3
        <3>3. CASE /\ lpc = "fork" /\ L!LandlockResolved
                   /\ shim' = "main" /\ layers' = L!Confinement
                   /\ ghost' = (ghost \/ L!Alive) /\ strayed' = TRUE
            <4>1. "nic" \notin layers'
                BY <3>3 DEF L!Confinement, L!Jailed, L!Seatbelted, L!Landlocked, L!Watched
            <4>2. Confined'
                BY <2>1, <3>3, <4>1, ConfinementForks
            <4>3. ghost' \in BOOLEAN /\ strayed' \in BOOLEAN /\ (ghost' => strayed')
                BY Zenon, <3>3
            <4> QED BY <3>0, <3>3, <4>2, <4>3
        <3> QED BY Zenon, <1>2, <3>1, <3>2, <3>3 DEF L!Crash
    <2>3. LaunchTypes'
        BY Zenon, <2>1, <2>2 DEF LInv, LaunchTypes, L!Steps
    <2>4. Launched' /\ Undone'
        BY SMTT(20), <1>0, <2>1, <2>2 DEF LInv, Launched, Undone
    <2> QED BY Zenon, <2>2, <2>3, <2>4 DEF LInv
<1>3. CASE L!Reopen
    <2>1. /\ parent = "dead" /\ parent' = "up" /\ lcfg' = lcfg /\ kern' = kern /\ lop' = lop
          /\ lpc' = lpc /\ held' = held /\ carried' = carried /\ required' = required
          /\ keep' = keep /\ shim' = shim /\ layers' = layers /\ ghost' = ghost
        BY SMTT(20), <1>3 DEF L!Reopen, L!secretvars, L!shimvars
    <2>2. /\ row' = "none" <=> row = "none"
          /\ row = "none" => arts' = arts \cap {"overlay", "tmp"}
          /\ strayed' = (strayed \/ (row = "none" /\ (L!Alive \/ arts # {})))
        BY <1>3 DEF L!Reopen, L!CleanAll
    <2>3. strayed' \in BOOLEAN /\ (strayed => strayed')
          /\ (row = "none" /\ ~strayed' => ~L!Alive /\ arts = {})
        BY Zenon, <2>2
    <2>4. LaunchTypes'
        BY Zenon, <2>1, <2>3 DEF LInv, LaunchTypes
    <2>5. Launched'
        BY Zenon, <2>1, <2>2, <2>3 DEF LInv, Launched, L!Alive
    <2>6. Undone'
        <3>1. lpc' = "idle" /\ ~held' /\ ~keep' /\ L!Alive' = L!Alive
            BY <2>1 DEF LInv, Launched, L!Alive
        <3>2. row = "none" /\ ~strayed' => arts' = {}
            BY <2>2, <2>3
        <3> QED BY SMTT(20), <2>2, <2>3, <3>1, <3>2 DEF Undone
    <2>7. Confined'
        BY <2>1, ConfinedStays
    <2> QED BY Zenon, <2>4, <2>5, <2>6, <2>7 DEF LInv
<1> QED BY <1>1, <1>2, <1>3

\* A step of the shim or of a ghost: the parent has nothing running before the fork.
LEMMA ProcessInv ==
    ASSUME LInv, UNCHANGED L!Elsewhere, L!Alive \/ ghost, L!Alive' => L!Alive, ghost' \in BOOLEAN,
           ghost' => ghost, Confined'
    PROVE  LInv'
<1>1. /\ lcfg' = lcfg /\ kern' = kern /\ parent' = parent /\ lop' = lop /\ lpc' = lpc
      /\ row' = row /\ held' = held /\ carried' = carried /\ required' = required
      /\ keep' = keep /\ strayed' = strayed
    BY DEF L!Elsewhere, L!secretvars
<1>2. LaunchTypes'
    BY Zenon, <1>1 DEF LInv, LaunchTypes
<1>3. Launched'
    BY Zenon, <1>1 DEF LInv, Launched
<1>4. ~strayed => ~ghost
    BY SMTT(20) DEF LInv, Launched
<1>5. Undone'
    BY SMTT(20), <1>1, <1>4 DEF LInv, Undone
<1> QED BY Zenon, <1>2, <1>3, <1>5 DEF LInv

\* The shim goes on, with one more layer at most.
LEMMA AdvanceInv ==
    ASSUME LInv, UNCHANGED L!Elsewhere, L!Alive, NEW to \in L!Progress \ {"none", "dead"}, L!Advance(to),
           layers \subseteq layers', lcfg.net \/ ("nic" \in layers' => "nic" \in layers),
           Confined /\ to \in {"net", "machine", "device", "prepared", "sealed", "vm"} => Wired',
           Confined /\ to \in {"device", "prepared", "sealed", "vm"} => Devised',
           Confined /\ to \in {"sealed", "vm"} => Sealed'
    PROVE  LInv'
<1>1. lcfg' = lcfg /\ kern' = kern /\ shim' = to /\ ghost' = ghost
    BY SMTT(20) DEF L!Elsewhere, L!Advance
<1>2. Confined /\ Forked
    BY SMTT(20) DEF LInv, Confined
<1>3. Forked'
    BY SMTT(20), <1>1, <1>2 DEF Forked
<1>4. Confined'
    BY SMTT(20), <1>1, <1>2, <1>3 DEF Confined, L!Alive
<1>5. ghost \in BOOLEAN
    BY DEF LInv, LaunchTypes
<1> QED BY SMTT(20), <1>1, <1>4, <1>5, ProcessInv

\* The shim, from its main to the VM, and all the ways it ends.
LEMMA ShimInv == ASSUME LInv, L!ShimStep \/ L!ShimEnds \/ L!Watchdog \/ L!GhostStep PROVE LInv'
<1> USE DEF L!Progress
<1>0. ghost \in BOOLEAN /\ Confined
    BY DEF LInv, LaunchTypes
<1>1. ASSUME L!Alive, UNCHANGED L!Elsewhere, shim' = "dead", ghost' = ghost PROVE LInv'
    <2>1. Confined' /\ ~L!Alive'
        BY <1>1 DEF Confined, L!Alive
    <2> QED BY <1>0, <1>1, <2>1, ProcessInv
<1>2. CASE L!ShimEnds \/ L!Watchdog
    BY <1>1, <1>2 DEF L!ShimEnds, L!Watchdog, L!Advance
<1>3. ASSUME L!ShimFails, L!Alive, UNCHANGED L!Elsewhere PROVE LInv'
    BY <1>1, <1>3 DEF L!ShimFails, L!Advance
<1>4. CASE L!GhostStep
    <2>1. /\ ghost /\ ghost' \in BOOLEAN /\ shim' = shim /\ layers' = layers /\ UNCHANGED L!Elsewhere
        BY Zenon, <1>0, <1>4 DEF L!GhostStep
    <2>2. Confined' /\ L!Alive' = L!Alive
        BY <2>1, ConfinedStays DEF L!Alive, L!Elsewhere
    <2> QED BY Zenon, <2>1, <2>2, ProcessInv
<1>5. CASE L!ReadJson
    <2>1. UNCHANGED L!Elsewhere /\ L!Alive
        BY <1>5 DEF L!ReadJson, L!Alive
    <2>2. CASE L!Advance("run") /\ UNCHANGED layers
        BY SMTT(20), <2>1, <2>2, AdvanceInv
    <2> QED BY <1>3, <1>5, <2>1, <2>2 DEF L!ReadJson
<1>6. CASE L!StartGvproxy
    <2>1. UNCHANGED L!Elsewhere /\ L!Alive /\ lcfg' = lcfg
        BY SMTT(20), <1>6 DEF L!StartGvproxy, L!Alive, L!Elsewhere
    <2>2. CASE /\ L!Advance("net")
               /\ layers' = IF lcfg.net THEN layers \cup {"gvproxy"} ELSE layers
        <3>1. Wired'
            BY <2>1, <2>2 DEF Wired
        <3> QED BY <2>1, <2>2, <3>1, AdvanceInv
    <2> QED BY SMTT(20), <1>3, <1>6, <2>1, <2>2 DEF L!StartGvproxy
<1>7. CASE L!PrepareVm
    <2>1. UNCHANGED L!Elsewhere /\ L!Alive /\ lcfg' = lcfg /\ layers' = layers /\ Wired /\ L!Advance("machine")
        BY <1>0, <1>7 DEF L!PrepareVm, L!Alive, L!Elsewhere, Confined
    <2>2. Wired'
        BY SMTT(20), <2>1 DEF Wired
    <2> QED BY <2>1, <2>2, AdvanceInv
<1>8. CASE L!AddNet \/ L!PlainVsock
    <2>1. /\ UNCHANGED L!Elsewhere /\ L!Alive /\ lcfg' = lcfg /\ Wired /\ L!Advance("device")
          /\ layers' = IF lcfg.net THEN layers \cup {"nic"} ELSE layers \cup {"plainvsock"}
        BY <1>0, <1>8 DEF L!AddNet, L!PlainVsock, L!Alive, L!Elsewhere, Confined
    <2>2. Wired' /\ Devised'
        BY SMTT(20), <2>1 DEF Wired, Devised
    <2> QED BY SMTT(20), <2>1, <2>2, AdvanceInv
<1>9. CASE L!AddPorts
    <2>1. /\ UNCHANGED L!Elsewhere /\ L!Alive /\ lcfg' = lcfg /\ layers' = layers /\ Wired /\ Devised
          /\ L!Advance("prepared")
        BY <1>0, <1>9 DEF L!AddPorts, L!Alive, L!Elsewhere, Confined
    <2>2. Wired' /\ Devised'
        BY <2>1 DEF Wired, Devised
    <2> QED BY SMTT(20), <2>1, <2>2, AdvanceInv
<1>10. CASE L!KrunRefuses
    BY <1>3, <1>10 DEF L!KrunRefuses, L!Alive
<1>11. CASE L!InstallSeccomp
    <2>1. /\ UNCHANGED L!Elsewhere /\ L!Alive /\ lcfg' = lcfg /\ kern' = kern /\ Wired /\ Devised
        BY <1>0, <1>11 DEF L!InstallSeccomp, L!Alive, L!Elsewhere, Confined
    <2>2. CASE /\ L!Advance("sealed")
               /\ layers' = IF kern.os = "linux" THEN layers \cup {"seccomp"} ELSE layers
        <3>1. Wired' /\ Devised' /\ Sealed'
            BY <2>1, <2>2 DEF Wired, Devised, Sealed
        <3> QED BY <2>1, <2>2, <3>1, AdvanceInv
    <2> QED BY SMTT(20), <1>3, <1>11, <2>1, <2>2 DEF L!InstallSeccomp
<1>12. CASE L!Enter
    <2>1. /\ UNCHANGED L!Elsewhere /\ L!Alive /\ lcfg' = lcfg /\ kern' = kern /\ Wired /\ Devised /\ Sealed
        BY SMTT(20), <1>0, <1>12 DEF L!Enter, L!Alive, L!Elsewhere, Confined
    <2>2. CASE L!Advance("vm") /\ UNCHANGED layers
        <3>1. Wired' /\ Devised' /\ Sealed'
            BY <2>1, <2>2 DEF Wired, Devised, Sealed
        <3> QED BY SMTT(20), <2>1, <2>2, <3>1, AdvanceInv
    <2> QED BY SMTT(20), <1>3, <1>12, <2>1, <2>2 DEF L!Enter
<1> QED
    BY SMTT(20), <1>2, <1>4, <1>5, <1>6, <1>7, <1>8, <1>9, <1>10, <1>11, <1>12 DEF L!ShimStep

\* No step of the parent, the shim or a ghost breaks the invariant.
LEMMA LInvNext == ASSUME LInv, [L!Next]_(L!lvars) PROVE LInv'
<1>1. CASE UNCHANGED L!lvars
    <2>1. /\ lcfg' = lcfg /\ kern' = kern /\ parent' = parent /\ lop' = lop /\ lpc' = lpc
          /\ arts' = arts /\ row' = row /\ held' = held /\ carried' = carried
          /\ required' = required /\ keep' = keep /\ shim' = shim /\ layers' = layers
          /\ ghost' = ghost /\ strayed' = strayed
        BY <1>1 DEF L!lvars
    <2>2. LaunchTypes'
        BY Zenon, <2>1 DEF LInv, LaunchTypes
    <2>3. Launched' /\ Undone'
        BY Zenon, <2>1 DEF LInv, Launched, Undone, L!Alive
    <2>4. Confined'
        BY <2>1, ConfinedStays
    <2> QED BY Zenon, <2>2, <2>3, <2>4 DEF LInv
<1>2. CASE L!Launching
    BY <1>2, RequestInv, PreparingInv, ForkInv, CommitInv DEF L!Launching
<1> QED BY <1>1, <1>2, CommitInv, ParentInv, ShimInv DEF L!Next

\* The same, along a behaviour.
LEMMA LInvAlways == L!Spec => []LInv
<1>1. LInv /\ [L!Next]_(L!lvars) => LInv'
    BY LInvNext
<1> QED BY <1>1, LInvInit, PTL DEF L!Spec

\* A create that fails, at whatever step, leaves no secret, disk, socket, file or shim,
\* unless its parent died or a ghost ran (boot/spawn.rs, SpawnAbort).
THEOREM FailedCreatesUndone == L!Spec => []FailedCreateLeavesNothing
<1>1. LInv => FailedCreateLeavesNothing
    BY LInvSafe DEF FailedCreateLeavesNothing
<1> QED BY <1>1, LInvAlways, PTL

\* A shim enters its VM with every layer its configuration asks of this host, and with the
\* secrets its row requires, also after a crash of the parent (shim apply.rs, jail lib.rs).
THEOREM EntersAsConfigured == L!Spec => []EnteredAsConfigured
<1>1. LInv => EnteredAsConfigured
    BY LInvSafe DEF EnteredAsConfigured
<1> QED BY <1>1, LInvAlways, PTL
=============================================================================
