----------------------------- MODULE ExecSession -----------------------------
(***************************************************************************)
(* One exec, end to end: the host's ExecHandle (crates/bux/src/client.rs,  *)
(* and collect_capped of crates/bux-serve/src/exec.rs), the framed stream, *)
(* the guest session with its select loop, timeout killer and guard        *)
(* (crates/bux-guest/src/exec), and the job it runs.  Reaper models how    *)
(* the exit status reaches the session.                                    *)
(*                                                                         *)
(* Bytes are counted in units.  A frame travels in two pieces, because     *)
(* recv reads its length and its body with separate awaits; either may be  *)
(* delayed.  Process ids are not reused while a session lives.             *)
(***************************************************************************)
EXTENDS Naturals, Sequences

CONSTANTS PipeCap,   \* units a child pipe holds
          WireCap,   \* messages toward the host before a send blocks
          MaxStdin,  \* stdin frames a host sends
          OutCap     \* Limits.max_exec_output_bytes

VARIABLES opt,       \* what the request asks for
          guest,     \* where the guest session is
          got,       \* first piece of a frame, held by the recv in progress
          skewed,    \* a piece was dropped with a cancelled recv
          job,       \* the processes: the child, and a helper it forked, a member of
                     \* the group or, after setsid or setpgid, apart from it
          inpipe,    \* units in the child's stdin
          stdin,     \* the session still holds the child's stdin
          outpipe,   \* units in the child's output pipes
          open,      \* output streams some process of the job holds open
          ended,     \* stdout_done, stderr_done
          killer,    \* the timeout task: "armed", or "none" before, after and without it
          cause,     \* what killed the job first
          unguarded, \* the session ended before KillerGuard existed
          host,      \* where the host is, and what its handle counted
          up,        \* pieces that reached the guest
          rest,      \* the piece of a frame still on its way
          down       \* messages toward the host

xvars == <<opt, guest, got, skewed, job, inpipe, stdin, outpipe, open, ended, killer,
           cause, unguarded, host, up, rest, down>>
gvars == <<guest, got, skewed, ended, killer, unguarded, stdin>>
jvars == <<job, inpipe, outpipe, open, cause>>
hvars == <<opt, host, rest>>

AllStreams == {"out", "err"}
Streams == IF opt.tty THEN {"out"} ELSE AllStreams

Init ==
  /\ opt = [tty |-> FALSE, stdin |-> FALSE, timed |-> FALSE, serve |-> FALSE]
  /\ guest = "idle" /\ got = "none" /\ skewed = FALSE
  /\ job = [child |-> "none", helper |-> "none"]
  /\ inpipe = 0 /\ stdin = FALSE /\ outpipe = [x \in AllStreams |-> 0]
  /\ open = {} /\ ended = {}
  /\ killer = "none" /\ cause = "none" /\ unguarded = FALSE
  /\ host = [pc |-> "idle", sent |-> 0, kept |-> 0, signaled |-> FALSE]
  /\ up = <<>> /\ rest = <<>> /\ down = <<>>

HostOpen == host.pc # "closed"
Alive == job.child = "alive" \/ job.helper # "none"
GroupAlive == job.child = "alive" \/ job.helper = "member"

\* Mutation: the signal goes to the child and not to its group.
KillChild(why) ==
  /\ job' = [job EXCEPT !.child = IF @ = "alive" THEN "killed" ELSE @]
  /\ open' = IF job.helper # "none" THEN open ELSE {}
  /\ cause' = IF GroupAlive /\ cause = "none" THEN why ELSE cause
  /\ UNCHANGED <<inpipe, outpipe>>

\* kill_job(pid, SIGKILL): the whole process group dies and its pipe ends close; a
\* helper apart from it lives on and keeps what it holds open.
Kill(why) ==
  /\ job' = [child |-> IF job.child = "alive" THEN "killed" ELSE job.child,
             helper |-> IF job.helper = "member" THEN "none" ELSE job.helper]
  /\ open' = IF job.helper = "apart" THEN open ELSE {}
  /\ cause' = IF GroupAlive /\ cause = "none" THEN why ELSE cause
  /\ UNCHANGED <<inpipe, outpipe>>

-----------------------------------------------------------------------------
\* The host.

\* Client::exec.  The worker sets a timeout and neither stdin nor tty.
Connect ==
  /\ host.pc = "idle"
  /\ host' = [host EXCEPT !.pc = "ack"]
  /\ \E o \in [tty : BOOLEAN, stdin : BOOLEAN, timed : BOOLEAN, serve : BOOLEAN] :
       /\ o.serve => o.timed /\ ~o.stdin /\ ~o.tty
       /\ opt' = o
  /\ guest' = "spawn"
  /\ UNCHANGED <<got, skewed, ended, killer, unguarded, stdin, up, rest, down>>
  /\ UNCHANGED jvars

\* The handle is dropped, and with it what it counted.
Close == [pc |-> "closed", sent |-> 0, kept |-> 0, signaled |-> FALSE]

\* ExecStarted opens the handle, Error ends it.
RecvAck ==
  /\ host.pc = "ack" /\ down # <<>>
  /\ host' = IF Head(down) = "started" THEN [host EXCEPT !.pc = "collect"] ELSE Close
  /\ down' = Tail(down)
  /\ UNCHANGED <<opt, up, rest>> /\ UNCHANGED gvars /\ UNCHANGED jvars

\* bux_proto::send of an ExecIn frame.  A stdin chunk outgrows the session's read buffer,
\* so it arrives in two reads; the other frames are a few bytes and arrive whole.
SendFrame(f) ==
  /\ rest = <<>>
  /\ up' = up \o (IF f = "data" THEN <<f>> ELSE <<f, "body">>)
  /\ rest' = IF f = "data" THEN <<"body">> ELSE <<>>

Deliver ==
  /\ rest # <<>>
  /\ up' = up \o rest
  /\ rest' = <<>>
  /\ UNCHANGED <<opt, host, down>> /\ UNCHANGED gvars /\ UNCHANGED jvars

\* collect_output, collect_capped.  Past the cap the worker keeps the head of the chunk,
\* drops the tail and signals once.
RecvOut ==
  /\ host.pc = "collect" /\ down # <<>>
  /\ down' = Tail(down)
  /\ LET over == opt.serve /\ Head(down) = "out" /\ host.kept = OutCap IN
     CASE Head(down) = "exit" -> host' = Close /\ UNCHANGED <<up, rest>>
       [] over /\ ~host.signaled ->
            host' = [host EXCEPT !.signaled = TRUE] /\ SendFrame("kill")
       [] over /\ host.signaled -> UNCHANGED <<host, up, rest>>
       [] OTHER -> /\ host' = [host EXCEPT !.kept = IF opt.serve THEN @ + 1 ELSE @]
                   /\ UNCHANGED <<up, rest>>
  /\ UNCHANGED opt /\ UNCHANGED gvars /\ UNCHANGED jvars

\* The stdin task of stream_with_input: chunks, then StdinClose.
SendStdin ==
  /\ host.pc = "collect" /\ opt.stdin /\ host.sent <= MaxStdin
  /\ SendFrame(IF host.sent < MaxStdin THEN "data" ELSE "close")
  /\ host' = [host EXCEPT !.sent = @ + 1]
  /\ UNCHANGED <<opt, down>> /\ UNCHANGED gvars /\ UNCHANGED jvars

\* ExecHandle::signal by an interactive caller, once.
SendSignal ==
  /\ host.pc = "collect" /\ ~opt.serve /\ ~host.signaled
  /\ SendFrame("kill")
  /\ host' = [host EXCEPT !.signaled = TRUE]
  /\ UNCHANGED <<opt, down>> /\ UNCHANGED gvars /\ UNCHANGED jvars

\* The collect deadline: one bounded attempt to signal, then 504 and the handle is dropped.
Deadline ==
  /\ host.pc = "collect" /\ opt.serve
  /\ host' = Close
  /\ SendFrame("kill") \/ UNCHANGED <<up, rest>>
  /\ UNCHANGED <<opt, down>> /\ UNCHANGED gvars /\ UNCHANGED jvars

\* The caller's future is dropped or its process dies.
Vanish ==
  /\ host.pc \in {"ack", "collect"}
  /\ host' = Close
  /\ UNCHANGED <<opt, up, rest, down>> /\ UNCHANGED gvars /\ UNCHANGED jvars

-----------------------------------------------------------------------------
\* The guest session.

Send(m) == HostOpen /\ Len(down) < WireCap /\ down' = Append(down, m)

\* handle_pipe up to the spawned child.
Spawned ==
  /\ guest = "spawn"
  /\ guest' = "started"
  /\ job' = [job EXCEPT !.child = "alive"] /\ open' = Streams /\ stdin' = (opt.stdin \/ opt.tty)
  /\ UNCHANGED <<got, skewed, ended, killer, unguarded, inpipe, outpipe, cause, up, down>>
  /\ UNCHANGED hvars

\* The user is unknown or the program cannot be run: HelloAck::Error.
SpawnFails ==
  /\ guest = "spawn"
  /\ guest' = "done" /\ down' = Append(down, "error")
  /\ UNCHANGED <<got, skewed, ended, killer, unguarded, stdin, up>>
  /\ UNCHANGED hvars /\ UNCHANGED jvars

\* pty::spawn: a dup of the master may fail after the child runs.
PtyFails ==
  /\ guest = "spawn" /\ opt.tty
  /\ guest' = "done" /\ down' = Append(down, "error") /\ unguarded' = TRUE
  /\ job' = [job EXCEPT !.child = "alive"]
  /\ UNCHANGED <<got, skewed, ended, killer, stdin, inpipe, outpipe, open, cause, up>>
  /\ UNCHANGED hvars

\* ExecStarted is sent before the guard exists: when the send fails, `?` returns with
\* the job running.  A close the socket has not noticed lets the send succeed.
Started ==
  /\ guest = "started"
  /\ \/ /\ IF HostOpen THEN down' = Append(down, "started") ELSE down' = down
        /\ guest' = "loop"
        /\ killer' = IF opt.timed THEN "armed" ELSE "none"
        /\ UNCHANGED unguarded
     \/ /\ ~HostOpen /\ guest' = "done" /\ unguarded' = TRUE
        /\ UNCHANGED <<killer, down>>
  /\ UNCHANGED <<got, skewed, ended, stdin, up>> /\ UNCHANGED hvars /\ UNCHANGED jvars

\* Mutation: a guard that only aborts the timeout task.
DropGuardOnly(why, pc) ==
  /\ guest' = pc
  /\ killer' = "none"
  /\ UNCHANGED <<job, open, cause, inpipe, outpipe>>

\* Dropping KillerGuard aborts the killer and kills the group.
DropGuard(why, pc) ==
  /\ guest' = pc
  /\ killer' = "none"
  /\ Kill(why)

\* Mutation: the loop ends with the first stream.
LoopingAny == guest = "loop" /\ ended = {}
Looping == guest = "loop" /\ ended # Streams

\* Another branch of select! won: the recv future is dropped with what it had read.
CancelRecv == got' = "none" /\ skewed' = (skewed \/ got # "none")

\* recv is polled: it takes the first piece of a frame whose second has not arrived.
RecvPart ==
  /\ Looping /\ ~skewed /\ got = "none" /\ Len(up) = 1
  /\ got' = Head(up) /\ up' = <<>>
  /\ UNCHANGED <<guest, skewed, ended, killer, unguarded, stdin, down>>
  /\ UNCHANGED hvars /\ UNCHANGED jvars

\* A whole frame: stdin goes to the child (write_all is awaited inside the branch),
\* StdinClose drops the pipe, a signal goes to the group.
RecvFrame ==
  /\ Looping /\ ~skewed
  /\ \/ got = "none" /\ Len(up) >= 2
     \/ got # "none" /\ up # <<>>
  /\ LET f == IF got = "none" THEN Head(up) ELSE got IN
     /\ guest' = IF f = "data" /\ stdin THEN "stdin" ELSE "loop"
     /\ stdin' = (stdin /\ (f = "close" => opt.tty))
     /\ IF f = "kill" THEN Kill("signal") ELSE UNCHANGED jvars
  /\ up' = IF got = "none" THEN Tail(Tail(up)) ELSE Tail(up)
  /\ got' = "none"
  /\ UNCHANGED <<skewed, ended, killer, unguarded, down>> /\ UNCHANGED hvars

\* Out of step, what arrives is read as the length of a frame: too long or not a
\* message, which is an error, or a frame still to be completed.
RecvSkewed ==
  /\ Looping /\ skewed /\ up # <<>>
  /\ up' = Tail(up)
  /\ DropGuard("disconnect", "exit") \/ UNCHANGED <<guest, killer, job, inpipe, outpipe, open, cause>>
  /\ UNCHANGED <<got, skewed, ended, unguarded, stdin, down>> /\ UNCHANGED hvars

\* End of stream: any error of recv kills the job and leaves the loop.
RecvEof ==
  /\ Looping /\ ~HostOpen /\ up = <<>> /\ rest = <<>>
  /\ DropGuard("disconnect", "exit")
  /\ UNCHANGED <<got, skewed, ended, unguarded, stdin, up, down>> /\ UNCHANGED hvars

ReadOut ==
  /\ Looping
  /\ \E x \in Streams \ ended :
       outpipe[x] > 0 /\ outpipe' = [outpipe EXCEPT ![x] = @ - 1]
  /\ guest' = "send"
  /\ CancelRecv
  /\ UNCHANGED <<ended, killer, unguarded, stdin, job, inpipe, open, cause, up, down>>
  /\ UNCHANGED hvars

ReadEof ==
  /\ Looping
  /\ \E x \in Streams \ (ended \cup open) : outpipe[x] = 0 /\ ended' = ended \cup {x}
  /\ CancelRecv
  /\ UNCHANGED <<guest, killer, unguarded, stdin, up, down>>
  /\ UNCHANGED hvars /\ UNCHANGED jvars

\* Output goes to the host; when that fails, `?` leaves through the guard.
SendOut ==
  /\ guest = "send"
  /\ \/ Send("out") /\ guest' = "loop" /\ killer' = killer /\ UNCHANGED jvars
     \/ ~HostOpen /\ down' = down /\ DropGuard("guard", "done")
  /\ UNCHANGED <<got, skewed, ended, unguarded, stdin, up>> /\ UNCHANGED hvars

\* write_all to the child: room in the pipe, or EPIPE, which is ignored.
WriteStdin ==
  /\ guest = "stdin"
  /\ \/ inpipe < PipeCap /\ inpipe' = inpipe + 1
     \/ ~Alive /\ inpipe' = inpipe
  /\ guest' = "loop"
  /\ UNCHANGED <<got, skewed, ended, killer, unguarded, stdin, job, outpipe, open, cause, up, down>>
  /\ UNCHANGED hvars

\* Both streams ended: the guard is dropped, and what is left of the group with it.
LoopEnd ==
  /\ guest = "loop" /\ ~Looping
  /\ DropGuard("guard", "exit")
  /\ UNCHANGED <<got, skewed, ended, unguarded, stdin, up, down>> /\ UNCHANGED hvars

\* send_exit, once the reaper has told the status.
ReportExit ==
  /\ guest = "exit" /\ job.child \in {"exited", "killed"}
  /\ Send("exit") \/ (~HostOpen /\ down' = down)
  /\ guest' = "done"
  /\ UNCHANGED <<got, skewed, ended, killer, unguarded, stdin, up>>
  /\ UNCHANGED hvars /\ UNCHANGED jvars

\* spawn_timeout_killer.
Timeout ==
  /\ killer = "armed"
  /\ killer' = "none"
  /\ Kill("timeout")
  /\ UNCHANGED <<guest, got, skewed, ended, unguarded, stdin, up, down>> /\ UNCHANGED hvars

-----------------------------------------------------------------------------
\* The job: any program.

JobStep(step) == step /\ UNCHANGED <<up, down>> /\ UNCHANGED gvars /\ UNCHANGED hvars

ChildFork ==
  /\ job.child = "alive" /\ job.helper = "none"
  /\ job' = [job EXCEPT !.helper = "member"]
  /\ UNCHANGED <<inpipe, outpipe, open, cause>>

HelperLeaves ==
  /\ job.helper = "member"
  /\ job' = [job EXCEPT !.helper = "apart"]
  /\ UNCHANGED <<inpipe, outpipe, open, cause>>

ChildRead ==
  /\ Alive /\ inpipe > 0
  /\ inpipe' = inpipe - 1
  /\ UNCHANGED <<job, outpipe, open, cause>>

ChildWrite ==
  /\ Alive
  /\ \E x \in open : outpipe[x] < PipeCap /\ outpipe' = [outpipe EXCEPT ![x] = @ + 1]
  /\ UNCHANGED <<job, inpipe, open, cause>>

ChildClose ==
  /\ Alive
  /\ \E x \in open : open' = open \ {x}
  /\ UNCHANGED <<job, inpipe, outpipe, cause>>

ProcessExit ==
  /\ \/ job.child = "alive" /\ job' = [job EXCEPT !.child = "exited"]
     \/ job.helper # "none" /\ job' = [job EXCEPT !.helper = "none"]
  /\ open' = IF job'.child = "alive" \/ job'.helper # "none" THEN open ELSE {}
  /\ UNCHANGED <<inpipe, outpipe, cause>>

GuestStep ==
  \/ Spawned \/ SpawnFails \/ PtyFails \/ Started \/ RecvPart \/ RecvFrame \/ RecvSkewed
  \/ RecvEof \/ ReadOut \/ ReadEof \/ SendOut \/ WriteStdin \/ LoopEnd \/ ReportExit
HostRecv == RecvAck \/ RecvOut
Environment ==
  \/ JobStep(ChildFork) \/ JobStep(HelperLeaves) \/ JobStep(ChildRead) \/ JobStep(ChildWrite)
  \/ JobStep(ChildClose) \/ JobStep(ProcessExit)

Next ==
  \/ Connect \/ HostRecv \/ Deliver \/ SendStdin \/ SendSignal \/ Deadline \/ Vanish
  \/ GuestStep \/ Timeout
  \/ Environment

\* The guest runtime polls the session and the timer; the host polls its handle, or
\* closes it; the stream delivers.  Nothing is assumed of the job.
Fairness == WF_xvars(GuestStep) /\ WF_xvars(Timeout) /\ WF_xvars(HostRecv) /\ WF_xvars(Deliver)

Spec == Init /\ [][Next]_xvars /\ Fairness
-----------------------------------------------------------------------------

\* No process of the group outlives the session, whether it ends by exit, timeout,
\* disconnect or a failed send, except when the session ended before its guard existed.
JobEndsWithSession == guest = "done" /\ ~unguarded => ~GroupAlive

\* The exit is reported after all the output: unless the stream from the host fell out of
\* step, nothing the job wrote is still in its pipes when Exit is on its way.
OutputBeforeExit ==
  (guest = "done" /\ ~unguarded /\ HostOpen /\ ~skewed) =>
    \A x \in Streams : outpipe[x] = 0

\* An exec with a timeout ends, even when the session is blocked writing to a child that
\* is blocked writing to it or the stream is out of step, as long as the host reads or
\* hangs up; unless a process that left the group, which kill_job does not reach, stays.
SessionEnds ==
  \/ <>[](job.helper = "apart")
  \/ (guest = "loop" /\ opt.timed) ~> guest = "done"

\* "Host disconnected -- kill the job and collect exit status": recv errors, and with
\* them this kill, are taken to mean that the host is gone.
DisconnectKillsOnly == cause = "disconnect" => ~HostOpen
=============================================================================
