------------------------------- MODULE Listen -------------------------------
(***************************************************************************)
(* The front of `bux serve`: open the runtime under the data directory's   *)
(* lock, bind the listeners, serve until a signal or until one listener    *)
(* fails, drain the others, give the socket's name back.  Workers with     *)
(* different data directories share the default unix socket path; a later  *)
(* one takes the name of an earlier one, which must not remove it when it  *)
(* ends.                                                                   *)
(***************************************************************************)
EXTENDS Naturals

CONSTANTS Workers, DataDirs,
          Inodes,      \* inode numbers of the socket's filesystem
          Nobody

VARIABLES sockname,    \* inode the socket path names, 0 if it names none
          dirlock,     \* holder of each data directory's lock
          worker,
          stolen,      \* workers whose name a later one took
          crossed      \* history: a name changed between a look and its use
wvars == <<sockname, dirlock, worker, stolen, crossed>>

\* bound: the inode of the worker's own socket, which the guard's pin keeps
\* from being used again; guard: the inode UnixSocketGuard recorded.
Down == [at |-> "down", bound |-> 0, guard |-> 0, tcp |-> "off", unix |-> "off", stop |-> FALSE]

Init ==
  /\ sockname = 0
  /\ dirlock = [d \in DataDirs |-> Nobody]
  /\ worker = [w \in Workers |-> Down]
  /\ stolen = {} /\ crossed = FALSE

At(w, at) == worker[w].at = at
Goto(w, at) == worker' = [worker EXCEPT ![w].at = at]
Quit(w) ==
  /\ worker' = [worker EXCEPT ![w] = Down]
  /\ dirlock' = [d \in DataDirs |-> IF dirlock[d] = w THEN Nobody ELSE dirlock[d]]
  /\ stolen' = stolen \ {w}
\* Another worker is between bind and stat, or between stat and unlink.
Looking(w) == \E v \in Workers \ {w} : At(v, "stat") \/ worker[v].unix = "unlink"
Free(i) == sockname # i /\ \A w \in Workers : worker[w].bound # i

\* open_runtime: a second worker on the directory is refused (Busy).
OpenRuntime(w) ==
  /\ At(w, "down")
  /\ \E d \in DataDirs : dirlock[d] = Nobody /\ dirlock' = [dirlock EXCEPT ![d] = w]
  /\ Goto(w, "tcp")
  /\ UNCHANGED <<sockname, stolen, crossed>>

BindTcp(w) ==
  /\ At(w, "tcp")
  /\ \/ Goto(w, "prepare") /\ UNCHANGED <<dirlock, stolen>>
     \/ Quit(w)
  /\ UNCHANGED <<sockname, crossed>>

\* prepare_unix_path removes whatever has the name.
PrepareUnixPath(w) ==
  /\ At(w, "prepare")
  /\ Goto(w, "bind")
  /\ stolen' = stolen \cup {v \in Workers : sockname # 0 /\ worker[v].bound = sockname}
  /\ crossed' = (crossed \/ Looking(w))
  /\ sockname' = 0
  /\ UNCHANGED dirlock

\* EADDRINUSE when another worker was faster.
BindUnix(w) ==
  /\ At(w, "bind")
  /\ \/ /\ sockname = 0
        /\ \E i \in Inodes : /\ Free(i) /\ sockname' = i
                             /\ worker' = [worker EXCEPT ![w].at = "stat", ![w].bound = i]
        /\ crossed' = (crossed \/ Looking(w))
        /\ UNCHANGED <<dirlock, stolen>>
     \/ sockname # 0 /\ Quit(w) /\ UNCHANGED <<sockname, crossed>>

\* UnixSocketGuard::from_bound looks the path up again.
FromBound(w) ==
  /\ At(w, "stat")
  /\ \/ /\ sockname # 0
        /\ worker' = [worker EXCEPT ![w].at = "serve", ![w].guard = sockname,
                                    ![w].tcp = "up", ![w].unix = "up"]
        /\ UNCHANGED <<dirlock, stolen>>
     \/ sockname = 0 /\ Quit(w)
  /\ UNCHANGED <<sockname, crossed>>

\* install_shutdown: SIGINT or SIGTERM.
Shutdown(w) ==
  /\ At(w, "serve") /\ ~worker[w].stop
  /\ worker' = [worker EXCEPT ![w].stop = TRUE]
  /\ UNCHANGED <<sockname, dirlock, stolen, crossed>>

\* serve_one ends, drained after the stop or by an error, which join_servers
\* turns into a stop of the others.  The unix listener closes, its guard not
\* yet dropped.
ServeOne(w) ==
  /\ At(w, "serve")
  /\ \/ worker[w].tcp = "up" /\ worker' = [worker EXCEPT ![w].tcp = "off", ![w].stop = TRUE]
     \/ worker[w].unix = "up" /\ worker' = [worker EXCEPT ![w].unix = "check", ![w].stop = TRUE]
  /\ UNCHANGED <<sockname, dirlock, stolen, crossed>>

\* Mutation: the guard unlinks whatever has the name.
CheckNothing(w) ==
  /\ worker[w].unix = "check"
  /\ worker' = [worker EXCEPT ![w].unix = "unlink"]
  /\ UNCHANGED <<sockname, dirlock, stolen, crossed>>
\* UnixSocketGuard::drop: look, then unlink.
CheckGuard(w) ==
  /\ worker[w].unix = "check"
  /\ worker' = IF sockname # 0 /\ sockname = worker[w].guard
               THEN [worker EXCEPT ![w].unix = "unlink"]
               ELSE [worker EXCEPT ![w].unix = "off", ![w].bound = 0]
  /\ UNCHANGED <<sockname, dirlock, stolen, crossed>>
UnlinkSocket(w) ==
  /\ worker[w].unix = "unlink"
  /\ sockname' = 0
  /\ worker' = [worker EXCEPT ![w].unix = "off", ![w].bound = 0]
  /\ UNCHANGED <<dirlock, stolen, crossed>>

\* join_servers has joined all: the sweep loop is aborted, the runtime closed.
JoinServers(w) ==
  /\ At(w, "serve") /\ worker[w].tcp = "off" /\ worker[w].unix = "off"
  /\ Quit(w)
  /\ UNCHANGED <<sockname, crossed>>

Crash(w) ==
  /\ ~At(w, "down") /\ Quit(w)
  /\ UNCHANGED <<sockname, crossed>>

Step(w) ==
  \/ OpenRuntime(w) \/ BindTcp(w) \/ PrepareUnixPath(w) \/ BindUnix(w) \/ FromBound(w)
  \/ Shutdown(w) \/ ServeOne(w) \/ CheckGuard(w) \/ UnlinkSocket(w) \/ JoinServers(w) \/ Crash(w)
Next == \E w \in Workers : Step(w)
Spec == Init /\ [][Next]_wvars

-----------------------------------------------------------------------------
\* A worker that serves can be reached by the socket's name until a later
\* worker takes it over, whatever the workers before it do when they end and
\* however inode numbers are used again.  Left out: runs in which a worker
\* starts exactly between another's look at the path and its use of it, which
\* the guard does not exclude.
SocketKept ==
  ~crossed => \A w \in Workers \ stolen :
    At(w, "serve") /\ worker[w].unix = "up" => sockname = worker[w].bound
=============================================================================
