------------------------------ MODULE BaseDisk ------------------------------
(***************************************************************************)
(* How the DiskManager of crates/bux builds the shared base images: an     *)
(* ext4 filesystem made by crates/bux-e2fs from the image's rootfs, the    *)
(* guest agent injected, then renamed to bases/{digest}-guest-{hash}.raw.  *)
(* No lock is held: resolve_image runs it on blocking threads, so two      *)
(* creates of one image work on the same temporary path and the same       *)
(* staged copy of the agent.  Paths and inodes are kept apart because a    *)
(* writer keeps its open file across another's rename or unlink.           *)
(*                                                                         *)
(* One OCI image.  Key 0 is create_base (no agent, no clean-up on error),  *)
(* key v > 0 is create_managed_base with version v of the agent.           *)
(***************************************************************************)
EXTENDS Naturals, Sequences

CONSTANTS Builders,    \* threads that need a base
          MaxInodes    \* bound on the files ever made

VARIABLES installed,   \* version of the agent at guest_path
          files,       \* inodes: what each file holds; lost: a flush of it failed
          tmp, base,   \* the paths {key}.raw.tmp and {key}.raw: inode or 0
          staged,      \* the path {key}.raw.guest-inject: version or 0
          builder,     \* what each thread is doing
          muddled      \* history: keys built by two threads at once, or
                       \* while the agent was being replaced
bvars == <<installed, files, tmp, base, staged, builder, muddled>>

Keys == 0 .. 2
Empty == [tree |-> FALSE, agent |-> 0, torn |-> FALSE, lost |-> FALSE]
Lost == [Empty EXCEPT !.lost = TRUE]
Resting == [at |-> "idle", key |-> 0, fs |-> 0]

Init ==
  /\ installed = 1 /\ files = <<>>
  /\ tmp = [k \in Keys |-> 0] /\ base = [k \in Keys |-> 0] /\ staged = [k \in Keys |-> 0]
  /\ builder = [b \in Builders |-> Resting]
  /\ muddled = {}

Building(k) == {b \in Builders : builder[b].at # "idle" /\ builder[b].key = k}
\* Another thread has this inode open as a filesystem.
Contended(b, i) == \E c \in Builders \ {b} : builder[c].fs = i
Goto(b, at) == builder' = [builder EXCEPT ![b].at = at, ![b].fs = 0]
Content(i, f) == files' = [files EXCEPT ![i] = f]
\* Filesystem is dropped: ext2fs_close flushes, and its error is discarded, so that
\* the caller goes on with a file that lacks some of what was written to it.
Flushed(i, f) == Content(i, Lost) \/ (~files[i].lost /\ Content(i, f))

\* The error paths: a managed base removes its temporary file.
Fail(b) ==
  LET k == builder[b].key IN
    /\ tmp' = IF k = 0 THEN tmp ELSE [tmp EXCEPT ![k] = 0]
    /\ builder' = [builder EXCEPT ![b] = Resting]

\* ManagedGuestBinary::resolve reads and hashes the agent, path.exists follows.
Resolve(b) ==
  /\ builder[b].at = "idle"
  /\ \E k \in {0, installed} :
       /\ base[k] = 0
       /\ builder' = [builder EXCEPT ![b] = [at |-> "create", key |-> k, fs |-> 0]]
       /\ muddled' = IF Building(k) # {} THEN muddled \cup {k} ELSE muddled
  /\ UNCHANGED <<installed, files, tmp, base, staged>>

\* Filesystem::create opens the temporary file with truncate and sizes it.
Truncate(b) ==
  LET k == builder[b].key IN
  /\ builder[b].at = "create"
  /\ IF tmp[k] = 0
     THEN /\ Len(files) < MaxInodes
          /\ files' = Append(files, Empty)
          /\ tmp' = [tmp EXCEPT ![k] = Len(files) + 1]
     ELSE /\ Content(tmp[k], [Empty EXCEPT !.torn = Contended(b, tmp[k])])
          /\ UNCHANGED tmp
  /\ Goto(b, "mkfs")
  /\ UNCHANGED <<installed, base, staged, muddled>>

\* ext2fs_initialize opens the path again; tables and root directory.
Mkfs(b) ==
  LET i == tmp[builder[b].key] IN
  /\ builder[b].at = "mkfs"
  /\ \/ /\ i # 0
        /\ Content(i, [files[i] EXCEPT !.torn = @ \/ Contended(b, i)])
        /\ builder' = [builder EXCEPT ![b].at = "journal", ![b].fs = i]
        /\ UNCHANGED tmp
     \/ Fail(b) /\ UNCHANGED files
  /\ UNCHANGED <<installed, base, staged, muddled>>

AddJournal(b) ==
  /\ builder[b].at = "journal"
  /\ \/ builder' = [builder EXCEPT ![b].at = "populate"] /\ UNCHANGED tmp
     \/ Fail(b)
  /\ UNCHANGED <<installed, files, base, staged, muddled>>

\* populate; dropping the handle closes and flushes it.
Populated(i) == [files[i] EXCEPT !.tree = TRUE]
\* Mutation: a rootfs that could not be copied is no error.
PopulateBestEffort(b) ==
  /\ builder[b].at = "populate"
  /\ \E f \in {files[builder[b].fs], Populated(builder[b].fs)} : Flushed(builder[b].fs, f)
  /\ Goto(b, IF builder[b].key = 0 THEN "rename" ELSE "stage")
  /\ UNCHANGED <<installed, tmp, base, staged, muddled>>
Populate(b) ==
  /\ builder[b].at = "populate"
  /\ \/ /\ Flushed(builder[b].fs, Populated(builder[b].fs))
        /\ Goto(b, IF builder[b].key = 0 THEN "rename" ELSE "stage")
        /\ UNCHANGED tmp
     \/ Fail(b) /\ UNCHANGED files
  /\ UNCHANGED <<installed, base, staged, muddled>>

\* stage_executable_copy: one path for all builders of the key.
Stage(b) ==
  /\ builder[b].at = "stage"
  /\ \/ /\ staged' = [staged EXCEPT ![builder[b].key] = installed]
        /\ Goto(b, "inject")
        /\ UNCHANGED tmp
     \/ Fail(b) /\ staged' = [staged EXCEPT ![builder[b].key] = 0]
  /\ UNCHANGED <<installed, files, base, muddled>>

\* inject_file opens the filesystem of the temporary path once more.
OpenFilesystem(b) ==
  LET k == builder[b].key
      i == tmp[k]
  IN
  /\ builder[b].at = "inject"
  /\ \/ /\ i # 0
        /\ builder' = [builder EXCEPT ![b].at = "write", ![b].fs = i]
        /\ UNCHANGED <<tmp, staged>>
     \/ Fail(b) /\ staged' = [staged EXCEPT ![k] = 0]
  /\ UNCHANGED <<installed, files, base, muddled>>

\* mkdir_p, write_file, close; the staged copy goes either way.
WriteAgent(b) ==
  LET k == builder[b].key
      i == builder[b].fs
  IN
  /\ builder[b].at = "write"
  /\ \/ /\ staged[k] # 0
        /\ Flushed(i, [files[i] EXCEPT !.agent = staged[k], !.torn = @ \/ Contended(b, i)])
        /\ Goto(b, "rename")
        /\ UNCHANGED tmp
     \/ Fail(b) /\ UNCHANGED files
  /\ staged' = [staged EXCEPT ![k] = 0]
  /\ UNCHANGED <<installed, base, muddled>>

Rename(b) ==
  LET k == builder[b].key IN
  /\ builder[b].at = "rename"
  /\ \/ /\ tmp[k] # 0
        /\ base' = [base EXCEPT ![k] = tmp[k]]
        /\ tmp' = [tmp EXCEPT ![k] = 0]
        /\ builder' = [builder EXCEPT ![b] = Resting]
     \/ Fail(b) /\ UNCHANGED base
  /\ UNCHANGED <<installed, files, staged, muddled>>

\* remove_base, of the API or of gc.
RemoveBase ==
  /\ \E k \in Keys : base[k] # 0 /\ base' = [base EXCEPT ![k] = 0]
  /\ UNCHANGED <<installed, files, tmp, staged, builder, muddled>>

\* The agent is replaced by another version while bases are being built.
Upgrade ==
  /\ installed = 1 /\ installed' = 2
  /\ muddled' = muddled \cup {k \in {1} : Building(k) # {}}
  /\ UNCHANGED <<files, tmp, base, staged, builder>>

\* The process dies; its files stay for the next run.
Crash ==
  /\ builder # [b \in Builders |-> Resting]
  /\ builder' = [b \in Builders |-> Resting]
  /\ UNCHANGED <<installed, files, tmp, base, staged, muddled>>

Step(b) ==
  \/ Resolve(b) \/ Truncate(b) \/ Mkfs(b) \/ AddJournal(b) \/ Populate(b)
  \/ Stage(b) \/ OpenFilesystem(b) \/ WriteAgent(b) \/ Rename(b)
Next == (\E b \in Builders : Step(b)) \/ RemoveBase \/ Upgrade \/ Crash
Spec == Init /\ [][Next]_bvars

-----------------------------------------------------------------------------
Whole(k) == [tree |-> TRUE, agent |-> k, torn |-> FALSE, lost |-> FALSE]

\* A base that a VM can be put on holds the whole rootfs and the agent its
\* name says, whatever reported an error or crashed before, as long as no two
\* threads built it at once, the agent was not replaced between its hash and
\* its copy, and no flush at the close of its file failed: nothing in the code
\* rules these three out.
BaseWhole ==
  \A k \in Keys \ muddled :
    base[k] # 0 => files[base[k]].lost \/ files[base[k]] = Whole(k)
=============================================================================
