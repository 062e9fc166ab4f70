------------------------------ MODULE Transfer ------------------------------
(***************************************************************************)
(* File transfers between host and guest: Client::{read_file, write_file,  *)
(* copy_in, copy_out} (crates/bux/src/client.rs), the Upload and Download  *)
(* streams (crates/bux-proto/src/codec.rs) and the guest's handlers        *)
(* (crates/bux-guest/src/files.rs), several at once over one guest path.   *)
(*                                                                         *)
(* A chunk is one unit, labelled with the transfer that wrote it.  A tar   *)
(* archive has a member per chunk: a plain file, a symlink, a file named   *)
(* through that symlink, a hard link or a name with a parent component.    *)
(***************************************************************************)
EXTENDS Naturals, Sequences

CONSTANTS Transfers,    \* transfers, each on its own connection
          MaxChunks,    \* chunks a sender may have
          MaxUpload,    \* MAX_UPLOAD_BYTES, in chunks
          MaxDownload,  \* the reader's max_bytes, in chunks
          Old           \* label of the content the path starts with

VARIABLES file,     \* content of the guest path
          temp,     \* [Transfers -> temp file under /tmp, or NoTemp]
          tree,     \* members extracted under the copy-in destination
          escaped,  \* transfers that wrote through a symlink
          hs,       \* [Transfers -> host side]
          gs,       \* [Transfers -> guest side]
          upl, dnl, \* [Transfers -> message in flight, one at most]
          mixed     \* transfers that overlapped a write to their path

tvars == <<file, temp, tree, escaped, hs, gs, upl, dnl, mixed>>

NoTemp == <<"none">>
Kinds == {"put", "get", "in", "out"}
Members == {"plain", "symlink", "through", "parent", "hardlink"}

Init ==
  /\ file = <<Old>> /\ tree = {} /\ escaped = {} /\ mixed = {}
  /\ temp = [t \in Transfers |-> NoTemp]
  /\ hs = [t \in Transfers |-> [pc |-> "idle", kind |-> "put", n |-> 0, acc |-> <<>>]]
  /\ gs = [t \in Transfers |-> [pc |-> "idle", off |-> 0, ok |-> TRUE, member |-> "plain",
                                whole |-> TRUE]]
  /\ upl = [t \in Transfers |-> <<>>] /\ dnl = [t \in Transfers |-> <<>>]

Host(t, pc) == hs' = [hs EXCEPT ![t].pc = pc]
Guest(t, pc) == gs' = [gs EXCEPT ![t].pc = pc]
Outcome(t, pc, good) == gs' = [gs EXCEPT ![t].pc = pc, ![t].ok = good]
Gone(t) == hs[t].pc \in {"ok", "error"}
Copying(t) == gs[t].pc \in {"copy", "unpack", "member"}
Reading(t) == gs[t].pc = "pack" \/ (gs[t].pc = "stream" /\ hs[t].kind = "get")
Ended(t) == gs[t].pc \in {"done", "lost"}

\* The transfers to mark when t starts while others are busy.
Overlapping(t, busy) == IF busy \ {t} = {} THEN mixed ELSE mixed \cup busy \cup {t}
Writers == {t \in Transfers : Copying(t)}
Busy == {t \in Transfers : Copying(t) \/ Reading(t)}

-----------------------------------------------------------------------------
\* The host.

\* connect, Hello, HelloAck::Ready.
Begin(t) ==
  /\ hs[t].pc = "idle"
  /\ \E k \in Kinds, n \in 0..MaxChunks :
       /\ k \in {"get", "out"} => n = 0
       /\ hs' = [hs EXCEPT ![t] = [pc |-> IF k \in {"put", "in"} THEN "send" ELSE "recv",
                                   kind |-> k, n |-> n, acc |-> <<>>]]
       /\ Guest(t, CASE k \in {"put", "in"} -> "create" [] k = "get" -> "open"
                     [] k = "out" -> "archive")
  /\ UNCHANGED <<file, temp, tree, escaped, upl, dnl, mixed>>

\* send_upload, send_upload_from_reader: the chunks, then Done.  A guest that closed the
\* connection fails the send.
SendUpload(t) ==
  /\ hs[t].pc = "send"
  /\ \/ /\ upl[t] = <<>>
        /\ upl' = [upl EXCEPT ![t] = IF hs[t].n = 0 THEN <<"done">> ELSE <<"chunk">>]
        /\ hs' = [hs EXCEPT ![t].pc = IF hs[t].n = 0 THEN "await" ELSE "send",
                            ![t].n = IF @ = 0 THEN 0 ELSE @ - 1]
     \/ Ended(t) /\ Host(t, "error") /\ upl' = upl
  /\ UNCHANGED <<file, temp, tree, escaped, gs, dnl, mixed>>

\* expect_upload_ok; end of stream is an error.
UploadAnswer(t) ==
  /\ hs[t].pc = "await"
  /\ \/ dnl[t] = <<"ok">> /\ Host(t, "ok")
     \/ dnl[t] = <<"error">> /\ Host(t, "error")
     \/ dnl[t] = <<>> /\ Ended(t) /\ Host(t, "error")
  /\ dnl' = [dnl EXCEPT ![t] = <<>>]
  /\ UNCHANGED <<file, temp, tree, escaped, gs, upl, mixed>>

\* account_download_chunk: the cap is checked before the buffer grows.
WithinCap(t) == Len(hs[t].acc) + 1 <= MaxDownload

\* Mutation: a stream that just ends is a whole file.
RecvDownloadLax(t) ==
  /\ hs[t].pc = "recv"
  /\ \/ /\ dnl[t] \notin {<<>>, <<"finished">>, <<"error">>}
        /\ hs' = IF WithinCap(t) THEN [hs EXCEPT ![t].acc = @ \o dnl[t]]
                 ELSE [hs EXCEPT ![t].pc = "error"]
     \/ dnl[t] = <<"finished">> /\ Host(t, "ok")
     \/ dnl[t] = <<"error">> /\ Host(t, "error")
     \/ dnl[t] = <<>> /\ Ended(t) /\ Host(t, "ok")
  /\ dnl' = [dnl EXCEPT ![t] = <<>>]
  /\ UNCHANGED <<file, temp, tree, escaped, gs, upl, mixed>>

\* recv_download, recv_download_to_writer: only Done ends a download well.
RecvDownload(t) ==
  /\ hs[t].pc = "recv"
  /\ \/ /\ dnl[t] \notin {<<>>, <<"finished">>, <<"error">>}
        /\ hs' = IF WithinCap(t) THEN [hs EXCEPT ![t].acc = @ \o dnl[t]]
                 ELSE [hs EXCEPT ![t].pc = "error"]
     \/ dnl[t] = <<"finished">> /\ Host(t, "ok")
     \/ dnl[t] = <<"error">> /\ Host(t, "error")
     \/ dnl[t] = <<>> /\ Ended(t) /\ Host(t, "error")
  /\ dnl' = [dnl EXCEPT ![t] = <<>>]
  /\ UNCHANGED <<file, temp, tree, escaped, gs, upl, mixed>>

\* The caller is cancelled.
Drop(t) ==
  /\ hs[t].pc \in {"send", "await", "recv"}
  /\ Host(t, "error")
  /\ UNCHANGED <<file, temp, tree, escaped, gs, upl, dnl, mixed>>

-----------------------------------------------------------------------------
\* The guest: uploads.

\* recv_upload_to_file: a fresh temp file (TEMP_SEQ), or the error is answered.
CreateTemp(t) ==
  /\ gs[t].pc = "create"
  /\ \/ temp' = [temp EXCEPT ![t] = <<>>] /\ Guest(t, "recv")
     \/ temp' = temp /\ Outcome(t, "reply", FALSE)
  /\ UNCHANGED <<file, tree, escaped, hs, upl, dnl, mixed>>

\* Every error of the stream removes the temp file.
DiscardTemp(t) == temp' = [temp EXCEPT ![t] = NoTemp]

\* recv_upload_to_writer: the cap is checked before the chunk is written; the write may
\* fail, and a host that is gone ends the stream.
RecvUpload(t) ==
  /\ gs[t].pc = "recv"
  /\ \/ /\ upl[t] = <<"chunk">> /\ Len(temp[t]) + 1 <= MaxUpload
        /\ temp' = [temp EXCEPT ![t] = Append(@, t)] /\ gs' = gs
     \/ /\ upl[t] = <<"done">>
        /\ temp' = temp /\ Guest(t, IF hs[t].kind = "put" THEN "target" ELSE "dest")
     \/ /\ upl[t] # <<>> \/ Gone(t)
        /\ DiscardTemp(t) /\ Outcome(t, "reply", FALSE)
  /\ upl' = [upl EXCEPT ![t] = <<>>]
  /\ UNCHANGED <<file, tree, escaped, hs, dnl, mixed>>

\* handle_write: tokio::fs::copy truncates the target...
OpenTarget(t) ==
  /\ gs[t].pc = "target"
  /\ \/ /\ file' = <<>> /\ gs' = [gs EXCEPT ![t].pc = "copy", ![t].off = 0]
        /\ mixed' = Overlapping(t, Busy)
     \/ file' = file /\ Outcome(t, "unlink", FALSE) /\ mixed' = mixed
  /\ UNCHANGED <<temp, tree, escaped, hs, upl, dnl>>

\* ...and writes it piece by piece; a failure leaves what was written.
Copy(t) ==
  /\ gs[t].pc = "copy"
  /\ \/ /\ gs[t].off < Len(temp[t])
        /\ file' = Append(file, temp[t][gs[t].off + 1])
        /\ gs' = [gs EXCEPT ![t].off = @ + 1]
     \/ /\ file' = file
        /\ \E good \in {FALSE, gs[t].off = Len(temp[t])} :
             gs' = [gs EXCEPT ![t].pc = "unlink", ![t].ok = good, ![t].whole = (file = temp[t])]
  /\ UNCHANGED <<temp, tree, escaped, hs, upl, dnl, mixed>>

\* handle_copy_in: the destination is created, then the archive read.
OpenDest(t) ==
  /\ gs[t].pc = "dest"
  /\ \/ gs' = [gs EXCEPT ![t].pc = "unpack", ![t].off = 0] /\ mixed' = Overlapping(t, Writers)
     \/ Outcome(t, "unlink", FALSE) /\ mixed' = mixed
  /\ UNCHANGED <<file, temp, tree, escaped, hs, upl, dnl>>

\* Mutation: the components of a member's name are not looked up.
JailedByName(m) == m # "parent"

\* jailed_join: no absolute or parent component, and no component that is a symlink now.
Jailed(m) == m \notin {"parent"} /\ (m \in {"symlink", "through"} => "symlink" \notin tree)

\* copy_in_archive, one member: a blocked one ends the extraction, earlier ones stay.
CheckMember(t) ==
  /\ gs[t].pc = "unpack"
  /\ \/ /\ gs[t].off < Len(temp[t])
        /\ \E m \in Members :
             gs' = IF Jailed(m) /\ m # "hardlink"
                   THEN [gs EXCEPT ![t].pc = "member", ![t].member = m, ![t].off = @ + 1]
                   ELSE [gs EXCEPT ![t].pc = "unlink", ![t].ok = FALSE]
     \/ gs[t].off = Len(temp[t]) /\ Outcome(t, "unlink", TRUE)
  /\ UNCHANGED <<file, temp, tree, escaped, hs, upl, dnl, mixed>>

\* create_dir_all and unpack follow symlinks; a symlink cannot replace a directory.
UnpackMember(t) ==
  LET m == gs[t].member IN
  /\ gs[t].pc = "member"
  /\ \/ /\ ~(m = "symlink" /\ "through" \in tree)
        /\ tree' = tree \cup {m} /\ Guest(t, "unpack")
        /\ escaped' = IF m = "through" /\ "symlink" \in tree THEN escaped \cup {t} ELSE escaped
     \/ Outcome(t, "unlink", FALSE) /\ UNCHANGED <<tree, escaped>>
  /\ UNCHANGED <<file, temp, hs, upl, dnl, mixed>>

\* "Always clean up temp file".
Unlink(t) ==
  /\ gs[t].pc = "unlink"
  /\ temp' = [temp EXCEPT ![t] = NoTemp]
  /\ Guest(t, "reply")
  /\ UNCHANGED <<file, tree, escaped, hs, upl, dnl, mixed>>

\* UploadResult or Download::Error; the session ends, and with it the connection.
Reply(t) ==
  /\ gs[t].pc = "reply"
  /\ dnl' = IF Gone(t) THEN dnl ELSE [dnl EXCEPT ![t] = IF gs[t].ok THEN <<"ok">> ELSE <<"error">>]
  /\ Guest(t, "done")
  /\ UNCHANGED <<file, temp, tree, escaped, hs, upl, mixed>>

-----------------------------------------------------------------------------
\* The guest: downloads.

OpenFile(t) ==
  /\ gs[t].pc = "open"
  /\ \/ Guest(t, "stream") /\ mixed' = Overlapping(t, Writers)
     \/ Outcome(t, "reply", FALSE) /\ mixed' = mixed
  /\ UNCHANGED <<file, temp, tree, escaped, hs, upl, dnl>>

\* handle_copy_out: the archive is built in a temp file...
CreateArchive(t) ==
  /\ gs[t].pc = "archive"
  /\ temp' = [temp EXCEPT ![t] = <<>>]
  /\ Guest(t, "pack") /\ mixed' = Overlapping(t, Writers)
  /\ UNCHANGED <<file, tree, escaped, hs, upl, dnl>>

Pack(t) ==
  /\ gs[t].pc = "pack"
  /\ \/ /\ Len(temp[t]) < Len(file)
        /\ temp' = [temp EXCEPT ![t] = Append(@, file[Len(@) + 1])] /\ gs' = gs
     \/ Len(temp[t]) >= Len(file) /\ temp' = temp /\ Guest(t, "reopen")
     \/ temp' = [temp EXCEPT ![t] = NoTemp] /\ Outcome(t, "reply", FALSE)
  /\ UNCHANGED <<file, tree, escaped, hs, upl, dnl, mixed>>

\* ...and opened again to be sent; failing that, `?` ends the session and the file stays.
Reopen(t) ==
  /\ gs[t].pc = "reopen"
  /\ Guest(t, "stream") \/ Guest(t, "lost")
  /\ UNCHANGED <<file, temp, tree, escaped, hs, upl, dnl, mixed>>

Source(t) == IF hs[t].kind = "get" THEN file ELSE temp[t]

\* send_download_from_reader: chunks to the end of the source, then Done.  A read or send
\* error ends the session without Done; copy-out then removes its temp file.
Stream(t) ==
  /\ gs[t].pc = "stream"
  /\ \/ /\ ~Gone(t) /\ dnl[t] = <<>>
        /\ IF gs[t].off < Len(Source(t))
           THEN /\ dnl' = [dnl EXCEPT ![t] = <<Source(t)[gs[t].off + 1]>>]
                /\ gs' = [gs EXCEPT ![t].off = @ + 1]
                /\ temp' = temp
           ELSE /\ dnl' = [dnl EXCEPT ![t] = <<"finished">>]
                /\ gs' = [gs EXCEPT ![t].pc = "done", ![t].whole = (gs[t].off = Len(Source(t)))]
                /\ temp' = [temp EXCEPT ![t] = NoTemp]
     \/ /\ dnl' = dnl
        /\ gs' = [gs EXCEPT ![t].pc = "done", ![t].whole = (gs[t].off = Len(Source(t)))]
        /\ temp' = [temp EXCEPT ![t] = NoTemp]
  /\ UNCHANGED <<file, tree, escaped, hs, upl, mixed>>

Step(t) ==
  \/ Begin(t) \/ SendUpload(t) \/ UploadAnswer(t) \/ RecvDownload(t) \/ Drop(t)
  \/ CreateTemp(t) \/ RecvUpload(t) \/ OpenTarget(t) \/ Copy(t)
  \/ OpenDest(t) \/ CheckMember(t) \/ UnpackMember(t) \/ Unlink(t) \/ Reply(t)
  \/ OpenFile(t) \/ CreateArchive(t) \/ Pack(t) \/ Reopen(t) \/ Stream(t)

Next == \E t \in Transfers : Step(t)

Spec == Init /\ [][Next]_tvars
-----------------------------------------------------------------------------

\* What a successful transfer delivered is whole: the path held every chunk of an upload
\* when its copy ended, and a download returned as many chunks as its source held, unless
\* another transfer wrote to the path at the same time.
TransferWhole ==
  \A t \in Transfers : hs[t].pc = "ok" /\ hs[t].kind # "in" =>
    t \in mixed \/ (gs[t].whole /\ (hs[t].kind \in {"get", "out"} => Len(hs[t].acc) = gs[t].off))

\* No member is written through a symlink an earlier member planted: the name is looked
\* up again for every member.  Two extractions at one place are not protected.
NoEscape == escaped \subseteq mixed
=============================================================================
