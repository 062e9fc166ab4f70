-------------------------- MODULE GuestPartsProofs --------------------------
(***************************************************************************)
(* The guest agent's components: a transfer that is reported done is       *)
(* whole, nothing of an archive lands outside its destination, and a guest *)
(* that listens is set up as configured, with an inductive invariant for   *)
(* each component.                                                         *)
(***************************************************************************)
EXTENDS GuestParts, TLAPS

-----------------------------------------------------------------------------
(* Transfers between host and guest (guest files.rs, codec.rs).            *)

\* What a chunk may be, and the values of the transfer's variables.
Labels == Transfers \cup {Old, "none"}
HostPcs == {"idle", "send", "await", "recv", "ok", "error"}
GuestPcs == {"idle", "create", "recv", "target", "copy", "dest", "unpack", "member", "unlink", "reply",
             "open", "archive", "pack", "reopen", "stream", "done", "lost"}
Messages == {<<>>, <<"finished">>, <<"error">>, <<"ok">>} \cup {<<x>> : x \in Labels}
HostRecs == [pc : HostPcs, kind : T!Kinds, n : Nat, acc : Seq(Labels)]
GuestRecs == [pc : GuestPcs, off : Nat, ok : BOOLEAN, member : T!Members, whole : BOOLEAN]

\* Chunks in files, one record per end, at most one message on its way to the host.
TransferTypes ==
    /\ file \in Seq(Labels) /\ temp \in [Transfers -> Seq(Labels)]
    /\ hs \in [Transfers -> HostRecs] /\ gs \in [Transfers -> GuestRecs]
    /\ dnl \in [Transfers -> Messages]

\* The direction of a transfer; a message that carries a chunk.
Up(h) == h.kind \in {"put", "in"}
Down(h) == h.kind \in {"get", "out"}
Chunks(m) == IF m \in {<<>>, <<"finished">>, <<"error">>} THEN 0 ELSE 1

\* How far the two ends of a transfer may be apart: the kind of request fixes the guest's stages,
\* an ok or a Done is only sent or believed after the guest has ended, and the chunks received and
\* the one on its way are those the guest has read.
Coherent(h, g, m) ==
    /\ h.pc = "idle" => g.pc = "idle" /\ g.off = 0 /\ g.ok /\ g.whole /\ m = <<>>
    /\ h.kind = "put" => g.pc \in {"idle", "create", "recv", "target", "copy", "unlink", "reply", "done"}
    /\ h.kind = "in" => g.pc \in {"create", "recv", "dest", "unpack", "member", "unlink", "reply", "done"}
    /\ h.kind = "get" => g.pc \in {"open", "stream", "reply", "done"}
    /\ h.kind = "out" => g.pc \in {"archive", "pack", "reopen", "stream", "reply", "done", "lost"}
    /\ (h.pc \in {"send", "await"} => Up(h)) /\ (h.pc = "recv" => Down(h))
    /\ m = <<"ok">> \/ (h.pc = "ok" /\ Up(h)) => Up(h) /\ g.pc = "done" /\ g.ok
    /\ m = <<"finished">> \/ (h.pc = "ok" /\ Down(h)) => Down(h) /\ g.pc = "done"
    /\ Down(h) /\ g.pc \notin {"stream", "done"} => g.off = 0 /\ m = <<>>
    /\ Down(h) /\ g.pc = "reply" => ~g.ok
    /\ h.pc = "recv" => Len(h.acc) + Chunks(m) = g.off
    /\ h.pc = "ok" /\ Down(h) => Len(h.acc) = g.off

\* The first n chunks of s are f.
Copied(f, s, n) == Len(f) = n /\ n <= Len(s) /\ \A i \in 1 .. n : f[i] = s[i]

\* What a transfer nobody disturbed finds at its path f: a copy is the prefix of the temporary
\* file, an upload or download that went well is whole.
Intact(h, g, s, m, f) ==
    /\ g.pc = "copy" => Copied(f, s, g.off)
    /\ h.kind = "put" /\ g.ok => g.whole
    /\ g.pc = "stream" => g.off <= Len(IF h.kind = "get" THEN f ELSE s)
    /\ m = <<"finished">> \/ (h.pc = "ok" /\ Down(h)) => g.whole

\* Stages that write or read the path, and pairs that spoil each other.
Writes(g) == g.pc \in {"copy", "unpack", "member"}
Reads(h, g) == g.pc = "pack" \/ (g.pc = "stream" /\ h.kind = "get")
Clash(h, g, i, k) ==
    (Writes(g) /\ Writes(k)) \/ (g.pc = "copy" /\ Reads(i, k)) \/ (k.pc = "copy" /\ Reads(h, g))

\* Transfers that spoil each other are both marked.
Apart == \A t, u \in Transfers : t # u /\ Clash(hs[t], gs[t], hs[u], gs[u]) => t \in mixed

\* jailed_join found no symlink on the way of the member being written, unless another
\* extraction planted it since.
Looked(t) == gs[t].pc = "member" /\ gs[t].member = "through" /\ "symlink" \in tree => t \in mixed

\* The inductive invariant.
TInv ==
    /\ TransferTypes /\ Apart
    /\ \A t \in Transfers :
        /\ Coherent(hs[t], gs[t], dnl[t]) /\ Looked(t)
        /\ t \in mixed \/ Intact(hs[t], gs[t], temp[t], dnl[t], file)
    /\ T!NoEscape

\* What a step makes of the records of transfer t, and that it marks or leaves alone the others.
Moves(t, h, g, s, m) ==
    /\ h \in HostRecs /\ hs' = [hs EXCEPT ![t] = h]
    /\ g \in GuestRecs /\ gs' = [gs EXCEPT ![t] = g]
    /\ s \in Seq(Labels) /\ temp' = [temp EXCEPT ![t] = s]
    /\ m \in Messages /\ dnl' = [dnl EXCEPT ![t] = m]
Spares(t, h, g) == \A u \in Transfers \ {t} :
    /\ Clash(h, g, hs[u], gs[u]) => t \in mixed' /\ u \in mixed'
    /\ u \in mixed' \/ file' = file \/ ~(gs[u].pc = "copy" \/ Reads(hs[u], gs[u]))

\* A step of one transfer keeps TInv if its own part is in order and it spares the others.
LEMMA TransferStep ==
    ASSUME TInv, NEW t \in Transfers, NEW h, NEW g, NEW s, NEW m, Moves(t, h, g, s, m), Spares(t, h, g),
           file' \in Seq(Labels), mixed \subseteq mixed', T!NoEscape',
           "symlink" \in tree' => "symlink" \in tree \/ Writes(gs[t]),
           g.pc = "member" /\ g.member = "through" /\ "symlink" \in tree' => t \in mixed',
           Coherent(h, g, m), t \in mixed' \/ Intact(h, g, s, m, file')
    PROVE  TInv'
<1>1. TransferTypes /\ Apart
    BY Zenon DEF TInv
<1>2. /\ hs' \in [Transfers -> HostRecs] /\ hs'[t] = h /\ \A u \in Transfers \ {t} : hs'[u] = hs[u]
      /\ gs' \in [Transfers -> GuestRecs] /\ gs'[t] = g /\ \A u \in Transfers \ {t} : gs'[u] = gs[u]
    BY Zenon, <1>1 DEF TransferTypes, Moves
<1>3. /\ temp' \in [Transfers -> Seq(Labels)] /\ temp'[t] = s /\ \A u \in Transfers \ {t} : temp'[u] = temp[u]
      /\ dnl' \in [Transfers -> Messages] /\ dnl'[t] = m /\ \A u \in Transfers \ {t} : dnl'[u] = dnl[u]
    BY Zenon, <1>1 DEF TransferTypes, Moves
<1>4. TransferTypes'
    BY Zenon, <1>2, <1>3 DEF TransferTypes
<1>5. Apart'
    <2> SUFFICES ASSUME NEW u \in Transfers, NEW v \in Transfers, u # v, Clash(hs'[u], gs'[u], hs'[v], gs'[v])
                 PROVE  u \in mixed'
        BY Zenon DEF Apart
    <2>1. CASE u = t
        BY Zenon, <1>2, <2>1 DEF Spares
    <2>2. CASE v = t
        <3>1. Clash(h, g, hs[u], gs[u])
            BY Zenon, <1>2, <2>2 DEF Clash
        <3> QED BY Zenon, <2>2, <3>1 DEF Spares
    <2>3. CASE u # t /\ v # t
        BY Zenon, <1>1, <1>2, <2>3 DEF Apart
    <2> QED BY Zenon, <2>1, <2>2, <2>3
<1>6. ASSUME NEW u \in Transfers
      PROVE  /\ Coherent(hs'[u], gs'[u], dnl'[u]) /\ Looked(u)'
             /\ u \in mixed' \/ Intact(hs'[u], gs'[u], temp'[u], dnl'[u], file')
    <2>1. CASE u = t
        <3>1. Looked(u)'
            BY Zenon, <1>2, <2>1 DEF Looked
        <3> QED BY Zenon, <1>2, <1>3, <2>1, <3>1
    <2>2. CASE u # t
        <3>1. hs'[u] = hs[u] /\ gs'[u] = gs[u] /\ temp'[u] = temp[u] /\ dnl'[u] = dnl[u]
            BY Zenon, <1>2, <1>3, <2>2
        <3>2. /\ Coherent(hs[u], gs[u], dnl[u]) /\ Looked(u)
              /\ u \in mixed \/ Intact(hs[u], gs[u], temp[u], dnl[u], file)
            BY Zenon DEF TInv
        <3>3. Looked(u)'
            <4>1. gs[u].pc = "member" /\ Writes(gs[t]) => u \in mixed
                BY Zenon, <1>1, <2>2 DEF Apart, Clash, Writes
            <4> QED BY Zenon, <3>1, <3>2, <4>1 DEF Looked
        <3>4. u \in mixed' \/ Intact(hs[u], gs[u], temp[u], dnl[u], file')
            <4>1. u \in mixed' \/ file' = file \/ ~(gs[u].pc = "copy" \/ Reads(hs[u], gs[u]))
                BY Zenon, <2>2 DEF Spares
            <4> QED BY Zenon, <3>2, <4>1 DEF Intact, Reads
        <3> QED BY Zenon, <3>1, <3>2, <3>3, <3>4
    <2> QED BY Zenon, <2>1, <2>2
<1> QED BY Zenon, <1>4, <1>5, <1>6 DEF TInv

\* A step that begins no write and no read of the path, and writes nothing.
Calm(t, h, g) ==
    \/ g.pc = gs[t].pc /\ g.member = gs[t].member /\ h.kind = hs[t].kind
    \/ ~Writes(g) /\ ~Reads(h, g)

\* Such a step needs to show its own part only.
LEMMA CalmStep ==
    ASSUME TInv, NEW t \in Transfers, NEW h, NEW g, NEW s, NEW m, Moves(t, h, g, s, m), Calm(t, h, g),
           UNCHANGED <<file, tree, escaped, mixed>>,
           Coherent(h, g, m), t \in mixed \/ Intact(h, g, s, m, file)
    PROVE  TInv'
<1>1. Apart /\ Looked(t) /\ T!NoEscape /\ file \in Seq(Labels)
    BY Zenon DEF TInv, TransferTypes
<1>2. Spares(t, h, g)
    <2> SUFFICES ASSUME NEW u \in Transfers \ {t}, Clash(h, g, hs[u], gs[u]) PROVE t \in mixed /\ u \in mixed
        BY Zenon DEF Spares
    <2>1. Clash(hs[t], gs[t], hs[u], gs[u]) /\ Clash(hs[u], gs[u], hs[t], gs[t])
        BY Zenon DEF Clash, Calm, Writes, Reads
    <2> QED BY Zenon, <1>1, <2>1 DEF Apart
<1>3. T!NoEscape' /\ file' \in Seq(Labels) /\ mixed \subseteq mixed' /\ ("symlink" \in tree' => "symlink" \in tree)
    BY Zenon, <1>1 DEF T!NoEscape
<1>4. g.pc = "member" /\ g.member = "through" /\ "symlink" \in tree' => t \in mixed'
    BY Zenon, <1>1 DEF Calm, Looked, Writes
<1>5. t \in mixed' \/ Intact(h, g, s, m, file')
    BY Zenon
<1> QED BY Zenon, <1>2, <1>3, <1>4, <1>5, TransferStep

\* What TInv says of one transfer.
LEMMA TransferFacts ==
    ASSUME TInv, NEW t \in Transfers
    PROVE  /\ hs[t] \in HostRecs /\ gs[t] \in GuestRecs /\ temp[t] \in Seq(Labels) /\ dnl[t] \in Messages
           /\ file \in Seq(Labels)
           /\ Coherent(hs[t], gs[t], dnl[t])
           /\ t \in mixed \/ Intact(hs[t], gs[t], temp[t], dnl[t], file)
           /\ hs = [hs EXCEPT ![t] = hs[t]] /\ gs = [gs EXCEPT ![t] = gs[t]]
           /\ temp = [temp EXCEPT ![t] = temp[t]] /\ dnl = [dnl EXCEPT ![t] = dnl[t]]
BY Zenon DEF TInv, TransferTypes

\* The messages of the protocol are different.
LEMMA MessageFacts ==
    ASSUME NEW m \in Messages
    PROVE  /\ <<>> \in Messages /\ <<"finished">> \in Messages /\ <<"error">> \in Messages /\ <<"ok">> \in Messages
           /\ <<>> # <<"finished">> /\ <<>> # <<"ok">> /\ <<>> # <<"error">>
           /\ <<"finished">> # <<"ok">> /\ <<"finished">> # <<"error">> /\ <<"ok">> # <<"error">>
           /\ m \notin {<<>>, <<"finished">>, <<"error">>, <<"ok">>} => \E x \in Labels : m = <<x>>
BY Zenon DEF Messages

\* The host's record with another stage is one.
LEMMA HostRec ==
    ASSUME NEW h \in HostRecs, NEW p \in HostPcs
    PROVE  LET r == [h EXCEPT !.pc = p] IN
           r \in HostRecs /\ r.pc = p /\ r.kind = h.kind /\ r.acc = h.acc
BY Zenon DEF HostRecs

\* The same of the guest's stage.
LEMMA GuestRec ==
    ASSUME NEW g \in GuestRecs, NEW p \in GuestPcs
    PROVE  LET r == [g EXCEPT !.pc = p] IN
           r \in GuestRecs /\ r.pc = p /\ r.off = g.off /\ r.ok = g.ok /\ r.member = g.member /\ r.whole = g.whole
BY Zenon DEF GuestRecs

\* The same of the guest's stage and outcome.
LEMMA OutcomeRec ==
    ASSUME NEW g \in GuestRecs, NEW p \in GuestPcs, NEW good \in BOOLEAN
    PROVE  LET r == [g EXCEPT !.pc = p, !.ok = good] IN
           r \in GuestRecs /\ r.pc = p /\ r.off = g.off /\ r.ok = good /\ r.member = g.member /\ r.whole = g.whole
BY Zenon DEF GuestRecs

\* The guest's record after one more chunk.
LEMMA OffRec ==
    ASSUME NEW g \in GuestRecs, NEW n \in Nat
    PROVE  LET r == [g EXCEPT !.off = n] IN
           r \in GuestRecs /\ r.pc = g.pc /\ r.off = n /\ r.ok = g.ok /\ r.member = g.member /\ r.whole = g.whole
BY Zenon DEF GuestRecs

\* TInv holds at first: no request is open.
LEMMA TInvInit == T!Init => TInv
<1> SUFFICES ASSUME T!Init PROVE TInv
    BY Zenon
<1> DEFINE h == [pc |-> "idle", kind |-> "put", n |-> 0, acc |-> <<>>]
           g == [pc |-> "idle", off |-> 0, ok |-> TRUE, member |-> "plain", whole |-> TRUE]
<1>1. h \in HostRecs /\ g \in GuestRecs /\ h.pc = "idle" /\ h.kind = "put" /\ g.pc = "idle" /\ g.off = 0
      /\ g.ok /\ g.whole
    BY DEF HostRecs, GuestRecs, HostPcs, GuestPcs, T!Kinds, T!Members
<1>2. hs = [t \in Transfers |-> h] /\ gs = [t \in Transfers |-> g] /\ dnl = [t \in Transfers |-> <<>>]
      /\ temp = [t \in Transfers |-> T!NoTemp] /\ file = <<Old>> /\ escaped = {}
    BY Zenon DEF T!Init
<1> HIDE DEF h, g
<1>3. T!NoTemp \in Seq(Labels) /\ <<Old>> \in Seq(Labels) /\ <<>> \in Messages
    BY DEF T!NoTemp, Labels, Messages
<1>4. \A t \in Transfers : hs[t] = h /\ gs[t] = g /\ dnl[t] = <<>> /\ temp[t] = T!NoTemp
    BY Zenon, <1>2
<1>5. TransferTypes
    BY Zenon, <1>1, <1>2, <1>3 DEF TransferTypes
<1>6. Coherent(h, g, <<>>)
    BY Zenon, <1>1 DEF Coherent, Up, Down
<1>7. Intact(h, g, T!NoTemp, <<>>, file)
    BY Zenon, <1>1 DEF Intact, Down
<1>8. Apart /\ \A t \in Transfers : Looked(t)
    BY Zenon, <1>1, <1>4 DEF Apart, Looked, Clash, Writes
<1> QED BY Zenon, <1>2, <1>4, <1>5, <1>6, <1>7, <1>8 DEF TInv, T!NoEscape

\* connect and the request that follows: the guest starts where the kind of request says.
LEMMA BeginStep ==
    ASSUME TInv, NEW t \in Transfers, T!Begin(t) PROVE TInv'
<1>1. PICK k \in T!Kinds, n \in 0 .. MaxChunks :
        /\ hs' = [hs EXCEPT ![t] = [pc |-> IF k \in {"put", "in"} THEN "send" ELSE "recv",
                                    kind |-> k, n |-> n, acc |-> <<>>]]
        /\ T!Guest(t, CASE k \in {"put", "in"} -> "create" [] k = "get" -> "open" [] k = "out" -> "archive")
    BY Zenon DEF T!Begin
<1> DEFINE h == [pc |-> IF k \in {"put", "in"} THEN "send" ELSE "recv", kind |-> k, n |-> n, acc |-> <<>>]
           p == CASE k \in {"put", "in"} -> "create" [] k = "get" -> "open" [] k = "out" -> "archive"
           g == [gs[t] EXCEPT !.pc = p]
<1>2. /\ h \in HostRecs /\ h.kind = k /\ h.acc = <<>>
      /\ h.pc = IF k \in {"put", "in"} THEN "send" ELSE "recv"
    BY TransferAssumption DEF HostRecs, HostPcs, T!Kinds
<1>3. p \in GuestPcs /\ (k \in {"put", "in"} => p = "create") /\ (k = "get" => p = "open") /\ (k = "out" => p = "archive")
    BY Zenon DEF GuestPcs, T!Kinds
<1> HIDE DEF h, p
<1>4. g \in GuestRecs /\ g.pc = p /\ g.off = gs[t].off /\ g.ok = gs[t].ok /\ g.whole = gs[t].whole
    <2>1. gs[t] \in GuestRecs
        BY Zenon, TransferFacts
    <2> QED BY Zenon, <1>3, <2>1, GuestRec
<1>5. gs' = [gs EXCEPT ![t] = g] /\ hs' = [hs EXCEPT ![t] = h]
    BY Zenon, <1>1 DEF T!Guest, h, p
<1>6. hs[t].pc = "idle" /\ UNCHANGED <<file, temp, tree, escaped, dnl, mixed>>
    BY Zenon DEF T!Begin
<1>7. g.off = 0 /\ g.ok /\ g.whole /\ dnl[t] = <<>>
    BY Zenon, <1>4, <1>6, TransferFacts DEF Coherent
<1> HIDE DEF g
<1>8. Moves(t, h, g, temp[t], dnl[t])
    BY Zenon, <1>2, <1>4, <1>5, <1>6, TransferFacts DEF Moves
<1>9. Coherent(h, g, dnl[t])
    BY <1>2, <1>3, <1>4, <1>7 DEF Coherent, Up, Down, Chunks, T!Kinds
<1>10. Intact(h, g, temp[t], dnl[t], file)
    BY Zenon, <1>2, <1>3, <1>4, <1>7 DEF Intact, Down, T!Kinds
<1>11. Calm(t, h, g)
    BY Zenon, <1>3, <1>4 DEF Calm, Writes, Reads, T!Kinds
<1> QED BY Zenon, <1>6, <1>8, <1>9, <1>10, <1>11, CalmStep

\* A step of the host that ends its part, or changes nothing the guest sees.
LEMMA HostStep ==
    ASSUME TInv, NEW t \in Transfers, NEW h \in HostRecs, hs' = [hs EXCEPT ![t] = h], h.kind = hs[t].kind,
           NEW m \in Messages, dnl' = [dnl EXCEPT ![t] = m],
           UNCHANGED <<file, temp, tree, escaped, gs, mixed>>,
           Coherent(h, gs[t], m), h.pc = "ok" /\ Down(h) => dnl[t] = <<"finished">>, m = <<"finished">> => m = dnl[t]
    PROVE  TInv'
<1>1. Moves(t, h, gs[t], temp[t], m)
    BY Zenon, TransferFacts DEF Moves
<1>2. t \in mixed \/ Intact(h, gs[t], temp[t], m, file)
    BY Zenon, TransferFacts DEF Intact, Down
<1>3. Calm(t, h, gs[t])
    BY Zenon DEF Calm
<1> QED BY Zenon, <1>1, <1>2, <1>3, CalmStep

\* send_upload: chunks, then Done.
LEMMA SendUploadStep ==
    ASSUME TInv, NEW t \in Transfers, T!SendUpload(t) PROVE TInv'
<1>0. /\ hs[t] \in HostRecs /\ dnl[t] \in Messages /\ dnl = [dnl EXCEPT ![t] = dnl[t]] /\ hs[t].pc = "send"
      /\ UNCHANGED <<file, temp, tree, escaped, gs, dnl, mixed>> /\ Coherent(hs[t], gs[t], dnl[t])
    BY Zenon, TransferFacts DEF T!SendUpload
<1>1. Up(hs[t]) /\ ~Down(hs[t])
    BY Zenon, <1>0 DEF Coherent, Up, Down
<1>2. PICK h \in HostRecs : /\ hs' = [hs EXCEPT ![t] = h] /\ h.kind = hs[t].kind
                            /\ h.pc \in {"send", "await", "error"}
    <2>1. CASE T!Host(t, "error")
        <3>1. "error" \in HostPcs
            BY Zenon DEF HostPcs
        <3> DEFINE h == [hs[t] EXCEPT !.pc = "error"]
        <3>2. h \in HostRecs /\ h.kind = hs[t].kind /\ h.pc = "error"
            BY Zenon, <1>0, <3>1, HostRec
        <3>3. hs' = [hs EXCEPT ![t] = h]
            BY Zenon, <2>1 DEF T!Host
        <3> HIDE DEF h
        <3> QED BY Zenon, <3>2, <3>3
    <2>2. CASE hs' = [hs EXCEPT ![t].pc = IF hs[t].n = 0 THEN "await" ELSE "send",
                                ![t].n = IF @ = 0 THEN 0 ELSE @ - 1]
        <3> DEFINE p == IF hs[t].n = 0 THEN "await" ELSE "send"
                   n == IF hs[t].n = 0 THEN 0 ELSE hs[t].n - 1
                   h == [hs[t] EXCEPT !.pc = p, !.n = n]
        <3>1. hs' = [hs EXCEPT ![t] = h]
            BY Zenon, <2>2
        <3>2. hs[t].n \in Nat
            BY Zenon, <1>0 DEF HostRecs
        <3>3. p \in {"send", "await"} /\ p \in HostPcs /\ n \in Nat
            BY <3>2 DEF HostPcs
        <3> HIDE DEF p, n
        <3>4. h \in HostRecs /\ h.kind = hs[t].kind /\ h.pc = p
            BY Zenon, <1>0, <3>3 DEF HostRecs
        <3> HIDE DEF h
        <3> QED BY Zenon, <3>1, <3>3, <3>4
    <2> QED BY Zenon, <2>1, <2>2 DEF T!SendUpload
<1>3. Coherent(h, gs[t], dnl[t])
    BY Zenon, <1>0, <1>1, <1>2 DEF Coherent, Up, Down
<1>4. ~(h.pc = "ok" /\ Down(h))
    BY Zenon, <1>2
<1> QED BY Zenon, <1>0, <1>2, <1>3, <1>4, HostStep

\* The host takes the verdict it waits for.
LEMMA VerdictStep ==
    ASSUME TInv, NEW t \in Transfers, NEW p \in {"ok", "error"}, T!Host(t, p), hs[t].pc \in {"await", "recv"},
           p = "ok" => dnl[t] = IF hs[t].pc = "await" THEN <<"ok">> ELSE <<"finished">>,
           dnl' = [dnl EXCEPT ![t] = <<>>], UNCHANGED <<file, temp, tree, escaped, gs, mixed>>
    PROVE  TInv'
<1>0. /\ hs[t] \in HostRecs /\ dnl[t] \in Messages /\ gs[t] \in GuestRecs /\ Coherent(hs[t], gs[t], dnl[t])
      /\ p \in HostPcs
    BY Zenon, TransferFacts DEF HostPcs
<1> DEFINE h == [hs[t] EXCEPT !.pc = p]
<1>1. h \in HostRecs /\ h.kind = hs[t].kind /\ h.pc = p /\ h.acc = hs[t].acc
    BY Zenon, <1>0, HostRec
<1>2. hs' = [hs EXCEPT ![t] = h]
    BY Zenon DEF T!Host
<1> HIDE DEF h
<1>3. hs[t].acc \in Seq(Labels) /\ gs[t].off \in Nat
    BY Zenon, <1>0 DEF HostRecs, GuestRecs
<1>4. p = "ok" /\ hs[t].pc = "recv" => Len(hs[t].acc) = gs[t].off
    <2>1. p = "ok" /\ hs[t].pc = "recv" => Chunks(dnl[t]) = 0
        BY Zenon DEF Chunks
    <2>2. hs[t].pc = "recv" => Len(hs[t].acc) + Chunks(dnl[t]) = gs[t].off
        BY Zenon, <1>0 DEF Coherent
    <2> QED BY <1>3, <2>1, <2>2
<1>5. Coherent(h, gs[t], <<>>)
    BY Zenon, <1>0, <1>1, <1>4, MessageFacts DEF Coherent, Up, Down
<1>6. h.pc = "ok" /\ Down(h) => dnl[t] = <<"finished">>
    BY Zenon, <1>0, <1>1 DEF Coherent, Up, Down
<1>7. <<>> \in Messages /\ <<>> # <<"finished">>
    BY Zenon, <1>0, MessageFacts
<1> QED BY Zenon, <1>1, <1>2, <1>5, <1>6, <1>7, HostStep

\* expect_upload_ok.
LEMMA UploadAnswerStep ==
    ASSUME TInv, NEW t \in Transfers, T!UploadAnswer(t) PROVE TInv'
<1>1. hs[t].pc = "await" /\ dnl' = [dnl EXCEPT ![t] = <<>>] /\ UNCHANGED <<file, temp, tree, escaped, gs, mixed>>
    BY Zenon DEF T!UploadAnswer
<1>2. CASE dnl[t] = <<"ok">> /\ T!Host(t, "ok")
    BY Zenon, <1>1, <1>2, VerdictStep
<1>3. CASE T!Host(t, "error")
    BY Zenon, <1>1, <1>3, VerdictStep
<1> QED BY Zenon, <1>2, <1>3 DEF T!UploadAnswer

\* recv_download: a chunk within the cap, or the end.
LEMMA RecvDownloadStep ==
    ASSUME TInv, NEW t \in Transfers, T!RecvDownload(t) PROVE TInv'
<1>1. hs[t].pc = "recv" /\ dnl' = [dnl EXCEPT ![t] = <<>>] /\ UNCHANGED <<file, temp, tree, escaped, gs, mixed>>
    BY Zenon DEF T!RecvDownload
<1>2. CASE dnl[t] = <<"finished">> /\ T!Host(t, "ok")
    BY Zenon, <1>1, <1>2, VerdictStep
<1>3. CASE T!Host(t, "error")
    BY Zenon, <1>1, <1>3, VerdictStep
<1>4. CASE dnl[t] \notin {<<>>, <<"finished">>, <<"error">>} /\ hs' = [hs EXCEPT ![t].acc = @ \o dnl[t]]
    <2>0. /\ hs[t] \in HostRecs /\ dnl[t] \in Messages /\ gs[t] \in GuestRecs /\ Coherent(hs[t], gs[t], dnl[t])
        BY Zenon, TransferFacts
    <2>1. Down(hs[t]) /\ ~Up(hs[t]) /\ dnl[t] # <<"ok">>
        BY Zenon, <1>1, <2>0 DEF Coherent, Up, Down
    <2>2. PICK x \in Labels : dnl[t] = <<x>>
        BY Zenon, <1>4, <2>0, <2>1, MessageFacts
    <2>3. hs[t].acc \in Seq(Labels) /\ gs[t].off \in Nat
        BY Zenon, <2>0 DEF HostRecs, GuestRecs
    <2> DEFINE a == hs[t].acc \o <<x>>
               h == [hs[t] EXCEPT !.acc = a]
    <2>4. a \in Seq(Labels) /\ Len(a) = Len(hs[t].acc) + 1
        BY <2>3
    <2>5. hs' = [hs EXCEPT ![t] = h]
        BY Zenon, <1>4, <2>2
    <2> HIDE DEF a
    <2>6. h \in HostRecs /\ h.kind = hs[t].kind /\ h.pc = "recv" /\ h.acc = a
        BY Zenon, <1>1, <2>0, <2>4 DEF HostRecs
    <2> HIDE DEF h
    <2>7. Len(hs[t].acc) + 1 = gs[t].off
        BY Zenon, <1>1, <1>4, <2>0 DEF Coherent, Chunks
    <2>8. Coherent(h, gs[t], <<>>)
        <3>1. Len(a) + Chunks(<<>>) = gs[t].off
            BY <2>3, <2>4, <2>7 DEF Chunks
        <3> QED BY Zenon, <1>1, <2>0, <2>1, <2>6, <3>1, MessageFacts DEF Coherent, Up, Down
    <2>9. <<>> \in Messages /\ <<>> # <<"finished">> /\ h.pc # "ok"
        BY Zenon, <2>0, <2>6, MessageFacts
    <2> QED BY Zenon, <1>1, <2>5, <2>6, <2>8, <2>9, HostStep
<1>5. CASE hs' = [hs EXCEPT ![t].pc = "error"]
    BY Zenon, <1>1, <1>5, VerdictStep DEF T!Host
<1> QED BY Zenon, <1>2, <1>3, <1>4, <1>5 DEF T!RecvDownload

\* The caller gives up; what it waited for is dropped.
LEMMA DropStep ==
    ASSUME TInv, NEW t \in Transfers, T!Drop(t) PROVE TInv'
<1>0. /\ hs[t] \in HostRecs /\ dnl[t] \in Messages /\ dnl = [dnl EXCEPT ![t] = dnl[t]]
      /\ UNCHANGED <<file, temp, tree, escaped, gs, dnl, mixed>> /\ Coherent(hs[t], gs[t], dnl[t])
    BY Zenon, TransferFacts DEF T!Drop
<1>1. "error" \in HostPcs
    BY Zenon DEF HostPcs
<1> DEFINE h == [hs[t] EXCEPT !.pc = "error"]
<1>2. h \in HostRecs /\ h.kind = hs[t].kind /\ h.pc = "error"
    BY Zenon, <1>0, <1>1, HostRec
<1>3. hs' = [hs EXCEPT ![t] = h] /\ hs[t].pc \in {"send", "await", "recv"}
    BY Zenon DEF T!Host, T!Drop
<1> HIDE DEF h
<1>4. Coherent(h, gs[t], dnl[t])
    BY Zenon, <1>0, <1>2, <1>3 DEF Coherent, Up, Down
<1>5. h.pc # "ok"
    BY Zenon, <1>2
<1> QED BY Zenon, <1>0, <1>2, <1>3, <1>4, <1>5, HostStep

\* A step of the guest that leaves the path and the archive alone.
LEMMA GuestStep ==
    ASSUME TInv, NEW t \in Transfers, NEW g \in GuestRecs, gs' = [gs EXCEPT ![t] = g],
           NEW s \in Seq(Labels), temp' = [temp EXCEPT ![t] = s],
           NEW m \in Messages, dnl' = [dnl EXCEPT ![t] = m],
           UNCHANGED <<file, tree, escaped, hs, mixed>>, Calm(t, hs[t], g),
           Coherent(hs[t], g, m), t \in mixed \/ Intact(hs[t], g, s, m, file)
    PROVE  TInv'
<1>1. Moves(t, hs[t], g, s, m)
    BY Zenon, TransferFacts DEF Moves
<1> QED BY Zenon, <1>1, CalmStep

\* The guest goes on to a stage that neither writes nor reads the path, or gives up.
Turns(t, p, good) == gs' = [gs EXCEPT ![t] = [gs[t] EXCEPT !.pc = p, !.ok = good]]
Follows(t, p, good) ==
    /\ gs[t].pc \notin {"idle", "stream", "done", "lost"}
    /\ p \in {"recv", "target", "dest", "unlink", "reply", "reopen", "lost"} /\ good \in BOOLEAN
    /\ hs[t].kind = "put" => (good => gs[t].ok) /\ p \in {"recv", "target", "unlink", "reply"}
    /\ hs[t].kind = "in" => p \in {"recv", "dest", "unlink", "reply"}
    /\ hs[t].kind = "get" => p = "reply" /\ ~good
    /\ hs[t].kind = "out" => p \in {"reopen", "lost"} \/ (p = "reply" /\ ~good)

\* Such a turn keeps TInv.
LEMMA TurnStep ==
    ASSUME TInv, NEW t \in Transfers, NEW p, NEW good, Turns(t, p, good), Follows(t, p, good),
           NEW s \in Seq(Labels), temp' = [temp EXCEPT ![t] = s],
           UNCHANGED <<file, tree, escaped, hs, mixed, dnl>>
    PROVE  TInv'
<1>0. /\ hs[t] \in HostRecs /\ gs[t] \in GuestRecs /\ dnl[t] \in Messages /\ dnl = [dnl EXCEPT ![t] = dnl[t]]
      /\ Coherent(hs[t], gs[t], dnl[t]) /\ (t \in mixed \/ Intact(hs[t], gs[t], temp[t], dnl[t], file))
    BY Zenon, TransferFacts
<1> DEFINE g == [gs[t] EXCEPT !.pc = p, !.ok = good]
<1>1. p \in GuestPcs /\ good \in BOOLEAN
    BY Zenon DEF Follows, GuestPcs
<1>2. g \in GuestRecs /\ g.pc = p /\ g.off = gs[t].off /\ g.ok = good /\ g.whole = gs[t].whole
    BY Zenon, <1>0, <1>1 DEF GuestRecs
<1>3. gs' = [gs EXCEPT ![t] = g]
    BY Zenon DEF Turns
<1> HIDE DEF g
<1>4. hs[t].kind \in T!Kinds /\ hs[t].pc # "idle"
    BY Zenon, <1>0 DEF HostRecs, Coherent, Follows
<1>5. Coherent(hs[t], g, dnl[t])
    BY Zenon, <1>0, <1>2, <1>4 DEF Coherent, Up, Down, T!Kinds, Follows
<1>6. t \in mixed \/ Intact(hs[t], g, s, dnl[t], file)
    BY Zenon, <1>0, <1>2 DEF Intact, Down, Follows
<1>7. Calm(t, hs[t], g)
    BY Zenon, <1>2 DEF Calm, Writes, Reads, Follows
<1>8. UNCHANGED <<file, tree, escaped, hs, mixed>> /\ dnl' = [dnl EXCEPT ![t] = dnl[t]]
    BY Zenon, <1>0
<1> QED BY Zenon, <1>0, <1>2, <1>3, <1>5, <1>6, <1>7, <1>8, GuestStep

\* Guest is such a turn.
LEMMA GuestShape ==
    ASSUME TInv, NEW t \in Transfers, NEW p, T!Guest(t, p)
    PROVE  Turns(t, p, gs[t].ok)
<1>1. gs[t] \in GuestRecs
    BY Zenon, TransferFacts
<1>2. [gs[t] EXCEPT !.pc = p, !.ok = gs[t].ok] = [gs[t] EXCEPT !.pc = p]
    BY Zenon, <1>1 DEF GuestRecs
<1> QED BY Zenon, <1>2 DEF T!Guest, Turns

\* Outcome is such a turn.
LEMMA OutcomeShape ==
    ASSUME NEW t, NEW p, NEW good, T!Outcome(t, p, good)
    PROVE  Turns(t, p, good)
BY Zenon DEF T!Outcome, Turns

\* recv_upload_to_file opens its temporary file.
LEMMA CreateTempStep ==
    ASSUME TInv, NEW t \in Transfers, T!CreateTemp(t) PROVE TInv'
<1>0. /\ hs[t] \in HostRecs /\ gs[t] \in GuestRecs /\ temp[t] \in Seq(Labels) /\ temp = [temp EXCEPT ![t] = temp[t]]
      /\ Coherent(hs[t], gs[t], dnl[t]) /\ gs[t].pc = "create"
      /\ UNCHANGED <<file, tree, escaped, hs, mixed, dnl>>
    BY Zenon, TransferFacts DEF T!CreateTemp
<1>1. hs[t].kind \in {"put", "in"} /\ gs[t].ok \in BOOLEAN /\ <<>> \in Seq(Labels)
    BY <1>0 DEF Coherent, HostRecs, GuestRecs, T!Kinds
<1>2. CASE temp' = [temp EXCEPT ![t] = <<>>] /\ T!Guest(t, "recv")
    <2>1. Follows(t, "recv", gs[t].ok)
        BY Zenon, <1>0, <1>1 DEF Follows
    <2> QED BY Zenon, <1>0, <1>1, <1>2, <2>1, GuestShape, TurnStep
<1>3. CASE temp' = temp /\ T!Outcome(t, "reply", FALSE)
    <2>1. Follows(t, "reply", FALSE)
        BY Zenon, <1>0, <1>1 DEF Follows
    <2> QED BY Zenon, <1>0, <1>1, <1>3, <2>1, OutcomeShape, TurnStep
<1> QED BY Zenon, <1>2, <1>3 DEF T!CreateTemp

\* recv_upload_to_writer takes a chunk, or removes the temporary file.
LEMMA RecvUploadStep ==
    ASSUME TInv, NEW t \in Transfers, T!RecvUpload(t) PROVE TInv'
<1>0. /\ hs[t] \in HostRecs /\ gs[t] \in GuestRecs /\ temp[t] \in Seq(Labels) /\ temp = [temp EXCEPT ![t] = temp[t]]
      /\ Coherent(hs[t], gs[t], dnl[t]) /\ gs[t].pc = "recv"
      /\ UNCHANGED <<file, tree, escaped, hs, mixed, dnl>>
    BY Zenon, TransferFacts DEF T!RecvUpload
<1>1. hs[t].kind \in {"put", "in"} /\ gs[t].ok \in BOOLEAN /\ T!NoTemp \in Seq(Labels)
    BY <1>0 DEF Coherent, HostRecs, GuestRecs, T!Kinds, T!NoTemp, Labels
<1>2. CASE temp' = [temp EXCEPT ![t] = Append(@, t)] /\ gs' = gs
    <2>1. Append(temp[t], t) \in Seq(Labels)
        BY <1>0 DEF Labels
    <2>2. temp' = [temp EXCEPT ![t] = Append(temp[t], t)]
        BY Zenon, <1>2
    <2>3. gs[t] \in GuestRecs /\ gs' = [gs EXCEPT ![t] = gs[t]] /\ dnl[t] \in Messages /\ dnl' = [dnl EXCEPT ![t] = dnl[t]]
        BY Zenon, <1>0, <1>2, TransferFacts
    <2>4. t \in mixed \/ Intact(hs[t], gs[t], Append(temp[t], t), dnl[t], file)
        BY Zenon, <1>0, TransferFacts DEF Intact
    <2>5. Calm(t, hs[t], gs[t])
        BY Zenon DEF Calm
    <2> QED BY Zenon, <1>0, <2>1, <2>2, <2>3, <2>4, <2>5, GuestStep
<1>3. CASE temp' = temp /\ T!Guest(t, IF hs[t].kind = "put" THEN "target" ELSE "dest")
    <2> DEFINE p == IF hs[t].kind = "put" THEN "target" ELSE "dest"
    <2>1. Follows(t, p, gs[t].ok)
        BY Zenon, <1>0, <1>1 DEF Follows
    <2> HIDE DEF p
    <2>2. T!Guest(t, p)
        BY Zenon, <1>3 DEF p
    <2> QED BY Zenon, <1>0, <1>3, <2>1, <2>2, GuestShape, TurnStep
<1>4. CASE T!DiscardTemp(t) /\ T!Outcome(t, "reply", FALSE)
    <2>1. Follows(t, "reply", FALSE)
        BY Zenon, <1>0, <1>1 DEF Follows
    <2> QED BY Zenon, <1>0, <1>1, <1>4, <2>1, OutcomeShape, TurnStep DEF T!DiscardTemp
<1> QED BY Zenon, <1>2, <1>3, <1>4 DEF T!RecvUpload

\* The temporary file is always removed.
LEMMA UnlinkStep ==
    ASSUME TInv, NEW t \in Transfers, T!Unlink(t) PROVE TInv'
<1>0. /\ hs[t] \in HostRecs /\ gs[t] \in GuestRecs /\ temp' = [temp EXCEPT ![t] = T!NoTemp]
      /\ Coherent(hs[t], gs[t], dnl[t]) /\ gs[t].pc = "unlink" /\ T!Guest(t, "reply")
      /\ UNCHANGED <<file, tree, escaped, hs, mixed, dnl>>
    BY Zenon, TransferFacts DEF T!Unlink
<1>1. hs[t].kind \in {"put", "in"} /\ gs[t].ok \in BOOLEAN /\ T!NoTemp \in Seq(Labels)
    BY <1>0 DEF Coherent, HostRecs, GuestRecs, T!Kinds, T!NoTemp, Labels
<1>2. Follows(t, "reply", gs[t].ok)
    BY Zenon, <1>0, <1>1 DEF Follows
<1> QED BY Zenon, <1>0, <1>1, <1>2, GuestShape, TurnStep

\* UploadResult or an error is sent: the ok of an upload goes out after the guest is done.
LEMMA ReplyStep ==
    ASSUME TInv, NEW t \in Transfers, T!Reply(t) PROVE TInv'
<1>0. /\ hs[t] \in HostRecs /\ gs[t] \in GuestRecs /\ temp[t] \in Seq(Labels) /\ temp' = [temp EXCEPT ![t] = temp[t]]
      /\ Coherent(hs[t], gs[t], dnl[t]) /\ (t \in mixed \/ Intact(hs[t], gs[t], temp[t], dnl[t], file))
      /\ gs[t].pc = "reply" /\ T!Guest(t, "done") /\ dnl[t] \in Messages
      /\ UNCHANGED <<file, tree, escaped, hs, mixed>>
    BY Zenon, TransferFacts DEF T!Reply
<1>1. PICK m \in Messages : /\ dnl' = [dnl EXCEPT ![t] = m]
                            /\ (T!Gone(t) /\ m = dnl[t]) \/ (~T!Gone(t) /\ m = IF gs[t].ok THEN <<"ok">> ELSE <<"error">>)
    <2>1. CASE T!Gone(t)
        <3>1. dnl' = [dnl EXCEPT ![t] = dnl[t]]
            BY Zenon, <2>1, TransferFacts DEF T!Reply
        <3> QED BY Zenon, <1>0, <2>1, <3>1
    <2>2. CASE ~T!Gone(t)
        BY Zenon, <1>0, <2>2, MessageFacts DEF T!Reply
    <2> QED BY Zenon, <2>1, <2>2
<1> DEFINE g == [gs[t] EXCEPT !.pc = "done"]
<1>2. "done" \in GuestPcs
    BY Zenon DEF GuestPcs
<1>3. g \in GuestRecs /\ g.pc = "done" /\ g.off = gs[t].off /\ g.ok = gs[t].ok /\ g.whole = gs[t].whole
    BY Zenon, <1>0, <1>2, GuestRec
<1>4. gs' = [gs EXCEPT ![t] = g]
    BY Zenon, <1>0 DEF T!Guest
<1> HIDE DEF g
<1>5. hs[t].pc # "idle" /\ hs[t].pc # "ok" /\ dnl[t] # <<"ok">> /\ dnl[t] # <<"finished">> /\ m # <<"finished">>
      /\ hs[t].kind \in T!Kinds
    BY Zenon, <1>0, <1>1, MessageFacts DEF Coherent, HostRecs, Up, Down, T!Kinds
<1>6. m = <<"ok">> => Up(hs[t]) /\ gs[t].ok
    BY Zenon, <1>0, <1>1, <1>5, MessageFacts DEF Coherent, Up, Down, T!Kinds
<1>7. hs[t].pc = "recv" => Len(hs[t].acc) + Chunks(m) = gs[t].off
    <2> SUFFICES ASSUME hs[t].pc = "recv" PROVE Len(hs[t].acc) + Chunks(m) = gs[t].off
        BY Zenon
    <2>1. Down(hs[t]) /\ ~T!Gone(t)
        BY Zenon, <1>0 DEF Coherent, T!Gone
    <2>2. dnl[t] = <<>> /\ ~gs[t].ok
        BY Zenon, <1>0, <2>1 DEF Coherent
    <2>3. m = <<"error">>
        BY Zenon, <1>1, <2>1, <2>2
    <2>4. Chunks(m) = 0 /\ Chunks(dnl[t]) = 0
        BY Zenon, <2>2, <2>3 DEF Chunks
    <2> QED BY Zenon, <1>0, <2>4 DEF Coherent
<1>8. Coherent(hs[t], g, m)
    BY Zenon, <1>0, <1>3, <1>5, <1>6, <1>7 DEF Coherent, Up, Down, T!Kinds
<1>9. t \in mixed \/ Intact(hs[t], g, temp[t], m, file)
    BY Zenon, <1>0, <1>3, <1>5 DEF Intact
<1>10. Calm(t, hs[t], g)
    BY Zenon, <1>3 DEF Calm, Writes, Reads
<1>11. temp[t] \in Seq(Labels) /\ temp' = [temp EXCEPT ![t] = temp[t]] /\ UNCHANGED <<file, tree, escaped, hs, mixed>>
    BY Zenon, <1>0
<1>12. dnl' = [dnl EXCEPT ![t] = m] /\ g \in GuestRecs
    BY Zenon, <1>1, <1>3
<1> QED BY Zenon, <1>4, <1>8, <1>9, <1>10, <1>11, <1>12, GuestStep

\* handle_copy_out packs the archive.
LEMMA PackStep ==
    ASSUME TInv, NEW t \in Transfers, T!Pack(t) PROVE TInv'
<1>0. /\ hs[t] \in HostRecs /\ gs[t] \in GuestRecs /\ temp[t] \in Seq(Labels) /\ temp = [temp EXCEPT ![t] = temp[t]]
      /\ Coherent(hs[t], gs[t], dnl[t]) /\ gs[t].pc = "pack" /\ file \in Seq(Labels)
      /\ UNCHANGED <<file, tree, escaped, hs, mixed, dnl>>
    BY Zenon, TransferFacts DEF T!Pack
<1>1. hs[t].kind = "out" /\ gs[t].ok \in BOOLEAN /\ T!NoTemp \in Seq(Labels)
    BY <1>0 DEF Coherent, HostRecs, GuestRecs, T!Kinds, T!NoTemp, Labels
<1>2. CASE Len(temp[t]) < Len(file) /\ temp' = [temp EXCEPT ![t] = Append(@, file[Len(@) + 1])] /\ gs' = gs
    <2> DEFINE s == Append(temp[t], file[Len(temp[t]) + 1])
    <2>1. s \in Seq(Labels)
        <3>1. Len(temp[t]) + 1 \in 1 .. Len(file)
            BY <1>0, <1>2
        <3>2. file[Len(temp[t]) + 1] \in Labels
            BY <1>0, <3>1
        <3> QED BY <1>0, <3>2
    <2>2. temp' = [temp EXCEPT ![t] = s]
        BY Zenon, <1>2
    <2> HIDE DEF s
    <2>3. gs[t] \in GuestRecs /\ gs' = [gs EXCEPT ![t] = gs[t]] /\ dnl[t] \in Messages /\ dnl' = [dnl EXCEPT ![t] = dnl[t]]
        BY Zenon, <1>0, <1>2, TransferFacts
    <2>4. t \in mixed \/ Intact(hs[t], gs[t], s, dnl[t], file)
        BY Zenon, <1>0, TransferFacts DEF Intact
    <2>5. Calm(t, hs[t], gs[t])
        BY Zenon DEF Calm
    <2> QED BY Zenon, <1>0, <2>1, <2>2, <2>3, <2>4, <2>5, GuestStep
<1>3. CASE temp' = temp /\ T!Guest(t, "reopen")
    <2>1. Follows(t, "reopen", gs[t].ok)
        BY Zenon, <1>0, <1>1 DEF Follows
    <2> QED BY Zenon, <1>0, <1>3, <2>1, GuestShape, TurnStep
<1>4. CASE temp' = [temp EXCEPT ![t] = T!NoTemp] /\ T!Outcome(t, "reply", FALSE)
    <2>1. Follows(t, "reply", FALSE)
        BY Zenon, <1>0, <1>1 DEF Follows
    <2> QED BY Zenon, <1>0, <1>1, <1>4, <2>1, OutcomeShape, TurnStep
<1> QED BY Zenon, <1>2, <1>3, <1>4 DEF T!Pack

\* handle_copy_out opens the archive again to send it.
LEMMA ReopenStep ==
    ASSUME TInv, NEW t \in Transfers, T!Reopen(t) PROVE TInv'
<1>0. /\ hs[t] \in HostRecs /\ gs[t] \in GuestRecs /\ temp[t] \in Seq(Labels) /\ temp' = [temp EXCEPT ![t] = temp[t]]
      /\ dnl[t] \in Messages /\ dnl' = [dnl EXCEPT ![t] = dnl[t]]
      /\ Coherent(hs[t], gs[t], dnl[t]) /\ (t \in mixed \/ Intact(hs[t], gs[t], temp[t], dnl[t], file))
      /\ gs[t].pc = "reopen"
      /\ UNCHANGED <<file, tree, escaped, hs, mixed, dnl>>
    BY Zenon, TransferFacts DEF T!Reopen
<1>1. hs[t].kind = "out" /\ gs[t].ok \in BOOLEAN /\ gs[t].off = 0
    BY Zenon, <1>0 DEF Coherent, HostRecs, GuestRecs, T!Kinds, Down
<1>2. CASE T!Guest(t, "stream")
    <2> DEFINE g == [gs[t] EXCEPT !.pc = "stream"]
    <2>1. "stream" \in GuestPcs
        BY Zenon DEF GuestPcs
    <2>2. g \in GuestRecs /\ g.pc = "stream" /\ g.off = gs[t].off /\ g.ok = gs[t].ok /\ g.whole = gs[t].whole
        BY Zenon, <1>0, <2>1, GuestRec
    <2>3. gs' = [gs EXCEPT ![t] = g]
        BY Zenon, <1>2 DEF T!Guest
    <2> HIDE DEF g
    <2>4. Coherent(hs[t], g, dnl[t])
        BY Zenon, <1>0, <1>1, <2>2 DEF Coherent, Up, Down
    <2>5. t \in mixed \/ Intact(hs[t], g, temp[t], dnl[t], file)
        BY <1>0, <1>1, <2>2 DEF Intact
    <2>6. Calm(t, hs[t], g)
        BY Zenon, <1>1, <2>2 DEF Calm, Writes, Reads
    <2> QED BY Zenon, <1>0, <2>2, <2>3, <2>4, <2>5, <2>6, GuestStep
<1>3. CASE T!Guest(t, "lost")
    <2>1. Follows(t, "lost", gs[t].ok)
        BY Zenon, <1>0, <1>1 DEF Follows
    <2> QED BY Zenon, <1>0, <1>3, <2>1, GuestShape, TurnStep
<1> QED BY Zenon, <1>2, <1>3 DEF T!Reopen

\* What a chunk makes of a message.
LEMMA LabelMessage ==
    ASSUME NEW x \in Labels
    PROVE  <<x>> \in Messages /\ Chunks(<<x>>) = 1 /\ <<x>> # <<"finished">> /\ <<x>> # <<"ok">>
<1>1. x # "finished" /\ x # "error" /\ x # "ok"
    BY Zenon, TransferAssumption DEF Labels
<1>2. <<x>> # <<>> /\ <<x>> # <<"finished">> /\ <<x>> # <<"error">> /\ <<x>> # <<"ok">>
    BY Zenon, <1>1
<1> QED BY Zenon, <1>2 DEF Messages, Chunks

\* send_download_from_reader: the next chunk, Done at the end of the source, or an end without it.
LEMMA StreamStep ==
    ASSUME TInv, NEW t \in Transfers, T!Stream(t) PROVE TInv'
<1>0. /\ hs[t] \in HostRecs /\ gs[t] \in GuestRecs /\ temp[t] \in Seq(Labels) /\ temp = [temp EXCEPT ![t] = temp[t]]
      /\ dnl[t] \in Messages /\ dnl = [dnl EXCEPT ![t] = dnl[t]] /\ file \in Seq(Labels)
      /\ Coherent(hs[t], gs[t], dnl[t]) /\ (t \in mixed \/ Intact(hs[t], gs[t], temp[t], dnl[t], file))
      /\ gs[t].pc = "stream"
      /\ UNCHANGED <<file, tree, escaped, hs, mixed>>
    BY Zenon, TransferFacts DEF T!Stream
<1> DEFINE src == T!Source(t)
           w == gs[t].off = Len(src)
<1>1. /\ Down(hs[t]) /\ ~Up(hs[t]) /\ hs[t].kind \in {"get", "out"} /\ T!NoTemp \in Seq(Labels)
      /\ hs[t].pc \notin {"idle", "ok", "send", "await"} /\ dnl[t] # <<"finished">> /\ dnl[t] # <<"ok">>
    BY <1>0 DEF Coherent, HostRecs, T!Kinds, Up, Down, T!NoTemp, Labels
<1>2. src \in Seq(Labels) /\ (t \in mixed \/ gs[t].off <= Len(src)) /\ gs[t].off \in Nat
    BY Zenon, <1>0 DEF T!Source, Intact, GuestRecs
<1>3. ASSUME dnl[t] = <<>>, gs[t].off < Len(src), dnl' = [dnl EXCEPT ![t] = <<src[gs[t].off + 1]>>],
             gs' = [gs EXCEPT ![t].off = @ + 1], temp' = temp
      PROVE  TInv'
    <2> DEFINE x == src[gs[t].off + 1]
               g == [gs[t] EXCEPT !.off = gs[t].off + 1]
    <2>1. gs[t].off + 1 \in 1 .. Len(src)
        BY <1>2, <1>3
    <2>2. x \in Labels
        BY <1>2, <2>1
    <2>3. dnl' = [dnl EXCEPT ![t] = <<x>>] /\ gs' = [gs EXCEPT ![t] = g] /\ temp' = [temp EXCEPT ![t] = temp[t]]
        BY Zenon, <1>0, <1>3
    <2> HIDE DEF x
    <2>4. g \in GuestRecs /\ g.pc = "stream" /\ g.off = gs[t].off + 1 /\ g.ok = gs[t].ok /\ g.whole = gs[t].whole
          /\ g.member = gs[t].member
        <3>1. gs[t].off + 1 \in Nat
            BY <1>2
        <3> QED BY Zenon, <1>0, <3>1, OffRec
    <2> HIDE DEF g
    <2>5. <<x>> \in Messages /\ Chunks(<<x>>) = 1 /\ <<x>> # <<"finished">> /\ <<x>> # <<"ok">>
        BY Zenon, <2>2, LabelMessage
    <2>6. hs[t].pc = "recv" => Len(hs[t].acc) + Chunks(<<x>>) = g.off
        <3>1. hs[t].pc = "recv" => Len(hs[t].acc) + Chunks(<<>>) = gs[t].off
            BY Zenon, <1>0, <1>3 DEF Coherent
        <3>2. Chunks(<<>>) = 0 /\ Len(hs[t].acc) \in Nat
            BY <1>0 DEF Chunks, HostRecs
        <3> QED BY <1>2, <2>4, <2>5, <3>1, <3>2
    <2>7. Coherent(hs[t], g, <<x>>)
        BY Zenon, <1>0, <1>1, <2>4, <2>5, <2>6 DEF Coherent, Up, Down
    <2>8. t \in mixed \/ Intact(hs[t], g, temp[t], <<x>>, file)
        <3>1. gs[t].off + 1 <= Len(IF hs[t].kind = "get" THEN file ELSE temp[t])
            BY <1>2, <1>3 DEF T!Source
        <3> QED BY Zenon, <1>0, <1>1, <2>4, <2>5, <3>1 DEF Intact
    <2>9. Calm(t, hs[t], g)
        BY Zenon, <1>0, <2>4 DEF Calm
    <2> QED BY Zenon, <1>0, <2>3, <2>4, <2>5, <2>7, <2>8, <2>9, GuestStep
<1>4. ASSUME NEW m \in Messages, dnl' = [dnl EXCEPT ![t] = m], temp' = [temp EXCEPT ![t] = T!NoTemp],
             gs' = [gs EXCEPT ![t].pc = "done", ![t].whole = w],
             m = dnl[t] \/ (m = <<"finished">> /\ dnl[t] = <<>> /\ ~(gs[t].off < Len(src)))
      PROVE  TInv'
    <2> DEFINE g == [gs[t] EXCEPT !.pc = "done", !.whole = w]
    <2>1. gs' = [gs EXCEPT ![t] = g]
        BY Zenon, <1>4
    <2>2. g \in GuestRecs /\ g.pc = "done" /\ g.off = gs[t].off /\ g.ok = gs[t].ok /\ g.whole = w
        BY Zenon, <1>0 DEF GuestRecs, GuestPcs
    <2> HIDE DEF g
    <2>3. m # <<"ok">> /\ Chunks(m) = Chunks(dnl[t])
        BY Zenon, <1>1, <1>4, MessageFacts DEF Chunks
    <2>4. m = <<"finished">> => t \in mixed \/ w
        BY <1>1, <1>2, <1>4
    <2>5. Coherent(hs[t], g, m)
        BY Zenon, <1>0, <1>1, <2>2, <2>3 DEF Coherent
    <2>6. t \in mixed \/ Intact(hs[t], g, T!NoTemp, m, file)
        <3> HIDE DEF w
        <3> QED BY Zenon, <1>1, <2>2, <2>4 DEF Intact
    <2>7. Calm(t, hs[t], g)
        BY Zenon, <2>2 DEF Calm, Writes, Reads
    <2> QED BY Zenon, <1>0, <1>1, <1>4, <2>1, <2>2, <2>5, <2>6, <2>7, GuestStep
<1>5. CASE /\ dnl[t] = <<>> /\ dnl' = [dnl EXCEPT ![t] = <<"finished">>] /\ ~(gs[t].off < Len(src))
           /\ gs' = [gs EXCEPT ![t].pc = "done", ![t].whole = w] /\ temp' = [temp EXCEPT ![t] = T!NoTemp]
    BY Zenon, <1>0, <1>4, <1>5, MessageFacts
<1>6. CASE dnl' = dnl /\ gs' = [gs EXCEPT ![t].pc = "done", ![t].whole = w] /\ temp' = [temp EXCEPT ![t] = T!NoTemp]
    BY Zenon, <1>0, <1>4, <1>6
<1> QED BY Zenon, <1>3, <1>5, <1>6 DEF T!Stream

\* A transfer that starts while others are busy marks them and itself.
LEMMA StartStep ==
    ASSUME TInv, NEW t \in Transfers, NEW g \in GuestRecs, gs' = [gs EXCEPT ![t] = g],
           NEW s \in Seq(Labels), temp' = [temp EXCEPT ![t] = s],
           UNCHANGED <<tree, escaped, hs, dnl>>, file' \in Seq(Labels),
           NEW busy \in {T!Busy, T!Writers}, mixed' = T!Overlapping(t, busy),
           busy = T!Busy \/ (file' = file /\ g.pc # "copy"), g.pc # "member",
           Coherent(hs[t], g, dnl[t]), t \in mixed' \/ Intact(hs[t], g, s, dnl[t], file')
    PROVE  TInv'
<1>0. hs[t] \in HostRecs /\ hs' = [hs EXCEPT ![t] = hs[t]] /\ dnl[t] \in Messages /\ dnl' = [dnl EXCEPT ![t] = dnl[t]]
    BY Zenon, TransferFacts
<1>1. Moves(t, hs[t], g, s, dnl[t])
    BY Zenon, <1>0 DEF Moves
<1>2. mixed \subseteq mixed' /\ \A u \in busy \ {t} : t \in mixed' /\ u \in mixed'
    BY Zenon DEF T!Overlapping
<1>3. Spares(t, hs[t], g)
    <2> SUFFICES ASSUME NEW u \in Transfers \ {t}
                 PROVE  /\ Clash(hs[t], g, hs[u], gs[u]) => t \in mixed' /\ u \in mixed'
                        /\ u \in mixed' \/ file' = file \/ ~(gs[u].pc = "copy" \/ Reads(hs[u], gs[u]))
        BY Zenon DEF Spares
    <2>1. /\ Writes(gs[u]) => u \in busy
          /\ busy = T!Busy /\ Reads(hs[u], gs[u]) => u \in busy
        BY Zenon DEF T!Busy, T!Writers, T!Copying, T!Reading, Writes, Reads
    <2>2. gs[u].pc = "copy" => Writes(gs[u])
        BY Zenon DEF Writes
    <2> QED BY Zenon, <1>2, <2>1, <2>2 DEF Clash
<1>4. T!NoEscape'
    BY Zenon, <1>2 DEF TInv, T!NoEscape
<1>5. "symlink" \in tree' => "symlink" \in tree
    BY Zenon
<1> QED BY Zenon, <1>1, <1>2, <1>3, <1>4, <1>5, TransferStep

\* The guest's record when a path is opened: stage and offset.
LEMMA StartRec ==
    ASSUME NEW g \in GuestRecs, NEW p \in GuestPcs
    PROVE  LET r == [g EXCEPT !.pc = p, !.off = 0] IN
           r \in GuestRecs /\ r.pc = p /\ r.off = 0 /\ r.ok = g.ok /\ r.member = g.member /\ r.whole = g.whole
BY Zenon DEF GuestRecs

\* handle_write truncates its target.
LEMMA OpenTargetStep ==
    ASSUME TInv, NEW t \in Transfers, T!OpenTarget(t) PROVE TInv'
<1>0. /\ hs[t] \in HostRecs /\ gs[t] \in GuestRecs /\ temp[t] \in Seq(Labels) /\ temp' = [temp EXCEPT ![t] = temp[t]]
      /\ Coherent(hs[t], gs[t], dnl[t]) /\ (t \in mixed \/ Intact(hs[t], gs[t], temp[t], dnl[t], file))
      /\ gs[t].pc = "target" /\ UNCHANGED <<tree, escaped, hs, dnl>>
    BY Zenon, TransferFacts DEF T!OpenTarget
<1>1. hs[t].kind = "put" /\ gs[t].ok \in BOOLEAN
    BY Zenon, <1>0 DEF Coherent, HostRecs, GuestRecs, T!Kinds
<1>2. CASE file' = <<>> /\ gs' = [gs EXCEPT ![t].pc = "copy", ![t].off = 0] /\ mixed' = T!Overlapping(t, T!Busy)
    <2> DEFINE g == [gs[t] EXCEPT !.pc = "copy", !.off = 0]
    <2>1. "copy" \in GuestPcs
        BY Zenon DEF GuestPcs
    <2>2. g \in GuestRecs /\ g.pc = "copy" /\ g.off = 0 /\ g.ok = gs[t].ok /\ g.whole = gs[t].whole
        BY Zenon, <1>0, <2>1, StartRec
    <2>3. gs' = [gs EXCEPT ![t] = g]
        BY Zenon, <1>2
    <2> HIDE DEF g
    <2>4. Coherent(hs[t], g, dnl[t])
        BY Zenon, <1>0, <1>1, <2>2 DEF Coherent, Up, Down
    <2>5. t \in mixed' \/ Intact(hs[t], g, temp[t], dnl[t], file')
        <3>1. mixed \subseteq mixed'
            BY Zenon, <1>2 DEF T!Overlapping
        <3>2. Copied(<<>>, temp[t], 0)
            BY <1>0 DEF Copied
        <3> QED BY Zenon, <1>0, <1>1, <1>2, <2>2, <3>1, <3>2 DEF Intact, Down
    <2>6. file' \in Seq(Labels) /\ g.pc # "member"
        BY <1>2, <2>2
    <2> QED BY Zenon, <1>0, <1>2, <2>2, <2>3, <2>4, <2>5, <2>6, StartStep
<1>3. CASE file' = file /\ T!Outcome(t, "unlink", FALSE) /\ mixed' = mixed
    <2>1. Follows(t, "unlink", FALSE)
        BY Zenon, <1>0, <1>1 DEF Follows
    <2> QED BY Zenon, <1>0, <1>3, <2>1, OutcomeShape, TurnStep
<1> QED BY Zenon, <1>2, <1>3 DEF T!OpenTarget

\* handle_copy_in opens its destination.
LEMMA OpenDestStep ==
    ASSUME TInv, NEW t \in Transfers, T!OpenDest(t) PROVE TInv'
<1>0. /\ hs[t] \in HostRecs /\ gs[t] \in GuestRecs /\ temp[t] \in Seq(Labels) /\ temp' = [temp EXCEPT ![t] = temp[t]]
      /\ Coherent(hs[t], gs[t], dnl[t]) /\ (t \in mixed \/ Intact(hs[t], gs[t], temp[t], dnl[t], file))
      /\ gs[t].pc = "dest" /\ UNCHANGED <<file, tree, escaped, hs, dnl>> /\ file \in Seq(Labels)
    BY Zenon, TransferFacts DEF T!OpenDest
<1>1. hs[t].kind = "in" /\ gs[t].ok \in BOOLEAN
    BY Zenon, <1>0 DEF Coherent, HostRecs, GuestRecs, T!Kinds
<1>2. CASE gs' = [gs EXCEPT ![t].pc = "unpack", ![t].off = 0] /\ mixed' = T!Overlapping(t, T!Writers)
    <2> DEFINE g == [gs[t] EXCEPT !.pc = "unpack", !.off = 0]
    <2>1. "unpack" \in GuestPcs
        BY Zenon DEF GuestPcs
    <2>2. g \in GuestRecs /\ g.pc = "unpack" /\ g.off = 0 /\ g.ok = gs[t].ok /\ g.whole = gs[t].whole
        BY Zenon, <1>0, <2>1, StartRec
    <2>3. gs' = [gs EXCEPT ![t] = g]
        BY Zenon, <1>2
    <2> HIDE DEF g
    <2>4. Coherent(hs[t], g, dnl[t])
        BY Zenon, <1>0, <1>1, <2>2 DEF Coherent, Up, Down
    <2>5. t \in mixed' \/ Intact(hs[t], g, temp[t], dnl[t], file')
        <3>1. mixed \subseteq mixed'
            BY Zenon, <1>2 DEF T!Overlapping
        <3> QED BY Zenon, <1>0, <1>1, <2>2, <3>1 DEF Intact, Down
    <2>6. file' \in Seq(Labels) /\ g.pc # "member" /\ g.pc # "copy" /\ file' = file
        BY Zenon, <1>0, <2>2
    <2> QED BY Zenon, <1>0, <1>2, <2>2, <2>3, <2>4, <2>5, <2>6, StartStep
<1>3. CASE T!Outcome(t, "unlink", FALSE) /\ mixed' = mixed
    <2>1. Follows(t, "unlink", FALSE)
        BY Zenon, <1>0, <1>1 DEF Follows
    <2> QED BY Zenon, <1>0, <1>3, <2>1, OutcomeShape, TurnStep
<1> QED BY Zenon, <1>2, <1>3 DEF T!OpenDest

\* handle_read opens the file to send.
LEMMA OpenFileStep ==
    ASSUME TInv, NEW t \in Transfers, T!OpenFile(t) \/ T!CreateArchive(t) PROVE TInv'
<1> DEFINE p == IF T!OpenFile(t) THEN "stream" ELSE "pack"
           s == IF T!OpenFile(t) THEN temp[t] ELSE <<>>
           g == [gs[t] EXCEPT !.pc = p]
<1>0. /\ hs[t] \in HostRecs /\ gs[t] \in GuestRecs /\ temp[t] \in Seq(Labels)
      /\ Coherent(hs[t], gs[t], dnl[t]) /\ (t \in mixed \/ Intact(hs[t], gs[t], temp[t], dnl[t], file))
      /\ gs[t].pc \in {"open", "archive"} /\ UNCHANGED <<file, tree, escaped, hs, dnl>> /\ file \in Seq(Labels)
    BY Zenon, TransferFacts DEF T!OpenFile, T!CreateArchive
<1>1. /\ Down(hs[t]) /\ ~Up(hs[t]) /\ hs[t].kind \in T!Kinds /\ gs[t].off = 0 /\ gs[t].ok \in BOOLEAN
      /\ (gs[t].pc = "open" => hs[t].kind = "get") /\ (gs[t].pc = "archive" => hs[t].kind = "out")
    BY Zenon, <1>0 DEF Coherent, HostRecs, GuestRecs, T!Kinds, Up, Down
<1>2. T!OpenFile(t) <=> gs[t].pc = "open"
    BY Zenon DEF T!OpenFile, T!CreateArchive
<1>3. p \in GuestPcs /\ s \in Seq(Labels) /\ p \in {"stream", "pack"} /\ (p = "stream" <=> gs[t].pc = "open")
    BY <1>0, <1>2 DEF GuestPcs
<1>4. ASSUME gs' = [gs EXCEPT ![t] = g], temp' = [temp EXCEPT ![t] = s], mixed' = T!Overlapping(t, T!Writers)
      PROVE  TInv'
    <2> HIDE DEF p, s
    <2>1. g \in GuestRecs /\ g.pc = p /\ g.off = 0 /\ g.ok = gs[t].ok /\ g.whole = gs[t].whole
        <3>1. g \in GuestRecs /\ g.pc = p /\ g.off = gs[t].off /\ g.ok = gs[t].ok /\ g.whole = gs[t].whole
            BY Zenon, <1>0, <1>3, GuestRec
        <3> QED BY Zenon, <1>1, <3>1
    <2>2. gs' = [gs EXCEPT ![t] = g]
        BY Zenon, <1>4
    <2> HIDE DEF g
    <2>3. Coherent(hs[t], g, dnl[t])
        <3>1. /\ hs[t].pc \notin {"idle", "send", "await", "ok"} /\ dnl[t] = <<>>
              /\ (hs[t].pc = "recv" => Len(hs[t].acc) + Chunks(dnl[t]) = 0)
            <4>1. Coherent(hs[t], gs[t], dnl[t]) /\ gs[t].pc \in {"open", "archive"}
                BY Zenon, <1>0
            <4>2. Down(hs[t]) /\ ~Up(hs[t]) /\ gs[t].off = 0
                BY Zenon, <1>1
            <4>3. hs[t].pc \notin {"idle", "send", "await", "ok"} /\ dnl[t] = <<>>
                BY Zenon, <4>1, <4>2 DEF Coherent
            <4> QED BY Zenon, <4>1, <4>2, <4>3 DEF Coherent
        <3>2. (hs[t].kind = "get" /\ g.pc = "stream") \/ (hs[t].kind = "out" /\ g.pc = "pack")
            BY Zenon, <1>0, <1>1, <1>3, <2>1
        <3> QED BY SMTT(20), <1>1, <2>1, <3>1, <3>2 DEF Coherent
    <2>4. t \in mixed' \/ Intact(hs[t], g, s, dnl[t], file')
        <3>1. mixed \subseteq mixed'
            BY Zenon, <1>4 DEF T!Overlapping
        <3>2. p = "stream" => 0 <= Len(IF hs[t].kind = "get" THEN file ELSE s)
            BY <1>0, <1>1, <1>3
        <3> QED BY Zenon, <1>0, <1>1, <1>3, <2>1, <3>1, <3>2 DEF Intact
    <2>5. file' \in Seq(Labels) /\ g.pc # "member" /\ g.pc # "copy" /\ file' = file
        BY Zenon, <1>0, <1>3, <2>1
    <2> QED BY Zenon, <1>0, <1>3, <1>4, <2>1, <2>2, <2>3, <2>4, <2>5, StartStep
<1>5. CASE T!OpenFile(t)
    <2>0. temp' = [temp EXCEPT ![t] = temp[t]]
        BY Zenon, <1>5, TransferFacts DEF T!OpenFile
    <2>1. CASE T!Guest(t, "stream") /\ mixed' = T!Overlapping(t, T!Writers)
        BY Zenon, <1>4, <1>5, <2>0, <2>1 DEF T!Guest
    <2>2. CASE T!Outcome(t, "reply", FALSE) /\ mixed' = mixed
        <3>1. Follows(t, "reply", FALSE)
            BY Zenon, <1>0, <1>1 DEF Follows, T!Kinds, Down
        <3> QED BY Zenon, <1>0, <2>0, <2>2, <3>1, OutcomeShape, TurnStep
    <2> QED BY Zenon, <1>5, <2>1, <2>2 DEF T!OpenFile
<1>6. CASE T!CreateArchive(t) /\ ~T!OpenFile(t)
    BY Zenon, <1>4, <1>6 DEF T!CreateArchive, T!Guest
<1> QED BY Zenon, <1>5, <1>6

\* A file that has all the chunks of another is that other.
LEMMA CopiedWhole ==
    ASSUME NEW f \in Seq(Labels), NEW s \in Seq(Labels), Copied(f, s, Len(s)) PROVE f = s
<1>1. Len(f) = Len(s) /\ \A i \in 1 .. Len(s) : f[i] = s[i]
    BY Zenon DEF Copied
<1> QED BY <1>1

\* One piece of tokio::fs::copy; the end of the copy is where an upload is seen to be whole.
LEMMA CopyStep ==
    ASSUME TInv, NEW t \in Transfers, T!Copy(t) PROVE TInv'
<1>0. /\ hs[t] \in HostRecs /\ gs[t] \in GuestRecs /\ temp[t] \in Seq(Labels) /\ temp' = [temp EXCEPT ![t] = temp[t]]
      /\ dnl[t] \in Messages /\ dnl' = [dnl EXCEPT ![t] = dnl[t]] /\ hs' = [hs EXCEPT ![t] = hs[t]]
      /\ Coherent(hs[t], gs[t], dnl[t]) /\ (t \in mixed \/ Intact(hs[t], gs[t], temp[t], dnl[t], file))
      /\ gs[t].pc = "copy" /\ UNCHANGED <<tree, escaped, hs, mixed>> /\ file \in Seq(Labels)
    BY Zenon, TransferFacts DEF T!Copy
<1>1. hs[t].kind = "put" /\ ~Down(hs[t]) /\ gs[t].off \in Nat /\ gs[t].whole \in BOOLEAN /\ hs[t].pc # "ok"
      /\ dnl[t] # <<"ok">> /\ dnl[t] # <<"finished">> /\ hs[t].pc # "idle" /\ hs[t].pc # "recv"
    BY Zenon, <1>0 DEF Coherent, HostRecs, GuestRecs, T!Kinds, Up, Down
<1>2. CASE /\ gs[t].off < Len(temp[t]) /\ file' = Append(file, temp[t][gs[t].off + 1])
           /\ gs' = [gs EXCEPT ![t].off = @ + 1]
    <2> DEFINE n == gs[t].off + 1
               g == [gs[t] EXCEPT !.off = n]
    <2>1. n \in Nat /\ n \in 1 .. Len(temp[t])
        BY <1>0, <1>1, <1>2
    <2>2. temp[t][n] \in Labels /\ file' \in Seq(Labels)
        BY <1>0, <1>2, <2>1
    <2>3. gs' = [gs EXCEPT ![t] = g]
        BY Zenon, <1>2
    <2>4. Copied(file, temp[t], gs[t].off) => Copied(file', temp[t], n)
        BY <1>0, <1>1, <1>2, <2>1 DEF Copied
    <2> HIDE DEF n
    <2>5. g \in GuestRecs /\ g.pc = "copy" /\ g.off = n /\ g.ok = gs[t].ok /\ g.whole = gs[t].whole
        <3>1. g \in GuestRecs /\ g.pc = gs[t].pc /\ g.off = n /\ g.ok = gs[t].ok /\ g.whole = gs[t].whole
            BY Zenon, <1>0, <2>1, OffRec
        <3> QED BY Zenon, <1>0, <3>1
    <2> HIDE DEF g
    <2>6. Coherent(hs[t], g, dnl[t])
        BY Zenon, <1>0, <1>1, <2>5 DEF Coherent
    <2>7. t \in mixed \/ Intact(hs[t], g, temp[t], dnl[t], file')
        BY Zenon, <1>0, <1>1, <2>4, <2>5 DEF Intact
    <2>8. Spares(t, hs[t], g)
        <3> SUFFICES ASSUME NEW u \in Transfers \ {t}, Writes(gs[u]) \/ gs[u].pc = "copy" \/ Reads(hs[u], gs[u])
                     PROVE  t \in mixed /\ u \in mixed
            BY Zenon, <1>0, <2>5 DEF Spares, Clash, Reads
        <3>1. Clash(hs[t], gs[t], hs[u], gs[u]) /\ Clash(hs[u], gs[u], hs[t], gs[t])
            BY Zenon, <1>0 DEF Clash, Writes
        <3> QED BY Zenon, <3>1 DEF TInv, Apart
    <2>9. Moves(t, hs[t], g, temp[t], dnl[t])
        BY Zenon, <1>0, <2>3, <2>5 DEF Moves
    <2>10. mixed \subseteq mixed' /\ T!NoEscape' /\ ("symlink" \in tree' => "symlink" \in tree) /\ g.pc # "member"
           /\ (t \in mixed' \/ Intact(hs[t], g, temp[t], dnl[t], file'))
        BY Zenon, <1>0, <2>5, <2>7 DEF TInv, T!NoEscape
    <2> QED BY Zenon, <2>2, <2>6, <2>8, <2>9, <2>10, TransferStep
<1>3. CASE /\ file' = file
           /\ \E good \in {FALSE, gs[t].off = Len(temp[t])} :
                gs' = [gs EXCEPT ![t].pc = "unlink", ![t].ok = good, ![t].whole = (file = temp[t])]
    <2>1. PICK good \in {FALSE, gs[t].off = Len(temp[t])} :
            gs' = [gs EXCEPT ![t].pc = "unlink", ![t].ok = good, ![t].whole = (file = temp[t])]
        BY Zenon, <1>3
    <2> DEFINE w == file = temp[t]
               g == [gs[t] EXCEPT !.pc = "unlink", !.ok = good, !.whole = w]
    <2>2. gs' = [gs EXCEPT ![t] = g]
        BY Zenon, <2>1
    <2>3. good \in BOOLEAN /\ w \in BOOLEAN /\ (good => gs[t].off = Len(temp[t]))
        BY Zenon, <2>1
    <2>4. good => t \in mixed \/ w
        BY Zenon, <1>0, <2>3, CopiedWhole DEF Intact
    <2> HIDE DEF w
    <2>5. g \in GuestRecs /\ g.pc = "unlink" /\ g.off = gs[t].off /\ g.ok = good /\ g.whole = w
        BY Zenon, <1>0, <2>3 DEF GuestRecs, GuestPcs
    <2> HIDE DEF g
    <2>6. Coherent(hs[t], g, dnl[t])
        BY Zenon, <1>0, <1>1, <2>5 DEF Coherent
    <2>7. t \in mixed \/ Intact(hs[t], g, temp[t], dnl[t], file)
        BY Zenon, <1>1, <2>4, <2>5 DEF Intact
    <2>8. Calm(t, hs[t], g)
        BY Zenon, <2>5 DEF Calm, Writes, Reads
    <2> QED BY Zenon, <1>0, <1>3, <2>2, <2>5, <2>6, <2>7, <2>8, GuestStep
<1> QED BY Zenon, <1>2, <1>3 DEF T!Copy

\* jailed_join looks up the name of the next member.
LEMMA CheckMemberStep ==
    ASSUME TInv, NEW t \in Transfers, T!CheckMember(t) PROVE TInv'
<1>0. /\ hs[t] \in HostRecs /\ gs[t] \in GuestRecs /\ temp[t] \in Seq(Labels) /\ temp' = [temp EXCEPT ![t] = temp[t]]
      /\ dnl[t] \in Messages /\ dnl' = [dnl EXCEPT ![t] = dnl[t]] /\ hs' = [hs EXCEPT ![t] = hs[t]]
      /\ Coherent(hs[t], gs[t], dnl[t]) /\ (t \in mixed \/ Intact(hs[t], gs[t], temp[t], dnl[t], file))
      /\ gs[t].pc = "unpack" /\ UNCHANGED <<file, tree, escaped, hs, mixed, dnl>> /\ file \in Seq(Labels)
    BY Zenon, TransferFacts DEF T!CheckMember
<1>1. hs[t].kind = "in" /\ ~Down(hs[t]) /\ gs[t].off \in Nat /\ hs[t].pc # "ok" /\ dnl[t] # <<"ok">>
      /\ dnl[t] # <<"finished">> /\ hs[t].pc # "idle" /\ hs[t].pc # "recv"
    BY Zenon, <1>0 DEF Coherent, HostRecs, GuestRecs, T!Kinds, Up, Down
<1>2. ASSUME NEW good \in BOOLEAN, Turns(t, "unlink", good) PROVE TInv'
    <2>1. Follows(t, "unlink", good)
        BY Zenon, <1>0, <1>1 DEF Follows
    <2> QED BY Zenon, <1>0, <1>2, <2>1, TurnStep
<1>3. ASSUME NEW m \in T!Members, T!Jailed(m),
             gs' = [gs EXCEPT ![t].pc = "member", ![t].member = m, ![t].off = @ + 1]
      PROVE  TInv'
    <2> DEFINE n == gs[t].off + 1
               g == [gs[t] EXCEPT !.pc = "member", !.member = m, !.off = n]
    <2>1. gs' = [gs EXCEPT ![t] = g]
        BY Zenon, <1>3
    <2>2. n \in Nat
        BY <1>1
    <2> HIDE DEF n
    <2>3. g \in GuestRecs /\ g.pc = "member" /\ g.member = m /\ g.off = n
        BY Zenon, <1>0, <2>2 DEF GuestRecs, GuestPcs
    <2> HIDE DEF g
    <2>4. Coherent(hs[t], g, dnl[t])
        BY Zenon, <1>0, <1>1, <2>3 DEF Coherent
    <2>5. Intact(hs[t], g, temp[t], dnl[t], file)
        BY Zenon, <1>1, <2>3 DEF Intact
    <2>6. Spares(t, hs[t], g)
        <3> SUFFICES ASSUME NEW u \in Transfers \ {t}, Writes(gs[u])
                     PROVE  t \in mixed /\ u \in mixed
            BY Zenon, <1>0, <2>3 DEF Spares, Clash, Reads, Writes
        <3>1. Clash(hs[t], gs[t], hs[u], gs[u]) /\ Clash(hs[u], gs[u], hs[t], gs[t])
            BY Zenon, <1>0 DEF Clash, Writes
        <3> QED BY Zenon, <3>1 DEF TInv, Apart
    <2>7. Moves(t, hs[t], g, temp[t], dnl[t])
        BY Zenon, <1>0, <2>1, <2>3 DEF Moves
    <2>8. g.pc = "member" /\ g.member = "through" /\ "symlink" \in tree' => t \in mixed'
        BY Zenon, <1>0, <1>3, <2>3 DEF T!Jailed
    <2>9. mixed \subseteq mixed' /\ T!NoEscape' /\ ("symlink" \in tree' => "symlink" \in tree) /\ file' \in Seq(Labels)
          /\ Intact(hs[t], g, temp[t], dnl[t], file')
        BY Zenon, <1>0, <2>5 DEF TInv, T!NoEscape
    <2> QED BY Zenon, <2>4, <2>6, <2>7, <2>8, <2>9, TransferStep
<1>4. ASSUME NEW m \in T!Members,
             gs' = IF T!Jailed(m) /\ m # "hardlink"
                   THEN [gs EXCEPT ![t].pc = "member", ![t].member = m, ![t].off = @ + 1]
                   ELSE [gs EXCEPT ![t].pc = "unlink", ![t].ok = FALSE]
      PROVE  TInv'
    <2>1. CASE T!Jailed(m) /\ m # "hardlink"
        BY Zenon, <1>3, <1>4, <2>1
    <2>2. CASE ~(T!Jailed(m) /\ m # "hardlink")
        BY Zenon, <1>2, <1>4, <2>2 DEF Turns
    <2> QED BY Zenon, <2>1, <2>2
<1>5. CASE T!Outcome(t, "unlink", TRUE)
    BY Zenon, <1>2, <1>5, OutcomeShape
<1> QED BY Zenon, <1>4, <1>5 DEF T!CheckMember

\* The member is written where its name leads now.
LEMMA UnpackMemberStep ==
    ASSUME TInv, NEW t \in Transfers, T!UnpackMember(t) PROVE TInv'
<1>0. /\ hs[t] \in HostRecs /\ gs[t] \in GuestRecs /\ temp[t] \in Seq(Labels) /\ temp' = [temp EXCEPT ![t] = temp[t]]
      /\ dnl[t] \in Messages /\ dnl' = [dnl EXCEPT ![t] = dnl[t]] /\ hs' = [hs EXCEPT ![t] = hs[t]]
      /\ Coherent(hs[t], gs[t], dnl[t]) /\ (t \in mixed \/ Intact(hs[t], gs[t], temp[t], dnl[t], file))
      /\ gs[t].pc = "member" /\ UNCHANGED <<file, hs, mixed, dnl>> /\ file \in Seq(Labels)
    BY Zenon, TransferFacts DEF T!UnpackMember
<1>1. hs[t].kind = "in" /\ ~Down(hs[t]) /\ hs[t].pc # "ok" /\ dnl[t] # <<"ok">>
      /\ dnl[t] # <<"finished">> /\ hs[t].pc # "idle" /\ hs[t].pc # "recv"
    BY Zenon, <1>0 DEF Coherent, HostRecs, T!Kinds, Up, Down
<1>2. CASE T!Outcome(t, "unlink", FALSE) /\ UNCHANGED <<tree, escaped>>
    <2>1. Follows(t, "unlink", FALSE)
        BY Zenon, <1>0, <1>1 DEF Follows
    <2> QED BY Zenon, <1>0, <1>2, <2>1, OutcomeShape, TurnStep
<1>3. CASE /\ tree' = tree \cup {gs[t].member} /\ T!Guest(t, "unpack")
           /\ escaped' = IF gs[t].member = "through" /\ "symlink" \in tree THEN escaped \cup {t} ELSE escaped
    <2> DEFINE g == [gs[t] EXCEPT !.pc = "unpack"]
    <2>1. "unpack" \in GuestPcs
        BY Zenon DEF GuestPcs
    <2>2. g \in GuestRecs /\ g.pc = "unpack"
        BY Zenon, <1>0, <2>1, GuestRec
    <2>3. gs' = [gs EXCEPT ![t] = g]
        BY Zenon, <1>3 DEF T!Guest
    <2> HIDE DEF g
    <2>4. Coherent(hs[t], g, dnl[t])
        BY Zenon, <1>0, <1>1, <2>2 DEF Coherent
    <2>5. Intact(hs[t], g, temp[t], dnl[t], file)
        BY Zenon, <1>1, <2>2 DEF Intact
    <2>6. Spares(t, hs[t], g)
        <3> SUFFICES ASSUME NEW u \in Transfers \ {t}, Writes(gs[u])
                     PROVE  t \in mixed /\ u \in mixed
            BY Zenon, <1>0, <2>2 DEF Spares, Clash, Reads, Writes
        <3>1. Clash(hs[t], gs[t], hs[u], gs[u]) /\ Clash(hs[u], gs[u], hs[t], gs[t])
            BY Zenon, <1>0 DEF Clash, Writes
        <3> QED BY Zenon, <3>1 DEF TInv, Apart
    <2>7. Moves(t, hs[t], g, temp[t], dnl[t])
        BY Zenon, <1>0, <2>2, <2>3 DEF Moves
    <2>8. T!NoEscape'
        <3>1. Looked(t) /\ T!NoEscape
            BY Zenon DEF TInv
        <3> QED BY Zenon, <1>0, <1>3, <3>1 DEF T!NoEscape, Looked
    <2>9. Writes(gs[t]) /\ g.pc # "member" /\ mixed \subseteq mixed' /\ file' \in Seq(Labels)
          /\ Intact(hs[t], g, temp[t], dnl[t], file')
        BY Zenon, <1>0, <2>2, <2>5 DEF Writes
    <2> QED BY Zenon, <2>4, <2>6, <2>7, <2>8, <2>9, TransferStep
<1> QED BY Zenon, <1>2, <1>3 DEF T!UnpackMember

\* Every step keeps TInv.
LEMMA TInvStep == TInv /\ [T!Next]_(T!tvars) => TInv'
<1> SUFFICES ASSUME TInv, [T!Next]_(T!tvars) PROVE TInv'
    BY Zenon
<1>1. ASSUME NEW t \in Transfers, T!Step(t) PROVE TInv'
    BY Zenon, <1>1, BeginStep, SendUploadStep, UploadAnswerStep, RecvDownloadStep, DropStep, CreateTempStep, RecvUploadStep,
       OpenTargetStep, CopyStep, OpenDestStep, CheckMemberStep, UnpackMemberStep, UnlinkStep, ReplyStep, OpenFileStep,
       PackStep, ReopenStep, StreamStep DEF T!Step
<1>2. CASE UNCHANGED T!tvars
    BY Zenon, <1>2 DEF T!tvars, TInv, TransferTypes, Apart, Looked, T!NoEscape
<1> QED BY Zenon, <1>1, <1>2 DEF T!Next

\* Whatever fails, is dropped or runs beside it, a transfer that the host reports done delivered
\* every chunk, unless another wrote to the path meanwhile (guest files.rs, codec.rs).
THEOREM TransfersWhole == T!Spec => []TransferWhole
<1>1. TInv => TransferWhole
    <2> SUFFICES ASSUME TInv, NEW t \in Transfers, hs[t].pc = "ok", hs[t].kind # "in", t \notin mixed
                 PROVE  gs[t].whole /\ (hs[t].kind \in {"get", "out"} => Len(hs[t].acc) = gs[t].off)
        BY Zenon DEF TransferWhole, T!TransferWhole
    <2>1. Coherent(hs[t], gs[t], dnl[t]) /\ Intact(hs[t], gs[t], temp[t], dnl[t], file) /\ hs[t].kind \in T!Kinds
        BY Zenon, TransferFacts DEF HostRecs
    <2> QED BY Zenon, <2>1 DEF Coherent, Intact, Up, Down, T!Kinds
<1> QED BY TInvInit, TInvStep, <1>1, PTL DEF T!Spec

\* jailed_join, asked for every member anew, keeps an extraction in its destination, unless
\* another extraction works there at the same time (guest files.rs).
THEOREM NothingEscapes == T!Spec => []NoEscape
<1>1. TInv => NoEscape
    BY Zenon DEF TInv, NoEscape
<1> QED BY TInvInit, TInvStep, <1>1, PTL DEF T!Spec

-----------------------------------------------------------------------------
(* The boot of a guest (guest server.rs).                                  *)

\* The certificates, the stages of the boot and the contents of a bundle.
Certs == 0 .. MaxBoots + 2
Trusting == {"debian", "openssl", "anchor", "read", "bundle", "combined"}
Set == {"volumes", "listening"}
Bundles == Seq(Certs) \cup {G!NoFile}

\* The system's bundle is a sequence of certificates or not there.
BootTypes ==
    /\ gconf.ca \in 0 .. MaxBoots
    /\ DOMAIN trust = G!Files /\ trust["bundle"] \in Bundles /\ syscopy \in Bundles
    /\ boots \in Nat

\* The interface is the one the configuration asks for.
NicSet == nic = IF gconf.network = "enabled" THEN "eth0" ELSE "lo"

\* The files a boot with a CA has written, by how far it has come.
Trusted ==
    /\ gpc \in Trusting \ {"debian"} => trust["debian"] = <<gconf.ca>>
    /\ gpc \in Trusting \ {"debian", "openssl"} => trust["openssl"] = <<gconf.ca>>
    /\ gpc = "bundle" => syscopy # G!NoFile /\ trust["bundle"] = syscopy
    /\ gpc = "combined" =>
           IF syscopy = G!NoFile THEN trust["bundle"] = G!NoFile
           ELSE trust["bundle"] = syscopy \o <<gconf.ca>>
    /\ gpc \in Set /\ gconf.ca # 0 =>
           /\ trust["debian"] = <<gconf.ca>>
           /\ trust["openssl"] = <<gconf.ca>>
           /\ trust["combined"] = IF trust["bundle"] = G!NoFile THEN <<gconf.ca>> ELSE trust["bundle"]

\* The inductive invariant.
GInv ==
    /\ BootTypes
    /\ gpc \in Trusting \cup Set => NicSet
    /\ gpc \in Trusting => gconf.ca # 0
    /\ gpc = "listening" => mounted = gconf.volumes
    /\ Trusted

\* No bundle looks like a missing one.
LEMMA NoFileApart == \A s \in Seq(Certs) : s # G!NoFile
<1> SUFFICES ASSUME NEW s \in Seq(Certs), s = G!NoFile PROVE FALSE
    BY Zenon
<1>1. Len(s) = 1 /\ s[1] = MaxBoots + 3
    BY Zenon DEF G!NoFile
<1>2. s[1] \in Certs
    BY <1>1
<1> QED BY <1>1, <1>2, BootAssumption DEF Certs

\* What is appended to a bundle gives one.
LEMMA AppendBundles ==
    ASSUME NEW s \in Bundles, s # G!NoFile, NEW x \in Seq(Certs)
    PROVE  s \o x \in Bundles /\ s \o x # G!NoFile
<1>1. s \in Seq(Certs)
    BY Zenon DEF Bundles
<1> HIDE DEF Certs, G!NoFile
<1>2. s \o x \in Seq(Certs)
    BY <1>1
<1> QED BY Zenon, <1>2, NoFileApart DEF Bundles

\* A CA and a torn write are certificates.
LEMMA CertSeqs ==
    ASSUME gconf.ca \in 0 .. MaxBoots
    PROVE  <<gconf.ca>> \in Seq(Certs) /\ <<>> \in Seq(Certs) /\ G!Torn \in Seq(Certs)
BY BootAssumption DEF Certs, G!Torn

\* GInv holds at first: the VM is off.
LEMMA GInvInit == G!Init => GInv
<1> SUFFICES ASSUME G!Init PROVE GInv
    BY Zenon
<1>1. BootTypes
    BY BootAssumption DEF G!Init, BootTypes, G!NoConfig, G!Files, Bundles
<1> QED BY Zenon, <1>1 DEF G!Init, GInv, Trusted, Trusting, Set

\* Power off: the bundle is still one.
LEMMA OffStep ==
    ASSUME GInv, G!Off, DOMAIN trust' = G!Files, trust'["bundle"] \in Bundles
    PROVE  GInv'
<1>1. BootTypes'
    BY Zenon DEF GInv, G!Off, BootTypes, Bundles
<1> QED BY Zenon, <1>1 DEF GInv, G!Off, Trusted, Trusting, Set

\* A fatal error of the boot.
LEMMA FatalStep == GInv /\ G!Fatal => GInv'
BY Zenon, OffStep DEF GInv, G!Fatal, BootTypes

\* A mandatory file that cannot be written ends the boot.
LEMMA WriteFailsStep ==
    ASSUME GInv, NEW f \in G!Files \ {"bundle"}, G!WriteFails(f)
    PROVE  GInv'
<1>1. DOMAIN trust' = G!Files /\ trust'["bundle"] = trust["bundle"]
    BY Zenon DEF G!WriteFails, GInv, BootTypes, G!Files
<1> QED BY Zenon, <1>1, OffStep DEF G!WriteFails, GInv, BootTypes

\* Every step of the boot keeps GInv.
LEMMA GInvNext == GInv /\ [G!Next]_(G!gvars) => GInv'
<1> SUFFICES ASSUME GInv, G!Next PROVE GInv'
    <2>1. GInv /\ UNCHANGED G!gvars => GInv'
        BY Zenon DEF G!gvars, GInv, BootTypes, NicSet, Trusted
    <2> QED BY Zenon, <2>1
<1>0. BootTypes /\ Trusted
    BY Zenon DEF GInv
<1>1. CASE G!Unpack
    <2>1. <<G!System>> \in Bundles /\ G!NoFile \in Bundles
        BY SMTT(20), BootAssumption DEF Bundles, G!System, Certs
    <2>2. BootTypes'
        BY Zenon, <1>0, <1>1, <2>1 DEF G!Unpack, BootTypes, G!Files
    <2> QED BY Zenon, <1>1, <2>2 DEF G!Unpack, GInv, Trusted, Trusting, Set
<1>2. ASSUME NEW net, NEW ca \in 0 .. MaxBoots, NEW vols, G!Boot(net, ca, vols) PROVE GInv'
    <2>1. BootTypes'
        BY SMTT(20), <1>0, <1>2 DEF G!Boot, BootTypes
    <2> QED BY Zenon, <1>2, <2>1 DEF G!Boot, GInv, Trusted, Trusting, Set
<1>3. CASE G!MountEssentialTmpfs
    BY Zenon, <1>0, <1>3 DEF G!MountEssentialTmpfs, G!Went, GInv, BootTypes, Trusted, Trusting, Set
<1>4. CASE G!FromEnv
    <2>1. CASE G!Went("config", "network") /\ UNCHANGED <<gconf, trust, syscopy, nic, mounted, boots>>
        BY Zenon, <1>0, <2>1 DEF G!Went, GInv, BootTypes, Trusted, Trusting, Set
    <2> QED BY Zenon, <1>4, <2>1, FatalStep DEF G!FromEnv
<1>5. CASE G!ConfigureNetwork
    <2>1. BootTypes' /\ NicSet'
        BY Zenon, <1>0, <1>5 DEF G!ConfigureNetwork, BootTypes, NicSet
    <2> QED BY Zenon, <1>0, <1>5, <2>1 DEF G!ConfigureNetwork, G!Went, GInv, BootTypes, Trusted, Trusting, Set
<1>6. CASE G!NetworkFails
    BY Zenon, <1>6, FatalStep DEF G!NetworkFails
<1>b. ASSUME NEW f \in {"debian", "openssl", "anchor"}, NEW to \in {"openssl", "anchor", "read"}, 
             <<f, to>> \in {<<"debian", "openssl">>, <<"openssl", "anchor">>, <<"anchor", "read">>},
             G!WriteCa(f, to)
      PROVE  GInv'
    <2>1. /\ gpc = f /\ gpc' = to /\ trust'[f] = <<gconf.ca>> /\ UNCHANGED <<gconf, syscopy, nic, mounted, boots>>
          /\ DOMAIN trust' = G!Files /\ \A g \in G!Files \ {f} : trust'[g] = trust[g]
        BY Zenon, <1>0, <1>b DEF G!WriteCa, G!Went, BootTypes, G!Files
    <2>2. BootTypes' /\ (NicSet => NicSet')
        BY Zenon, <1>0, <2>1 DEF BootTypes, NicSet, G!Files
    <2> QED BY Zenon, <1>0, <1>b, <2>1, <2>2 DEF GInv, Trusted, Trusting, Set, G!Files
<1>7. CASE G!WriteDebian
    BY Zenon, <1>7, <1>b, WriteFailsStep DEF G!WriteDebian, G!Mandatory, G!Files
<1>8. CASE G!WriteOpenssl
    BY Zenon, <1>8, <1>b, WriteFailsStep DEF G!WriteOpenssl, G!Mandatory, G!Files
<1>9. CASE G!WriteAnchor
    <2>1. CASE G!WriteCa("anchor", "read")
        BY Zenon, <1>b, <2>1
    <2>2. CASE /\ G!Went("anchor", "read")
               /\ \E left \in {trust["anchor"], <<>>, G!Torn} : trust' = [trust EXCEPT !["anchor"] = left]
               /\ UNCHANGED <<gconf, syscopy, nic, mounted, boots>>
        <3>1. DOMAIN trust' = G!Files /\ \A g \in G!Files \ {"anchor"} : trust'[g] = trust[g]
            BY Zenon, <1>0, <2>2 DEF BootTypes
        <3>2. BootTypes' /\ (NicSet => NicSet')
            BY Zenon, <1>0, <2>2, <3>1 DEF BootTypes, NicSet, G!Files
        <3> QED BY Zenon, <1>0, <2>2, <3>1, <3>2 DEF G!Went, GInv, Trusted, Trusting, Set, G!Files
    <2> QED BY Zenon, <1>9, <2>1, <2>2 DEF G!WriteAnchor, G!BestEffort
<1>10. CASE G!ReadBundle
    <2>1. CASE /\ G!Went("read", IF trust["bundle"] = G!NoFile THEN "combined" ELSE "bundle")
               /\ syscopy' = trust["bundle"]
               /\ UNCHANGED <<gconf, trust, nic, mounted, boots>>
        <3>1. BootTypes' /\ (NicSet => NicSet')
            BY Zenon, <1>0, <2>1 DEF BootTypes, NicSet
        <3> QED BY Zenon, <1>0, <2>1, <3>1 DEF G!Went, GInv, Trusted, Trusting, Set
    <2> QED BY Zenon, <1>10, <2>1, FatalStep DEF G!ReadBundle
<1>11. CASE G!AppendBundle
    <2>1. gpc = "bundle" /\ trust["bundle"] = syscopy /\ syscopy # G!NoFile /\ syscopy \in Bundles
        BY Zenon, <1>0, <1>11 DEF G!AppendBundle, G!Went, Trusted, BootTypes
    <2>2. \A x \in Seq(Certs) : trust' = G!Appended(x) =>
              /\ DOMAIN trust' = G!Files /\ trust'["bundle"] = trust["bundle"] \o x
              /\ trust'["bundle"] \in Bundles /\ trust'["bundle"] # G!NoFile
              /\ \A g \in G!Files \ {"bundle"} : trust'[g] = trust[g]
        BY Zenon, <1>0, <2>1, AppendBundles DEF G!Appended, BootTypes, G!Files
    <2>3. <<gconf.ca>> \in Seq(Certs) /\ <<>> \in Seq(Certs) /\ G!Torn \in Seq(Certs)
        BY Zenon, <1>0, CertSeqs DEF BootTypes
    <2>4. CASE /\ G!Went("bundle", "combined")
               /\ trust' = G!Appended(<<gconf.ca>>)
               /\ UNCHANGED <<gconf, syscopy, nic, mounted, boots>>
        <3>1. BootTypes' /\ (NicSet => NicSet')
            BY Zenon, <1>0, <2>2, <2>3, <2>4 DEF BootTypes, NicSet
        <3> QED BY Zenon, <1>0, <2>1, <2>2, <2>3, <2>4, <3>1 DEF G!Went, GInv, Trusted, Trusting, Set, G!Files
    <2>5. CASE G!Off /\ \E some \in {<<>>, G!Torn} : trust' = G!Appended(some)
        BY Zenon, <2>2, <2>3, <2>5, OffStep
    <2> QED BY Zenon, <1>11, <2>4, <2>5 DEF G!AppendBundle
<1>12. CASE G!WriteCombined
    <2>1. CASE /\ G!Went("combined", "volumes")
               /\ trust' = [trust EXCEPT !["combined"] = G!Body]
               /\ UNCHANGED <<gconf, syscopy, nic, mounted, boots>>
        <3>1. /\ DOMAIN trust' = G!Files /\ trust'["combined"] = G!Body
              /\ \A g \in G!Files \ {"combined"} : trust'[g] = trust[g]
            BY Zenon, <1>0, <2>1 DEF BootTypes, G!Files
        <3>2. BootTypes' /\ (NicSet => NicSet')
            BY Zenon, <1>0, <2>1, <3>1 DEF BootTypes, NicSet, G!Files
        <3>3. trust["bundle"] = G!NoFile /\ syscopy = G!NoFile => G!Body = <<gconf.ca>>
            BY DEF G!Body
        <3>4. syscopy # G!NoFile => G!Body = trust["bundle"] /\ trust["bundle"] # G!NoFile
            BY Zenon, <1>0, <2>1, AppendBundles, CertSeqs DEF G!Body, G!Went, Trusted, BootTypes
        <3>5. trust'["combined"] = IF trust["bundle"] = G!NoFile THEN <<gconf.ca>> ELSE trust["bundle"]
            BY Zenon, <1>0, <2>1, <3>1, <3>3, <3>4 DEF G!Went, Trusted
        <3> QED BY Zenon, <1>0, <2>1, <3>1, <3>2, <3>5 DEF G!Went, GInv, Trusted, Trusting, Set, G!Files
    <2> QED BY Zenon, <1>12, <2>1, WriteFailsStep DEF G!WriteCombined, G!Files
<1>13. CASE G!MountVolume
    <2>1. CASE mounted' = mounted + 1 /\ UNCHANGED <<gconf, gpc, trust, syscopy, nic, boots>>
        BY Zenon, <1>0, <1>13, <2>1 DEF G!MountVolume, GInv, BootTypes, NicSet, Trusted
    <2> QED BY Zenon, <1>13, <2>1, FatalStep DEF G!MountVolume
<1>14. CASE G!Listen
    <2>1. CASE G!Went("volumes", "listening") /\ UNCHANGED <<gconf, trust, syscopy, nic, mounted, boots>>
        BY Zenon, <1>0, <1>14, <2>1 DEF G!Listen, G!Went, GInv, BootTypes, NicSet, Trusted, Trusting, Set
    <2> QED BY Zenon, <1>14, <2>1, FatalStep DEF G!Listen
<1>15. CASE G!Shutdown
    BY Zenon, <1>15, FatalStep DEF G!Shutdown
<1>16. CASE G!PowerCut
    <2>1. CASE gpc \in G!Files \ {"bundle"} /\ G!WriteFails(gpc)
        BY Zenon, <2>1, WriteFailsStep
    <2>2. CASE gpc = "bundle" /\ G!Off /\ trust' = G!Appended(G!Torn)
        <3>1. trust["bundle"] \in Bundles /\ trust["bundle"] # G!NoFile /\ G!Torn \in Seq(Certs)
            BY Zenon, <1>0, <2>2, CertSeqs DEF Trusted, BootTypes
        <3>2. DOMAIN trust' = G!Files /\ trust'["bundle"] \in Bundles
            BY Zenon, <1>0, <2>2, <3>1, AppendBundles DEF G!Appended, BootTypes, G!Files
        <3> QED BY Zenon, <2>2, <3>2, OffStep
    <2> QED BY Zenon, <1>16, <2>1, <2>2, FatalStep DEF G!PowerCut
<1> QED BY Zenon, <1>1, <1>2, <1>3, <1>4, <1>5, <1>6, <1>7, <1>8, <1>9, <1>10, <1>11, <1>12, <1>13,
           <1>14, <1>15, <1>16 DEF G!Next, G!Agent

\* A guest that listens has the network, mounts and trust of the configuration of this boot,
\* whatever earlier boots, failed writes and power cuts left on its disk (guest server.rs, run).
THEOREM BootsAsConfigured == G!Spec => []BootedAsConfigured
<1>1. GInv => BootedAsConfigured
    BY Zenon DEF GInv, NicSet, Trusted, Set, BootedAsConfigured, G!BootedAsConfigured
<1> QED BY <1>1, GInvInit, GInvNext, PTL DEF G!Spec
=============================================================================
