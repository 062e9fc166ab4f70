------------------------------- MODULE MCParts -------------------------------
(* The components of GuestParts, HostParts and DataParts, the unpacking of     *)
(* layers, the mounts of a VM, the network proxy and the streamed substitution *)
(* of secrets, for TLC: each behaviour is a behaviour of one of them, chosen   *)
(* at the start, while the others rest.                                        *)
EXTENDS GuestParts, HostParts, DataParts, OciLayers, VmMounts, Proxy, TLC

CONSTANTS
    SecretLists, Alphabet, MaxBody, BufSize, MaxRead    \* Replacer

VARIABLES
    part,           \* the component of this behaviour
    slist, body, taken, hold, spill, sent, srcDone, rpc, want, ret

R == INSTANCE Replacer

transferVars == <<file, temp, tree, escaped, hs, gs, upl, dnl, mixed>>
bootVars == <<gconf, gpc, trust, syscopy, nic, mounted, boots>>
cliVars == <<vmrow, vmdisk, vmshim, rtlock, cmd>>
listenVars == <<sockname, dirlock, worker, stolen, crossed>>
payloadVars == <<store, staging, flock, proc_at, damaged>>
baseVars == <<installed, files, tmp, base, staged, builder, muddled>>
qcow2Vars == <<chain, qpc, vc, next, image>>
extractVars == <<fstree, layer, members, unpacked, written, deferred, lower, puts,
                hides, unusual>>
seccompVars == <<allowlist, prog, data, acc, insn, verdict>>
replacerVars == <<slist, body, taken, hold, spill, sent, srcDone, rpc, want, ret>>
mountVars == <<host, resolved, vmstate, shim, devices, guestfs, attached>>

all == <<part, transferVars, bootVars, cliVars, listenVars, payloadVars,
         baseVars, qcow2Vars, extractVars, seccompVars, replacerVars,
         proxyVars, mountVars>>

MCInit ==
    /\ part \in {"transfer", "boot", "cli", "listen", "payload", "base",
                  "qcow2", "extract", "seccomp", "replacer", "proxy",
                  "mounts"}
    /\ T!Init
    /\ G!Init
    /\ C!Init
    /\ W!Init
    /\ P!Init
    /\ B!Init
    /\ Q!Init
    /\ E!Init
    /\ S!Init
    /\ R!Init
    /\ Init
    /\ M!Init

\* A step of component p, which leaves the others as they are.
Only(p) ==
    /\ part = p
    /\ UNCHANGED part
    /\ IF p = "transfer" THEN TRUE ELSE UNCHANGED transferVars
    /\ IF p = "boot" THEN TRUE ELSE UNCHANGED bootVars
    /\ IF p = "cli" THEN TRUE ELSE UNCHANGED cliVars
    /\ IF p = "listen" THEN TRUE ELSE UNCHANGED listenVars
    /\ IF p = "payload" THEN TRUE ELSE UNCHANGED payloadVars
    /\ IF p = "base" THEN TRUE ELSE UNCHANGED baseVars
    /\ IF p = "qcow2" THEN TRUE ELSE UNCHANGED qcow2Vars
    /\ IF p = "extract" THEN TRUE ELSE UNCHANGED extractVars
    /\ IF p = "seccomp" THEN TRUE ELSE UNCHANGED seccompVars
    /\ IF p = "replacer" THEN TRUE ELSE UNCHANGED replacerVars
    /\ IF p = "proxy" THEN TRUE ELSE UNCHANGED proxyVars
    /\ IF p = "mounts" THEN TRUE ELSE UNCHANGED mountVars

MCNext ==
    \/ Only("transfer") /\ T!Next
    \/ Only("boot") /\ G!Next
    \/ Only("cli") /\ C!Next
    \/ Only("listen") /\ W!Next
    \/ Only("payload") /\ P!Next
    \/ Only("base") /\ B!Next
    \/ Only("qcow2") /\ Q!Next
    \/ Only("extract") /\ E!Next
    \/ Only("seccomp") /\ S!Next
    \/ Only("replacer") /\ R!Next
    \/ Only("proxy") /\ Next
    \/ Only("mounts") /\ M!Next

-----------------------------------------------------------------------------
(* Values of constants.                                                      *)

\* One placeholder with a value that begins another, and two that share a
\* prefix, the longer with a value longer than the caller's buffer.
MCSecretLists ==
    {<<[ph |-> <<"<", "a", ">">>, value |-> <<"<">>]>>,
     <<[ph |-> <<"<", "a", ">">>, value |-> <<"v">>],
       [ph |-> <<"<", "a", "a", ">">>, value |-> <<"w", "w", "w">>]>>}

\* Three hosts, one below the other; rules by address, exact host and
\* wildcard; secrets whose hosts overlap.
MCHostNames == {<<"x">>, <<"a", "x">>, <<"b", "a", "x">>}
Exact(h) == [wild |-> FALSE, name |-> h]
Wild(h) == [wild |-> TRUE, name |-> h]
MCAllowLists ==
    {NoList, [ips |-> {"listed"}, hosts |-> {}],
     [ips |-> {"listed"}, hosts |-> {Exact(<<"a", "x">>), Exact(<<"b", "a", "x">>)}],
     [ips |-> {}, hosts |-> {Wild(<<"x">>)}]}
MCSecretSets ==
    {{}, {{Exact(<<"a", "x">>)}, {Wild(<<"a", "x">>), Exact(<<"x">>)}}, {{Wild(<<"x">>)}}}

\* Names that differ in a character no tag has and past a tag's end, and names
\* that are refused; plain, denied, linked, missing and relative paths.
MCSpelling ==
    [n \in {"a.b", "a_bb", ".", "..", "", "a/b", "abbbb"} |->
        CASE n = "a.b" -> <<"a", ".", "b">> [] n = "a_bb" -> <<"a", "_", "b", "b">>
          [] n = "." -> <<".">> [] n = ".." -> <<".", ".">> [] n = "" -> <<>>
          [] n = "a/b" -> <<"a", "/", "b">> [] OTHER -> <<"a", "b", "b", "b", "b">>]
MCBindPaths ==
    {<<"/">>, <<"/", "srv">>, <<"/", "tmp", "w">>, <<"/", "srv", "..">>, <<"srv">>,
     <<>>, <<"/", "gone">>, <<"/", "root", ".ssh">>, <<"/", "srv", "keys">>}
MCHostTree ==
    [p \in {<<"/">>, <<"/", "srv">>, <<"/", "tmp", "w">>, <<"/", "root", ".ssh">>} |-> p]
    @@ (<<"/", "srv", "keys">> :> <<"/", "root", ".ssh">>)
MCDenied == {<<"/", "root", ".ssh">>, <<"/", "etc", "ssh">>}
MCGuestPaths == {<<"/", "w">>, <<"/", "w", ".", "d">>, <<"/", ".">>, <<"/", "..">>, <<"w">>}
MCDataRoots == {<<"/", "home", "u", "data">>, <<"/", "tmp", "data">>}

MCSpec == MCInit /\ [][MCNext]_all

-----------------------------------------------------------------------------
(* The property of the last component.                                     *)

\* A body substituted in pieces is the body substituted whole
\* (mitm_replacer.go).
StreamedAsWhole == part = "replacer" => R!StreamedAsWhole

=============================================================================
