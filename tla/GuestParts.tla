----------------------------- MODULE GuestParts -----------------------------
(* The guest agent's file transfers and its boot, side by side: their          *)
(* constants with what is assumed of them, their variables and what each       *)
(* promises.                                                                   *)
EXTENDS Naturals, Sequences

CONSTANTS
    Transfers, MaxChunks, MaxUpload, MaxDownload, Old,  \* Transfer
    MaxBoots, MaxVolumes                                \* GuestBoot

VARIABLES
    file, temp, tree, escaped, hs, gs, upl, dnl, mixed,
    gconf, gpc, trust, syscopy, nic, mounted, boots

T == INSTANCE Transfer
G == INSTANCE GuestBoot

\* The label of a chunk is no message of the protocol, and not the mark of a missing file.
ASSUME TransferAssumption ==
    /\ (Transfers \cup {Old}) \cap {"finished", "error", "ok", "none"} = {}
    /\ MaxChunks \in Nat
ASSUME BootAssumption == MaxBoots \in Nat /\ MaxVolumes \in Nat

-----------------------------------------------------------------------------
\* A transfer that is reported done delivered the whole file, unless another
\* wrote to the path meanwhile (guest files.rs, codec.rs).
TransferWhole == T!TransferWhole

\* Nothing of an archive is written outside its destination, unless two
\* extractions overlap there (guest files.rs, jailed_join).
NoEscape == T!NoEscape

\* A guest that answers has the mounts, network and trust of its last
\* configuration (guest server.rs, run).
BootedAsConfigured == G!BootedAsConfigured

=============================================================================
