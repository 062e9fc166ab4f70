----------------------------- MODULE MCSnapshot -----------------------------
(* An instance of Snapshot for TLC.                                        *)
EXTENDS Snapshot

CONSTANTS s1, s2, n1, root, data

=============================================================================
