------------------------------ MODULE OciLayers ------------------------------
(* The unpacking of an image's layers, under names of its own for the modules  *)
(* that put it beside other components.                                        *)
EXTENDS Naturals, Sequences

CONSTANTS MaxLayers, MaxMembers

VARIABLES
    fstree, layer, members, unpacked, written, deferred, lower, puts,
    hides, unusual

E == INSTANCE OciExtract

-----------------------------------------------------------------------------
\* A rootfs is what the layers mean, whatever the order of the members of a
\* layer that does not contradict itself (oci extract.rs).
LayerMeaning == E!LayerMeaning

=============================================================================
