----------------------------- MODULE MCOciStore -----------------------------
(* An instance of OciStore for TLC: an image built on another's layer, and *)
(* a tag that moves from one manifest to the other.                        *)
EXTENDS OciStore, TLC

CONSTANTS t1, t2, r1, r2, d1, d2, base, top

MCLayersOf == [d \in Digests |-> IF d = d1 THEN <<base>> ELSE <<base, top>>]
MCManifests == [r \in Refs |-> IF r = r1 THEN {d1} ELSE {d1, d2}]

Symmetry == Permutations(Tasks)

=============================================================================
