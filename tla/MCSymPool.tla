----------------------------- MODULE MCSymPool -----------------------------
(* Model checking of SymPool: the pool of a build over that of the universe,  *)
(* which is built with two names.                                            *)
EXTENDS SymPool, TLC

CONSTANTS build, universe, x, y, ux, uy

MCBase == (build :> universe) @@ (universe :> NULL)
MCPreset == [q \in Ptr |-> IF q \in {ux, uy} THEN universe ELSE NULL]
MCPresetName == [q \in Ptr |-> CASE q = ux -> x [] q = uy -> y [] OTHER -> NULL]

Symmetry == Permutations(Thread) \cup Permutations(Ptr \ {ux, uy})
=============================================================================
