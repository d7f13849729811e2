--------------------------- MODULE MCTinyMacCoord ---------------------------
(***************************************************************************)
(* Instances of TinyMacCoord for TLC.  Devices and messages are only ever  *)
(* compared for equality, so permuting them is sound where no liveness is  *)
(* checked.                                                                *)
(***************************************************************************)
EXTENDS CoordRefinement, TLC

Symmetry == Permutations(Uuids) \cup Permutations(Msgs)
=============================================================================
