---------------------------- MODULE MCTinyMacNet ----------------------------
(***************************************************************************)
(* Instances of TinyMacNet for TLC.  Devices that are all of one kind can  *)
(* be permuted where no liveness is checked.                               *)
(***************************************************************************)
EXTENDS TinyMacNet, TLC

\* The networks checked have a slot for every device.
ASSUME InstanceHasRoom == EnoughSlots

Symmetry == Permutations(Sleepy) \cup Permutations(Uuids \ Sleepy)
=============================================================================
