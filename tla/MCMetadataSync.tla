---------------------------- MODULE MCMetadataSync ----------------------------
(* Instances of MetadataSync for TLC.                                       *)
EXTENDS MetadataSync, TLC

CONSTANTS j1, j2, w1, w2

Slots == Permutations(Slot)
=============================================================================
