------------------------------- MODULE MCSlots -------------------------------
(* Instances of Slots for TLC. *)
EXTENDS SlotsProperties, TLC

Alike == Permutations(Conns)
=============================================================================
