------------------------------ MODULE MCProfiles ------------------------------
(* Instances of Profiles for TLC. *)
EXTENDS ProfilesProperties

Alike == Permutations(Ids)
=============================================================================
