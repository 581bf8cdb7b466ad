------------------------------- MODULE MCClient -------------------------------
(* Instances of Client for TLC. *)
EXTENDS ClientProperties

SomeGarbage == {-7}
=============================================================================
