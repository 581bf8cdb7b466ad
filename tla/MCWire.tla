-------------------------------- MODULE MCWire --------------------------------
(* Instances of Wire for TLC. *)
EXTENDS WireProperties

\* Nothing is promised any more, and nothing checked, once a message has been
\* cut in two: such states are reached and not left.
Whole == whole
===============================================================================
