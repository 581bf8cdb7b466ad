------------------------------ MODULE MCProcess ------------------------------
(* Instances of Process for TLC: 4 ports, of which main() takes 1 to 5. *)
EXTENDS Process

Tree == {<< >>, <<"a">>}
UserHome == <<"a">>
SomeMemory == {-1, 0, 3}

\* The sessions, which read nothing of the set-up, are followed after one of
\* the set-ups only; every other is followed to the accept loop.
OneBoot ==
  \/ WorkInit
  \/ taken = {} /\ serverPort = 3 /\ descriptor[0] = "file"
=============================================================================
