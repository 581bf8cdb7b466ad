------------------------------ MODULE MCConsole ------------------------------
(* Instances of Console for TLC. *)
EXTENDS ConsoleProperties, TLC

CONSTANTS s1, s2, c1, c2, j1, j2

Alike == Permutations(Jobs) \cup Permutations(Conns) \cup Permutations(Slots)

\* Two sessions side by side, where symmetry would be unsound: who takes which
\* slot and creates the first job is fixed, and the second client stays.  When
\* the first creates the second job too, it stays as well, and the other does
\* not cancel.  What this cuts off are connections, commands, cancels and
\* hang-ups only.
Roles ==
  /\ cslot[c1] # s2 /\ cslot[c2] # s1
  /\ jconn[j1] # c2
  /\ cpc[c1] = "idle" => cpc[c2] = "idle"
  /\ jpc[j1] = "none" => jpc[j2] = "none"
  /\ sock[c2] # "closed"
  /\ jconn[j2] = c1 => sock[c1] # "closed" /\ cpc[c2] # "join"
=============================================================================
