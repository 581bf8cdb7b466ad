------------------------------ MODULE Admission ------------------------------
(***************************************************************************)
(* What the accept loop promises its clients: a client that is admitted    *)
(* gets a slot nobody else has, keeps it until its own session ends, and   *)
(* is admitted once.  Module Slots implements this until a hand-off is     *)
(* overtaken, and it is what module Console takes for one step.            *)
(***************************************************************************)
CONSTANTS Slots, Conns, Nobody

VARIABLE owner, \* the connection a slot is given to
         past   \* the connections that have been admitted and have left

vars == <<owner, past>>

Init == owner = [s \in Slots |-> Nobody] /\ past = {}

Admitted == {owner[s] : s \in Slots} \cup past

Admit(c, s) ==
  /\ owner[s] = Nobody /\ c \notin Admitted
  /\ owner' = [owner EXCEPT ![s] = c]
  /\ UNCHANGED past

Release(s) ==
  /\ owner[s] # Nobody
  /\ owner' = [owner EXCEPT ![s] = Nobody]
  /\ past' = past \cup {owner[s]}

Next == \E s \in Slots : Release(s) \/ \E c \in Conns : Admit(c, s)

Spec == Init /\ [][Next]_vars
=============================================================================
