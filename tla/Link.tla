--------------------------------- MODULE Link ---------------------------------
(***************************************************************************)
(* What the client promises about its connections, without threads, flags, *)
(* sockets and descriptors.  There is one connection at a time: the next   *)
(* is opened when nothing is left of the last; one that was made is        *)
(* dropped first, by the user or by the other side, and is over when the   *)
(* client is through with it; and commands go to the connection in use     *)
(* and to no other.  Module Client implements this.                        *)
(***************************************************************************)
CONSTANT Conns  \* names of connections

VARIABLES
  state,  \* "off", "opening", "on", "ending"
  inUse,  \* the connection it is about: a set of one name, or none
  made,   \* the connections that were made
  asked   \* those a command was sent on

vars == <<state, inUse, made, asked>>

Init == state = "off" /\ inUse = {} /\ made = {} /\ asked = {}

Open(c) ==
  /\ state = "off" /\ state' = "opening"
  /\ c \notin made /\ inUse' = {c}
  /\ UNCHANGED <<made, asked>>

Fail ==
  /\ state = "opening" /\ state' = "off"
  /\ inUse' = {}
  /\ UNCHANGED <<made, asked>>

Establish ==
  /\ state = "opening" /\ state' = "on"
  /\ made' = made \cup inUse
  /\ UNCHANGED <<inUse, asked>>

\* A command that was typed may still be sent when the connection is dropped.
Ask ==
  /\ state \in {"on", "ending"}
  /\ asked' = asked \cup inUse
  /\ UNCHANGED <<state, inUse, made>>

Drop ==
  /\ state = "on" /\ state' = "ending"
  /\ UNCHANGED <<inUse, made, asked>>

Finish ==
  /\ state = "ending" /\ state' = "off"
  /\ inUse' = {}
  /\ UNCHANGED <<made, asked>>

Next == (\E c \in Conns : Open(c)) \/ Fail \/ Establish \/ Ask \/ Drop \/ Finish

Spec == Init /\ [][Next]_vars
=============================================================================
