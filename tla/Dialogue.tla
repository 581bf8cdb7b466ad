------------------------------- MODULE Dialogue -------------------------------
(***************************************************************************)
(* What Remote Terminal promises a user who waits for the end of a command *)
(* before the next, without packets, codes, threads or streams.  A command *)
(* is run as it was asked for, or told to have failed; texts come from a   *)
(* command that was and is not over, and from nothing else; and a command  *)
(* is over only when every text has been shown, or missed for good.  The   *)
(* promise ends with the connection, and with a packet that cuts a message *)
(* in two.  Module Wire implements this.                                   *)
(***************************************************************************)
CONSTANT Ids  \* names of commands

VARIABLES
  state,                \* "free": the user may ask; "busy": a command is under
                        \* way; "lost"
  asked, ran, failed,   \* commands asked for, run, told to have failed
  said, shown, missed   \* texts the server sent, shown to the user, or missed

vars == <<state, asked, ran, failed, said, shown, missed>>

Init ==
  /\ state = "free" /\ asked = {} /\ ran = {} /\ failed = {}
  /\ said = {} /\ shown = {} /\ missed = {}

Ask(id) ==
  /\ state = "free" /\ state' = "busy"
  /\ id \notin asked /\ asked' = asked \cup {id}
  /\ UNCHANGED <<ran, failed, said, shown, missed>>

\* The command is run, and may answer at once, or its failure is the answer.
Run(id) ==
  /\ state = "busy" /\ id \in asked \ (ran \cup failed)
  /\ \/ ran' = ran \cup {id} /\ UNCHANGED failed
     \/ failed' = failed \cup {id} /\ UNCHANGED ran
  /\ said \subseteq said'
  /\ UNCHANGED <<state, asked, shown, missed>>

Answered == state = "busy" /\ ran \cup failed = asked

Say ==
  /\ Answered /\ said \subseteq said'
  /\ UNCHANGED <<state, asked, ran, failed, shown, missed>>

Show ==
  /\ Answered /\ shown \subseteq shown' /\ shown' \subseteq said
  /\ UNCHANGED <<state, asked, ran, failed, said, missed>>

Miss ==
  /\ Answered /\ missed \subseteq missed' /\ missed' \subseteq said
  /\ UNCHANGED <<state, asked, ran, failed, said, shown>>

End ==
  /\ Answered /\ shown \cup missed = said
  /\ state' = "free"
  /\ UNCHANGED <<asked, ran, failed, said, shown, missed>>

\* Nothing is promised any more.
Lose ==
  /\ state' = "lost"
  /\ asked' = {} /\ ran' = {} /\ failed' = {}
  /\ said' = {} /\ shown' = {} /\ missed' = {}

Next ==
  \/ \E id \in Ids : Ask(id) \/ Run(id)
  \/ Say \/ Show \/ Miss \/ End \/ Lose

Spec == Init /\ [][Next]_vars
=============================================================================
