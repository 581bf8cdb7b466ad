------------------------------ MODULE JobBoard ------------------------------
(***************************************************************************)
(* What a Remote Terminal server promises about the commands it executes,  *)
(* without threads, pipes, sockets or flags.  A job is one executed        *)
(* command.  A slot (an entry of ClientConsole) runs at most one job at a  *)
(* time; a job is run by a shell of its own, which is started once; and    *)
(* the job is reported as ended ("[Process ... killed]" and the EOT code)  *)
(* only when that shell is dead.  Only then is the slot free for another   *)
(* job.  Module Console implements this.                                   *)
(***************************************************************************)
CONSTANTS Slots, Jobs, NoSlot

VARIABLES
  alive,  \* the server process is running
  phase,  \* how far each job has come
  place,  \* the slot a job runs in, once it has one
  shell   \* the shell of each job: "none", "live" or "dead"

vars == <<alive, phase, place, shell>>

Phases == {"unborn", "running", "ended", "over"}

TypeOK ==
  /\ alive \in BOOLEAN
  /\ phase \in [Jobs -> Phases]
  /\ place \in [Jobs -> Slots \cup {NoSlot}]
  /\ shell \in [Jobs -> {"none", "live", "dead"}]

Init ==
  /\ alive = TRUE
  /\ phase = [j \in Jobs |-> "unborn"]
  /\ place = [j \in Jobs |-> NoSlot]
  /\ shell = [j \in Jobs |-> "none"]

\* The jobs that occupy slot s.
Occupants(s) == {j \in Jobs : place[j] = s /\ phase[j] \in {"running", "ended"}}

Start(s, j) ==
  /\ phase[j] = "unborn"
  /\ Occupants(s) = {}
  /\ phase' = [phase EXCEPT ![j] = "running"]
  /\ place' = [place EXCEPT ![j] = s]
  /\ UNCHANGED <<alive, shell>>

\* A command the shell cannot be set up for is dead as soon as it is born.
Born(j) ==
  /\ phase[j] = "running" /\ shell[j] = "none"
  /\ \E state \in {"live", "dead"} : shell' = [shell EXCEPT ![j] = state]
  /\ UNCHANGED <<alive, phase, place>>

\* A shell may end by itself, or be killed, while its job runs.
Die(j) ==
  /\ phase[j] = "running" /\ shell[j] = "live"
  /\ shell' = [shell EXCEPT ![j] = "dead"]
  /\ UNCHANGED <<alive, phase, place>>

\* The job is over for its slot; whatever is left of it is killed.
End(j) ==
  /\ phase[j] = "running" /\ shell[j] # "none"
  /\ phase' = [phase EXCEPT ![j] = "ended"]
  /\ \E dead \in SUBSET Jobs :
       /\ j \in dead
       /\ \A k \in dead : shell[k] # "none"
       /\ shell' = [k \in Jobs |-> IF k \in dead THEN "dead" ELSE shell[k]]
  /\ UNCHANGED <<alive, place>>

\* The end has been reported: the slot is free again.
Retire(j) ==
  /\ phase[j] = "ended"
  /\ phase' = [phase EXCEPT ![j] = "over"]
  /\ UNCHANGED <<alive, place, shell>>

\* The server process dies.
Crash == alive' = FALSE /\ UNCHANGED <<phase, place, shell>>

Next ==
  /\ alive
  /\ \/ \E s \in Slots, j \in Jobs : Start(s, j)
     \/ \E j \in Jobs : Born(j) \/ Die(j) \/ End(j) \/ Retire(j)
     \/ Crash

Spec == Init /\ [][Next]_vars
=============================================================================
