------------------------------ MODULE BoardProofs ------------------------------
(***************************************************************************)
(* Module Console implements JobBoard and Admission, for any number of     *)
(* slots, clients, commands and descriptors: every step is a step of the   *)
(* abstract module or changes nothing in it.                               *)
(***************************************************************************)
EXTENDS ConsoleProofs

\* What the board shows of a job.
PlaceOf(j) == IF PhaseOf(j) = "unborn" THEN NoSlot ELSE Where(j)
ShellOf(j) == CASE proc[Shell(j)] = "none" -> "none"
                [] proc[Shell(j)] = "run" -> "live"
                [] OTHER -> "dead"

Same(j) == /\ PhaseOf(j)' = PhaseOf(j)
           /\ PlaceOf(j)' = PlaceOf(j)
           /\ ShellOf(j)' = ShellOf(j)

\* Nothing on the board changes, but that the server may die.
Quiet == (\A j \in Jobs : Same(j)) /\ (up' = up \/ (up /\ ~up'))

LEMMA PhaseIs ==
  ASSUME TypeOK, NEW j \in Jobs
  PROVE  /\ PhaseOf(j) = "unborn" <=> jpc[j] \in {"none", "void"}
         /\ PhaseOf(j) = "running" <=> jpc[j] \in {"new", "prompt", "fork"} \cup Started
         /\ PhaseOf(j) = "ended" <=> jpc[j] \in {"report", "deact", "free"}
         /\ PhaseOf(j) = "over" <=> jpc[j] \in Ended \ {"report", "deact", "free"}
         /\ Active(j) <=> PhaseOf(j) \in {"running", "ended"}
<1>1. jpc[j] \in ConsolePC
  BY DEF TypeOK
<1> QED
  BY <1>1 DEF PhaseOf, ConsolePC, Started, Ended, Active

LEMMA ShellIs ==
  ASSUME TypeOK, NEW j \in Jobs
  PROVE  /\ ShellOf(j) = "none" <=> proc[Shell(j)] = "none"
         /\ ShellOf(j) = "live" <=> proc[Shell(j)] = "run"
         /\ ShellOf(j) = "dead" <=> proc[Shell(j)] \in {"zombie", "gone"}
<1>1. proc[Shell(j)] \in {"none", "run", "zombie", "gone"}
  BY DEF TypeOK, Proc, Shell
<1> QED
  BY <1>1 DEF ShellOf

LEMMA QuietSteps ==
  ASSUME Quiet
  PROVE  [Board!Next]_(Board!vars)
<1>1. /\ [j \in Jobs |-> PhaseOf(j)]' = [j \in Jobs |-> PhaseOf(j)]
      /\ [j \in Jobs |-> PlaceOf(j)]' = [j \in Jobs |-> PlaceOf(j)]
      /\ [j \in Jobs |-> ShellOf(j)]' = [j \in Jobs |-> ShellOf(j)]
  BY DEF Quiet, Same
<1>2. CASE up' = up
  BY <1>1, <1>2 DEF Board!vars, PlaceOf, ShellOf, Shell
<1>3. CASE up /\ ~up'
  BY <1>1, <1>3 DEF Board!Next, Board!Crash, PlaceOf, ShellOf, Shell
<1> QED
  BY <1>2, <1>3 DEF Quiet

\* A job of which nothing but the place may have changed.
LEMMA SameWhere ==
  ASSUME TypeOK, NEW j \in Jobs, jpc'[j] = jpc[j], proc'[Shell(j)] = proc[Shell(j)],
         jpc[j] \notin {"none", "void"} => Where(j)' = Where(j)
  PROVE  Same(j)
<1>1. PhaseOf(j)' = PhaseOf(j) /\ ShellOf(j)' = ShellOf(j)
  BY DEF PhaseOf, ShellOf, Shell
<1> QED
  BY <1>1, PhaseIs DEF Same, PlaceOf

-----------------------------------------------------------------------------
(* Steps of the client threads                                             *)

LEMMA ClientQuiet ==
  ASSUME TypeOK, NEW c \in Conns, ClientStep(c) \/ Receive(c),
         \A j \in Jobs : ~RunCommand(c, j)
  PROVE  Quiet
<1>1. cslot' = cslot
  BY ClientKeepsSlot
<1>2. ASSUME NEW j \in Jobs, ThreadFails(c, j) PROVE Quiet
  <2>1. /\ jpc[j] = "none" /\ jpc'[j] = "void" /\ up' = up
        /\ UNCHANGED <<jslot, jconn, cslot, proc>>
        /\ \A k \in Jobs \ {j} : jpc'[k] = jpc[k]
    BY <1>2 DEF TypeOK, ThreadFails, ToConsole, jdata, cdata, procVars
  <2>2. ASSUME NEW k \in Jobs \ {j} PROVE Same(k)
    <3>1. Where(k)' = Where(k)
      BY <2>1 DEF Where
    <3> QED
      BY <2>1, <3>1, SameWhere
  <2>3. Same(j)
    BY <2>1 DEF Same, PhaseOf, PlaceOf, ShellOf
  <2> QED
    BY <2>1, <2>2, <2>3 DEF Quiet
<1>3. CASE \A j \in Jobs : ~ThreadFails(c, j)
  <2>1. UNCHANGED <<jpc, jslot, jconn, proc>>
    BY <1>3, ClientSparesConsoles DEF consoleVars, jdata
  <2>2. up' = up \/ (up /\ ~up')
    BY <1>3 DEF ClientStep, ClientMoves, Receive, Reply, SayFailed, FlagInput, Joined,
       JoinUndefined, Die,
       Shutdown, CloseNumber, FreeSlot, Dropped, Builtin, PipeFails, NextInput, Cancel, Leave,
       EndOfStream,
       OnlyAgain, OnlyToClient
  <2>3. ASSUME NEW k \in Jobs PROVE Same(k)
    <3>1. Where(k)' = Where(k)
      BY <1>1, <2>1 DEF Where
    <3> QED
      BY <2>1, <3>1, SameWhere
  <2> QED
    BY <2>2, <2>3 DEF Quiet
<1> QED
  BY <1>2, <1>3

\* A command starts a job in a slot no job occupies: pipeActive is FALSE.
LEMMA ClientStarts ==
  ASSUME ConsoleInv, NEW c \in Conns, NEW j \in Jobs, RunCommand(c, j)
  PROVE  Board!Next
<1> DEFINE phase == [k \in Jobs |-> PhaseOf(k)]
           place == [k \in Jobs |-> PlaceOf(k)]
           shell == [k \in Jobs |-> ShellOf(k)]
           s == cslot[c]
<1>0. TypeOK /\ SlotsOwned /\ ConsolesPlaced /\ ConsoleExclusive
  BY DEF ConsoleInv
<1>1. /\ jpc[j] = "none" /\ Where(j)' = s /\ jpc' = [jpc EXCEPT ![j] = "new"]
      /\ cslot' = cslot /\ jslot' = jslot /\ jconn' = [jconn EXCEPT ![j] = c]
      /\ cpc[c] = "recv"
  BY <1>0, RunPlaces
<1>2. up /\ up' = up /\ proc' = proc /\ ~ClientConsole[s].pipeActive
  BY DEF RunCommand, Gets, ToConsole, procVars
<1>3. s \in Slots
  BY <1>0, <1>1 DEF SlotsOwned, Busy
<1>4. /\ PhaseOf(j) = "unborn" /\ PhaseOf(j)' = "running" /\ PlaceOf(j)' = s
      /\ ShellOf(j)' = ShellOf(j)
  BY <1>0, <1>1, <1>2 DEF TypeOK, PhaseOf, PlaceOf, ShellOf
<1>5. \A k \in Jobs \ {j} : Same(k)
  <2> SUFFICES ASSUME NEW k \in Jobs \ {j} PROVE Same(k)
    OBVIOUS
  <2>1. jpc'[k] = jpc[k] /\ jconn'[k] = jconn[k]
    BY <1>0, <1>1 DEF TypeOK
  <2>2. Where(k)' = Where(k)
    BY <1>1, <2>1 DEF Where
  <2> QED
    BY <1>0, <1>2, <2>1, <2>2, SameWhere
<1>6. \A k \in Jobs : place[k] = s => phase[k] \notin {"running", "ended"}
  <2> SUFFICES ASSUME NEW k \in Jobs, PlaceOf(k) = s, PhaseOf(k) \in {"running", "ended"}
               PROVE  FALSE
    OBVIOUS
  <2>1. Active(k) /\ Where(k) = s
    BY <1>0, PhaseIs DEF PlaceOf
  <2> QED
    BY <1>0, <1>2, <2>1 DEF ConsoleExclusive
<1>7. /\ phase' = [phase EXCEPT ![j] = "running"]
      /\ place' = [place EXCEPT ![j] = s]
      /\ shell' = shell
  BY <1>4, <1>5 DEF Same
<1>8. Board!Start(s, j)
  BY <1>2, <1>4, <1>6, <1>7 DEF Board!Start, Board!Occupants, PlaceOf, ShellOf, Shell
<1> QED
  BY <1>2, <1>3, <1>8 DEF Board!Next
-----------------------------------------------------------------------------
(* Steps of the console threads                                            *)

\* A console thread keeps its place and leaves the others alone; a shell that
\* is not its own may die by its kill(), and is reaped by its wait().
LEMMA ConsolePlace ==
  ASSUME ConsoleInv, ConsoleInv', NEW j \in Jobs, ConsoleStep(j)
  PROVE  \A k \in Jobs : PlaceOf(k)' = PlaceOf(k) /\ (k # j => PhaseOf(k)' = PhaseOf(k))
<1>1. TypeOK /\ TypeOK' /\ ConsolesPlaced
  BY DEF ConsoleInv
<1>2. /\ jconn' = jconn /\ cslot' = cslot
      /\ \A k \in Jobs \ {j} : jpc'[k] = jpc[k] /\ jslot'[k] = jslot[k]
  BY <1>1, ConsoleAlone, ConsoleSparesClients DEF clientVars, cdata
<1>3. ASSUME NEW k \in Jobs \ {j} PROVE PhaseOf(k)' = PhaseOf(k) /\ PlaceOf(k)' = PlaceOf(k)
  BY <1>2 DEF PhaseOf, PlaceOf, Where
<1>4. PlaceOf(j)' = PlaceOf(j)
  <2>1. jpc[j] \notin {"none", "void"} /\ jpc'[j] \notin {"none", "void"}
    BY <1>1, ConsoleAlone
  <2>2. CASE jpc[j] = "new"
    <3>1. jpc' = jpc \/ jslot'[j] = cslot[jconn[j]]
      BY <1>1, <2>2, ConsoleArgument DEF ConsolesPlaced, Busy
    <3>2. jpc'[j] \notin {"new"} => jslot'[j] = cslot[jconn[j]]
      BY <2>2, <3>1
    <3> QED
      BY <1>1, <1>2, <2>1, <2>2, <3>2, PhaseIs DEF PlaceOf, PhaseOf, Where
  <2>3. CASE jpc[j] # "new"
    <3>1. jslot' = jslot /\ jpc'[j] # "new"
      BY <1>1, <2>3, ConsoleAlone
    <3>2. Where(j)' = Where(j)
      BY <2>3, <3>1 DEF Where
    <3>3. PhaseOf(j) # "unborn" /\ PhaseOf(j)' # "unborn"
      BY <1>1, <2>1 DEF PhaseOf
    <3> QED
      BY <3>2, <3>3 DEF PlaceOf
  <2> QED
    BY <2>2, <2>3
<1> QED
  BY <1>3, <1>4

LEMMA ConsoleShells ==
  ASSUME ConsoleInv, ConsoleInv', NEW j \in Jobs, ConsoleStep(j), NEW k \in Jobs
  PROVE  \/ ShellOf(k)' = ShellOf(k)
         \/ Fork(k) /\ k = j
         \/ Kill(j) /\ ShellOf(k) = "live" /\ ShellOf(k)' = "dead"
<1>1. TypeOK /\ TypeOK' /\ [Next]_vars
  BY DEF ConsoleInv, Next
<1>2. CASE Fork(k)
  <2>1. jpc[k] = "fork" /\ jpc'[k] = "parent"
    BY <1>1, <1>2 DEF Fork, ToConsole, TypeOK
  <2> QED
    BY <1>1, <1>2, <2>1, ConsoleAlone
<1>3. CASE proc'[Shell(k)] = proc[Shell(k)] \/ (proc[Shell(k)] = "zombie" /\ proc'[Shell(k)] = "gone")
  BY <1>3 DEF ShellOf
<1>4. CASE proc[Shell(k)] = "run" /\ proc'[Shell(k)] = "zombie"
  <2>1. CASE Kill(j)
    BY <1>4, <2>1 DEF ShellOf
  <2>2. CASE Wait(j)
    BY <1>1, <1>4, <2>2 DEF Wait, Shells, TypeOK, Shell, Proc
  <2>3. CASE Fork(j)
    <3>1. k # j
      <4>1. proc[Shell(j)] = "none"
        BY <2>3 DEF Fork, ConsoleInv, ShellsFollow, ShellFollows, Shell
      <4> QED
        BY <1>4, <4>1
    <3>2. Shell(k) # Shell(j)
      BY <3>1 DEF Shell
    <3> QED
      BY <1>1, <1>4, <2>3, <3>2 DEF Fork, TypeOK, Shell, Proc
  <2>4. CASE ~Fork(j) /\ ~Kill(j) /\ ~Wait(j)
    <3>1. proc' = proc
      BY <2>4 DEF ConsoleStep, ConsoleMoves, ReadArgument, ReadDangling, Prompt, ForkFails, Parent,
         ReadOutput, ReadForeign, ReadNothing, LeaveLoop, WriteInput, ClearInput, KillAll,
         Report, ClearExit, Deactivate, CloseAll, CloseEnd, OnlyToConsole, Die, procVars
    <3> QED
      BY <1>4, <3>1
  <2> QED
    BY <2>1, <2>2, <2>3, <2>4
<1> QED
  BY <1>1, <1>2, <1>3, <1>4, ShellMoves

\* fork(), kill() and the last flag write are steps of the board ...
LEMMA ForkIsBorn ==
  ASSUME ConsoleInv, ConsoleInv', NEW j \in Jobs, Fork(j)
  PROVE  Board!Next
<1> DEFINE shell == [k \in Jobs |-> ShellOf(k)]
<1>1. TypeOK /\ TypeOK' /\ ConsoleStep(j)
  BY DEF ConsoleInv, ConsoleStep, ConsoleMoves
<1>2. up /\ up' = up /\ jpc[j] = "fork" /\ jpc'[j] = "parent"
  BY <1>1 DEF Fork, ToConsole, TypeOK
<1>3. proc[Shell(j)] = "none"
  BY <1>2 DEF ConsoleInv, ShellsFollow, ShellFollows, Shell
<1>4. proc'[Shell(j)] \in {"run", "zombie"}
  BY <1>1 DEF Fork, TypeOK, Shell, Proc
<1>5. ShellOf(j) = "none" /\ ShellOf(j)' \in {"live", "dead"}
  BY <1>3, <1>4 DEF ShellOf
<1>6. PhaseOf(j) = "running" /\ PhaseOf(j)' = "running"
  BY <1>2 DEF PhaseOf
<1>7. \A k \in Jobs \ {j} : ShellOf(k)' = ShellOf(k)
  <2>1. ~Kill(j)
    BY <1>2 DEF Kill
  <2> QED
    BY <1>1, <2>1, ConsoleShells
<1>8. \A k \in Jobs : PhaseOf(k)' = PhaseOf(k) /\ PlaceOf(k)' = PlaceOf(k)
  BY <1>1, <1>6, ConsolePlace
<1>9. shell' = [shell EXCEPT ![j] = ShellOf(j)']
  BY <1>7
<1>10. Board!Born(j)
  <2>1. /\ [k \in Jobs |-> PhaseOf(k)]' = [k \in Jobs |-> PhaseOf(k)]
        /\ [k \in Jobs |-> PlaceOf(k)]' = [k \in Jobs |-> PlaceOf(k)]
    BY <1>8
  <2> QED
    BY <1>2, <1>5, <1>6, <1>9, <2>1 DEF Board!Born, PlaceOf, ShellOf, Shell
<1> QED
  BY <1>2, <1>10 DEF Board!Next

LEMMA KillIsEnd ==
  ASSUME ConsoleInv, ConsoleInv', NEW j \in Jobs, Kill(j)
  PROVE  Board!Next
<1> DEFINE phase == [k \in Jobs |-> PhaseOf(k)]
           shell == [k \in Jobs |-> ShellOf(k)]
           dead == {k \in Jobs : ShellOf(k) # "none" /\ ShellOf(k)' = "dead"}
<1>1. TypeOK /\ TypeOK' /\ ConsoleStep(j)
  BY DEF ConsoleInv, ConsoleStep, ConsoleMoves
<1>2. up /\ up' = up /\ jpc[j] = "kill" /\ jpc'[j] = "report" /\ jpid[j] # NoProc
  BY <1>1 DEF Kill, ToConsole, TypeOK
<1>3. proc[Shell(j)] # "none" /\ proc'[Shell(j)] \in {"zombie", "gone"}
  BY <1>2 DEF ConsoleInv, ShellsFollow, ShellFollows, Shell
<1>4. ShellOf(j) # "none" /\ ShellOf(j)' = "dead"
  BY <1>1, <1>3 DEF ShellOf
<1>5. PhaseOf(j) = "running" /\ PhaseOf(j)' = "ended"
  BY <1>2 DEF PhaseOf
<1>6. phase' = [phase EXCEPT ![j] = "ended"]
  BY <1>1, <1>5, ConsolePlace
<1>7. \A k \in Jobs : ShellOf(k)' = IF k \in dead THEN "dead" ELSE ShellOf(k)
  <2> SUFFICES ASSUME NEW k \in Jobs, k \notin dead PROVE ShellOf(k)' = ShellOf(k)
    OBVIOUS
  <2>1. k # j
    BY <1>4
  <2> QED
    BY <1>1, <2>1, ConsoleShells
<1>8. j \in dead /\ \A k \in dead : shell[k] # "none"
  BY <1>4
<1>9. shell' = [k \in Jobs |-> IF k \in dead THEN "dead" ELSE shell[k]]
  BY <1>7
<1>10. Board!End(j)
  <2>1. [k \in Jobs |-> PlaceOf(k)]' = [k \in Jobs |-> PlaceOf(k)]
    BY <1>1, ConsolePlace
  <2>2. dead \in SUBSET Jobs
    OBVIOUS
  <2> HIDE DEF dead
  <2> QED
    BY <1>2, <1>4, <1>5, <1>6, <1>8, <1>9, <2>1, <2>2 DEF Board!End, PlaceOf, ShellOf, Shell
<1> QED
  BY <1>2, <1>10 DEF Board!Next

LEMMA DeactivateIsRetire ==
  ASSUME ConsoleInv, ConsoleInv', NEW j \in Jobs, Deactivate(j)
  PROVE  Board!Next
<1> DEFINE phase == [k \in Jobs |-> PhaseOf(k)]
<1>1. TypeOK /\ TypeOK' /\ ConsoleStep(j)
  BY DEF ConsoleInv, ConsoleStep, ConsoleMoves
<1>2. up /\ up' = up /\ jpc[j] = "free" /\ jpc'[j] = "wait" /\ proc' = proc
  BY <1>1 DEF Deactivate, ToConsole, TypeOK, procVars
<1>3. PhaseOf(j) = "ended" /\ PhaseOf(j)' = "over"
  BY <1>2 DEF PhaseOf
<1>4. phase' = [phase EXCEPT ![j] = "over"]
  BY <1>1, <1>3, ConsolePlace
<1>5. /\ [k \in Jobs |-> PlaceOf(k)]' = [k \in Jobs |-> PlaceOf(k)]
      /\ [k \in Jobs |-> ShellOf(k)]' = [k \in Jobs |-> ShellOf(k)]
  BY <1>1, <1>2, ConsolePlace DEF ShellOf
<1>6. Board!Retire(j)
  BY <1>2, <1>3, <1>4, <1>5 DEF Board!Retire, PlaceOf, ShellOf, Shell
<1> QED
  BY <1>2, <1>6 DEF Board!Next

\* ... and the others change nothing on it.
LEMMA ConsoleQuiet ==
  ASSUME ConsoleInv, ConsoleInv', NEW j \in Jobs, ConsoleStep(j),
         ~Fork(j), ~Kill(j), ~Deactivate(j)
  PROVE  Quiet
<1>1. TypeOK /\ TypeOK'
  BY DEF ConsoleInv
<1>2. up' = up \/ (up /\ ~up')
  BY DEF ConsoleStep, ConsoleMoves, ReadArgument, ReadDangling, Prompt, ForkFails, Parent,
     ReadOutput, ReadForeign, ReadNothing, LeaveLoop, WriteInput, ClearInput, KillAll, Report,
     ClearExit, Wait, CloseAll, CloseEnd, OnlyToConsole, Die
<1>3. /\ jpc[j] \in {"new", "prompt", "fork"} \cup Started =>
           jpc'[j] \in {"new", "prompt", "fork"} \cup Started
      /\ jpc[j] \in {"report", "deact", "free"} => jpc'[j] \in {"report", "deact", "free"}
      /\ jpc[j] \in Ended \ {"report", "deact", "free"} =>
           jpc'[j] \in Ended \ {"report", "deact", "free"}
  <2> USE <1>1 DEF Started, Ended
  <2>0. jpc \in [Jobs -> ConsolePC]
    BY DEF TypeOK
  <2>1. CASE ReadArgument(j) \/ ReadDangling(j) \/ Prompt(j) \/ ForkFails(j) \/ Parent(j)
    BY <2>0, <2>1 DEF ReadArgument, ReadDangling, Prompt, ForkFails, Parent, OnlyToConsole,
       ToConsole, Die, consoleVars
  <2>2. CASE ReadOutput(j) \/ ReadForeign(j)
    <3>1. PICK to \in {"loop", "input", "kill"} : jpc[j] = "loop" /\ jpc' = [jpc EXCEPT ![j] = to]
      BY <2>2 DEF ReadOutput, ReadForeign, CheckInput, ToConsole
    <3> QED
      BY <2>0, <3>1
  <2>3. CASE ReadNothing(j) \/ LeaveLoop(j)
    BY <2>0, <2>3 DEF ReadNothing, LeaveLoop, CheckInput, OnlyToConsole, ToConsole, consoleVars
  <2>4. CASE WriteInput(j) \/ ClearInput(j)
    BY <2>0, <2>4 DEF WriteInput, ClearInput, OnlyToConsole, ToConsole, Die, consoleVars
  <2>5. CASE KillAll(j) \/ Report(j) \/ ClearExit(j) \/ Wait(j)
    BY <2>0, <2>5 DEF KillAll, Report, ClearExit, Wait, OnlyToConsole, ToConsole, Die, consoleVars
  <2>6. CASE CloseAll(j)
    BY <2>0, <2>6 DEF CloseAll, CloseEnd, ToConsole
  <2> QED
    BY <2>1, <2>2, <2>3, <2>4, <2>5, <2>6 DEF ConsoleStep, ConsoleMoves
<1>4. PhaseOf(j)' = PhaseOf(j)
  <2>1. jpc[j] \in {"new", "prompt", "fork"} \cup Started \cup Ended
    BY <1>1, ConsoleAlone DEF TypeOK, ConsolePC, Started, Ended
  <2> QED
    BY <1>3, <2>1 DEF PhaseOf, Started, Ended
<1>5. \A k \in Jobs : ShellOf(k)' = ShellOf(k)
  BY ConsoleShells
<1> QED
  BY <1>2, <1>4, <1>5, ConsolePlace DEF Quiet, Same

-----------------------------------------------------------------------------
(* The other steps                                                         *)

LEMMA OthersQuiet ==
  ASSUME TypeOK, ConsolesPlaced,
         \/ Sigpipe \/ InputRace \/ Rest \/ UNCHANGED vars \/ NetworkStep
         \/ \E k \in Jobs : Spawn(k) \/ Output(k)
         \/ \E k \in Jobs : Exit(<<"cmd", k>>)
  PROVE  Quiet
<1>1. UNCHANGED consoleVars /\ (up' = up \/ (up /\ ~up'))
  BY DEF Sigpipe, InputRace, Die, Rest, vars, NetworkStep, Accept, PeerClose, PeerReset, Spawn,
     Output, Exit, ToClient
<1>2. \A k \in Jobs : proc'[Shell(k)] = proc[Shell(k)]
  <2>1. \A k, l \in Jobs : Shell(k) # <<"cmd", l>> /\ Shell(k) \in Proc
    BY DEF Shell, Proc
  <2> QED
    BY <2>1 DEF Sigpipe, InputRace, Die, Rest, vars, NetworkStep, Accept, PeerClose, PeerReset,
       Spawn, Output, Exit, procVars, TypeOK
<1>3. \A c \in Conns : cpc[c] # "idle" => cslot'[c] = cslot[c]
  BY DEF Sigpipe, InputRace, Die, Rest, vars, NetworkStep, Accept, PeerClose, PeerReset, Spawn,
     Output, Exit, clientVars, cdata, TypeOK
<1>4. ASSUME NEW k \in Jobs PROVE Same(k)
  <2>1. Where(k)' = Where(k)
    BY <1>1, <1>3 DEF Where, ConsolesPlaced, Busy, consoleVars, jdata
  <2> QED
    BY <1>1, <1>2, <2>1, SameWhere DEF consoleVars
<1> QED
  BY <1>1, <1>4 DEF Quiet

\* A shell that ends by itself is one of a running job.
LEMMA ExitIsDie ==
  ASSUME ConsoleInv, NEW j \in Jobs, Exit(Shell(j))
  PROVE  Board!Next
<1> DEFINE shell == [k \in Jobs |-> ShellOf(k)]
<1>1. TypeOK
  BY DEF ConsoleInv
<1>2. /\ up /\ up' = up /\ proc[Shell(j)] = "run" /\ proc'[Shell(j)] = "zombie"
      /\ \A k \in Jobs \ {j} : proc'[Shell(k)] = proc[Shell(k)]
  <2>1. \A k \in Jobs : Shell(k) \in Proc /\ (k # j => Shell(k) # Shell(j))
    BY DEF Shell, Proc
  <2>2. EndOf(Shell(j)) = "zombie"
    BY DEF EndOf, Shell
  <2> QED
    BY <1>1, <2>1, <2>2 DEF Exit, TypeOK
<1>3. UNCHANGED <<jpc, jslot, jconn, cslot>>
  BY DEF Exit, consoleVars, jdata, clientVars, cdata
<1>4. /\ [k \in Jobs |-> PhaseOf(k)]' = [k \in Jobs |-> PhaseOf(k)]
      /\ [k \in Jobs |-> PlaceOf(k)]' = [k \in Jobs |-> PlaceOf(k)]
  BY <1>3 DEF PhaseOf, PlaceOf, Where
<1>5. PhaseOf(j) = "running"
  <2>1. jpc[j] \notin {"none", "new", "prompt", "fork", "void"} \cup Ended
    BY <1>2 DEF ConsoleInv, ShellsFollow, ShellFollows, Shell, Ended
  <2> QED
    BY <1>1, <2>1 DEF PhaseOf, TypeOK, ConsolePC, Ended
<1>6. ShellOf(j) = "live" /\ shell' = [shell EXCEPT ![j] = "dead"]
  BY <1>2 DEF ShellOf
<1>7. Board!Die(j)
  BY <1>2, <1>4, <1>5, <1>6 DEF Board!Die, PlaceOf, ShellOf, Shell
<1> QED
  BY <1>2, <1>7 DEF Board!Next

-----------------------------------------------------------------------------
(* The theorem                                                             *)

LEMMA BoardInit == Init => Board!Init
BY DEF Init, Board!Init, PhaseOf, Where, Proc

LEMMA BoardNext ==
  ConsoleInv /\ ConsoleInv' /\ [Next]_vars => [Board!Next]_(Board!vars)
<1> SUFFICES ASSUME ConsoleInv, ConsoleInv', [Next]_vars PROVE [Board!Next]_(Board!vars)
  OBVIOUS
<1>0. TypeOK /\ ConsolesPlaced
  BY DEF ConsoleInv
<1>1. ASSUME NEW c \in Conns, ClientStep(c) \/ Receive(c) PROVE [Board!Next]_(Board!vars)
  BY <1>0, <1>1, ClientQuiet, ClientStarts, QuietSteps
<1>2. ASSUME NEW j \in Jobs, ConsoleStep(j) PROVE [Board!Next]_(Board!vars)
  BY <1>2, ForkIsBorn, KillIsEnd, DeactivateIsRetire, ConsoleQuiet, QuietSteps
<1>3. CASE ProcessStep
  <2>1. ASSUME NEW p \in Proc, Exit(p) PROVE [Board!Next]_(Board!vars)
    <3>1. PICK j \in Jobs : p = <<"cmd", j>> \/ p = Shell(j)
      BY DEF Proc, Shell
    <3> QED
      BY <1>0, <2>1, <3>1, OthersQuiet, ExitIsDie, QuietSteps
  <2> QED
    BY <1>0, <1>3, <2>1, OthersQuiet, QuietSteps DEF ProcessStep
<1>4. CASE Sigpipe \/ InputRace \/ Rest \/ UNCHANGED vars \/ NetworkStep
  BY <1>0, <1>4, OthersQuiet, QuietSteps
<1> QED
  BY <1>1, <1>2, <1>3, <1>4 DEF Next

\* Console implements JobBoard: a slot never runs two jobs at once, and no job
\* is reported as killed (main.cpp:464) while its shell lives, through every
\* cancel, hang-up, failure and reuse of a slot.
THEOREM Implements == PromptStart => (Spec => ImplementsBoard)
<1> SUFFICES ASSUME PromptStart PROVE Spec => ImplementsBoard
  OBVIOUS
<1>1. Init => Board!Init
  BY BoardInit
<1>2. ConsoleInv /\ ConsoleInv' /\ [Next]_vars => [Board!Next]_(Board!vars)
  BY BoardNext
<1>3. Spec => []ConsoleInv
  BY Invariance
<1> QED
  BY <1>1, <1>2, <1>3, PTL DEF Spec, ImplementsBoard, Board!Spec

-----------------------------------------------------------------------------
(* Clients and their slots                                                 *)

\* The slot of a session shows its connection, and no other slot does.
LEMMA OwnerIs ==
  ASSUME SlotsOwned, NEW c \in Conns, Busy(c)
  PROVE  cslot[c] \in Slots /\ Owner(cslot[c]) = Sock(c)
<1>1. \A d \in Conns : Busy(d) /\ cslot[d] = cslot[c] => d = c
  BY DEF SlotsOwned
<1> QED
  BY <1>1 DEF SlotsOwned, Owner

LEMMA OwnerPrimed ==
  ASSUME SlotsOwned', NEW c \in Conns, Busy(c)'
  PROVE  Owner(cslot[c])' = Sock(c)'
<1>1. \A d \in Conns : Busy(d)' /\ cslot'[d] = cslot'[c] => d = c
  BY DEF SlotsOwned
<1> QED
  BY <1>1 DEF SlotsOwned, Owner

LEMMA NobodyOwns ==
  ASSUME NEW s, \A c \in Conns : ~(Busy(c) /\ cslot[c] = s)
  PROVE  Owner(s) = Closed
BY DEF Owner

LEMMA SockIsClients ==
  ASSUME NEW c, NEW d
  PROVE  Sock(c) # Closed /\ (Sock(c) = Sock(d) => c = d)
BY DEF Sock, Closed

\* Client threads that neither begin nor end.
LEMMA SameOwners ==
  ASSUME cslot' = cslot, \A c \in Conns : (Busy(c)' <=> Busy(c)) /\ (cpc'[c] = "done" <=> cpc[c] = "done")
  PROVE  UNCHANGED Admissions!vars
<1>1. ASSUME NEW s \in Slots PROVE Owner(s)' = Owner(s)
  <2>1. \A c \in Conns : (Busy(c) /\ cslot[c] = s)' <=> (Busy(c) /\ cslot[c] = s)
    OBVIOUS
  <2>2. (CHOOSE c \in Conns : (Busy(c) /\ cslot[c] = s)') = CHOOSE c \in Conns : Busy(c) /\ cslot[c] = s
    BY <2>1
  <2> QED
    BY <2>1, <2>2 DEF Owner, Sock
<1>2. [s \in Slots |-> Owner(s)]' = [s \in Slots |-> Owner(s)]
  BY <1>1
<1>3. {d \in Conns : cpc'[d] = "done"} = {d \in Conns : cpc[d] = "done"}
  OBVIOUS
<1> QED
  BY <1>2, <1>3 DEF Admissions!vars, Sock

LEMMA OwnerBusy ==
  ASSUME NEW s, NEW c \in Conns, Owner(s) = Sock(c)
  PROVE  Busy(c) /\ cslot[c] = s
<1> DEFINE P(e) == e \in Conns /\ Busy(e) /\ cslot[e] = s
<1>1. PICK d : P(d)
  BY SockIsClients DEF Owner
<1>2. P(CHOOSE e \in Conns : Busy(e) /\ cslot[e] = s)
  BY <1>1
<1>3. Owner(s) = Sock(CHOOSE e \in Conns : Busy(e) /\ cslot[e] = s)
  BY <1>1 DEF Owner
<1> QED
  BY <1>2, <1>3, SockIsClients

\* The owner of a slot that no thread enters or leaves.
LEMMA SameOwner ==
  ASSUME NEW s, \A c \in Conns : (Busy(c) /\ cslot[c] = s)' <=> (Busy(c) /\ cslot[c] = s)
  PROVE  Owner(s)' = Owner(s)
<1>1. (CHOOSE c \in Conns : (Busy(c) /\ cslot[c] = s)') = CHOOSE c \in Conns : Busy(c) /\ cslot[c] = s
  OBVIOUS
<1> QED
  BY <1>1 DEF Owner, Sock

LEMMA AcceptIsAdmit ==
  ASSUME Base, Base', NEW c \in Conns, NEW s \in Slots, Accept(c, s)
  PROVE  Admissions!Next
<1>1. /\ cpc[c] = "idle" /\ clients[s] = 0 /\ cpc' = [cpc EXCEPT ![c] = "recv"]
      /\ cslot' = [cslot EXCEPT ![c] = s]
  BY DEF Accept, ToClient
<1>2. TypeOK /\ SlotsOwned /\ SlotsOwned'
  BY DEF Base
<1>3. /\ cpc'[c] = "recv" /\ cslot'[c] = s
      /\ \A d \in Conns : d # c => cpc'[d] = cpc[d] /\ cslot'[d] = cslot[d]
  BY <1>1, <1>2 DEF TypeOK
<1>4. Owner(s) = Closed
  BY <1>1, <1>2, NobodyOwns DEF SlotsOwned
<1>5. Owner(s)' = Sock(c)
  <2>1. Busy(c)' /\ cslot'[c] = s
    BY <1>3 DEF Busy
  <2>2. Owner(cslot[c])' = Sock(c)'
    BY <1>2, <2>1, OwnerPrimed
  <2> QED
    BY <2>1, <2>2 DEF Sock, Owner
<1>6. ASSUME NEW t \in Slots, t # s PROVE Owner(t)' = Owner(t)
  <2>1. \A d \in Conns : (Busy(d) /\ cslot[d] = t)' <=> (Busy(d) /\ cslot[d] = t)
    BY <1>1, <1>3, <1>6 DEF Busy
  <2> QED
    BY <2>1, SameOwner
<1>7. Sock(c) \notin {Owner(t) : t \in Slots} \cup {Sock(d) : d \in {d \in Conns : cpc[d] = "done"}}
  BY <1>1, OwnerBusy, SockIsClients DEF Busy
<1>8. {d \in Conns : cpc'[d] = "done"} = {d \in Conns : cpc[d] = "done"}
  BY <1>1, <1>3
<1>9. [t \in Slots |-> Owner(t)]' = [[t \in Slots |-> Owner(t)] EXCEPT ![s] = Sock(c)]
  BY <1>5, <1>6
<1>10. Admissions!Admit(Sock(c), s)
  BY <1>4, <1>7, <1>8, <1>9 DEF Admissions!Admit, Admissions!Admitted, Sock
<1> QED
  BY <1>10 DEF Admissions!Next

LEMMA FreeSlotIsRelease ==
  ASSUME Base, NEW c \in Conns, FreeSlot(c)
  PROVE  Admissions!Next
<1>1. cpc[c] = "null" /\ cpc' = [cpc EXCEPT ![c] = "done"] /\ cslot' = cslot
  BY DEF FreeSlot, ToClient, cdata
<1>2. TypeOK /\ SlotsOwned
  BY DEF Base
<1>3. cpc'[c] = "done" /\ \A d \in Conns : d # c => cpc'[d] = cpc[d]
  BY <1>1, <1>2 DEF TypeOK
<1>4. Busy(c) /\ cslot[c] \in Slots /\ Owner(cslot[c]) = Sock(c)
  BY <1>1, <1>2, OwnerIs DEF Busy
<1>5. PICK s \in Slots : s = cslot[c] /\ Owner(s) = Sock(c)
  BY <1>4
<1>6. \A d \in Conns : Busy(d) /\ cslot[d] = s => d = c
  BY <1>2, <1>5, <1>4 DEF SlotsOwned
<1>7. [t \in Slots |-> Owner(t)]' = [[t \in Slots |-> Owner(t)] EXCEPT ![s] = Closed]
  <2>1. \A d \in Conns : ~(Busy(d)' /\ cslot'[d] = s)
    BY <1>1, <1>3, <1>6 DEF Busy
  <2>2. Owner(s)' = Closed
    BY <2>1 DEF Owner, Closed
  <2>3. ASSUME NEW t \in Slots, t # s PROVE Owner(t)' = Owner(t)
    <3>1. \A d \in Conns : (Busy(d) /\ cslot[d] = t)' <=> (Busy(d) /\ cslot[d] = t)
      BY <1>1, <1>3, <1>5, <2>3 DEF Busy
    <3> QED
      BY <3>1, SameOwner
  <2> QED
    BY <2>2, <2>3
<1>8. {d \in Conns : cpc'[d] = "done"} = {d \in Conns : cpc[d] = "done"} \cup {c}
  BY <1>3
<1>9. {Sock(d) : d \in {d \in Conns : cpc'[d] = "done"}}
      = {Sock(d) : d \in {d \in Conns : cpc[d] = "done"}} \cup {Sock(c)}
  BY <1>8
<1>10. Owner(s) # Closed
  BY <1>5, SockIsClients
<1>11. Admissions!Release(s)
  BY <1>5, <1>7, <1>9, <1>10 DEF Admissions!Release, Sock
<1> QED
  BY <1>5, <1>11 DEF Admissions!Next

LEMMA AdmissionNext ==
  Base /\ Base' /\ [Next]_vars => [Admissions!Next]_(Admissions!vars)
<1> SUFFICES ASSUME Base, Base', [Next]_vars PROVE [Admissions!Next]_(Admissions!vars)
  OBVIOUS
<1>0. TypeOK
  BY DEF Base
<1>1. ASSUME NEW c \in Conns, ClientStep(c) \/ Receive(c) PROVE [Admissions!Next]_(Admissions!vars)
  <2>1. CASE FreeSlot(c)
    BY <2>1, FreeSlotIsRelease
  <2>2. CASE ~FreeSlot(c)
    <3>1. cslot' = cslot /\ Busy(c) /\ Busy(c)' /\ \A d \in Conns : d # c => cpc'[d] = cpc[d]
      BY <1>0, <1>1, <2>2, ClientAlone
    <3> QED
      BY <3>1, SameOwners DEF Busy
  <2> QED
    BY <2>1, <2>2
<1>2. ASSUME NEW j \in Jobs, ConsoleStep(j) PROVE [Admissions!Next]_(Admissions!vars)
  BY <1>2, ConsoleSparesClients, SameOwners DEF clientVars, cdata, Busy
<1>3. CASE \/ ProcessStep \/ Sigpipe \/ InputRace \/ Rest \/ UNCHANGED vars
           \/ \E c \in Conns : PeerClose(c) \/ PeerReset(c)
  BY <1>3, OthersSpareThreads, SameOwners DEF clientVars, cdata, Busy
<1>4. ASSUME NEW c \in Conns, NEW s \in Slots, Accept(c, s) PROVE [Admissions!Next]_(Admissions!vars)
  BY <1>4, AcceptIsAdmit
<1> QED
  BY <1>1, <1>2, <1>3, <1>4 DEF Next, NetworkStep

LEMMA AdmissionInit == Init => Admissions!Init
<1> SUFFICES ASSUME Init PROVE Admissions!Init
  OBVIOUS
<1>1. \A c \in Conns : ~Busy(c) /\ cpc[c] # "done"
  BY DEF Init, Busy
<1>2. \A s \in Slots : Owner(s) = Closed
  BY <1>1, NobodyOwns
<1> QED
  BY <1>1, <1>2 DEF Admissions!Init

\* Console implements Admission, the promise of the accept loop, with no
\* assumption about threads: a slot is one client's from accept() to the end
\* of CloseSocket (main.cpp:153, 303-309), although consoles that outlive it
\* go on in its slot, and close numbers that are not theirs.
THEOREM Admits == Spec => ImplementsAdmission
<1>1. Init => Admissions!Init
  BY AdmissionInit
<1>2. Base /\ Base' /\ [Next]_vars => [Admissions!Next]_(Admissions!vars)
  BY AdmissionNext
<1> QED
  BY <1>1, <1>2, AlwaysBase, PTL DEF Spec, ImplementsAdmission, Admissions!Spec
===============================================================================
