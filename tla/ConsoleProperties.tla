-------------------------- MODULE ConsoleProperties --------------------------
(***************************************************************************)
(* What the command sessions of module Console guarantee, what the source  *)
(* says they do and they do not, and the invariant the guarantees rest on. *)
(***************************************************************************)
EXTENDS Console

-----------------------------------------------------------------------------
(* What holds                                                              *)

\* Console threads from pthread_create to line 471, and the slot they work in.
Active(j) == jpc[j] \notin {"none", "wait", "close1", "close2", "close3", "close4", "done", "void"}
Where(j) == IF jpc[j] = "new" THEN cslot[jconn[j]] ELSE jslot[j]

\* "One thread at a time": two consoles are never active in one slot, across
\* cancels, hang-ups and the reuse of the slot by other clients, because
\* pipeActive covers each of them from its creation to its last flag write.
ConsoleExclusive ==
  \A j, k \in Jobs : Active(j) =>
    /\ ClientConsole[Where(j)].pipeActive
    /\ Active(k) /\ Where(j) = Where(k) => j = k

\* wait(NULL) never blocks a console on another session's shell, although it
\* reaps any child: there are at least as many dead children as waiters.
WaitNeverBlocks ==
  Cardinality({j \in Jobs : jpc[j] = "wait"}) <= Cardinality(Shells({"zombie"}))

\* A request to stop is never lost: while a client thread waits for the
\* console of its own slot, nothing takes exitCode back before that console
\* does so itself.
CancelStands ==
  \A c \in Conns :
    /\ cpc[c] = "join" /\ handle[c] \in Jobs
    /\ Active(handle[c]) /\ jpc[handle[c]] # "free" /\ Where(handle[c]) = cslot[c]
    => ClientConsole[cslot[c]].exitCode = 1

\* What a job looks like from outside.
PhaseOf(j) ==
  CASE jpc[j] \in {"none", "void"} -> "unborn"
    [] jpc[j] \in {"report", "deact", "free"} -> "ended"
    [] jpc[j] \in {"wait", "close1", "close2", "close3", "close4", "done"} -> "over"
    [] OTHER -> "running"

Board == INSTANCE JobBoard WITH
  alive <- up,
  phase <- [j \in Jobs |-> PhaseOf(j)],
  place <- [j \in Jobs |-> IF PhaseOf(j) = "unborn" THEN NoSlot ELSE Where(j)],
  shell <- [j \in Jobs |-> CASE proc[<<"shell", j>>] = "none" -> "none"
                              [] proc[<<"shell", j>>] = "run" -> "live"
                              [] OTHER -> "dead"]

\* The sessions keep what JobBoard promises: one job at a time in a slot, and
\* no job reported as killed, or its slot given on, while its shell lives.
ImplementsBoard == Board!Spec

\* Client threads from accept() to the end of CloseSocket, and the connection
\* a slot is given to.
Busy(c) == cpc[c] \notin {"idle", "done"}
Owner(s) == IF \E c \in Conns : Busy(c) /\ cslot[c] = s
            THEN Sock(CHOOSE c \in Conns : Busy(c) /\ cslot[c] = s)
            ELSE Closed

Admissions == INSTANCE Admission WITH
  Conns <- {Sock(c) : c \in Conns}, Nobody <- Closed,
  owner <- [s \in Slots |-> Owner(s)],
  past <- {Sock(c) : c \in {d \in Conns : cpc[d] = "done"}}

\* The sessions take slots as module Slots gives them out: a client has its
\* slot to itself until its own thread is through with CloseSocket, whatever
\* its consoles still do.
ImplementsAdmission == Admissions!Spec

\* What the liveness properties need.  Output that stops, and is read and sent:
\* only a read() that finds nothing looks at exitCode.
OutputDriesUp == \A j \in Jobs : <>[](outq[j] = 0)

\* send() and write() return: the client reads, the command takes its input.
CallsReturn ==
  /\ \A c \in Conns : []<>(cpc[c] \notin {"reply", "failed"})
  /\ \A j \in Jobs : []<>(jpc[j] \notin {"prompt", "input", "report"})

\* No console reads for ever from a number that became somebody else's.
NothingForeign == \A j \in Jobs : <>[]~(jpc[j] = "loop" /\ Foreign(j))

Undisturbed == OutputDriesUp /\ CallsReturn /\ NothingForeign

\* What no premise about the environment excludes: a handle joined before may
\* be the handle of another client's console, which nobody asked to stop, and
\* recv() may wait on a number that became another client's socket.
JoinsOther(c) == handle[c] \in Jobs /\ jconn[handle[c]] # c
RecvsOther(c) == cpc[c] = "recv" /\ rsock[c] # Sock(c)

\* A cancel returns: the client thread that waits for its console gets back to
\* its connection, unless the server dies or the thread it joins is another's.
JoinReturns ==
  Undisturbed => \A c \in Conns :
    (cpc[c] = "join") ~> (cpc[c] # "join" \/ ~up \/ JoinsOther(c))

\* A client that hung up gives its slot back, whatever its thread was doing,
\* with the same exceptions.
HangupFrees ==
  Undisturbed => \A c \in Conns :
    (sock[c] \in {"closed", "reset"})
      ~> (cpc[c] = "done" \/ ~up \/ JoinsOther(c) \/ RecvsOther(c))

\* What the comments say, and the code does not do.

\* "Kill shell pipe process", "Kill pipe process" (main.cpp:460-461): the end
\* of a command kills processes of that command only.
KillsOwn ==
  [][\A j \in Jobs, p \in Proc :
       jpc[j] = "kill" /\ jpc'[j] = "report" /\ proc'[p] # proc[p] => p[2] = j]_vars

-----------------------------------------------------------------------------
(* The inductive invariant                                                 *)

\* Every running client thread has a slot of its own, marked as taken.
SlotsOwned ==
  \A c \in Conns :
    /\ Busy(c) => cslot[c] \in Slots /\ clients[cslot[c]] # 0
    /\ \A d \in Conns : Busy(c) /\ Busy(d) /\ cslot[c] = cslot[d] => c = d

\* A console thread that has yet to read its argument has a live creator.
ConsolesPlaced ==
  \A j \in Jobs :
    /\ jpc[j] = "new" => jconn[j] \in Conns /\ Busy(jconn[j])
    /\ jpc[j] \notin {"none", "new", "void"} => jslot[j] \in Slots

\* newConsoleThread is a thread that exists, and once it is set no other
\* console is active in the client's slot.
HandlesKnown ==
  \A c \in Conns :
    /\ cpc[c] = "idle" => handle[c] = NoJob
    /\ handle[c] \in Jobs => jpc[handle[c]] \notin {"none", "void"}
    /\ Busy(c) /\ handle[c] # NoJob =>
         \A j \in Jobs : Active(j) /\ Where(j) = cslot[c] => handle[c] = j

\* Where a console thread is tells what became of its shell.
ShellFollows(j) ==
  LET shell == <<"shell", j>>
      pid == IF jpc[j] = "parent" THEN ClientConsole[jslot[j]].activePipeID ELSE jpid[j]
  IN  /\ jpc[j] \in {"none", "new", "prompt", "fork", "void"} => proc[shell] = "none"
      /\ jpc[j] \in {"parent", "loop", "input", "clear", "kill"} =>
           \/ pid = shell /\ proc[shell] # "none"
           \/ pid = NoProc /\ proc[shell] = "none"
      /\ jpc[j] \in {"report", "deact", "free", "wait", "close1", "close2", "close3", "close4", "done"} =>
           proc[shell] \in {"zombie", "gone"}
ShellsFollow == \A j \in Jobs : ShellFollows(j)

\* One dead or living child for each console that has not waited yet.
Unwaited == {j \in Jobs : proc[<<"shell", j>>] # "none" /\ jpc[j] \notin {"close1", "close2", "close3", "close4", "done"}}
ChildrenCounted == Cardinality(Shells({"run", "zombie"})) = Cardinality(Unwaited)

ConsoleInv ==
  /\ TypeOK /\ SlotsOwned /\ ConsolesPlaced /\ ConsoleExclusive
  /\ HandlesKnown /\ CancelStands /\ ShellsFollow /\ ChildrenCounted
=============================================================================
