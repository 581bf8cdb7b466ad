------------------------------- MODULE Console -------------------------------
(***************************************************************************)
(* The command sessions of the server: remote-terminal-server/src/main.cpp *)
(* from NewClient to HandleClientPipe, with CloseSocket of server.cpp.     *)
(*                                                                         *)
(* A connection c is served by a client thread (NewClient) that owns one   *)
(* slot, an index of Service->clients and of ClientConsole.  A command is  *)
(* run by a console thread (NewConsole), called a job here, which forks a  *)
(* shell and copies what the shell prints to the slot's socket.  The two   *)
(* threads share the slot's ThreadData without any lock.  Every socket and *)
(* pipe end is a descriptor NUMBER; close() works on the number, and the   *)
(* kernel gives out the lowest free one, so a number closed twice may be   *)
(* somebody else's the second time.                                        *)
(*                                                                         *)
(* Abstractions.  The accept loop is one atomic Accept (module Slots has   *)
(* its steps).  Text is not modelled: an input is the job it was typed     *)
(* for and a member of Inputs, output is counted in chunks (at most Cap    *)
(* unread ones).  Assignments and system calls that follow each other      *)
(* without another thread being able to tell are one step.                 *)
(***************************************************************************)
EXTENDS Naturals, FiniteSets, Sequences

CONSTANTS
  Slots,        \* indices of clients[] and ClientConsole[]
  Conns,        \* connections, each made once
  Jobs,         \* console threads, each created once: the bound on commands
  Inputs,       \* texts that can be typed as input of a command
  Messages,     \* the kinds of message clients send
  Fds,          \* descriptor numbers the process can get for its sessions
  Cap,          \* bound on unread output chunks of a pipe
  Faults,       \* what may go wrong: pthread_create(), fork(), a connection
  Garbage,      \* values the uninitialised flags of ThreadData may have
  ShellForks,   \* /bin/sh runs the command as a child of its own, or execs it
  PromptStart,  \* TRUE: a console thread reads its argument before the client
                \* thread that created it exits.  Nothing in the code says so.
  NoSlot, NoJob, Stale

ASSUME ConsoleAssumption ==
  /\ IsFiniteSet(Jobs)
  /\ Messages \subseteq {"run", "builtin", "cancel", "close"}
  /\ Fds \subseteq Nat \ {0} /\ IsFiniteSet(Fds)
  /\ Cap \in Nat
  /\ Faults \subseteq {"thread", "fork", "reset"}
  /\ Garbage \subseteq BOOLEAN /\ Garbage # {}
  /\ PromptStart \in BOOLEAN /\ ShellForks \in BOOLEAN
  /\ NoSlot \notin Slots
  /\ NoJob \notin Jobs /\ Stale \notin Jobs /\ NoJob # Stale

VARIABLES
  up,             \* the server process is alive
  fd,             \* descriptor table: what each number refers to
  sock,           \* state of each connection's socket
  clients,        \* Service->clients: a number, 0 for a free slot
  ClientConsole,  \* the ThreadData of each slot
  cpc, cslot,     \* client threads: where they are, their socketID
  rsock,          \* the object a client thread's recv() is waiting on
  handle,         \* its newConsoleThread
  jpc, jslot,     \* console threads: where they are, their socketID
  jconn,          \* the client thread that created the console thread
  jpid,           \* its pipeProcessID
  proc,           \* the processes of each job: <<"shell", j>>, <<"cmd", j>>
  pids,           \* all processes in the order they were given ids
  image,          \* descriptors a job's processes hold
  outq            \* unread chunks in a job's pipeChildToParent

cdata == <<cslot, handle>>
clientVars == <<cpc, rsock, cdata>>
jdata == <<jslot, jconn, jpid>>
consoleVars == <<jpc, jdata>>
procVars == <<proc, pids, image, outq>>
netVars == <<fd, sock, clients>>
vars == <<up, netVars, ClientConsole, clientVars, consoleVars, procVars>>

-----------------------------------------------------------------------------
(* Descriptors, processes and types                                        *)

Proc == {"shell", "cmd"} \X Jobs
NoProc == <<"none", NoJob>>          \* the pid -1 of a failed fork()

Sock(c) == <<"sock", c>>
PipeEnds == {"in0", "in1", "out0", "out1"}
Closed == <<"closed", NoJob>>
Lost == <<"lost", NoJob>>             \* an end of a pipe nobody will use
Objects == ({"sock"} \X Conns) \cup (PipeEnds \X Jobs) \cup {Lost}

\* What a number refers to; 0 is the terminal and never a session's object.
Entry(table, n) == IF n \in Fds THEN table[n] ELSE Closed
At(n) == Entry(fd, n)

FreeFds == {n \in Fds : fd[n] = Closed}

\* The kernel hands out the lowest free number first: the k-th one it gives.
Lowest(k) ==
  CHOOSE n \in FreeFds : Cardinality({m \in FreeFds : m < n}) = k - 1

\* Numbers that become free again.
Without(table, S) == [n \in Fds |-> IF n \in S THEN Closed ELSE table[n]]

Running(k) == proc[<<"shell", k>>] = "run" \/ proc[<<"cmd", k>>] = "run"

\* Somebody, the server or a process, still has object o open.
InUse(o) ==
  \/ \E n \in Fds : fd[n] = o
  \/ \E k \in Jobs : Running(k) /\ o \in image[k].holds

ClientPC == {"idle", "recv", "reply", "failed", "flag", "join",
             "shut", "close", "null", "done"}
ConsolePC == {"none", "new", "prompt", "fork", "parent", "loop", "input",
              "clear", "kill", "report", "deact", "free", "wait",
             "close1", "close2", "close3", "close4", "done", "void"}
SockState == {"none", "open", "closed", "reset", "shut"}

NoInput == [job |-> NoJob, text |-> NoJob]
Typed == [job : Jobs \cup {NoJob}, text : Inputs] \cup {NoInput}

ThreadData ==
  [exitCode : {0, 1}, pipeActive : BOOLEAN, hasNextCommand : BOOLEAN,
   nextCommand : Typed, activePipeID : Proc \cup {NoProc},
   pipeChildToParent : [{0, 1} -> Fds \cup {0}],
   pipeParentToChild : [{0, 1} -> Fds \cup {0}]]

TypeOK ==
  /\ up \in BOOLEAN
  /\ fd \in [Fds -> Objects \cup {Closed}]
  /\ sock \in [Conns -> SockState]
  /\ clients \in [Slots -> Fds \cup {0}]
  /\ ClientConsole \in [Slots -> ThreadData]
  /\ cpc \in [Conns -> ClientPC]
  /\ cslot \in [Conns -> Slots \cup {NoSlot}]
  /\ rsock \in [Conns -> Objects \cup {Closed}]
  /\ handle \in [Conns -> Jobs \cup {NoJob, Stale}]
  /\ jpc \in [Jobs -> ConsolePC]
  /\ jslot \in [Jobs -> Slots \cup {NoSlot}]
  /\ jconn \in [Jobs -> Conns \cup {NoJob}]
  /\ jpid \in [Jobs -> Proc \cup {NoProc}]
  /\ proc \in [Proc -> {"none", "run", "zombie", "gone"}]
  /\ pids \in Seq(Proc)
  /\ image \in [Jobs -> [stdout : Objects \cup {Closed}, holds : SUBSET Objects]]
  /\ outq \in [Jobs -> 0 .. Cap]

\* new ThreadData[] leaves the flags of a slot uninitialised.
Init ==
  /\ up = TRUE
  /\ fd = [n \in Fds |-> Closed]
  /\ sock = [c \in Conns |-> "none"]
  /\ clients = [s \in Slots |-> 0]
  /\ \E active, pending \in [Slots -> Garbage] :
       ClientConsole = [s \in Slots |->
         [exitCode |-> 0, pipeActive |-> active[s],
          hasNextCommand |-> pending[s], nextCommand |-> NoInput,
          activePipeID |-> NoProc,
          pipeChildToParent |-> [i \in {0, 1} |-> 0],
          pipeParentToChild |-> [i \in {0, 1} |-> 0]]]
  /\ cpc = [c \in Conns |-> "idle"] /\ cslot = [c \in Conns |-> NoSlot]
  /\ rsock = [c \in Conns |-> Closed] /\ handle = [c \in Conns |-> NoJob]
  /\ jpc = [j \in Jobs |-> "none"] /\ jslot = [j \in Jobs |-> NoSlot]
  /\ jconn = [j \in Jobs |-> NoJob] /\ jpid = [j \in Jobs |-> NoProc]
  /\ proc = [p \in Proc |-> "none"] /\ pids = << >>
  /\ image = [j \in Jobs |-> [stdout |-> Closed, holds |-> {}]]
  /\ outq = [j \in Jobs |-> 0]

-----------------------------------------------------------------------------
(* Steps of the server process as a whole                                  *)

\* A call or a signal that ends the server process.  Nothing moves after it.
Die == up /\ up' = FALSE /\ UNCHANGED <<netVars, ClientConsole, clientVars, consoleVars, procVars>>

\* send() to a socket that was shut down or reset raises SIGPIPE, which the
\* server leaves at its default action; any other failure is ignored.
Broken(s) == \E c \in Conns : At(clients[s]) = Sock(c) /\ sock[c] \in {"shut", "reset"}

\* A thread moves on; the threads of a dead process do not.
ToClient(c, label) == up /\ cpc' = [cpc EXCEPT ![c] = label]
ToConsole(j, label) == up /\ jpc' = [jpc EXCEPT ![j] = label]
OnlyToConsole(j, label) ==
  ToConsole(j, label) /\ UNCHANGED <<up, netVars, ClientConsole, clientVars, jdata, procVars>>
OnlyToClient(c, label) ==
  /\ ToClient(c, label)
  /\ UNCHANGED <<up, netVars, ClientConsole, cdata, rsock, consoleVars, procVars>>

\* Back to the top of the do loop: recv() waits on what the number means now.
Again(c) == ToClient(c, "recv") /\ rsock' = [rsock EXCEPT ![c] = At(clients[cslot[c]])]
OnlyAgain(c) == Again(c) /\ UNCHANGED <<up, netVars, ClientConsole, cdata, consoleVars, procVars>>

-----------------------------------------------------------------------------
(* Connections                                                             *)

\* accept() fills a free slot; NewClient starts with that slot.  Of the
\* slot's ThreadData only exitCode is set.
Accept(c, s) ==
  /\ cpc[c] = "idle" /\ clients[s] = 0 /\ FreeFds # {}
  /\ sock' = [sock EXCEPT ![c] = "open"]
  /\ fd' = [fd EXCEPT ![Lowest(1)] = Sock(c)]
  /\ clients' = [clients EXCEPT ![s] = Lowest(1)]
  /\ ClientConsole' = [ClientConsole EXCEPT ![s].exitCode = 0]
  /\ ToClient(c, "recv")
  /\ cslot' = [cslot EXCEPT ![c] = s]
  /\ rsock' = [rsock EXCEPT ![c] = Sock(c)]
  /\ UNCHANGED <<up, handle, consoleVars, procVars>>

\* The client program ends its side, or its host resets the connection.
PeerClose(c) ==
  /\ up /\ sock[c] = "open" /\ sock' = [sock EXCEPT ![c] = "closed"]
  /\ UNCHANGED <<up, fd, clients, ClientConsole, clientVars, consoleVars, procVars>>

PeerReset(c) ==
  /\ up /\ "reset" \in Faults
  /\ sock[c] \in {"open", "closed"} /\ sock' = [sock EXCEPT ![c] = "reset"]
  /\ UNCHANGED <<up, fd, clients, ClientConsole, clientVars, consoleVars, procVars>>

-----------------------------------------------------------------------------
(* The client thread, NewClient                                            *)

\* recv() returns a message of kind m.
Gets(c, m) ==
  /\ cpc[c] = "recv" /\ m \in Messages
  /\ \E d \in Conns : rsock[c] = Sock(d) /\ sock[d] \in {"open", "closed"}

\* An 'M' message is dropped unless exitCode is 0.
Dropped(c) ==
  /\ \E m \in {"run", "builtin"} : Gets(c, m)
  /\ ClientConsole[cslot[c]].exitCode # 0
  /\ OnlyAgain(c)

\* "sudo " and "cd" are answered by the client thread itself, whether or not
\* a console is running.
Builtin(c) ==
  /\ Gets(c, "builtin") /\ ClientConsole[cslot[c]].exitCode = 0
  /\ OnlyToClient(c, "reply")

Reply(c) ==
  /\ cpc[c] = "reply" /\ ~Broken(cslot[c])
  /\ OnlyAgain(c)

\* Two pipes: pipeChildToParent takes the two lowest numbers.
OpenPipes(s, j) ==
  LET n == [k \in 1 .. 4 |-> Lowest(k)]
      end == <<"out0", "out1", "in0", "in1">>
  IN  /\ fd' = [f \in Fds |-> IF \E k \in 1 .. 4 : n[k] = f
                              THEN <<end[CHOOSE k \in 1 .. 4 : n[k] = f], j>>
                              ELSE fd[f]]
      /\ ClientConsole' = [ClientConsole EXCEPT ![s] = [@ EXCEPT
           !.pipeChildToParent = [i \in {0, 1} |-> n[i + 1]],
           !.pipeParentToChild = [i \in {0, 1} |-> n[i + 3]],
           !.pipeActive = TRUE]]

\* A command starts a console thread j if none is active in the slot.
RunCommand(c, j) ==
  LET s == cslot[c] IN
  /\ Gets(c, "run")
  /\ ClientConsole[s].exitCode = 0 /\ ~ClientConsole[s].pipeActive
  /\ Cardinality(FreeFds) >= 4
  /\ jpc[j] = "none"
  /\ OpenPipes(s, j)
  /\ ToConsole(j, "new")
  /\ jconn' = [jconn EXCEPT ![j] = c]
  /\ handle' = [handle EXCEPT ![c] = j]
  /\ ToClient(c, "recv") /\ rsock' = [rsock EXCEPT ![c] = Entry(fd', clients[s])]
  /\ UNCHANGED <<up, sock, clients, cslot, jslot, jpid, procVars>>

\* pthread_create fails: the pipes stay, pipeActive stays TRUE, the client is
\* told and disconnected.  (j names the pipes; the thread never is.)
ThreadFails(c, j) ==
  /\ "thread" \in Faults
  /\ Gets(c, "run")
  /\ ClientConsole[cslot[c]].exitCode = 0 /\ ~ClientConsole[cslot[c]].pipeActive
  /\ Cardinality(FreeFds) >= 4
  /\ jpc[j] = "none"
  /\ OpenPipes(cslot[c], j)
  /\ ToConsole(j, "void")
  /\ ToClient(c, "failed")
  /\ UNCHANGED <<up, sock, clients, cdata, rsock, jdata, procVars>>

SayFailed(c) ==
  /\ cpc[c] = "failed" /\ ~Broken(cslot[c])
  /\ OnlyToClient(c, "shut")

\* pipe() fails for want of numbers: no console, no answer.  When only the
\* second pipe() fails the first one's two numbers are lost.
PipeFails(c) ==
  LET s == cslot[c] IN
  /\ Gets(c, "run")
  /\ ClientConsole[s].exitCode = 0 /\ ~ClientConsole[s].pipeActive
  /\ Cardinality(FreeFds) < 4
  /\ IF Cardinality(FreeFds) < 2
     THEN UNCHANGED <<fd, ClientConsole>>
     ELSE /\ fd' = [f \in Fds |-> IF f \in {Lowest(1), Lowest(2)} THEN Lost ELSE fd[f]]
          /\ ClientConsole' = [ClientConsole EXCEPT
               ![s].pipeChildToParent = [i \in {0, 1} |-> Lowest(i + 1)]]
  /\ Again(c)
  /\ UNCHANGED <<up, sock, clients, cdata, consoleVars, procVars>>

\* With a console active, a message is input for it.  nextCommand and
\* hasNextCommand are set one after the other.
NextInput(c) ==
  LET s == cslot[c] IN
  /\ Gets(c, "run")
  /\ ClientConsole[s].exitCode = 0 /\ ClientConsole[s].pipeActive
  /\ \E text \in Inputs :
       ClientConsole' = [ClientConsole EXCEPT ![s].nextCommand =
         [job |-> IF handle[c] \in Jobs THEN handle[c] ELSE NoJob, text |-> text]]
  /\ ToClient(c, "flag")
  /\ UNCHANGED <<up, netVars, cdata, rsock, consoleVars, procVars>>

\* nextCommand is a std::string: the client thread assigning it while the
\* console thread reads or clears it is undefined, and may be fatal.
InputRace ==
  /\ \E c \in Conns, j \in Jobs :
       /\ Gets(c, "run")
       /\ ClientConsole[cslot[c]].exitCode = 0 /\ ClientConsole[cslot[c]].pipeActive
       /\ jpc[j] \in {"input", "clear"} /\ jslot[j] = cslot[c]
  /\ Die

FlagInput(c) ==
  /\ cpc[c] = "flag"
  /\ ClientConsole' = [ClientConsole EXCEPT ![cslot[c]].hasNextCommand = TRUE]
  /\ Again(c)
  /\ UNCHANGED <<up, netVars, cdata, consoleVars, procVars>>

\* 'X': ask the console to stop.
Cancel(c) ==
  /\ Gets(c, "cancel")
  /\ ClientConsole' = [ClientConsole EXCEPT ![cslot[c]].exitCode = 1]
  /\ ToClient(c, "join")
  /\ UNCHANGED <<up, netVars, cdata, rsock, consoleVars, procVars>>

\* ... and wait for its thread.
Joined(c) ==
  /\ cpc[c] = "join" /\ handle[c] \in Jobs /\ jpc[handle[c]] = "done"
  /\ handle' = [handle EXCEPT ![c] = Stale]
  /\ Again(c)
  /\ UNCHANGED <<up, netVars, ClientConsole, cslot, consoleVars, procVars>>

\* Joining a handle never set, or joined before, is undefined: the call may
\* return at once or be fatal, and a handle joined before may by now be the
\* handle of another console thread.
JoinUndefined(c) ==
  /\ cpc[c] = "join" /\ handle[c] \in {NoJob, Stale}
  /\ \/ Die
     \/ OnlyAgain(c)
     \/ /\ up /\ handle[c] = Stale
        /\ \E j \in Jobs :
             /\ jpc[j] \notin {"none", "done", "void"}
             /\ handle' = [handle EXCEPT ![c] = j]
        /\ UNCHANGED <<up, netVars, ClientConsole, cpc, cslot, rsock, consoleVars, procVars>>

\* Mutant: a stream that ended well is not taken for an end.
EndOnError(c) ==
  /\ cpc[c] = "recv" /\ \A d \in Conns : rsock[c] = Sock(d) => sock[d] \notin {"open", "closed"}
  /\ OnlyToClient(c, "shut")

\* The end of the stream or a failed recv() (a time-out included).
EndOfStream(c) ==
  /\ cpc[c] = "recv" /\ \A d \in Conns : rsock[c] = Sock(d) => sock[d] # "open"
  /\ OnlyToClient(c, "shut")

\* Then, or after a 'C' or a message that does not decrypt, the thread leaves
\* its loop.
Leave(c) == EndOfStream(c) \/ (Gets(c, "close") /\ OnlyToClient(c, "shut"))

\* CloseSocket: shutdown(), close() only if that worked, then the slot.
Shutdown(c) ==
  LET o == At(clients[cslot[c]]) IN
  /\ cpc[c] = "shut"
  /\ IF \E d \in Conns : o = Sock(d) /\ sock[d] \in {"open", "closed"}
     THEN /\ sock' = [d \in Conns |-> IF o = Sock(d) THEN "shut" ELSE sock[d]]
          /\ ToClient(c, "close")
     ELSE UNCHANGED sock /\ ToClient(c, "null")
  /\ UNCHANGED <<up, fd, clients, ClientConsole, cdata, rsock, consoleVars, procVars>>

\* Mutant: the slot is freed before the thread is done with it.
CloseFreeing(c) ==
  /\ cpc[c] = "close"
  /\ fd' = Without(fd, {clients[cslot[c]]})
  /\ clients' = [clients EXCEPT ![cslot[c]] = 0]
  /\ ToClient(c, "null")
  /\ UNCHANGED <<up, sock, ClientConsole, cdata, rsock, consoleVars, procVars>>

CloseNumber(c) ==
  /\ cpc[c] = "close"
  /\ fd' = Without(fd, {clients[cslot[c]]})
  /\ ToClient(c, "null")
  /\ UNCHANGED <<up, sock, clients, ClientConsole, cdata, rsock, consoleVars, procVars>>

\* The slot is free and the thread ends, its stack with it.
FreeSlot(c) ==
  /\ cpc[c] = "null"
  /\ PromptStart => \A j \in Jobs : jconn[j] = c => jpc[j] # "new"
  /\ clients' = [clients EXCEPT ![cslot[c]] = 0]
  /\ ToClient(c, "done")
  /\ UNCHANGED <<up, fd, sock, ClientConsole, cdata, rsock, consoleVars, procVars>>

-----------------------------------------------------------------------------
(* The console thread, NewConsole and HandleClientPipe                     *)

\* The argument points to socketID on the client thread's stack.
ReadArgument(j) ==
  /\ jpc[j] = "new" /\ cpc[jconn[j]] # "done"
  /\ jslot' = [jslot EXCEPT ![j] = cslot[jconn[j]]]
  /\ ToConsole(j, "prompt")
  /\ UNCHANGED <<up, netVars, ClientConsole, clientVars, jconn, jpid, procVars>>

\* Once that thread is gone so is its stack: any slot, or a fatal access.
ReadDangling(j) ==
  /\ jpc[j] = "new" /\ cpc[jconn[j]] = "done"
  /\ \/ Die
     \/ /\ \E s \in Slots : jslot' = [jslot EXCEPT ![j] = s]
        /\ ToConsole(j, "prompt")
        /\ UNCHANGED <<up, netVars, ClientConsole, clientVars, jconn, jpid, procVars>>

Prompt(j) ==
  /\ jpc[j] = "prompt" /\ ~Broken(jslot[j])
  /\ OnlyToConsole(j, "fork")

\* The four pipe ends the slot's ThreadData names now, as objects.
Ends(s) == {At(ClientConsole[s].pipeChildToParent[i]) : i \in {0, 1}}
           \cup {At(ClientConsole[s].pipeParentToChild[i]) : i \in {0, 1}}

\* The pipe ends a child keeps: all of the server's but two of its own slot's.
\* (The ends that are only read from by the server, and sockets, keep nothing
\* waiting by being open, so they are left out.)
Inherited(s) ==
  {o \in {fd[n] : n \in Fds \ {ClientConsole[s].pipeParentToChild[1],
                              ClientConsole[s].pipeChildToParent[0]}} :
     o[1] \in {"in0", "in1", "out1"}}

\* The child inherits every descriptor and closes the ends it has no use for;
\* when one of its four is not open it exits instead of becoming the shell.
Fork(j) ==
  LET s == jslot[j]
      child == <<"shell", j>>
  IN
  /\ jpc[j] = "fork"
  /\ proc' = [proc EXCEPT ![child] = IF Closed \in Ends(s) THEN "zombie" ELSE "run"]
  /\ pids' = Append(pids, child)
  /\ image' = [image EXCEPT ![j] =
       [stdout |-> At(ClientConsole[s].pipeChildToParent[1]),
        holds |-> Inherited(s)]]
  /\ ClientConsole' = [ClientConsole EXCEPT ![s].activePipeID = child]
  /\ ToConsole(j, "parent")
  /\ UNCHANGED <<up, netVars, clientVars, jdata, outq>>

ForkFails(j) ==
  /\ "fork" \in Faults /\ jpc[j] = "fork"
  /\ ClientConsole' = [ClientConsole EXCEPT ![jslot[j]].activePipeID = NoProc]
  /\ ToConsole(j, "parent")
  /\ UNCHANGED <<up, netVars, clientVars, jdata, procVars>>

\* The parent closes the child's ends and takes note of the pid.
Parent(j) ==
  LET t == ClientConsole[jslot[j]] IN
  /\ jpc[j] = "parent"
  /\ fd' = Without(fd, {t.pipeParentToChild[0], t.pipeChildToParent[1]})
  /\ jpid' = [jpid EXCEPT ![j] = t.activePipeID]
  /\ ToConsole(j, "loop")
  /\ UNCHANGED <<up, sock, clients, ClientConsole, clientVars, jslot, jconn, procVars>>

\* The outcomes of read() on pipeChildToParent[0], p being the pipe's job.
ReadEnd(j) == At(ClientConsole[jslot[j]].pipeChildToParent[0])
HasOutputUnasked(j, p) == ReadEnd(j) = <<"out0", p>>          \* mutant: EAGAIN ignored
HasOutput(j, p) == ReadEnd(j) = <<"out0", p>> /\ outq[p] > 0
WouldBlock(j) ==
  \E p \in Jobs : ReadEnd(j) = <<"out0", p>> /\ outq[p] = 0 /\ InUse(<<"out1", p>>)
\* The number may be somebody else's by now: a socket, or a pipe whose read()
\* blocks.  Foreign(j) while such a read() can take what is meant for others.
Foreign(j) ==
  \/ \E c \in Conns : ReadEnd(j) = Sock(c) /\ sock[c] \in {"open", "closed"}
  \/ \E p \in Jobs : ReadEnd(j) = <<"in0", p>>
PipeClosed(j) == ~WouldBlock(j) /\ ~Foreign(j) /\ \A p \in Jobs : ~HasOutput(j, p)

\* After a read that did not end the loop, hasNextCommand is looked at.
CheckInput(j) ==
  ToConsole(j, IF ClientConsole[jslot[j]].hasNextCommand THEN "input" ELSE "loop")

ReadOutput(j) ==
  /\ jpc[j] = "loop" /\ ~Broken(jslot[j])
  /\ \E p \in Jobs :
       /\ HasOutput(j, p)
       /\ outq' = [outq EXCEPT ![p] = @ - 1]
  /\ CheckInput(j)
  /\ UNCHANGED <<up, netVars, ClientConsole, clientVars, jdata, proc, pids, image>>

\* A foreign read() returns data, its end, or on a socket a time-out.
ReadForeign(j) ==
  /\ jpc[j] = "loop" /\ Foreign(j)
  /\ \/ ~Broken(jslot[j]) /\ CheckInput(j)
     \/ /\ \/ \E c \in Conns : ReadEnd(j) = Sock(c) /\
              (sock[c] = "closed" \/ ClientConsole[jslot[j]].exitCode = 1)
           \/ \E p \in Jobs : ReadEnd(j) = <<"in0", p>> /\ ~InUse(<<"in1", p>>)
        /\ ToConsole(j, "kill")
  /\ UNCHANGED <<up, netVars, ClientConsole, clientVars, jdata, procVars>>

\* Nothing to read, no request to stop, but input to pass on.
ReadNothing(j) ==
  /\ jpc[j] = "loop" /\ WouldBlock(j)
  /\ ClientConsole[jslot[j]].exitCode # 1
  /\ ClientConsole[jslot[j]].hasNextCommand
  /\ OnlyToConsole(j, "input")

\* Mutant: exitCode is not looked at.
LeaveLoopDeaf(j) == jpc[j] = "loop" /\ PipeClosed(j) /\ OnlyToConsole(j, "kill")

\* The loop ends: the pipe is closed, or nothing to read and exitCode is 1.
LeaveLoop(j) ==
  /\ jpc[j] = "loop"
  /\ \/ PipeClosed(j)
     \/ WouldBlock(j) /\ ClientConsole[jslot[j]].exitCode = 1
  /\ OnlyToConsole(j, "kill")

\* write() to a pipe nobody reads, or to a dead socket, raises SIGPIPE.
WriteEnd(j) == At(ClientConsole[jslot[j]].pipeParentToChild[1])
FatalWrite(j) ==
  /\ ClientConsole[jslot[j]].nextCommand # NoInput
  /\ \/ \E p \in Jobs : WriteEnd(j) = <<"in1", p>> /\ ~InUse(<<"in0", p>>)
     \/ \E c \in Conns : WriteEnd(j) = Sock(c) /\ sock[c] \in {"shut", "reset"}

WriteInput(j) ==
  /\ jpc[j] = "input" /\ ~FatalWrite(j)
  /\ OnlyToConsole(j, "clear")

ClearInput(j) ==
  /\ jpc[j] = "clear"
  /\ ClientConsole' = [ClientConsole EXCEPT ![jslot[j]] =
       [@ EXCEPT !.hasNextCommand = FALSE, !.nextCommand = NoInput]]
  /\ ToConsole(j, "loop")
  /\ UNCHANGED <<up, netVars, clientVars, jdata, procVars>>

\* Mutant: only the process after the shell is killed.
TargetsNext(j) == {pids[i + 1] : i \in {i \in 1 .. Len(pids) - 1 : pids[i] = jpid[j]}}

\* kill(pid) and kill(pid + 1): the shell, and whatever process came next.
Targets(j) ==
  {jpid[j]} \cup {pids[i + 1] : i \in {i \in 1 .. Len(pids) - 1 : pids[i] = jpid[j]}}
EndOf(p) == IF p[1] = "shell" THEN "zombie" ELSE "gone"

Kill(j) ==
  /\ jpc[j] = "kill" /\ jpid[j] # NoProc
  /\ proc' = [p \in Proc |-> IF p \in Targets(j) /\ proc[p] = "run" THEN EndOf(p) ELSE proc[p]]
  /\ ToConsole(j, "report")
  /\ UNCHANGED <<up, netVars, ClientConsole, clientVars, jdata, pids, image, outq>>

\* After a failed fork() the calls are kill(-1) and kill(0): the server's own
\* process group.
KillAll(j) == jpc[j] = "kill" /\ jpid[j] = NoProc /\ Die

\* Mutant: the flags are given back before the report is sent.
ReportLate(j) ==
  /\ jpc[j] = "report" /\ ~Broken(jslot[j])
  /\ ClientConsole' = [ClientConsole EXCEPT ![jslot[j]] =
       [@ EXCEPT !.exitCode = 0, !.pipeActive = FALSE]]
  /\ ToConsole(j, "deact")
  /\ UNCHANGED <<up, netVars, clientVars, jdata, procVars>>

\* "[Process ... killed]" and the EOT code.
Report(j) ==
  /\ jpc[j] = "report" /\ ~Broken(jslot[j])
  /\ OnlyToConsole(j, "deact")

ClearExit(j) ==
  /\ jpc[j] = "deact"
  /\ ClientConsole' = [ClientConsole EXCEPT ![jslot[j]].exitCode = 0]
  /\ ToConsole(j, "free")
  /\ UNCHANGED <<up, netVars, clientVars, jdata, procVars>>

Deactivate(j) ==
  /\ jpc[j] = "free"
  /\ ClientConsole' = [ClientConsole EXCEPT ![jslot[j]].pipeActive = FALSE]
  /\ ToConsole(j, "wait")
  /\ UNCHANGED <<up, netVars, clientVars, jdata, procVars>>

\* wait(NULL) takes any dead child, and fails when there is no child at all.
Shells(states) == {k \in Jobs : proc[<<"shell", k>>] \in states}

\* Mutant: the child is not waited for.
WaitNot(j) == jpc[j] = "wait" /\ OnlyToConsole(j, "close1")

Wait(j) ==
  /\ jpc[j] = "wait"
  /\ \/ \E k \in Shells({"zombie"}) : proc' = [proc EXCEPT ![<<"shell", k>>] = "gone"]
     \/ Shells({"run", "zombie"}) = {} /\ UNCHANGED proc
  /\ ToConsole(j, "close1")
  /\ UNCHANGED <<up, netVars, ClientConsole, clientVars, jdata, pids, image, outq>>

\* The four numbers the slot names at that moment, one after the other, two
\* of them for the second time.
CloseEnd(j, n, from, to) ==
  /\ jpc[j] = from
  /\ fd' = Without(fd, {n})
  /\ ToConsole(j, to)
  /\ UNCHANGED <<up, sock, clients, ClientConsole, clientVars, jdata, procVars>>

CloseAll(j) ==
  LET t == ClientConsole[jslot[j]] IN
  \/ CloseEnd(j, t.pipeParentToChild[0], "close1", "close2")
  \/ CloseEnd(j, t.pipeParentToChild[1], "close2", "close3")
  \/ CloseEnd(j, t.pipeChildToParent[0], "close3", "close4")
  \/ CloseEnd(j, t.pipeChildToParent[1], "close4", "done")

\* Every place where a send() or write() can be the end of the server.
Sigpipe ==
  /\ \/ \E c \in Conns : cpc[c] \in {"reply", "failed"} /\ Broken(cslot[c])
     \/ \E j \in Jobs : jpc[j] \in {"prompt", "report"} /\ Broken(jslot[j])
     \/ \E j, p \in Jobs : jpc[j] = "loop" /\ (HasOutput(j, p) \/ Foreign(j)) /\ Broken(jslot[j])
     \/ \E j \in Jobs : jpc[j] = "input" /\ FatalWrite(j)
  /\ Die

-----------------------------------------------------------------------------
(* Processes                                                               *)

\* The shell starts the command as a process of its own.
Spawn(k) ==
  /\ up /\ ShellForks
  /\ proc[<<"shell", k>>] = "run" /\ proc[<<"cmd", k>>] = "none"
  /\ proc' = [proc EXCEPT ![<<"cmd", k>>] = "run"]
  /\ pids' = Append(pids, <<"cmd", k>>)
  /\ UNCHANGED <<up, netVars, ClientConsole, clientVars, consoleVars, image, outq>>

Output(k) ==
  /\ up /\ Running(k)
  /\ \E p \in Jobs :
       /\ image[k].stdout = <<"out1", p>> /\ outq[p] < Cap
       /\ outq' = [outq EXCEPT ![p] = @ + 1]
  /\ UNCHANGED <<up, netVars, ClientConsole, clientVars, consoleVars, proc, pids, image>>

\* A process may end at any time; the server's own child waits to be reaped.
Exit(p) ==
  /\ up /\ proc[p] = "run"
  /\ proc' = [proc EXCEPT ![p] = EndOf(p)]
  /\ UNCHANGED <<up, netVars, ClientConsole, clientVars, consoleVars, pids, image, outq>>

-----------------------------------------------------------------------------
(* The specification                                                       *)

\* The steps of a thread that send() or write() cannot hold up, and the others.
ClientMoves(c) ==
  \/ FlagInput(c) \/ Joined(c) \/ JoinUndefined(c)
  \/ Shutdown(c) \/ CloseNumber(c) \/ FreeSlot(c)

ClientStep(c) == Reply(c) \/ SayFailed(c) \/ ClientMoves(c)

Receive(c) ==
  \/ Dropped(c) \/ Builtin(c) \/ PipeFails(c) \/ NextInput(c) \/ Cancel(c) \/ Leave(c)
  \/ \E j \in Jobs : RunCommand(c, j) \/ ThreadFails(c, j)

ConsoleMoves(j) ==
  \/ ReadArgument(j) \/ ReadDangling(j) \/ Fork(j) \/ ForkFails(j)
  \/ Parent(j) \/ ReadNothing(j) \/ LeaveLoop(j)
  \/ ClearInput(j) \/ Kill(j) \/ KillAll(j) \/ ClearExit(j) \/ Deactivate(j)
  \/ Wait(j) \/ CloseAll(j)

ConsoleStep(j) ==
  \/ Prompt(j) \/ ReadOutput(j) \/ ReadForeign(j) \/ WriteInput(j) \/ Report(j)
  \/ ConsoleMoves(j)

ProcessStep == \/ \E k \in Jobs : Spawn(k) \/ Output(k)
               \/ \E p \in Proc : Exit(p)

NetworkStep == \E c \in Conns : \/ \E s \in Slots : Accept(c, s)
                                \/ PeerClose(c) \/ PeerReset(c)

\* Nothing is left to do, or nobody is left to do it.
Rest ==
  /\ ~up \/ /\ \A c \in Conns : cpc[c] = "done"
            /\ \A j \in Jobs : jpc[j] \in {"none", "done", "void"}
  /\ UNCHANGED vars

Next ==
  \/ \E c \in Conns : ClientStep(c) \/ Receive(c)
  \/ \E j \in Jobs : ConsoleStep(j)
  \/ Sigpipe \/ InputRace \/ ProcessStep \/ NetworkStep
  \/ Rest

Spec == Init /\ [][Next]_vars

\* The scheduler runs every thread that can move; a thread in send(), in
\* write() or in the read() of something foreign may stay there for ever.  A
\* connection the client has ended holds finitely many messages, so recv()
\* returns 0 in the end.  Nothing makes clients send or processes end.
FairSpec ==
  /\ Spec
  /\ \A c \in Conns : WF_vars(ClientMoves(c)) /\ SF_vars(EndOfStream(c))
  /\ \A j \in Jobs : WF_vars(ConsoleMoves(j))
  /\ WF_vars(Sigpipe)
=============================================================================
