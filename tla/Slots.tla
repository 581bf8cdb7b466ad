-------------------------------- MODULE Slots --------------------------------
(***************************************************************************)
(* How clients get and give back their slots: SocketListen and the two     *)
(* ends of NewClient in remote-terminal-server/src/main.cpp, CloseSocket   *)
(* and the counters of server.cpp.                                         *)
(*                                                                         *)
(* The accept loop looks for a free entry of Service->clients, accepts a   *)
(* connection into it, and tells the thread it creates which slot is its   *)
(* own through one shared variable, currentClientSocket.  The threads give *)
(* slots back and count themselves out; nothing is locked.                 *)
(*                                                                         *)
(* Abstractions.  What a client thread does with messages is module        *)
(* Console; here a message only makes it call recv() again.  A connection  *)
(* names its client and the thread created for it.                         *)
(***************************************************************************)
EXTENDS Naturals, FiniteSets

CONSTANTS
  MaxClients,     \* maxClients, as main() takes it: MaxClients + 1 slots
  Conns,          \* connections, each made once
  Fds,            \* descriptor numbers the process can get for them
  Faults,         \* what may go wrong: pthread_create(), accept(), a connection
  Nobody

ASSUME SlotsAssumption ==
  /\ MaxClients \in 1 .. 40
  /\ Fds \subseteq Nat \ {0} /\ IsFiniteSet(Fds)
  /\ Faults \subseteq {"thread", "accept", "reset"}
  /\ Nobody \notin Conns

VARIABLES
  apc, i,               \* SocketListen: where it is, its loop index
  newest,               \* the connection it is setting up
  acount,               \* the numClients it has read
  clients,              \* Service->clients: a number, 0 if free, or Failed
  currentClientSocket,
  overtaken,            \* history: it was written again before a new thread
                        \* had read it, which nothing in the code prevents
  numClients,           \* an unsigned short
  fd,                   \* the connection a descriptor number refers to
  sock,                 \* state of each connection's socket
  tpc, socketID,        \* the client threads: where they are, their slot
  rsock,                \* the connection a thread's recv() is waiting on
  tcount                \* the numClients a thread has read

acceptVars == <<apc, i, newest, acount>>
threadVars == <<tpc, socketID, rsock, tcount>>
vars == <<acceptVars, clients, currentClientSocket, overtaken, numClients, fd, sock, threadVars>>

Slots == 0 .. MaxClients
Failed == 65536                     \* stands for -1, which no counter can be
Width == 65536                      \* values of an unsigned short

FreeFds == {n \in Fds : fd[n] = Nobody}
Lowest == CHOOSE n \in FreeFds : \A m \in FreeFds : n <= m

\* The connection that clients[s] refers to now; 0 is the terminal.
At(s) == IF clients[s] \in Fds THEN fd[clients[s]] ELSE Nobody
IsIn(c, states) == c # Nobody /\ sock[c] \in states

TypeOK ==
  /\ apc \in {"scan", "accept", "undo", "read", "count", "publish", "create"}
  /\ i \in 0 .. MaxClients + 1
  /\ newest \in Conns \cup {Nobody}
  /\ acount \in 0 .. Width - 1 /\ numClients \in 0 .. Width - 1
  /\ clients \in [Slots -> Fds \cup {0, Failed}]
  /\ currentClientSocket \in Slots /\ overtaken \in BOOLEAN
  /\ fd \in [Fds -> Conns \cup {Nobody}]
  /\ sock \in [Conns -> {"none", "queued", "open", "closed", "reset", "shut"}]
  /\ tpc \in [Conns -> {"none", "start", "serve", "join", "shut", "close", "null",
                        "read", "count", "done", "void"}]
  /\ socketID \in [Conns -> Slots \cup {Failed}]
  /\ rsock \in [Conns -> Conns \cup {Nobody}]
  /\ tcount \in [Conns -> 0 .. Width - 1]

Init ==
  /\ apc = "scan" /\ i = 0 /\ newest = Nobody /\ acount = 0
  /\ clients = [s \in Slots |-> 0]
  /\ currentClientSocket \in Slots /\ overtaken = FALSE
  /\ numClients = 0
  /\ fd = [n \in Fds |-> Nobody]
  /\ sock = [c \in Conns |-> "none"]
  /\ tpc = [c \in Conns |-> "none"] /\ socketID = [c \in Conns |-> Failed]
  /\ rsock = [c \in Conns |-> Nobody] /\ tcount = [c \in Conns |-> 0]

-----------------------------------------------------------------------------
(* Clients                                                                 *)

Move(c, from, to) ==
  /\ sock[c] \in from
  /\ sock' = [sock EXCEPT ![c] = to]
  /\ UNCHANGED <<acceptVars, clients, currentClientSocket, overtaken, numClients, fd, threadVars>>

Connect(c) == Move(c, {"none"}, "queued")
HangUp(c) == Move(c, {"open"}, "closed")
Reset(c) == "reset" \in Faults /\ Move(c, {"open", "closed"}, "reset")

-----------------------------------------------------------------------------
(* The accept loop, SocketListen                                           *)

\* A step of the loop: only what it says changes.
Loop(from, to) == apc = from /\ apc' = to

SkipTaken ==
  /\ Loop("scan", "scan")
  /\ i <= MaxClients /\ clients[i] # 0
  /\ i' = i + 1
  /\ UNCHANGED <<newest, acount, clients, currentClientSocket, overtaken, numClients, fd, sock, threadVars>>

\* sleep(1), listen(), and the scan begins again.
NextRound ==
  /\ Loop("scan", "scan")
  /\ i > MaxClients
  /\ i' = 0
  /\ UNCHANGED <<newest, acount, clients, currentClientSocket, overtaken, numClients, fd, sock, threadVars>>

\* Mutants: a taken slot is not passed over; the last slot is not tried.
FindAny ==
  /\ Loop("scan", "accept")
  /\ i <= MaxClients
  /\ UNCHANGED <<i, newest, acount, clients, currentClientSocket, overtaken, numClients, fd, sock, threadVars>>

FindBelow == i < MaxClients /\ FindAny /\ clients[i] = 0

FindFree ==
  /\ Loop("scan", "accept")
  /\ i <= MaxClients /\ clients[i] = 0
  /\ UNCHANGED <<i, newest, acount, clients, currentClientSocket, overtaken, numClients, fd, sock, threadVars>>

Accept(c) ==
  /\ Loop("accept", "read")
  /\ sock[c] = "queued" /\ FreeFds # {}
  /\ sock' = [sock EXCEPT ![c] = "open"]
  /\ fd' = [fd EXCEPT ![Lowest] = c]
  /\ clients' = [clients EXCEPT ![i] = Lowest]
  /\ newest' = c
  /\ UNCHANGED <<i, acount, currentClientSocket, overtaken, numClients, threadVars>>

\* accept() inherits the listening socket's receive time-out, and fails when
\* the process has no number left.
AcceptFails ==
  /\ Loop("accept", "undo")
  /\ "accept" \in Faults \/ FreeFds = {}
  /\ clients' = [clients EXCEPT ![i] = Failed]
  /\ UNCHANGED <<i, newest, acount, currentClientSocket, overtaken, numClients, fd, sock, threadVars>>

\* CloseSocket(i) of the failed number, then break.
UndoAccept ==
  /\ Loop("undo", "scan")
  /\ clients' = [clients EXCEPT ![i] = 0]
  /\ i' = 0
  /\ UNCHANGED <<newest, acount, currentClientSocket, overtaken, numClients, fd, sock, threadVars>>

\* SetNumClients(GetNumClients() + 1)
ReadCount ==
  /\ Loop("read", "count")
  /\ acount' = numClients
  /\ UNCHANGED <<i, newest, clients, currentClientSocket, overtaken, numClients, fd, sock, threadVars>>

CountUp ==
  /\ Loop("count", "publish")
  /\ numClients' = (acount + 1) % Width
  /\ UNCHANGED <<i, newest, acount, clients, currentClientSocket, overtaken, fd, sock, threadVars>>

SetCurrent ==
  /\ Loop("publish", "create")
  /\ currentClientSocket' = i
  /\ overtaken' = (overtaken \/ \E c \in Conns : tpc[c] = "start")
  /\ UNCHANGED <<i, newest, acount, clients, numClients, fd, sock, threadVars>>

\* The result of pthread_create is not looked at.
CreateThread ==
  /\ Loop("create", "scan")
  /\ tpc' = [tpc EXCEPT ![newest] = "start"]
  /\ newest' = Nobody /\ i' = i + 1
  /\ UNCHANGED <<acount, clients, currentClientSocket, overtaken, numClients, fd, sock,
                 socketID, rsock, tcount>>

CreateFails ==
  /\ "thread" \in Faults
  /\ Loop("create", "scan")
  /\ tpc' = [tpc EXCEPT ![newest] = "void"]
  /\ newest' = Nobody /\ i' = i + 1
  /\ UNCHANGED <<acount, clients, currentClientSocket, overtaken, numClients, fd, sock,
                 socketID, rsock, tcount>>

-----------------------------------------------------------------------------
(* Client threads, NewClient and CloseSocket                               *)

Thread(c, from, to) == tpc[c] = from /\ tpc' = [tpc EXCEPT ![c] = to]

\* The thread learns its slot and calls recv() for the first time.
Begin(c) ==
  /\ Thread(c, "start", "serve")
  /\ socketID' = [socketID EXCEPT ![c] = currentClientSocket]
  /\ rsock' = [rsock EXCEPT ![c] = At(currentClientSocket)]
  /\ UNCHANGED <<acceptVars, clients, currentClientSocket, overtaken, numClients, fd, sock, tcount>>

\* A message that does not end the session: recv() is called again.
Serve(c) ==
  /\ Thread(c, "serve", "serve")
  /\ IsIn(rsock[c], {"open", "closed"})
  /\ rsock' = [rsock EXCEPT ![c] = At(socketID[c])]
  /\ UNCHANGED <<acceptVars, clients, currentClientSocket, overtaken, numClients, fd, sock, socketID, tcount>>

\* 'X': the thread waits for a console, for as long as its command goes on.
Join(c) ==
  /\ Thread(c, "serve", "join")
  /\ IsIn(rsock[c], {"open", "closed"})
  /\ UNCHANGED <<acceptVars, clients, currentClientSocket, overtaken, numClients, fd, sock,
                 socketID, rsock, tcount>>

Joined(c) ==
  /\ Thread(c, "join", "serve")
  /\ rsock' = [rsock EXCEPT ![c] = At(socketID[c])]
  /\ UNCHANGED <<acceptVars, clients, currentClientSocket, overtaken, numClients, fd, sock, socketID, tcount>>

ToShutdown(c) ==
  /\ Thread(c, "serve", "shut")
  /\ UNCHANGED <<acceptVars, clients, currentClientSocket, overtaken, numClients, fd, sock,
                 socketID, rsock, tcount>>

\* 'C', a message with another key, or a time-out.
Leave(c) == IsIn(rsock[c], {"open", "closed"}) /\ ToShutdown(c)

\* Mutant: only a failed recv() ends the loop.
EndOnError(c) == ~IsIn(rsock[c], {"open", "closed"}) /\ ToShutdown(c)

\* recv() returns 0 or fails.
EndOfStream(c) == ~IsIn(rsock[c], {"open"}) /\ ToShutdown(c)

\* CloseSocket: close() only after a shutdown() that worked; a connection
\* that was reset is no longer connected.
Shutdown(c) ==
  LET d == At(socketID[c]) IN
  /\ tpc[c] = "shut"
  /\ IF IsIn(d, {"open", "closed"})
     THEN Thread(c, "shut", "close") /\ sock' = [sock EXCEPT ![d] = "shut"]
     ELSE Thread(c, "shut", "null") /\ UNCHANGED sock
  /\ UNCHANGED <<acceptVars, clients, currentClientSocket, overtaken, numClients, fd,
                 socketID, rsock, tcount>>

\* Mutants: the number is never closed; the slot is given back twice.
CloseNot(c) ==
  /\ Thread(c, "close", "null")
  /\ UNCHANGED <<acceptVars, clients, currentClientSocket, overtaken, numClients, fd, sock,
                 socketID, rsock, tcount>>

CloseFreeing(c) ==
  /\ Thread(c, "close", "null")
  /\ fd' = [n \in Fds |-> IF n = clients[socketID[c]] THEN Nobody ELSE fd[n]]
  /\ clients' = [clients EXCEPT ![socketID[c]] = 0]
  /\ UNCHANGED <<acceptVars, currentClientSocket, overtaken, numClients, sock, socketID, rsock, tcount>>

Close(c) ==
  /\ Thread(c, "close", "null")
  /\ fd' = [n \in Fds |-> IF n = clients[socketID[c]] THEN Nobody ELSE fd[n]]
  /\ UNCHANGED <<acceptVars, clients, currentClientSocket, overtaken, numClients, sock,
                 socketID, rsock, tcount>>

FreeSlot(c) ==
  /\ Thread(c, "null", "read")
  /\ clients' = [clients EXCEPT ![socketID[c]] = 0]
  /\ UNCHANGED <<acceptVars, currentClientSocket, overtaken, numClients, fd, sock,
                 socketID, rsock, tcount>>

\* Mutant: a counter of unbounded width.
CountDownWide(c) ==
  /\ Thread(c, "count", "done")
  /\ numClients' = tcount[c] - 1
  /\ UNCHANGED <<acceptVars, clients, currentClientSocket, overtaken, fd, sock, socketID, rsock, tcount>>

\* SetNumClients(GetNumClients() - 1)
ReadMine(c) ==
  /\ Thread(c, "read", "count")
  /\ tcount' = [tcount EXCEPT ![c] = numClients]
  /\ UNCHANGED <<acceptVars, clients, currentClientSocket, overtaken, numClients, fd, sock, socketID, rsock>>

CountDown(c) ==
  /\ Thread(c, "count", "done")
  /\ numClients' = (tcount[c] + Width - 1) % Width
  /\ UNCHANGED <<acceptVars, clients, currentClientSocket, overtaken, fd, sock, socketID, rsock, tcount>>

-----------------------------------------------------------------------------
(* The specification                                                       *)

ClientMoves(c) == Connect(c) \/ HangUp(c) \/ Reset(c)

AcceptStep ==
  \/ SkipTaken \/ NextRound \/ FindFree \/ UndoAccept \/ ReadCount \/ CountUp
  \/ SetCurrent \/ CreateThread \/ CreateFails

Ending(c) ==
  \/ Begin(c) \/ EndOfStream(c) \/ Shutdown(c) \/ Close(c) \/ FreeSlot(c)
  \/ ReadMine(c) \/ CountDown(c)

Next ==
  \/ AcceptStep \/ AcceptFails
  \/ \E c \in Conns : \/ Accept(c) \/ ClientMoves(c)
                      \/ Ending(c) \/ Serve(c) \/ Leave(c) \/ Join(c) \/ Joined(c)

Spec == Init /\ [][Next]_vars

\* The scheduler runs every thread that can move; accept() returns a waiting
\* connection unless it times out every time, and recv() comes to the end of
\* what a client had sent before it hung up.  Nothing makes a join return.
FairSpec ==
  /\ Spec
  /\ WF_vars(AcceptStep)
  /\ \A c \in Conns : WF_vars(Ending(c)) /\ SF_vars(EndOfStream(c)) /\ SF_vars(Accept(c))
  /\ WF_vars(FreeFds = {} /\ AcceptFails)
=============================================================================
