-------------------------------- MODULE Client --------------------------------
(***************************************************************************)
(* The client: TCPClient of remote-terminal-client/src/client.cpp and the  *)
(* handlers of frmmain.cpp that use it.                                    *)
(*                                                                         *)
(* Two threads share the static TCPConn without a lock: the user interface *)
(* (UI), which runs one handler at a time, for a timer or for the user,    *)
(* and a receive thread for each connection, which appends what it         *)
(* receives to ServerOutput and sets TransmissionEnd when a packet holds   *)
(* the end code.  Either may disconnect.  The command history of the       *)
(* window is here too.                                                     *)
(*                                                                         *)
(* Abstractions.  A packet is "data" or "end" (it holds the end code);     *)
(* ServerOutput is known to be empty or not; a connection has the name of  *)
(* the receive thread created for it; a history is its length.  select()   *)
(* and recv() return when the socket has something or has ended.           *)
(***************************************************************************)
EXTENDS Integers, Sequences, FiniteSets

CONSTANTS
  Threads,      \* receive threads, and connections: the bound on connects
  UI,           \* the thread of the user interface
  Fds,          \* descriptor numbers the client can get for its sockets
  Cap,          \* bound on packets in flight on a connection
  MaxCommands,  \* bound on the commands typed on one connection
  Garbage,      \* values the uninitialised commandIndex may have
  Faults,       \* what may go wrong: a look-up or connect(), a connection, the
                \* creation of a receive thread
  PromptEnd,    \* TRUE: a receive thread ends before the connect timer fires
                \* again, a second after it was asked to.
  None

Actors == Threads \cup {UI}

ASSUME ClientAssumption ==
  /\ UI \notin Threads /\ None \notin Actors
  /\ Fds \subseteq Nat \ {0} /\ IsFiniteSet(Fds)
  /\ Cap \in Nat /\ MaxCommands \in Nat
  /\ Garbage \subseteq Int
  /\ Faults \subseteq {"refuse", "reset", "thread"}
  /\ PromptEnd \in BOOLEAN

VARIABLES
  up,               \* the client is running
  \* TCPConn
  IsConnected, TransmissionEnd, CurrentSocket,
  ServerOutput,     \* TRUE when it is not empty
  \* the network
  fd,               \* the connection a descriptor number refers to
  sock,             \* state of each connection's socket
  inq,              \* packets that have yet to be received
  asked,            \* connections a command was sent on
  \* the threads
  pc,               \* where each is
  select,           \* the number a receive thread's select() looks at
  packet,           \* what it received last
  \* the window
  lblStatus,        \* "Not Connected", "Connecting...", "Connected!"
  btnConnect, btnCancel,        \* enabled
  messageTimer, connectTimer,   \* running
  closing,          \* the application is being closed
  commands,         \* length of the history
  commandIndex

conn == <<IsConnected, TransmissionEnd, CurrentSocket, ServerOutput>>
net == <<fd, sock, inq, asked>>
local == <<select, packet>>
widgets == <<lblStatus, btnConnect, btnCancel, messageTimer, connectTimer, closing>>
history == <<commands, commandIndex>>
vars == <<up, conn, net, pc, local, widgets, history>>

-----------------------------------------------------------------------------
(* Types                                                                   *)

\* A thread in Disconnect; one that receives, or that could not be created and
\* stays "void"; the handlers of the window.
DisconnectPC == {"flag", "unend", "shut", "close"}
ThreadPC ==
  {"none", "start", "select", "recv", "append", "mark", "done", "void"} \cup DisconnectPC
WindowPC == {"idle", "judge", "clear", "clearEnd", "unend0", "send", "write", "cancel",
             "disconnect", "bye", "leave", "connect", "look"} \cup DisconnectPC

PcOK ==
  /\ pc \in [Actors -> ThreadPC \cup WindowPC]
  /\ \A k \in Threads : pc[k] \in ThreadPC
  /\ pc[UI] \in WindowPC

ConnOK ==
  /\ IsConnected \in BOOLEAN /\ TransmissionEnd \in BOOLEAN
  /\ CurrentSocket \in Fds \cup {0, -1} /\ ServerOutput \in BOOLEAN

NetOK ==
  /\ fd \in [Fds -> Threads \cup {None}]
  /\ sock \in [Threads -> {"none", "new", "open", "peer", "reset", "shut"}]
  /\ inq \in [Threads -> Seq({"data", "end"})] /\ asked \in SUBSET Threads

LocalOK ==
  /\ select \in [Threads -> Fds \cup {0, -1}]
  /\ packet \in [Threads -> {"data", "end", "none"}]

WidgetsOK ==
  /\ lblStatus \in {"Not Connected", "Connecting...", "Connected!"}
  /\ btnConnect \in BOOLEAN /\ btnCancel \in BOOLEAN
  /\ messageTimer \in BOOLEAN /\ connectTimer \in BOOLEAN /\ closing \in BOOLEAN

HistoryOK == commands \in Nat /\ commandIndex \in Int

TypeOK ==
  up \in BOOLEAN /\ ConnOK /\ NetOK /\ PcOK /\ LocalOK /\ WidgetsOK /\ HistoryOK

Init ==
  /\ up = TRUE /\ IsConnected = FALSE /\ TransmissionEnd = FALSE
  /\ CurrentSocket = 0 /\ ServerOutput = FALSE
  /\ fd = [n \in Fds |-> None]
  /\ sock = [k \in Threads |-> "none"] /\ inq = [k \in Threads |-> << >>] /\ asked = {}
  /\ pc = [a \in Actors |-> IF a = UI THEN "idle" ELSE "none"]
  /\ select = [k \in Threads |-> 0] /\ packet = [k \in Threads |-> "none"]
  /\ lblStatus = "Not Connected" /\ btnConnect = TRUE /\ btnCancel = FALSE
  /\ messageTimer = FALSE /\ connectTimer = FALSE /\ closing = FALSE
  /\ commands = 0 /\ commandIndex \in Garbage

-----------------------------------------------------------------------------
(* Threads, sockets and the server                                         *)

Go(a, from, to) == up /\ pc[a] = from /\ pc' = [pc EXCEPT ![a] = to]
Die == up /\ up' = FALSE /\ UNCHANGED <<conn, net, pc, local, widgets, history>>

\* Whether every thread there was has ended.
Quiet == \A k \in Threads : pc[k] \in {"none", "done", "void"}

At(n) == IF n \in Fds THEN fd[n] ELSE None
FreeFds == {n \in Fds : fd[n] = None}
Lowest == CHOOSE n \in FreeFds : \A m \in FreeFds : n <= m
IsIn(c, states) == c # None /\ sock[c] \in states

\* The server sends a packet in answer to a command, ends the connection, or
\* its host resets it.
Deliver(k) ==
  /\ up /\ sock[k] = "open" /\ k \in asked /\ Len(inq[k]) < Cap
  /\ \E kind \in {"data", "end"} : inq' = [inq EXCEPT ![k] = Append(@, kind)]
  /\ UNCHANGED <<up, conn, fd, sock, asked, pc, local, widgets, history>>

PeerClose(k) ==
  /\ up /\ sock[k] = "open" /\ sock' = [sock EXCEPT ![k] = "peer"]
  /\ UNCHANGED <<up, conn, fd, inq, asked, pc, local, widgets, history>>

PeerReset(k) ==
  /\ up /\ "reset" \in Faults /\ sock[k] \in {"open", "peer"}
  /\ sock' = [sock EXCEPT ![k] = "reset"] /\ inq' = [inq EXCEPT ![k] = << >>]
  /\ UNCHANGED <<up, conn, fd, asked, pc, local, widgets, history>>

-----------------------------------------------------------------------------
(* TCPClient::Disconnect, run by the user interface or a receive thread    *)

\* Mutant: the receive thread goes on with the widgets.
BackToWindow(a) == "leave"

\* Where a thread continues after the call.
Back(a) == IF a = UI THEN "leave" ELSE "done"

Unflag(a) ==
  /\ Go(a, "flag", "unend")
  /\ IsConnected' = FALSE
  /\ UNCHANGED <<up, TransmissionEnd, CurrentSocket, ServerOutput, net, local, widgets,
                 history>>

\* Mutant: TransmissionEnd is left as it is.
UnendNot(a) ==
  /\ Go(a, "unend", "shut")
  /\ UNCHANGED <<up, conn, net, local, widgets, history>>

Unend(a) ==
  /\ Go(a, "unend", "shut")
  /\ TransmissionEnd' = FALSE
  /\ UNCHANGED <<up, IsConnected, CurrentSocket, ServerOutput, net, local, widgets,
                 history>>

\* shutdown() fails on a closed number and on a connection that was reset; of
\* one that was shut down before it may do either.
Shutdown(a) ==
  LET c == At(CurrentSocket) IN
  /\ \/ /\ IsIn(c, {"open", "peer", "shut"}) /\ Go(a, "shut", "close")
        /\ sock' = [sock EXCEPT ![c] = "shut"]
     \/ /\ ~IsIn(c, {"open", "peer"}) /\ Go(a, "shut", Back(a))
        /\ UNCHANGED sock
  /\ UNCHANGED <<up, conn, fd, inq, asked, local, widgets, history>>

\* Mutant: the number is not closed.
CloseNot(a) ==
  /\ Go(a, "close", Back(a))
  /\ UNCHANGED <<up, conn, net, local, widgets, history>>

Close(a) ==
  /\ Go(a, "close", Back(a))
  /\ fd' = [n \in Fds |-> IF n = CurrentSocket THEN None ELSE fd[n]]
  /\ inq' = [k \in Threads |-> IF k = At(CurrentSocket) THEN << >> ELSE inq[k]]
  /\ UNCHANGED <<up, conn, sock, asked, local, widgets, history>>

-----------------------------------------------------------------------------
(* The receive thread, TCPClient::run                                      *)

\* FD_SET of the number the thread finds when it starts.
Start(k) ==
  /\ Go(k, "start", "select")
  /\ select' = [select EXCEPT ![k] = CurrentSocket]
  /\ UNCHANGED <<up, conn, net, packet, widgets, history>>

\* CheckConnection: select() fails on a closed number.
Select(k) ==
  LET c == At(select[k]) IN
  /\ c # None => inq[c] # << >> \/ sock[c] # "open"
  /\ Go(k, "select", IF c = None THEN "flag" ELSE "recv")
  /\ UNCHANGED <<up, conn, net, local, widgets, history>>

\* recv() returns a packet, which is dropped while TransmissionEnd is set ...
Receive(k) ==
  LET c == At(CurrentSocket) IN
  /\ c # None /\ inq[c] # << >>
  /\ Go(k, "recv", IF TransmissionEnd THEN "select" ELSE "append")
  /\ packet' = [packet EXCEPT ![k] = IF TransmissionEnd THEN "none" ELSE Head(inq[c])]
  /\ inq' = [inq EXCEPT ![c] = Tail(@)]
  /\ UNCHANGED <<up, conn, fd, sock, asked, select, widgets, history>>

\* Mutant: the thread ends and leaves the connection as it is.
LeaveRun(k) ==
  LET c == At(CurrentSocket) IN
  /\ c # None => inq[c] = << >> /\ sock[c] # "open"
  /\ Go(k, "recv", "done")
  /\ UNCHANGED <<up, conn, net, local, widgets, history>>

\* ... or 0 or -1: the loop ends.
EndRun(k) ==
  LET c == At(CurrentSocket) IN
  /\ c # None => inq[c] = << >> /\ sock[c] # "open"
  /\ Go(k, "recv", "flag")
  /\ UNCHANGED <<up, conn, net, local, widgets, history>>

AppendOutput(k) ==
  /\ Go(k, "append", "mark")
  /\ ServerOutput' = TRUE
  /\ UNCHANGED <<up, IsConnected, TransmissionEnd, CurrentSocket, net, local, widgets,
                 history>>

MarkEnd(k) ==
  /\ Go(k, "mark", "select")
  /\ TransmissionEnd' = (packet[k] = "end")
  /\ packet' = [packet EXCEPT ![k] = "none"]             \* memset
  /\ UNCHANGED <<up, IsConnected, CurrentSocket, ServerOutput, net, select, widgets,
                 history>>

\* ServerOutput is a std::string: one thread appending while the other reads
\* or clears it is undefined, and may be fatal.
OutputRace ==
  /\ \E k \in Threads : pc[k] = "append"
  /\ \/ pc[UI] \in {"clear", "clearEnd", "send", "disconnect"}
     \/ pc[UI] = "idle" /\ messageTimer /\ IsConnected
  /\ Die

-----------------------------------------------------------------------------
(* The window: connecting and disconnecting                                *)

\* The button, or closing the application.  With the three fields filled in
\* the connection is made a second later, by a timer.
ConnectClick ==
  /\ btnConnect
  /\ IF IsConnected
     THEN Go(UI, "idle", "disconnect") /\ UNCHANGED <<lblStatus, btnConnect, connectTimer>>
     ELSE /\ Go(UI, "idle", "idle")
          /\ btnConnect' = FALSE /\ lblStatus' = "Connecting..." /\ connectTimer' = TRUE
  /\ UNCHANGED <<up, conn, net, local, btnCancel, messageTimer, closing, history>>

\* Exit in the menu; the window's own close button does not disconnect.
CloseApplication ==
  \/ pc[UI] = "idle" /\ Die
  \/ /\ IsConnected /\ Go(UI, "idle", "disconnect") /\ closing' = TRUE
     /\ UNCHANGED <<up, conn, net, local, lblStatus, btnConnect, btnCancel, messageTimer,
                    connectTimer, history>>

\* frmMain::Disconnect: DISCONNECT_CODE is sent if still connected.
Disconnect ==
  /\ Go(UI, "disconnect", IF IsConnected THEN "bye" ELSE "leave")
  /\ ServerOutput' = FALSE
  /\ UNCHANGED <<up, IsConnected, TransmissionEnd, CurrentSocket, net, local, widgets,
                 history>>

\* send() works, fails, or raises SIGPIPE on a socket that is shut down.
CanSend == IsIn(At(CurrentSocket), {"open", "peer"})
CanFail == At(CurrentSocket) = None \/ IsIn(At(CurrentSocket), {"reset"})
CanKill == IsIn(At(CurrentSocket), {"reset", "shut"})

Bye ==
  \/ /\ CanSend \/ CanFail
     /\ Go(UI, "bye", "flag")
     /\ UNCHANGED <<up, conn, net, local, widgets, history>>
  \/ CanKill /\ pc[UI] = "bye" /\ Die

\* Mutant: the window keeps what it shows.
LeaveShown ==
  /\ Go(UI, "leave", "idle")
  /\ btnConnect' = TRUE /\ messageTimer' = FALSE
  /\ UNCHANGED <<up, conn, net, local, lblStatus, btnCancel, connectTimer, closing,
                 history>>

\* The widgets after a disconnect: all but btnCancel.
Leave ==
  /\ Go(UI, "leave", "idle")
  /\ up' = ~closing
  /\ lblStatus' = "Not Connected" /\ btnConnect' = TRUE /\ messageTimer' = FALSE
  /\ UNCHANGED <<conn, net, local, btnCancel, connectTimer, closing, history>>

\* Mutant: IsConnected is set before connect() was tried.
ConnectEarly(k) ==
  /\ connectTimer /\ ~IsConnected /\ pc[k] = "none"
  /\ PromptEnd => Quiet
  /\ FreeFds # {}
  /\ Go(UI, "idle", "connect")
  /\ CurrentSocket' = Lowest /\ IsConnected' = TRUE
  /\ fd' = [fd EXCEPT ![Lowest] = k]
  /\ sock' = [sock EXCEPT ![k] = "new"]
  /\ UNCHANGED <<up, TransmissionEnd, ServerOutput, inq, asked, local, widgets, history>>

\* frmMain::Connect, and TCPClient::Connect up to the socket.  The timer runs
\* only while IsConnected is FALSE, so that line 279 never finds it TRUE.
Connect(k) ==
  /\ connectTimer /\ ~IsConnected /\ pc[k] = "none"
  /\ PromptEnd => Quiet
  /\ FreeFds # {}
  /\ Go(UI, "idle", "connect")
  /\ CurrentSocket' = Lowest
  /\ fd' = [fd EXCEPT ![Lowest] = k]
  /\ sock' = [sock EXCEPT ![k] = "new"]
  /\ UNCHANGED <<up, IsConnected, TransmissionEnd, ServerOutput, inq, asked, local, widgets,
                 history>>

\* gethostbyname() fails.
LookUpFails ==
  /\ "refuse" \in Faults
  /\ connectTimer /\ ~IsConnected
  /\ Go(UI, "idle", "look")
  /\ UNCHANGED <<up, conn, net, local, widgets, history>>

\* There is no number left.
SocketFails ==
  /\ connectTimer /\ ~IsConnected
  /\ PromptEnd => Quiet
  /\ FreeFds = {}
  /\ Go(UI, "idle", "look")
  /\ CurrentSocket' = -1
  /\ UNCHANGED <<up, IsConnected, TransmissionEnd, ServerOutput, net, local, widgets, history>>

\* connect(), and the receive thread, which is there or is not: what
\* pthread_create() returns is ignored.
Establish(k, thread) ==
  /\ up /\ pc[UI] = "connect" /\ At(CurrentSocket) = k
  /\ sock' = [sock EXCEPT ![k] = "open"]
  /\ IsConnected' = TRUE
  /\ pc' = [pc EXCEPT ![UI] = "look", ![k] = thread]
  /\ UNCHANGED <<up, TransmissionEnd, CurrentSocket, ServerOutput, fd, inq, asked, local,
                 widgets, history>>

Connected(k) == Establish(k, "start")
Unserved(k) == "thread" \in Faults /\ Establish(k, "void")

\* connect() fails; the number is closed.
Refused ==
  /\ "refuse" \in Faults \/ At(CurrentSocket) = None
  /\ Go(UI, "connect", "look")
  /\ fd' = [n \in Fds |-> IF n = CurrentSocket THEN None ELSE fd[n]]
  /\ sock' = [k \in Threads |-> IF sock[k] = "new" THEN "none" ELSE sock[k]]
  /\ UNCHANGED <<up, conn, inq, asked, local, widgets, history>>

\* What TCPClient::Connect returns is IsConnected as it is by now.
Look ==
  /\ Go(UI, "look", "idle")
  /\ connectTimer' = FALSE /\ btnConnect' = TRUE
  /\ lblStatus' = IF IsConnected THEN "Connected!" ELSE "Not Connected"
  /\ messageTimer' = (IsConnected \/ messageTimer)
  /\ commandIndex' = IF IsConnected THEN -1 ELSE commandIndex
  /\ commands' = IF IsConnected THEN 0 ELSE commands
  /\ UNCHANGED <<up, conn, net, local, btnCancel, closing>>

-----------------------------------------------------------------------------
(* The window: output and commands                                         *)

\* CheckMessages, called by messageTimer: a lost connection is noticed here.
CheckMessages ==
  /\ messageTimer
  /\ Go(UI, "idle", IF ~IsConnected THEN "disconnect"
                    ELSE IF ServerOutput THEN "judge" ELSE "idle")
  /\ UNCHANGED <<up, conn, net, local, widgets, history>>

Judge ==
  /\ Go(UI, "judge", IF TransmissionEnd THEN "clearEnd" ELSE "clear")
  /\ UNCHANGED <<up, conn, net, local, widgets, history>>

ClearServerOutput(from, to) ==
  /\ Go(UI, from, to)
  /\ ServerOutput' = FALSE
  /\ UNCHANGED <<up, IsConnected, TransmissionEnd, CurrentSocket, net, local, lblStatus,
                 btnConnect, messageTimer, connectTimer, closing>>

ShowOutput == ClearServerOutput("clear", "idle") /\ UNCHANGED <<btnCancel, history>>

ShowLastOutput ==
  ClearServerOutput("clearEnd", "unend0") /\ btnCancel' = FALSE /\ UNCHANGED history

SetTransmissionEnd ==
  /\ Go(UI, "unend0", "idle")
  /\ TransmissionEnd' = FALSE
  /\ UNCHANGED <<up, IsConnected, CurrentSocket, ServerOutput, net, local, widgets,
                 history>>

\* SendCommand, by the button or the return key.
SendCommand ==
  /\ commands < MaxCommands
  /\ IsConnected /\ ~TransmissionEnd
  /\ Go(UI, "idle", "send")
  /\ UNCHANGED <<up, conn, net, local, widgets, history>>

TypeCommand ==
  /\ ClearServerOutput("send", "write")
  /\ btnCancel' = TRUE
  /\ commands' = commands + 1 /\ commandIndex' = commands

\* A message is sent; if it cannot be the window disconnects.
SendMessage(from) ==
  \/ /\ CanSend /\ Go(UI, from, "idle")
     /\ asked' = IF from = "write" THEN asked \cup {At(CurrentSocket)} ELSE asked
     /\ UNCHANGED <<up, conn, fd, sock, inq, local, widgets, history>>
  \/ /\ CanFail /\ Go(UI, from, "disconnect")
     /\ UNCHANGED <<up, conn, net, local, widgets, history>>
  \/ CanKill /\ pc[UI] = from /\ Die

CancelCommand ==
  /\ btnCancel
  /\ IsConnected /\ ~TransmissionEnd
  /\ Go(UI, "idle", "cancel")
  /\ UNCHANGED <<up, conn, net, local, widgets, history>>

-----------------------------------------------------------------------------
(* The window: the command history, keyPressEvent                          *)

\* Mutant: the index is not taken back at the end of the history.
KeyDownFar ==
  /\ Go(UI, "idle", "idle") /\ commandIndex <= MaxCommands
  /\ commandIndex' = commandIndex + 1
  /\ UNCHANGED <<up, conn, net, local, widgets, commands>>

\* commands.at() of an index below 0 is undefined, and may be fatal.
KeyDown ==
  LET next == commandIndex + 1 IN
  \/ /\ Go(UI, "idle", "idle")
     /\ commandIndex' = IF commands > next THEN next ELSE commands - 1
     /\ UNCHANGED <<up, conn, net, local, widgets, commands>>
  \/ pc[UI] = "idle" /\ commands > next /\ next < 0 /\ Die

KeyUp ==
  /\ Go(UI, "idle", "idle")
  /\ commandIndex' = IF commandIndex >= 0 /\ commands > commandIndex
                     THEN commandIndex - 1 ELSE 0
  /\ UNCHANGED <<up, conn, net, local, widgets, commands>>

-----------------------------------------------------------------------------
(* The specification                                                       *)

DisconnectStep(a) == Unflag(a) \/ Unend(a) \/ Shutdown(a) \/ Close(a)

ThreadStep(k) ==
  \/ Start(k) \/ Select(k) \/ Receive(k) \/ EndRun(k) \/ AppendOutput(k) \/ MarkEnd(k)
  \/ DisconnectStep(k)

\* A handler that was begun goes on.
HandlerStep ==
  \/ Disconnect \/ Bye \/ Leave \/ DisconnectStep(UI)
  \/ (\E k \in Threads : Connected(k) \/ Unserved(k)) \/ Refused \/ Look
  \/ Judge \/ ShowOutput \/ ShowLastOutput \/ SetTransmissionEnd
  \/ TypeCommand \/ SendMessage("write") \/ SendMessage("cancel")

Timer ==
  CheckMessages \/ (\E k \in Threads : Connect(k)) \/ SocketFails \/ LookUpFails

User == ConnectClick \/ CloseApplication \/ SendCommand \/ CancelCommand \/ KeyDown \/ KeyUp

Network == \E k \in Threads : Deliver(k) \/ PeerClose(k) \/ PeerReset(k)

Rest == ~up /\ UNCHANGED vars

Next ==
  \/ HandlerStep \/ Timer \/ User \/ Network \/ OutputRace \/ Rest
  \/ \E k \in Threads : ThreadStep(k)

Spec == Init /\ [][Next]_vars

\* Threads that can move do, and the event loop serves a running timer in the
\* end.
FairSpec ==
  /\ Spec
  /\ WF_vars(HandlerStep) /\ SF_vars(CheckMessages)
  /\ \A k \in Threads : WF_vars(ThreadStep(k))
=============================================================================
