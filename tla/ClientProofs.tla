----------------------------- MODULE ClientProofs -----------------------------
(***************************************************************************)
(* Proofs about the client, for any number of connections, descriptors and *)
(* commands.  ClientInv is inductive, and the client implements Link.      *)
(***************************************************************************)
EXTENDS ClientProperties, Least, TLAPS

\* The kernel's choice is a number that was free.
LEMMA LowestIsFree == FreeFds # {} => Lowest \in FreeFds
<1>1. FreeFds \in SUBSET Nat /\ IsFiniteSet(FreeFds)
  BY ClientAssumption, FS_Subset DEF ClientAssumption, FreeFds
<1> QED
  BY <1>1, LeastExists DEF Lowest

LEMMA UIsApart == UI \notin Threads /\ None \notin Threads /\ None # UI
  BY ClientAssumption DEF ClientAssumption, Actors

-----------------------------------------------------------------------------
(* Types                                                                   *)

\* Where a step of a thread, or of the window, may lead.
LEMMA ThreadGoes ==
  ASSUME PcOK, NEW k \in Threads, NEW from, NEW to \in ThreadPC, Go(k, from, to)
  PROVE  up /\ PcOK'
BY UIsApart DEF Go, PcOK, Actors

LEMMA WindowGoes ==
  ASSUME PcOK, NEW from, NEW to \in WindowPC, Go(UI, from, to)
  PROVE  up /\ PcOK'
BY UIsApart DEF Go, PcOK, Actors

LEMMA ActorGoes ==
  ASSUME PcOK, NEW a \in Actors, NEW from, NEW to \in DisconnectPC \cup {Back(a)}, Go(a, from, to)
  PROVE  up /\ PcOK'
<1>1. CASE a = UI
  BY <1>1, WindowGoes DEF WindowPC, Back
<1>2. CASE a \in Threads
  BY <1>2, ThreadGoes, UIsApart DEF ThreadPC, Back
<1> QED
  BY <1>1, <1>2 DEF Actors

\* What is left alone keeps its type.
LEMMA TypesStay ==
  ASSUME TypeOK
  PROVE  /\ UNCHANGED conn => ConnOK'
         /\ UNCHANGED net => NetOK'
         /\ UNCHANGED pc => PcOK'
         /\ UNCHANGED local => LocalOK'
         /\ UNCHANGED widgets => WidgetsOK'
         /\ UNCHANGED history => HistoryOK'
<1> USE DEF TypeOK, conn, net, local, widgets, history
<1>1. UNCHANGED conn => ConnOK'
  BY DEF ConnOK
<1>2. UNCHANGED net => NetOK'
  BY DEF NetOK
<1>3. UNCHANGED pc => PcOK'
  BY DEF PcOK
<1>4. UNCHANGED local => LocalOK'
  BY DEF LocalOK
<1>5. UNCHANGED widgets => WidgetsOK'
  BY DEF WidgetsOK
<1>6. UNCHANGED history => HistoryOK'
  BY DEF HistoryOK
<1> QED
  BY <1>1, <1>2, <1>3, <1>4, <1>5, <1>6

LEMMA TypeDie == TypeOK /\ Die => TypeOK'
<1> SUFFICES ASSUME TypeOK, Die PROVE TypeOK'
  OBVIOUS
<1>1. up' = FALSE /\ UNCHANGED <<conn, net, pc, local, widgets, history>>
  BY DEF Die
<1> QED
  BY <1>1, TypesStay DEF TypeOK

LEMMA TypeInit == Init => TypeOK
<1> SUFFICES ASSUME Init PROVE TypeOK
  OBVIOUS
<1>1. PcOK
  BY UIsApart DEF Init, PcOK, Actors, ThreadPC, WindowPC
<1>2. NetOK
  <2>1. << >> \in Seq({"data", "end"})
    OBVIOUS
  <2> QED
    BY <2>1 DEF Init, NetOK
<1>3. HistoryOK
  <2>1. commands = 0 /\ commandIndex \in Garbage
    BY DEF Init
  <2>2. commandIndex \in Int
    BY <2>1, ClientAssumption DEF ClientAssumption
  <2> QED
    BY <2>1, <2>2 DEF HistoryOK
<1>4. up \in BOOLEAN /\ ConnOK /\ LocalOK /\ WidgetsOK
  BY DEF Init, ConnOK, LocalOK, WidgetsOK
<1> QED
  BY <1>1, <1>2, <1>3, <1>4 DEF TypeOK

LEMMA TypeThread ==
  ASSUME TypeOK, NEW k \in Threads,
         Start(k) \/ Select(k) \/ Receive(k) \/ EndRun(k) \/ AppendOutput(k) \/ MarkEnd(k)
  PROVE  TypeOK'
<1>1. UNCHANGED <<up, widgets, history>> /\ PcOK'
  <2>1. /\ UNCHANGED <<up, widgets, history>>
        /\ \E from : \E to \in {"select", "recv", "append", "mark", "flag"} : Go(k, from, to)
    BY DEF Start, Select, Receive, EndRun, AppendOutput, MarkEnd
  <2> QED
    BY <2>1, ThreadGoes DEF TypeOK, ThreadPC, DisconnectPC
<1>2. ConnOK /\ NetOK /\ LocalOK
  BY DEF TypeOK
<1>3. CASE Start(k)
  <2>1. LocalOK' /\ UNCHANGED <<conn, net>>
    BY <1>2, <1>3 DEF Start, ConnOK, LocalOK
  <2> QED
    BY <1>1, <2>1, TypesStay DEF TypeOK
<1>4. CASE Select(k) \/ EndRun(k)
  <2>1. UNCHANGED <<conn, net, local>>
    BY <1>4 DEF Select, EndRun
  <2> QED
    BY <1>1, <2>1, TypesStay DEF TypeOK
<1>5. CASE Receive(k)
  <2>1. At(CurrentSocket) \in Threads
    BY <1>2, <1>5 DEF NetOK, At, Receive
  <2>2. inq[At(CurrentSocket)] \in Seq({"data", "end"}) \ {<< >>}
    BY <1>2, <1>5, <2>1 DEF NetOK, Receive
  <2>3. /\ Head(inq[At(CurrentSocket)]) \in {"data", "end"}
        /\ Tail(inq[At(CurrentSocket)]) \in Seq({"data", "end"})
    BY <2>2
  <2>4. UNCHANGED <<conn, fd, sock, asked, select>>
    BY <1>5 DEF Receive
  <2>5. NetOK'
    BY <1>2, <1>5, <2>1, <2>3, <2>4 DEF Receive, NetOK
  <2>6. LocalOK'
    BY <1>2, <1>5, <2>3, <2>4 DEF Receive, LocalOK
  <2> QED
    BY <1>1, <2>4, <2>5, <2>6, TypesStay DEF TypeOK
<1>6. CASE AppendOutput(k)
  <2>1. ConnOK' /\ UNCHANGED <<net, local>>
    BY <1>2, <1>6 DEF AppendOutput, ConnOK
  <2> QED
    BY <1>1, <2>1, TypesStay DEF TypeOK
<1>7. CASE MarkEnd(k)
  <2>1. ConnOK' /\ UNCHANGED net
    BY <1>2, <1>7 DEF MarkEnd, ConnOK
  <2>2. LocalOK'
    BY <1>2, <1>7 DEF MarkEnd, LocalOK
  <2> QED
    BY <1>1, <2>1, <2>2, TypesStay DEF TypeOK
<1> QED
  BY <1>3, <1>4, <1>5, <1>6, <1>7

LEMMA TypeDisconnect ==
  ASSUME TypeOK, NEW a \in Actors, DisconnectStep(a)
  PROVE  TypeOK'
<1>1. UNCHANGED <<up, local, widgets, history>> /\ PcOK'
  <2>1. /\ UNCHANGED <<up, local, widgets, history>>
        /\ \E from : \E to \in DisconnectPC \cup {Back(a)} : Go(a, from, to)
    BY DEF DisconnectStep, Unflag, Unend, Shutdown, Close, DisconnectPC
  <2> QED
    BY <2>1, ActorGoes DEF TypeOK
<1>2. ConnOK /\ NetOK
  BY DEF TypeOK
<1>3. CASE Unflag(a) \/ Unend(a)
  <2>1. ConnOK' /\ UNCHANGED net
    BY <1>2, <1>3 DEF Unflag, Unend, ConnOK
  <2> QED
    BY <1>1, <2>1, TypesStay DEF TypeOK
<1>4. CASE Shutdown(a)
  <2>1. UNCHANGED <<conn, fd, inq, asked>>
    BY <1>4 DEF Shutdown
  <2>2. sock' \in [Threads -> {"none", "new", "open", "peer", "reset", "shut"}]
    BY <1>2, <1>4 DEF NetOK, Shutdown
  <2>3. NetOK'
    BY <1>2, <2>1, <2>2 DEF NetOK
  <2> QED
    BY <1>1, <2>1, <2>3, TypesStay DEF TypeOK
<1>5. CASE Close(a)
  <2>1. UNCHANGED <<conn, sock, asked>>
    BY <1>5 DEF Close
  <2>2. fd' \in [Fds -> Threads \cup {None}]
    BY <1>2, <1>5 DEF NetOK, Close
  <2>3. inq' \in [Threads -> Seq({"data", "end"})]
    <3>1. << >> \in Seq({"data", "end"}) /\ \A t \in Threads : inq[t] \in Seq({"data", "end"})
      BY <1>2 DEF NetOK
    <3> QED
      BY <1>5, <3>1 DEF Close
  <2>4. NetOK'
    BY <1>2, <2>1, <2>2, <2>3 DEF NetOK
  <2> QED
    BY <1>1, <2>1, <2>4, TypesStay DEF TypeOK
<1> QED
  BY <1>3, <1>4, <1>5 DEF DisconnectStep

LEMMA TypeNetwork ==
  ASSUME TypeOK, NEW k \in Threads, Deliver(k) \/ PeerClose(k) \/ PeerReset(k)
  PROVE  TypeOK'
<1>1. UNCHANGED <<up, conn, fd, asked, pc, local, widgets, history>>
  BY DEF Deliver, PeerClose, PeerReset
<1>2. NetOK
  BY DEF TypeOK
<1>3. inq' \in [Threads -> Seq({"data", "end"})]
  <2>1. << >> \in Seq({"data", "end"}) /\ inq[k] \in Seq({"data", "end"})
    BY <1>2 DEF NetOK
  <2>2. \A kind \in {"data", "end"} : Append(inq[k], kind) \in Seq({"data", "end"})
    BY <2>1
  <2> QED
    BY <1>2, <2>1, <2>2 DEF NetOK, Deliver, PeerClose, PeerReset
<1>4. sock' \in [Threads -> {"none", "new", "open", "peer", "reset", "shut"}]
  BY <1>2 DEF NetOK, Deliver, PeerClose, PeerReset
<1>5. NetOK'
  BY <1>1, <1>2, <1>3, <1>4 DEF NetOK
<1> QED
  BY <1>1, <1>5, TypesStay DEF TypeOK

\* Where a handler of the window that does not end the client may go on.
Handler == {"idle", "judge", "clear", "clearEnd", "unend0", "send", "write", "cancel",
            "disconnect", "bye", "leave", "look", "flag"}

LEMMA HandlersGo ==
  ASSUME TypeOK, \E from : \E to \in Handler \cup {"connect"} : Go(UI, from, to)
  PROVE  up /\ PcOK'
BY WindowGoes DEF TypeOK, Handler, WindowPC, DisconnectPC

\* The handlers that touch TCPConn, the widgets or neither.
LEMMA TypeHandlers ==
  ASSUME TypeOK,
         \/ ConnectClick \/ Disconnect \/ Leave \/ LookUpFails \/ CheckMessages \/ Judge
         \/ ShowOutput \/ ShowLastOutput \/ SetTransmissionEnd \/ SendCommand \/ CancelCommand
  PROVE  TypeOK'
<1>1. UNCHANGED <<net, local, history>> /\ \E from : \E to \in Handler : Go(UI, from, to)
  BY DEF ConnectClick, Disconnect, Leave, LookUpFails, CheckMessages, Judge, ShowOutput,
         ShowLastOutput, ClearServerOutput, SetTransmissionEnd, SendCommand, CancelCommand, Handler
<1>2. up /\ PcOK' /\ ConnOK /\ WidgetsOK
  BY <1>1, HandlersGo DEF TypeOK
<1>3. CASE LookUpFails \/ CheckMessages \/ Judge \/ SendCommand \/ CancelCommand
  <2>1. UNCHANGED <<up, conn, widgets>>
    BY <1>3 DEF LookUpFails, CheckMessages, Judge, SendCommand, CancelCommand
  <2> QED
    BY <1>1, <1>2, <2>1, TypesStay DEF TypeOK
<1>4. CASE ConnectClick
  <2>1. UNCHANGED <<up, conn>> /\ WidgetsOK'
    BY <1>2, <1>4 DEF ConnectClick, WidgetsOK
  <2> QED
    BY <1>1, <1>2, <2>1, TypesStay DEF TypeOK
<1>5. CASE Disconnect \/ SetTransmissionEnd
  <2>1. UNCHANGED <<up, widgets>> /\ ConnOK'
    BY <1>2, <1>5 DEF Disconnect, SetTransmissionEnd, ConnOK
  <2> QED
    BY <1>1, <1>2, <2>1, TypesStay DEF TypeOK
<1>6. CASE Leave
  <2>1. up' \in BOOLEAN /\ UNCHANGED conn /\ WidgetsOK'
    BY <1>2, <1>6 DEF Leave, WidgetsOK
  <2> QED
    BY <1>1, <1>2, <2>1, TypesStay DEF TypeOK
<1>7. CASE ShowOutput \/ ShowLastOutput
  <2>1. UNCHANGED up /\ ConnOK' /\ WidgetsOK'
    BY <1>2, <1>7 DEF ShowOutput, ShowLastOutput, ClearServerOutput, ConnOK, WidgetsOK
  <2> QED
    BY <1>1, <1>2, <2>1, TypesStay DEF TypeOK
<1> QED
  BY <1>3, <1>4, <1>5, <1>6, <1>7

\* The handlers that change the history.
LEMMA TypeHistory ==
  ASSUME TypeOK, Look \/ TypeCommand \/ KeyDown \/ KeyUp
  PROVE  TypeOK'
<1>1. HistoryOK /\ ConnOK /\ WidgetsOK
  BY DEF TypeOK
<1>2. CASE Die
  BY <1>2, TypeDie
<1>3. CASE Look
  <2>1. commands' \in {0, commands} /\ commandIndex' \in {-1, commandIndex}
    BY <1>3 DEF Look
  <2>2. HistoryOK'
    BY <1>1, <2>1 DEF HistoryOK
  <2>3. UNCHANGED <<up, conn, net, local>> /\ WidgetsOK' /\ Go(UI, "look", "idle")
    BY <1>1, <1>3 DEF Look, WidgetsOK
  <2> QED
    BY <2>2, <2>3, HandlersGo, TypesStay DEF TypeOK, Handler
<1>4. CASE TypeCommand
  <2>1. HistoryOK'
    BY <1>1, <1>4 DEF HistoryOK, TypeCommand
  <2>2. UNCHANGED <<up, net, local>> /\ ConnOK' /\ WidgetsOK' /\ Go(UI, "send", "write")
    BY <1>1, <1>4 DEF TypeCommand, ClearServerOutput, ConnOK, WidgetsOK
  <2> QED
    BY <2>1, <2>2, HandlersGo, TypesStay DEF TypeOK, Handler
<1>5. CASE ~Die /\ (KeyDown \/ KeyUp)
  <2>1. HistoryOK'
    BY <1>1, <1>5 DEF HistoryOK, KeyDown, KeyUp
  <2>2. UNCHANGED <<up, conn, net, local, widgets>> /\ Go(UI, "idle", "idle")
    BY <1>5 DEF KeyDown, KeyUp
  <2> QED
    BY <2>1, <2>2, HandlersGo, TypesStay DEF TypeOK, Handler
<1> QED
  BY <1>2, <1>3, <1>4, <1>5

\* The handlers that set up a connection or send.
LEMMA TypeSending ==
  ASSUME TypeOK,
         \/ CloseApplication \/ Bye \/ SendMessage("write") \/ SendMessage("cancel") \/ Refused
         \/ SocketFails \/ \E k \in Threads : Connect(k) \/ Connected(k) \/ Unserved(k)
  PROVE  TypeOK'
<1>1. NetOK /\ ConnOK /\ WidgetsOK
  BY DEF TypeOK
<1>2. CASE Die
  BY <1>2, TypeDie
<1>3. CASE ~Die /\ (CloseApplication \/ Bye)
  <2>1. /\ UNCHANGED <<up, conn, net, local, history>> /\ WidgetsOK'
        /\ \E from : \E to \in Handler : Go(UI, from, to)
    BY <1>1, <1>3 DEF CloseApplication, Bye, WidgetsOK, widgets, Handler
  <2> QED
    BY <2>1, HandlersGo, TypesStay DEF TypeOK
<1>4. ASSUME NEW from \in {"write", "cancel"}, SendMessage(from), ~Die PROVE TypeOK'
  <2>1. CanSend => At(CurrentSocket) \in Threads
    BY <1>1 DEF NetOK, CanSend, IsIn, At
  <2>2. /\ UNCHANGED <<up, conn, fd, sock, inq, local, widgets, history>>
        /\ \E to \in Handler : Go(UI, from, to)
    BY <1>4 DEF SendMessage, net, Handler
  <2>3. asked' \in SUBSET Threads
    BY <1>1, <1>4, <2>1 DEF SendMessage, NetOK, net
  <2>4. NetOK'
    BY <1>1, <2>2, <2>3 DEF NetOK
  <2> QED
    BY <2>2, <2>4, HandlersGo, TypesStay DEF TypeOK
<1>5. ASSUME NEW k \in Threads, Connect(k) PROVE TypeOK'
  <2>1. Lowest \in Fds
    BY <1>5, LowestIsFree DEF Connect, FreeFds
  <2>2. NetOK'
    BY <1>1, <1>5, <2>1 DEF Connect, NetOK
  <2>3. ConnOK'
    BY <1>1, <1>5, <2>1 DEF Connect, ConnOK
  <2>4. UNCHANGED <<up, local, widgets, history>> /\ Go(UI, "idle", "connect")
    BY <1>5 DEF Connect
  <2> QED
    BY <2>2, <2>3, <2>4, HandlersGo, TypesStay DEF TypeOK
<1>6. ASSUME NEW k \in Threads, NEW thread \in {"start", "void"}, Establish(k, thread)
      PROVE  TypeOK'
  <2>1. UNCHANGED up /\ PcOK'
    BY <1>6, UIsApart DEF TypeOK, PcOK, Establish, Actors, ThreadPC, WindowPC
  <2>2. NetOK' /\ ConnOK' /\ UNCHANGED <<local, widgets, history>>
    BY <1>1, <1>6 DEF Establish, NetOK, ConnOK
  <2> QED
    BY <2>1, <2>2, TypesStay DEF TypeOK
<1>7. CASE Refused
  <2>1. UNCHANGED <<up, conn, local, widgets, history>> /\ Go(UI, "connect", "look")
    BY <1>7 DEF Refused
  <2>2. NetOK'
    BY <1>1, <1>7 DEF Refused, NetOK
  <2> QED
    BY <2>1, <2>2, HandlersGo, TypesStay DEF TypeOK, Handler
<1>8. CASE SocketFails
  <2>1. UNCHANGED <<up, net, local, widgets, history>> /\ Go(UI, "idle", "look")
    BY <1>8 DEF SocketFails
  <2>2. ConnOK'
    BY <1>1, <1>8 DEF SocketFails, ConnOK
  <2> QED
    BY <2>1, <2>2, HandlersGo, TypesStay DEF TypeOK, Handler
<1> QED
  BY <1>2, <1>3, <1>4, <1>5, <1>6, <1>7, <1>8 DEF Connected, Unserved

LEMMA TypeNext == TypeOK /\ [Next]_vars => TypeOK'
<1> SUFFICES ASSUME TypeOK, [Next]_vars PROVE TypeOK'
  OBVIOUS
<1>1. CASE Rest \/ UNCHANGED vars
  <2>1. UNCHANGED <<up, conn, net, pc, local, widgets, history>>
    BY <1>1 DEF Rest, vars
  <2> QED
    BY <2>1, TypesStay DEF TypeOK
<1>2. ASSUME NEW k \in Threads, ThreadStep(k) PROVE TypeOK'
  BY <1>2, TypeThread, TypeDisconnect DEF ThreadStep, Actors
<1>3. CASE Network \/ OutputRace
  BY <1>3, TypeNetwork, TypeDie DEF Network, OutputRace
<1>4. CASE HandlerStep \/ Timer \/ User
  BY <1>4, TypeHandlers, TypeHistory, TypeSending, TypeDisconnect
  DEF HandlerStep, Timer, User, Actors
<1> QED
  BY <1>1, <1>2, <1>3, <1>4 DEF Next

-----------------------------------------------------------------------------
(* Flags and threads                                                       *)

\* The part of the invariant that relates the flags to the threads.
Flags == QuietSetUp /\ Unflagged /\ ReceiverServes /\ EndPasses

LEMMA AtType == TypeOK => At(CurrentSocket) \in Threads \cup {None}
BY DEF TypeOK, NetOK, At

flagVars == <<IsConnected, TransmissionEnd, CurrentSocket, fd>>

LEMMA FlagsInit == Init => Flags
BY UIsApart DEF Init, Flags, QuietSetUp, Unflagged, ReceiverServes, EndPasses, Actors

LEMMA FlagsStay == Flags /\ UNCHANGED <<pc, flagVars>> => Flags'
BY DEF Flags, QuietSetUp, Quiet, Unflagged, ReceiverServes, EndPasses, Receiving, Deaf, At, flagVars

\* A step of the window outside TCPClient leaves the flags as they are, or
\* takes TransmissionEnd back.
LEMMA FlagsWindow ==
  ASSUME TypeOK, Flags, NEW from,
         NEW to \in WindowPC \ {"connect", "unend", "shut", "close"},
         Go(UI, from, to),
         UNCHANGED <<IsConnected, CurrentSocket, fd>>,
         TransmissionEnd' \in {TransmissionEnd, FALSE}
  PROVE  Flags'
<1>1. pc'[UI] = to /\ \A k \in Threads : pc'[k] = pc[k]
  BY UIsApart DEF TypeOK, PcOK, Go, Actors
<1>2. QuietSetUp'
  BY <1>1 DEF QuietSetUp
<1>3. Unflagged'
  BY <1>1 DEF Flags, Unflagged, Actors
<1>4. ReceiverServes'
  BY <1>1, AtType DEF Flags, ReceiverServes, Receiving, Deaf, At
<1>5. EndPasses'
  BY <1>1 DEF Flags, EndPasses, Receiving
<1> QED
  BY <1>2, <1>3, <1>4, <1>5 DEF Flags

\* A receiving thread that goes on receiving still serves its socket, and may
\* set TransmissionEnd as it likes.
LEMMA FlagsThread ==
  ASSUME TypeOK, Flags, NEW k \in Threads,
         NEW from \in {"start", "select", "recv", "append", "mark"},
         NEW to \in {"select", "recv", "append", "mark", "flag"},
         Go(k, from, to),
         UNCHANGED <<IsConnected, CurrentSocket, fd>>
  PROVE  Flags'
<1>1. pc'[k] = to /\ \A a \in Actors \ {k} : pc'[a] = pc[a]
  BY DEF TypeOK, PcOK, Go, Actors
<1>2. QuietSetUp'
  BY <1>1, UIsApart DEF Flags, QuietSetUp, Quiet, Go, Actors
<1>3. Unflagged'
  BY <1>1 DEF Flags, Unflagged, Actors
<1>4. ReceiverServes'
  BY <1>1, AtType DEF Flags, ReceiverServes, Receiving, Deaf, At, Go, Actors
<1>5. EndPasses'
  BY <1>1 DEF EndPasses, Receiving
<1> QED
  BY <1>2, <1>3, <1>4, <1>5 DEF Flags

LEMMA FlagsReceive ==
  ASSUME TypeOK, Flags, NEW k \in Threads,
         Start(k) \/ Select(k) \/ Receive(k) \/ EndRun(k) \/ AppendOutput(k) \/ MarkEnd(k)
  PROVE  Flags'
<1>1. /\ UNCHANGED <<IsConnected, CurrentSocket, fd>>
      /\ \E from \in {"start", "select", "recv", "append", "mark"} :
         \E to \in {"select", "recv", "append", "mark", "flag"} : Go(k, from, to)
  BY DEF Start, Select, Receive, EndRun, AppendOutput, MarkEnd, conn, net
<1> QED
  BY <1>1, FlagsThread

\* TCPClient::Disconnect: IsConnected falls first and stays so, since nothing is
\* set up before every thread is done.
LEMMA FlagsDisconnect ==
  ASSUME TypeOK, Flags, NEW a \in Actors, DisconnectStep(a)
  PROVE  Flags'
<1> USE DEF conn, net
<1>1. /\ ~IsConnected' /\ CurrentSocket' = CurrentSocket
      /\ TransmissionEnd' \in {TransmissionEnd, FALSE}
      /\ \E from \in DisconnectPC : \E to \in {"unend", "shut", "close", "leave", "done"} :
            /\ Go(a, from, to)
            /\ TransmissionEnd' => from # "unend"
            /\ from = "flag" => to = "unend"
  <2>1. Unflag(a) \/ ~IsConnected
    BY DEF Flags, Unflagged, DisconnectStep, Unend, Shutdown, Close, Go
  <2>2. CASE Unflag(a)
    BY <2>2 DEF Unflag, DisconnectPC
  <2>3. CASE Unend(a)
    BY <2>1, <2>3 DEF Unflag, Unend, DisconnectPC, Go
  <2>4. CASE Shutdown(a)
    BY <2>1, <2>4 DEF Unflag, Shutdown, DisconnectPC, Back, Go
  <2>5. CASE Close(a)
    BY <2>1, <2>5 DEF Unflag, Close, DisconnectPC, Back, Go
  <2> QED
    BY <2>2, <2>3, <2>4, <2>5 DEF DisconnectStep
<1>2. PICK from \in DisconnectPC, to \in {"unend", "shut", "close", "leave", "done"} :
        /\ Go(a, from, to)
        /\ TransmissionEnd' => from # "unend"
        /\ from = "flag" => to = "unend"
  BY <1>1
<1>3. pc[a] = from /\ pc'[a] = to /\ \A b \in Actors \ {a} : pc'[b] = pc[b]
  BY <1>2 DEF TypeOK, PcOK, Go, Actors
<1>4. QuietSetUp'
  BY <1>1, <1>3, UIsApart DEF Flags, QuietSetUp, Quiet, Actors, DisconnectPC
<1>5. Unflagged' /\ ReceiverServes'
  BY <1>1 DEF Unflagged, ReceiverServes
<1>6. EndPasses'
  BY <1>1, <1>2, <1>3, UIsApart DEF Flags, EndPasses, Receiving, Actors, DisconnectPC
<1> QED
  BY <1>4, <1>5, <1>6 DEF Flags

\* TCPClient::Connect: the socket is set up when every thread is done, and the
\* thread that serves it is created with IsConnected.
LEMMA FlagsConnect ==
  ASSUME PromptEnd, TypeOK, Flags, NEW k \in Threads,
         Connect(k) \/ Connected(k) \/ Unserved(k) \/ Refused
  PROVE  Flags'
<1> USE DEF conn, net
<1>1. CASE Connect(k)
  <2>1. /\ pc'[UI] = "connect" /\ \A t \in Threads : pc'[t] \in {"none", "done", "void"}
        /\ ~IsConnected' /\ TransmissionEnd' = TransmissionEnd
        /\ \A t \in Threads : pc[t] \in {"none", "done", "void"}
    BY <1>1, UIsApart DEF TypeOK, PcOK, Connect, Quiet, Go, Actors
  <2>2. ~TransmissionEnd'
    BY <2>1 DEF Flags, EndPasses, Receiving
  <2> QED
    <3>1. QuietSetUp'
      BY <2>1 DEF QuietSetUp, Quiet
    <3>2. ~(\E a \in Actors : pc'[a] \in {"unend", "shut", "close"})
      BY <2>1 DEF Actors
    <3> QED
      BY <2>1, <2>2, <3>1, <3>2 DEF Flags, Unflagged, ReceiverServes, EndPasses
<1>2. ASSUME NEW thread \in {"start", "void"}, Establish(k, thread) PROVE Flags'
  <2>1. /\ pc'[UI] = "look" /\ pc'[k] = thread /\ \A t \in Threads \ {k} : pc'[t] = pc[t]
        /\ UNCHANGED <<fd, CurrentSocket, TransmissionEnd>>
        /\ At(CurrentSocket) = k /\ k # None
        /\ \A t \in Threads : pc[t] \in {"none", "done", "void"}
    BY <1>2, UIsApart DEF TypeOK, PcOK, Establish, Actors, Flags, QuietSetUp, Quiet
  <2>2. Unflagged'
    BY <2>1 DEF Unflagged, Actors
  <2>3. ReceiverServes'
    BY <2>1 DEF ReceiverServes, Receiving, Deaf, At
  <2>4. EndPasses'
    BY <2>1 DEF Flags, EndPasses, Receiving
  <2> QED
    BY <2>1, <2>2, <2>3, <2>4 DEF Flags, QuietSetUp
<1>3. CASE Refused
  <2>1. /\ pc'[UI] = "look" /\ \A t \in Threads : pc'[t] = pc[t]
        /\ ~IsConnected' /\ TransmissionEnd' = TransmissionEnd
    BY <1>3, UIsApart DEF TypeOK, PcOK, Refused, Go, Actors, Flags, QuietSetUp
  <2> QED
    BY <2>1 DEF Flags, QuietSetUp, Unflagged, ReceiverServes, EndPasses, Receiving
<1> QED
  BY <1>1, <1>2, <1>3 DEF Connected, Unserved

\* Without a number, nothing is set up.
LEMMA FlagsSocketFails ==
  ASSUME TypeOK, Flags, SocketFails
  PROVE  Flags'
<1>1. /\ pc'[UI] = "look" /\ \A k \in Threads : pc'[k] = pc[k]
      /\ ~IsConnected' /\ TransmissionEnd' = TransmissionEnd
  BY UIsApart DEF TypeOK, PcOK, SocketFails, Go, Actors
<1> QED
  BY <1>1 DEF Flags, QuietSetUp, Unflagged, ReceiverServes, EndPasses, Receiving

\* Every other step of the window is one of FlagsWindow's.
LEMMA FlagsHandlers ==
  ASSUME PromptEnd, TypeOK, Flags, HandlerStep \/ Timer \/ User
  PROVE  Flags'
<1> USE DEF conn, net
<1>1. CASE SocketFails \/ \E k \in Threads : Connect(k) \/ Connected(k) \/ Unserved(k)
  BY <1>1, FlagsConnect, FlagsSocketFails
<1>2. CASE Refused
  <2>1. CASE Threads = {}
    <3>1. /\ pc'[UI] = "look" /\ ~IsConnected' /\ TransmissionEnd' = TransmissionEnd
      BY <1>2 DEF TypeOK, PcOK, Refused, Go, Actors, Flags, QuietSetUp
    <3> QED
      BY <2>1, <3>1 DEF Flags, QuietSetUp, Unflagged, ReceiverServes, EndPasses
  <2> QED
    BY <1>2, <2>1, FlagsConnect
<1>3. CASE DisconnectStep(UI)
  BY <1>3, FlagsDisconnect DEF Actors
<1>4. CASE Die
  BY <1>4, FlagsStay DEF Die, flagVars
<1>5. CASE /\ UNCHANGED <<IsConnected, CurrentSocket, fd>>
           /\ TransmissionEnd' \in {TransmissionEnd, FALSE}
           /\ \E from : \E to \in WindowPC \ {"connect", "unend", "shut", "close"} : Go(UI, from, to)
  BY <1>5, FlagsWindow
<1>a. \A to \in {"idle", "judge", "clear", "clearEnd", "unend0", "send", "write", "cancel",
               "disconnect", "bye", "leave", "look", "flag"} :
        to \in WindowPC \ {"connect", "unend", "shut", "close"}
  BY DEF WindowPC, DisconnectPC
<1>6. CASE ConnectClick
  BY <1>5, <1>6, <1>a DEF ConnectClick
<1>7. CASE CloseApplication
  BY <1>4, <1>5, <1>7, <1>a DEF CloseApplication
<1>8. CASE Disconnect \/ Leave \/ LookUpFails \/ CheckMessages \/ Judge
  BY <1>5, <1>8, <1>a DEF Disconnect, Leave, LookUpFails, CheckMessages, Judge
<1>9. CASE Bye
  BY <1>4, <1>5, <1>9, <1>a DEF Bye
<1>10. CASE Look
  BY <1>5, <1>10, <1>a DEF Look
<1>11. CASE ShowOutput \/ ShowLastOutput \/ SetTransmissionEnd \/ TypeCommand
  BY <1>5, <1>11, <1>a
  DEF ShowOutput, ShowLastOutput, SetTransmissionEnd, TypeCommand, ClearServerOutput
<1>12. CASE SendCommand \/ CancelCommand
  BY <1>5, <1>12, <1>a DEF SendCommand, CancelCommand
<1>13. CASE SendMessage("write") \/ SendMessage("cancel")
  BY <1>4, <1>5, <1>13, <1>a DEF SendMessage
<1>14. CASE KeyDown
  BY <1>4, <1>5, <1>14, <1>a DEF KeyDown
<1>15. CASE KeyUp
  BY <1>5, <1>15, <1>a DEF KeyUp
<1> QED
  BY <1>1, <1>2, <1>3, <1>6, <1>7, <1>8, <1>9, <1>10, <1>11, <1>12, <1>13, <1>14, <1>15
  DEF HandlerStep, Timer, User

LEMMA FlagsNext == PromptEnd /\ TypeOK /\ Flags /\ [Next]_vars => Flags'
<1> SUFFICES ASSUME PromptEnd, TypeOK, Flags, [Next]_vars PROVE Flags'
  OBVIOUS
<1>1. CASE Network \/ OutputRace \/ Rest \/ UNCHANGED vars
  BY <1>1, FlagsStay
  DEF Network, Deliver, PeerClose, PeerReset, OutputRace, Die, Rest, vars, conn, net, flagVars
<1>2. ASSUME NEW k \in Threads, ThreadStep(k) PROVE Flags'
  BY <1>2, FlagsReceive, FlagsDisconnect DEF ThreadStep, Actors
<1> QED
  BY <1>1, <1>2, FlagsHandlers DEF Next

-----------------------------------------------------------------------------
(* The numbers                                                             *)

LEMMA NumbersInit == Init => Numbers
<1> SUFFICES ASSUME Init PROVE Numbers
  OBVIOUS
<1>1. /\ \A n \in Fds : fd[n] = None
      /\ \A k \in Threads : pc[k] = "none"
      /\ pc[UI] = "idle" /\ At(CurrentSocket) = None
  BY UIsApart DEF Init, Actors, At
<1> QED
  BY <1>1 DEF Numbers, OwnThread, Alive, SetUp, CurrentKept, OthersReset, DeafUntilUnflag

netVars == <<fd, sock, CurrentSocket>>

LEMMA NumbersStay == Numbers /\ UNCHANGED <<pc, netVars, IsConnected>> => Numbers'
BY DEF Numbers, OwnThread, Alive, SetUp, CurrentKept, Kept, Deaf, OthersReset, DeafUntilUnflag,
       At, netVars

\* The window moves, but not in TCPClient::Connect or from its own close(), and
\* clears IsConnected nowhere but on its way to shutdown().
LEMMA NumbersWindow ==
  ASSUME TypeOK, Numbers, NEW from, NEW to, Go(UI, from, to),
         from # "close", to # "connect", from # "connect",
         from \in {"unend", "shut"} => to \in {"unend", "shut"},
         to \in {"bye", "flag"} => from = "bye" \/ IsConnected,
         IsConnected' = IsConnected \/ to = "unend",
         UNCHANGED netVars
  PROVE  Numbers'
<1>1. /\ pc[UI] = from /\ pc'[UI] = to /\ \A k \in Threads : pc'[k] = pc[k]
      /\ \A n \in Fds : fd[n] # None => fd[n] \in Threads
  BY UIsApart DEF TypeOK, PcOK, NetOK, Go, Actors
<1>2. At(CurrentSocket)' = At(CurrentSocket) /\ At(CurrentSocket) \in Threads \cup {None}
  BY AtType DEF At, netVars
<1>3. OwnThread' /\ SetUp'
  BY <1>1, <1>2 DEF Numbers, OwnThread, Alive, SetUp
<1>4. CurrentKept' /\ DeafUntilUnflag'
  BY <1>1, <1>2 DEF Numbers, CurrentKept, Kept, Deaf, DeafUntilUnflag, Alive, netVars
<1>5. OthersReset'
  BY <1>1 DEF Numbers, OthersReset, netVars
<1> QED
  BY <1>3, <1>4, <1>5 DEF Numbers

\* A thread that is alive goes on, up to shutdown() at most.  The current number
\* is its own, so IsConnected concerns no other.
LEMMA NumbersThread ==
  ASSUME TypeOK, Numbers, QuietSetUp, NEW k \in Threads, NEW from, NEW to, Go(k, from, to),
         from \notin {"none", "done", "close", "void"}, to \notin {"none", "done", "close", "void"},
         UNCHANGED netVars
  PROVE  Numbers'
<1>1. /\ pc[k] = from /\ pc'[k] = to /\ \A a \in Actors \ {k} : pc'[a] = pc[a]
      /\ \A n \in Fds : fd[n] # None => fd[n] \in Threads
      /\ UI \in Actors \ {k}
  BY UIsApart DEF TypeOK, PcOK, NetOK, Go, Actors
<1>2. At(CurrentSocket)' = At(CurrentSocket) /\ At(CurrentSocket) \in Threads \cup {None}
  BY AtType DEF At, netVars
<1>3. pc'[UI] = pc[UI] /\ pc[UI] # "connect"
  BY <1>1 DEF QuietSetUp, Quiet
<1>4. \A t \in Threads : (Alive(t)' <=> Alive(t)) /\ (pc'[t] = "close" <=> pc[t] = "close")
                         /\ (pc'[t] = "none" <=> pc[t] = "none")
  BY <1>1 DEF Alive, Actors
<1>5. OwnThread' /\ SetUp'
  BY <1>2, <1>3, <1>4 DEF Numbers, OwnThread, SetUp
<1>6. CurrentKept' /\ DeafUntilUnflag'
  <2>1. At(CurrentSocket) \in {k, None} /\ ~Deaf(k) /\ ~Deaf(k)'
    BY <1>1 DEF Numbers, OwnThread, Alive, Deaf
  <2>2. Alive(k) /\ Alive(k)'
    BY <1>1 DEF Alive
  <2>3. DeafUntilUnflag'
    BY <1>2, <2>1 DEF DeafUntilUnflag, Deaf
  <2>4. CurrentKept'
    BY <1>1, <1>2, <1>3, <1>4, <2>1, <2>2 DEF Numbers, CurrentKept, Kept, netVars
  <2> QED
    BY <2>3, <2>4
<1>7. OthersReset'
  BY <1>1, <1>4 DEF Numbers, OthersReset, netVars
<1> QED
  BY <1>5, <1>6, <1>7 DEF Numbers

\* The server ends a connection, or its host resets it.
LEMMA NumbersNetwork ==
  ASSUME TypeOK, Numbers, NEW k \in Threads, Deliver(k) \/ PeerClose(k) \/ PeerReset(k)
  PROVE  Numbers'
<1> USE DEF conn
<1>1. CASE Deliver(k)
  BY <1>1, NumbersStay DEF Deliver, netVars
<1>2. CASE PeerClose(k) \/ PeerReset(k)
  <2>1. /\ UNCHANGED <<pc, fd, CurrentSocket, IsConnected>> /\ sock[k] \in {"open", "peer"}
        /\ sock'[k] \in {"peer", "reset"} /\ \A t \in Threads \ {k} : sock'[t] = sock[t]
        /\ \A n \in Fds : fd[n] # None => fd[n] \in Threads
    BY <1>2 DEF PeerClose, PeerReset, TypeOK, NetOK
  <2>2. At(CurrentSocket)' = At(CurrentSocket) /\ At(CurrentSocket) \in Threads \cup {None}
    BY <2>1, AtType DEF At
  <2>3. OwnThread' /\ SetUp'
    BY <2>1, <2>2 DEF Numbers, OwnThread, Alive, SetUp
  <2>4. CurrentKept' /\ DeafUntilUnflag'
    BY <2>1, <2>2 DEF Numbers, CurrentKept, Kept, Alive, Deaf, DeafUntilUnflag
  <2>5. OthersReset'
    BY <2>1 DEF Numbers, OthersReset
  <2> QED
    BY <2>3, <2>4, <2>5 DEF Numbers
<1> QED
  BY <1>1, <1>2

\* shutdown() that works brings its thread to close(), and one that fails finds
\* the number closed, the connection reset, or the other thread at close().
LEMMA NumbersShutdown ==
  ASSUME TypeOK, Numbers, QuietSetUp, NEW a \in Actors, Shutdown(a)
  PROVE  Numbers'
<1> DEFINE c == At(CurrentSocket)
<1>1. c \in Threads \cup {None} /\ c' = c /\ UNCHANGED <<fd, CurrentSocket>>
  BY AtType DEF Shutdown, conn, At
<1>2. /\ pc[a] = "shut" /\ pc'[a] \in {"close", "leave", "done"}
      /\ a = UI => pc'[a] # "done"
      /\ \A b \in Actors \ {a} : pc'[b] = pc[b]
      /\ UI \in Actors /\ Threads \subseteq Actors /\ UI \notin Threads /\ None \notin Threads
      /\ \A n \in Fds : fd[n] # None => fd[n] \in Threads
  BY UIsApart DEF TypeOK, PcOK, NetOK, Shutdown, Go, Back, Actors
<1>3. pc[UI] # "connect" /\ pc'[UI] # "connect"
  BY <1>2 DEF QuietSetUp, Quiet, Actors
<1>4. \A t \in Threads : (Alive(t)' => Alive(t)) /\ (pc[t] # "none" => pc'[t] # "none")
  BY <1>2 DEF Alive
<1>5. OwnThread' /\ SetUp'
  BY <1>1, <1>3, <1>4 DEF Numbers, OwnThread, SetUp
<1>6. OthersReset'
  <2>1. \A t \in Threads : sock[t] = "reset" => sock'[t] = "reset"
    BY <1>1, <1>2 DEF Shutdown, IsIn, TypeOK, NetOK
  <2> QED
    BY <1>1, <1>2, <1>4, <2>1 DEF Numbers, OthersReset
<1>7. CurrentKept'
  <2> SUFFICES ASSUME c # None PROVE pc'[c] # "none" /\ Kept(c)'
    BY <1>1, <1>3 DEF CurrentKept
  <2>1. c \in Threads /\ pc[c] # "none" /\ Kept(c)
    BY <1>1, <1>3 DEF Numbers, CurrentKept
  <2>2. a \in Threads => a = c
    BY <1>2, <2>1 DEF Numbers, OwnThread, Alive
  <2>3. CASE pc'[a] = "close" /\ sock' = [sock EXCEPT ![c] = "shut"]
    <3>1. sock'[c] = "shut" /\ "close" \in {pc'[UI], pc'[c]}
      BY <1>2, <2>1, <2>2, <2>3 DEF TypeOK, NetOK, Actors
    <3> QED
      BY <1>1, <1>4, <2>1, <3>1 DEF Kept
  <2>4. CASE pc'[a] = Back(a) /\ sock' = sock /\ ~IsIn(c, {"open", "peer"})
    <3>1. sock[c] \in {"reset", "shut"}
      BY <2>1, <2>4 DEF Kept, Deaf, IsIn
    <3>2. sock[c] = "shut" => "close" \in {pc'[UI], pc'[c]}
      BY <1>2, <2>1 DEF Kept
    <3> QED
      BY <1>1, <1>4, <2>1, <2>4, <3>1, <3>2 DEF Kept
  <2> QED
    BY <1>2, <2>3, <2>4 DEF Shutdown, Go, TypeOK, PcOK
<1>8. DeafUntilUnflag'
  <2> SUFFICES ASSUME pc'[UI] \in {"bye", "flag"}, Deaf(c)' PROVE IsConnected'
    BY <1>1 DEF DeafUntilUnflag
  <2>1. a # UI /\ a \in Threads /\ c \in Threads
    BY <1>1, <1>2 DEF Actors, Deaf
  <2>2. a = c
    BY <1>2, <2>1, UIsApart DEF Numbers, OwnThread, Alive
  <2> QED
    BY <1>1, <1>2, <2>2 DEF Deaf
<1> QED
  BY <1>5, <1>6, <1>7, <1>8 DEF Numbers

LEMMA NumbersClose ==
  ASSUME TypeOK, Numbers, QuietSetUp, NEW a \in Actors, Close(a)
  PROVE  Numbers'
<1>1. At(CurrentSocket)' = None /\ UNCHANGED <<sock, CurrentSocket>>
  BY DEF Close, conn, At
<1>2. /\ pc[a] = "close" /\ pc'[a] \in {"leave", "done"}
      /\ \A b \in Actors \ {a} : pc'[b] = pc[b]
      /\ UI \in Actors /\ Threads \subseteq Actors
      /\ \A n \in Fds : fd[n] # None => fd[n] \in Threads
      /\ \A n \in Fds : fd'[n] # None => fd'[n] = fd[n]
  BY UIsApart DEF TypeOK, PcOK, NetOK, Close, Go, Back, Actors
<1>3. pc'[UI] # "connect"
  BY <1>2 DEF QuietSetUp, Quiet, Actors
<1>4. OthersReset'
  BY <1>1, <1>2 DEF Numbers, OthersReset
<1> QED
  BY <1>1, <1>3, <1>4 DEF Numbers, OwnThread, SetUp, CurrentKept, DeafUntilUnflag, Deaf

LEMMA NumbersDisconnect ==
  ASSUME TypeOK, Numbers, QuietSetUp, NEW a \in Actors, DisconnectStep(a)
  PROVE  Numbers'
<1>1. CASE Unflag(a) \/ Unend(a)
  <2>1. /\ UNCHANGED netVars
        /\ Go(a, "flag", "unend") \/ Go(a, "unend", "shut")
    BY <1>1 DEF Unflag, Unend, net, netVars
  <2>2. CASE a = UI
    <3>1. CASE Unflag(UI)
      BY <2>1, <3>1, NumbersWindow DEF Unflag
    <3>2. CASE Unend(UI)
      BY <2>1, <3>2, NumbersWindow DEF Unend
    <3> QED
      BY <1>1, <2>2, <3>1, <3>2
  <2>3. CASE a \in Threads
    BY <2>1, <2>3, NumbersThread
  <2> QED
    BY <2>2, <2>3 DEF Actors
<1> QED
  BY <1>1, NumbersShutdown, NumbersClose DEF DisconnectStep

LEMMA NumbersReceive ==
  ASSUME TypeOK, Numbers, QuietSetUp, NEW k \in Threads,
         Start(k) \/ Select(k) \/ Receive(k) \/ EndRun(k) \/ AppendOutput(k) \/ MarkEnd(k)
  PROVE  Numbers'
<1>1. /\ UNCHANGED netVars
      /\ \E from \in {"start", "select", "recv", "append", "mark"} :
         \E to \in {"select", "recv", "append", "mark", "flag"} : Go(k, from, to)
  BY DEF Start, Select, Receive, EndRun, AppendOutput, MarkEnd, conn, net, netVars
<1> QED
  BY <1>1, NumbersThread

\* When a socket is asked for, the numbers in use are of connections that were
\* reset, for nobody is left on the way to close any other.
LEMMA AllReset ==
  ASSUME TypeOK, Numbers, Quiet, ~IsConnected, pc[UI] = "idle"
  PROVE  \A n \in Fds : fd[n] # None => sock[fd[n]] = "reset" /\ pc[fd[n]] # "none"
<1> SUFFICES ASSUME NEW n \in Fds, fd[n] # None
             PROVE  sock[fd[n]] = "reset" /\ pc[fd[n]] # "none"
  OBVIOUS
<1>1. CASE n = CurrentSocket
  <2>1. At(CurrentSocket) = fd[n] /\ pc[fd[n]] # "none" /\ Kept(fd[n]) /\ fd[n] \in Threads
    BY <1>1 DEF Numbers, CurrentKept, At, TypeOK, NetOK
  <2> QED
    BY <2>1 DEF Kept, Alive, Quiet
<1> QED
  BY <1>1 DEF Numbers, OthersReset

\* TCPClient::Connect, with a number and without.
LEMMA NumbersSocketFails ==
  ASSUME PromptEnd, TypeOK, Numbers, SocketFails
  PROVE  Numbers'
<1>1. /\ pc[UI] = "idle" /\ pc'[UI] = "look" /\ \A t \in Threads : pc'[t] = pc[t]
      /\ CurrentSocket' = -1 /\ UNCHANGED <<fd, sock>> /\ Quiet /\ ~IsConnected
      /\ \A n \in Fds : fd[n] # None => fd[n] \in Threads
  BY UIsApart DEF TypeOK, PcOK, NetOK, SocketFails, Go, Actors, net
<1>2. At(CurrentSocket)' = None
  BY <1>1, ClientAssumption DEF At, ClientAssumption
<1>3. OthersReset'
  BY <1>1, AllReset DEF OthersReset
<1> QED
  BY <1>1, <1>2, <1>3 DEF Numbers, OwnThread, SetUp, CurrentKept, DeafUntilUnflag, Deaf

LEMMA NumbersConnect ==
  ASSUME PromptEnd, TypeOK, Numbers, QuietSetUp, NEW k \in Threads,
         Connect(k) \/ Connected(k) \/ Unserved(k)
  PROVE  Numbers'
<1>1. CASE Connect(k)
  <2>1. Lowest \in Fds /\ fd[Lowest] = None
    BY <1>1, LowestIsFree DEF Connect, FreeFds
  <2>2. /\ pc[UI] = "idle" /\ pc'[UI] = "connect" /\ pc[k] = "none"
        /\ \A t \in Threads : pc[t] \in {"none", "done", "void"} /\ pc'[t] = pc[t]
        /\ CurrentSocket' = Lowest
        /\ fd' = [fd EXCEPT ![Lowest] = k] /\ sock' = [sock EXCEPT ![k] = "new"]
        /\ \A n \in Fds : fd[n] # None => fd[n] \in Threads
    BY <1>1, UIsApart DEF TypeOK, PcOK, NetOK, Connect, Quiet, Go, Actors
  <2>3. At(CurrentSocket)' = k /\ sock'[k] = "new" /\ k # None
    BY <2>1, <2>2, UIsApart DEF TypeOK, NetOK, At
  <2>4. \A n \in Fds : fd[n] # None => sock[fd[n]] = "reset" /\ pc[fd[n]] # "none"
    <3>1. Quiet /\ pc[UI] = "idle" /\ ~IsConnected
      BY <1>1 DEF Connect, Go
    <3> QED
      BY <3>1, AllReset
  <2>5. OthersReset'
    <3> SUFFICES ASSUME NEW n \in Fds, fd'[n] # None, n # Lowest
                 PROVE  sock'[fd'[n]] = "reset" /\ pc'[fd'[n]] # "none"
      BY <2>2 DEF OthersReset
    <3>1. fd'[n] = fd[n] /\ fd[n] \in Threads /\ sock[fd[n]] = "reset" /\ pc[fd[n]] # "none"
      BY <2>1, <2>2, <2>4 DEF TypeOK, NetOK
    <3>2. fd[n] # k
      BY <2>2, <3>1
    <3> QED
      BY <2>2, <3>1, <3>2 DEF TypeOK, NetOK
  <2> QED
    BY <2>2, <2>3, <2>5
    DEF Numbers, OwnThread, Alive, SetUp, CurrentKept, DeafUntilUnflag
<1>2. ASSUME NEW thread \in {"start", "void"}, Establish(k, thread) PROVE Numbers'
  <2>1. /\ pc[UI] = "connect" /\ pc'[UI] = "look" /\ pc'[k] = thread /\ IsConnected'
        /\ \A t \in Threads \ {k} : pc'[t] = pc[t]
        /\ UNCHANGED <<fd, CurrentSocket>> /\ At(CurrentSocket) = k
        /\ sock' = [sock EXCEPT ![k] = "open"] /\ k # None
        /\ \A t \in Threads : pc[t] \in {"none", "done", "void"}
        /\ \A n \in Fds : fd[n] # None => fd[n] \in Threads
    BY <1>2, UIsApart DEF TypeOK, PcOK, NetOK, Establish, Actors, QuietSetUp, Quiet
  <2>2. At(CurrentSocket)' = k /\ sock'[k] = "open" /\ sock[k] = "new"
    BY <2>1 DEF TypeOK, NetOK, At, Numbers, SetUp
  <2>3. OwnThread' /\ SetUp'
    BY <2>1, <2>2 DEF OwnThread, Alive, SetUp
  <2>4. CurrentKept' /\ DeafUntilUnflag'
    BY <2>1, <2>2 DEF CurrentKept, Kept, Alive, Deaf, DeafUntilUnflag
  <2>5. OthersReset'
    <3> SUFFICES ASSUME NEW n \in Fds, fd[n] # None, n # CurrentSocket
                 PROVE  sock'[fd[n]] = "reset" /\ pc'[fd[n]] # "none"
      BY <2>1 DEF OthersReset
    <3>1. fd[n] \in Threads /\ sock[fd[n]] = "reset" /\ pc[fd[n]] # "none"
      BY <2>1 DEF Numbers, OthersReset
    <3>2. fd[n] # k
      BY <2>2, <3>1
    <3> QED
      BY <2>1, <3>1, <3>2 DEF TypeOK, NetOK
  <2> QED
    BY <2>3, <2>4, <2>5 DEF Numbers
<1> QED
  BY <1>1, <1>2 DEF Connected, Unserved

LEMMA NumbersRefused ==
  ASSUME TypeOK, Numbers, QuietSetUp, Refused
  PROVE  Numbers'
<1>1. /\ pc'[UI] = "look"
      /\ \A t \in Threads : pc'[t] = pc[t] /\ pc[t] \in {"none", "done", "void"}
      /\ CurrentSocket' = CurrentSocket /\ At(CurrentSocket)' = None
      /\ \A t \in Threads : sock[t] = "reset" => sock'[t] = "reset"
      /\ \A n \in Fds : fd'[n] # None => fd'[n] = fd[n] /\ fd[n] \in Threads
  BY UIsApart DEF TypeOK, PcOK, NetOK, Refused, Go, Actors, QuietSetUp, Quiet, conn, At
<1>2. OthersReset'
  BY <1>1 DEF Numbers, OthersReset
<1> QED
  BY <1>1, <1>2 DEF Numbers, OwnThread, Alive, SetUp, CurrentKept, DeafUntilUnflag, Deaf

LEMMA NumbersHandlers ==
  ASSUME PromptEnd, TypeOK, Numbers, QuietSetUp, HandlerStep \/ Timer \/ User
  PROVE  Numbers'
<1> USE DEF conn, net, netVars
<1>1. CASE (\E k \in Threads : Connect(k) \/ Connected(k) \/ Unserved(k)) \/ Refused
           \/ SocketFails
  BY <1>1, NumbersConnect, NumbersRefused, NumbersSocketFails
<1>2. CASE DisconnectStep(UI)
  BY <1>2, NumbersDisconnect DEF Actors
<1>3. CASE Die
  BY <1>3, NumbersStay DEF Die
<1>4. CASE /\ UNCHANGED <<fd, sock, CurrentSocket, IsConnected>>
           /\ \E from \in WindowPC \ {"close", "connect", "unend", "shut"} :
              \E to \in WindowPC \ {"connect", "bye", "flag"} : Go(UI, from, to)
  BY <1>4, NumbersWindow
<1>a. \A place \in {"idle", "judge", "clear", "clearEnd", "unend0", "send", "write", "cancel",
                   "disconnect", "leave", "look"} :
        /\ place \in WindowPC \ {"close", "connect", "unend", "shut"}
        /\ place \in WindowPC \ {"connect", "bye", "flag"}
  BY DEF WindowPC, DisconnectPC
<1>5. CASE ConnectClick
  BY <1>4, <1>5, <1>a DEF ConnectClick
<1>6. CASE CloseApplication
  BY <1>3, <1>4, <1>6, <1>a DEF CloseApplication
<1>7. CASE Leave \/ LookUpFails \/ CheckMessages \/ Judge
  BY <1>4, <1>7, <1>a DEF Leave, LookUpFails, CheckMessages, Judge
<1>8. CASE Disconnect \/ Bye
  <2>1. CASE Die
    BY <1>3, <2>1
  <2>2. CASE Disconnect /\ ~IsConnected
    <3>1. Go(UI, "disconnect", "leave") /\ UNCHANGED <<fd, sock, CurrentSocket, IsConnected>>
      BY <2>2 DEF Disconnect
    <3> QED
      BY <1>4, <3>1, <1>a
  <2>3. CASE Disconnect /\ IsConnected
    <3>1. Go(UI, "disconnect", "bye") /\ UNCHANGED <<fd, sock, CurrentSocket, IsConnected>>
      BY <2>3 DEF Disconnect
    <3> QED
      BY <2>3, <3>1, NumbersWindow
  <2>4. CASE Go(UI, "bye", "flag") /\ UNCHANGED <<fd, sock, CurrentSocket, IsConnected>>
    BY <2>4, NumbersWindow
  <2> QED
    BY <1>8, <2>1, <2>2, <2>3, <2>4 DEF Bye
<1>9. CASE Look
  BY <1>4, <1>9, <1>a DEF Look
<1>10. CASE ShowOutput \/ ShowLastOutput \/ SetTransmissionEnd \/ TypeCommand
  BY <1>4, <1>10, <1>a
  DEF ShowOutput, ShowLastOutput, SetTransmissionEnd, TypeCommand, ClearServerOutput
<1>11. CASE SendCommand \/ CancelCommand
  BY <1>4, <1>11, <1>a DEF SendCommand, CancelCommand
<1>12. CASE SendMessage("write") \/ SendMessage("cancel")
  BY <1>3, <1>4, <1>12, <1>a DEF SendMessage
<1>13. CASE KeyDown
  BY <1>3, <1>4, <1>13, <1>a DEF KeyDown
<1>14. CASE KeyUp
  BY <1>4, <1>14, <1>a DEF KeyUp
<1> QED
  BY <1>1, <1>2, <1>5, <1>6, <1>7, <1>8, <1>9, <1>10, <1>11, <1>12, <1>13, <1>14
  DEF HandlerStep, Timer, User

LEMMA NumbersNext ==
  PromptEnd /\ TypeOK /\ QuietSetUp /\ Numbers /\ [Next]_vars => Numbers'
<1> SUFFICES ASSUME PromptEnd, TypeOK, QuietSetUp, Numbers, [Next]_vars PROVE Numbers'
  OBVIOUS
<1>1. CASE Network
  BY <1>1, NumbersNetwork DEF Network
<1>2. CASE OutputRace \/ Rest \/ UNCHANGED vars
  BY <1>2, NumbersStay DEF OutputRace, Die, Rest, vars, conn, net, netVars
<1>3. ASSUME NEW k \in Threads, ThreadStep(k) PROVE Numbers'
  BY <1>3, NumbersReceive, NumbersDisconnect DEF ThreadStep, Actors
<1> QED
  BY <1>1, <1>2, <1>3, NumbersHandlers DEF Next

-----------------------------------------------------------------------------
(* The history                                                             *)

LEMMA HistoryInit == Init => HistoryInBounds
<1>1. Init => commands = 0
  BY DEF Init
<1> QED
  BY <1>1 DEF HistoryInBounds

LEMMA HistoryNext == HistoryOK /\ HistoryInBounds /\ [Next]_vars => HistoryInBounds'
<1> SUFFICES ASSUME HistoryOK, HistoryInBounds, [Next]_vars PROVE HistoryInBounds'
  OBVIOUS
<1> USE DEF HistoryOK
<1>1. CASE UNCHANGED history
  BY <1>1 DEF HistoryInBounds, history
<1>2. CASE TypeCommand
  BY <1>2 DEF TypeCommand, HistoryInBounds
<1>3. CASE KeyDown
  BY <1>1, <1>3 DEF KeyDown, Die, HistoryInBounds
<1>4. CASE KeyUp
  BY <1>4 DEF KeyUp, HistoryInBounds
<1>5. CASE Look
  <2>1. commands' = 0 \/ UNCHANGED history
    BY <1>5 DEF Look, history
  <2> QED
    BY <1>1, <2>1 DEF HistoryInBounds
<1>6. CASE HandlerStep \/ Timer \/ User
  BY <1>1, <1>2, <1>3, <1>4, <1>5, <1>6
  DEF HandlerStep, Timer, User, DisconnectStep, Unflag, Unend, Shutdown, Close, Disconnect, Bye,
      Die, Leave, Connected, Unserved, Establish, SocketFails, Refused, Judge, ShowOutput, ShowLastOutput, ClearServerOutput,
      SetTransmissionEnd, SendMessage, CheckMessages, Connect, LookUpFails, ConnectClick,
      CloseApplication, SendCommand, CancelCommand
<1>7. CASE Network \/ OutputRace \/ Rest \/ UNCHANGED vars
  BY <1>1, <1>7
  DEF Network, Deliver, PeerClose, PeerReset, OutputRace, Die, Rest, vars
<1>8. ASSUME NEW k \in Threads, ThreadStep(k) PROVE HistoryInBounds'
  BY <1>1, <1>8
  DEF ThreadStep, Start, Select, Receive, EndRun, AppendOutput, MarkEnd, DisconnectStep,
      Unflag, Unend, Shutdown, Close
<1> QED
  BY <1>6, <1>7, <1>8 DEF Next

-----------------------------------------------------------------------------
(* TransmissionEnd                                                         *)

\* The threads that are still to reset TransmissionEnd.
Resetting(k) == Receiving(k) \/ pc[k] = "unend"

\* EndPasses stays when the flag is not set and these threads stay such, ...
LEMMA EndStays ==
  ASSUME EndPasses, TransmissionEnd' \in {TransmissionEnd, FALSE},
         TransmissionEnd' => \A k \in Threads : Resetting(k) => Resetting(k)'
  PROVE  EndPasses'
BY DEF EndPasses, Resetting

\* ... so by every step that the window takes outside TCPClient::Disconnect, ...
LEMMA EndWindow ==
  ASSUME PcOK, EndPasses, TransmissionEnd' \in {TransmissionEnd, FALSE},
         NEW from, NEW to, Go(UI, from, to)
  PROVE  EndPasses'
<1>1. \A k \in Threads : pc'[k] = pc[k]
  BY UIsApart DEF PcOK, Go, Actors
<1> QED
  BY <1>1, EndStays DEF Resetting, Receiving

\* ... and by every other step that changes no program counter.
LEMMA EndElse == EndPasses /\ UNCHANGED <<conn, pc>> => EndPasses'
BY EndStays DEF conn, Resetting, Receiving

\* A thread leaves run() for Unflag alone, and Unend takes the flag back.
LEMMA EndThread ==
  ASSUME TypeOK, EndPasses, NEW k \in Threads,
         Start(k) \/ Select(k) \/ Receive(k) \/ EndRun(k) \/ AppendOutput(k) \/ MarkEnd(k)
  PROVE  EndPasses'
<1>1. \E from : \E to \in {"select", "recv", "append", "mark", "flag"} : Go(k, from, to)
  BY DEF Start, Select, Receive, EndRun, AppendOutput, MarkEnd
<1>2. Receiving(k)'
  BY <1>1 DEF TypeOK, PcOK, Go, Actors, Receiving
<1> QED
  BY <1>2 DEF EndPasses

LEMMA EndDisconnect ==
  ASSUME TypeOK, EndPasses, NEW a \in Actors, DisconnectStep(a)
  PROVE  EndPasses'
<1> USE DEF conn, net
<1>1. \/ ~TransmissionEnd'
      \/ /\ TransmissionEnd' = TransmissionEnd
         /\ Go(a, "flag", "unend") \/ pc[a] \in {"shut", "close"}
         /\ \A b \in Actors \ {a} : pc'[b] = pc[b]
  <2>1. CASE Unflag(a)
    BY <2>1 DEF Unflag, Go, TypeOK, PcOK
  <2>2. CASE Unend(a)
    BY <2>2 DEF Unend
  <2>3. CASE Shutdown(a) \/ Close(a)
    BY <2>3 DEF Shutdown, Close, Go, TypeOK, PcOK
  <2> QED
    BY <2>1, <2>2, <2>3 DEF DisconnectStep
<1>2. CASE ~TransmissionEnd'
  BY <1>2 DEF EndPasses
<1>3. CASE /\ TransmissionEnd' = TransmissionEnd
           /\ Go(a, "flag", "unend") \/ pc[a] \in {"shut", "close"}
           /\ \A b \in Actors \ {a} : pc'[b] = pc[b]
  <2>1. pc'[a] = "unend" \/ pc[a] \in {"shut", "close"}
    BY <1>3 DEF Go, TypeOK, PcOK
  <2> SUFFICES ASSUME NEW k \in Threads, Resetting(k)
               PROVE  Resetting(k)'
    BY <1>3, EndStays
  <2>2. CASE k = a
    BY <2>1, <2>2 DEF Resetting, Receiving
  <2>3. CASE k # a
    BY <1>3, <2>3 DEF Resetting, Receiving, Actors
  <2> QED
    BY <2>2, <2>3
<1> QED
  BY <1>1, <1>2, <1>3

\* The connection that is set up has no thread yet, so that none is lost by it,
\* created or not.
FreshConnect == pc[UI] = "connect" => \A k \in Threads : At(CurrentSocket) = k => pc[k] = "none"

LEMMA FreshNext == TypeOK /\ FreshConnect /\ [Next]_vars => FreshConnect'
<1> SUFFICES ASSUME TypeOK, FreshConnect, [Next]_vars PROVE FreshConnect'
  OBVIOUS
<1> USE DEF conn, net
<1>1. CASE UNCHANGED <<pc, fd, CurrentSocket>>
  BY <1>1 DEF FreshConnect, At
<1>2. ASSUME NEW k \in Threads, Connect(k) PROVE FreshConnect'
  <2>1. Lowest \in Fds
    BY <1>2, LowestIsFree DEF Connect, FreeFds
  <2>2. At(CurrentSocket)' = k /\ pc'[k] = "none"
    BY <1>2, <2>1, UIsApart DEF TypeOK, PcOK, NetOK, Connect, Go, At, Actors
  <2> QED
    BY <2>2 DEF FreshConnect
<1>3. CASE \E from : \E to \in WindowPC \ {"connect"} : Go(UI, from, to)
  BY <1>3 DEF FreshConnect, Go, TypeOK, PcOK, Actors
<1>4. ASSUME NEW k \in Threads, Connected(k) \/ Unserved(k) PROVE FreshConnect'
  BY <1>4, UIsApart DEF FreshConnect, Connected, Unserved, Establish, TypeOK, PcOK, Actors
<1>5. ASSUME NEW k \in Threads, ThreadStep(k) PROVE FreshConnect'
  <2>1. /\ pc[k] # "none" /\ \A a \in Actors \ {k} : pc'[a] = pc[a]
        /\ CurrentSocket' = CurrentSocket
    BY <1>5 DEF ThreadStep, Start, Select, Receive, EndRun, AppendOutput, MarkEnd, DisconnectStep,
                Unflag, Unend, Shutdown, Close, Go, TypeOK, PcOK
  <2>2. \A n \in Fds : fd'[n] \in {fd[n], None}
    <3>1. CASE Close(k)
      BY <3>1 DEF Close
    <3>2. CASE ~Close(k)
      BY <1>5, <3>2 DEF ThreadStep, Start, Select, Receive, EndRun, AppendOutput, MarkEnd,
                        DisconnectStep, Unflag, Unend, Shutdown
    <3> QED
      BY <3>1, <3>2
  <2>3. At(CurrentSocket)' \in {At(CurrentSocket), None}
    BY <2>1, <2>2 DEF At
  <2> QED
    BY <2>1, <2>3, UIsApart DEF FreshConnect, Actors
<1>a. \A to \in {"idle", "judge", "clear", "clearEnd", "unend0", "send", "write", "cancel",
               "disconnect", "bye", "leave", "look"} \cup DisconnectPC :
        to \in WindowPC \ {"connect"}
  BY DEF WindowPC, DisconnectPC
<1>6. CASE Die \/ KeyDown \/ KeyUp
  BY <1>1, <1>3, <1>6, <1>a DEF Die, KeyDown, KeyUp
<1>7. CASE DisconnectStep(UI)
  BY <1>3, <1>7, <1>a DEF DisconnectStep, Unflag, Unend, Shutdown, Close, Back, DisconnectPC
<1>8. CASE ConnectClick \/ CloseApplication \/ SendCommand \/ CancelCommand
  BY <1>3, <1>6, <1>8, <1>a DEF ConnectClick, CloseApplication, SendCommand, CancelCommand
<1>9. CASE Disconnect \/ Bye \/ Leave \/ Refused \/ Look \/ Judge
  BY <1>3, <1>6, <1>9, <1>a DEF Disconnect, Bye, Leave, Refused, Look, Judge, DisconnectPC
<1>10. CASE ShowOutput \/ ShowLastOutput \/ SetTransmissionEnd \/ TypeCommand
  BY <1>3, <1>10, <1>a
  DEF ShowOutput, ShowLastOutput, SetTransmissionEnd, TypeCommand, ClearServerOutput
<1>11. CASE SendMessage("write") \/ SendMessage("cancel")
  BY <1>3, <1>6, <1>11, <1>a DEF SendMessage
<1>12. CASE CheckMessages \/ SocketFails \/ LookUpFails
  BY <1>3, <1>12, <1>a DEF CheckMessages, SocketFails, LookUpFails
<1>13. CASE Network \/ OutputRace \/ Rest \/ UNCHANGED vars
  BY <1>1, <1>13 DEF Network, Deliver, PeerClose, PeerReset, OutputRace, Die, Rest, vars
<1> QED
  BY <1>2, <1>4, <1>5, <1>6, <1>7, <1>8, <1>9, <1>10, <1>11, <1>12, <1>13
  DEF Next, HandlerStep, Timer, User

LEMMA EndConnected ==
  ASSUME TypeOK, EndPasses, FreshConnect, NEW k \in Threads, Connected(k) \/ Unserved(k)
  PROVE  EndPasses'
<1>1. pc[k] = "none" /\ (\A t \in Threads \ {k} : pc'[t] = pc[t]) /\ UNCHANGED TransmissionEnd
  BY UIsApart DEF TypeOK, PcOK, Connected, Unserved, Establish, FreshConnect, Actors
<1> QED
  BY <1>1 DEF EndPasses, Receiving

LEMMA EndHandlers ==
  ASSUME TypeOK, EndPasses, FreshConnect, HandlerStep \/ Timer \/ User
  PROVE  EndPasses'
<1> USE DEF conn
<1>1. CASE \E k \in Threads : Connected(k) \/ Unserved(k)
  BY <1>1, EndConnected
<1>2. CASE DisconnectStep(UI)
  BY <1>2, EndDisconnect DEF Actors
<1>3. CASE Die
  BY <1>3, EndElse DEF Die
<1>4. CASE TransmissionEnd' \in {TransmissionEnd, FALSE} /\ \E from, to : Go(UI, from, to)
  BY <1>4, EndWindow DEF TypeOK
<1>5. CASE Disconnect \/ Leave \/ Refused \/ Look \/ Judge
  BY <1>4, <1>5 DEF Disconnect, Leave, Refused, Look, Judge
<1>6. CASE Bye \/ SendMessage("write") \/ SendMessage("cancel")
  BY <1>3, <1>4, <1>6 DEF Bye, SendMessage
<1>7. CASE ShowOutput \/ ShowLastOutput \/ SetTransmissionEnd \/ TypeCommand
  BY <1>4, <1>7
  DEF ShowOutput, ShowLastOutput, SetTransmissionEnd, TypeCommand, ClearServerOutput
<1>8. CASE Timer
  BY <1>4, <1>8 DEF Timer, CheckMessages, Connect, SocketFails, LookUpFails
<1>9. CASE ConnectClick \/ SendCommand \/ CancelCommand
  BY <1>4, <1>9 DEF ConnectClick, SendCommand, CancelCommand
<1>10. CASE CloseApplication \/ KeyDown \/ KeyUp
  BY <1>3, <1>4, <1>10 DEF CloseApplication, KeyDown, KeyUp
<1> QED
  BY <1>1, <1>2, <1>5, <1>6, <1>7, <1>8, <1>9, <1>10 DEF HandlerStep, User

LEMMA EndNext == TypeOK /\ EndPasses /\ FreshConnect /\ [Next]_vars => EndPasses'
<1> SUFFICES ASSUME TypeOK, EndPasses, FreshConnect, [Next]_vars PROVE EndPasses'
  OBVIOUS
<1>1. CASE UNCHANGED vars
  BY <1>1, EndElse DEF vars
<1>2. CASE \E k \in Threads : ThreadStep(k)
  BY <1>2, EndThread, EndDisconnect DEF ThreadStep, Actors
<1>3. CASE Network \/ OutputRace \/ Rest
  BY <1>1, <1>3, EndElse DEF Network, Deliver, PeerClose, PeerReset, OutputRace, Die, Rest
<1> QED
  BY <1>1, <1>2, <1>3, EndHandlers DEF Next

-----------------------------------------------------------------------------
(* The theorems                                                            *)

LEMMA InvInit == Init => ClientInv
BY TypeInit, FlagsInit, NumbersInit, HistoryInit DEF ClientInv, Flags

LEMMA InvNext == PromptEnd /\ ClientInv /\ [Next]_vars => ClientInv'
BY TypeNext, FlagsNext, NumbersNext, HistoryNext DEF ClientInv, Flags, TypeOK

\* The flags, the threads and the history of the client keep ClientInv, given
\* that a receive thread ends before the window connects again.
THEOREM Invariance == PromptEnd => (Spec => []ClientInv)
<1> SUFFICES ASSUME PromptEnd PROVE Spec => []ClientInv
  OBVIOUS
<1>1. Init => ClientInv
  BY InvInit
<1>2. ClientInv /\ [Next]_vars => ClientInv'
  BY InvNext
<1> QED
  BY <1>1, <1>2, PTL DEF Spec

\* IsConnected, which the window trusts, is never left TRUE without a receive
\* thread on the current socket, but where that thread could not be created:
\* a lost connection is always noticed by one.
THEOREM ReceiverAlways == PromptEnd => (Spec => []ReceiverServes)
<1>1. ClientInv => ReceiverServes
  BY DEF ClientInv
<1> QED
  BY <1>1, Invariance, PTL

\* Every descriptor number comes back when its connection ends, but for a reset,
\* and that of a connection without a thread when the window disconnects.
THEOREM NumbersComeBack == PromptEnd => (Spec => []NumbersBack)
<1>1. ClientInv => NumbersBack
  <2> SUFFICES ASSUME ClientInv, NEW n \in Fds, fd[n] # None, sock[fd[n]] # "reset"
               PROVE  /\ n = CurrentSocket
                      /\ \/ pc[UI] \notin {"idle", "look"}
                         \/ Receiving(fd[n]) \/ Ending(fd[n])
                         \/ Deaf(fd[n]) /\ IsConnected
    BY DEF NumbersBack
  <2>1. n = CurrentSocket
    BY DEF ClientInv, Numbers, OthersReset
  <2>2. At(CurrentSocket) = fd[n] /\ fd[n] \in Threads
    BY <2>1 DEF At, ClientInv, TypeOK, NetOK
  <2> SUFFICES ASSUME pc[UI] \in {"idle", "look"}, ~(Deaf(fd[n]) /\ IsConnected)
               PROVE  Receiving(fd[n]) \/ Ending(fd[n])
    BY <2>1
  <2>3. Kept(fd[n])
    BY <2>2 DEF ClientInv, Numbers, CurrentKept
  <2>4. pc[fd[n]] \in ThreadPC \ {"none", "done", "void"}
    BY <2>2, <2>3 DEF Kept, Alive, ClientInv, TypeOK, PcOK, ThreadPC, DisconnectPC
  <2> QED
    BY <2>4 DEF Receiving, Ending, ThreadPC
<1> QED
  BY <1>1, Invariance, PTL

\* Every variable keeps its type, whatever the threads do: no assumption.
THEOREM TypeCorrect == Spec => []TypeOK
<1>1. Init => TypeOK
  BY TypeInit
<1>2. TypeOK /\ [Next]_vars => TypeOK'
  BY TypeNext
<1> QED
  BY <1>1, <1>2, PTL DEF Spec

\* TransmissionEnd never outlives the threads that are still to reset it.  This
\* needs no assumption: a thread of an ended connection that is late keeps its
\* own promise, and so do the threads that come after it.
THEOREM EndAlwaysPasses == Spec => []EndPasses
<1>1. Init => EndPasses /\ FreshConnect
  BY FlagsInit, UIsApart DEF Flags, FreshConnect, Init, Actors
<1>2. TypeOK /\ EndPasses /\ FreshConnect /\ [Next]_vars => EndPasses' /\ FreshConnect'
  BY EndNext, FreshNext
<1> QED
  BY <1>1, <1>2, TypeCorrect, PTL DEF Spec

\* The history needs no assumption about threads either.
THEOREM HistorySafe == Spec => []HistoryInBounds
<1>1. Init => HistoryInBounds
  BY HistoryInit
<1>2. TypeOK /\ HistoryInBounds /\ [Next]_vars => HistoryInBounds'
  BY HistoryNext DEF TypeOK
<1> QED
  BY <1>1, <1>2, TypeCorrect, PTL DEF Spec

-----------------------------------------------------------------------------
(* The refinement of Link                                                  *)

\* There is one receive thread at a time.
OneAlive == \A j, k \in Threads : Alive(j) /\ Alive(k) => j = k

LinkInv == ClientInv /\ OneAlive

\* What Link sees of a state, but for the commands.
seen == <<LinkState, InUse, Made>>

-----------------------------------------------------------------------------
(* Steps that Link does not see                                            *)

\* Nothing is seen of a state but these.
LEMMA SeenStays == UNCHANGED <<pc, IsConnected, CurrentSocket, fd>> => UNCHANGED seen
BY DEF seen, LinkState, InUse, Made, Alive, Held, Deaf, At

\* The window moves outside TCPClient::Connect, or inside Disconnect before it
\* gives its number up.
LEMMA WindowUnseen ==
  ASSUME PcOK, NEW from, NEW to, Go(UI, from, to), from # "connect", to # "connect",
         from \in {"unend", "shut", "close"} <=> to \in {"unend", "shut", "close"},
         UNCHANGED <<IsConnected, CurrentSocket, fd>>
  PROVE  UNCHANGED seen
<1>1. pc[UI] = from /\ pc'[UI] = to /\ \A k \in Threads : pc'[k] = pc[k]
  BY UIsApart DEF PcOK, Go, Actors
<1>2. At(CurrentSocket)' = At(CurrentSocket)
  BY DEF At
<1>3. UNCHANGED <<InUse, Made>>
  BY <1>1, <1>2 DEF InUse, Made, Alive, Held, Deaf
<1> QED
  BY <1>1, <1>3 DEF seen, LinkState

\* While a receive thread is alive the window holds no connection without one.
LEMMA ThreadHeld ==
  ASSUME OwnThread, NEW k \in Threads, Alive(k), pc'[k] # "void",
         \A t \in Threads \ {k} : pc'[t] = pc[t],
         At(CurrentSocket)' \in {At(CurrentSocket), None}
  PROVE  \A t \in Threads : ~Held(t) /\ ~Held(t)'
<1>1. At(CurrentSocket) \in {k, None} /\ At(CurrentSocket)' \in {k, None}
  BY DEF OwnThread
<1>2. ~Deaf(k) /\ ~Deaf(k)'
  BY DEF Alive, Deaf
<1> QED
  BY <1>1, <1>2, UIsApart DEF Held

\* A receive thread goes on: the window is not in TCPClient::Connect then.
LEMMA ThreadUnseen ==
  ASSUME PcOK, QuietSetUp, OwnThread, NEW k \in Threads, NEW from, NEW to, Go(k, from, to),
         from \notin {"none", "done", "void"}, to \notin {"none", "done", "void"},
         UNCHANGED <<IsConnected, CurrentSocket, fd>>
  PROVE  UNCHANGED seen
<1>1. pc[k] = from /\ pc'[k] = to /\ \A a \in Actors \ {k} : pc'[a] = pc[a]
  BY DEF PcOK, Go, Actors
<1>2. pc[UI] # "connect" /\ pc'[UI] # "connect"
  BY <1>1, UIsApart DEF QuietSetUp, Quiet, Actors
<1>a. \A t \in Threads : ~Held(t) /\ ~Held(t)'
  BY <1>1, ThreadHeld DEF Alive, Actors, At
<1>3. UNCHANGED <<InUse, Made>>
  BY <1>1, <1>2, <1>a DEF InUse, Made, Alive, Actors
<1> QED
  BY <1>2, <1>3 DEF seen, LinkState

-----------------------------------------------------------------------------
(* One receive thread                                                      *)

\* A thread becomes alive when the window makes a connection, and no other is
\* alive then.
LEMMA OneAliveConnected ==
  ASSUME TypeOK, QuietSetUp, NEW k \in Threads, NEW thread, Establish(k, thread)
  PROVE  OneAlive'
<1>1. \A t \in Threads \ {k} : pc'[t] = pc[t] /\ pc[t] \in {"none", "done", "void"}
  BY UIsApart DEF TypeOK, PcOK, Establish, QuietSetUp, Quiet, Actors
<1> QED
  BY <1>1 DEF OneAlive, Alive

LEMMA OneAliveStays ==
  ASSUME OneAlive, \A k \in Threads : Alive(k)' => Alive(k)
  PROVE  OneAlive'
BY DEF OneAlive

\* The window moves no thread, ...
LEMMA OneAliveWindow ==
  ASSUME PcOK, OneAlive, NEW from, NEW to, Go(UI, from, to)
  PROVE  OneAlive'
<1>1. \A k \in Threads : pc'[k] = pc[k]
  BY UIsApart DEF PcOK, Go, Actors
<1> QED
  BY <1>1, OneAliveStays DEF Alive

\* ... and a thread that moves was alive.
LEMMA OneAliveActor ==
  ASSUME PcOK, OneAlive, NEW a \in Actors, NEW from, NEW to, Go(a, from, to),
         from \notin {"none", "done", "void"}
  PROVE  OneAlive'
<1>1. pc[a] = from /\ \A b \in Actors \ {a} : pc'[b] = pc[b]
  BY DEF PcOK, Go
<1>2. \A k \in Threads : Alive(k)' => Alive(k)
  BY <1>1 DEF Alive, Actors
<1> QED
  BY <1>2, OneAliveStays

-----------------------------------------------------------------------------
(* Steps that Link sees                                                    *)

LEMMA Unseen == UNCHANGED <<seen, asked>> => [Links!Next]_(Links!vars)
BY DEF seen, Links!vars

LEMMA ConnectIsOpen ==
  ASSUME PromptEnd, LinkInv, NEW k \in Threads, Connect(k)
  PROVE  Links!Next
<1>1. Lowest \in Fds /\ fd[Lowest] = None
  BY LowestIsFree DEF Connect, FreeFds
<1>2. /\ pc[UI] = "idle" /\ pc'[UI] = "connect" /\ pc[k] = "none"
      /\ \A t \in Threads : pc[t] \in {"none", "done", "void"} /\ pc'[t] = pc[t]
      /\ CurrentSocket' = Lowest /\ fd' = [fd EXCEPT ![Lowest] = k]
      /\ ~IsConnected /\ ~IsConnected' /\ asked' = asked
  BY UIsApart DEF LinkInv, ClientInv, TypeOK, PcOK, Connect, Quiet, Go, Actors
<1>3. At(CurrentSocket)' = k
  BY <1>1, <1>2 DEF At, LinkInv, ClientInv, TypeOK, NetOK
<1>4. LinkState = "off" /\ LinkState' = "opening"
  BY <1>2 DEF LinkState, InUse, Alive, Held
<1>5. InUse' = {k} /\ Made' = Made /\ k \notin Made
  BY <1>2, <1>3 DEF InUse, Made, Alive, Held
<1> QED
  BY <1>2, <1>4, <1>5 DEF Links!Next, Links!Open

\* With a receive thread or without, the connection is made.
LEMMA ConnectedIsEstablish ==
  ASSUME LinkInv, NEW k \in Threads, NEW thread \in {"start", "void"}, Establish(k, thread)
  PROVE  Links!Next
<1>1. /\ pc[UI] = "connect" /\ pc'[UI] = "look" /\ pc'[k] = thread
      /\ \A t \in Threads \ {k} : pc'[t] = pc[t]
      /\ At(CurrentSocket) = k /\ At(CurrentSocket)' = k
      /\ ~IsConnected /\ IsConnected' /\ asked' = asked
      /\ \A t \in Threads : pc[t] \in {"none", "done", "void"}
  BY UIsApart
  DEF LinkInv, ClientInv, TypeOK, PcOK, Establish, Actors, QuietSetUp, Quiet, At
<1>2. LinkState = "opening" /\ LinkState' = "on"
  BY <1>1 DEF LinkState
<1>a. Alive(k)' \/ Held(k)'
  BY <1>1, UIsApart DEF Alive, Held, Deaf
<1>3. InUse = {k} /\ InUse' = {k} /\ Made' = Made \cup {k}
  BY <1>1, <1>a DEF InUse, Made, Alive, Held
<1> QED
  BY <1>1, <1>2, <1>3 DEF Links!Next, Links!Establish

LEMMA RefusedIsFail ==
  ASSUME LinkInv, Refused
  PROVE  Links!Next
<1>1. /\ pc[UI] = "connect" /\ pc'[UI] = "look" /\ ~IsConnected' /\ asked' = asked
      /\ \A t \in Threads : pc'[t] = pc[t] /\ pc[t] \in {"none", "done", "void"}
  BY UIsApart DEF LinkInv, ClientInv, TypeOK, PcOK, Refused, Go, Actors, QuietSetUp, Quiet, conn
<1>2. InUse' = {} /\ Made' = Made
  BY <1>1 DEF InUse, Made, Alive, Held
<1>3. LinkState = "opening" /\ LinkState' = "off"
  BY <1>1, <1>2 DEF LinkState
<1> QED
  BY <1>1, <1>2, <1>3 DEF Links!Next, Links!Fail

\* Without a number the window gives the attempt up before it is one.
LEMMA SocketFailsUnseen ==
  ASSUME LinkInv, SocketFails
  PROVE  UNCHANGED <<seen, asked>>
<1>1. /\ pc[UI] = "idle" /\ pc'[UI] = "look" /\ ~IsConnected /\ ~IsConnected' /\ asked' = asked
      /\ \A t \in Threads : pc'[t] = pc[t]
  BY UIsApart DEF LinkInv, ClientInv, TypeOK, PcOK, SocketFails, Go, Actors, net
<1>2. UNCHANGED <<InUse, Made>>
  BY <1>1 DEF InUse, Made, Alive, Held
<1> QED
  BY <1>1, <1>2 DEF seen, LinkState

\* IsConnected falls while the receive thread is still there, or the window has
\* the number.
LEMMA UnflagIsDrop ==
  ASSUME LinkInv, NEW a \in Actors, Unflag(a)
  PROVE  [Links!Next]_(Links!vars)
<1>1. /\ pc[a] = "flag" /\ pc'[a] = "unend" /\ \A b \in Actors \ {a} : pc'[b] = pc[b]
      /\ ~IsConnected' /\ asked' = asked /\ At(CurrentSocket)' = At(CurrentSocket)
      /\ UI \in Actors /\ Threads \subseteq Actors
  BY DEF LinkInv, ClientInv, TypeOK, PcOK, Unflag, Go, net, At, Actors
<1>2. pc[UI] # "connect" /\ pc'[UI] # "connect"
  BY <1>1 DEF LinkInv, ClientInv, QuietSetUp, Quiet, Actors
<1>a. \A t \in Threads : Held(t)' <=> Held(t)
  <2>1. CASE a = UI
    <3>1. \A t \in Threads : Deaf(t)' <=> Deaf(t)
      BY <1>1, <2>1, UIsApart DEF Deaf
    <3>2. Deaf(At(CurrentSocket)) => IsConnected
      BY <1>1, <2>1 DEF LinkInv, ClientInv, Numbers, DeafUntilUnflag
    <3> QED
      BY <1>1, <2>1, <3>1, <3>2 DEF Held
  <2>2. CASE a \in Threads
    BY <1>1, <2>2, ThreadHeld DEF LinkInv, ClientInv, Numbers, Alive
  <2> QED
    BY <2>1, <2>2 DEF Actors
<1>3. UNCHANGED <<InUse, Made>>
  BY <1>1, <1>2, <1>a DEF InUse, Made, Alive, Actors
<1>4. CASE IsConnected
  <2>1. InUse # {}
    <3>1. CASE Deaf(At(CurrentSocket))
      BY <1>4, <3>1, AtType DEF LinkInv, ClientInv, InUse, Held, Deaf
    <3> QED
      BY <1>4, <3>1 DEF LinkInv, ClientInv, ReceiverServes, Receiving, InUse, Alive
  <2>2. LinkState = "on" /\ LinkState' = "ending"
    BY <1>1, <1>2, <1>3, <1>4, <2>1 DEF LinkState
  <2> QED
    BY <1>1, <1>3, <2>2 DEF Links!Next, Links!Drop
<1>5. CASE ~IsConnected
  <2>1. LinkState' = LinkState
    BY <1>1, <1>2, <1>3, <1>5 DEF LinkState
  <2> QED
    BY <1>1, <1>3, <2>1, Unseen DEF seen
<1> QED
  BY <1>4, <1>5

\* The receive thread ends, and with it what was left of the connection.
LEMMA DoneIsFinish ==
  ASSUME LinkInv, NEW k \in Threads, NEW from \in {"shut", "close"}, Go(k, from, "done"),
         UNCHANGED <<IsConnected, asked>>,
         At(CurrentSocket)' \in {At(CurrentSocket), None}
  PROVE  Links!Next
<1>1. /\ pc[k] = from /\ pc'[k] = "done" /\ pc'[UI] = pc[UI]
      /\ \A t \in Threads \ {k} : pc'[t] = pc[t]
  BY UIsApart DEF LinkInv, ClientInv, TypeOK, PcOK, Go, Actors
<1>2. pc[UI] # "connect" /\ ~IsConnected
  BY <1>1 DEF LinkInv, ClientInv, QuietSetUp, Quiet, Unflagged, Actors
<1>3. \A t \in Threads \ {k} : ~Alive(t)
  BY <1>1 DEF LinkInv, OneAlive, Alive
<1>a. \A t \in Threads : ~Held(t) /\ ~Held(t)'
  BY <1>1, ThreadHeld DEF LinkInv, ClientInv, Numbers, Alive
<1>4. InUse # {} /\ InUse' = {} /\ Made' = Made
  <2>1. k \in InUse
    BY <1>1 DEF InUse, Alive
  <2> QED
    BY <1>1, <1>2, <1>3, <1>a, <2>1 DEF InUse, Made, Alive
<1>5. LinkState = "ending" /\ LinkState' = "off"
  BY <1>1, <1>2, <1>4 DEF LinkState
<1> QED
  BY <1>4, <1>5 DEF Links!Next, Links!Finish

\* The window leaves Disconnect.  A connection without a thread is over then;
\* any other is the business of its thread.
LEMMA LeftIsFinish ==
  ASSUME LinkInv, NEW from \in {"shut", "close"}, Go(UI, from, "leave"),
         UNCHANGED <<IsConnected, asked>>,
         At(CurrentSocket)' \in {At(CurrentSocket), None}
  PROVE  [Links!Next]_(Links!vars)
<1>1. pc[UI] = from /\ pc'[UI] = "leave" /\ \A t \in Threads : pc'[t] = pc[t]
  BY UIsApart DEF LinkInv, ClientInv, TypeOK, PcOK, Go, Actors
<1>2. ~IsConnected /\ \A t \in Threads : ~Held(t)'
  BY <1>1 DEF LinkInv, ClientInv, Unflagged, Actors, Held
<1>3. Made' = Made /\ \A t \in Threads : Alive(t)' <=> Alive(t)
  BY <1>1 DEF Made, Alive
<1>4. CASE Deaf(At(CurrentSocket))
  <2>1. At(CurrentSocket) \in InUse
    BY <1>1, <1>4, AtType DEF LinkInv, ClientInv, InUse, Held, Deaf
  <2>2. \A t \in Threads : ~Alive(t)
    BY <1>4, UIsApart DEF LinkInv, ClientInv, Numbers, OwnThread, Alive, Deaf
  <2>3. InUse' = {}
    BY <1>1, <1>2, <1>3, <2>2 DEF InUse
  <2>4. LinkState = "ending" /\ LinkState' = "off"
    BY <1>1, <1>2, <2>1, <2>3 DEF LinkState
  <2> QED
    BY <1>3, <2>3, <2>4 DEF Links!Next, Links!Finish
<1>5. CASE ~Deaf(At(CurrentSocket))
  <2>1. \A t \in Threads : ~Held(t)
    BY <1>5 DEF Held
  <2>2. UNCHANGED InUse
    BY <1>1, <1>2, <1>3, <2>1 DEF InUse
  <2>3. UNCHANGED LinkState
    BY <1>1, <2>2 DEF LinkState
  <2> QED
    BY <1>3, <2>2, <2>3, Unseen DEF seen
<1> QED
  BY <1>4, <1>5

\* What can be sent at all goes to the connection in use.
LEMMA SendIsAsk ==
  ASSUME LinkInv, CanSend, Go(UI, "write", "idle"),
         asked' = asked \cup {At(CurrentSocket)}, UNCHANGED <<IsConnected, CurrentSocket, fd>>
  PROVE  Links!Next
<1> DEFINE c == At(CurrentSocket)
<1>1. c # None /\ sock[c] \in {"open", "peer"} /\ pc[UI] = "write"
  BY DEF CanSend, IsIn, Go
<1>2. c \in Threads /\ (Alive(c) \/ Held(c))
  BY <1>1, AtType DEF LinkInv, ClientInv, Numbers, CurrentKept, Kept, Held
<1>3. InUse = {c}
  <2>1. \A t \in Threads : Alive(t) \/ Held(t) => t = c
    BY <1>1, UIsApart DEF LinkInv, ClientInv, Numbers, OwnThread, Held
  <2> QED
    BY <1>1, <1>2, <2>1 DEF InUse
<1>4. LinkState \in {"on", "ending"}
  BY <1>1, <1>3 DEF LinkState
<1>5. UNCHANGED seen
  BY WindowUnseen DEF LinkInv, ClientInv, TypeOK
<1> QED
  BY <1>3, <1>4, <1>5 DEF Links!Next, Links!Ask, seen

-----------------------------------------------------------------------------
(* Every step                                                              *)

LEMMA LinkReceive ==
  ASSUME LinkInv, NEW k \in Threads,
         Start(k) \/ Select(k) \/ Receive(k) \/ EndRun(k) \/ AppendOutput(k) \/ MarkEnd(k)
  PROVE  OneAlive' /\ [Links!Next]_(Links!vars)
<1>1. /\ UNCHANGED <<IsConnected, CurrentSocket, fd, asked>>
      /\ \E from \in {"start", "select", "recv", "append", "mark"} :
         \E to \in {"select", "recv", "append", "mark", "flag"} : Go(k, from, to)
  BY DEF Start, Select, Receive, EndRun, AppendOutput, MarkEnd, conn, net
<1>2. PcOK /\ QuietSetUp /\ OwnThread /\ OneAlive /\ k \in Actors
  BY DEF LinkInv, ClientInv, TypeOK, Numbers, Actors
<1>3. UNCHANGED seen
  BY <1>1, <1>2, ThreadUnseen
<1> QED
  BY <1>1, <1>2, <1>3, OneAliveActor, Unseen

LEMMA LinkDisconnect ==
  ASSUME LinkInv, NEW a \in Actors, DisconnectStep(a)
  PROVE  OneAlive' /\ [Links!Next]_(Links!vars)
<1> USE DEF conn, net
<1>1. PcOK /\ QuietSetUp /\ OwnThread /\ OneAlive
  BY DEF LinkInv, ClientInv, TypeOK, Numbers
<1>2. CASE Unflag(a)
  <2>1. Go(a, "flag", "unend")
    BY <1>2 DEF Unflag
  <2> QED
    BY <1>1, <1>2, <2>1, OneAliveActor, UnflagIsDrop
<1>3. CASE Unend(a) \/ (Shutdown(a) /\ Go(a, "shut", "close"))
  <2>1. /\ UNCHANGED <<IsConnected, CurrentSocket, fd, asked>>
        /\ Go(a, "unend", "shut") \/ Go(a, "shut", "close")
    BY <1>3 DEF Unend, Shutdown
  <2>2. OneAlive'
    BY <1>1, <2>1, OneAliveActor
  <2>3. UNCHANGED seen
    <3>1. CASE a = UI
      BY <1>1, <2>1, <3>1, WindowUnseen
    <3>2. CASE a \in Threads
      BY <1>1, <2>1, <3>2, ThreadUnseen
    <3> QED
      BY <3>1, <3>2 DEF Actors
  <2> QED
    BY <2>1, <2>2, <2>3, Unseen
<1>4. CASE (Shutdown(a) /\ Go(a, "shut", Back(a))) \/ Close(a)
  <2>1. UNCHANGED <<IsConnected, CurrentSocket, asked>>
    BY <1>4 DEF Shutdown, Close
  <2>2. Go(a, "shut", Back(a)) \/ Go(a, "close", Back(a))
    BY <1>4 DEF Close
  <2>3. At(CurrentSocket)' \in {At(CurrentSocket), None}
    <3>1. CASE Close(a)
      BY <3>1 DEF Close, At
    <3>2. CASE Shutdown(a)
      BY <3>2 DEF Shutdown, At
    <3> QED
      BY <1>4, <3>1, <3>2
  <2>4. OneAlive'
    BY <1>1, <2>2, OneAliveActor
  <2>5. CASE a = UI
    BY <2>1, <2>2, <2>3, <2>4, <2>5, LeftIsFinish DEF Back
  <2>6. CASE a \in Threads
    BY <2>1, <2>2, <2>3, <2>4, <2>6, DoneIsFinish, UIsApart DEF Back
  <2> QED
    BY <2>5, <2>6 DEF Actors
<1> QED
  BY <1>2, <1>3, <1>4 DEF DisconnectStep, Shutdown

\* What leaves the threads, the flag and the number alone.
LEMMA LinkElse ==
  ASSUME LinkInv, UNCHANGED <<pc, IsConnected, CurrentSocket, fd, asked>>
  PROVE  OneAlive' /\ [Links!Next]_(Links!vars)
<1>1. OneAlive'
  BY DEF LinkInv, OneAlive, Alive
<1> QED
  BY <1>1, SeenStays, Unseen

\* What the window does outside TCPClient.
LEMMA LinkWindow ==
  ASSUME LinkInv, NEW from, NEW to, Go(UI, from, to),
         from \notin {"connect", "unend", "shut", "close"},
         to \notin {"connect", "unend", "shut", "close"},
         UNCHANGED <<IsConnected, CurrentSocket, fd, asked>>
  PROVE  OneAlive' /\ [Links!Next]_(Links!vars)
<1>1. PcOK /\ OneAlive
  BY DEF LinkInv, ClientInv, TypeOK
<1> QED
  BY <1>1, OneAliveWindow, WindowUnseen, Unseen

LEMMA LinkSend ==
  ASSUME LinkInv, NEW from \in {"write", "cancel"}, SendMessage(from)
  PROVE  OneAlive' /\ [Links!Next]_(Links!vars)
<1> USE DEF conn, net
<1>1. CASE Die
  BY <1>1, LinkElse DEF Die
<1>2. CASE CanSend /\ from = "write" /\ Go(UI, from, "idle")
           /\ asked' = asked \cup {At(CurrentSocket)} /\ UNCHANGED <<IsConnected, CurrentSocket, fd>>
  BY <1>2, SendIsAsk, OneAliveWindow DEF LinkInv, ClientInv, TypeOK
<1>3. CASE /\ UNCHANGED <<IsConnected, CurrentSocket, fd, asked>>
           /\ \E to \in {"idle", "disconnect"} : Go(UI, from, to)
  BY <1>3, LinkWindow
<1> QED
  BY <1>1, <1>2, <1>3 DEF SendMessage

LEMMA LinkConnect ==
  ASSUME PromptEnd, LinkInv,
         (\E k \in Threads : Connect(k) \/ Connected(k) \/ Unserved(k)) \/ Refused \/ SocketFails
  PROVE  OneAlive' /\ [Links!Next]_(Links!vars)
<1>1. ASSUME NEW k \in Threads, Connect(k) PROVE OneAlive' /\ Links!Next
  <2>1. Go(UI, "idle", "connect")
    BY <1>1 DEF Connect
  <2> QED
    BY <1>1, <2>1, ConnectIsOpen, OneAliveWindow DEF LinkInv, ClientInv, TypeOK
<1>2. ASSUME NEW k \in Threads, NEW thread \in {"start", "void"}, Establish(k, thread)
      PROVE  OneAlive' /\ Links!Next
  BY <1>2, ConnectedIsEstablish, OneAliveConnected DEF LinkInv, ClientInv
<1>3. CASE Refused
  <2>1. Go(UI, "connect", "look")
    BY <1>3 DEF Refused
  <2> QED
    BY <1>3, <2>1, RefusedIsFail, OneAliveWindow DEF LinkInv, ClientInv, TypeOK
<1>4. CASE SocketFails
  <2>1. Go(UI, "idle", "look")
    BY <1>4 DEF SocketFails
  <2>2. OneAlive'
    BY <2>1, OneAliveWindow DEF LinkInv, ClientInv, TypeOK
  <2> QED
    BY <1>4, <2>2, SocketFailsUnseen, Unseen
<1> QED
  BY <1>1, <1>2, <1>3, <1>4 DEF Connected, Unserved

LEMMA LinkHandlers ==
  ASSUME PromptEnd, LinkInv, HandlerStep \/ Timer \/ User
  PROVE  OneAlive' /\ [Links!Next]_(Links!vars)
<1> USE DEF conn, net
<1>1. CASE (\E k \in Threads : Connect(k) \/ Connected(k) \/ Unserved(k)) \/ Refused
           \/ SocketFails
  BY <1>1, LinkConnect
<1>2. CASE DisconnectStep(UI)
  BY <1>2, LinkDisconnect DEF Actors
<1>3. CASE Die
  BY <1>3, LinkElse DEF Die
<1>4. CASE /\ UNCHANGED <<IsConnected, CurrentSocket, fd, asked>>
           /\ \E from, to \in WindowPC \ {"connect", "unend", "shut", "close"} : Go(UI, from, to)
  BY <1>4, LinkWindow
<1>a. \A place \in {"idle", "judge", "clear", "clearEnd", "unend0", "send", "write", "cancel",
                   "disconnect", "bye", "flag", "leave", "look"} :
        place \in WindowPC \ {"connect", "unend", "shut", "close"}
  BY DEF WindowPC, DisconnectPC
<1>5. CASE ConnectClick \/ SendCommand \/ CancelCommand
  BY <1>4, <1>5, <1>a DEF ConnectClick, SendCommand, CancelCommand
<1>6. CASE CloseApplication \/ KeyDown \/ KeyUp
  BY <1>3, <1>4, <1>6, <1>a DEF CloseApplication, KeyDown, KeyUp
<1>7. CASE Disconnect \/ Leave \/ LookUpFails \/ CheckMessages \/ Judge
  BY <1>4, <1>7, <1>a DEF Disconnect, Leave, LookUpFails, CheckMessages, Judge
<1>8. CASE Bye
  BY <1>3, <1>4, <1>8, <1>a DEF Bye
<1>9. CASE Look
  BY <1>4, <1>9, <1>a DEF Look
<1>10. CASE ShowOutput \/ ShowLastOutput \/ SetTransmissionEnd \/ TypeCommand
  BY <1>4, <1>10, <1>a
  DEF ShowOutput, ShowLastOutput, SetTransmissionEnd, TypeCommand, ClearServerOutput
<1>11. CASE SendMessage("write") \/ SendMessage("cancel")
  BY <1>11, LinkSend
<1> QED
  BY <1>1, <1>2, <1>5, <1>6, <1>7, <1>8, <1>9, <1>10, <1>11 DEF HandlerStep, Timer, User

LEMMA LinkNext ==
  PromptEnd /\ LinkInv /\ [Next]_vars => OneAlive' /\ [Links!Next]_(Links!vars)
<1> SUFFICES ASSUME PromptEnd, LinkInv, [Next]_vars
             PROVE  OneAlive' /\ [Links!Next]_(Links!vars)
  OBVIOUS
<1>1. CASE Network \/ OutputRace \/ Rest \/ UNCHANGED vars
  BY <1>1, LinkElse
  DEF Network, Deliver, PeerClose, PeerReset, OutputRace, Die, Rest, vars, conn, net
<1>2. ASSUME NEW k \in Threads, ThreadStep(k)
      PROVE  OneAlive' /\ [Links!Next]_(Links!vars)
  BY <1>2, LinkReceive, LinkDisconnect DEF ThreadStep, Actors
<1> QED
  BY <1>1, <1>2, LinkHandlers DEF Next

LEMMA LinkInit == Init => OneAlive /\ Links!Init
<1> SUFFICES ASSUME Init PROVE OneAlive /\ Links!Init
  OBVIOUS
<1>1. pc[UI] = "idle" /\ ~IsConnected /\ asked = {} /\ \A k \in Threads : pc[k] = "none"
  BY UIsApart DEF Init, Actors
<1>2. InUse = {} /\ Made = {}
  BY <1>1 DEF InUse, Made, Alive, Held
<1>3. LinkState = "off"
  BY <1>1, <1>2 DEF LinkState
<1> QED
  BY <1>1, <1>2, <1>3 DEF OneAlive, Alive, Links!Init

\* The window and the receive threads, with all their flags and no lock, keep one
\* connection at a time: it is dropped before it is over, over before the next
\* is opened, and gets every command that is sent while it is in use.
THEOREM Implements == PromptEnd => (Spec => ImplementsLink)
<1> SUFFICES ASSUME PromptEnd PROVE Spec => ImplementsLink
  OBVIOUS
<1>1. Init => LinkInv /\ Links!Init
  BY InvInit, LinkInit DEF LinkInv
<1>2. LinkInv /\ [Next]_vars => LinkInv' /\ [Links!Next]_(Links!vars)
  BY InvNext, LinkNext DEF LinkInv
<1> QED
  BY <1>1, <1>2, PTL DEF Spec, ImplementsLink, Links!Spec
=============================================================================
