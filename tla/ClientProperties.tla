--------------------------- MODULE ClientProperties ---------------------------
(* What the window and the receive threads of module Client guarantee.     *)
EXTENDS Client

\* The threads in run() that have not yet begun, or not yet finished, to reset
\* the flags in Disconnect.
Receiving(k) == pc[k] \in {"start", "select", "recv", "append", "mark", "flag"}
Ending(k) == pc[k] \in DisconnectPC

\* A connection whose receive thread could not be created has nobody to listen.
Deaf(c) == c # None /\ pc[c] = "void"

\* IsConnected is never TRUE without a thread that receives on the current
\* socket, and that would take it back, but for a connection whose thread was
\* never created: every other way to be left connected to a server nobody
\* listens to is excluded.
ReceiverServes ==
  IsConnected =>
    \/ \E k \in Threads : Receiving(k) /\ (At(CurrentSocket) = k \/ pc[k] = "flag")
    \/ Deaf(At(CurrentSocket))

\* TransmissionEnd, which silences the window and the receiver, does not
\* outlive its connection: the thread that set it is still to reset it.
EndPasses ==
  TransmissionEnd => \E k \in Threads : Receiving(k) \/ pc[k] = "unend"

\* A number is kept only by a connection in use, or by one that was reset:
\* shutdown() fails then and the number is never closed.  A connection without
\* a thread is in use until the window disconnects.
NumbersBack ==
  \A n \in Fds : fd[n] # None =>
    \/ sock[fd[n]] = "reset"
    \/ /\ n = CurrentSocket
       /\ \/ pc[UI] \notin {"idle", "look"} \/ Receiving(fd[n]) \/ Ending(fd[n])
          \/ Deaf(fd[n]) /\ IsConnected

\* Whatever keys are pressed between commands, the index stays where keyPressEvent
\* may use it, once there is a command.
HistoryInBounds == commands > 0 => commandIndex \in -1 .. commands - 1

\* Behind ReceiverServes: a socket is set up when no thread is left, and
\* whoever is past Unflag has made IsConnected FALSE for good.
QuietSetUp ==
  pc[UI] = "connect" => ~IsConnected /\ Quiet
Unflagged == (\E a \in Actors : pc[a] \in {"unend", "shut", "close"}) => ~IsConnected

\* Behind NumbersBack: what the numbers refer to.  A thread that is alive is
\* the one of the current number, or that has been closed.
Alive(k) == pc[k] \notin {"none", "done", "void"}
OwnThread == \A k \in Threads : Alive(k) => At(CurrentSocket) \in {k, None}

\* While it is set up the current number has a new socket without a thread.
SetUp ==
  pc[UI] = "connect" =>
    /\ At(CurrentSocket) # None
    /\ sock[At(CurrentSocket)] = "new" /\ pc[At(CurrentSocket)] = "none"

\* From then on until it is closed somebody is on the way to close it, or the
\* connection was reset.
Kept(k) ==
  \/ sock[k] = "reset"
  \/ sock[k] \in {"open", "peer"} /\ Alive(k) /\ pc[k] # "close"
  \/ sock[k] \in {"open", "peer"} /\ Deaf(k) /\ (IsConnected \/ pc[UI] \in {"unend", "shut"})
  \/ sock[k] = "shut" /\ "close" \in {pc[UI], pc[k]}
CurrentKept ==
  At(CurrentSocket) # None /\ pc[UI] # "connect" =>
    pc[At(CurrentSocket)] # "none" /\ Kept(At(CurrentSocket))

\* What other numbers refer to was reset.
OthersReset ==
  \A n \in Fds : fd[n] # None /\ n # CurrentSocket =>
    sock[fd[n]] = "reset" /\ pc[fd[n]] # "none"

\* The window is in Disconnect on a connection without a thread: nobody else
\* has made IsConnected FALSE.
DeafUntilUnflag == pc[UI] \in {"bye", "flag"} /\ Deaf(At(CurrentSocket)) => IsConnected

Numbers == OwnThread /\ SetUp /\ CurrentKept /\ OthersReset /\ DeafUntilUnflag

\* The inductive invariant of the proofs.
ClientInv ==
  /\ TypeOK /\ QuietSetUp /\ Unflagged /\ Numbers
  /\ ReceiverServes /\ EndPasses /\ HistoryInBounds

\* The connection as module Link sees it: that of the receive thread, the one
\* that is being set up, or the one without a thread, as long as the window
\* keeps it.
Held(k) ==
  /\ Deaf(k) /\ At(CurrentSocket) = k
  /\ IsConnected \/ pc[UI] \in {"unend", "shut", "close"}
InUse ==
  {k \in Threads : Alive(k) \/ Held(k) \/ (pc[UI] = "connect" /\ At(CurrentSocket) = k)}
LinkState ==
  IF pc[UI] = "connect" THEN "opening"
  ELSE IF IsConnected THEN "on" ELSE IF InUse = {} THEN "off" ELSE "ending"
Made == {k \in Threads : pc[k] # "none"}

Links == INSTANCE Link WITH
  Conns <- Threads, state <- LinkState, inUse <- InUse, made <- Made

\* Two threads that connect, send and disconnect without a lock still have one
\* connection at a time between them, and no command goes astray.
ImplementsLink == Links!Spec

\* A window that shows "Connected!" on a connection that ended changes, in the
\* end, whatever the user does: CheckMessages notices.  A connection without a
\* receive thread has nobody to tell it.
WindowFollows ==
  \A k \in Threads :
    (At(CurrentSocket) = k /\ sock[k] \in {"peer", "reset"} /\ ~Deaf(k))
    ~> (lblStatus # "Connected!" \/ ~up)

-----------------------------------------------------------------------------
(* What the change log says, and the code does not do                      *)

\* "a user to send follow-up commands in response to a previous command"
\* (changelog.md:11): after the end code the window accepts commands again.
Responsive == TransmissionEnd ~> (~TransmissionEnd \/ ~up)
=============================================================================
