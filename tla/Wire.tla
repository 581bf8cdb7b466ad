--------------------------------- MODULE Wire ---------------------------------
(***************************************************************************)
(* What becomes of messages on one connection: send() and recv() on both   *)
(* sides, DecryptString, and the texts and the end code in CheckMessages,  *)
(* in both main.cpp, client.cpp, frmmain.cpp and crypto.cpp.               *)
(*                                                                         *)
(* TCP carries bytes.  Neither side delimits what it sends to be read, so  *)
(* recv() may return a part of a message, or several, or both.  A text of  *)
(* the server ends with "|", its end code "EOT" with nothing.  The client  *)
(* drops what it receives while TransmissionEnd is set, and the window     *)
(* clears what it has shown, or is about to make obsolete.                 *)
(*                                                                         *)
(* Abstractions.  A message is two pieces, which recv() may separate, and  *)
(* fits a packet.  A command prints at most MaxOutput texts.  The receive  *)
(* thread and the window's timer, which share ServerOutput without a lock, *)
(* take one step for each access; the server's threads are in Console, and *)
(* here they take one for each message and each flag taken back.           *)
(***************************************************************************)
EXTENDS Naturals, FiniteSets, SequencesExt

CONSTANTS
  MaxSends,    \* bound on the messages of the client
  MaxOutput,   \* bound on the texts that commands print, all together
  Patient      \* TRUE: the user waits for the end of a command before the next
               \* message, and cancels it at most once, having seen its prompt

ASSUME WireAssumption == MaxSends \in Nat /\ MaxOutput \in Nat /\ Patient \in BOOLEAN

VARIABLES
  up, down,        \* bytes on the way to the server, to the client
  session,         \* the server's client thread: "recv", "join", "over"
  exitCode,        \* of the slot: 1 when a cancel has arrived
  console,         \* what the console thread does next; "off": pipeActive is
                   \* FALSE
  receiver,        \* what the receive thread does next
  sPacket,         \* what it has received and not dealt with
  handler,         \* what the timer's handler does next, "idle" between calls
  serverOutput, transmissionEnd,   \* of TCPConn
  connected,       \* IsConnected of the client
  waiting,         \* btnCancel is enabled: a command is under way
  sends, prints,   \* how many messages, how many texts of commands
  asked, ran,      \* history: commands sent, and run as they were sent
  failed,          \* history: commands answered by a failed pthread_create()
  said, shown,     \* history: texts the server sent, texts shown
  late,            \* history: texts that came while the window was between its
                   \* copy of serverOutput and the clearing
  progress,        \* of the last command: "asked", "seen", "cancelled"
  whole            \* history: no packet cut or joined what it should not have

wire == <<up, down>>
server == <<session, exitCode, console, prints>>
receiving == <<receiver, sPacket>>
window == <<serverOutput, transmissionEnd, connected, waiting>>
outcome == <<asked, ran, failed>>
history == <<outcome, said, shown, late, progress, whole>>
vars == <<wire, server, receiving, handler, window, sends, history>>

Kinds == {"command", "cd", "cancel", "close", "text", "end"}
Piece == [kind : Kinds, id : Nat, part : {1, 2}]
Message(kind, id) == <<[kind |-> kind, id |-> id, part |-> 1], [kind |-> kind, id |-> id, part |-> 2]>>

Streams ==
  /\ up \in Seq(Piece) /\ down \in Seq(Piece)
  /\ serverOutput \in Seq(Piece) /\ sPacket \in Seq(Piece)

TypeOK ==
  /\ Streams
  /\ session \in {"recv", "join", "over"} /\ exitCode \in {0, 1}
  /\ console \in {"off", "prompt", "output", "report", "end", "clear", "free"}
  /\ receiver \in {"recv", "append", "mark"}
  /\ handler \in {"idle", "judge", "clear", "clearEnd", "unset"}
  /\ transmissionEnd \in BOOLEAN /\ connected \in BOOLEAN /\ waiting \in BOOLEAN
  /\ sends \in 0 .. MaxSends /\ prints \in 0 .. MaxOutput
  /\ ran \subseteq asked /\ failed \subseteq asked /\ asked \subseteq 1 .. MaxSends
  /\ shown \subseteq said /\ late \subseteq said /\ said \subseteq Nat
  /\ progress \in {"asked", "seen", "cancelled"}
  /\ whole \in BOOLEAN

Init ==
  /\ up = << >> /\ down = << >>
  /\ session = "recv" /\ exitCode = 0 /\ console = "off" /\ prints = 0
  /\ receiver = "recv" /\ sPacket = << >> /\ handler = "idle"
  /\ serverOutput = << >> /\ transmissionEnd = FALSE
  /\ connected = TRUE /\ waiting = FALSE
  /\ sends = 0 /\ asked = {} /\ ran = {} /\ failed = {}
  /\ said = {} /\ shown = {} /\ late = {}
  /\ progress = "asked" /\ whole = TRUE

-----------------------------------------------------------------------------
(* The window sends                                                        *)

\* The user and the timer share a thread: nothing is clicked while CheckMessages
\* is under way.
Send(kind) ==
  /\ connected /\ handler = "idle" /\ sends < MaxSends /\ sends' = sends + 1
  /\ up' = up \o Message(kind, sends')
  /\ UNCHANGED <<down, server, receiving, handler, ran, failed, said, shown, late, whole>>

\* SendCommand.  A user may type on while a command runs: input for it.
SendCommand(kind) ==
  /\ kind \in {"command", "cd"} /\ ~transmissionEnd
  /\ Send(kind)
  /\ serverOutput' = << >> /\ waiting' = TRUE
  /\ asked' = asked \cup {sends'}
  /\ Patient => ~waiting
  /\ progress' = "asked"
  /\ UNCHANGED <<transmissionEnd, connected>>

\* CancelCommand, more than once if the user clicks again.
CancelCommand ==
  /\ waiting /\ ~transmissionEnd
  /\ Send("cancel")
  /\ Patient => progress = "seen"
  /\ progress' = "cancelled"
  /\ UNCHANGED <<window, asked>>

\* Disconnect tells the server, whatever is under way.
Disconnect ==
  /\ Send("close")
  /\ Patient => ~waiting
  /\ serverOutput' = << >> /\ transmissionEnd' = FALSE /\ connected' = FALSE
  /\ UNCHANGED <<waiting, asked, progress>>

-----------------------------------------------------------------------------
(* The server receives                                                     *)

Packets(stream) == {SubSeq(stream, 1, n) : n \in 1 .. Len(stream)}
Rest(stream, packet) == SubSeq(stream, Len(packet) + 1, Len(stream))
IsMessage(packet) == packet = Message(packet[1].kind, packet[1].id)

\* The kinds of message a packet may be taken for, "none" when it is rejected.
\* DecryptString returns what it has when the check at the end fails: of the
\* beginning of a message its text, of anything else a text that begins with
\* none of the codes (but for a chance of 3 in 256).
DecryptString(packet) ==
  IF IsMessage(packet) THEN {packet[1].kind}
  ELSE IF packet[1].part = 1 THEN {packet[1].kind, "none"}
  ELSE {"none"}

Say(text) == down' = down \o Message("text", text) /\ said' = said \cup {text}
NextText == Cardinality(said) + 1

\* A text and the end code, from the client thread itself.
Answer ==
  /\ down' = down \o Message("text", NextText) \o Message("end", NextText)
  /\ said' = said \cup {NextText}

\* The command a packet is, when it is one as it was sent.
Named(packet) == IF IsMessage(packet) THEN {packet[1].id} \cap asked ELSE {}

\* "cd", and "sudo" for whoever is not root, are answered at once.
ChangeDirectory(kind, packet) ==
  /\ kind = "cd" /\ exitCode = 0
  /\ Answer /\ ran' = ran \cup Named(packet)
  /\ UNCHANGED <<session, exitCode, console, failed>>

\* A command starts the console, unless a pipe() fails, which is not answered,
\* or pthread_create(), which ends the session.
StartConsole(kind, packet) ==
  /\ kind = "command" /\ exitCode = 0 /\ console = "off"
  /\ \/ /\ console' = "prompt" /\ ran' = ran \cup Named(packet)
        /\ UNCHANGED <<session, failed, down, said>>
     \/ UNCHANGED <<session, console, ran, failed, down, said>>
     \/ /\ Answer /\ session' = "over" /\ failed' = failed \cup Named(packet)
        /\ UNCHANGED <<console, ran>>
  /\ UNCHANGED exitCode

\* NewClient, for a packet.  While pipeActive is set a command is input; after
\* a cancel nothing is taken.
Handle(kind, packet) ==
  \/ ChangeDirectory(kind, packet)
  \/ StartConsole(kind, packet)
  \/ /\ kind = "cancel" /\ exitCode' = 1 /\ session' = "join"
     /\ UNCHANGED <<console, down, said, ran, failed>>
  \/ /\ \/ kind = "command" /\ console # "off"
        \/ kind \in {"cd", "command"} /\ exitCode = 1
        \/ (kind = "close" /\ ~IsMessage(packet))
     /\ UNCHANGED <<session, exitCode, console, down, said, ran, failed>>
  \/ /\ kind = "none" \/ (kind = "close" /\ IsMessage(packet))
     /\ session' = "over" /\ UNCHANGED <<exitCode, console, down, said, ran, failed>>

ServerReceive ==
  /\ session = "recv"
  /\ \E packet \in Packets(up), kind \in Kinds \cup {"none"} :
       /\ kind \in DecryptString(packet)
       /\ up' = Rest(up, packet)
       /\ Handle(kind, packet)
       /\ whole' = (whole /\ IsMessage(packet))
  /\ UNCHANGED <<prints, receiving, handler, window, sends, asked, shown, late, progress>>

\* pthread_join returns when the console has ended, or at once.
Joined ==
  /\ session = "join" /\ console = "off" /\ session' = "recv"
  /\ UNCHANGED <<wire, exitCode, console, prints, receiving, handler, window, sends, history>>

\* The console thread: the prompt, what the command prints, "[Process ...
\* killed]" and the end code.
OnlyConsole ==
  UNCHANGED <<up, session, receiving, handler, window, sends, outcome, shown, late, progress, whole>>

SayPrompt ==
  /\ console = "prompt" /\ console' = "output" /\ Say(NextText)
  /\ OnlyConsole /\ UNCHANGED <<exitCode, prints>>

SayOutput ==
  /\ console = "output" /\ prints < MaxOutput /\ prints' = prints + 1 /\ Say(NextText)
  /\ OnlyConsole /\ UNCHANGED <<exitCode, console>>

\* Mutant: the end code before the report.
SayReportLate ==
  /\ console = "output" /\ console' = "end"
  /\ down' = down \o Message("end", NextText) \o Message("text", NextText)
  /\ said' = said \cup {NextText}
  /\ OnlyConsole /\ UNCHANGED <<exitCode, prints>>

SayReport ==
  /\ console = "output" /\ console' = "end" /\ Say(NextText)
  /\ OnlyConsole /\ UNCHANGED <<exitCode, prints>>

\* Mutant: no end code.
SayEndSilent ==
  /\ console = "end" /\ console' = "clear"
  /\ OnlyConsole /\ UNCHANGED <<down, said, exitCode, prints>>

SayEnd ==
  /\ console = "end" /\ console' = "clear"
  /\ down' = down \o Message("end", NextText)
  /\ OnlyConsole /\ UNCHANGED <<said, exitCode, prints>>

\* The flags are taken back one after the other, the answer under way already.
ClearExit ==
  /\ console = "clear" /\ console' = "free" /\ exitCode' = 0
  /\ OnlyConsole /\ UNCHANGED <<down, said, prints>>

ClearActive ==
  /\ console = "free" /\ console' = "off"
  /\ OnlyConsole /\ UNCHANGED <<down, said, exitCode, prints>>

-----------------------------------------------------------------------------
(* The client receives                                                     *)

HasEnd(packet) == \E n \in 1 .. Len(packet) - 1 :
  packet[n].kind = "end" /\ packet[n].part = 1 /\ packet[n + 1].part = 2

\* The texts of which a piece is in a stream.
Texts(s) == {s[n].id : n \in {m \in 1 .. Len(s) : s[m].kind = "text"}}

\* TCPClient::run: recv(), and a look at TransmissionEnd.
Receive ==
  /\ connected /\ receiver = "recv"
  /\ \E packet \in Packets(down) :
       /\ down' = Rest(down, packet)
       /\ whole' = (whole /\ packet[Len(packet)].part = 2 /\ packet[1].part = 1)
       /\ IF transmissionEnd THEN UNCHANGED receiving
          ELSE receiver' = "append" /\ sPacket' = packet
  /\ UNCHANGED <<up, server, handler, window, sends, outcome, said, shown, late, progress>>

\* The window has its copy and is to clear what has come since.
Copied == handler \in {"judge", "clear", "clearEnd"}

\* Mutant: what comes with the end code is not kept.
CollectShort ==
  /\ receiver = "append" /\ receiver' = "mark"
  /\ serverOutput' = IF HasEnd(sPacket) THEN serverOutput ELSE serverOutput \o sPacket
  /\ late' = late \cup (IF Copied THEN Texts(sPacket) ELSE {})
  /\ UNCHANGED <<wire, server, sPacket, handler, transmissionEnd, connected, waiting, sends,
                 outcome, said, shown, progress, whole>>

Collect ==
  /\ receiver = "append" /\ receiver' = "mark"
  /\ serverOutput' = serverOutput \o sPacket
  /\ late' = late \cup (IF Copied THEN Texts(sPacket) ELSE {})
  /\ UNCHANGED <<wire, server, sPacket, handler, transmissionEnd, connected, waiting, sends,
                 outcome, said, shown, progress, whole>>

\* Mutant: any packet is the end.
MarkEager ==
  /\ receiver = "mark" /\ receiver' = "recv" /\ sPacket' = << >>
  /\ transmissionEnd' = TRUE
  /\ UNCHANGED <<wire, server, handler, serverOutput, connected, waiting, sends, history>>

\* The end code counts if it is in one packet.
Mark ==
  /\ receiver = "mark" /\ receiver' = "recv" /\ sPacket' = << >>
  /\ transmissionEnd' = HasEnd(sPacket)
  /\ UNCHANGED <<wire, server, handler, serverOutput, connected, waiting, sends, history>>

\* recv() returns 0 when the server has closed the connection: Disconnect.
ServerGone ==
  /\ connected /\ receiver = "recv" /\ session = "over" /\ down = << >>
  /\ connected' = FALSE /\ transmissionEnd' = FALSE
  /\ UNCHANGED <<wire, server, receiving, handler, serverOutput, waiting, sends, history>>

-----------------------------------------------------------------------------
(* The window's timer, CheckMessages                                       *)

\* The texts whose line, between two "|", has nothing else.
Lines(output) ==
  {output[n].id : n \in {n \in 1 .. Len(output) - 1 :
     /\ IsMessage(SubSeq(output, n, n + 1)) /\ output[n].kind = "text"
     /\ n = 1 \/ (output[n - 1].kind = "text" /\ output[n - 1].part = 2)}}

Looks(from, to) == handler = from /\ handler' = to
OnlyHandler == UNCHANGED <<wire, server, receiving, sends, outcome, said, late, whole>>

\* Every second: a copy of what has come, which is taken to be shown at once.
CheckMessages ==
  /\ connected /\ serverOutput # << >> /\ Looks("idle", "judge")
  /\ shown' = shown \cup Lines(serverOutput)
  /\ progress' = IF progress = "asked" /\ Lines(serverOutput) # {} THEN "seen" ELSE progress
  /\ OnlyHandler /\ UNCHANGED window

\* Mutant: any output ends the command.
JudgeDone ==
  /\ Looks("judge", "clearEnd")
  /\ OnlyHandler /\ UNCHANGED <<window, shown, progress>>

Judge ==
  /\ Looks("judge", IF transmissionEnd THEN "clearEnd" ELSE "clear")
  /\ OnlyHandler /\ UNCHANGED <<window, shown, progress>>

Clear ==
  /\ Looks("clear", "idle") /\ serverOutput' = << >>
  /\ OnlyHandler /\ UNCHANGED <<transmissionEnd, connected, waiting, shown, progress>>

\* Mutant: what was shown stays, to be shown again.
ClearEndNot ==
  /\ Looks("clearEnd", "unset") /\ waiting' = FALSE
  /\ OnlyHandler /\ UNCHANGED <<serverOutput, transmissionEnd, connected, shown, progress>>

ClearEnd ==
  /\ Looks("clearEnd", "unset") /\ serverOutput' = << >> /\ waiting' = FALSE
  /\ OnlyHandler /\ UNCHANGED <<transmissionEnd, connected, shown, progress>>

Unset ==
  /\ Looks("unset", "idle") /\ transmissionEnd' = FALSE
  /\ OnlyHandler /\ UNCHANGED <<serverOutput, connected, waiting, shown, progress>>

-----------------------------------------------------------------------------
(* The specification                                                       *)

UserStep == (\E kind \in {"command", "cd"} : SendCommand(kind)) \/ CancelCommand \/ Disconnect
ConsoleSays == SayPrompt \/ SayOutput \/ SayReport
ConsoleEnds == SayEnd \/ ClearExit \/ ClearActive
ReceiverStep == Receive \/ Collect \/ Mark \/ ServerGone
TimerStep == CheckMessages \/ Judge \/ Clear \/ ClearEnd \/ Unset

Next ==
  \/ UserStep \/ ServerReceive \/ Joined \/ ConsoleSays \/ ConsoleEnds
  \/ ReceiverStep \/ TimerStep

Spec == Init /\ [][Next]_vars

\* The threads of both programs run, and the timer's handler is called.  No
\* command has to print or to end.
FairSpec ==
  Spec /\ WF_vars(ServerReceive) /\ WF_vars(Joined) /\ WF_vars(ConsoleEnds)
       /\ WF_vars(ReceiverStep) /\ WF_vars(TimerStep)
=============================================================================
