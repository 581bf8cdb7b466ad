---------------------------- MODULE WireProperties ----------------------------
(* What the messages of module Wire come to. *)
EXTENDS Wire

\* Whoever waits for the end of a command before the next never has two
\* messages taken for one by the server, unless a cancel is still on its way:
\* the end code keeps messages apart that nothing delimits.
MessagesApart ==
  Patient /\ whole /\ connected /\ (\A n \in DOMAIN up : up[n].kind # "cancel")
  => \A m, n \in DOMAIN up : up[m].id = up[n].id

\* ... and nothing the server sends arrives while the client drops what it
\* receives.
NothingDropped == Patient /\ whole /\ transmissionEnd => down = << >>

\* When such a command is over, all the server said has been shown, and every
\* command asked for was run or its failure told, if no packet and no look cut
\* a message in two.  What came between the window's copy and its clearing is
\* lost, and nothing else.
AllShown ==
  Patient /\ whole /\ connected /\ ~waiting => shown \cup late = said /\ ran \cup failed = asked

\* The conversation as the user of module Dialogue sees it.
Promised == whole /\ connected
Kept(S) == IF Promised THEN S ELSE {}

Talking == INSTANCE Dialogue WITH
  Ids <- 1 .. MaxSends,
  state <- IF ~Promised THEN "lost" ELSE IF waiting THEN "busy" ELSE "free",
  asked <- Kept(asked), ran <- Kept(ran), failed <- Kept(failed),
  said <- Kept(said), shown <- Kept(shown), missed <- Kept(late)

\* Streams that are cut anywhere still make up the dialogue of a user who
\* waits: each command is run or its failure told, its texts come after that
\* and before it is over, and it is over when all of them were shown but those
\* that a look of the window missed.
ImplementsDialogue == Talking!Spec

\* A window that no end code will reach: the end came between its copy and its
\* clearing, or between the two writes of the receive thread.
Wedged == transmissionEnd /\ serverOutput = << >> /\ handler = "idle"

\* When the console has reported the end of a command the window learns of it,
\* unless the end is cut in two or the window is wedged.
EndArrives ==
  Patient /\ connected /\ waiting /\ console = "end"
    ~> ~connected \/ ~waiting \/ ~whole \/ Wedged
-----------------------------------------------------------------------------
(* The inductive invariant                                                 *)

\* What is on its way back, or not shown yet, was said.
Spoken ==
  /\ IsFiniteSet(said) /\ asked \subseteq 1 .. sends
  /\ Texts(down) \subseteq said /\ Texts(serverOutput) \subseteq said
  /\ Texts(sPacket) \subseteq said

\* A stream of whole messages: each first piece has its second behind it.
Halves(p, q) == p.part = 1 /\ q.part = 2 /\ p.kind = q.kind /\ p.id = q.id
Aligned(s) ==
  \A n \in 1 .. Len(s) :
    IF s[n].part = 1 THEN n < Len(s) /\ Halves(s[n], s[n + 1])
    ELSE n > 1 /\ Halves(s[n - 1], s[n])

\* A part of an answer: texts, and an end code with nothing behind it.
Ended(s) == \E n \in 1 .. Len(s) : s[n].kind = "end"
Answering(s) ==
  /\ Aligned(s)
  /\ \A n \in 1 .. Len(s) : s[n].kind = "text" \/ (s[n].kind = "end" /\ n >= Len(s) - 1)

\* The console thread has sent all it sends.
Quiet == console \in {"off", "clear", "free"}

\* Nothing of an answer has been sent, or nothing is left.
Silent == serverOutput = << >> /\ down = << >> /\ ~transmissionEnd /\ receiver = "recv" /\ Quiet

\* A cancel that came too late for its command may still be under way.
LateCancels == {<< >>} \cup {Message("cancel", i) : i \in (1 .. sends) \ asked}
Late(s) == s \in LateCancels

\* Either a command is on its way, and nothing else but such a cancel, or it
\* has been received, and then it was run, or failed, or was dropped for good.
Answered == ran \cup failed = asked
OnItsWay ==
  /\ \E s \in LateCancels, kind \in {"command", "cd"}, id \in asked \ (ran \cup failed) :
       up = s \o Message(kind, id) /\ asked = ran \cup failed \cup {id}
  /\ waiting /\ progress = "asked" /\ Silent
Received ==
  /\ Late(up)
  /\ Answered \/ (waiting /\ progress = "asked" /\ Silent)
  /\ waiting /\ progress # "cancelled" => up = << >>

\* The answer: each of the three places it passes holds a part of one.
Places ==
  /\ Answering(serverOutput) /\ Answering(down) /\ Answering(sPacket)
  /\ sPacket = << >> <=> receiver = "recv"

\* Its end comes last, and stays until the window has judged it.
InHand == receiver # "recv" /\ Ended(sPacket)
Ends ==
  /\ Ended(serverOutput) => transmissionEnd \/ (receiver = "mark" /\ Ended(sPacket))
  /\ transmissionEnd \/ InHand => down = << >> /\ Quiet /\ (waiting \/ handler = "unset")
  /\ receiver # "recv" => ~transmissionEnd
  /\ Ended(down) => Quiet /\ waiting

\* The window between its copy and its clearing, and after the end.
Looking ==
  /\ Copied => serverOutput # << >> /\ waiting /\ Texts(serverOutput) \subseteq shown \cup late
  /\ handler = "clearEnd" => transmissionEnd
  /\ handler = "unset" => ~waiting /\ transmissionEnd
  /\ ~Quiet => waiting
  /\ ~waiting =>
       /\ serverOutput = << >> /\ down = << >> /\ receiver = "recv"
       /\ transmissionEnd => handler = "unset"

\* Where the texts are.
Texted ==
  said = shown \cup late \cup Texts(serverOutput) \cup Texts(down)
         \cup (IF receiver = "append" THEN Texts(sPacket) ELSE {})

Talk == (OnItsWay \/ Received) /\ Places /\ Ends /\ Looking /\ Texted

Conversation == Patient /\ whole /\ connected => Talk

\* A client that is not connected drops nothing any more.
Parted == Patient /\ whole /\ ~connected => ~transmissionEnd /\ receiver = "recv"

WireInv == TypeOK /\ Spoken /\ Conversation /\ Parted
=============================================================================
