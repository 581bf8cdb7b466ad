------------------------------ MODULE WireProofs ------------------------------
(***************************************************************************)
(* Proofs about the messages of one connection, for any number of messages *)
(* and texts and any cut of the streams.                                   *)
(***************************************************************************)
EXTENDS WireProperties, FiniteSetTheorems, SequenceTheorems, TLAPS

-----------------------------------------------------------------------------
(* Streams                                                                 *)

\* The two pieces of a message.
LEMMA MessageIs ==
  ASSUME NEW kind \in Kinds, NEW id \in Nat
  PROVE  /\ Message(kind, id) \in Seq(Piece) /\ Len(Message(kind, id)) = 2
         /\ Message(kind, id)[1].kind = kind /\ Message(kind, id)[2].kind = kind
         /\ Message(kind, id)[1].id = id /\ Message(kind, id)[2].id = id
         /\ Message(kind, id)[1].part = 1 /\ Message(kind, id)[2].part = 2
  BY DEF Message, Piece

\* What recv() returns, and what is left, are the stream.
LEMMA PacketIs ==
  ASSUME NEW s \in Seq(Piece), NEW p \in Packets(s)
  PROVE  /\ p \in Seq(Piece) /\ Len(p) \in 1 .. Len(s) /\ \A i \in 1 .. Len(p) : p[i] = s[i]
         /\ Rest(s, p) \in Seq(Piece) /\ Len(Rest(s, p)) = Len(s) - Len(p)
         /\ \A i \in 1 .. Len(Rest(s, p)) : Rest(s, p)[i] = s[Len(p) + i]
<1>1. PICK n \in 1 .. Len(s) : p = SubSeq(s, 1, n)
  BY DEF Packets
<1>2. Len(s) \in Nat /\ \A i \in 1 .. Len(s) : s[i] \in Piece
  BY ElementOfSeq, LenProperties
<1>3. p \in Seq(Piece) /\ Len(p) = n /\ \A i \in 1 .. n : p[i] = s[i]
  BY <1>1, <1>2, SubSeqProperties
<1>4. \A i \in n + 1 .. Len(s) : s[i] \in Piece
  BY <1>2
<1>5. /\ SubSeq(s, n + 1, Len(s)) \in Seq(Piece)
      /\ Len(SubSeq(s, n + 1, Len(s))) = IF n + 1 <= Len(s) THEN Len(s) - (n + 1) + 1 ELSE 0
      /\ \A i \in 1 .. Len(s) - (n + 1) + 1 : SubSeq(s, n + 1, Len(s))[i] = s[(n + 1) + i - 1]
  BY <1>2, <1>4, SubSeqProperties
<1> QED
  BY <1>2, <1>3, <1>5 DEF Rest

\* Two streams, one after the other.
LEMMA JoinIs ==
  ASSUME NEW s \in Seq(Piece), NEW t \in Seq(Piece)
  PROVE  /\ s \o t \in Seq(Piece) /\ Len(s \o t) = Len(s) + Len(t)
         /\ \A i \in 1 .. Len(s) : (s \o t)[i] = s[i]
         /\ \A i \in 1 .. Len(t) : (s \o t)[Len(s) + i] = t[i]
         /\ \A i \in 1 .. Len(s) + Len(t) :
              i \in 1 .. Len(s) \/ (i - Len(s) \in 1 .. Len(t) /\ i = Len(s) + (i - Len(s)))
  BY ConcatProperties, LenProperties

LEMMA TextsOfEmpty == Texts(<< >>) = {}
  BY EmptySeq DEF Texts

LEMMA TextsOfMessage ==
  ASSUME NEW kind \in Kinds, NEW id \in Nat
  PROVE  Texts(Message(kind, id)) = IF kind = "text" THEN {id} ELSE {}
<1>1. 1 .. 2 = {1, 2}
  OBVIOUS
<1>2. 1 .. Len(Message(kind, id)) = {1, 2}
  BY <1>1, MessageIs
<1>3. Message(kind, id)[1].kind = kind /\ Message(kind, id)[1].id = id
  BY MessageIs
<1>4. Message(kind, id)[2].kind = kind /\ Message(kind, id)[2].id = id
  BY MessageIs
<1> QED
  BY <1>2, <1>3, <1>4 DEF Texts

LEMMA TextsOfJoin ==
  ASSUME NEW s \in Seq(Piece), NEW t \in Seq(Piece)
  PROVE  Texts(s \o t) = Texts(s) \cup Texts(t)
<1>1. Texts(s \o t) \subseteq Texts(s) \cup Texts(t)
  BY JoinIs DEF Texts
<1>2. \A i \in 1 .. Len(s) : i \in 1 .. Len(s \o t)
  BY JoinIs, LenProperties
<1>3. \A i \in 1 .. Len(t) : Len(s) + i \in 1 .. Len(s \o t)
  BY JoinIs, LenProperties
<1>4. Texts(s) \subseteq Texts(s \o t)
  BY <1>2, JoinIs DEF Texts
<1>5. Texts(t) \subseteq Texts(s \o t)
  BY <1>3, JoinIs DEF Texts
<1> QED
  BY <1>1, <1>4, <1>5

LEMMA TextsOfPacket ==
  ASSUME NEW s \in Seq(Piece), NEW p \in Packets(s)
  PROVE  Texts(s) = Texts(p) \cup Texts(Rest(s, p))
<1>0. /\ Len(s) \in Nat /\ Len(p) \in Nat /\ Len(p) <= Len(s)
      /\ Len(Rest(s, p)) = Len(s) - Len(p)
  BY PacketIs, LenProperties
<1>1. \A i \in 1 .. Len(s) : i \in 1 .. Len(p) \/ i - Len(p) \in 1 .. Len(Rest(s, p))
  BY <1>0
<1>2. \A i \in 1 .. Len(Rest(s, p)) : Len(p) + i \in 1 .. Len(s)
  BY <1>0
<1>3. \A i \in 1 .. Len(p) : i \in 1 .. Len(s)
  BY <1>0
<1>4. ASSUME NEW i \in 1 .. Len(s), s[i].kind = "text"
      PROVE  s[i].id \in Texts(p) \cup Texts(Rest(s, p))
  <2>1. CASE i \in 1 .. Len(p)
    BY <1>4, <2>1, PacketIs DEF Texts
  <2>2. CASE i - Len(p) \in 1 .. Len(Rest(s, p))
    <3>1. Rest(s, p)[i - Len(p)] = s[i]
      <4>1. Len(p) + (i - Len(p)) = i
        BY <1>0
      <4> QED
        BY <2>2, <4>1, PacketIs
    <3> QED
      BY <1>4, <2>2, <3>1 DEF Texts
  <2> QED
    BY <1>1, <2>1, <2>2
<1>5. Texts(p) \subseteq Texts(s)
  BY <1>3, PacketIs DEF Texts
<1>6. Texts(Rest(s, p)) \subseteq Texts(s)
  BY <1>2, PacketIs DEF Texts
<1>7. Texts(s) \subseteq Texts(p) \cup Texts(Rest(s, p))
  BY <1>4 DEF Texts
<1> QED
  BY <1>5, <1>6, <1>7

LEMMA LinesAreTexts ==
  ASSUME NEW s \in Seq(Piece)
  PROVE  Lines(s) \subseteq Texts(s)
<1>1. \A n \in 1 .. Len(s) - 1 : n \in 1 .. Len(s)
  BY LenProperties
<1> QED
  BY <1>1 DEF Lines, Texts

-----------------------------------------------------------------------------
(* What holds of every conversation                                        *)

LEMMA KindsAre ==
  Kinds = {"command", "cd", "cancel", "close", "text", "end"}
  BY DEF Kinds

LEMMA InitSpoken == Init => TypeOK /\ Spoken
<1> SUFFICES ASSUME Init PROVE TypeOK /\ Spoken
  OBVIOUS
<1>0. << >> \in Seq(Piece) /\ 0 \in 0 .. MaxSends /\ 0 \in 0 .. MaxOutput
  BY WireAssumption, EmptySeq DEF WireAssumption
<1>1. TypeOK
  BY <1>0 DEF Init, TypeOK, Streams
<1>2. Spoken
  BY TextsOfEmpty, FS_EmptySet DEF Init, Spoken
<1> QED
  BY <1>1, <1>2

\* The number of the next text, and what saying it does.
LEMMA NextIsNat == TypeOK /\ Spoken => NextText \in Nat
  BY FS_CardinalityType DEF NextText, Spoken

LEMMA Saying ==
  ASSUME TypeOK, Spoken, NEW t \in Seq(Piece), NEW n \in Nat,
         Texts(t) \subseteq {n}, down' = down \o t, said' = said \cup {n}
  PROVE  /\ down' \in Seq(Piece) /\ said' \subseteq Nat /\ IsFiniteSet(said')
         /\ said \subseteq said' /\ Texts(down') \subseteq said'
<1>1. down \in Seq(Piece) /\ said \subseteq Nat
  BY DEF TypeOK, Streams
<1>2. IsFiniteSet(said')
  BY FS_AddElement DEF Spoken
<1> QED
  BY <1>1, <1>2, JoinIs, TextsOfJoin DEF Spoken

\* What the steps of each thread leave alone, one variable at a time.
LEMMA Alone ==
  /\ OnlyConsole => UNCHANGED <<up, session, receiver, sPacket, handler, serverOutput, transmissionEnd,
                               connected, waiting, sends, asked, ran, failed, shown, late, progress, whole>>
  /\ OnlyHandler => UNCHANGED <<up, down, session, exitCode, console, prints, receiver, sPacket, sends,
                               asked, ran, failed, said, late, whole>>
  BY DEF OnlyConsole, OnlyHandler, wire, server, receiving, window, outcome

LEMMA SendLeaves ==
  ASSUME NEW kind, Send(kind)
  PROVE  UNCHANGED <<down, session, exitCode, console, prints, receiver, sPacket, handler,
                     ran, failed, said, shown, late, whole>>
  BY DEF Send, server, receiving

LEMMA SendSpoken ==
  ASSUME TypeOK, Spoken, NEW kind \in Kinds, Send(kind)
  PROVE  /\ connected /\ sends' = sends + 1 /\ sends' \in 0 .. MaxSends /\ sends' \notin asked
         /\ up' = up \o Message(kind, sends') /\ up' \in Seq(Piece)
         /\ asked \subseteq 1 .. sends'
<1>1. sends' = sends + 1 /\ sends' \in 0 .. MaxSends /\ sends' \in Nat
  BY WireAssumption DEF Send, TypeOK, Streams, WireAssumption
<1>2. up' \in Seq(Piece)
  BY <1>1, MessageIs, JoinIs DEF Send, TypeOK, Streams
<1> QED
  BY <1>1, <1>2 DEF Send, TypeOK, Streams, Spoken

\* A text and the end code go behind what was said before.
LEMMA AnswerIs ==
  ASSUME TypeOK, Spoken, Answer
  PROVE  \E t, e \in Seq(Piece) :
           /\ t = Message("text", NextText) /\ e = Message("end", NextText)
           /\ t \o e \in Seq(Piece) /\ Texts(t \o e) = {NextText} /\ NextText \in Nat
           /\ down' = down \o (t \o e) /\ said' = said \cup {NextText}
<1> DEFINE t == Message("text", NextText)
           e == Message("end", NextText)
<1>1. NextText \in Nat /\ "text" \in Kinds /\ "end" \in Kinds
  BY NextIsNat, KindsAre
<1>2. t \in Seq(Piece) /\ e \in Seq(Piece) /\ Texts(t) = {NextText} /\ Texts(e) = {}
  BY <1>1, MessageIs, TextsOfMessage
<1>3. down' = (down \o t) \o e /\ said' = said \cup {NextText} /\ down \in Seq(Piece)
  BY DEF Answer, TypeOK, Streams
<1> HIDE DEF t, e
<1>4. t \o e \in Seq(Piece) /\ Texts(t \o e) = {NextText}
  BY <1>2, JoinIs, TextsOfJoin
<1>5. (down \o t) \o e = down \o (t \o e)
  BY <1>2, <1>3, ConcatAssociative
<1> QED
  BY <1>1, <1>2, <1>3, <1>4, <1>5 DEF t, e

LEMMA AnswerSpoken ==
  ASSUME TypeOK, Spoken, Answer
  PROVE  /\ down' \in Seq(Piece) /\ said' \subseteq Nat /\ IsFiniteSet(said')
         /\ said \subseteq said' /\ Texts(down') \subseteq said'
<1>1. PICK t \in Seq(Piece), e \in Seq(Piece) :
        /\ t \o e \in Seq(Piece) /\ Texts(t \o e) = {NextText} /\ NextText \in Nat
        /\ down' = down \o (t \o e) /\ said' = said \cup {NextText}
  BY AnswerIs
<1> DEFINE a == t \o e
           n == NextText
<1>2. a \in Seq(Piece) /\ n \in Nat /\ Texts(a) \subseteq {n} /\ down' = down \o a /\ said' = said \cup {n}
  BY <1>1
<1> HIDE DEF a, n
<1> QED
  BY <1>2, Saying

\* What the server does with a packet.
LEMMA HandleSpoken ==
  ASSUME TypeOK, Spoken, NEW kind, NEW packet, Handle(kind, packet)
  PROVE  /\ down' \in Seq(Piece) /\ said' \subseteq Nat /\ IsFiniteSet(said')
         /\ said \subseteq said' /\ Texts(down') \subseteq said'
         /\ ran' \subseteq asked /\ failed' \subseteq asked
         /\ session' \in {"recv", "join", "over"} /\ exitCode' \in {0, 1}
         /\ console' \in {"off", "prompt", "output", "report", "end", "clear", "free"}
<1>1. Named(packet) \subseteq asked
  BY DEF Named
<1>2. CASE ChangeDirectory(kind, packet)
  BY <1>1, <1>2, AnswerSpoken DEF ChangeDirectory, TypeOK, Streams
<1>3. CASE StartConsole(kind, packet)
  <2>1. CASE Answer /\ session' = "over" /\ failed' = failed \cup Named(packet) /\ UNCHANGED <<console, ran>>
    BY <1>1, <1>3, <2>1, AnswerSpoken DEF StartConsole, TypeOK, Streams
  <2>2. CASE UNCHANGED <<session, failed, down, said>> /\ ran' \subseteq ran \cup Named(packet) /\ console' \in {console, "prompt"}
    BY <1>1, <1>3, <2>2 DEF StartConsole, TypeOK, Streams, Spoken
  <2> QED
    BY <1>3, <2>1, <2>2 DEF StartConsole
<1>4. CASE UNCHANGED <<console, down, said, ran, failed>> /\ session' \in {session, "join", "over"} /\ exitCode' \in {exitCode, 1}
  BY <1>4 DEF TypeOK, Streams, Spoken
<1> QED
  BY <1>2, <1>3, <1>4 DEF Handle

\* The console says a text.
LEMMA SaySpoken ==
  ASSUME TypeOK, Spoken, Say(NextText), console' \in {"output", "end"}, prints' \in 0 .. MaxOutput,
         OnlyConsole, UNCHANGED exitCode
  PROVE  TypeOK' /\ Spoken'
<1>1. NextText \in Nat /\ "text" \in Kinds
  BY NextIsNat, KindsAre
<1>2. Message("text", NextText) \in Seq(Piece) /\ Texts(Message("text", NextText)) \subseteq {NextText}
  BY <1>1, MessageIs, TextsOfMessage
<1>3. /\ down' \in Seq(Piece) /\ said' \subseteq Nat /\ IsFiniteSet(said')
      /\ said \subseteq said' /\ Texts(down') \subseteq said'
  BY <1>1, <1>2, Saying DEF Say
<1>4. UNCHANGED <<up, session, exitCode, receiver, sPacket, handler, serverOutput, transmissionEnd,
                  connected, waiting, sends, asked, ran, failed, shown, late, progress, whole>>
  BY Alone
<1>5. Spoken'
  BY <1>3, <1>4 DEF Spoken
<1>6. Streams'
  BY <1>3, <1>4 DEF TypeOK, Streams
<1>7. TypeOK'
  BY <1>3, <1>4, <1>6 DEF TypeOK
<1> QED
  BY <1>5, <1>7

\* The end code goes behind what was said before.
LEMMA EndIs ==
  ASSUME TypeOK, Spoken, SayEnd
  PROVE  \E e \in Seq(Piece) :
           /\ e = Message("end", NextText) /\ down' = down \o e
           /\ down' \in Seq(Piece) /\ Texts(down') = Texts(down)
<1> DEFINE e == Message("end", NextText)
<1>1. NextText \in Nat /\ "end" \in Kinds
  BY NextIsNat, KindsAre
<1>2. e \in Seq(Piece) /\ Texts(e) = {}
  BY <1>1, MessageIs, TextsOfMessage
<1>3. down \in Seq(Piece) /\ down' = down \o e
  BY DEF SayEnd, TypeOK, Streams
<1> HIDE DEF e
<1>4. down \o e \in Seq(Piece) /\ Texts(down \o e) = Texts(down) \cup Texts(e)
  BY <1>2, <1>3, JoinIs, TextsOfJoin
<1>5. down' \in Seq(Piece) /\ Texts(down') = Texts(down)
  BY <1>2, <1>3, <1>4
<1> QED
  BY <1>2, <1>3, <1>5 DEF e

LEMMA SpokenNext == TypeOK /\ Spoken /\ [Next]_vars => (TypeOK /\ Spoken)'
<1> SUFFICES ASSUME TypeOK, Spoken, [Next]_vars PROVE TypeOK' /\ Spoken'
  OBVIOUS
<1>1. ASSUME NEW kind \in {"command", "cd"}, SendCommand(kind) PROVE TypeOK' /\ Spoken'
  <2>1. Send(kind) /\ kind \in Kinds
    BY <1>1, KindsAre DEF SendCommand
  <2>2. sends' \in 1 .. sends' /\ sends' \in 1 .. MaxSends
    BY <2>1, SendSpoken, WireAssumption DEF TypeOK, WireAssumption
  <2>3. /\ sends' \in 0 .. MaxSends /\ up' \in Seq(Piece)
        /\ serverOutput' \in Seq(Piece) /\ Texts(serverOutput') = {}
        /\ asked' = asked \cup {sends'} /\ asked' \subseteq 1 .. sends'
        /\ waiting' \in BOOLEAN /\ progress' = "asked"
    BY <1>1, <2>1, <2>2, SendSpoken, TextsOfEmpty, EmptySeq DEF SendCommand
  <2>4. UNCHANGED <<down, session, exitCode, console, prints, receiver, sPacket, handler,
                    transmissionEnd, connected, ran, failed, said, shown, late, whole>>
    BY <1>1, <2>1, SendLeaves DEF SendCommand
  <2>5. Spoken'
    BY <2>3, <2>4 DEF Spoken
  <2>6. Streams'
    BY <2>3, <2>4 DEF TypeOK, Streams
  <2>7. TypeOK'
    BY <2>2, <2>3, <2>4, <2>6 DEF TypeOK
  <2> QED
    BY <2>5, <2>7
<1>2. CASE CancelCommand
  <2>1. Send("cancel") /\ "cancel" \in Kinds
    BY <1>2, KindsAre DEF CancelCommand
  <2>2. /\ sends' \in 0 .. MaxSends /\ up' \in Seq(Piece) /\ asked \subseteq 1 .. sends'
        /\ progress' = "cancelled"
    BY <1>2, <2>1, SendSpoken DEF CancelCommand
  <2>3. UNCHANGED <<down, session, exitCode, console, prints, receiver, sPacket, handler, serverOutput,
                    transmissionEnd, connected, waiting, asked, ran, failed, said, shown, late, whole>>
    BY <1>2, <2>1, SendLeaves DEF CancelCommand, window
  <2>4. Spoken'
    BY <2>2, <2>3 DEF Spoken
  <2>5. Streams'
    BY <2>2, <2>3 DEF TypeOK, Streams
  <2>6. TypeOK'
    BY <2>2, <2>3, <2>5 DEF TypeOK
  <2> QED
    BY <2>4, <2>6
<1>3. CASE Disconnect
  <2>1. Send("close") /\ "close" \in Kinds
    BY <1>3, KindsAre DEF Disconnect
  <2>2. /\ sends' \in 0 .. MaxSends /\ up' \in Seq(Piece) /\ asked \subseteq 1 .. sends'
        /\ serverOutput' \in Seq(Piece) /\ Texts(serverOutput') = {}
        /\ transmissionEnd' \in BOOLEAN /\ connected' \in BOOLEAN
    BY <1>3, <2>1, SendSpoken, TextsOfEmpty, EmptySeq DEF Disconnect
  <2>3. UNCHANGED <<down, session, exitCode, console, prints, receiver, sPacket, handler,
                    waiting, asked, ran, failed, said, shown, late, progress, whole>>
    BY <1>3, <2>1, SendLeaves DEF Disconnect
  <2>4. Spoken'
    BY <2>2, <2>3 DEF Spoken
  <2>5. Streams'
    BY <2>2, <2>3 DEF TypeOK, Streams
  <2>6. TypeOK'
    BY <2>2, <2>3, <2>5 DEF TypeOK
  <2> QED
    BY <2>4, <2>6
<1>4. CASE ServerReceive
  <2>1. PICK packet \in Packets(up), kind \in Kinds \cup {"none"} :
          up' = Rest(up, packet) /\ Handle(kind, packet) /\ whole' = (whole /\ IsMessage(packet))
    BY <1>4 DEF ServerReceive
  <2>2. up' \in Seq(Piece) /\ whole' \in BOOLEAN
    BY <2>1, PacketIs DEF TypeOK, Streams
  <2>3. /\ down' \in Seq(Piece) /\ said' \subseteq Nat /\ IsFiniteSet(said')
        /\ said \subseteq said' /\ Texts(down') \subseteq said'
        /\ ran' \subseteq asked /\ failed' \subseteq asked
        /\ session' \in {"recv", "join", "over"} /\ exitCode' \in {0, 1}
        /\ console' \in {"off", "prompt", "output", "report", "end", "clear", "free"}
    BY <2>1, HandleSpoken
  <2>4. Streams'
    BY <1>4, <2>2, <2>3 DEF ServerReceive, receiving, window, TypeOK, Streams
  <2>5. Spoken'
    BY <1>4, <2>2, <2>3 DEF ServerReceive, receiving, window, Spoken
  <2>6. TypeOK'
    BY <1>4, <2>2, <2>3, <2>4 DEF ServerReceive, receiving, window, TypeOK
  <2> QED
    BY <2>5, <2>6
<1>5. CASE Joined
  <2>1. Streams'
    BY <1>5 DEF Joined, wire, receiving, window, outcome, history, TypeOK, Streams
  <2>2. Spoken'
    BY <1>5 DEF Joined, wire, receiving, window, outcome, history, Spoken
  <2>3. TypeOK'
    BY <1>5, <2>1 DEF Joined, wire, receiving, window, outcome, history, TypeOK
  <2> QED
    BY <2>2, <2>3
<1>6. CASE SayPrompt
  BY <1>6, SaySpoken DEF SayPrompt, TypeOK, Streams
<1>7. CASE SayOutput
  <2>1. prints' \in 0 .. MaxOutput
    BY <1>7, WireAssumption DEF SayOutput, TypeOK, Streams, WireAssumption
  <2> QED
    BY <1>7, <2>1, SaySpoken DEF SayOutput, TypeOK, Streams
<1>8. CASE SayReport
  BY <1>8, SaySpoken DEF SayReport, TypeOK, Streams
<1>9. CASE SayEnd
  <2>1. down' \in Seq(Piece) /\ Texts(down') = Texts(down)
    BY <1>9, EndIs
  <2>2. Spoken'
    BY <1>9, <2>1, Alone DEF SayEnd, Spoken
  <2>3. Streams'
    BY <1>9, <2>1, Alone DEF SayEnd, TypeOK, Streams
  <2>4. TypeOK'
    BY <1>9, <2>1, Alone, <2>3 DEF SayEnd, TypeOK
  <2> QED
    BY <2>2, <2>4
<1>10. CASE ClearExit \/ ClearActive
  <2>1. exitCode' \in {0, 1} /\ console' \in {"free", "off"}
    BY <1>10 DEF ClearExit, ClearActive, TypeOK, Streams
  <2>2. UNCHANGED <<up, down, session, prints, receiver, sPacket, handler, serverOutput, transmissionEnd,
                    connected, waiting, sends, asked, ran, failed, said, shown, late, progress, whole>>
    BY <1>10, Alone DEF ClearExit, ClearActive
  <2>3. Spoken'
    BY <2>2 DEF Spoken
  <2>4. Streams'
    BY <2>1, <2>2 DEF TypeOK, Streams
  <2>5. TypeOK'
    BY <2>1, <2>2, <2>4 DEF TypeOK
  <2> QED
    BY <2>3, <2>5
<1>11. CASE Receive
  <2>1. PICK packet \in Packets(down) :
          /\ down' = Rest(down, packet)
          /\ whole' = (whole /\ packet[Len(packet)].part = 2 /\ packet[1].part = 1)
          /\ IF transmissionEnd THEN UNCHANGED receiving
             ELSE receiver' = "append" /\ sPacket' = packet
    BY <1>11 DEF Receive
  <2>2. /\ packet \in Seq(Piece) /\ down' \in Seq(Piece)
        /\ Texts(packet) \subseteq Texts(down) /\ Texts(down') \subseteq Texts(down)
    BY <2>1, PacketIs, TextsOfPacket DEF TypeOK, Streams
  <2>3. /\ sPacket' \in Seq(Piece) /\ receiver' \in {"recv", "append", "mark"}
        /\ Texts(sPacket') \subseteq said /\ whole' \in BOOLEAN
    BY <2>1, <2>2 DEF receiving, TypeOK, Streams, Spoken
  <2>4. Streams'
    BY <1>11, <2>2, <2>3 DEF Receive, server, window, outcome, TypeOK, Streams
  <2>5. Spoken'
    BY <1>11, <2>2, <2>3 DEF Receive, server, window, outcome, Spoken
  <2>6. TypeOK'
    BY <1>11, <2>2, <2>3, <2>4 DEF Receive, server, window, outcome, TypeOK
  <2> QED
    BY <2>5, <2>6
<1>12. CASE Collect
  <2>1. serverOutput \in Seq(Piece) /\ sPacket \in Seq(Piece) /\ serverOutput' = serverOutput \o sPacket
    BY <1>12 DEF Collect, TypeOK, Streams
  <2>2. serverOutput' \in Seq(Piece) /\ Texts(serverOutput') = Texts(serverOutput) \cup Texts(sPacket)
    BY <2>1, JoinIs, TextsOfJoin
  <2>3. late' \subseteq said
    BY <1>12 DEF Collect, TypeOK, Streams, Spoken
  <2>4. Streams'
    BY <1>12, <2>2, <2>3 DEF Collect, wire, server, outcome, TypeOK, Streams
  <2>5. Spoken'
    BY <1>12, <2>2, <2>3 DEF Collect, wire, server, outcome, Spoken
  <2>6. TypeOK'
    BY <1>12, <2>2, <2>3, <2>4 DEF Collect, wire, server, outcome, TypeOK
  <2> QED
    BY <2>5, <2>6
<1>13. CASE Mark
  <2>1. transmissionEnd' \in BOOLEAN
    BY <1>13 DEF Mark, HasEnd
  <2>2. Streams'
    BY <1>13, <2>1, TextsOfEmpty, EmptySeq DEF Mark, wire, server, outcome, history, TypeOK, Streams
  <2>3. Spoken'
    BY <1>13, <2>1, TextsOfEmpty, EmptySeq DEF Mark, wire, server, outcome, history, Spoken
  <2>4. TypeOK'
    BY <1>13, <2>1, <2>2 DEF Mark, wire, server, outcome, history, TypeOK
  <2> QED
    BY <2>3, <2>4
<1>14. CASE ServerGone
  <2>1. Streams'
    BY <1>14 DEF ServerGone, wire, server, receiving, outcome, history, TypeOK, Streams
  <2>2. Spoken'
    BY <1>14 DEF ServerGone, wire, server, receiving, outcome, history, Spoken
  <2>3. TypeOK'
    BY <1>14, <2>1 DEF ServerGone, wire, server, receiving, outcome, history, TypeOK
  <2> QED
    BY <2>2, <2>3
<1>15. CASE CheckMessages
  <2>1. Lines(serverOutput) \subseteq said
    BY LinesAreTexts DEF TypeOK, Streams, Spoken
  <2>2. Streams'
    BY <1>15, <2>1, Alone DEF CheckMessages, Looks, window, TypeOK, Streams
  <2>3. Spoken'
    BY <1>15, <2>1, Alone DEF CheckMessages, Looks, window, Spoken
  <2>4. TypeOK'
    BY <1>15, <2>1, Alone, <2>2 DEF CheckMessages, Looks, window, TypeOK
  <2> QED
    BY <2>3, <2>4
<1>16. CASE Judge \/ Clear \/ ClearEnd \/ Unset
  <2>1. Spoken'
    BY <1>16, Alone, TextsOfEmpty, EmptySeq DEF Judge, Clear, ClearEnd, Unset, Looks, window, Spoken
  <2>2. Streams'
    BY <1>16, Alone, TextsOfEmpty, EmptySeq DEF Judge, Clear, ClearEnd, Unset, Looks, window, TypeOK, Streams
  <2>3. TypeOK'
    BY <1>16, Alone, TextsOfEmpty, EmptySeq, <2>2 DEF Judge, Clear, ClearEnd, Unset, Looks, window, TypeOK
  <2> QED
    BY <2>1, <2>3
<1>17. CASE UNCHANGED vars
  <2>1. Streams'
    BY <1>17 DEF vars, wire, server, receiving, window, outcome, history, TypeOK, Streams
  <2>2. Spoken'
    BY <1>17 DEF vars, wire, server, receiving, window, outcome, history, Spoken
  <2>3. TypeOK'
    BY <1>17, <2>1 DEF vars, wire, server, receiving, window, outcome, history, TypeOK
  <2> QED
    BY <2>2, <2>3
<1> QED
  BY <1>1, <1>2, <1>3, <1>4, <1>5, <1>6, <1>7, <1>8, <1>9, <1>10, <1>11, <1>12, <1>13, <1>14, <1>15,
     <1>16, <1>17
  DEF Next, UserStep, ConsoleSays, ConsoleEnds, ReceiverStep, TimerStep

\* The texts on their way, and those that wait to be shown, are what was said.
LEMMA AlwaysSpoken == Spec => [](TypeOK /\ Spoken)
  BY InitSpoken, SpokenNext, PTL DEF Spec

\* Every variable of a conversation keeps its type, whatever recv() cuts, and
\* what is shown was said (CheckMessages, frmmain.cpp 338).
THEOREM TypeCorrect == Spec => []TypeOK
  BY AlwaysSpoken, PTL

-----------------------------------------------------------------------------
(* Answers                                                                 *)

LEMMA AnswerEmpty == Answering(<< >>) /\ ~Ended(<< >>)
  BY EmptySeq DEF Answering, Aligned, Ended

LEMMA AnswerMessage ==
  ASSUME NEW kind \in {"text", "end"}, NEW id \in Nat
  PROVE  Answering(Message(kind, id)) /\ (Ended(Message(kind, id)) <=> kind = "end")
<1> DEFINE m == Message(kind, id)
<1>1. /\ Len(m) = 2 /\ m[1].part = 1 /\ m[2].part = 2
      /\ m[1].kind = kind /\ m[2].kind = kind /\ m[1].id = id /\ m[2].id = id
  BY MessageIs, KindsAre
<1>2. \A n \in 1 .. 2 : n = 1 \/ n = 2
  OBVIOUS
<1> HIDE DEF m
<1>3. Aligned(m)
  BY <1>1, <1>2 DEF Aligned, Halves
<1>4. Answering(m)
  BY <1>1, <1>2, <1>3 DEF Answering
<1>5. Ended(m) <=> kind = "end"
  BY <1>1, <1>2 DEF Ended
<1> QED
  BY <1>4, <1>5 DEF m

\* What is said goes behind what was said before.
LEMMA AlignedJoin ==
  ASSUME NEW s \in Seq(Piece), NEW t \in Seq(Piece), Aligned(s), Aligned(t)
  PROVE  Aligned(s \o t)
<1> DEFINE u == s \o t
<1>1. /\ Len(s) \in Nat /\ Len(t) \in Nat /\ Len(u) = Len(s) + Len(t)
      /\ \A i \in 1 .. Len(s) : u[i] = s[i]
      /\ \A i \in 1 .. Len(t) : u[Len(s) + i] = t[i]
  BY JoinIs, LenProperties
<1> HIDE DEF u
<1> SUFFICES ASSUME NEW n \in 1 .. Len(u)
             PROVE  IF u[n].part = 1 THEN n < Len(u) /\ Halves(u[n], u[n + 1])
                    ELSE n > 1 /\ Halves(u[n - 1], u[n])
  BY DEF Aligned, u
<1>2. CASE n \in 1 .. Len(s)
  <2>1. IF s[n].part = 1 THEN n < Len(s) /\ Halves(s[n], s[n + 1])
        ELSE n > 1 /\ Halves(s[n - 1], s[n])
    BY <1>2 DEF Aligned
  <2>3. (n < Len(s) => n + 1 \in 1 .. Len(s)) /\ (n > 1 => n - 1 \in 1 .. Len(s))
    BY <1>1, <1>2
  <2>2. u[n] = s[n] /\ (n < Len(s) => u[n + 1] = s[n + 1]) /\ (n > 1 => u[n - 1] = s[n - 1])
    BY <1>1, <1>2, <2>3
  <2> QED
    BY <1>1, <1>2, <2>1, <2>2
<1>3. CASE n - Len(s) \in 1 .. Len(t)
  <2> DEFINE k == n - Len(s)
  <2>1. IF t[k].part = 1 THEN k < Len(t) /\ Halves(t[k], t[k + 1])
        ELSE k > 1 /\ Halves(t[k - 1], t[k])
    BY <1>3 DEF Aligned
  <2>2. n = Len(s) + k /\ n + 1 = Len(s) + (k + 1) /\ n - 1 = Len(s) + (k - 1) /\ k \in 1 .. Len(t)
    BY <1>1, <1>3
  <2>5. (k < Len(t) => k + 1 \in 1 .. Len(t)) /\ (k > 1 => k - 1 \in 1 .. Len(t))
    BY <1>1, <2>2
  <2> HIDE DEF k
  <2>3. u[n] = t[k] /\ (k < Len(t) => u[n + 1] = t[k + 1]) /\ (k > 1 => u[n - 1] = t[k - 1])
    BY <1>1, <2>2, <2>5
  <2>4. (k < Len(t) => n < Len(u)) /\ (k > 1 => n > 1)
    BY <1>1, <2>2
  <2> QED
    BY <2>1, <2>3, <2>4
<1> QED
  BY <1>1, <1>2, <1>3

LEMMA AnswerJoin ==
  ASSUME NEW s \in Seq(Piece), NEW t \in Seq(Piece), Answering(s), ~Ended(s), Answering(t)
  PROVE  Answering(s \o t) /\ (Ended(s \o t) <=> Ended(t))
<1> DEFINE u == s \o t
<1>1. /\ Len(s) \in Nat /\ Len(t) \in Nat /\ Len(u) = Len(s) + Len(t)
      /\ \A i \in 1 .. Len(s) : u[i] = s[i]
      /\ \A i \in 1 .. Len(t) : u[Len(s) + i] = t[i]
  BY JoinIs, LenProperties
<1>2. Aligned(u)
  BY AlignedJoin DEF Answering
<1> HIDE DEF u
<1>3. \A n \in 1 .. Len(s) : u[n].kind = "text"
  BY <1>1 DEF Answering, Ended
<1>4. ASSUME NEW n \in 1 .. Len(u)
      PROVE  n \in 1 .. Len(s) \/ (n - Len(s) \in 1 .. Len(t) /\ u[n] = t[n - Len(s)])
  <2>1. CASE n > Len(s)
    <3>1. n - Len(s) \in 1 .. Len(t) /\ Len(s) + (n - Len(s)) = n
      BY <1>1, <2>1
    <3> QED
      BY <1>1, <3>1
  <2> QED
    BY <1>1, <2>1
<1>5. ASSUME NEW n \in 1 .. Len(u)
      PROVE  u[n].kind = "text" \/ (u[n].kind = "end" /\ n >= Len(u) - 1)
  <2>1. CASE n - Len(s) \in 1 .. Len(t) /\ u[n] = t[n - Len(s)]
    <3>1. u[n].kind = "text" \/ (u[n].kind = "end" /\ n - Len(s) >= Len(t) - 1)
      BY <2>1 DEF Answering
    <3> QED
      BY <1>1, <3>1
  <2> QED
    BY <1>3, <1>4, <2>1
<1>6. Answering(u)
  BY <1>2, <1>5 DEF Answering
<1>7. Ended(u) => Ended(t)
  BY <1>3, <1>4 DEF Ended
<1>8. ASSUME NEW n \in 1 .. Len(t), t[n].kind = "end"
      PROVE  Ended(u)
  <2>1. Len(s) + n \in 1 .. Len(u) /\ u[Len(s) + n] = t[n]
    BY <1>1
  <2> QED
    BY <1>8, <2>1 DEF Ended
<1> QED
  BY <1>6, <1>7, <1>8 DEF u, Ended

\* The end code of an answer is found wherever it is whole.
LEMMA EndFound ==
  ASSUME NEW p \in Seq(Piece), Answering(p)
  PROVE  HasEnd(p) <=> Ended(p)
<1>1. Len(p) \in Nat
  BY LenProperties
<1>2. \A n \in 1 .. Len(p) : IF p[n].part = 1 THEN n < Len(p) /\ Halves(p[n], p[n + 1])
                             ELSE n > 1 /\ Halves(p[n - 1], p[n])
  BY DEF Answering, Aligned
<1>3. ASSUME NEW n \in 1 .. Len(p), p[n].kind = "end"
      PROVE  HasEnd(p)
  <2>1. CASE p[n].part = 1
    <3>1. n \in 1 .. Len(p) - 1 /\ Halves(p[n], p[n + 1])
      BY <1>1, <1>2, <2>1
    <3> QED
      BY <1>3, <2>1, <3>1 DEF HasEnd, Halves
  <2>2. CASE p[n].part # 1
    <3>1. n - 1 \in 1 .. Len(p) - 1 /\ Halves(p[n - 1], p[n]) /\ (n - 1) + 1 = n
      BY <1>1, <1>2, <2>2
    <3> QED
      BY <1>3, <3>1 DEF HasEnd, Halves
  <2> QED
    BY <2>1, <2>2
<1>4. HasEnd(p) => Ended(p)
  BY <1>1 DEF HasEnd, Ended
<1> QED
  BY <1>3, <1>4 DEF Ended

\* A packet that ends with a whole message is a part of the answer; the end
\* code is found in it, and has nothing behind it.
LEMMA AnswerPacket ==
  ASSUME NEW s \in Seq(Piece), NEW p \in Packets(s), Answering(s), p[Len(p)].part = 2
  PROVE  /\ Answering(p) /\ Answering(Rest(s, p))
         /\ HasEnd(p) <=> Ended(p)
         /\ Ended(p) => Rest(s, p) = << >>
         /\ Ended(Rest(s, p)) => Ended(s)
         /\ Ended(p) => Ended(s)
<1> DEFINE r == Rest(s, p)
<1>1. /\ p \in Seq(Piece) /\ r \in Seq(Piece) /\ Len(s) \in Nat /\ Len(p) \in 1 .. Len(s)
      /\ Len(r) = Len(s) - Len(p)
      /\ \A i \in 1 .. Len(p) : p[i] = s[i]
      /\ \A i \in 1 .. Len(r) : r[i] = s[Len(p) + i]
  BY PacketIs, LenProperties
<1> HIDE DEF r
<1>2. /\ \A n \in 1 .. Len(s) : IF s[n].part = 1 THEN n < Len(s) /\ Halves(s[n], s[n + 1])
                                ELSE n > 1 /\ Halves(s[n - 1], s[n])
      /\ \A n \in 1 .. Len(s) : s[n].kind = "text" \/ (s[n].kind = "end" /\ n >= Len(s) - 1)
  BY DEF Answering, Aligned
<1>3. ASSUME NEW n \in 1 .. Len(p)
      PROVE  /\ IF p[n].part = 1 THEN n < Len(p) /\ Halves(p[n], p[n + 1])
                ELSE n > 1 /\ Halves(p[n - 1], p[n])
             /\ p[n].kind = "text" \/ (p[n].kind = "end" /\ n >= Len(p) - 1)
  <2>1. n \in 1 .. Len(s) /\ p[n] = s[n] /\ (n < Len(p) => p[n + 1] = s[n + 1])
        /\ (n > 1 => p[n - 1] = s[n - 1])
    <3>1. /\ n \in 1 .. Len(s)
          /\ n < Len(p) => n + 1 \in 1 .. Len(p)
          /\ n > 1 => n - 1 \in 1 .. Len(p)
      BY <1>1
    <3> QED
      BY <1>1, <3>1
  <2>2. p[n].part = 1 => n < Len(p)
    BY <1>1
  <2> QED
    BY <1>1, <1>2, <2>1, <2>2
<1>4. ASSUME NEW n \in 1 .. Len(r)
      PROVE  /\ IF r[n].part = 1 THEN n < Len(r) /\ Halves(r[n], r[n + 1])
                ELSE n > 1 /\ Halves(r[n - 1], r[n])
             /\ r[n].kind = "text" \/ (r[n].kind = "end" /\ n >= Len(r) - 1)
  <2> DEFINE k == Len(p) + n
  <2>1. /\ k \in 1 .. Len(s) /\ r[n] = s[k] /\ (n < Len(r) <=> k < Len(s))
        /\ (n < Len(r) => r[n + 1] = s[k + 1]) /\ (n > 1 => r[n - 1] = s[k - 1])
        /\ (n >= Len(r) - 1 <=> k >= Len(s) - 1) /\ k > 1
    <3>0. /\ Len(s) \in Nat /\ Len(p) \in 1 .. Len(s)
          /\ Len(r) = Len(s) - Len(p) /\ n \in 1 .. Len(r)
      BY <1>1
    <3>1. /\ n < Len(r) => n + 1 \in 1 .. Len(r) /\ Len(p) + (n + 1) = k + 1
          /\ n > 1 => n - 1 \in 1 .. Len(r) /\ Len(p) + (n - 1) = k - 1
          /\ n \in 1 .. Len(r) /\ k = Len(p) + n
      BY <3>0
    <3>2. /\ k \in 1 .. Len(s) /\ (n < Len(r) <=> k < Len(s))
          /\ (n >= Len(r) - 1 <=> k >= Len(s) - 1) /\ k > 1
      BY <3>0
    <3> HIDE DEF k
    <3>3. r[n] = s[k]
      BY <1>1, <3>1
    <3>4. n < Len(r) => r[n + 1] = s[k + 1]
      BY <1>1, <3>1
    <3>5. n > 1 => r[n - 1] = s[k - 1]
      BY <1>1, <3>1
    <3> QED
      BY <3>2, <3>3, <3>4, <3>5
  <2>2. ASSUME n = 1 PROVE r[n].part = 1
    <3>1. k - 1 = Len(p) /\ s[k - 1].part = 2
      BY <1>1, <2>2
    <3> QED
      BY <1>2, <2>1, <3>1 DEF Halves
  <2> HIDE DEF k
  <2> QED
    BY <1>1, <1>2, <2>1, <2>2
<1>5. Answering(p) /\ Answering(r)
  BY <1>3, <1>4 DEF Answering, Aligned
<1>6. HasEnd(p) <=> Ended(p)
  BY <1>1, <1>5, EndFound
<1>8. ASSUME HasEnd(p) PROVE r = << >>
  <2>1. PICK n \in 1 .. Len(p) - 1 : p[n].kind = "end" /\ p[n].part = 1
    BY <1>8 DEF HasEnd
  <2>0. n \in 1 .. Len(p) /\ n \in 1 .. Len(s) /\ n < Len(p)
    BY <1>1
  <2>2. s[n].kind = "end"
    BY <1>1, <2>0, <2>1
  <2>3. n >= Len(s) - 1
    BY <1>2, <2>0, <2>2
  <2>4. Len(r) = 0
    BY <1>1, <2>0, <2>3
  <2> QED
    BY <1>1, <2>4, EmptySeq
<1>9. ASSUME NEW n \in 1 .. Len(r), r[n].kind = "end"
      PROVE  Ended(s)
  <2>1. Len(p) + n \in 1 .. Len(s) /\ r[n] = s[Len(p) + n]
    BY <1>1
  <2> QED
    BY <1>9, <2>1 DEF Ended
<1>10. Ended(p) => Ended(s)
  BY <1>1 DEF Ended
<1> QED
  BY <1>5, <1>6, <1>8, <1>9, <1>10 DEF Ended, r

\* In a part of an answer every text has a line of its own.
LEMMA AnswerLines ==
  ASSUME NEW s \in Seq(Piece), Answering(s)
  PROVE  Lines(s) = Texts(s)
<1>1. /\ Len(s) \in Nat
      /\ \A n \in 1 .. Len(s) : IF s[n].part = 1 THEN n < Len(s) /\ Halves(s[n], s[n + 1])
                                ELSE n > 1 /\ Halves(s[n - 1], s[n])
      /\ \A n \in 1 .. Len(s) : s[n].kind = "text" \/ (s[n].kind = "end" /\ n >= Len(s) - 1)
  BY LenProperties DEF Answering, Aligned
<1>2. ASSUME NEW n \in 1 .. Len(s), s[n].kind = "text", s[n].part = 1
      PROVE  s[n].id \in Lines(s)
  <2>1. n \in 1 .. Len(s) - 1 /\ Halves(s[n], s[n + 1])
    BY <1>1, <1>2
  <2>2. IsMessage(SubSeq(s, n, n + 1))
    <3> DEFINE m == SubSeq(s, n, n + 1)
    <3>1. \A i \in n .. n + 1 : s[i] \in Piece
      BY <1>1, <2>1, ElementOfSeq
    <3>2. n \in Int /\ n + 1 \in Int /\ n <= n + 1 /\ (n + 1) - n + 1 = 2
      BY <1>1
    <3>3. /\ m \in Seq(Piece) /\ Len(m) = 2
          /\ \A i \in 1 .. 2 : m[i] = s[n + i - 1]
      BY <3>1, <3>2, SubSeqProperties
    <3>4. m[1] = s[n] /\ m[2] = s[n + 1] /\ s[n] \in Piece /\ s[n + 1] \in Piece
      BY <1>1, <2>1, <3>1, <3>3
    <3> HIDE DEF m
    <3>5. m[1] = [kind |-> m[1].kind, id |-> m[1].id, part |-> 1]
          /\ m[2] = [kind |-> m[1].kind, id |-> m[1].id, part |-> 2]
      BY <2>1, <3>4 DEF Halves, Piece
    <3>6. m = << m[1], m[2] >>
      BY <3>3
    <3>7. m = Message(m[1].kind, m[1].id)
      BY <3>5, <3>6 DEF Message
    <3> QED
      BY <3>7 DEF IsMessage, m
  <2>3. n = 1 \/ (s[n - 1].kind = "text" /\ s[n - 1].part = 2)
    <3>1. ASSUME n # 1 PROVE n - 1 \in 1 .. Len(s) /\ n - 1 < Len(s) - 1 /\ (n - 1) + 1 = n
      BY <1>1, <2>1, <3>1
    <3>2. ASSUME n # 1 PROVE s[n - 1].kind = "text"
      BY <1>1, <3>1, <3>2
    <3>3. ASSUME n # 1 PROVE s[n - 1].part = 2
      BY <1>1, <1>2, <3>1, <3>3 DEF Halves
    <3> QED
      BY <3>2, <3>3
  <2> QED
    BY <1>2, <2>1, <2>2, <2>3 DEF Lines
<1>3. ASSUME NEW n \in 1 .. Len(s), s[n].kind = "text", s[n].part # 1
      PROVE  s[n].id \in Lines(s)
  <2>1. n - 1 \in 1 .. Len(s) /\ Halves(s[n - 1], s[n])
    BY <1>1, <1>3
  <2> QED
    BY <1>2, <1>3, <2>1 DEF Halves
<1>4. Texts(s) \subseteq Lines(s)
  BY <1>2, <1>3 DEF Texts
<1> QED
  BY <1>4, LinesAreTexts

-----------------------------------------------------------------------------
(* A user who waits, and packets that keep messages whole                  *)

\* The server takes the first message there is for what it is.
LEMMA FirstMessage ==
  ASSUME NEW kind \in Kinds, NEW id \in Nat, NEW t \in Seq(Piece),
         NEW p \in Packets(Message(kind, id) \o t), IsMessage(p)
  PROVE  /\ Rest(Message(kind, id) \o t, p) = t
         /\ p[1].id = id /\ DecryptString(p) = {kind}
<1> DEFINE m == Message(kind, id)
           s == m \o t
           r == Rest(s, p)
<1>1. m \in Seq(Piece) /\ Len(m) = 2 /\ m[1].kind = kind /\ m[1].id = id
  BY MessageIs
<1> HIDE DEF m
<1>2. /\ s \in Seq(Piece) /\ Len(s) = 2 + Len(t) /\ s[1] = m[1]
      /\ \A i \in 1 .. Len(t) : s[2 + i] = t[i]
  <2>1. /\ m \o t \in Seq(Piece) /\ Len(m \o t) = Len(m) + Len(t)
        /\ \A i \in 1 .. Len(m) : (m \o t)[i] = m[i]
        /\ \A i \in 1 .. Len(t) : (m \o t)[Len(m) + i] = t[i]
    BY <1>1, JoinIs
  <2>2. 1 \in 1 .. 2
    OBVIOUS
  <2> QED
    BY <1>1, <2>1, <2>2
<1>3. Len(p) = 2
  BY DEF IsMessage, Message
<1>4. p \in Packets(s)
  BY DEF m
<1> HIDE DEF s
<1>5. /\ p[1] = s[1] /\ r \in Seq(Piece) /\ Len(r) = Len(t)
      /\ \A i \in 1 .. Len(r) : r[i] = s[2 + i]
  <2>1. /\ Len(p) \in 1 .. Len(s) /\ \A i \in 1 .. Len(p) : p[i] = s[i]
        /\ Rest(s, p) \in Seq(Piece) /\ Len(Rest(s, p)) = Len(s) - Len(p)
        /\ \A i \in 1 .. Len(Rest(s, p)) : Rest(s, p)[i] = s[Len(p) + i]
    BY <1>2, <1>4, PacketIs
  <2>2. Len(t) \in Nat /\ 1 \in 1 .. 2
    BY LenProperties
  <2> QED
    BY <1>2, <1>3, <2>1, <2>2
<1>6. r = t
  <2> HIDE DEF r
  <2>1. \A i \in 1 .. Len(r) : r[i] = t[i]
    BY <1>2, <1>5
  <2> QED
    BY <1>5, <2>1, SeqEqual
<1>7. p[1].kind = kind /\ p[1].id = id
  BY <1>1, <1>2, <1>5
<1>8. DecryptString(p) = {kind}
  BY <1>7 DEF DecryptString
<1> QED
  BY <1>6, <1>7, <1>8 DEF r, s, m

\* What a late cancel leaves on the way is a stream.
LEMMA LateIs ==
  ASSUME TypeOK, NEW s \in LateCancels
  PROVE  s \in Seq(Piece)
<1>1. CASE s = << >>
  BY <1>1, EmptySeq
<1>2. ASSUME NEW i \in 1 .. sends, s = Message("cancel", i) PROVE s \in Seq(Piece)
  <2>1. i \in Nat
    BY DEF TypeOK, Streams
  <2> QED
    BY <1>2, <2>1, MessageIs, KindsAre
<1> QED
  BY <1>1, <1>2 DEF LateCancels

\* While a command is on its way there is nothing else under way.
LEMMA Waits ==
  ASSUME Talk,
         \/ ~Quiet \/ down # << >> \/ serverOutput # << >> \/ receiver # "recv" \/ transmissionEnd
         \/ ~waiting \/ progress # "asked"
  PROVE  ~OnItsWay /\ Received /\ Answered
<1>1. ~(waiting /\ progress = "asked" /\ Silent)
  BY DEF Silent
<1> QED
  BY <1>1 DEF Talk, OnItsWay, Received

LEMMA StillReceived ==
  ASSUME Received, Answered, UNCHANGED <<up, sends, asked, ran, failed>>,
         waiting' => waiting, progress' = "cancelled" <=> progress = "cancelled"
  PROVE  Received' /\ Answered'
<1>1. Late(up)'
  BY DEF Received, Late, LateCancels
<1>2. Answered'
  BY DEF Answered
<1> QED
  BY <1>1, <1>2 DEF Received

LEMMA SendTalk ==
  ASSUME TypeOK, Spoken, Talk, Patient, NEW kind \in {"command", "cd"}, SendCommand(kind)
  PROVE  Talk'
<1>1. Send(kind) /\ kind \in Kinds /\ ~waiting /\ handler = "idle" /\ ~transmissionEnd
  BY KindsAre DEF SendCommand, Send
<1>2. Received /\ Answered /\ Silent
  BY <1>1, Waits DEF Talk, Looking, Silent
<1>3. /\ sends' = sends + 1 /\ sends' \in 0 .. MaxSends /\ sends' \notin asked
      /\ up' = up \o Message(kind, sends')
  BY <1>1, SendSpoken
<1>4. UNCHANGED <<down, session, console, receiver, sPacket, handler, ran, failed, said, shown, late>>
  BY <1>1, SendLeaves
<1>5. /\ asked' = asked \cup {sends'} /\ serverOutput' = << >>
      /\ transmissionEnd' = transmissionEnd /\ waiting' /\ progress' = "asked"
  BY DEF SendCommand
<1>6. Silent' /\ serverOutput' = serverOutput
  BY <1>2, <1>4, <1>5 DEF Silent, Quiet
<1>7. PICK s \in Seq(Piece) : s = up
  BY DEF TypeOK, Streams
<1>8. Late(s)'
  <2>1. Late(s) /\ sends \in Nat
    BY <1>2, <1>7 DEF Received, TypeOK
  <2>2. \A i \in 1 .. sends : i \in 1 .. sends' /\ i # sends'
    BY <1>3, <2>1
  <2>3. \A i \in 1 .. sends : i \notin asked => i \notin asked'
    BY <1>5, <2>2
  <2> QED
    BY <2>1, <2>2, <2>3 DEF Late, LateCancels
<1>9. OnItsWay'
  <2>1. up' = s \o Message(kind, sends') /\ asked' = ran' \cup failed' \cup {sends'}
    BY <1>2, <1>3, <1>4, <1>5, <1>7 DEF Answered
  <2>2. sends' \in asked' \ (ran' \cup failed')
    BY <1>3, <1>4, <1>5 DEF TypeOK
  <2> QED
    BY <1>5, <1>6, <1>8, <2>1, <2>2 DEF OnItsWay, Late
<1>10. Places' /\ Ends' /\ Texted'
  BY <1>1, <1>2, <1>4, <1>5, <1>6, AnswerEmpty
  DEF Talk, Places, Ends, Texted, InHand, Silent, Quiet
<1>11. Looking'
  BY <1>1, <1>4, <1>5 DEF Looking, Copied
<1> QED
  BY <1>9, <1>10, <1>11 DEF Talk

LEMMA CancelTalk ==
  ASSUME TypeOK, Spoken, Talk, Patient, CancelCommand
  PROVE  Talk'
<1>1. Send("cancel") /\ "cancel" \in Kinds /\ waiting /\ progress = "seen"
  BY KindsAre DEF CancelCommand
<1>2. Received /\ Answered /\ up = << >>
  BY <1>1, Waits DEF Received
<1>3. /\ sends' = sends + 1 /\ sends' \in 0 .. MaxSends /\ sends' \notin asked
      /\ up' = up \o Message("cancel", sends')
  BY <1>1, SendSpoken
<1>4. /\ UNCHANGED <<down, session, console, receiver, sPacket, handler, ran, failed, said, shown, late>>
      /\ UNCHANGED <<asked, serverOutput, transmissionEnd, waiting>>
      /\ progress' = "cancelled"
  BY <1>1, SendLeaves DEF CancelCommand, window
<1>5. up' = Message("cancel", sends') /\ sends' \in 1 .. sends'
  <2>1. sends' \in Nat /\ sends' \in 1 .. sends'
    BY <1>3 DEF TypeOK
  <2> DEFINE m == Message("cancel", sends')
  <2>2. m \in Seq(Piece)
    BY <1>1, <2>1, MessageIs
  <2> HIDE DEF m
  <2>3. << >> \o m = m
    BY <2>2, ConcatEmptySeq
  <2> QED
    BY <1>2, <1>3, <2>1, <2>3 DEF m
<1>6. Received'
  BY <1>2, <1>3, <1>4, <1>5 DEF Received, Answered, Late, LateCancels
<1>7. Places' /\ Ends' /\ Looking' /\ Texted'
  BY <1>4 DEF Talk, Places, Ends, Looking, Texted, InHand, Copied, Quiet
<1> QED
  BY <1>6, <1>7 DEF Talk

\* What the server receives changes nothing, or runs what was asked, or tells
\* that it failed.
Answers ==
  \/ ran' = ran /\ failed' = failed /\ said' = said
  \/ /\ waiting /\ said \subseteq said'
     /\ \E id \in asked \ (ran \cup failed) :
          \/ ran' = ran \cup {id} /\ failed' = failed
          \/ failed' = failed \cup {id} /\ ran' = ran

LEMMA ReceiveTalk ==
  ASSUME TypeOK, Spoken, Talk, ServerReceive, whole'
  PROVE  Talk' /\ Answers
<1>1. PICK p \in Packets(up), kind \in Kinds \cup {"none"} :
        kind \in DecryptString(p) /\ up' = Rest(up, p) /\ Handle(kind, p) /\ IsMessage(p)
  BY DEF ServerReceive
<1>2. UNCHANGED <<asked, shown, late, serverOutput, transmissionEnd, waiting, progress, sends,
                  receiver, sPacket, handler>>
  BY DEF ServerReceive, receiving, window
<1>3. asked \subseteq Nat /\ \A i \in 1 .. sends : i \in Nat
  BY DEF TypeOK
\* A cancel is only noted.
<1>4. ASSUME NEW i \in 1 .. sends, i \notin asked, NEW t \in Seq(Piece), up = Message("cancel", i) \o t
      PROVE  up' = t /\ UNCHANGED <<ran, failed, console, down, said>>
  <2>1. p[1].id = i /\ kind = "cancel" /\ up' = t
    BY <1>1, <1>3, <1>4, FirstMessage, KindsAre
  <2> QED
    BY <1>1, <2>1 DEF Handle, ChangeDirectory, StartConsole
\* What leaves the way back alone.
<1>5. ASSUME UNCHANGED <<ran, failed, console, down, said>>
      PROVE  Places' /\ Ends' /\ Looking' /\ Texted' /\ (Answered => Answered') /\ (Silent => Silent')
  BY <1>2, <1>5
  DEF Talk, Places, Ends, Looking, Texted, InHand, Copied, Quiet, Answered, Silent
<1>6. CASE OnItsWay
  <2>1. PICK s \in Seq(Piece), k \in {"command", "cd"}, id \in asked \ (ran \cup failed) :
          Late(s) /\ up = s \o Message(k, id) /\ asked = ran \cup failed \cup {id}
    BY <1>6, LateIs DEF OnItsWay, Late
  <2>2. Message(k, id) \in Seq(Piece) /\ id \in Nat /\ k \in Kinds
    BY <1>3, MessageIs, KindsAre
  <2>3. Silent /\ waiting /\ progress = "asked"
    BY <1>6 DEF OnItsWay
  <2>4. CASE s = << >>
    <3>1. up = Message(k, id) \o << >> /\ << >> \in Seq(Piece)
      BY <2>1, <2>2, <2>4, ConcatEmptySeq, EmptySeq
    <3>2. p \in Packets(Message(k, id) \o << >>) /\ up' = Rest(Message(k, id) \o << >>, p)
      BY <1>1, <3>1
    <3>3. /\ Rest(Message(k, id) \o << >>, p) = << >>
          /\ p[1].id = id /\ DecryptString(p) = {k}
      BY <1>1, <2>2, <3>1, <3>2, FirstMessage
    <3>4. Named(p) = {id} /\ kind = k /\ up' = << >>
      BY <1>1, <3>2, <3>3 DEF Named
    <3>5. Late(up)'
      BY <3>4 DEF Late, LateCancels
    <3>6. ASSUME Answered' PROVE Received'
      BY <3>4, <3>5, <3>6 DEF Received
    <3>7. CASE Answer /\ console' = console
               /\ \/ ran' = ran \cup {id} /\ failed' = failed
                  \/ failed' = failed \cup {id} /\ ran' = ran
      <4>1. PICK x \in Seq(Piece), e \in Seq(Piece) :
              /\ x = Message("text", NextText) /\ e = Message("end", NextText)
              /\ x \o e \in Seq(Piece) /\ Texts(x \o e) = {NextText} /\ NextText \in Nat
              /\ down' = down \o (x \o e) /\ said' = said \cup {NextText}
        BY <3>7, AnswerIs
      <4>2. Answering(x) /\ ~Ended(x) /\ Answering(e) /\ Ended(e)
        BY <4>1, AnswerMessage
      <4>3. Answering(x \o e) /\ Ended(x \o e)
        BY <4>2, AnswerJoin
      <4>4. down' = x \o e
        <5> DEFINE a == x \o e
        <5>1. a \in Seq(Piece) /\ down' = down \o a /\ down = << >>
          BY <2>3, <4>1 DEF Silent
        <5> HIDE DEF a
        <5>2. << >> \o a = a
          BY <5>1, ConcatEmptySeq
        <5> QED
          BY <5>1, <5>2 DEF a
      <4>5. Answered'
        BY <1>2, <2>1, <3>7 DEF Answered
      <4>6. Places' /\ Ends' /\ Looking'
        BY <1>2, <2>3, <3>7, <4>3, <4>4, AnswerEmpty
        DEF Talk, Places, Ends, Looking, InHand, Copied, Silent, Quiet
      <4>7. Texted'
        BY <1>2, <2>3, <4>1, <4>4, TextsOfEmpty DEF Talk, Texted, Silent
      <4>8. Answers
        BY <2>1, <2>3, <3>7, <4>1 DEF Answers
      <4> QED
        BY <3>6, <4>5, <4>6, <4>7, <4>8 DEF Talk
    <3>8. CASE /\ console' = "prompt" /\ ran' = ran \cup {id}
               /\ UNCHANGED <<failed, down, said>>
      <4>1. Answered'
        BY <1>2, <2>1, <3>8 DEF Answered
      <4>2. Places' /\ Ends' /\ Looking' /\ Texted'
        BY <1>2, <2>3, <3>8, AnswerEmpty
        DEF Talk, Places, Ends, Looking, Texted, InHand, Copied, Silent, Quiet
      <4>3. Answers
        BY <2>1, <2>3, <3>8 DEF Answers
      <4> QED
        BY <3>6, <4>1, <4>2, <4>3 DEF Talk
    <3>9. CASE UNCHANGED <<ran, failed, console, down, said>>
      <4>1. Received'
        BY <1>2, <1>5, <2>3, <3>4, <3>5, <3>9 DEF Received
      <4> QED
        BY <1>5, <3>9, <4>1 DEF Talk, Answers
    <3> QED
      BY <1>1, <3>4, <3>7, <3>8, <3>9 DEF Handle, ChangeDirectory, StartConsole
  <2>5. CASE s # << >>
    <3>1. PICK i \in 1 .. sends : i \notin asked /\ s = Message("cancel", i)
      BY <2>1, <2>5 DEF Late, LateCancels
    <3>2. up' = Message(k, id) /\ UNCHANGED <<ran, failed, console, down, said>>
      BY <1>4, <2>1, <2>2, <3>1
    <3>3. up' = << >> \o Message(k, id)
      BY <2>2, <3>2, ConcatEmptySeq
    <3>4. OnItsWay'
      <4>1. << >> \in LateCancels'
        BY DEF LateCancels
      <4>2. /\ id \in asked' \ (ran' \cup failed') /\ asked' = ran' \cup failed' \cup {id}
            /\ waiting' /\ progress' = "asked" /\ Silent'
        BY <1>2, <1>5, <2>1, <2>3, <3>2
      <4> QED
        BY <3>3, <4>1, <4>2 DEF OnItsWay
    <3> QED
      BY <1>5, <3>2, <3>4 DEF Talk, Answers
  <2> QED
    BY <2>4, <2>5
<1>7. CASE Received
  <2>1. up # << >>
    BY <1>1, PacketIs, EmptySeq DEF TypeOK, Streams
  <2>2. PICK i \in 1 .. sends : i \notin asked /\ up = Message("cancel", i)
    BY <1>7, <2>1 DEF Received, Late, LateCancels
  <2>3. up = Message("cancel", i) \o << >> /\ << >> \in Seq(Piece)
    BY <1>3, <2>2, MessageIs, KindsAre, ConcatEmptySeq, EmptySeq
  <2>4. up' = << >> /\ UNCHANGED <<ran, failed, console, down, said>>
    BY <1>4, <2>2, <2>3
  <2>5. Late(up)'
    BY <2>4 DEF Late, LateCancels
  <2>6. Received'
    BY <1>2, <1>5, <1>7, <2>4, <2>5 DEF Received
  <2> QED
    BY <1>5, <2>4, <2>6 DEF Talk, Answers
<1> QED
  BY <1>6, <1>7 DEF Talk

LEMMA SayTalk ==
  ASSUME TypeOK, Spoken, Talk, Say(NextText), ~Quiet, ~Quiet', OnlyConsole
  PROVE  Talk'
<1> DEFINE m == Message("text", NextText)
<1>1. m \in Seq(Piece) /\ Texts(m) = {NextText} /\ Answering(m) /\ ~Ended(m)
  BY NextIsNat, KindsAre, MessageIs, TextsOfMessage, AnswerMessage
<1>2. down' = down \o m /\ said' = said \cup {NextText} /\ down \in Seq(Piece)
  BY DEF Say, TypeOK, Streams
<1> HIDE DEF m
<1>3. Received /\ Answered /\ waiting /\ ~transmissionEnd /\ ~InHand /\ ~Ended(down) /\ Answering(down)
  BY Waits DEF Talk, Places, Ends, Looking
<1>4. Answering(down') /\ ~Ended(down') /\ Texts(down') = Texts(down) \cup {NextText}
  BY <1>1, <1>2, <1>3, AnswerJoin, TextsOfJoin
<1>5. UNCHANGED <<up, receiver, sPacket, handler, serverOutput, transmissionEnd, waiting, sends,
                  asked, ran, failed, shown, late, progress>>
  BY Alone
<1>6. Received'
  BY <1>3, <1>5, StillReceived
<1>7. Places' /\ Ends' /\ Looking'
  BY <1>3, <1>4, <1>5 DEF Talk, Places, Ends, Looking, InHand, Copied
<1>8. Texted'
  BY <1>2, <1>4, <1>5 DEF Talk, Texted
<1> QED
  BY <1>6, <1>7, <1>8 DEF Talk

LEMMA EndTalk ==
  ASSUME TypeOK, Spoken, Talk, SayEnd
  PROVE  Talk'
<1>1. PICK e \in Seq(Piece) :
        /\ e = Message("end", NextText) /\ down' = down \o e
        /\ down' \in Seq(Piece) /\ Texts(down') = Texts(down)
  BY EndIs
<1>2. ~Quiet /\ Quiet' /\ said' = said /\ down \in Seq(Piece)
  BY DEF SayEnd, Quiet, TypeOK, Streams
<1>3. Received /\ Answered /\ waiting /\ ~transmissionEnd /\ ~InHand /\ ~Ended(down) /\ Answering(down)
  BY <1>2, Waits DEF Talk, Places, Ends, Looking
<1>4. Answering(e)
  BY <1>1, NextIsNat, AnswerMessage
<1>5. Answering(down')
  BY <1>1, <1>2, <1>3, <1>4, AnswerJoin
<1>6. UNCHANGED <<up, receiver, sPacket, handler, serverOutput, transmissionEnd, waiting, sends,
                  asked, ran, failed, shown, late, progress>>
  BY Alone DEF SayEnd
<1>7. Received'
  BY <1>3, <1>6, StillReceived
<1>8. Places' /\ Ends' /\ Looking'
  BY <1>2, <1>3, <1>5, <1>6 DEF Talk, Places, Ends, Looking, InHand, Copied
<1>9. Texted'
  BY <1>1, <1>2, <1>6 DEF Talk, Texted
<1> QED
  BY <1>7, <1>8, <1>9 DEF Talk

\* The flags of the slot, and the join, leave the conversation alone.
LEMMA FlagTalk ==
  ASSUME Talk, Quiet' <=> Quiet,
         UNCHANGED <<up, down, receiver, sPacket, handler, serverOutput, transmissionEnd, waiting, sends,
                     asked, ran, failed, said, shown, late, progress>>
  PROVE  Talk'
<1>1. Silent' <=> Silent
  BY DEF Silent
<1>2. (OnItsWay \/ Received)'
  <2>1. CASE OnItsWay
    BY <1>1, <2>1 DEF OnItsWay, LateCancels
  <2>2. CASE Received
    BY <1>1, <2>2 DEF Received, Answered, Late, LateCancels
  <2> QED
    BY <2>1, <2>2 DEF Talk
<1>3. Places' /\ Ends' /\ Looking' /\ Texted'
  BY DEF Talk, Places, Ends, Looking, Texted, InHand, Copied
<1> QED
  BY <1>2, <1>3 DEF Talk

-----------------------------------------------------------------------------
(* ... and the client's two threads                                        *)

LEMMA RecvTalk ==
  ASSUME TypeOK, Spoken, Talk, Receive, whole'
  PROVE  Talk'
<1>1. PICK p \in Packets(down) :
        /\ down' = Rest(down, p) /\ p[Len(p)].part = 2
        /\ IF transmissionEnd THEN UNCHANGED receiving
           ELSE receiver' = "append" /\ sPacket' = p
  BY DEF Receive
<1>2. /\ receiver = "recv"
      /\ UNCHANGED <<up, session, console, handler, serverOutput, transmissionEnd, waiting, sends,
                     asked, ran, failed, said, shown, late, progress>>
  BY DEF Receive, server, window, outcome
<1>3. down \in Seq(Piece) /\ p \in Seq(Piece) /\ down # << >> /\ p # << >>
  <2>1. down \in Seq(Piece) /\ p \in Seq(Piece) /\ Len(p) \in 1 .. Len(down)
    BY PacketIs DEF TypeOK, Streams
  <2> QED
    BY <2>1, EmptySeq
<1>4. /\ Received /\ Answered /\ waiting /\ ~transmissionEnd /\ Answering(down) /\ ~Ended(serverOutput)
      /\ Ended(down) => Quiet
  BY <1>2, <1>3, Waits DEF Talk, Places, Ends, Looking
<1>5. receiver' = "append" /\ sPacket' = p
  BY <1>1, <1>4
<1>6. /\ Answering(p) /\ Answering(down')
      /\ Ended(p) => down' = << >>
      /\ Ended(down') \/ Ended(p) => Ended(down)
  BY <1>1, <1>3, <1>4, AnswerPacket
<1>7. Texts(down) = Texts(p) \cup Texts(down')
  BY <1>1, <1>3, TextsOfPacket
<1>8. Received'
  BY <1>2, <1>4, StillReceived
<1>9. Places'
  BY <1>2, <1>3, <1>5, <1>6 DEF Talk, Places
<1>10. Ends'
  BY <1>2, <1>4, <1>5, <1>6 DEF Ends, InHand, Quiet
<1>11. Looking'
  BY <1>2, <1>4 DEF Talk, Looking, Copied
<1>12. Texted'
  BY <1>2, <1>5, <1>7 DEF Talk, Texted
<1> QED
  BY <1>8, <1>9, <1>10, <1>11, <1>12 DEF Talk

LEMMA CollectTalk ==
  ASSUME TypeOK, Spoken, Talk, Collect
  PROVE  Talk' /\ waiting /\ Answered
<1>1. /\ receiver = "append" /\ receiver' = "mark" /\ serverOutput' = serverOutput \o sPacket
      /\ late' = late \cup (IF Copied THEN Texts(sPacket) ELSE {})
      /\ UNCHANGED <<up, down, session, console, sPacket, handler, transmissionEnd, waiting, sends,
                     asked, ran, failed, said, shown, progress>>
  BY DEF Collect, wire, server, outcome
<1>2. serverOutput \in Seq(Piece) /\ sPacket \in Seq(Piece)
  BY DEF TypeOK, Streams
<1>3. /\ Received /\ Answered /\ waiting /\ ~transmissionEnd /\ ~Ended(serverOutput)
      /\ Answering(serverOutput) /\ Answering(sPacket)
  BY <1>1, Waits DEF Talk, Places, Ends, Looking
<1>4. /\ Answering(serverOutput') /\ (Ended(serverOutput') <=> Ended(sPacket))
      /\ Texts(serverOutput') = Texts(serverOutput) \cup Texts(sPacket)
  <2>1. /\ Answering(serverOutput \o sPacket) /\ (Ended(serverOutput \o sPacket) <=> Ended(sPacket))
        /\ Texts(serverOutput \o sPacket) = Texts(serverOutput) \cup Texts(sPacket)
    BY <1>2, <1>3, AnswerJoin, TextsOfJoin
  <2> QED
    BY <1>1, <2>1
<1>5. serverOutput' = << >> => serverOutput = << >>
  <2>1. Len(serverOutput') = Len(serverOutput) + Len(sPacket) /\ Len(serverOutput) \in Nat /\ Len(sPacket) \in Nat
    BY <1>1, <1>2, JoinIs, LenProperties
  <2> QED
    BY <1>2, <2>1, EmptySeq
<1>6. Received'
  BY <1>1, <1>3, StillReceived
<1>7. Places'
  BY <1>1, <1>4 DEF Talk, Places
<1>8. Ends'
  BY <1>1, <1>3, <1>4 DEF Talk, Ends, InHand, Quiet
<1>9. Looking'
  BY <1>1, <1>3, <1>4, <1>5 DEF Talk, Looking, Copied, Quiet
<1>10. Texted'
  BY <1>1, <1>4 DEF Talk, Texted
<1> QED
  BY <1>3, <1>6, <1>7, <1>8, <1>9, <1>10 DEF Talk

LEMMA MarkTalk ==
  ASSUME TypeOK, Spoken, Talk, Mark
  PROVE  Talk'
<1>1. /\ receiver = "mark" /\ receiver' = "recv" /\ sPacket' = << >> /\ transmissionEnd' = HasEnd(sPacket)
      /\ UNCHANGED <<up, down, session, console, handler, serverOutput, waiting, sends,
                     asked, ran, failed, said, shown, late, progress>>
  BY DEF Mark, wire, server, outcome, history
<1>2. /\ Received /\ Answered /\ waiting /\ ~transmissionEnd /\ Answering(sPacket)
      /\ handler # "clearEnd" /\ handler # "unset"
  BY <1>1, Waits DEF Talk, Places, Ends, Looking
<1>3. transmissionEnd' <=> InHand
  BY <1>1, <1>2, EndFound DEF InHand, TypeOK, Streams
<1>4. Received'
  BY <1>1, <1>2, StillReceived
<1>5. Places' /\ Texted'
  BY <1>1, AnswerEmpty DEF Talk, Places, Texted
<1>6. Ends'
  BY <1>1, <1>2, <1>3, AnswerEmpty DEF Talk, Ends, InHand, Quiet
<1>7. Looking'
  BY <1>1, <1>2 DEF Talk, Looking, Copied, Quiet
<1> QED
  BY <1>4, <1>5, <1>6, <1>7 DEF Talk

LEMMA CheckTalk ==
  ASSUME TypeOK, Spoken, Talk, CheckMessages
  PROVE  Talk' /\ waiting /\ Answered
<1>1. /\ handler = "idle" /\ handler' = "judge" /\ serverOutput # << >>
      /\ shown' = shown \cup Lines(serverOutput)
      /\ progress' \in {progress, "seen"} /\ (progress = "cancelled" => progress' = progress)
      /\ UNCHANGED <<up, down, session, console, receiver, sPacket, serverOutput, transmissionEnd, waiting,
                     sends, asked, ran, failed, said, late>>
  BY Alone DEF CheckMessages, Looks, window
<1>2. Received /\ Answered /\ waiting
  BY <1>1, Waits DEF Talk, Looking
<1>3. Lines(serverOutput) = Texts(serverOutput)
  BY AnswerLines DEF TypeOK, Streams, Talk, Places
<1>4. progress' = "cancelled" <=> progress = "cancelled"
  BY <1>1
<1>5. Received'
  BY <1>1, <1>2, <1>4, StillReceived
<1>6. Places' /\ Ends' /\ Texted'
  BY <1>1, <1>2, <1>3 DEF Talk, Places, Ends, Texted, InHand, Quiet
<1>7. Looking'
  BY <1>1, <1>2, <1>3 DEF Talk, Looking, Copied, Quiet
<1> QED
  BY <1>2, <1>5, <1>6, <1>7 DEF Talk

LEMMA JudgeTalk ==
  ASSUME TypeOK, Talk, Judge
  PROVE  Talk'
<1>1. /\ handler = "judge" /\ handler' = (IF transmissionEnd THEN "clearEnd" ELSE "clear")
      /\ UNCHANGED <<up, down, session, console, receiver, sPacket, serverOutput, transmissionEnd, waiting,
                     sends, asked, ran, failed, said, shown, late, progress>>
  BY Alone DEF Judge, Looks, window
<1>2. Received /\ Answered /\ waiting
  BY <1>1, Waits DEF Talk, Looking, Copied
<1>3. Received'
  BY <1>1, <1>2, StillReceived
<1>4. Places' /\ Ends' /\ Texted'
  BY <1>1, <1>2 DEF Talk, Places, Ends, Texted, InHand, Quiet
<1>5. Looking'
  BY <1>1, <1>2 DEF Talk, Looking, Copied, Quiet
<1> QED
  BY <1>3, <1>4, <1>5 DEF Talk

LEMMA ClearTalk ==
  ASSUME TypeOK, Talk, Clear
  PROVE  Talk'
<1>1. /\ handler = "clear" /\ handler' = "idle" /\ serverOutput' = << >>
      /\ UNCHANGED <<up, down, session, console, receiver, sPacket, transmissionEnd, waiting,
                     sends, asked, ran, failed, said, shown, late, progress>>
  BY Alone DEF Clear, Looks
<1>2. Received /\ Answered /\ waiting /\ Texts(serverOutput) \subseteq shown \cup late
  BY <1>1, Waits DEF Talk, Looking, Copied
<1>3. Received'
  BY <1>1, <1>2, StillReceived
<1>4. Places' /\ Ends'
  BY <1>1, <1>2, AnswerEmpty DEF Talk, Places, Ends, InHand, Quiet
<1>5. Texted'
  BY <1>1, <1>2, TextsOfEmpty DEF Talk, Texted
<1>6. Looking'
  BY <1>1, <1>2 DEF Talk, Looking, Copied, Quiet
<1> QED
  BY <1>3, <1>4, <1>5, <1>6 DEF Talk

LEMMA ClearEndTalk ==
  ASSUME TypeOK, Talk, ClearEnd
  PROVE  Talk' /\ waiting /\ Answered /\ shown \cup late = said
<1>1. /\ handler = "clearEnd" /\ handler' = "unset" /\ serverOutput' = << >> /\ ~waiting'
      /\ UNCHANGED <<up, down, session, console, receiver, sPacket, transmissionEnd,
                     sends, asked, ran, failed, said, shown, late, progress>>
  BY Alone DEF ClearEnd, Looks
<1>2. /\ Received /\ Answered /\ waiting /\ Texts(serverOutput) \subseteq shown \cup late
      /\ transmissionEnd /\ down = << >> /\ Quiet /\ receiver = "recv"
  BY <1>1, Waits DEF Talk, Looking, Ends, Copied
<1>3. Received'
  BY <1>1, <1>2, StillReceived
<1>4. Places' /\ Ends'
  BY <1>1, <1>2, AnswerEmpty DEF Talk, Places, Ends, InHand, Quiet
<1>5. Texted' /\ shown \cup late = said
  BY <1>1, <1>2, TextsOfEmpty DEF Talk, Texted
<1>6. Looking'
  BY <1>1, <1>2 DEF Looking, Copied, Quiet
<1> QED
  BY <1>2, <1>3, <1>4, <1>5, <1>6 DEF Talk

LEMMA UnsetTalk ==
  ASSUME TypeOK, Talk, Unset
  PROVE  Talk'
<1>1. /\ handler = "unset" /\ handler' = "idle" /\ transmissionEnd' = FALSE
      /\ UNCHANGED <<up, down, session, console, receiver, sPacket, serverOutput, waiting,
                     sends, asked, ran, failed, said, shown, late, progress>>
  BY Alone DEF Unset, Looks
<1>2. /\ Received /\ Answered /\ ~waiting /\ serverOutput = << >> /\ down = << >> /\ receiver = "recv" /\ Quiet
  BY <1>1, Waits DEF Talk, Looking
<1>3. Received'
  BY <1>1, <1>2, StillReceived
<1>4. Places' /\ Ends' /\ Texted'
  BY <1>1, <1>2, AnswerEmpty DEF Talk, Places, Ends, Texted, InHand, Quiet
<1>5. Looking'
  BY <1>1, <1>2 DEF Looking, Copied, Quiet
<1> QED
  BY <1>3, <1>4, <1>5 DEF Talk

-----------------------------------------------------------------------------
(* Every step                                                              *)

\* A packet that cut a message, and a connection that is closed, are for good.
LEMMA PromisedBefore ==
  ASSUME TypeOK, [Next]_vars
  PROVE  (whole' => whole) /\ (connected' => connected)
<1>1. CASE UserStep
  BY <1>1 DEF UserStep, SendCommand, CancelCommand, Disconnect, Send, window
<1>2. CASE ServerReceive
  BY <1>2 DEF ServerReceive, window, TypeOK
<1>3. CASE Joined
  BY <1>3 DEF Joined, window, history
<1>4. CASE ConsoleSays \/ ConsoleEnds
  BY <1>4, Alone DEF ConsoleSays, ConsoleEnds, SayPrompt, SayOutput, SayReport, SayEnd, ClearExit, ClearActive
<1>5. CASE Receive
  BY <1>5 DEF Receive, window, TypeOK
<1>6. CASE Collect \/ Mark \/ ServerGone
  BY <1>6 DEF Collect, Mark, ServerGone, history
<1>7. CASE TimerStep
  BY <1>7, Alone DEF TimerStep, CheckMessages, Judge, Clear, ClearEnd, Unset, window
<1>8. CASE UNCHANGED vars
  BY <1>8 DEF vars, window, history
<1> QED
  BY <1>1, <1>2, <1>3, <1>4, <1>5, <1>6, <1>7, <1>8 DEF Next, ReceiverStep

\* The steps that belong to a conversation.
LEMMA TalkStep ==
  ASSUME TypeOK, Spoken, Talk, Patient, [Next]_vars, whole', connected'
  PROVE  Talk'
<1>1. ASSUME NEW kind \in {"command", "cd"}, SendCommand(kind) PROVE Talk'
  BY <1>1, SendTalk
<1>2. CASE CancelCommand
  BY <1>2, CancelTalk
<1>3. CASE Disconnect \/ ServerGone
  BY <1>3 DEF Disconnect, ServerGone
<1>4. CASE ServerReceive
  BY <1>4, ReceiveTalk
<1>5. CASE Joined \/ ClearExit \/ ClearActive \/ UNCHANGED vars
  <2>1. Quiet' <=> Quiet
    BY <1>5 DEF Joined, ClearExit, ClearActive, vars, server, Quiet
  <2>2. UNCHANGED <<up, down, receiver, sPacket, handler, serverOutput, transmissionEnd, waiting, sends,
                    asked, ran, failed, said, shown, late, progress>>
    BY <1>5, Alone
    DEF Joined, ClearExit, ClearActive, vars, wire, receiving, window, outcome, history
  <2> QED
    BY <2>1, <2>2, FlagTalk
<1>6. CASE SayPrompt \/ SayOutput \/ SayReport
  BY <1>6, SayTalk DEF SayPrompt, SayOutput, SayReport, Quiet
<1>7. CASE SayEnd
  BY <1>7, EndTalk
<1>8. CASE Receive \/ Collect \/ Mark
  BY <1>8, RecvTalk, CollectTalk, MarkTalk
<1>9. CASE CheckMessages \/ Judge \/ Clear \/ ClearEnd \/ Unset
  BY <1>9, CheckTalk, JudgeTalk, ClearTalk, ClearEndTalk, UnsetTalk
<1> QED
  BY <1>1, <1>2, <1>3, <1>4, <1>5, <1>6, <1>7, <1>8, <1>9
  DEF Next, UserStep, ConsoleSays, ConsoleEnds, ReceiverStep, TimerStep

LEMMA TalkNext == TypeOK /\ Spoken /\ Conversation /\ [Next]_vars => Conversation'
<1> SUFFICES ASSUME TypeOK, Spoken, Conversation, [Next]_vars, Patient, whole', connected'
             PROVE  Talk'
  BY DEF Conversation
<1>1. Talk
  BY PromisedBefore DEF Conversation
<1> QED
  BY <1>1, TalkStep

\* The thread of a connection that is closed has nothing in its hands.
LEMMA PartedNext == TypeOK /\ Conversation /\ Parted /\ [Next]_vars => Parted'
<1> SUFFICES ASSUME TypeOK, Conversation, Parted, [Next]_vars, Patient, whole', ~connected'
             PROVE  ~transmissionEnd' /\ receiver' = "recv"
  BY DEF Parted
<1>1. whole
  BY PromisedBefore
<1>2. CASE connected
  <2>1. Disconnect \/ ServerGone
    <3>1. ~UNCHANGED vars
      BY <1>2 DEF vars, window
    <3>2. ~CancelCommand /\ ~ServerReceive /\ ~Joined /\ ~Receive /\ ~Collect /\ ~Mark
      BY <1>2 DEF CancelCommand, ServerReceive, Joined, Receive, Collect, Mark, window
    <3>3. ~TimerStep
      BY <1>2 DEF TimerStep, CheckMessages, Judge, Clear, ClearEnd, Unset, window
    <3>4. ~ConsoleSays /\ ~ConsoleEnds
      BY <1>2, Alone DEF ConsoleSays, ConsoleEnds, SayPrompt, SayOutput, SayReport, SayEnd, ClearExit, ClearActive
    <3>5. \A kind \in {"command", "cd"} : ~SendCommand(kind)
      BY <1>2 DEF SendCommand
    <3> QED
      BY <3>1, <3>2, <3>3, <3>4, <3>5 DEF Next, UserStep, ReceiverStep
  <2>2. CASE Disconnect
    <3>1. ~waiting /\ Talk
      BY <1>1, <1>2, <2>2 DEF Disconnect, Conversation
    <3>2. receiver = "recv"
      BY <3>1 DEF Talk, Looking
    <3>3. Send("close")
      BY <2>2 DEF Disconnect
    <3> QED
      BY <2>2, <3>2, <3>3, SendLeaves DEF Disconnect
  <2>3. CASE ServerGone
    BY <2>3 DEF ServerGone, receiving
  <2> QED
    BY <2>1, <2>2, <2>3
<1>3. CASE ~connected
  <2>1. ~transmissionEnd /\ receiver = "recv"
    BY <1>1, <1>3 DEF Parted
  <2>2. ~UserStep /\ ~Receive /\ ~Collect /\ ~Mark /\ ~ServerGone /\ ~CheckMessages
    BY <1>3, <2>1 DEF UserStep, SendCommand, CancelCommand, Disconnect, Send, Receive, Collect, Mark,
                      ServerGone, CheckMessages
  <2>3. CASE ServerReceive
    BY <2>1, <2>3 DEF ServerReceive, receiving, window
  <2>4. CASE Joined
    BY <2>1, <2>4 DEF Joined, receiving, window
  <2>5. CASE ConsoleSays \/ ConsoleEnds
    <3>1. OnlyConsole
      BY <2>5 DEF ConsoleSays, ConsoleEnds, SayPrompt, SayOutput, SayReport, SayEnd, ClearExit, ClearActive
    <3>2. transmissionEnd' = transmissionEnd /\ receiver' = receiver
      BY <3>1, Alone
    <3> QED
      BY <2>1, <3>2
  <2>6. CASE Judge \/ Clear \/ ClearEnd \/ Unset
    <3>1. OnlyHandler /\ (transmissionEnd' = transmissionEnd \/ transmissionEnd' = FALSE)
      BY <2>6 DEF Judge, Clear, ClearEnd, Unset, window
    <3>2. receiver' = receiver
      BY <3>1, Alone
    <3> QED
      BY <2>1, <3>1, <3>2
  <2>7. CASE UNCHANGED vars
    BY <2>1, <2>7 DEF vars, receiving, window
  <2> QED
    BY <2>2, <2>3, <2>4, <2>5, <2>6, <2>7 DEF Next, ReceiverStep, TimerStep
<1> QED
  BY <1>2, <1>3

\* The invariant the properties rest on: for a user who waits, a command or its
\* answer is under way, not both; the answer passes the stream, the receive
\* thread and the window, each of which holds a part of one, and ends with its
\* end code (NewClient 171-303, client.cpp 115-129, frmmain.cpp 338-375).
THEOREM Invariance == Spec => []WireInv
<1>1. Init => Conversation /\ Parted
  <2> SUFFICES ASSUME Init PROVE Talk /\ Parted
    BY DEF Conversation
  <2>1. Received
    BY DEF Init, Received, Late, LateCancels, Answered
  <2>2. Places /\ Ends /\ Looking
    BY AnswerEmpty DEF Init, Places, Ends, Looking, InHand, Copied, Quiet
  <2>3. Texted
    BY TextsOfEmpty DEF Init, Texted
  <2>4. Parted
    BY DEF Init, Parted
  <2> QED
    BY <2>1, <2>2, <2>3, <2>4 DEF Talk
<1>2. TypeOK /\ Spoken /\ Conversation /\ Parted => WireInv
  BY DEF WireInv
<1> QED
  BY <1>1, <1>2, AlwaysSpoken, TalkNext, PartedNext, PTL DEF Spec

\* Without a cancel under way, the stream of OnItsWay is one message and that of
\* Received is empty.
LEMMA TalkIsApart == WireInv => MessagesApart
<1> SUFFICES ASSUME TypeOK, Spoken, Talk, \A n \in DOMAIN up : up[n].kind # "cancel",
                    NEW m \in DOMAIN up, NEW n \in DOMAIN up
             PROVE  up[m].id = up[n].id
  BY DEF WireInv, Conversation, MessagesApart
<1>0. DOMAIN up = 1 .. Len(up) /\ up \in Seq(Piece) /\ asked \subseteq Nat /\ \A i \in 1 .. sends : i \in Nat
  BY LenProperties DEF TypeOK, Streams
<1>1. ASSUME NEW i \in Nat, NEW t \in Seq(Piece), up = Message("cancel", i) \o t PROVE FALSE
  <2> DEFINE c == Message("cancel", i)
  <2>1. c \in Seq(Piece) /\ Len(c) = 2 /\ c[1].kind = "cancel"
    BY MessageIs, KindsAre
  <2> HIDE DEF c
  <2>2. Len(c \o t) = 2 + Len(t) /\ (c \o t)[1] = c[1]
    <3>1. Len(c \o t) = Len(c) + Len(t) /\ \A k \in 1 .. Len(c) : (c \o t)[k] = c[k]
      BY <2>1, JoinIs
    <3>2. 1 \in 1 .. 2
      OBVIOUS
    <3> QED
      BY <2>1, <3>1, <3>2
  <2>3. 1 \in 1 .. Len(up) /\ up[1].kind = "cancel"
    BY <1>1, <2>1, <2>2, LenProperties DEF c
  <2> QED
    BY <1>0, <2>3
<1>2. ASSUME Late(up) PROVE up = << >>
  <2>1. ASSUME NEW i \in 1 .. sends, up = Message("cancel", i) PROVE FALSE
    <3>1. up = Message("cancel", i) \o << >> /\ << >> \in Seq(Piece)
      BY <1>0, <2>1, ConcatEmptySeq, EmptySeq
    <3> QED
      BY <1>0, <1>1, <3>1
  <2> QED
    BY <1>2, <2>1 DEF Late, LateCancels
<1>3. CASE Received
  BY <1>0, <1>2, <1>3, EmptySeq DEF Received
<1>4. CASE OnItsWay
  <2>1. PICK s \in Seq(Piece), kind \in {"command", "cd"}, id \in asked \ (ran \cup failed) :
          Late(s) /\ up = s \o Message(kind, id)
    BY <1>4, LateIs DEF OnItsWay, Late
  <2>2. id \in Nat /\ kind \in Kinds
    BY <1>0, KindsAre
  <2> DEFINE c == Message(kind, id)
  <2>3. c \in Seq(Piece) /\ Len(c) = 2 /\ c[1].id = id /\ c[2].id = id
    BY <2>2, MessageIs
  <2>4. s = << >>
    BY <1>0, <1>1, <2>1, <2>3 DEF Late, LateCancels
  <2>5. up = c
    BY <2>1, <2>3, <2>4, ConcatEmptySeq
  <2> HIDE DEF c
  <2>6. m \in {1, 2} /\ n \in {1, 2}
    <3>1. \A i \in 1 .. 2 : i \in {1, 2}
      OBVIOUS
    <3>2. DOMAIN up = 1 .. 2
      BY <1>0, <2>3, <2>5
    <3> QED
      BY <3>1, <3>2
  <2> QED
    BY <2>3, <2>5, <2>6
<1> QED
  BY <1>3, <1>4 DEF Talk

\* For a user who waits the server never finds two messages in one packet,
\* but for a late cancel (recv(), main.cpp 178).
THEOREM AlwaysApart == Spec => []MessagesApart
BY TalkIsApart, Invariance, PTL

\* Nothing arrives while the client drops what it receives (client.cpp 117).
THEOREM AlwaysHeard == Spec => []NothingDropped
<1>1. WireInv => NothingDropped
  BY DEF WireInv, Conversation, Parted, Talk, Ends, NothingDropped
<1> QED
  BY <1>1, Invariance, PTL

\* When a command is over all its output has been shown, but what came between
\* the window's copy and its clearing, and it was run or its failure told
\* (frmmain.cpp 338-375, client.cpp 115-129, main.cpp 238-258).
THEOREM AlwaysShown == Spec => []AllShown
<1>1. ASSUME WireInv, Patient, whole, connected, ~waiting
      PROVE  shown \cup late = said /\ ran \cup failed = asked
  <2>1. Talk
    BY <1>1 DEF WireInv, Conversation
  <2>2. Answered /\ serverOutput = << >> /\ down = << >> /\ receiver = "recv"
    BY <1>1, <2>1, Waits DEF Talk, Looking
  <2>3. said = shown \cup late
    BY <2>1, <2>2, TextsOfEmpty DEF Talk, Texted
  <2> QED
    BY <2>2, <2>3 DEF Answered
<1>2. WireInv => AllShown
  BY <1>1 DEF AllShown
<1> QED
  BY <1>2, Invariance, PTL
-----------------------------------------------------------------------------
(* The dialogue of a user who waits                                        *)

LEMMA TalkingInit == Init => Talking!Init
BY DEF Init, Talking!Init, Kept, Promised

LEMMA TalkingNext ==
  Patient /\ WireInv /\ WireInv' /\ [Next]_vars => [Talking!Next]_(Talking!vars)
<1> SUFFICES ASSUME Patient, WireInv, WireInv', [Next]_vars PROVE [Talking!Next]_(Talking!vars)
  OBVIOUS
<1>1. TypeOK /\ Spoken /\ TypeOK'
  BY DEF WireInv
<1>2. CASE ~Promised
  <2>1. ~Promised'
    BY <1>1, <1>2, PromisedBefore DEF Promised
  <2> QED
    BY <1>2, <2>1 DEF Talking!vars, Kept
<1>3. CASE Promised /\ ~Promised'
  BY <1>3 DEF Talking!Next, Talking!Lose, Kept
<1>4. CASE Promised /\ Promised'
  <2>1. Talk /\ whole' /\ connected'
    BY <1>4 DEF WireInv, Conversation, Promised
  <2>2. ASSUME UNCHANGED <<waiting, asked, ran, failed, said, shown, late>> PROVE UNCHANGED Talking!vars
    BY <1>4, <2>2 DEF Talking!vars, Kept
  <2>3. ASSUME NEW kind \in {"command", "cd"}, SendCommand(kind) PROVE Talking!Next
    <3>1. Send(kind) /\ kind \in Kinds
      BY <2>3, KindsAre DEF SendCommand
    <3>2. sends' \in 1 .. MaxSends /\ sends' \notin asked
      BY <1>1, <3>1, SendSpoken, WireAssumption DEF TypeOK, WireAssumption
    <3>3. ~waiting /\ waiting' /\ asked' = asked \cup {sends'} /\ UNCHANGED <<ran, failed, said, shown, late>>
      BY <2>3, <3>1, SendLeaves DEF SendCommand
    <3>4. Talking!Ask(sends')
      BY <1>4, <3>2, <3>3 DEF Talking!Ask, Kept
    <3> QED
      BY <3>2, <3>4 DEF Talking!Next
  <2>4. CASE ServerReceive
    <3>1. Answers /\ UNCHANGED <<waiting, asked, shown, late>>
      BY <1>1, <2>1, <2>4, ReceiveTalk DEF ServerReceive, window
    <3>2. ASSUME waiting, said \subseteq said', NEW id \in asked \ (ran \cup failed),
                 \/ ran' = ran \cup {id} /\ failed' = failed
                 \/ failed' = failed \cup {id} /\ ran' = ran
          PROVE  Talking!Next
      <4>1. id \in 1 .. MaxSends
        BY <1>1 DEF TypeOK
      <4>2. Talking!Run(id)
        BY <1>4, <3>1, <3>2 DEF Talking!Run, Kept
      <4> QED
        BY <4>1, <4>2 DEF Talking!Next
    <3> QED
      BY <2>2, <3>1, <3>2 DEF Answers
  <2>5. CASE SayPrompt \/ SayOutput \/ SayReport
    <3>1. /\ ~Quiet /\ said' = said \cup {NextText}
          /\ UNCHANGED <<waiting, asked, ran, failed, shown, late>>
      BY <2>5, Alone DEF SayPrompt, SayOutput, SayReport, Say, Quiet
    <3>2. waiting /\ Answered
      BY <2>1, <3>1, Waits DEF Talk, Looking
    <3>3. Talking!Say
      BY <1>4, <3>1, <3>2 DEF Talking!Say, Talking!Answered, Answered, Kept
    <3> QED
      BY <3>3 DEF Talking!Next
  <2>6. CASE CheckMessages
    <3>1. /\ shown' = shown \cup Lines(serverOutput)
          /\ UNCHANGED <<waiting, asked, ran, failed, said, late>>
      BY <2>6, Alone DEF CheckMessages, window
    <3>2. waiting /\ Answered
      BY <1>1, <2>1, <2>6, CheckTalk
    <3>3. shown \subseteq shown' /\ shown' \subseteq said
      BY <1>1, <3>1 DEF TypeOK
    <3>4. Talking!Show
      BY <1>4, <3>1, <3>2, <3>3 DEF Talking!Show, Talking!Answered, Answered, Kept
    <3> QED
      BY <3>4 DEF Talking!Next
  <2>7. CASE Collect
    <3>1. late \subseteq late' /\ UNCHANGED <<waiting, asked, ran, failed, said, shown>>
      BY <2>7 DEF Collect, outcome
    <3>2. waiting /\ Answered
      BY <1>1, <2>1, <2>7, CollectTalk
    <3>3. late' \subseteq said
      BY <1>1, <3>1 DEF TypeOK
    <3>4. Talking!Miss
      BY <1>4, <3>1, <3>2, <3>3 DEF Talking!Miss, Talking!Answered, Answered, Kept
    <3> QED
      BY <3>4 DEF Talking!Next
  <2>8. CASE ClearEnd
    <3>1. ~waiting' /\ UNCHANGED <<asked, ran, failed, said, shown, late>>
      BY <2>8, Alone DEF ClearEnd
    <3>2. waiting /\ Answered /\ shown \cup late = said
      BY <1>1, <2>1, <2>8, ClearEndTalk
    <3>3. Talking!End
      BY <1>4, <3>1, <3>2 DEF Talking!End, Talking!Answered, Answered, Kept
    <3> QED
      BY <3>3 DEF Talking!Next
  <2>9. CASE CancelCommand
    <3>1. Send("cancel")
      BY <2>9 DEF CancelCommand
    <3> QED
      BY <2>2, <2>9, <3>1, SendLeaves DEF CancelCommand, window
  <2>10. CASE Joined \/ Receive \/ Mark \/ UNCHANGED vars
    BY <2>2, <2>10 DEF Joined, Receive, Mark, vars, window, outcome, history
  <2>11. CASE SayEnd \/ ClearExit \/ ClearActive \/ Judge \/ Clear \/ Unset
    BY <2>2, <2>11, Alone DEF SayEnd, ClearExit, ClearActive, Judge, Clear, Unset, window
  <2>12. CASE Disconnect \/ ServerGone
    BY <2>1, <2>12 DEF Disconnect, ServerGone
  <2> QED
    BY <2>3, <2>4, <2>5, <2>6, <2>7, <2>8, <2>9, <2>10, <2>11, <2>12
    DEF Next, UserStep, ConsoleSays, ConsoleEnds, ReceiverStep, TimerStep
<1> QED
  BY <1>2, <1>3, <1>4

\* Wire implements Dialogue for a user who waits: whatever recv() cuts, until
\* it cuts a message, a command is run or told to have failed before it is
\* over, all its texts come in between, and the window is ready for the next
\* one when each was shown or came too late for a look of the window
\* (NewClient 171-303, client.cpp 99-133, frmmain.cpp 338-375).
THEOREM Implements == Patient => (Spec => ImplementsDialogue)
<1> SUFFICES ASSUME Patient PROVE Spec => ImplementsDialogue
  OBVIOUS
<1>1. Init => Talking!Init
  BY TalkingInit
<1>2. WireInv /\ WireInv' /\ [Next]_vars => [Talking!Next]_(Talking!vars)
  BY TalkingNext
<1> QED
  BY <1>1, <1>2, Invariance, PTL DEF Spec, ImplementsDialogue, Talking!Spec
=============================================================================
