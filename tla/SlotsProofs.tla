------------------------------ MODULE SlotsProofs ------------------------------
(***************************************************************************)
(* Proofs about the accept loop and the client threads, for any number of  *)
(* slots, connections and descriptors and with every fault.                *)
(***************************************************************************)
EXTENDS SlotsProperties, Least, TLAPS

-----------------------------------------------------------------------------
(* Types, and where the accept loop is                                     *)

\* Between accept() and pthread_create() the loop has one connection, and from
\* the free slot it found on its index is a slot.  A connection that was not
\* accepted has no thread.
Phase ==
  /\ \A c \in Conns : sock[c] \in {"none", "queued"} => tpc[c] = "none" /\ newest # c
  /\ apc # "scan" => i \in Slots
  /\ newest # Nobody <=> apc \in {"read", "count", "publish", "create"}
  /\ newest # Nobody => tpc[newest] = "none"
  /\ apc = "create" => currentClientSocket = i

Base == TypeOK /\ Phase

LEMMA BaseInit == Init => Base
<1> SUFFICES ASSUME Init PROVE Base
  OBVIOUS
<1>1. TypeOK
  <2>1. overtaken \in BOOLEAN
    BY Zenon DEF Init
  <2> QED
    BY <2>1, SlotsAssumption DEF Init, TypeOK, Slots, Width
<1>2. Phase
  BY SlotsAssumption DEF Init, Phase
<1> QED
  BY <1>1, <1>2 DEF Base

LEMMA LowestFree == FreeFds # {} => Lowest \in FreeFds
<1> SUFFICES ASSUME FreeFds # {} PROVE Lowest \in FreeFds
  OBVIOUS
<1>1. FreeFds \in SUBSET Nat /\ IsFiniteSet(FreeFds)
  BY SlotsAssumption, FS_Subset DEF FreeFds
<1>2. \E n \in FreeFds : \A m \in FreeFds : n <= m
  BY <1>1, LeastExists
<1> QED
  BY <1>2 DEF Lowest

LEMMA MovesBase ==
  ASSUME Base, NEW c \in Conns, ClientMoves(c)
  PROVE  Base'
<1>1. PICK to \in {"queued", "closed", "reset"} :
        sock' = [sock EXCEPT ![c] = to] /\ (to = "queued" => sock[c] = "none")
  BY DEF ClientMoves, Connect, HangUp, Reset, Move
<1>2. UNCHANGED <<acceptVars, clients, currentClientSocket, overtaken, numClients, fd, threadVars>>
  BY DEF ClientMoves, Connect, HangUp, Reset, Move
<1> QED
  BY <1>1, <1>2 DEF Base, TypeOK, Phase, acceptVars, threadVars

LEMMA WidthIs == Width \in Nat \ {0}
BY DEF Width

LEMMA Wraps == \A n \in Nat : n % Width \in 0 .. Width - 1
<1>1. ASSUME NEW n \in Nat, NEW width \in Nat \ {0} PROVE n % width \in 0 .. width - 1
  OBVIOUS
<1> QED
  BY <1>1, WidthIs

LEMMA LoopBase ==
  ASSUME Base, AcceptStep \/ AcceptFails \/ \E c \in Conns : Accept(c)
  PROVE  Base'
<1> USE SlotsAssumption DEF Base, TypeOK, Phase, Loop, threadVars, Slots
<1>1. CASE SkipTaken
  BY <1>1 DEF SkipTaken
<1>2. CASE NextRound
  BY <1>2 DEF NextRound
<1>3. CASE FindFree
  BY <1>3 DEF FindFree
<1>4. CASE UndoAccept
  BY <1>4 DEF UndoAccept
<1>5. CASE ReadCount
  BY <1>5 DEF ReadCount
<1>6. CASE CountUp
  <2>1. acount + 1 \in Nat
    BY WidthIs
  <2>2. numClients' \in 0 .. Width - 1
    BY <1>6, <2>1, Wraps DEF CountUp
  <2> QED
    BY <1>6, <2>2 DEF CountUp
<1>7. CASE SetCurrent
  <2>1. overtaken' \in BOOLEAN
    BY <1>7, Zenon DEF SetCurrent
  <2> QED
    BY <1>7, <2>1 DEF SetCurrent
<1>8. CASE CreateThread
  BY <1>8 DEF CreateThread
<1>9. CASE CreateFails
  BY <1>9 DEF CreateFails
<1>10. CASE AcceptFails
  BY <1>10 DEF AcceptFails
<1>11. ASSUME NEW c \in Conns, Accept(c) PROVE Base'
  <2>1. Lowest \in Fds
    BY <1>11, LowestFree DEF Accept, FreeFds
  <2> QED
    BY <1>11, <2>1 DEF Accept
<1> QED
  BY <1>1, <1>2, <1>3, <1>4, <1>5, <1>6, <1>7, <1>8, <1>9, <1>10, <1>11 DEF AcceptStep

LEMMA AtType == TypeOK => \A s : At(s) \in Conns \cup {Nobody}
BY DEF TypeOK, At

\* A thread that is running is not the one that is set up.
LEMMA ThreadPhase ==
  ASSUME Base, NEW c \in Conns, tpc[c] # "none", NEW to, tpc' = [tpc EXCEPT ![c] = to],
         UNCHANGED <<apc, i, newest, currentClientSocket>>,
         \/ UNCHANGED sock
         \/ \E d \in Conns : sock' = [sock EXCEPT ![d] = "shut"]
  PROVE  Phase'
BY DEF Base, TypeOK, Phase

LEMMA ThreadBase ==
  ASSUME Base, NEW c \in Conns, Ending(c) \/ Serve(c) \/ Leave(c) \/ Join(c) \/ Joined(c)
  PROVE  Base'
<1> USE DEF Base, Thread, acceptVars
<1>1. CASE Begin(c)
  <2>1. At(currentClientSocket) \in Conns \cup {Nobody}
    BY AtType
  <2>2. TypeOK'
    BY <1>1, <2>1 DEF Begin, TypeOK
  <2> QED
    BY <1>1, <2>2, ThreadPhase DEF Begin
<1>2. CASE Serve(c) \/ Joined(c)
  <2>1. At(socketID[c]) \in Conns \cup {Nobody}
    BY AtType
  <2>2. TypeOK'
    BY <1>2, <2>1 DEF Serve, Joined, TypeOK
  <2> QED
    BY <1>2, <2>2, ThreadPhase DEF Serve, Joined
<1>3. CASE EndOfStream(c) \/ Leave(c) \/ Join(c)
  <2>1. TypeOK'
    BY <1>3 DEF EndOfStream, Leave, ToShutdown, Join, TypeOK
  <2> QED
    BY <1>3, <2>1, ThreadPhase DEF EndOfStream, Leave, ToShutdown, Join
<1>4. CASE Shutdown(c)
  <2>1. PICK to \in {"close", "null"} : tpc' = [tpc EXCEPT ![c] = to]
    BY <1>4 DEF Shutdown
  <2>2. sock' = sock \/ \E d \in Conns : sock' = [sock EXCEPT ![d] = "shut"]
    BY <1>4, AtType DEF Shutdown, IsIn
  <2>3. sock' \in [Conns -> {"none", "queued", "open", "closed", "reset", "shut"}]
    BY <2>2 DEF TypeOK
  <2>4. TypeOK'
    BY <1>4, <2>1, <2>3 DEF Shutdown, TypeOK
  <2> QED
    BY <1>4, <2>1, <2>2, <2>4, ThreadPhase DEF Shutdown
<1>5. CASE Close(c)
  <2>1. TypeOK'
    BY <1>5 DEF Close, TypeOK
  <2> QED
    BY <1>5, <2>1, ThreadPhase DEF Close
<1>6. CASE FreeSlot(c)
  <2>1. TypeOK'
    BY <1>6 DEF FreeSlot, TypeOK
  <2> QED
    BY <1>6, <2>1, ThreadPhase DEF FreeSlot
<1>7. CASE ReadMine(c)
  <2>1. TypeOK'
    BY <1>7 DEF ReadMine, TypeOK
  <2> QED
    BY <1>7, <2>1, ThreadPhase DEF ReadMine
<1>8. CASE CountDown(c)
  <2>1. tcount[c] \in 0 .. Width - 1
    BY DEF TypeOK
  <2>2. tcount[c] + Width - 1 \in Nat
    BY <2>1, WidthIs
  <2>3. numClients' \in 0 .. Width - 1
    BY <1>8, <2>2, Wraps DEF CountDown
  <2>4. TypeOK'
    BY <1>8, <2>3 DEF CountDown, TypeOK
  <2> QED
    BY <1>8, <2>4, ThreadPhase DEF CountDown
<1> QED
  BY <1>1, <1>2, <1>3, <1>4, <1>5, <1>6, <1>7, <1>8 DEF Ending

LEMMA BaseStep == Base /\ [Next]_vars => Base'
<1> SUFFICES ASSUME Base, [Next]_vars PROVE Base'
  OBVIOUS
<1>1. CASE UNCHANGED vars
  BY <1>1 DEF Base, TypeOK, Phase, vars, acceptVars, threadVars
<1>2. CASE Next
  BY <1>2, MovesBase, LoopBase, ThreadBase DEF Next
<1> QED
  BY <1>1, <1>2

LEMMA AlwaysBase == Spec => []Base
<1>1. Init => Base
  BY BaseInit
<1>2. Base /\ [Next]_vars => Base'
  BY BaseStep
<1> QED
  BY <1>1, <1>2, PTL DEF Spec

\* In particular the accept loop only ever fills the slots there are, and the
\* counter stays in an unsigned short, although it wraps.
THEOREM TypeCorrect == Spec => []TypeOK
<1>1. Base => TypeOK
  BY DEF Base
<1> QED
  BY <1>1, AlwaysBase, PTL
-----------------------------------------------------------------------------
(* Sessions, as long as no hand-off is overtaken                           *)

\* One thread at a time waits to read currentClientSocket.
OneStarts ==
  /\ \A c, d \in Conns : tpc[c] = "start" /\ tpc[d] = "start" => c = d
  /\ apc = "create" => \A c \in Conns : tpc[c] # "start"

\* How far a session is shows on its socket.
SocketFollows ==
  \A c \in Conns :
    /\ tpc[c] = "none" /\ newest # c => sock[c] \in {"none", "queued"}
    /\ tpc[c] = "close" => sock[c] = "shut"
    /\ tpc[c] \in {"null", "read", "count", "done"} => sock[c] \in {"shut", "reset"}
    /\ sock[c] = "shut" => tpc[c] \in {"close", "null", "read", "count", "done"}

\* A connection has one number at most, and one as long as it keeps it.
Keeps(c) == sock[c] = "reset" \/ tpc[c] = "void" \/ (Session(c) /\ tpc[c] # "null")
Numbered ==
  /\ \A n, m \in Fds : fd[n] # Nobody /\ fd[n] = fd[m] => n = m
  /\ \A c \in Conns : (\E n \in Fds : fd[n] = c) <=> Keeps(c)

\* The slot the loop found is free until it is filled.
Found ==
  /\ apc = "accept" => clients[i] = 0
  /\ apc = "undo" => \A c \in Conns : Session(c) => Home(c) # i

AtHome == \A c \in Conns : Session(c) => Home(c) \in Slots

Served == AtHome /\ Exclusive
Held == OneStarts /\ SocketFollows /\ Numbered /\ Found /\ Served

LEMMA HeldInit == Init => Held
<1> SUFFICES ASSUME Init PROVE Held
  OBVIOUS
<1>1. \A c \in Conns : ~Session(c)
  BY SlotsAssumption DEF Init, Session, Setup, Running
<1>2. OneStarts /\ SocketFollows /\ Found
  BY <1>1 DEF Init, OneStarts, SocketFollows, Found
<1>3. Numbered
  BY <1>1, SlotsAssumption DEF Init, Numbered, Keeps
<1> QED
  BY <1>1, <1>2, <1>3 DEF Held, Served, AtHome, Exclusive

\* The session of d is as it was, or over.
Stays(d) ==
  Session(d)' =>
    /\ Session(d) /\ Home(d)' = Home(d) /\ clients'[Home(d)] = clients[Home(d)]
    /\ tpc'[d] # "null" => tpc[d] # "null" /\ At(Home(d))' = At(Home(d))

\* What a step does to the session of d as module Admission sees it.
Over(d) == tpc[d] \in {"read", "count", "done", "void"}
Same(d) ==
  /\ Session(d)' <=> Session(d)
  /\ Session(d) => Home(d)' = Home(d)
  /\ Over(d)' <=> Over(d)
AllSame == \A d \in Conns : Same(d)
Begins(c) ==
  /\ ~Session(c) /\ ~Over(c) /\ Session(c)' /\ ~Over(c)' /\ Home(c)' \in Slots
  /\ \A d \in Conns \ {c} : Same(d) /\ (Session(d) => Home(d) # Home(c)')
Ends(c) ==
  /\ Session(c) /\ ~Session(c)' /\ Over(c)'
  /\ \A d \in Conns \ {c} : Same(d)

LEMMA StaysServed ==
  ASSUME Served, \A d \in Conns : Stays(d)
  PROVE  Served'
<1>1. ASSUME NEW d \in Conns, Session(d)'
      PROVE  /\ Session(d) /\ Home(d)' = Home(d) /\ clients'[Home(d)'] # 0
             /\ tpc'[d] # "null" => At(Home(d))' = d
  BY <1>1 DEF Stays, Served, Exclusive
<1>2. AtHome'
  BY <1>1 DEF Served, AtHome
<1>3. Exclusive'
  BY <1>1 DEF Served, Exclusive
<1> QED
  BY <1>2, <1>3 DEF Served

LEMMA StaysNumbered ==
  ASSUME Numbered, UNCHANGED fd, \A d \in Conns : Keeps(d)' <=> Keeps(d)
  PROVE  Numbered'
BY DEF Numbered

\* What a step that leaves threads, slots and sockets alone keeps.
LEMMA Quiet ==
  ASSUME Base, Held, newest # Nobody => i' = i,
         UNCHANGED <<newest, clients, currentClientSocket, fd, sock, tpc, socketID>>
  PROVE  /\ SocketFollows' /\ Numbered' /\ Served'
         /\ AllSame
<1>1. \A d \in Conns : (Session(d)' <=> Session(d)) /\ (Session(d) => Home(d)' = Home(d))
  BY SlotsAssumption DEF Session, Setup, Running, Home
<1>2. \A d \in Conns : Stays(d)
  BY <1>1 DEF Stays, At
<1>3. \A d \in Conns : Keeps(d)' <=> Keeps(d)
  BY <1>1 DEF Keeps
<1>4. SocketFollows'
  BY DEF Held, SocketFollows
<1>5. AllSame
  BY <1>1 DEF AllSame, Same, Over
<1> QED
  BY <1>2, <1>3, <1>4, <1>5, StaysServed, StaysNumbered DEF Held

LEMMA MovesHeld ==
  ASSUME Base, Held, NEW c \in Conns, ClientMoves(c)
  PROVE  Held' /\ AllSame
<1>1. PICK to \in {"queued", "closed", "reset"} :
        /\ sock' = [sock EXCEPT ![c] = to]
        /\ sock[c] \in {"none", "open", "closed"}
        /\ sock[c] = "none" <=> to = "queued"
  BY DEF ClientMoves, Connect, HangUp, Reset, Move
<1>2. UNCHANGED <<apc, i, newest, clients, currentClientSocket, fd, tpc, socketID>>
  BY DEF ClientMoves, Connect, HangUp, Reset, Move, acceptVars, threadVars
<1>3. \A d \in Conns : (Session(d)' <=> Session(d)) /\ Home(d)' = Home(d)
  BY <1>2 DEF Session, Setup, Running, Home
<1>4. Served'
  <2>1. \A d \in Conns : Stays(d)
    BY <1>2, <1>3 DEF Stays, At
  <2> QED
    BY <2>1, StaysServed DEF Held
<1>5. SocketFollows'
  BY <1>1, <1>2 DEF Base, TypeOK, Held, SocketFollows
<1>6. Numbered'
  <2>1. ASSUME NEW d \in Conns, d # c PROVE Keeps(d)' <=> Keeps(d)
    BY <1>1, <1>2, <1>3, <2>1 DEF Base, TypeOK, Keeps
  <2>2. Keeps(c)' <=> Keeps(c)
    <3>1. CASE to = "reset"
      <4>1. sock'[c] = "reset" /\ sock[c] \in {"open", "closed"}
        BY <1>1, <3>1 DEF Base, TypeOK
      <4>2. tpc[c] \in {"start", "serve", "join", "shut", "void"} \/ (tpc[c] = "none" /\ newest = c)
        BY <4>1 DEF Base, TypeOK, Held, SocketFollows
      <4> QED
        BY <4>1, <4>2 DEF Keeps, Session, Setup, Running
    <3>2. CASE to # "reset"
      <4>1. sock'[c] # "reset" /\ sock[c] # "reset"
        BY <1>1, <3>2 DEF Base, TypeOK
      <4> QED
        BY <1>2, <1>3, <4>1 DEF Keeps
    <3> QED
      BY <3>1, <3>2
  <2> QED
    BY <1>2, <2>1, <2>2, StaysNumbered DEF Held
<1>7. OneStarts' /\ Found'
  BY <1>2, <1>3 DEF Held, OneStarts, Found
<1>8. AllSame
  BY <1>2, <1>3 DEF AllSame, Same, Over
<1> QED
  BY <1>4, <1>5, <1>6, <1>7, <1>8 DEF Held

\* The loop looks for a slot, fails to fill it, and counts.
LEMMA ScanHeld ==
  ASSUME Base, Held, \/ SkipTaken \/ NextRound \/ FindFree \/ ReadCount \/ CountUp
                     \/ AcceptFails \/ UndoAccept
  PROVE  Held' /\ AllSame
<1> USE DEF Loop, threadVars
<1>1. CASE SkipTaken \/ NextRound \/ FindFree \/ ReadCount \/ CountUp
  <2>1. /\ UNCHANGED <<newest, clients, currentClientSocket, fd, sock, tpc, socketID>>
        /\ apc' \in {"scan", "accept", "count", "publish"}
        /\ apc' = "accept" => clients[i] = 0 /\ i' = i
    BY <1>1 DEF SkipTaken, NextRound, FindFree, ReadCount, CountUp
  <2>2. newest # Nobody => i' = i
    BY <1>1 DEF SkipTaken, NextRound, FindFree, ReadCount, CountUp, Base, Phase
  <2>3. OneStarts' /\ Found'
    BY <2>1 DEF Held, OneStarts, Found
  <2> QED
    BY <2>1, <2>2, <2>3, Quiet DEF Held
<1>2. CASE AcceptFails \/ UndoAccept
  <2>1. /\ UNCHANGED <<newest, currentClientSocket, fd, sock, tpc, socketID>>
        /\ newest = Nobody /\ apc' \in {"undo", "scan"}
    BY <1>2 DEF AcceptFails, UndoAccept, Base, Phase
  <2>2. \A d \in Conns : (Session(d)' <=> Session(d)) /\ (Session(d) => Home(d)' = Home(d))
    BY <2>1, SlotsAssumption DEF Session, Setup, Running, Home
  <2>3. \A d \in Conns : Session(d) => Home(d) # i /\ Home(d) \in Slots
    BY <1>2 DEF AcceptFails, UndoAccept, Held, Found, Served, AtHome, Exclusive
  <2>4. \A s \in Slots \ {i} : clients'[s] = clients[s]
    BY <1>2 DEF AcceptFails, UndoAccept, Base, TypeOK
  <2>5. \A d \in Conns : Stays(d)
    BY <2>1, <2>2, <2>3, <2>4 DEF Stays, At
  <2>6. \A d \in Conns : Keeps(d)' <=> Keeps(d)
    BY <2>1, <2>2 DEF Keeps
  <2>7. OneStarts' /\ SocketFollows'
    BY <2>1 DEF Held, OneStarts, SocketFollows
  <2>8. Found'
    BY <1>2, <2>2, <2>3 DEF AcceptFails, UndoAccept, Found
  <2>9. AllSame
    BY <2>1, <2>2 DEF AllSame, Same, Over
  <2> QED
    BY <2>1, <2>5, <2>6, <2>7, <2>8, <2>9, StaysServed, StaysNumbered DEF Held
<1> QED
  BY <1>1, <1>2

\* A connection gets the slot and the least free number.
LEMMA AcceptHeld ==
  ASSUME Base, Held, NEW c \in Conns, Accept(c)
  PROVE  Held' /\ Begins(c)
<1>1. /\ apc = "accept" /\ apc' = "read" /\ sock[c] = "queued"
      /\ sock' = [sock EXCEPT ![c] = "open"] /\ fd' = [fd EXCEPT ![Lowest] = c]
      /\ clients' = [clients EXCEPT ![i] = Lowest] /\ newest' = c
      /\ UNCHANGED <<i, currentClientSocket, tpc, socketID>>
  BY DEF Accept, Loop, threadVars
<1>2. Lowest \in Fds /\ fd[Lowest] = Nobody /\ Lowest # 0
  BY LowestFree, SlotsAssumption DEF Accept, FreeFds
<1>3. newest = Nobody /\ tpc[c] = "none" /\ i \in Slots /\ clients[i] = 0
  BY <1>1 DEF Base, Phase, Held, Found
<1>4. /\ ~Session(c) /\ Session(c)' /\ Home(c)' = i
      /\ clients'[i] = Lowest /\ At(i)' = c
  BY <1>1, <1>2, <1>3, SlotsAssumption
     DEF Session, Setup, Running, Home, At, Base, TypeOK
<1>5. ASSUME NEW d \in Conns, d # c
      PROVE  /\ Session(d)' <=> Session(d)
             /\ Session(d) => Home(d)' = Home(d) /\ Home(d) # i /\ Home(d) \in Slots
             /\ Stays(d)
  <2>1. Session(d)' <=> Session(d)
    BY <1>1, <1>3, <1>5, SlotsAssumption DEF Session, Setup, Running
  <2>2. ASSUME Session(d)
        PROVE  /\ Home(d)' = Home(d) /\ Home(d) # i /\ Home(d) \in Slots
               /\ clients'[Home(d)] = clients[Home(d)]
    <3>1. Home(d)' = Home(d)
      BY <1>1, <1>3, <1>5, SlotsAssumption DEF Setup, Running, Home
    <3>2. Home(d) # i /\ Home(d) \in Slots
      BY <1>3, <2>2 DEF Held, Served, AtHome, Exclusive
    <3> QED
      BY <1>1, <3>1, <3>2 DEF Base, TypeOK
  <2>3. ASSUME Session(d), tpc[d] # "null" PROVE At(Home(d))' = At(Home(d))
    <3>1. At(Home(d)) = d
      BY <2>3 DEF Held, Served, Exclusive
    <3>2. clients[Home(d)] \in Fds /\ fd[clients[Home(d)]] = d
      BY <3>1, SlotsAssumption DEF At
    <3>3. clients[Home(d)] # Lowest
      BY <1>2, <3>2, SlotsAssumption
    <3>4. fd'[clients[Home(d)]] = d
      BY <1>1, <3>2, <3>3 DEF Base, TypeOK
    <3> QED
      BY <2>2, <2>3, <3>1, <3>2, <3>4 DEF At
  <2>4. Stays(d)
    BY <1>1, <2>1, <2>2, <2>3 DEF Stays
  <2> QED
    BY <2>1, <2>2, <2>4
<1>6. Served'
  <2>1. ASSUME NEW d \in Conns, d # c, Session(d)'
        PROVE  /\ Home(d)' \in Slots /\ Home(d)' # i /\ clients'[Home(d)'] # 0
               /\ tpc'[d] # "null" => At(Home(d))' = d
               /\ \A e \in Conns : Session(e)' /\ Home(e)' = Home(d)' => e = d
    <3>1. Session(d) /\ Home(d)' = Home(d) /\ Home(d) # i /\ Home(d) \in Slots /\ Stays(d)
      BY <1>5, <2>1
    <3>2. clients'[Home(d)'] # 0 /\ (tpc'[d] # "null" => At(Home(d))' = d)
      BY <2>1, <3>1 DEF Stays, Held, Served, Exclusive
    <3>3. ASSUME NEW e \in Conns, Session(e)', Home(e)' = Home(d)' PROVE e = d
      <4>1. e # c
        BY <1>4, <3>1, <3>3
      <4>2. Session(e) /\ Home(e)' = Home(e)
        BY <1>5, <3>3, <4>1
      <4> QED
        BY <3>1, <3>3, <4>2 DEF Held, Served, Exclusive
    <3> QED
      BY <3>1, <3>2, <3>3
  <2>2. AtHome'
    BY <1>3, <1>4, <2>1 DEF AtHome, Slots
  <2>3. ASSUME NEW d \in Conns, Session(d)', Home(c)' = Home(d)' PROVE c = d
    BY <1>4, <2>1, <2>3
  <2>4. clients'[Home(c)'] # 0 /\ At(Home(c))' = c
    BY <1>1, <1>2, <1>4 DEF At
  <2>5. Exclusive'
    BY <2>1, <2>3, <2>4 DEF Exclusive
  <2> QED
    BY <2>2, <2>5 DEF Served
<1>7. Numbered'
  <2>1. ~Keeps(c) /\ Keeps(c)'
    BY <1>1, <1>3, <1>4 DEF Keeps
  <2>2. \A n \in Fds : fd[n] # c
    BY <2>1 DEF Held, Numbered
  <2>3. \A d \in Conns : d # c => (Keeps(d)' <=> Keeps(d))
    BY <1>1, <1>5 DEF Keeps, Base, TypeOK
  <2>4. \A n \in Fds : fd'[n] = IF n = Lowest THEN c ELSE fd[n]
    BY <1>1 DEF Base, TypeOK
  <2>5. \A n, m \in Fds : fd'[n] # Nobody /\ fd'[n] = fd'[m] => n = m
    BY <2>2, <2>4 DEF Held, Numbered
  <2>6. \A d \in Conns : (\E n \in Fds : fd'[n] = d) <=> Keeps(d)'
    <3>1. (\E n \in Fds : fd'[n] = c) <=> Keeps(c)'
      BY <1>2, <2>1, <2>4
    <3>2. ASSUME NEW d \in Conns, d # c PROVE (\E n \in Fds : fd'[n] = d) <=> (\E n \in Fds : fd[n] = d)
      BY <1>2, <2>4, <3>2, SlotsAssumption
    <3> QED
      BY <2>3, <3>1, <3>2 DEF Held, Numbered
  <2> QED
    BY <2>5, <2>6 DEF Numbered
<1>8. SocketFollows'
  BY <1>1, <1>3, SlotsAssumption DEF Base, TypeOK, Held, SocketFollows
<1>9. OneStarts' /\ Found'
  BY <1>1 DEF Held, OneStarts, Found
<1>10. Begins(c)
  <2>1. ~Over(c) /\ \A d \in Conns : Over(d)' <=> Over(d)
    BY <1>1, <1>3 DEF Over
  <2> QED
    BY <1>3, <1>4, <1>5, <2>1 DEF Begins, Same
<1> QED
  BY <1>6, <1>7, <1>8, <1>9, <1>10 DEF Held

\* The slot is published, when no thread is about to read it.
LEMMA SetHeld ==
  ASSUME ~overtaken', Base, Held, SetCurrent
  PROVE  Held' /\ AllSame
<1>1. /\ UNCHANGED <<clients, fd, sock, socketID, newest, i, tpc>> /\ apc' = "create"
      /\ \A d \in Conns : tpc[d] # "start"
  BY DEF SetCurrent, Loop, threadVars
<1>2. \A d \in Conns : (Session(d)' <=> Session(d)) /\ (Session(d) => Home(d)' = Home(d))
  BY <1>1 DEF Session, Setup, Running, Home
<1>3. \A d \in Conns : Stays(d)
  BY <1>1, <1>2 DEF Stays, At
<1>4. \A d \in Conns : Keeps(d)' <=> Keeps(d)
  BY <1>1, <1>2 DEF Keeps
<1>5. OneStarts' /\ SocketFollows' /\ Found'
  BY <1>1 DEF Held, OneStarts, SocketFollows, Found
<1>6. AllSame
  BY <1>1, <1>2 DEF AllSame, Same, Over
<1> QED
  BY <1>1, <1>3, <1>4, <1>5, <1>6, StaysServed, StaysNumbered DEF Held

\* The thread is created, or is not.
LEMMA CreateHeld ==
  ASSUME Base, Held, NEW c \in Conns, newest = c, CreateThread \/ CreateFails
  PROVE  Held' /\ (AllSame \/ Ends(c))
<1>1. PICK to \in {"start", "void"} :
        /\ tpc' = [tpc EXCEPT ![c] = to] /\ newest' = Nobody
        /\ apc = "create" /\ apc' = "scan"
        /\ UNCHANGED <<clients, currentClientSocket, fd, sock, socketID>>
  BY DEF CreateThread, CreateFails, Loop
<1>2. tpc[c] = "none" /\ currentClientSocket = i /\ c # Nobody
  BY <1>1, SlotsAssumption DEF Base, Phase
<1>3. tpc'[c] = to /\ \A d \in Conns \ {c} : tpc'[d] = tpc[d]
  BY <1>1 DEF Base, TypeOK
<1>4. ASSUME NEW d \in Conns, d # c
      PROVE  (Session(d)' <=> Session(d)) /\ (Session(d) => Home(d)' = Home(d))
  BY <1>1, <1>3, <1>4, SlotsAssumption DEF Session, Setup, Running, Home
<1>5. /\ Session(c) /\ Home(c) = i
      /\ Session(c)' <=> to = "start"
      /\ Home(c)' = i
  BY <1>1, <1>2, <1>3, SlotsAssumption DEF Session, Setup, Running, Home
<1>6. \A d \in Conns : Stays(d)
  BY <1>1, <1>2, <1>3, <1>4, <1>5 DEF Stays, At
<1>7. \A d \in Conns : Keeps(d)' <=> Keeps(d)
  BY <1>1, <1>2, <1>3, <1>4, <1>5 DEF Keeps
<1>8. OneStarts'
  BY <1>1, <1>3 DEF Held, OneStarts
<1>9. SocketFollows'
  <2>1. sock[c] # "shut"
    BY <1>2 DEF Held, SocketFollows
  <2> QED
    BY <1>1, <1>3, <2>1 DEF Held, SocketFollows
<1>10. Found'
  BY <1>1 DEF Found
<1>11. \A d \in Conns \ {c} : Same(d)
  BY <1>3, <1>4 DEF Same, Over
<1>12. ASSUME to = "start" PROVE AllSame
  BY <1>2, <1>3, <1>5, <1>11, <1>12 DEF AllSame, Same, Over
<1>13. ASSUME to = "void" PROVE Ends(c)
  BY <1>3, <1>5, <1>11, <1>13 DEF Ends, Over
<1> QED
  BY <1>1, <1>6, <1>7, <1>8, <1>9, <1>10, <1>12, <1>13, StaysServed, StaysNumbered DEF Held

\* A thread starts, serves, decides to end, and counts itself out.
LEMMA ThreadHeld ==
  ASSUME Base, Held, NEW c \in Conns,
         \/ Begin(c) \/ Serve(c) \/ Leave(c) \/ Join(c) \/ Joined(c)
         \/ EndOfStream(c) \/ ReadMine(c) \/ CountDown(c)
  PROVE  Held' /\ AllSame
<1> DEFINE Steps == {<<"start", "serve">>, <<"serve", "serve">>, <<"serve", "shut">>,
                     <<"serve", "join">>, <<"join", "serve">>,
                     <<"read", "count">>, <<"count", "done">>}
<1>1. PICK from \in {"start", "serve", "join", "read", "count"},
          to \in {"serve", "join", "shut", "count", "done"} :
        /\ <<from, to>> \in Steps
        /\ tpc[c] = from /\ tpc' = [tpc EXCEPT ![c] = to]
        /\ from # "start" => UNCHANGED socketID
        /\ from = "start" => socketID' = [socketID EXCEPT ![c] = currentClientSocket]
  BY DEF Begin, Serve, Leave, Join, Joined, EndOfStream, ToShutdown, ReadMine, CountDown, Thread
<1>2. UNCHANGED <<apc, i, newest, clients, currentClientSocket, fd, sock>>
  BY DEF Begin, Serve, Leave, Join, Joined, EndOfStream, ToShutdown, ReadMine, CountDown, acceptVars
<1>3. tpc'[c] = to /\ \A d \in Conns \ {c} : tpc'[d] = tpc[d] /\ socketID'[d] = socketID[d]
  BY <1>1 DEF Base, TypeOK
<1>4. \/ from = "start" /\ to = "serve"
      \/ from = "serve" /\ to = "serve"
      \/ from = "serve" /\ to = "shut"
      \/ from = "serve" /\ to = "join"
      \/ from = "join" /\ to = "serve"
      \/ from = "read" /\ to = "count"
      \/ from = "count" /\ to = "done"
  BY <1>1
<1>5. ASSUME NEW d \in Conns
      PROVE  (Session(d)' <=> Session(d)) /\ (Session(d) => Home(d)' = Home(d))
  <2>1. CASE d # c
    BY <1>2, <1>3, <2>1 DEF Session, Setup, Running, Home
  <2>2. CASE d = c
    <3>1. Session(c)' <=> Session(c)
      BY <1>1, <1>2, <1>3, <1>4 DEF Session, Setup, Running
    <3>2. CASE from = "start"
      <4>1. socketID'[c] = currentClientSocket /\ to = "serve"
        BY <1>1, <1>4, <3>2 DEF Base, TypeOK
      <4>2. Home(c)' = currentClientSocket /\ Home(c) = currentClientSocket
        BY <1>1, <1>3, <3>2, <4>1 DEF Setup, Running, Home
      <4> QED
        BY <2>2, <3>1, <4>2
    <3>3. CASE from \in {"serve", "join"}
      BY <1>1, <1>3, <1>4, <2>2, <3>1, <3>3 DEF Running, Home
    <3>4. CASE from \in {"read", "count"}
      BY <1>1, <2>2, <3>1, <3>4 DEF Session, Setup, Running
    <3> QED
      BY <3>2, <3>3, <3>4
  <2> QED
    BY <2>1, <2>2
<1>6. \A d \in Conns : Stays(d)
  BY <1>1, <1>2, <1>3, <1>4, <1>5 DEF Stays, At
<1>7. \A d \in Conns : Keeps(d)' <=> Keeps(d)
  BY <1>1, <1>2, <1>3, <1>4, <1>5 DEF Keeps
<1>8. OneStarts'
  BY <1>2, <1>3, <1>4 DEF Held, OneStarts
<1>9. SocketFollows'
  BY <1>1, <1>2, <1>3, <1>4 DEF Held, SocketFollows
<1>10. Found'
  BY <1>2, <1>5 DEF Held, Found
<1>11. AllSame
  BY <1>1, <1>3, <1>4, <1>5 DEF AllSame, Same, Over
<1> QED
  BY <1>2, <1>6, <1>7, <1>8, <1>9, <1>10, <1>11, StaysServed, StaysNumbered DEF Held

\* CloseSocket shuts down its own connection, unless the client has reset it.
LEMMA ShutdownHeld ==
  ASSUME Base, Held, NEW c \in Conns, Shutdown(c)
  PROVE  Held' /\ AllSame
<1>1. tpc[c] = "shut" /\ UNCHANGED <<apc, i, newest, clients, currentClientSocket, fd, socketID>>
  BY DEF Shutdown, acceptVars
<1>2. Session(c) /\ Home(c) = socketID[c]
  BY <1>1 DEF Session, Running, Home
<1>3. At(socketID[c]) = c
  BY <1>1, <1>2 DEF Held, Served, Exclusive
<1>4. c # Nobody
  BY SlotsAssumption
<1>5. \/ /\ tpc' = [tpc EXCEPT ![c] = "close"] /\ sock' = [sock EXCEPT ![c] = "shut"]
         /\ sock[c] \in {"open", "closed"}
      \/ /\ tpc' = [tpc EXCEPT ![c] = "null"] /\ sock' = sock
         /\ sock[c] \notin {"open", "closed"}
  <2>1. CASE sock[c] \in {"open", "closed"}
    BY <1>3, <1>4, <2>1 DEF Shutdown, IsIn, Thread
  <2>2. CASE sock[c] \notin {"open", "closed"}
    BY <1>3, <1>4, <2>2 DEF Shutdown, IsIn, Thread
  <2> QED
    BY <2>1, <2>2
<1>6. sock[c] \notin {"open", "closed"} => sock[c] = "reset"
  BY <1>1 DEF Base, TypeOK, Phase, Held, SocketFollows
<1>7. \A d \in Conns \ {c} : tpc'[d] = tpc[d] /\ sock'[d] = sock[d]
  BY <1>5 DEF Base, TypeOK
<1>8. \/ tpc'[c] = "close" /\ sock'[c] = "shut" /\ sock[c] # "reset"
      \/ tpc'[c] = "null" /\ sock'[c] = "reset" /\ sock[c] = "reset"
  BY <1>5, <1>6 DEF Base, TypeOK
<1>9. ASSUME NEW d \in Conns
      PROVE  (Session(d)' <=> Session(d)) /\ (Session(d) => Home(d)' = Home(d))
  <2>1. CASE d # c
    BY <1>1, <1>7, <2>1 DEF Session, Setup, Running, Home
  <2>2. CASE d = c
    BY <1>1, <1>2, <1>8, <2>2 DEF Session, Running, Home
  <2> QED
    BY <2>1, <2>2
<1>10. \A d \in Conns : Stays(d)
  BY <1>1, <1>7, <1>8, <1>9 DEF Stays, At
<1>11. \A d \in Conns : Keeps(d)' <=> Keeps(d)
  <2>1. \A d \in Conns \ {c} : Keeps(d)' <=> Keeps(d)
    BY <1>7, <1>9 DEF Keeps
  <2>2. Keeps(c)' /\ Keeps(c)
    BY <1>1, <1>2, <1>8, <1>9 DEF Keeps
  <2> QED
    BY <2>1, <2>2
<1>12. OneStarts'
  BY <1>1, <1>7, <1>8 DEF Held, OneStarts
<1>13. SocketFollows'
  BY <1>1, <1>7, <1>8 DEF Held, SocketFollows
<1>14. Found'
  BY <1>1, <1>9 DEF Held, Found
<1>15. AllSame
  BY <1>1, <1>7, <1>8, <1>9 DEF AllSame, Same, Over
<1> QED
  BY <1>1, <1>10, <1>11, <1>12, <1>13, <1>14, <1>15, StaysServed, StaysNumbered DEF Held

\* The number that is closed is the session's own.
LEMMA CloseHeld ==
  ASSUME Base, Held, NEW c \in Conns, Close(c)
  PROVE  Held' /\ AllSame
<1> DEFINE number == clients[socketID[c]]
<1>1. /\ tpc[c] = "close" /\ tpc' = [tpc EXCEPT ![c] = "null"]
      /\ fd' = [n \in Fds |-> IF n = number THEN Nobody ELSE fd[n]]
      /\ UNCHANGED <<apc, i, newest, clients, currentClientSocket, sock, socketID>>
  BY DEF Close, Thread, acceptVars
<1>2. Session(c) /\ Home(c) = socketID[c] /\ sock[c] = "shut"
  BY <1>1 DEF Session, Running, Home, Held, SocketFollows
<1>3. number \in Fds /\ fd[number] = c /\ c # Nobody
  <2>1. At(socketID[c]) = c
    BY <1>1, <1>2 DEF Held, Served, Exclusive
  <2> QED
    BY <2>1, SlotsAssumption DEF At
<1> HIDE DEF number
<1>4. tpc'[c] = "null" /\ \A d \in Conns \ {c} : tpc'[d] = tpc[d]
  BY <1>1 DEF Base, TypeOK
<1>5. ASSUME NEW d \in Conns
      PROVE  (Session(d)' <=> Session(d)) /\ (Session(d) => Home(d)' = Home(d))
  <2>1. CASE d # c
    BY <1>1, <1>4, <2>1 DEF Session, Setup, Running, Home
  <2>2. CASE d = c
    BY <1>1, <1>2, <1>4, <2>2 DEF Session, Running, Home
  <2> QED
    BY <2>1, <2>2
<1>6. ASSUME NEW d \in Conns PROVE Stays(d)
  <2>1. ASSUME Session(d), d # c, tpc[d] # "null" PROVE At(Home(d))' = At(Home(d))
    <3>1. At(Home(d)) = d /\ d # Nobody
      BY <2>1, SlotsAssumption DEF Held, Served, Exclusive
    <3>2. clients[Home(d)] \in Fds /\ fd[clients[Home(d)]] = d
      BY <3>1 DEF At
    <3>3. fd'[clients[Home(d)]] = d
      BY <1>1, <1>3, <2>1, <3>2
    <3>4. Home(d)' = Home(d)
      BY <1>5, <2>1
    <3> QED
      BY <1>1, <3>1, <3>2, <3>3, <3>4 DEF At
  <2> QED
    BY <1>1, <1>4, <1>5, <2>1 DEF Stays
<1>7. Served'
  BY <1>6, StaysServed DEF Held
<1>8. Numbered'
  <2>1. \A n, m \in Fds : fd'[n] # Nobody /\ fd'[n] = fd'[m] => n = m
    BY <1>1 DEF Held, Numbered
  <2>2. \A n \in Fds : fd'[n] # c
    BY <1>1, <1>3 DEF Held, Numbered
  <2>3. ~Keeps(c)'
    BY <1>1, <1>2, <1>4 DEF Keeps
  <2>4. ASSUME NEW d \in Conns, d # c
        PROVE  (\E n \in Fds : fd'[n] = d) <=> Keeps(d)'
    <3>1. Keeps(d)' <=> Keeps(d)
      BY <1>1, <1>4, <1>5, <2>4 DEF Keeps
    <3>2. \A n \in Fds : fd'[n] = d <=> fd[n] = d
      BY <1>1, <1>3, <2>4, SlotsAssumption
    <3> QED
      BY <3>1, <3>2 DEF Held, Numbered
  <2> QED
    BY <2>1, <2>2, <2>3, <2>4 DEF Numbered
<1>9. OneStarts' /\ SocketFollows'
  BY <1>1, <1>2, <1>4 DEF Held, OneStarts, SocketFollows
<1>10. Found'
  BY <1>1, <1>5 DEF Held, Found
<1>11. AllSame
  BY <1>1, <1>4, <1>5 DEF AllSame, Same, Over
<1> QED
  BY <1>7, <1>8, <1>9, <1>10, <1>11 DEF Held

\* The slot that is freed is the session's own.
LEMMA FreeHeld ==
  ASSUME Base, Held, NEW c \in Conns, FreeSlot(c)
  PROVE  Held' /\ Ends(c)
<1>1. /\ tpc[c] = "null" /\ tpc' = [tpc EXCEPT ![c] = "read"]
      /\ clients' = [clients EXCEPT ![socketID[c]] = 0]
      /\ UNCHANGED <<apc, i, newest, fd, currentClientSocket, sock, socketID>>
  BY DEF FreeSlot, Thread, acceptVars
<1>2. Session(c) /\ Home(c) = socketID[c] /\ sock[c] \in {"shut", "reset"}
  BY <1>1 DEF Session, Running, Home, Held, SocketFollows
<1>3. tpc'[c] = "read" /\ \A d \in Conns \ {c} : tpc'[d] = tpc[d]
  BY <1>1 DEF Base, TypeOK
<1>4. ~Session(c)'
  BY <1>3 DEF Session, Setup, Running
<1>5. ASSUME NEW d \in Conns, d # c
      PROVE  (Session(d)' <=> Session(d)) /\ (Session(d) => Home(d)' = Home(d))
  BY <1>1, <1>3, <1>5 DEF Session, Setup, Running, Home
<1>6. ASSUME NEW d \in Conns, d # c PROVE Stays(d)
  <2>1. Session(d) => Home(d) # socketID[c] /\ Home(d) \in Slots
    BY <1>2, <1>6 DEF Held, Served, AtHome, Exclusive
  <2>2. Session(d) => clients'[Home(d)] = clients[Home(d)]
    BY <1>1, <2>1 DEF Base, TypeOK
  <2> QED
    BY <1>1, <1>3, <1>5, <1>6, <2>2 DEF Stays, At
<1>7. Served'
  <2>1. Stays(c)
    BY <1>4 DEF Stays
  <2> QED
    BY <1>6, <2>1, StaysServed DEF Held
<1>8. Numbered'
  <2>1. \A d \in Conns \ {c} : Keeps(d)' <=> Keeps(d)
    BY <1>1, <1>3, <1>5 DEF Keeps
  <2>2. Keeps(c)' <=> Keeps(c)
    BY <1>1, <1>3, <1>4 DEF Keeps
  <2> QED
    BY <1>1, <2>1, <2>2, StaysNumbered DEF Held
<1>9. OneStarts' /\ SocketFollows'
  BY <1>1, <1>2, <1>3 DEF Held, OneStarts, SocketFollows
<1>10. Found'
  <2>1. apc = "accept" => clients'[i] = 0
    BY <1>1 DEF Base, TypeOK, Phase, Held, Found
  <2>2. apc = "undo" => \A d \in Conns : Session(d)' => Home(d)' # i
    BY <1>4, <1>5 DEF Held, Found
  <2> QED
    BY <1>1, <2>1, <2>2 DEF Found
<1>11. Ends(c)
  BY <1>2, <1>3, <1>4, <1>5 DEF Ends, Same, Over
<1> QED
  BY <1>7, <1>8, <1>9, <1>10, <1>11 DEF Held

LEMMA SessionStep ==
  ASSUME ~overtaken', Base, Held, [Next]_vars
  PROVE  Held' /\ (AllSame \/ \E c \in Conns : Begins(c) \/ Ends(c))
<1>1. CASE UNCHANGED vars
  <2>1. /\ UNCHANGED <<newest, clients, currentClientSocket, fd, sock, tpc, socketID>>
        /\ apc' = apc /\ i' = i
    BY <1>1 DEF vars, acceptVars, threadVars
  <2>2. SocketFollows' /\ Numbered' /\ Served' /\ AllSame
    BY <2>1, Quiet
  <2>3. OneStarts' /\ Found'
    BY <2>1, <2>2 DEF Held, OneStarts, Found, AllSame, Same
  <2> QED
    BY <2>2, <2>3 DEF Held
<1>2. CASE AcceptStep \/ AcceptFails
  <2>1. CASE CreateThread \/ CreateFails
    <3>1. newest \in Conns
      BY <2>1 DEF CreateThread, CreateFails, Loop, Base, Phase, TypeOK
    <3> QED
      BY <2>1, <3>1, CreateHeld
  <2> QED
    BY <1>2, <2>1, ScanHeld, SetHeld DEF AcceptStep
<1>3. ASSUME NEW c \in Conns, \/ Accept(c) \/ ClientMoves(c) \/ Ending(c) \/ Serve(c) \/ Leave(c)
                              \/ Join(c) \/ Joined(c)
      PROVE  Held' /\ (AllSame \/ Begins(c) \/ Ends(c))
  BY <1>3, AcceptHeld, MovesHeld, ThreadHeld, ShutdownHeld, CloseHeld, FreeHeld DEF Ending
<1> QED
  BY <1>1, <1>2, <1>3 DEF Next

LEMMA OvertakenStays == ASSUME TypeOK, [Next]_vars PROVE overtaken => overtaken'
<1> USE DEF vars, AcceptStep, ClientMoves, Move, Connect, HangUp, Reset, Ending
<1>1. CASE UNCHANGED vars
  BY <1>1
<1>2. CASE AcceptStep \/ AcceptFails
  BY <1>2 DEF SkipTaken, NextRound, FindFree, UndoAccept, ReadCount, CountUp, SetCurrent,
              CreateThread, CreateFails, AcceptFails
<1>3. ASSUME NEW c \in Conns, \/ Accept(c) \/ ClientMoves(c) \/ Ending(c) \/ Serve(c) \/ Leave(c)
                              \/ Join(c) \/ Joined(c)
      PROVE  overtaken' = overtaken
  BY <1>3 DEF Accept, Begin, EndOfStream, Shutdown, Close, FreeSlot, ReadMine, CountDown,
              Serve, Leave, ToShutdown, Join, Joined
<1> QED
  BY <1>1, <1>2, <1>3 DEF Next

\* What is inductive: Held, until a hand-off is overtaken.
Kept == Base /\ (overtaken \/ Held)

LEMMA KeptStep == Kept /\ [Next]_vars => Kept'
<1> SUFFICES ASSUME Base, overtaken \/ Held, [Next]_vars, ~overtaken' PROVE Base' /\ Held'
  BY BaseStep DEF Kept
<1>1. ~overtaken
  BY OvertakenStays DEF Base
<1> QED
  BY <1>1, BaseStep, SessionStep

LEMMA AlwaysKept == Spec => []Kept
<1>1. Init => Kept
  BY BaseInit, HeldInit DEF Kept
<1> QED
  BY <1>1, KeptStep, PTL DEF Spec

-----------------------------------------------------------------------------

\* No two sessions share a slot, and none ever uses the connection of another,
\* in whatever order the loop and the threads run, until currentClientSocket is
\* written again before a thread has read it (main.cpp:132, 153).
THEOREM AlwaysServedOnce == Spec => []ServedOnce
<1>1. Kept => ServedOnce
  BY DEF Kept, Held, Served, ServedOnce
<1> QED
  BY <1>1, AlwaysKept, PTL

\* Until then the numbers that are lost are those of connections reset by their
\* client and of those that got no thread, and one for each.
THEOREM AlwaysAccounted == Spec => []FdsAccounted
<1>1. ASSUME Held PROVE Accounted
  <2>1. ASSUME NEW c \in Conns
        PROVE  Cardinality({n \in Fds : fd[n] = c}) = IF Keeps(c) THEN 1 ELSE 0
    <3>1. c # Nobody
      BY SlotsAssumption
    <3>2. CASE Keeps(c)
      <4>1. PICK n \in Fds : fd[n] = c
        BY <1>1, <3>2 DEF Held, Numbered
      <4>2. {m \in Fds : fd[m] = c} = {n}
        BY <1>1, <3>1, <4>1 DEF Held, Numbered
      <4> QED
        BY <3>2, <4>2, FS_Singleton
    <3>3. CASE ~Keeps(c)
      <4>1. {m \in Fds : fd[m] = c} = {}
        BY <1>1, <3>3 DEF Held, Numbered
      <4> QED
        BY <3>3, <4>1, FS_EmptySet
    <3> QED
      BY <3>2, <3>3
  <2> QED
    BY <2>1 DEF Keeps, Accounted
<1>2. Kept => FdsAccounted
  BY <1>1 DEF Kept, FdsAccounted
<1> QED
  BY <1>2, AlwaysKept, PTL

-----------------------------------------------------------------------------
(* The abstract specification                                              *)

\* A slot belongs to the session that is at home in it.
OwnerRight ==
  \A s \in Slots :
    /\ Owner(s) \in Conns \cup {Nobody}
    /\ \A c \in Conns : Owner(s) = c <=> Session(c) /\ Home(c) = s

LEMMA OwnerIs == Served => OwnerRight
<1> SUFFICES ASSUME Served, NEW s \in Slots
             PROVE  /\ Owner(s) \in Conns \cup {Nobody}
                    /\ \A c \in Conns : Owner(s) = c <=> Session(c) /\ Home(c) = s
  BY DEF OwnerRight
<1>1. CASE \E c \in Conns : Session(c) /\ Home(c) = s
  <2>1. Owner(s) = CHOOSE c \in Conns : Session(c) /\ Home(c) = s
    BY <1>1 DEF Owner
  <2>2. Owner(s) \in Conns /\ Session(Owner(s)) /\ Home(Owner(s)) = s
    BY <1>1, <2>1
  <2>3. \A c, d \in Conns : Session(c) /\ Home(c) = s /\ Session(d) /\ Home(d) = s => c = d
    BY DEF Served, Exclusive
  <2> QED
    BY <2>2, <2>3
<1>2. CASE ~\E c \in Conns : Session(c) /\ Home(c) = s
  BY <1>2, SlotsAssumption DEF Owner
<1> QED
  BY <1>1, <1>2

LEMMA BoardInit == Init => Board!Init
<1> SUFFICES ASSUME Init PROVE Board!Init
  OBVIOUS
<1>1. \A c \in Conns : ~Session(c) /\ ~Over(c)
  BY SlotsAssumption DEF Init, Session, Setup, Running, Over
<1>2. \A s \in Slots : Owner(s) = Nobody
  BY <1>1 DEF Owner
<1> QED
  BY <1>1, <1>2 DEF Board!Init, Over

\* Who owns the slots after a step, and who is past.
LEMMA OwnersStay ==
  ASSUME OwnerRight, OwnerRight', AllSame
  PROVE  /\ \A s \in Slots : Owner(s)' = Owner(s)
         /\ {c \in Conns : Over(c)}' = {c \in Conns : Over(c)}
<1>1. ASSUME NEW s \in Slots PROVE Owner(s)' = Owner(s)
  <2>1. \A c \in Conns : Owner(s)' = c <=> Owner(s) = c
    BY DEF OwnerRight, AllSame, Same
  <2>2. Owner(s) \in Conns \cup {Nobody} /\ Owner(s)' \in Conns \cup {Nobody}
    BY DEF OwnerRight
  <2> QED
    BY <2>1, <2>2
<1>2. {c \in Conns : Over(c)}' = {c \in Conns : Over(c)}
  BY DEF AllSame, Same
<1> QED
  BY <1>1, <1>2

LEMMA OwnersBegin ==
  ASSUME OwnerRight, OwnerRight', NEW c \in Conns, Begins(c), NEW h \in Slots, h = Home(c)'
  PROVE  /\ Owner(h) = Nobody /\ ~Over(c) /\ \A s \in Slots : Owner(s) # c
         /\ \A s \in Slots : Owner(s)' = IF s = h THEN c ELSE Owner(s)
         /\ {d \in Conns : Over(d)}' = {d \in Conns : Over(d)}
<1>1. Owner(h) = Nobody /\ ~Over(c) /\ \A s \in Slots : Owner(s) # c
  BY DEF OwnerRight, Begins
<1>2. ASSUME NEW s \in Slots PROVE Owner(s)' = IF s = h THEN c ELSE Owner(s)
  <2>1. /\ Owner(s) \in Conns \cup {Nobody} /\ Owner(s)' \in Conns \cup {Nobody}
        /\ Owner(s)' = c <=> s = h
    BY DEF OwnerRight, Begins
  <2>2. \A d \in Conns \ {c} : Owner(s)' = d <=> Owner(s) = d
    BY DEF OwnerRight, Begins, Same
  <2> QED
    BY <1>1, <2>1, <2>2
<1>3. {d \in Conns : Over(d)}' = {d \in Conns : Over(d)}
  BY DEF Begins, Same
<1> QED
  BY <1>1, <1>2, <1>3

LEMMA OwnersEnd ==
  ASSUME OwnerRight, OwnerRight', NEW c \in Conns, Ends(c), NEW h \in Slots, h = Home(c)
  PROVE  /\ Owner(h) = c
         /\ \A s \in Slots : Owner(s)' = IF s = h THEN Nobody ELSE Owner(s)
         /\ {d \in Conns : Over(d)}' = {d \in Conns : Over(d)} \cup {c}
<1>1. Owner(h) = c
  BY DEF OwnerRight, Ends
<1>2. ASSUME NEW s \in Slots PROVE Owner(s)' = IF s = h THEN Nobody ELSE Owner(s)
  <2>1. /\ Owner(s) \in Conns \cup {Nobody} /\ Owner(s)' \in Conns \cup {Nobody}
        /\ Owner(s)' # c /\ (Owner(s) = c <=> s = h)
    BY DEF OwnerRight, Ends
  <2>2. \A d \in Conns \ {c} : Owner(s)' = d <=> Owner(s) = d
    BY DEF OwnerRight, Ends, Same
  <2> QED
    BY <1>1, <2>1, <2>2
<1>3. {d \in Conns : Over(d)}' = {d \in Conns : Over(d)} \cup {c}
  BY DEF Ends, Same
<1> QED
  BY <1>1, <1>2, <1>3

LEMMA BoardStep ==
  Kept /\ (Held => OwnerRight) /\ (Held => OwnerRight)' /\ [Next]_vars
    => [overtaken' \/ Board!Next]_(Board!vars)
<1> SUFFICES ASSUME Base, overtaken \/ Held, [Next]_vars, ~overtaken',
                    Held => OwnerRight, (Held => OwnerRight)'
             PROVE  [Board!Next]_(Board!vars)
  BY DEF Kept
<1>a. Held /\ Held'
  BY OvertakenStays, SessionStep DEF Base
<1>b. OwnerRight /\ OwnerRight'
  BY <1>a
<1> DEFINE owner == [s \in Slots |-> Owner(s)]
           past == {c \in Conns : tpc[c] \in {"read", "count", "done", "void"}}
<1>0. past = {c \in Conns : Over(c)} /\ past' = {c \in Conns : Over(c)}'
  BY DEF Over
<1>1. CASE AllSame
  <2>1. owner' = owner /\ past' = past
    BY <1>0, <1>b, <1>1, OwnersStay
  <2> QED
    BY <2>1 DEF Board!vars
<1>2. ASSUME NEW c \in Conns, Begins(c) PROVE Board!Next
  <2>1. PICK h \in Slots : h = Home(c)'
    BY <1>2 DEF Begins
  <2>2. /\ Owner(h) = Nobody /\ ~Over(c) /\ \A s \in Slots : Owner(s) # c
        /\ \A s \in Slots : Owner(s)' = IF s = h THEN c ELSE Owner(s)
        /\ past' = past
    BY <1>0, <1>b, <1>2, <2>1, OwnersBegin
  <2>3. c \notin {owner[s] : s \in Slots} \cup past
    BY <1>0, <2>2
  <2>4. owner' = [owner EXCEPT ![h] = c]
    BY <2>2
  <2>5. Board!Admit(c, h)
    BY <2>2, <2>3, <2>4 DEF Board!Admit, Board!Admitted
  <2> QED
    BY <2>5 DEF Board!Next
<1>3. ASSUME NEW c \in Conns, Ends(c) PROVE Board!Next
  <2>1. PICK h \in Slots : h = Home(c)
    BY <1>a, <1>3 DEF Ends, Held, Served, AtHome
  <2>2. /\ Owner(h) = c
        /\ \A s \in Slots : Owner(s)' = IF s = h THEN Nobody ELSE Owner(s)
        /\ past' = past \cup {c}
    BY <1>0, <1>b, <1>3, <2>1, OwnersEnd
  <2>3. owner' = [owner EXCEPT ![h] = Nobody] /\ owner[h] = c /\ c # Nobody
    BY <2>2, SlotsAssumption
  <2>4. Board!Release(h)
    BY <2>2, <2>3 DEF Board!Release
  <2> QED
    BY <2>4 DEF Board!Next
<1> QED
  BY <1>a, <1>1, <1>2, <1>3, SessionStep

\* SocketListen, NewClient and CloseSocket do what Admission promises: each
\* slot goes from nobody to one client and back, once for each client; as long
\* as no hand-off is overtaken.
THEOREM Implements == Spec => ImplementsAdmission
<1>1. Init => Board!Init
  BY BoardInit
<1>2. Held => OwnerRight
  BY OwnerIs DEF Held
<1> QED
  BY <1>1, <1>2, BoardStep, AlwaysKept, PTL DEF Spec, ImplementsAdmission
=============================================================================
