----------------------------- MODULE ProcessProofs -----------------------------
(***************************************************************************)
(* Proofs about the server process, for any number of ports, slots in      *)
(* clients[], sessions, directories and commands.                          *)
(***************************************************************************)
EXTENDS Process, TLAPS

-----------------------------------------------------------------------------
(* Types                                                                   *)

LEMMA WorkTypeInit == WorkInit => WorkTypeOK
BY WorkDirAssumption DEF WorkInit, WorkTypeOK, WorkDirAssumption

\* The steps of one session.
ClientStep(s) ==
  \/ StartSession(s) \/ (\E d \in Seq(Names) : ChangeDirectory(s, d))
  \/ Getcwd(s) \/ SetDirectory(s) \/ SetCommand(s) \/ PromptAfterCd(s)
ConsoleStep(s) ==
  (\E k \in Commands : RunCommand(s, k))
  \/ Prompt(s) \/ Aim(s) \/ SetAim(s) \/ ReadCommand(s) \/ Fork(s)

LEMMA WorkSteps ==
  ASSUME WorkTypeOK, WorkNext
  PROVE  \E s \in Slots : ClientStep(s) \/ ConsoleStep(s)
<1>1. PICK s \in Slots :
        \/ StartSession(s)
        \/ CdUp(s) \/ (\E name \in Names : CdName(s, name))
        \/ (\E d \in Directories : CdTo(s, d))
        \/ Getcwd(s) \/ SetDirectory(s) \/ SetCommand(s) \/ PromptAfterCd(s)
        \/ (\E k \in Commands : RunCommand(s, k))
        \/ Prompt(s) \/ Aim(s) \/ SetAim(s) \/ ReadCommand(s) \/ Fork(s)
  BY DEF WorkNext
<1>2. cwd \in Seq(Names) /\ directory[s] \in Directories /\ Directories \subseteq Seq(Names)
  BY WorkDirAssumption DEF WorkDirAssumption, WorkTypeOK
<1>3. CdUp(s) => \E d \in Seq(Names) : ChangeDirectory(s, d)
  <2>1. << >> \in Seq(Names) /\ (directory[s] # << >> => Front(directory[s]) \in Seq(Names))
    BY <1>2, WorkDirAssumption DEF WorkDirAssumption
  <2> QED
    BY <2>1 DEF CdUp
<1>4. ASSUME NEW name \in Names, CdName(s, name) PROVE \E d \in Seq(Names) : ChangeDirectory(s, d)
  <2>1. Append(cwd, name) \in Seq(Names)
    BY <1>2
  <2> QED
    BY <1>4, <2>1 DEF CdName
<1>5. ASSUME NEW d \in Directories, CdTo(s, d) PROVE \E e \in Seq(Names) : ChangeDirectory(s, e)
  BY <1>2, <1>5 DEF CdTo
<1> QED
  BY <1>1, <1>3, <1>4, <1>5, Zenon DEF ClientStep, ConsoleStep

LEMMA WorkTypeNext ==
  ASSUME WorkTypeOK, NEW s \in Slots, ClientStep(s) \/ ConsoleStep(s)
  PROVE  WorkTypeOK'
<1> USE DEF ToClient, ToConsole, Chdir
<1>1. CASE StartSession(s)
  BY <1>1 DEF StartSession, WorkTypeOK, consoleLocals
<1>2. ASSUME NEW d \in Seq(Names), ChangeDirectory(s, d) PROVE WorkTypeOK'
  BY <1>2 DEF ChangeDirectory, WorkTypeOK, consoleLocals
<1>3. CASE Getcwd(s)
  BY <1>3 DEF Getcwd, WorkTypeOK, shared, consoleLocals
<1>4. CASE SetDirectory(s)
  BY <1>4, WorkDirAssumption DEF WorkDirAssumption, SetDirectory, WorkTypeOK, consoleLocals
<1>5. CASE SetCommand(s)
  BY <1>5 DEF SetCommand, WorkTypeOK, consoleLocals
<1>6. CASE PromptAfterCd(s)
  BY <1>6 DEF PromptAfterCd, WorkTypeOK, consoleLocals
<1>7. ASSUME NEW k \in Commands, RunCommand(s, k) PROVE WorkTypeOK'
  BY <1>7 DEF RunCommand, WorkTypeOK, clientLocals
<1>8. CASE Prompt(s) \/ Aim(s)
  BY <1>8 DEF Prompt, Aim, WorkTypeOK, shared, clientLocals
<1>9. CASE ReadCommand(s)
  BY <1>9 DEF ReadCommand, WorkTypeOK, shared, clientLocals
<1>10. CASE Fork(s)
  BY <1>10, WorkDirAssumption DEF WorkDirAssumption, Fork, WorkTypeOK, shared, clientLocals
<1>11. CASE SetAim(s)
  BY <1>11, WorkDirAssumption DEF WorkDirAssumption, SetAim, WorkTypeOK, clientLocals
<1> QED
  BY <1>1, <1>2, <1>3, <1>4, <1>5, <1>6, <1>7, <1>8, <1>9, <1>10, <1>11 DEF ClientStep, ConsoleStep

LEMMA WorkTypeStutter == WorkTypeOK /\ UNCHANGED workVars => WorkTypeOK'
BY DEF WorkTypeOK, workVars, shared, clientLocals, consoleLocals

-----------------------------------------------------------------------------
(* Set-up                                                                  *)

LEMMA BootTypeInit == BootInit => BootTypeOK
<1> SUFFICES ASSUME BootInit PROVE BootTypeOK
  OBVIOUS
<1>1. descriptor \in [Numbers -> {"closed", "file", "socket", "listener"}]
  BY BootAssumption DEF BootAssumption, BootInit
<1>2. DefaultPort \in 0 .. PortSpan /\ DefaultClients \in Nat
  BY BootAssumption DEF BootAssumption
<1> QED
  BY <1>1, <1>2, BootAssumption DEF BootAssumption, BootInit, BootTypeOK, Stages, Ports

\* The part of the types, and of what the accept loop finds, that each step of
\* the main thread could break.
SetUp == /\ stage \notin {"main", "server", "exit"} => DOMAIN clients = 0 .. maxClients
         /\ stage \in {"listen", "accept"} => \A i \in DOMAIN clients : clients[i] = 0
         /\ numClients = 0
Listener == stage \in {"properties", "bind", "disconnect", "reset", "listen", "accept"} =>
              /\ listenSocket \in Numbers /\ descriptor[listenSocket] = "listener"
              /\ descriptor[0] # "closed"
NoSockets == \A n \in Numbers : descriptor[n] # "socket"
PortBound == /\ stage = "bind" => sinPort = serverPort
             /\ stage \in {"disconnect", "reset", "listen", "accept"} =>
                  bound \in Ports \ ({0} \cup taken) /\ serverPort \in {0, bound}

\* An unsigned short holds what is left of a larger number.
LEMMA Cut == ASSUME NEW n \in Nat PROVE n % PortCount \in Ports
BY BootAssumption DEF BootAssumption, Ports

LEMMA BootTypeNext == ASSUME BootTypeOK, BootNext PROVE BootTypeOK'
<1>a. /\ PortCount \in Nat \ {0} /\ PortSpan \in Nat /\ Ports \subseteq 0 .. PortSpan
      /\ DefaultPort \in 0 .. PortSpan /\ DefaultClients \in Nat /\ Numbers \subseteq Nat
  BY BootAssumption DEF BootAssumption, Ports
<1>1. ASSUME NEW port \in PortArguments, NEW most \in ClientArguments, Main(port, most)
      PROVE  BootTypeOK'
  <2>1. serverPort' \in 0 .. PortSpan
    BY <1>a, <1>1 DEF Main
  <2>2. maxClients' \in Nat
    BY <1>a, <1>1, BootAssumption DEF Main, BootAssumption
  <2> QED
    BY <1>1, <2>1, <2>2 DEF Main, BootTypeOK, Stages
<1>2. CASE NoKey
  BY <1>2 DEF NoKey, BootTypeOK, Stages
<1>3. CASE Construct
  <2>1. serverPort' \in Ports
    <3>1. serverPort \in Nat
      BY <1>a, <1>3 DEF Construct, BootTypeOK
    <3> QED
      BY <1>3, <3>1, Cut DEF Construct
  <2>2. clients' \in [0 .. maxClients -> Memory] /\ maxClients \in Nat
    BY <1>3 DEF Construct, BootTypeOK
  <2> QED
    BY <1>3, <2>1, <2>2 DEF Construct, BootTypeOK, Stages
<1>4. CASE SetListenSocket
  <2>1. serverPort \in Ports /\ serverPort \in 0 .. PortSpan
    BY <1>4, <1>a DEF SetListenSocket, BootTypeOK
  <2> QED
    BY <1>4, <2>1 DEF SetListenSocket, BootTypeOK, Stages
<1>5. CASE ListenSocketBind
  <2>1. bound' \in Ports
    BY <1>5 DEF ListenSocketBind, Bindable
  <2> QED
    BY <1>5, <2>1 DEF ListenSocketBind, BootTypeOK, Stages
<1>6. ASSUME NEW random \in 1 .. PortSpan, Retry(random) PROVE BootTypeOK'
  <2>1. serverPort' \in Ports
    BY <1>6, Cut DEF Retry
  <2> QED
    BY <1>6, <2>1 DEF Retry, BootTypeOK, Stages
<1>7. CASE SocketsDisconnect
  BY <1>7 DEF SocketsDisconnect, BootTypeOK, Stages
<1>8. CASE ResetSockets \/ Listen
  BY <1>8 DEF ResetSockets, Listen, BootTypeOK, Stages
<1>9. CASE SetListenSocketProperties
  <2>1. sinPort' \in Ports
    BY <1>9 DEF SetListenSocketProperties, BootTypeOK
  <2> QED
    BY <1>9, <2>1 DEF SetListenSocketProperties, BootTypeOK, Stages
<1> QED
  BY <1>1, <1>2, <1>3, <1>4, <1>5, <1>6, <1>7, <1>8, <1>9 DEF BootNext

LEMMA PortBoundNext == ASSUME PortBound, BootNext PROVE PortBound'
<1>1. ASSUME NEW port \in PortArguments, NEW most \in ClientArguments, Main(port, most)
      PROVE  PortBound'
  BY <1>1 DEF Main, PortBound
<1>2. ASSUME NEW random \in 1 .. PortSpan, Retry(random) PROVE PortBound'
  BY <1>2 DEF Retry, PortBound
<1>3. CASE ListenSocketBind
  BY <1>3 DEF ListenSocketBind, Bindable, PortBound
<1>4. CASE NoKey \/ Construct \/ SetListenSocket
  BY <1>4 DEF NoKey, Construct, SetListenSocket, PortBound
<1>5. CASE SocketsDisconnect \/ ResetSockets \/ Listen \/ SetListenSocketProperties
  BY <1>5 DEF SocketsDisconnect, ResetSockets, Listen, SetListenSocketProperties, PortBound
<1> QED
  BY <1>1, <1>2, <1>3, <1>4, <1>5 DEF BootNext

LEMMA SetUpNext == ASSUME BootTypeOK, SetUp, BootNext PROVE SetUp'
<1>1. ASSUME NEW port \in PortArguments, NEW most \in ClientArguments, Main(port, most)
      PROVE  SetUp'
  BY <1>1 DEF Main, SetUp
<1>2. ASSUME NEW random \in 1 .. PortSpan, Retry(random) PROVE SetUp'
  BY <1>2 DEF Retry, SetUp
<1>3. CASE Construct
  BY <1>3 DEF Construct, SetUp
<1>4. CASE NoKey \/ SetListenSocket \/ SetListenSocketProperties \/ ListenSocketBind
  BY <1>4 DEF NoKey, SetListenSocket, SetListenSocketProperties, ListenSocketBind, SetUp
<1>5. CASE SocketsDisconnect \/ ResetSockets \/ Listen
  BY <1>5 DEF SocketsDisconnect, ResetSockets, Listen, SetUp
<1> QED
  BY <1>1, <1>2, <1>3, <1>4, <1>5 DEF BootNext

LEMMA ListenerNext ==
  ASSUME BootTypeOK, NoSockets, Listener, BootNext
  PROVE  NoSockets' /\ Listener'
<1> USE DEF NoSockets, Listener, BootTypeOK
<1>1. ASSUME NEW port \in PortArguments, NEW most \in ClientArguments, Main(port, most)
      PROVE  NoSockets' /\ Listener'
  BY <1>1 DEF Main
<1>2. ASSUME NEW random \in 1 .. PortSpan, Retry(random) PROVE NoSockets' /\ Listener'
  BY <1>2 DEF Retry
<1>3. CASE NoKey \/ Construct \/ SetListenSocketProperties \/ ListenSocketBind
  BY <1>3 DEF NoKey, Construct, SetListenSocketProperties, ListenSocketBind
<1>4. CASE SetListenSocket
  <2>1. CASE stage' = "exit" /\ UNCHANGED descriptor
    BY <2>1
  <2>2. ASSUME NEW n \in Numbers, descriptor[n] = "closed",
               \A m \in Numbers : descriptor[m] = "closed" => n <= m,
               listenSocket' = n, descriptor' = [descriptor EXCEPT ![n] = "listener"]
        PROVE  NoSockets' /\ Listener'
    <3>1. 0 \in Numbers /\ n \in Nat
      BY BootAssumption DEF BootAssumption
    <3>2. descriptor[0] = "closed" => n = 0
      BY <2>2, <3>1
    <3> QED
      BY <2>2, <3>1, <3>2
  <2> QED
    BY <1>4, <2>1, <2>2 DEF SetListenSocket
<1>5. CASE SocketsDisconnect
  <2>1. descriptor' = descriptor
    BY <1>5 DEF SocketsDisconnect
  <2> QED
    BY <1>5, <2>1 DEF SocketsDisconnect
<1>6. CASE ResetSockets \/ Listen
  BY <1>6 DEF ResetSockets, Listen
<1> QED
  BY <1>1, <1>2, <1>3, <1>4, <1>5, <1>6 DEF BootNext

LEMMA BootStutter ==
  UNCHANGED bootVars => /\ BootTypeOK => BootTypeOK'
                        /\ PortBound => PortBound'
                        /\ SetUp => SetUp'
                        /\ NoSockets /\ Listener => NoSockets' /\ Listener'
BY DEF bootVars, BootTypeOK, PortBound, SetUp, NoSockets, Listener

\* A step of the process is a step of the main thread, of a session, or none.
LEMMA Steps ==
  ASSUME [Next]_vars
  PROVE  \/ BootNext /\ UNCHANGED workVars
         \/ WorkNext /\ UNCHANGED bootVars
         \/ UNCHANGED bootVars /\ UNCHANGED workVars
BY DEF Next, vars

-----------------------------------------------------------------------------
(* Theorems about the set-up                                               *)

\* Every variable of the process keeps its type.
THEOREM TypeCorrect == Spec => []TypeOK
<1>1. Init => TypeOK
  BY WorkTypeInit, BootTypeInit DEF Init, TypeOK
<1>2. TypeOK /\ [Next]_vars => TypeOK'
  BY Steps, WorkSteps, WorkTypeNext, WorkTypeStutter, BootTypeNext, BootStutter DEF TypeOK
<1> QED
  BY <1>1, <1>2, PTL DEF Spec

\* The port the server prints is the one it listens on, or 0 where the system
\* chose one, whatever the width of ports, the port asked for, and the ones
\* that are taken (socket.cpp:42, 58-70).
THEOREM PortAlwaysKnown == Spec => []PortKnown
<1>1. Init => PortBound
  BY DEF Init, BootInit, PortBound
<1>2. PortBound /\ [Next]_vars => PortBound'
  BY Steps, PortBoundNext, BootStutter
<1>3. PortBound => PortKnown
  BY DEF PortBound, PortKnown
<1> QED
  BY <1>1, <1>2, <1>3, PTL DEF Spec

\* The accept loop begins with free slots and an open listening socket, unless
\* the server was started with a connection for its standard input, which the
\* constructor may then disconnect (server.cpp:18).
THEOREM AlwaysReadyForSlots ==
  ASSUME "socket" \notin StandardInput
  PROVE  Spec => []ReadyForSlots
<1> DEFINE IInv == TypeOK /\ SetUp /\ NoSockets /\ Listener
<1>1. Init => SetUp /\ NoSockets /\ Listener
  BY DEF Init, BootInit, SetUp, NoSockets, Listener
<1>2. IInv /\ [Next]_vars => (SetUp /\ NoSockets /\ Listener)'
  BY Steps, SetUpNext, ListenerNext, BootStutter DEF TypeOK
<1>3. IInv => ReadyForSlots
  BY BootAssumption DEF BootAssumption, SetUp, NoSockets, Listener, ReadyForSlots
<1> QED
  BY <1>1, <1>2, <1>3, TypeCorrect, PTL DEF Spec

-----------------------------------------------------------------------------
(* Theorems about the sessions                                             *)

\* While a command is asked for its session is between messages, and the
\* console thread has, or will find, that command and one directory: the
\* slot's, which it showed, which it sets, and which the process has until
\* another session moves it.
AskedFollows ==
  \A s \in Slots : asked[s] # NoCommand =>
    /\ cpc[s] = "recv"
    /\ jpc[s] \in {"prompt", "aim", "chdir", "command"} => command[s] = asked[s]
    /\ jpc[s] = "fork" => sPacket[s] = asked[s]
    /\ jpc[s] \in {"aim", "chdir", "command", "fork"} => told[s] = directory[s]
    /\ jpc[s] = "chdir" => aim[s] = directory[s]
    /\ jpc[s] \in {"command", "fork"} /\ mover = s => cwd = directory[s]

LEMMA AskedNext == ASSUME WorkTypeOK, AskedFollows, WorkNext PROVE AskedFollows'
<1>1. PICK s \in Slots : ClientStep(s) \/ ConsoleStep(s)
  BY WorkSteps
<1> USE DEF ToClient, ToConsole, Chdir, AskedFollows, WorkTypeOK
<1>2. CASE StartSession(s)
  BY <1>2 DEF StartSession, consoleLocals
<1>3. ASSUME NEW d \in Seq(Names), ChangeDirectory(s, d) PROVE AskedFollows'
  BY <1>3 DEF ChangeDirectory, consoleLocals
<1>4. CASE Getcwd(s) \/ SetDirectory(s) \/ SetCommand(s)
  BY <1>4 DEF Getcwd, SetDirectory, SetCommand, shared, consoleLocals
<1>5. CASE PromptAfterCd(s)
  BY <1>5 DEF PromptAfterCd, consoleLocals
<1>6. ASSUME NEW k \in Commands, RunCommand(s, k) PROVE AskedFollows'
  BY <1>6 DEF RunCommand, clientLocals
<1>7. CASE Prompt(s) \/ Aim(s)
  BY <1>7 DEF Prompt, Aim, shared, clientLocals
<1>8. CASE SetAim(s)
  <2>1. asked[s] # NoCommand => cwd' = directory[s]
    BY <1>8 DEF SetAim
  <2> QED
    BY <1>8, <2>1 DEF SetAim, clientLocals
<1>9. CASE ReadCommand(s) \/ Fork(s)
  BY <1>9 DEF ReadCommand, Fork, shared, clientLocals
<1> QED
  BY <1>1, <1>2, <1>3, <1>4, <1>5, <1>6, <1>7, <1>8, <1>9 DEF ClientStep, ConsoleStep

\* A command that no "cd" of its session overtook is what was asked for, in
\* the directory its prompt showed unless another session moved the process
\* since (main.cpp:319-328, 345-348).
THEOREM AlwaysRunsAsPrompted == Spec => RunsAsPrompted
<1>1. Init => AskedFollows
  BY DEF Init, WorkInit, AskedFollows
<1>2. TypeOK /\ AskedFollows /\ [Next]_vars => AskedFollows'
  <2>1. UNCHANGED workVars /\ AskedFollows => AskedFollows'
    BY DEF workVars, shared, clientLocals, consoleLocals, AskedFollows
  <2> QED
    BY <2>1, Steps, AskedNext DEF TypeOK
<1>3. AskedFollows =>
        [\A s \in Slots : Fork(s) /\ asked[s] # NoCommand =>
           /\ sPacket[s] = asked[s]
           /\ mover = s => cwd = told[s]]_vars
  BY DEF AskedFollows, Fork, ToConsole
<1> QED
  BY <1>1, <1>2, <1>3, TypeCorrect, PTL DEF Spec, RunsAsPrompted
=============================================================================
