--------------------------------- MODULE Boot ---------------------------------
(***************************************************************************)
(* The server from main() to the accept loop: main.cpp with the            *)
(* constructor of Server (server.cpp) and Socket (socket.cpp), in          *)
(* remote-terminal-server/src.                                             *)
(*                                                                         *)
(* The port of the command line is an int, serverPort an unsigned short;   *)
(* a port that cannot be bound is replaced by a random one, again and      *)
(* again.  The constructor disconnects clients[], which nobody has         *)
(* initialised yet, before main() clears it.                               *)
(***************************************************************************)
EXTENDS Integers, FiniteSets

CONSTANTS
  PortCount,      \* values of an unsigned short: 65536
  PortSpan,       \* the largest port main() takes, and rand() is cut to: 65553
  DefaultPort, DefaultClients, MostClients,   \* 6001, 19 and 40
  PortArguments, ClientArguments,   \* numbers on the command line; 0 is any
                                    \* that is missing or not a number
  Memory,         \* what the memory of clients[] may hold
  Numbers,        \* descriptor numbers the process can get
  StandardInput   \* what number 0 may be at the start; 1 and 2 are files

ASSUME BootAssumption ==
  /\ PortCount \in Nat \ {0} /\ PortSpan \in Nat /\ PortCount <= PortSpan
  /\ DefaultPort \in 1 .. PortCount - 1
  /\ DefaultClients \in Nat /\ MostClients \in Nat
  /\ PortArguments \subseteq Int /\ ClientArguments \subseteq Int
  /\ Memory \subseteq Int /\ {0, 1, 2} \subseteq Numbers /\ Numbers \subseteq Nat
  /\ StandardInput \subseteq {"file", "socket", "closed"}

VARIABLES
  stage,        \* where the main thread is
  descriptor,   \* what a number is: "closed", "file", a connected "socket",
                \* or the one made here, "listener"
  serverPort,   \* the port that is printed
  sinPort,      \* listenSocketProperties.sin_port, the one that is bound
  maxClients, listenSocket, clients, numClients,
  bound,        \* the port the listening socket has, -1 for none
  taken         \* ports that cannot be bound

bootVars == <<stage, descriptor, serverPort, sinPort, maxClients, listenSocket,
              clients, numClients, bound, taken>>

Ports == 0 .. PortCount - 1
Stages == {"main", "server", "socket", "properties", "bind", "disconnect", "reset",
           "listen", "accept", "exit"}

BootTypeOK ==
  /\ stage \in Stages
  /\ descriptor \in [Numbers -> {"closed", "file", "socket", "listener"}]
  /\ maxClients \in Nat
  /\ serverPort \in IF stage \in {"main", "server", "exit"} THEN 0 .. PortSpan ELSE Ports
  /\ sinPort \in Ports
  /\ listenSocket \in Numbers \cup {-1} /\ numClients \in Nat
  /\ DOMAIN clients \subseteq Nat /\ \A i \in DOMAIN clients : clients[i] \in Memory \cup {0}
  /\ bound \in Ports \cup {-1} /\ taken \subseteq Ports

BootInit ==
  /\ stage = "main"
  /\ \E input \in StandardInput :
       descriptor = [n \in Numbers |-> IF n = 0 THEN input
                                       ELSE IF n \in {1, 2} THEN "file" ELSE "closed"]
  /\ serverPort = DefaultPort /\ sinPort = 0 /\ maxClients = DefaultClients
  /\ listenSocket = -1 /\ clients = [i \in {} |-> 0] /\ numClients = 0
  /\ bound = -1 /\ taken \in SUBSET (Ports \ {0})

-----------------------------------------------------------------------------

\* main() takes what is in range from the command line.
Main(port, most) ==
  /\ stage = "main" /\ stage' = "server"
  /\ serverPort' = IF port \in 1 .. PortSpan THEN port ELSE DefaultPort
  /\ maxClients' = IF most \in 1 .. MostClients THEN most ELSE DefaultClients
  /\ UNCHANGED <<descriptor, sinPort, listenSocket, clients, numClients, bound, taken>>

NoKey ==
  /\ stage = "main" /\ stage' = "exit"
  /\ UNCHANGED <<descriptor, serverPort, sinPort, maxClients, listenSocket, clients, numClients, bound, taken>>

\* Mutant: the port is kept as it was given.
ConstructWide ==
  /\ stage = "server" /\ stage' = "socket"
  /\ clients' \in [0 .. maxClients -> Memory]
  /\ UNCHANGED <<descriptor, serverPort, sinPort, maxClients, listenSocket, numClients, bound, taken>>

\* Server::Server: the port becomes an unsigned short, clients[] is allocated.
Construct ==
  /\ stage = "server" /\ stage' = "socket"
  /\ serverPort' = serverPort % PortCount
  /\ clients' \in [0 .. maxClients -> Memory]
  /\ UNCHANGED <<descriptor, sinPort, maxClients, listenSocket, numClients, bound, taken>>

\* socket() gets the lowest number that is not open, or fails.
SetListenSocket ==
  /\ stage = "socket"
  /\ \/ /\ \E n \in Numbers :
             /\ descriptor[n] = "closed" /\ \A m \in Numbers : descriptor[m] = "closed" => n <= m
             /\ listenSocket' = n /\ descriptor' = [descriptor EXCEPT ![n] = "listener"]
        /\ stage' = "properties"
     \/ stage' = "exit" /\ UNCHANGED <<descriptor, listenSocket>>
  /\ UNCHANGED <<serverPort, sinPort, maxClients, clients, numClients, bound, taken>>

SetListenSocketProperties ==
  /\ stage = "properties" /\ stage' = "bind"
  /\ sinPort' = serverPort
  /\ UNCHANGED <<descriptor, serverPort, maxClients, listenSocket, clients, numClients, bound, taken>>

\* The ports bind() may give: 0 stands for any that is free.
Bindable == {port \in Ports \ ({0} \cup taken) : sinPort \in {0, port}}

ListenSocketBind ==
  /\ stage = "bind" /\ stage' = "disconnect"
  /\ bound' \in Bindable
  /\ UNCHANGED <<descriptor, serverPort, sinPort, maxClients, listenSocket, clients, numClients, taken>>

\* Mutant: the new port is for the socket only, and the old one is printed.
RetryForgotten(random) ==
  /\ stage = "bind" /\ Bindable = {}
  /\ sinPort' = random % PortCount
  /\ UNCHANGED <<stage, descriptor, serverPort, maxClients, listenSocket, clients, numClients, bound, taken>>

\* Mutant: the socket's properties are not set again.
RetrySame(random) ==
  /\ stage = "bind" /\ Bindable = {}
  /\ serverPort' = random % PortCount
  /\ UNCHANGED <<stage, descriptor, sinPort, maxClients, listenSocket, clients, numClients, bound, taken>>

\* Another port, by rand() % 65553 + 1 as an unsigned short, when that one
\* cannot be bound: SetServerPort, SetListenSocketProperties and bind() again.
Retry(random) ==
  /\ stage = "bind" /\ stage' = "properties" /\ Bindable = {}
  /\ serverPort' = random % PortCount
  /\ UNCHANGED <<descriptor, sinPort, maxClients, listenSocket, clients, numClients, bound, taken>>

\* Mutant: close() whatever shutdown() says.
DisconnectAnyway ==
  /\ stage = "disconnect" /\ stage' = "reset"
  /\ descriptor' = [n \in Numbers |->
       IF \E i \in DOMAIN clients : clients[i] = n THEN "closed" ELSE descriptor[n]]
  /\ clients' = [i \in DOMAIN clients |-> 0]
  /\ UNCHANGED <<serverPort, sinPort, maxClients, listenSocket, numClients, bound, taken>>

\* What memory happened to hold is shut down and, if that works, closed.  It
\* works for connected sockets: not for files, nor for a socket that does not
\* listen yet.
SocketsDisconnect ==
  /\ stage = "disconnect" /\ stage' = "reset"
  /\ descriptor' = [n \in Numbers |->
       IF descriptor[n] = "socket" /\ \E i \in DOMAIN clients : clients[i] = n
       THEN "closed" ELSE descriptor[n]]
  /\ clients' = [i \in DOMAIN clients |-> 0]
  /\ UNCHANGED <<serverPort, sinPort, maxClients, listenSocket, numClients, bound, taken>>

\* The port is printed, and clients[] is cleared.
ResetSockets ==
  /\ stage = "reset" /\ stage' = "listen"
  /\ clients' = [i \in DOMAIN clients |-> 0]
  /\ UNCHANGED <<descriptor, serverPort, sinPort, maxClients, listenSocket, numClients, bound, taken>>

\* SocketListen: listen() again and again, until it works.
Listen ==
  /\ stage = "listen" /\ stage' \in {"listen", "accept"}
  /\ UNCHANGED <<descriptor, serverPort, sinPort, maxClients, listenSocket, clients, numClients, bound, taken>>

-----------------------------------------------------------------------------

BootNext ==
  \/ (\E port \in PortArguments, most \in ClientArguments : Main(port, most))
  \/ NoKey \/ Construct \/ SetListenSocket \/ SetListenSocketProperties
  \/ ListenSocketBind
  \/ (\E random \in 1 .. PortSpan : Retry(random))
  \/ SocketsDisconnect \/ ResetSockets \/ Listen
=============================================================================
