------------------------------- MODULE Process -------------------------------
(***************************************************************************)
(* The server process: the main thread of module Boot, and, once that      *)
(* accepts connections, the sessions of module WorkDir.                    *)
(***************************************************************************)
EXTENDS Boot, WorkDir

vars == <<bootVars, workVars>>

Init == BootInit /\ WorkInit

\* Nothing of the sessions is left for a server without a key or a socket.
Next ==
  \/ BootNext /\ UNCHANGED workVars
  \/ stage = "accept" /\ WorkNext /\ UNCHANGED bootVars
  \/ stage = "exit" /\ UNCHANGED vars

Spec == Init /\ [][Next]_vars

\* The main thread runs, and rand() comes to every port at some time.
FairSpec ==
  /\ Spec
  /\ WF_vars(BootNext /\ UNCHANGED workVars)
  /\ \A random \in 1 .. PortSpan : SF_vars(Retry(random) /\ UNCHANGED workVars)

TypeOK == BootTypeOK /\ WorkTypeOK

-----------------------------------------------------------------------------
(* Set-up                                                                  *)

\* What the sessions take for granted: the accept loop begins with free slots,
\* an open listening socket, and descriptor 0 in use, so that no connection is
\* ever given the number that marks a free slot; although the constructor
\* disconnected whatever clients[] held before anything set it.
ReadyForSlots ==
  stage = "listen" =>
    /\ listenSocket \in Numbers /\ descriptor[listenSocket] = "listener"
    /\ \E n \in Numbers : n = 0 /\ descriptor[n] # "closed"
    /\ DOMAIN clients = 0 .. maxClients /\ \A i \in DOMAIN clients : clients[i] = 0
    /\ numClients = 0

\* The port the server prints is the one it listens on, through the cut to 16
\* bits and any number of retries; or it prints 0, where the port came out as
\* 65536 and the system chose one.
PortKnown ==
  stage \in {"reset", "listen", "accept"} =>
    /\ bound \in Ports \ ({0} \cup taken)
    /\ serverPort \in {0, bound}

\* Whatever port is asked for, the server gets one that is free if there is any,
\* or has no socket to give it to (socket.cpp:60-69): one given on the command
\* line that is in use too, although "it will take any available port (if not
\* specified as a parameter)" (README.md:39) promises it for the default only.
TakesAvailable ==
  (Ports \ ({0} \cup taken) # {}) => <>(stage \in {"listen", "accept", "exit"})

-----------------------------------------------------------------------------
(* Directories                                                             *)

\* A command that no "cd" of its session overtook is run as it was asked for,
\* and, if no other session set the directory after its prompt, where its
\* prompt said; although the console thread reads the slot's directory twice,
\* the process has one for all, and a client thread may write both.
RunsAsPrompted ==
  [][\A s \in Slots : Fork(s) /\ asked[s] # NoCommand =>
       /\ sPacket[s] = asked[s]
       /\ mover = s => cwd = told[s]]_vars

\* "Current directory of client thread" (main.cpp:46), "Ability to change
\* directories with in-built cd commands (cd directory_name, ...)"
\* (README.md:29): a name that the session's own directory has leads there.
CdFromOwn ==
  [][\A s \in Slots, name \in Names :
       CdName(s, name) /\ Append(directory[s], name) \in Directories
       => cwd' = Append(directory[s], name) /\ cpc'[s] = "getcwd"]_vars
=============================================================================
