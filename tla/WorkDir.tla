------------------------------- MODULE WorkDir -------------------------------
(***************************************************************************)
(* Directories of the command sessions: "cd" in NewClient, the prompt of   *)
(* SendTerminalServerOutput and the start of a command in NewConsole, in   *)
(* remote-terminal-server/src/main.cpp.                                    *)
(*                                                                         *)
(* Each slot has a directory of its own, but chdir(), getcwd() and fork()  *)
(* work on the one of the process, which the client thread and the console *)
(* thread of every session set in turn.  They also share the slot's        *)
(* command.                                                                *)
(*                                                                         *)
(* Abstractions.  A directory is the sequence of names that leads to it    *)
(* from the root; a command is one of Commands.  A slot is used by one     *)
(* session; pipes and output are in module Console.                        *)
(***************************************************************************)
EXTENDS Naturals, Sequences, SequencesExt

CONSTANTS
  Slots,      \* sessions
  Names,      \* names of directories
  Directories,   \* those that exist, sequences of names
  Home,       \* the user's home directory, where the server was started too
  Commands,   \* what is run
  NoCommand   \* what a slot has before the first

ASSUME WorkDirAssumption ==
  /\ Directories \subseteq Seq(Names) /\ Home \in Directories /\ << >> \in Directories
  /\ \A d \in Directories : d # << >> => Front(d) \in Directories
  /\ {"cd", NoCommand} \cap Commands = {}

VARIABLES
  cwd,           \* the directory of the process
  mover,         \* history: the session that set it last
  directory, command,   \* of each ClientConsole[]
  cpc, startDirectory,  \* client threads: where, what getcwd() said
  jpc, sPacket,  \* console threads: where, the command they took,
  aim,           \* the directory they are about to set
  told,          \* history: the one their prompt showed
  asked          \* history: the last command asked for, if no "cd" was since

shared == <<cwd, mover, directory, command>>
clientLocals == <<cpc, startDirectory>>
consoleLocals == <<jpc, sPacket, aim, told>>
workVars == <<shared, clientLocals, consoleLocals, asked>>

WorkTypeOK ==
  /\ cwd \in Directories /\ mover \in Slots \cup {NoCommand}
  /\ directory \in [Slots -> Directories]
  /\ command \in [Slots -> Commands \cup {"cd", NoCommand}]
  /\ cpc \in [Slots -> {"none", "recv", "getcwd", "assign", "command", "prompt"}]
  /\ startDirectory \in [Slots -> Directories]
  /\ jpc \in [Slots -> {"none", "prompt", "aim", "chdir", "command", "fork"}]
  /\ aim \in [Slots -> Directories] /\ told \in [Slots -> Directories]
  /\ sPacket \in [Slots -> Commands \cup {"cd", NoCommand}]
  /\ asked \in [Slots -> Commands \cup {NoCommand}]

WorkInit ==
  /\ cwd = Home /\ mover = NoCommand
  /\ directory = [s \in Slots |-> << >>] /\ command = [s \in Slots |-> NoCommand]
  /\ cpc = [s \in Slots |-> "none"] /\ startDirectory = [s \in Slots |-> << >>]
  /\ jpc = [s \in Slots |-> "none"] /\ sPacket = [s \in Slots |-> NoCommand]
  /\ aim = [s \in Slots |-> << >>] /\ told = [s \in Slots |-> << >>]
  /\ asked = [s \in Slots |-> NoCommand]

-----------------------------------------------------------------------------

ToClient(s, from, to) == cpc[s] = from /\ cpc' = [cpc EXCEPT ![s] = to]
ToConsole(s, from, to) == jpc[s] = from /\ jpc' = [jpc EXCEPT ![s] = to]

Chdir(s, d) == cwd' = d /\ mover' = s

\* NewClient starts in whatever directory the process has by then.
StartSession(s) ==
  /\ ToClient(s, "none", "recv")
  /\ directory' = [directory EXCEPT ![s] = cwd]
  /\ UNCHANGED <<cwd, mover, command, startDirectory, consoleLocals, asked>>

\* chdir(), if the directory exists.
ChangeDirectory(s, d) ==
  /\ cpc[s] = "recv"
  /\ IF d \in Directories
     THEN Chdir(s, d) /\ ToClient(s, "recv", "getcwd")
     ELSE UNCHANGED <<cwd, mover>> /\ ToClient(s, "recv", "command")
  /\ asked' = [asked EXCEPT ![s] = NoCommand]
  /\ UNCHANGED <<directory, command, startDirectory, consoleLocals>>

\* "cd .." starts from the slot's directory, a name from that of the process;
\* "cd" and "cd /path" start nowhere.
CdUp(s) ==
  ChangeDirectory(s, IF directory[s] = << >> THEN << >> ELSE Front(directory[s]))
CdName(s, name) == ChangeDirectory(s, Append(cwd, name))
CdTo(s, d) == ChangeDirectory(s, d)

\* getcwd() and its result; the buffer is not read again after SetDirectory.
Getcwd(s) ==
  /\ ToClient(s, "getcwd", "assign")
  /\ startDirectory' = [startDirectory EXCEPT ![s] = cwd]
  /\ UNCHANGED <<shared, consoleLocals, asked>>

SetDirectory(s) ==
  /\ ToClient(s, "assign", "command")
  /\ directory' = [directory EXCEPT ![s] = startDirectory[s]]
  /\ startDirectory' = [startDirectory EXCEPT ![s] = << >>]
  /\ UNCHANGED <<cwd, mover, command, consoleLocals, asked>>

SetCommand(s) ==
  /\ ToClient(s, "command", "prompt")
  /\ command' = [command EXCEPT ![s] = "cd"]
  /\ UNCHANGED <<cwd, mover, directory, startDirectory, consoleLocals, asked>>

\* SendTerminalServerOutput, called by NewClient, the only thread that sets
\* the slot's directory once it runs.
PromptAfterCd(s) ==
  /\ ToClient(s, "prompt", "recv")
  /\ Chdir(s, directory[s])
  /\ UNCHANGED <<directory, command, startDirectory, consoleLocals, asked>>

\* Mutant: the thread is started before the command is set.
RunCommandEarly(s, k) ==
  /\ cpc[s] = "recv"
  /\ ToConsole(s, "none", "prompt")
  /\ asked' = [asked EXCEPT ![s] = k]
  /\ UNCHANGED <<shared, clientLocals, sPacket, aim, told>>

\* A command, with no console active in the slot.
RunCommand(s, k) ==
  /\ cpc[s] = "recv"
  /\ ToConsole(s, "none", "prompt")
  /\ command' = [command EXCEPT ![s] = k]
  /\ asked' = [asked EXCEPT ![s] = k]
  /\ UNCHANGED <<cwd, mover, directory, clientLocals, sPacket, aim, told>>

\* NewConsole: SendTerminalServerOutput sends the slot's directory ...
Prompt(s) ==
  /\ ToConsole(s, "prompt", "aim")
  /\ told' = [told EXCEPT ![s] = directory[s]]
  /\ UNCHANGED <<shared, clientLocals, sPacket, aim, asked>>

\* ... takes it a second time, for chdir() ...
Aim(s) ==
  /\ ToConsole(s, "aim", "chdir")
  /\ aim' = [aim EXCEPT ![s] = directory[s]]
  /\ UNCHANGED <<shared, clientLocals, sPacket, told, asked>>

\* ... and sets it: as it was, or, if a "cd" wrote the string in place, as it is.
SetAim(s) ==
  /\ ToConsole(s, "chdir", "command")
  /\ \E d \in {aim[s], directory[s]} : Chdir(s, d)
  /\ aim' = [aim EXCEPT ![s] = << >>]
  /\ UNCHANGED <<directory, command, clientLocals, sPacket, told, asked>>

\* The command, as it is by then ...
ReadCommand(s) ==
  /\ ToConsole(s, "command", "fork")
  /\ sPacket' = [sPacket EXCEPT ![s] = command[s]]
  /\ UNCHANGED <<shared, clientLocals, aim, told, asked>>

\* ... and fork(): the child runs sPacket in cwd.  The next command may come
\* as soon as it ended.
Fork(s) ==
  /\ ToConsole(s, "fork", "none")
  /\ sPacket' = [sPacket EXCEPT ![s] = NoCommand]
  /\ told' = [told EXCEPT ![s] = << >>]
  /\ UNCHANGED <<shared, clientLocals, aim, asked>>

-----------------------------------------------------------------------------

WorkNext ==
  \E s \in Slots :
    \/ StartSession(s)
    \/ CdUp(s) \/ (\E name \in Names : CdName(s, name))
    \/ (\E d \in Directories : CdTo(s, d))
    \/ Getcwd(s) \/ SetDirectory(s) \/ SetCommand(s) \/ PromptAfterCd(s)
    \/ (\E k \in Commands : RunCommand(s, k))
    \/ Prompt(s) \/ Aim(s) \/ SetAim(s) \/ ReadCommand(s) \/ Fork(s)
=============================================================================
