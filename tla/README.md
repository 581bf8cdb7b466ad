# Remote Terminal in TLA+

Remote Terminal is a server (`remote-terminal-server`) that executes shell
commands for clients, and a Qt client (`remote-terminal-client`) that sends
them. The server is multi-threaded and takes no lock anywhere; its threads
share descriptor numbers, flags and counters. These modules model it at the
level of single reads, writes and system calls, model-check it on small
instances, and prove what holds for every instance.

Line numbers are those of `src/remote-terminal-server/src/main.cpp` unless
another file is named.

## 1. Inventory

| Part | State | Operations | Hard because |
|---|---|---|---|
| Accept loop, `SocketListen` 106-139, and `Server` (`server.cpp`) | `clients[]` (a number per slot, 0 = free), `currentClientSocket`, `numClients` | scan for a free slot, `accept`, count, publish the slot, create the client thread; `CloseSocket`, counters | hand-off of the slot through one shared variable; unlocked counters; failed `accept`, `shutdown`, `pthread_create`; 0 marks a free slot and is a valid number |
| Client thread, `NewClient` 141-313 | `socketID`, `newConsoleThread` | receive a message: command, input, `cd`, cancel (`X`), close (`C`); end of stream; give the slot back | races with the console of the slot, also with one left by an earlier client; joins a handle it may not have; its stack is the console's argument |
| Console thread, `NewConsole` 336-381, `HandleClientPipe` 383-475 | the slot's `ThreadData` 41-55 (flags, input, four pipe numbers, pid), its own pid | prompt, fork, copy output, pass input on, stop, kill, report, wait, close | reads the flags of the slot while the client thread writes them; closes two numbers twice; kills pid + 1; waits for any child |
| Processes | shell and command, inherited descriptors, unread output | run, print, exit, be killed | started and reaped by threads that do not know of each other |
| Working directory | one per process, one remembered per slot | `cd` 209-234, `chdir` 328, `fork` 348 | per process, used as if per session |
| Wire protocol | byte streams; messages encrypted, replies ended by `\|`, `EOT` in the clear | `send`, `recv`, `DecryptString`, `CheckMessages` | unframed; the receiver takes a packet for a message; the client drops and clears what it received |
| Client connection, `client.cpp` | socket, `IsConnected`, `TransmissionEnd`, `ServerOutput` | `Connect`, `run` (receive thread), `Disconnect`, `SendMessage` | two threads, no lock |
| Client window, `frmmain.cpp` | widgets, timers, history of commands | connect, send, cancel, show output, disconnect | acts on flags the receive thread changes |
| Settings and profiles, `settings.cpp`, `profilemanager.cpp`, `frmprofilemanager.cpp` | two encrypted files, the list, the default, the index of the selection, per window a copy of each | load, save, add, edit, delete, choose | files are removed and rewritten, and nobody looks whether it worked; indices remembered across edits; copies read before the last save |
| Encryption, `crypto.cpp` | key, `invalidKey` | encrypt, decrypt | pure, but for a failure that is remembered for ever |
| Server set-up, `main` 62-104, `Server::Server`, `socket.cpp` | port, listening socket, `clients[]` | arguments, bind and retry, listen | a port is cut to 16 bits; `clients[]` is disconnected before it is initialised |

Threads meet in `Service->clients`, `Service->numClients`,
`currentClientSocket`, `ClientConsole[slot]`, in the descriptor table of the
process and in its children. What makes the parts correct:

* accept loop: a session has a slot of its own, whose number is its own
  socket; a slot and its descriptor come back when the session ends; waiting
  clients are admitted;
* sessions: one console in a slot at a time; a cancel is kept and returns; a
  hang-up frees the slot; a command reported as killed is dead; nothing a
  session does ends another one;
* set-up: the accept loop begins with free slots and a listener whose port is
  the one printed, and free if any port is;
* directories: a command runs where its prompt says;
* wire: messages stay apart, all that was said is shown, the end of a command
  arrives;
* client: the window returns to a state from which the user can go on; a
  disconnect ends both threads and gives the socket back;
* settings and profiles: what was saved is what is loaded; at most one default;
  what is connected to is what is selected or was typed since.

The hazards behind these, line by line, are in `PROJECT.json`.

## 2. The modules

| Module | Contents |
|---|---|
| `Boot` | the main thread from the command line to the accept loop |
| `WorkDir` | `cd`, prompts and the start of commands, over one directory of the process |
| `Process` | the server process: `Boot`, then the sessions of `WorkDir`; their properties |
| `ProcessProofs`, `MCProcess` | theorems about `Process`, instances |
| `Admission` | abstract: a connection gets a slot nobody else has and keeps it until it leaves |
| `Slots` | the accept loop, the ends of the client threads, the counters |
| `SlotsProperties` | properties of `Slots`, mapping to `Admission` |
| `SlotsProofs`, `MCSlots` | theorems about `Slots`, instances |
| `JobBoard` | abstract: a job (command) has a slot to itself and is reported as ended only when its shell is dead |
| `Console` | client threads, console threads, slots, descriptors, pipes and processes |
| `ConsoleProperties` | what holds of `Console`, what its comments say and does not hold, the inductive invariant, the mappings to `JobBoard` and `Admission` |
| `ConsoleProofs` | the theorems about `Console` |
| `BoardProofs` | that `Console` implements `JobBoard` and `Admission` |
| `MCConsole` | instances of `Console` |
| `Dialogue` | abstract: a user asks for one command at a time, which is run or told to have failed, answered in texts, and over when all of them were shown or missed |
| `Wire`, `MCWire` | messages and texts as pieces of byte streams, between both programs; instances |
| `WireProperties` | properties of `Wire`, the mapping to `Dialogue`, the inductive invariant |
| `WireProofs` | theorems about `Wire`, and that it implements `Dialogue` |
| `Link` | abstract: one connection at a time, made, dropped, over; commands go to the one in use |
| `Client` | the window, the receive threads, their flags, sockets and the command history |
| `ClientProperties`, `MCClient` | properties of `Client` with its inductive invariant, the mapping to `Link`; instances |
| `ClientProofs` | theorems about `Client`, and that it implements `Link` |
| `Profiles` | windows, their profile managers and the two files |
| `ProfilesProperties`, `MCProfiles` | properties of `Profiles`, instances |
| `ProfilesProofs` | theorems about `Profiles`: in memory, and in the files |
| `Least` | a lemma: a finite set of numbers has a least one |

`Process` composes `Boot` and `WorkDir`: the main thread first, then any
number of sessions. What it hands over, `ReadyForSlots`, is what `Slots` and
`Console` begin with. `Slots` and `Console` meet in `Admission`, and both
implement it: `Slots` in the steps of the accept loop (until a hand-off is
overtaken), `Console` with one atomic `Accept` and all that sessions do to a slot
afterwards. `Wire` has the server in steps of a message and a flag, the client in
steps of an access to what its two threads share; `Console` and `Client` have
each program in steps of a thread, and `Client` has the server's side of a connection as three free actions: it may
answer a command with packets, close, or reset.

### Console and the code

`cpc`, `cslot` and `handle` are a client thread's place in `NewClient`, its
`socketID` and `newConsoleThread`; `jpc`, `jslot`, `jpid` are a console
thread's place, `socketID` and `pipeProcessID`. `ClientConsole[s]` has the
fields of `ThreadData` that the control depends on. `fd` maps each descriptor
number to the object it refers to, and the lowest free number is given out
first, as the kernel does: that is what a number closed twice runs into.
`proc`, `pids` and `image` are the processes, the order they got their ids in,
and the pipe ends a child holds.

One action is a run of code between two points where another thread can make a
difference. `recv()` returning is split by message: `Dropped`, `Builtin`,
`RunCommand`, `ThreadFails`, `PipeFails`, `NextInput`/`FlagInput`, `Cancel`
then `Joined` or `JoinUndefined`, `EndOfStream` (0 or an error) and the rest of
`Leave`. `CloseSocket` is `Shutdown`,
`CloseNumber`, `FreeSlot`. A console runs `ReadArgument` or `ReadDangling`,
`Prompt`, `Fork` or `ForkFails`, `Parent`, then its loop (`ReadOutput`,
`ReadForeign`, `ReadNothing`, `WriteInput`, `ClearInput`, `LeaveLoop`), `Kill`
or `KillAll`, `Report`, `ClearExit`, `Deactivate`, `Wait`, and four `CloseAll` steps.
`Sigpipe` and `InputRace` end the process where a signal or undefined
behaviour may. After `up` is FALSE nothing moves.

Left out of `Console`: the text of commands and output (a chunk is a count; `Wire`
has the texts), the working directory (`WorkDir`), the time-outs in `usleep`, and the `processOpen` check
(408-421), whose result is never used. Two calls of `pipe()` are one step, and
so are the two `close()` calls of `Parent`: within each of these no other thread
can come to a state it could not come to before or after them, up to the names
of the numbers. A `send()` or `write()` is one step that may be put off for ever:
that is a client that does not read, or a command that does not take its input.

### Slots and the code

`apc` and `i` are the accept loop's place and index; `acount` and `tcount` hold
what `GetNumClients()` returned until `SetNumClients()` is called, so a lost
update is possible. `SkipTaken`, `FindFree`, `Accept`, `AcceptFails`,
`UndoAccept`, `ReadCount`, `CountUp`, `SetCurrent`, `CreateThread` and
`CreateFails` are the lines 113-135 in their order. `Begin` reads
`currentClientSocket` (153) when the thread first runs. `Serve` is a message that
is dealt with at once, `Join` one that waits for a console and `Joined` its end,
which may never come. A thread's other steps are those of `CloseSocket` and of
line 307. `overtaken` is history: the loop has set `currentClientSocket` again
before the last thread had read it.

### Client and the code

Line numbers here are those of `remote-terminal-client/src/client.cpp` (C) and
`frmmain.cpp` (F). `IsConnected`, `TransmissionEnd`, `CurrentSocket` and
`ServerOutput` are the fields of `TCPConn` of these names; `ServerOutput` is only
known to be empty or not. `pc[UI]` is the place of the thread of the user
interface, which runs one handler at a time and is `idle` between them; `pc[k]`
is the place of the receive thread of the k-th connection, in `run` (C 99-133).

`ConnectClick`, `CloseApplication`, `SendCommand`, `CancelCommand`, `KeyDown` and
`KeyUp` begin what the user asks for; `CheckMessages`, `Connect` and
`LookUpFails` what the two timers call; `SocketFails` is a `socket()` that returns
-1. `Establish` is what C 85-88 does, with a receive thread (`Connected`) or
without (`Unserved`): the result of `pthread_create` is ignored, and the
connection is then *deaf* (`Deaf` in `ClientProperties`). A handler goes on in
steps wherever it touches `TCPConn`: `Judge` is the test at F 356, `ShowOutput` and
`ShowLastOutput` the two branches, `SetTransmissionEnd` F 373. `TCPClient::Disconnect`
(C 135-145) is `Unflag`, `Unend`, `Shutdown`, `Close` for either thread. `Leave`
is what F 322-333 does to the widgets: it leaves `btnCancel` alone, as the code
does. The two branches of F 281 are `Look`, on what C 91 returns, which is
`IsConnected` as it is by then.

`send()` to a dead connection may raise SIGPIPE, which the client does not handle
either; `OutputRace` is the unlocked use of one `std::string` by two threads. Left
out: the text of output (`Wire`), profiles (`Profiles`) and the geometry of the window.

### Boot, WorkDir and the code

`stage` is the place of the main thread: `Main` and `NoKey` are 73-93,
`Construct` is the constructor up to its socket, `SetListenSocket`,
`SetListenSocketProperties`, `ListenSocketBind` and `Retry` are `socket.cpp`,
`SocketsDisconnect` and `ResetSockets` `server.cpp`, `Listen` the loop at 113.
`serverPort` is printed, `sinPort` is what `bind()` is called with. `serverPort` is an `unsigned int` in `main` and an
`unsigned short` afterwards, so that `Construct` takes it modulo `PortCount`.
`clients` begins with arbitrary values from `Memory`, and `descriptor` says what
each number is, 0 included, for `SocketsDisconnect` closes what it can shut down.

`WorkDir` has one action per system call and shared assignment: `ChangeDirectory`
(224) with its three arguments `CdUp`, `CdName`, `CdTo`; `Getcwd`, `SetDirectory`,
`SetCommand` and `PromptAfterCd` for the rest of a `cd`; `RunCommand`, then
`Prompt` (319-326), `Aim` and `SetAim` (328: the slot's directory is read, and
set), `ReadCommand` and `Fork` of the console thread. `SetAim` may also set the
directory as it is by then, for a `cd` may write the string while `chdir()` reads
it. `CdName` appends to the directory of the process, as `chdir("name")` does.
`mover`, `told` and `asked` are history: who set the directory last, what the
prompt showed, and what was asked for.

### Wire and the code

A message or text is two pieces; `Packets(stream)` are the prefixes `recv()` may
return. `DecryptString` says what a packet is taken for: a whole message for what
it is; the beginning of one for itself or for nothing, since `crypto.cpp` returns
what it has decrypted when the check at the end fails; anything else for nothing.
`Handle` is `NewClient` for a packet: `ChangeDirectory`, `StartConsole` with its two
failures (a `pipe()`, which is not answered, and `pthread_create`, which is, and
ends the session), a cancel, input, or a message dropped. `Joined` is the end of
`pthread_join`, the `Say` actions are what a console sends, `ClearExit` and
`ClearActive` the flags it takes back afterwards (470-471): a next command that
comes before the second is input.

In the client `Receive` is `recv()` and the look at `TransmissionEnd`
(client.cpp 115-117), `Collect` the append (123), `Mark` the flag (124), with
`HasEnd` the search for `EOT`, which must be in one packet. `CheckMessages` is the
copy of the output (frmmain.cpp 343) and the texts it can decrypt between two `|`
(`Lines`), `Judge` the look at the flag (356), `Clear` line 361, `ClearEnd` and
`Unset` lines 372-373. What comes between the copy and the clearing is `late`.

`Patient` is how a user works who waits for the end of a command before the next
message, and cancels after the prompt at the earliest, once. `whole` is history:
no packet has cut or joined what it should not have. With both, the end code is
what keeps messages apart; without them nothing does.

`Dialogue` is what such a user sees. Its `Ask` is `SendCommand` in the window,
`Run` the moment the server's thread takes the command or tells that it failed,
`Say` an output of the console, `Show` the timer's copy, `Miss` output that came
after it and will be cleared, `End` the handler's branch for an end code, and
`Lose` the loss of the connection or of `whole`, after which nothing is promised.

### Profiles and the code

`settingsFile` and `profilesFile` are the files, `is` whether they can be read.
Per window (a process of the client): `pc` and `after` are where it is and which
handler it saves for; `combo`, `current` and `fields` are the main window's combo
box, `list`, `selected`, `edit` and `free` the manager's list, its index, and
whether the fields and the default box are enabled. A handler that saves is one
action up to the save, three for `EncryptSettingsFile` (`RemoveFile`, `OpenFile`,
`WriteFile`, with `OpenFails` and `WriteFails`), and one for the rest (`Reload`,
or `ReloadOutOfRange` where an item that is not there is used). `Kill` may come
between any two. `Selected` is the choice of an index in `LoadStoredProfiles`,
where the default wins over the remembered one. `EditFields` is the user typing in
the host, port or password field, which are enabled while the window is not
connected; that is not modelled, and they may be typed in at any time. What is stored is the position in
the combo box, whose last entry is "None".

The combo box reads the file again when it is pressed, connected or not, and then
selects the remembered index of the last window (`Press`). When no index is
selected the fields show the first profile all the same, since the combo box
selected it when it was added (`LoadStoredProfiles`); for the same reason a press
replaces what was typed even if "None" was selected before.

## 3. Runs

| Run | Instance | Shows |
|---|---|---|
| `console_one_slot` | 1 slot, 2 clients, 2 commands, 8 numbers, failed threads and forks | `ConsoleExclusive`, `CancelStands`, `WaitNeverBlocks`, and that `Console` implements `JobBoard` and `Admission` |
| `console_two_slots` | 2 slots, 2 clients, 2 commands, 6 numbers, cancels | the inductive invariant, and under fairness `JoinReturns` and `HangupFrees`, where pipes run out and sessions close each other's numbers, inherit each other's pipes and join each other's threads |
| `console_live` | 1 slot, 2 clients, 1 command, every message and fault, dangling argument | `JoinReturns`, `HangupFrees` under fairness |
| `slots` | 2 slots, 2 clients, 2 numbers, every fault | `ServedOnce`, `FdsAccounted` and that `Slots` implements `Admission`, until a hand-off is overtaken; `HangUpEnds`, `WaitingAdmitted` under fairness |
| `client_prompt` | 2 connections, 2 numbers, 1 command on each, 1 packet in flight | `ReceiverServes`, `EndPasses`, `NumbersBack`, `HistoryInBounds`, that `Client` implements `Link`, and `WindowFollows` under fairness |
| `process` | 4 ports with `rand()` up to 5, every set of busy ports; then 2 sessions, a directory in the home directory | `ReadyForSlots`, `PortKnown`, `RunsAsPrompted`, and `TakesAvailable` under fairness |
| `profiles` | 2 profiles, windows one after the other, every fault | `OneDefault`, `FieldsFollow`, `Kept`, `Restores` |
| `wire` | 4 messages, 1 text printed by a command, a user who waits | `MessagesApart`, `NothingDropped`, `AllShown`, the inductive invariant, that `Wire` implements `Dialogue`, and `EndArrives` under fairness |
| `console_kill` | 2 slots, 2 commands | **violated**: `kill(pid + 1)` hits another session's shell (461) |
| `slots_hand_off` | 2 slots, 3 clients, 3 numbers | **violated**: two threads serve one slot (132, 153) |
| `client_wedged` | 1 connection, 1 command | **violated**: the window waits for an end of output it has already thrown away (`frmmain.cpp` 361) |
| `process_directories` | as `process` | **violated**: `cd name` starts from another session's directory (217, 224) |

Every passing run but `console_live` checks the type invariant of its modules,
`console_two_slots` and `wire` as a part of their inductive invariants.

Bounds. Two clients in one slot are what a reuse of the slot needs, two
commands what an overlap of consoles needs, two slots what a closed foreign
number needs. Eight numbers let two sets of four pipe ends meet; six let
`pipe()` fail and numbers pass from one session to the other within a few
steps. `Cap` bounds unread output to one chunk: the console's test is whether
there is any. For the client two connections are what a stale flag or number
needs, one command on each what the history needs to be used and cleared, and
one packet in flight is enough for the end code to follow, or be, the output
just read. Four ports with an argument of six are what the cut to the width of a
port needs, and numbers up to 5 what `rand()` needs to be cut to port 0 and 1.
A home directory and one below it are what a bare name needs to be right in one
and wrong in the other. Two profiles are the least in which a deletion moves
an index, and two defaults can be set. In `Wire` four messages are a command, its
cancel, and two more that could meet what is left of them, and one text beside
the prompt and the report is enough to fall between a look and its clearing.

Three runs have a constraint. `Roles` (`console_two_slots`) fixes which client takes
which slot and creates the first console, in which order they come, and that the
second client stays, in place of a symmetry, which liveness does not allow; when
the first client creates the second console too, it stays as well and the other
one does not cancel. What
it cuts off are only `Accept`, `RunCommand`, `Cancel` and `PeerClose`, of which no fairness
asks anything, so that every behaviour that is left is one of `FairSpec` in full.
Two clients that come in the other order, or two slots exchanged, are the same
behaviours by other names; who hangs up, and
that the second client runs one command, are bounds. `OneBoot` (`process`) follows every set-up to
the accept loop, but the sessions, which read none of its variables, after one of
them only. `Whole` (`wire`) keeps states in which a message was
cut, and goes no further: all that is checked there promises nothing from then on.

Every connection is made once, every console thread created once, every message
sent once, so runs are finite. `Rest` marks the states where that bound, or the
end of the server, leaves nothing to do, and deadlock is checked in every run
except `wire`, where a conversation ends with its last message. `Conns`, `Jobs`
and `Ids` are symmetric in the runs without liveness.

Fairness. The formulas named `FairSpec` let every thread that can move do so:
POSIX threads are scheduled preemptively.

* `Console`: `EndOfStream` is strongly fair: a client that hung up has sent finitely
  many bytes, so `recv()` returns 0 in the end. No fairness is asked of clients,
  of processes (a command may run for ever), of `send()` and `write()`, which block
  when nobody takes what they carry (438, 447, 466), or of a `read()` on a number
  that turned into something else. `JoinReturns` and `HangupFrees` say what they
  need of the environment in `Undisturbed`: every job's unread output is empty from
  some time on, since the loop looks at the cancel flag only when it has read
  nothing (423) and a command that always has output is never cancelled; calls of
  `send()` and `write()` return; and no console is for ever in a `read()` on a
  number that became another session's. Two things no environment could prevent
  are exceptions for the client concerned: its thread has joined the console of
  another client, by a handle used twice (`JoinsOther`), or it is in `recv()` on a
  number that became another client's socket (`RecvsOther`).
* `Slots`: `accept()` is strongly fair, that is, it does not time out each time
  a client waits, and so is the end of a stream. A `pthread_create` or `accept` that
  may fail is not required to, and nothing makes a join return: `HangUpEnds` excepts
  the thread that waits for a console for ever.
* `Client`: a handler that was begun and a receive thread that can move go on,
  and `CheckMessages` is strongly fair: an event loop serves a running timer
  between the user's events, whatever the user does. `Connect` has no fairness,
  for `WindowFollows` does not need it.
* `Process`: the main thread runs, and `rand()` comes to every port as often as
  the loop of `Retry` goes on. `rand()` is never seeded, which makes the sequence the
  same in each run, not shorter.
* `Wire`: the threads of both programs run and the timer's handler is called.
  Nothing is asked of the user, and no command has to print or to end: `EndArrives`
  begins when the console has reported the end.
* `Profiles` states no fairness: nothing there waits.

Two assumptions about threads are constants, so that runs can be made with and
without them: `PromptStart` (a console thread reads its argument, a pointer into
its creator's stack, before that thread exits), and
`PromptEnd` (a receive thread is done when the connect timer fires, a second
after the button). Nothing in the code enforces either. `console_live` runs
without the first; the second is kept in all runs of `Client`, since a thread that
was told to end has nothing left to wait for. `Patient` in `Wire` is an assumption
about the user.

That a client thread reads `currentClientSocket` before the loop writes it again is
not assumed. When it does not, `overtaken` is set, and what `Slots` promises ends:
`slots_hand_off` shows that it must. What `ServedOnce`, `FdsAccounted` and
`ImplementsAdmission` say is that this is the only way to break it, whatever fails
and in whatever order threads run.

What each of them is needed for. Without `PromptStart` a console may take another
slot than its creator's: with one slot there is no other and everything still
holds; with two, and numbers enough for two consoles, `ConsoleExclusive`,
`CancelStands` and `ImplementsBoard` are violated, and two consoles that have
changed places can leave one of them waiting for a pipe that the server itself
keeps open. Types and `ImplementsAdmission` do not need it. Without `PromptEnd`
the late thread's `Disconnect` shuts down and closes the socket of the new
connection: `ReceiverServes`, `NumbersBack` and `ImplementsLink` are violated.
`EndPasses` and `HistoryInBounds` do not need it.

## 4. Proofs

The theorems hold for every value of the constants: any number of slots,
clients, commands, descriptors, ports, windows and profiles, every choice of
faults and of undefined values. Nothing is assumed beyond what the table says and
the named `ASSUME`s of the modules, which TLC evaluates.

| Module | Theorem | Statement | Under |
|---|---|---|---|
| `ConsoleProofs` | `TypeCorrect` | `TypeOK` | |
| | `OneConsole`, `CancelKept`, `WaitReturns` | `ConsoleExclusive`, `CancelStands`, `WaitNeverBlocks` | `PromptStart` |
| | `Invariance` | `ConsoleInv`, the conjunction all of these rest on | `PromptStart` |
| `BoardProofs` | `Implements` | `Console` implements `JobBoard` | `PromptStart` |
| | `Admits` | `Console` implements `Admission` | |
| `SlotsProofs` | `TypeCorrect` | `TypeOK` | |
| | `AlwaysServedOnce`, `AlwaysAccounted` | `ServedOnce`, `FdsAccounted` | in the formulas: `overtaken` |
| | `Implements` | `Slots` implements `Admission` | in the formula: `overtaken` |
| `ClientProofs` | `TypeCorrect`, `EndAlwaysPasses`, `HistorySafe` | `TypeOK`, `EndPasses`, `HistoryInBounds` | |
| | `ReceiverAlways`, `NumbersComeBack` | `ReceiverServes`, `NumbersBack` | `PromptEnd` |
| | `Invariance` | `ClientInv`, the conjunction | `PromptEnd` |
| | `Implements` | `Client` implements `Link` | `PromptEnd` |
| `ProcessProofs` | `TypeCorrect`, `PortAlwaysKnown`, `AlwaysRunsAsPrompted` | `TypeOK`, `PortKnown`, `RunsAsPrompted` | |
| | `AlwaysReadyForSlots` | `ReadyForSlots` | standard input is no connection |
| `ProfilesProofs` | `TypeCorrect`, `FieldsAlwaysFollow`, `NeverTwoDefaults` | `TypeOK`, `FieldsFollow`, `OneDefault` | |
| | `AlwaysKept`, `AlwaysRestores` | `Kept`, `Restores` | |
| `WireProofs` | `TypeCorrect` | `TypeOK` | |
| | `Invariance`, `AlwaysApart`, `AlwaysHeard`, `AlwaysShown` | `WireInv`, `MessagesApart`, `NothingDropped`, `AllShown` | in the formulas: `Patient`, `whole` |
| | `Implements` | `Wire` implements `Dialogue` | `Patient` |

The arguments, by module:

`ConsoleProofs`. `ConsoleExclusive` alone is not inductive: that two consoles
cannot meet in a slot needs that a console finds the slot of its creator
(`ConsolesPlaced`), which needs that the creator still owns it (`SlotsOwned`).
`CancelStands` needs that the console a client waits for is the only one that
could clear the request (`HandlesKnown` with `ConsoleExclusive`). Types need less:
`Base` says of a console only that its creator was accepted and that its `socketID`
is some slot (`JobsPlaced`), which holds of an argument read from a dead stack too.
`WaitNeverBlocks` counts: every console that has forked and not yet waited stands
for one child not yet reaped (`ChildrenCounted`), and a console that has not
killed its shell is the only one whose shell can still run (`ShellsFollow`), so
there are at least as many dead children as waiters. `ChildrenCounted` holds
although any console may reap any child, which is why it is an equation of two
counts and not a relation between a console and its shell.

`BoardProofs`. Under the same invariant the initial states map to initial states,
`RunCommand` to `Start`, `Fork` to `Born`, `Kill` to `End`, the exit of a shell to
`Die`, `Deactivate` to `Retire`, what ends the server to `Crash`, and every other
step to a stutter. What needs the invariant: a job is started only in a slot
without one (`ConsoleExclusive`), and reported only when its own shell is dead
(`ShellsFollow`). For `Admission` an owner is the connection whose client thread
has the slot; `Base` makes it the only one. `Accept` maps to `Admit`, because a
slot whose `clients` entry is 0 belongs to no thread, and `FreeSlot` to
`Release`. No other step of a client, a console or a process gives or takes a
slot, the `close()` of another session's number included.

`SlotsProofs`. `Base` (types and the phase of the loop) is inductive by itself.
`Held` is kept by every step that does not set `overtaken`, and nothing resets
that (`OvertakenStays`), so that `overtaken \/ Held` is inductive with no
assumption about threads: at most one thread has not read its slot, and none while
the loop is past `SetCurrent` (`OneStarts`);
`currentClientSocket` names the slot of that thread (`SocketFollows`); an open
number refers to its connection (`Numbered`); the index the loop has found is
free until it is used (`Found`); every session is at home and alone there
(`Served`). In the refinement scan, `accept`, publication and hand-off become
one `Admit` of a client to a slot that is its own (`OwnerRight`).

`ClientProofs`. `ReceiverServes` needs two more facts to be inductive.
`Unflagged`: whoever is past `Unflag` in `Disconnect` has made `IsConnected` FALSE
for good, so that no step of a disconnect can take the socket from under a
connection in use. `QuietSetUp`: while a socket is set up no receive thread is
left, which is where `PromptEnd` enters; it makes the fresh thread the only one
when `IsConnected` becomes TRUE. `EndPasses` is inductive with the types alone:
only a receiving thread sets the flag, and it cannot end without resetting it,
however many threads do so at the same time. For
`NumbersBack`, `Numbers` says what every number refers to: the current number is
that of the only thread alive, or has been closed (`OwnThread`); it has a new
socket while it is set up (`SetUp`), and from then on somebody is on the way to
close it, or the connection was reset (`CurrentKept`); what other numbers refer
to was reset (`OthersReset`). A connection whose receive thread could not be
created is carried through all of this: nobody but the window disconnects it
(`DeafUntilUnflag`), and it keeps its number until then (`Kept`).

For `Link`, the connection in use is the one whose receive thread is alive,
the one `Connect` has a new socket for, or a deaf one until the window is through
with it (`Held`). `Connect`, `Establish` and `Refused` map to
`Open`, `Establish` and `Fail`; the first `Unflag`, by whichever thread, to `Drop`,
which needs `ReceiverServes`: there is still a thread that receives, or a deaf
connection; the end of the receive thread, or the window's `Close` of a deaf
connection, to `Finish`, which needs that it is the only one (`OneAlive`, one
more conjunct); and a `send()` that works to `Ask`: a number that can be sent on has
its own thread alive or is deaf (`CurrentKept`, `OwnThread`), so that the command goes to
the connection in use although `IsConnected` was tested some lines before.

`ProcessProofs`. `ReadyForSlots` is where uninitialised memory could matter: the
constructor disconnects whatever `clients[]` held, and closes a number only if
`shutdown()` takes it, so that without a connection on standard input nothing
is closed before the listener is opened (`NoSockets`, `Listener`). `PortBound`
says that what `bind()` is called with is the port that will be printed, after any
number of retries. `AskedFollows` says what a
console thread may still find in the slot's `command` and directory, call by call,
while no `cd` of the session has begun since: what it told, what it aims at and
what the slot has are one directory.

`ProfilesProofs`. `Typed` adds that a process which has not shown its
window has no manager yet (`Fresh`). `FieldsAlwaysFollow` rests on `Follow`, the same fact
in every state and not only between events. `OneDefault` needs what the box means
when it is enabled (`FreeMeans`): no other profile in this list is the default.
That holds for any number of windows, since each only saves lists of its own.

In the files, `Always` holds whatever fails: what the settings file remembers
is a position in the list it was chosen from. `Safe` holds while no save was
lost and windows came one after the other: the files are whole, the list of a
manager that edits is the list of all profiles, and the index it goes back to is
in that list. `Kept` and `Restores` follow.

`WireProofs`. None of the three properties is inductive, and all follow from one
invariant. `Spoken` needs nothing of the user: a text in a stream, in the receive
thread's hand or in the window was said. `Conversation` is for a user who waits,
while no packet was cut. Either a command is on its way, and then the way back is
silent (`OnItsWay`), or it has been received and was run, or told to have failed, or
dropped for good (`Received`); beside it there is at most one cancel that came too
late (`LateCancels`). The answer is in three places, the stream, the hand of the
receive thread and the window, each of which holds whole texts and perhaps an end
code with nothing behind it (`Places`). `Ends` orders them: once the end is in the
thread's hand or marked, the stream is empty and the console quiet. `Looking` is the
window between its copy and its clearing: whatever it is about to clear was shown or
is `late`, and it clears the end of a command only with the flag set; after that
nothing is left anywhere. That a stream is whole is stated by pairs of neighbours
(`Aligned`), so that cutting a packet off and appending a message need no induction
over the sequence: a prefix that ends a message leaves an aligned rest, and a prefix
that does not makes `whole` FALSE, which ends the promise. `Texted` counts texts as
sets: said is what was shown, is late, is in the window, in the hand or in the
stream. The refinement uses the same invariant: `End` of `Dialogue` is the first step
of the branch for an end code, and by then nothing is left to be shown.

Only model-checked: the liveness properties (`JoinReturns`, `HangupFrees`,
`HangUpEnds`, `WaitingAdmitted`, `WindowFollows`, `TakesAvailable`,
`EndArrives`), which are out of the prover's reach. Every safety property of a
passing run is proved.

## 5. Not modelled

* The cipher (Crypto++ in `crypto.cpp`): what a text decrypts to when it is
  whole, cut or joined is in `Wire`, and that a failure is remembered in
  `Profiles`.
* The About window, the program entry, build files and packages: no state.
* Geometry, wording and images of the windows; names and addresses in a profile,
  which is an identity here; `selectedRows().at(0)` on an empty selection
  (ctrl-click), which is undefined and has no other effect.
* A `send()` that fails in `Wire`; `Console` and `Client` have it. A text longer
  than the client's packet of 512 bytes, which no `recv()` returns whole: in `Wire`
  that is a stream that was cut, and nothing is promised of it.
* A machine that stops: `Kill` in `Profiles` ends a process, whose completed writes
  the kernel still has. Nothing is synced (`crypto.cpp` 133-134), so a save that
  returned may be lost to a power failure.
* Whether the fields of the window are enabled: the user may edit them at any time.
* `wait(NULL)` interrupted by a signal, and limits of the kernel other than
  descriptors, threads and processes.

What the models contain and no run states, because nothing promises it or because
nothing would be left to state:

* A connection whose receive thread could not be created (client.cpp 87) stays
  "Connected!" until the user disconnects: nobody receives on it or notices its end.
  It is an exception of `ReceiverServes`, `NumbersBack` and `WindowFollows`.
* A session that got a cancel when no console ran (frmmain.cpp 407 leaves
  `btnCancel` enabled) has `exitCode` 1 for ever: it takes no command any more. So
  does one whose command came between the end code and line 471 and became input
  that no console reads. Neither command is ever over in `Wire`: the window waits.
* A failed `pipe()` (242) is not answered, and the window waits as well.
* A client thread may join another client's console by a handle used twice (276):
  `JoinsOther` in `ConsoleProperties`. It waits as long as that command goes on.
* The double `close()` of the pipe ends (375-378) may close the socket of a
  client that was accepted in between: `CloseAll` in `Console`.
* `numClients` loses updates (131, 307): `ReadCount`, `CountUp` and the threads'
  counterparts in `Slots`. The number is only printed.
* `rand()` is not seeded; a port of 65536 is cut to 0, with which the kernel
  chooses, and 0 is what is printed.
* A port that was given on the command line and cannot be bound is replaced by a
  random one like the default (`socket.cpp` 60-68), where `src/README.md` 39 says the
  server takes any available port "if not specified as a parameter". `Retry` in
  `Boot` does what the code does, and `TakesAvailable` is stated of every port.
* Any message with "cd" in it is taken for `cd` (209), so that a command such as
  `ls abcd` is never run: what follows its third character is tried as a
  directory. `WorkDir` takes the kind of a message as given.
* The selection is a position, so a list edited by another window is answered
  with another profile: `Restores` holds for an unchanged list.

## 6. Plan

Done: `Slots`, `Console`, `Client` with their abstract specifications, then
`Process`, `Wire`, `Profiles`; the refinements to `JobBoard`, `Admission` (by both
`Slots` and `Console`), `Dialogue` and `Link`, and the safety properties of all modules,
proved.

Left, by what it would add:

1. `Client` composed with `Wire`: its receive thread against the actual position
   of the end code in a packet, in place of a flag on a packet.
2. What `Client` still implements of `Link` without `PromptEnd`.
3. Which of the session properties `ConsoleExclusive` rests on survive a console
   that took another slot, for a weaker promise without `PromptStart`.
