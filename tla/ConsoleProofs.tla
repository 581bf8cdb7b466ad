---------------------------- MODULE ConsoleProofs ----------------------------
(***************************************************************************)
(* Proofs about the command sessions, for any number of slots, connections *)
(* and commands.  ConsoleInv is inductive; each conjunct has a lemma of    *)
(* its own that says why no step disturbs it.                              *)
(***************************************************************************)
EXTENDS ConsoleProperties, Least, FiniteSetTheorems, TLAPS

-----------------------------------------------------------------------------
(* Descriptor numbers                                                      *)

LEMMA FreeIsFinite == IsFiniteSet(FreeFds) /\ FreeFds \in SUBSET Nat /\ 0 \notin FreeFds
  BY ConsoleAssumption, FS_Subset DEF ConsoleAssumption, FreeFds

\* When B holds the numbers given out so far, k - 1 of them, and numbers are
\* left, the kernel's k-th choice is the least number left.
LEMMA NextFree ==
  ASSUME NEW k \in 1 .. 4, NEW B \in SUBSET FreeFds,
         Cardinality(B) = k - 1, FreeFds \ B # {},
         \A m \in B, n \in FreeFds \ B : m < n
  PROVE  \E n \in FreeFds \ B : /\ Cardinality({m \in FreeFds : m < n}) = k - 1
                                /\ \A m \in B \cup {n}, o \in FreeFds \ (B \cup {n}) : m < o
<1>1. PICK n \in FreeFds \ B : \A m \in FreeFds \ B : n <= m
  <2>1. IsFiniteSet(FreeFds \ B) /\ FreeFds \ B \in SUBSET Nat
    BY FreeIsFinite, FS_Subset
  <2> QED
    BY <2>1, LeastExists
<1>2. \A m \in FreeFds : m \in Nat
  BY FreeIsFinite
<1>3. \A m \in FreeFds : m < n <=> m \in B
  BY <1>1, <1>2
<1>4. {m \in FreeFds : m < n} = B
  BY <1>3
<1>5. \A o \in FreeFds \ (B \cup {n}) : n < o
  BY <1>1, <1>2
<1> QED
  BY <1>4, <1>5

\* What the CHOOSE of Lowest returns when something satisfies it.
LEMMA LowestChosen ==
  ASSUME NEW k, \E n \in FreeFds : Cardinality({m \in FreeFds : m < n}) = k - 1
  PROVE  Lowest(k) \in FreeFds
BY DEF Lowest

\* With k numbers free the first k choices are among them, for k up to 4: the
\* numbers of two pipes.
LEMMA FirstFourFree ==
  ASSUME NEW k \in 1 .. 4, Cardinality(FreeFds) >= k
  PROVE  \A i \in 1 .. k : Lowest(i) \in FreeFds
<1> DEFINE Given(B, n) ==
      /\ B \in SUBSET FreeFds /\ IsFiniteSet(B) /\ Cardinality(B) = n
      /\ \A m \in B, o \in FreeFds \ B : m < o
<1>1. ASSUME NEW B, NEW n \in 0 .. 3, n < k, Given(B, n)
      PROVE  Lowest(n + 1) \in FreeFds /\ \E D : Given(D, n + 1)
  <2>1. Cardinality(FreeFds) \in Nat
    BY FreeIsFinite, FS_CardinalityType
  <2>2. FreeFds \ B # {}
    <3>1. FreeFds # B
      BY <1>1, <2>1
    <3> QED
      BY <3>1, <1>1
  <2>3. n + 1 \in 1 .. 4 /\ (n + 1) - 1 = n
    BY <1>1
  <2>4. PICK x \in FreeFds \ B :
          /\ Cardinality({m \in FreeFds : m < x}) = (n + 1) - 1
          /\ \A m \in B \cup {x}, o \in FreeFds \ (B \cup {x}) : m < o
    BY <1>1, <2>2, <2>3, NextFree
  <2>5. Given(B \cup {x}, n + 1)
    <3>1. IsFiniteSet(B \cup {x}) /\ Cardinality(B \cup {x}) = n + 1
      BY <1>1, <2>4, FS_AddElement
    <3> QED
      BY <1>1, <2>4, <3>1
  <2> QED
    BY <2>4, <2>5, LowestChosen
<1>2. \E B : Given(B, 0)
  <2>1. Given({}, 0)
    BY FS_EmptySet
  <2> QED
    BY <2>1
<1> HIDE DEF Given
<1>3. Lowest(0 + 1) \in FreeFds /\ \E B : Given(B, 0 + 1)
  BY <1>1, <1>2
<1>4. 1 < k => Lowest(1 + 1) \in FreeFds /\ \E B : Given(B, 1 + 1)
  BY <1>1, <1>3
<1>5. 2 < k => Lowest(2 + 1) \in FreeFds /\ \E B : Given(B, 2 + 1)
  BY <1>1, <1>4
<1>6. 3 < k => Lowest(3 + 1) \in FreeFds
  BY <1>1, <1>5
<1> QED
  BY <1>3, <1>4, <1>5, <1>6

LEMMA FirstFree ==
  ASSUME FreeFds # {}
  PROVE  Lowest(1) \in FreeFds
<1>1. Cardinality(FreeFds) \in Nat /\ Cardinality(FreeFds) # 0
  BY FreeIsFinite, FS_CardinalityType, FS_EmptySet
<1> QED
  BY <1>1, FirstFourFree

-----------------------------------------------------------------------------
(* Type correctness                                                        *)

\* The child ends of pipes, and every other object, are typed.
LEMMA TypesOfPipes ==
  ASSUME TypeOK, NEW s \in Slots, NEW j \in Jobs,
         Cardinality(FreeFds) >= 4, OpenPipes(s, j)
  PROVE  /\ fd' \in [Fds -> Objects \cup {Closed}]
         /\ ClientConsole' \in [Slots -> ThreadData]
<1> DEFINE n == [k \in 1 .. 4 |-> Lowest(k)]
           end == <<"out0", "out1", "in0", "in1">>
<1>1. \A k \in 1 .. 4 : n[k] \in Fds
  BY FirstFourFree DEF FreeFds
<1>2. fd' \in [Fds -> Objects \cup {Closed}]
  <2>1. \A f \in Fds : (\E k \in 1 .. 4 : n[k] = f)
                       => end[CHOOSE k \in 1 .. 4 : n[k] = f] \in PipeEnds
    <3>1. \A k \in 1 .. 4 : end[k] \in PipeEnds
      BY DEF PipeEnds
    <3> HIDE DEF n, end
    <3> QED
      BY <3>1
  <2>2. fd' = [f \in Fds |-> IF \E k \in 1 .. 4 : n[k] = f
                             THEN <<end[CHOOSE k \in 1 .. 4 : n[k] = f], j>> ELSE fd[f]]
    BY DEF OpenPipes
  <2>3. fd \in [Fds -> Objects \cup {Closed}] /\ \A e \in PipeEnds : <<e, j>> \in Objects
    BY DEF TypeOK, Objects
  <2> HIDE DEF n, end
  <2> QED
    BY <2>1, <2>2, <2>3
<1>3. ClientConsole' \in [Slots -> ThreadData]
  <2>1. /\ [i \in {0, 1} |-> n[i + 1]] \in [{0, 1} -> Fds \cup {0}]
        /\ [i \in {0, 1} |-> n[i + 3]] \in [{0, 1} -> Fds \cup {0}]
    BY <1>1
  <2>2. PICK a, b \in [{0, 1} -> Fds \cup {0}] :
          ClientConsole' = [ClientConsole EXCEPT ![s] = [@ EXCEPT
            !.pipeChildToParent = a, !.pipeParentToChild = b, !.pipeActive = TRUE]]
    BY <2>1 DEF OpenPipes
  <2>3. ASSUME NEW t \in ThreadData
        PROVE  [t EXCEPT !.pipeChildToParent = a, !.pipeParentToChild = b,
                         !.pipeActive = TRUE] \in ThreadData
    <3>1. [t EXCEPT !.pipeChildToParent = a, !.pipeParentToChild = b] \in ThreadData
      BY DEF ThreadData
    <3>2. ASSUME NEW u \in ThreadData PROVE [u EXCEPT !.pipeActive = TRUE] \in ThreadData
      BY DEF ThreadData
    <3> QED
      BY <3>1, <3>2
  <2> QED
    BY <2>2, <2>3 DEF TypeOK
<1> QED
  BY <1>2, <1>3

\* The updates of a slot's ThreadData keep its type.
LEMMA TypesOfUpdates ==
  ASSUME NEW t \in ThreadData
  PROVE  /\ \A x \in {0, 1} : [t EXCEPT !.exitCode = x] \in ThreadData
         /\ \A x \in Typed : [t EXCEPT !.nextCommand = x] \in ThreadData
         /\ [t EXCEPT !.hasNextCommand = TRUE] \in ThreadData
         /\ \A x \in Proc \cup {NoProc} : [t EXCEPT !.activePipeID = x] \in ThreadData
         /\ \A x \in [{0, 1} -> Fds \cup {0}] : [t EXCEPT !.pipeChildToParent = x] \in ThreadData
         /\ [t EXCEPT !.hasNextCommand = FALSE, !.nextCommand = NoInput] \in ThreadData
         /\ [t EXCEPT !.pipeActive = FALSE] \in ThreadData
BY DEF ThreadData, Typed

LEMMA TypeInit == Init => TypeOK
<1> SUFFICES ASSUME Init PROVE TypeOK
  OBVIOUS
<1>1. ClientConsole \in [Slots -> ThreadData]
  <2>1. PICK active, pending \in [Slots -> Garbage] :
         ClientConsole = [s \in Slots |->
         [exitCode |-> 0, pipeActive |-> active[s],
          hasNextCommand |-> pending[s], nextCommand |-> NoInput,
          activePipeID |-> NoProc,
          pipeChildToParent |-> [i \in {0, 1} |-> 0],
          pipeParentToChild |-> [i \in {0, 1} |-> 0]]]
    BY DEF Init
  <2>2. \A s \in Slots : active[s] \in BOOLEAN /\ pending[s] \in BOOLEAN
    BY ConsoleAssumption DEF ConsoleAssumption
  <2> QED
    BY <2>1, <2>2 DEF ThreadData, Typed
<1>2. /\ jpid \in [Jobs -> Proc \cup {NoProc}]
      /\ proc \in [Proc -> {"none", "run", "zombie", "gone"}]
      /\ pids \in Seq(Proc)
  BY DEF Init
<1>3. image \in [Jobs -> [stdout : Objects \cup {Closed}, holds : SUBSET Objects]]
  BY DEF Init
<1>4. outq \in [Jobs -> 0 .. Cap]
  BY ConsoleAssumption DEF Init, ConsoleAssumption
<1>5. /\ up \in BOOLEAN
      /\ fd \in [Fds -> Objects \cup {Closed}]
      /\ sock \in [Conns -> SockState]
      /\ clients \in [Slots -> Fds \cup {0}]
      /\ cpc \in [Conns -> ClientPC] /\ cslot \in [Conns -> Slots \cup {NoSlot}]
      /\ rsock \in [Conns -> Objects \cup {Closed}]
      /\ handle \in [Conns -> Jobs \cup {NoJob, Stale}]
      /\ jpc \in [Jobs -> ConsolePC] /\ jslot \in [Jobs -> Slots \cup {NoSlot}]
      /\ jconn \in [Jobs -> Conns \cup {NoJob}]
  BY DEF Init, SockState, ClientPC, ConsolePC
<1> QED
  BY <1>1, <1>2, <1>3, <1>4, <1>5 DEF TypeOK

\* What a client thread does keeps the types, given that its slot is one.
LEMMA TypeClient ==
  ASSUME TypeOK, SlotsOwned, NEW c \in Conns, ClientStep(c) \/ Receive(c)
  PROVE  TypeOK'
<1> USE DEF netVars, clientVars, cdata, consoleVars, jdata, procVars
<1>a. \A n : At(n) \in Objects \cup {Closed}
  BY DEF TypeOK, At, Entry
<1>b. \A l \in ClientPC : ToClient(c, l) => up /\ cpc' \in [Conns -> ClientPC]
  BY DEF TypeOK, ToClient
<1>c. \A l \in {"recv", "reply", "failed", "flag", "join", "shut", "close", "null", "done"} :
        ToClient(c, l) => up /\ cpc' \in [Conns -> ClientPC]
  BY <1>b DEF ClientPC
<1>d. Again(c) => /\ up /\ cpc' \in [Conns -> ClientPC]
                  /\ rsock' \in [Conns -> Objects \cup {Closed}]
  BY <1>a, <1>c DEF TypeOK, Again
<1>e. OnlyAgain(c) => TypeOK'
  BY <1>d DEF TypeOK, OnlyAgain
<1>f. Die => TypeOK'
  BY DEF TypeOK, Die
<1>g. \A l \in {"reply", "shut"} : OnlyToClient(c, l) => TypeOK'
  BY <1>c DEF TypeOK, OnlyToClient
<1>1. CASE Reply(c) \/ Dropped(c)
  BY <1>1, <1>e DEF Reply, Dropped
<1>2. CASE Builtin(c) \/ SayFailed(c) \/ Leave(c)
  BY <1>2, <1>g DEF Builtin, SayFailed, Leave, EndOfStream
<1>3. CASE FlagInput(c)
  <2>1. ClientConsole' \in [Slots -> ThreadData]
    BY <1>3, TypesOfUpdates DEF FlagInput, TypeOK
  <2> QED
    BY <1>3, <1>d, <2>1 DEF FlagInput, TypeOK
<1>4. CASE Joined(c)
  <2>1. handle' \in [Conns -> Jobs \cup {NoJob, Stale}]
    BY <1>4 DEF Joined, TypeOK
  <2> QED
    BY <1>4, <1>d, <2>1 DEF Joined, TypeOK
<1>5. CASE JoinUndefined(c)
  <2>1. ASSUME NEW j \in Jobs, handle' = [handle EXCEPT ![c] = j],
               UNCHANGED <<up, netVars, ClientConsole, cpc, cslot, rsock, consoleVars, procVars>>
        PROVE  TypeOK'
    BY <2>1 DEF TypeOK
  <2> QED
    BY <1>5, <1>e, <1>f, <2>1 DEF JoinUndefined
<1>6. CASE Shutdown(c)
  <2>1. sock' \in [Conns -> SockState]
    BY <1>6 DEF Shutdown, TypeOK, SockState
  <2> QED
    BY <1>6, <1>c, <2>1 DEF Shutdown, TypeOK
<1>7. CASE CloseNumber(c)
  BY <1>7, <1>c DEF CloseNumber, TypeOK, Without
<1>8. CASE FreeSlot(c)
  BY <1>8, <1>c DEF FreeSlot, TypeOK
<1>9. CASE NextInput(c)
  <2>1. PICK text \in Inputs :
          ClientConsole' = [ClientConsole EXCEPT ![cslot[c]].nextCommand =
            [job |-> IF handle[c] \in Jobs THEN handle[c] ELSE NoJob, text |-> text]]
    BY <1>9 DEF NextInput
  <2>2. [job |-> IF handle[c] \in Jobs THEN handle[c] ELSE NoJob, text |-> text] \in Typed
    BY DEF Typed
  <2>3. ClientConsole' \in [Slots -> ThreadData]
    BY <2>1, <2>2, TypesOfUpdates DEF TypeOK
  <2> QED
    BY <1>9, <1>c, <2>3 DEF NextInput, TypeOK
<1>10. CASE Cancel(c)
  <2>1. ClientConsole' \in [Slots -> ThreadData]
    BY <1>10, TypesOfUpdates DEF Cancel, TypeOK
  <2> QED
    BY <1>10, <1>c, <2>1 DEF Cancel, TypeOK
<1>11. CASE PipeFails(c)
  <2>1. Cardinality(FreeFds) >= 2 => Lowest(1) \in Fds /\ Lowest(2) \in Fds
    BY FirstFourFree DEF FreeFds
  <2>2. Cardinality(FreeFds) \in Nat
    BY FreeIsFinite, FS_CardinalityType
  <2>3. CASE Cardinality(FreeFds) < 2
    BY <1>11, <1>d, <2>3 DEF PipeFails, TypeOK
  <2>4. CASE Cardinality(FreeFds) >= 2
    <3>1. [i \in {0, 1} |-> Lowest(i + 1)] \in [{0, 1} -> Fds \cup {0}]
      BY <2>1, <2>4
    <3>2. ClientConsole' = [ClientConsole EXCEPT ![cslot[c]].pipeChildToParent =
                              [i \in {0, 1} |-> Lowest(i + 1)]]
      BY <1>11, <2>2, <2>4 DEF PipeFails
    <3>3. ClientConsole' \in [Slots -> ThreadData]
      BY <3>1, <3>2, TypesOfUpdates DEF TypeOK
    <3>4. fd' \in [Fds -> Objects \cup {Closed}]
      BY <1>11, <2>2, <2>4 DEF PipeFails, TypeOK, Objects
    <3> QED
      BY <1>11, <1>d, <3>3, <3>4 DEF PipeFails, TypeOK
  <2> QED
    BY <2>2, <2>3, <2>4
<1>12. ASSUME NEW j \in Jobs, RunCommand(c, j) \/ ThreadFails(c, j)
       PROVE  TypeOK'
  <2>a. cslot[c] \in Slots
    BY <1>12 DEF RunCommand, ThreadFails, Gets, SlotsOwned, Busy
  <2>1. /\ fd' \in [Fds -> Objects \cup {Closed}]
        /\ ClientConsole' \in [Slots -> ThreadData]
    BY <1>12, <2>a, TypesOfPipes DEF RunCommand, ThreadFails
  <2>2. Entry(fd', clients[cslot[c]]) \in Objects \cup {Closed}
    BY <2>1 DEF Entry
  <2>3. up /\ cpc' \in [Conns -> ClientPC] /\ jpc' \in [Jobs -> ConsolePC]
    BY <1>12, <1>c DEF RunCommand, ThreadFails, TypeOK, ConsolePC, ToConsole
  <2>4. /\ up' = up /\ sock' = sock /\ clients' = clients /\ cslot' = cslot
        /\ jslot' = jslot /\ jpid' = jpid
        /\ proc' = proc /\ pids' = pids /\ image' = image /\ outq' = outq
    BY <1>12 DEF RunCommand, ThreadFails
  <2>5. /\ rsock' \in [Conns -> Objects \cup {Closed}]
        /\ handle' \in [Conns -> Jobs \cup {NoJob, Stale}]
        /\ jconn' \in [Jobs -> Conns \cup {NoJob}]
    <3>1. CASE RunCommand(c, j)
      <4>1. /\ rsock' = [rsock EXCEPT ![c] = Entry(fd', clients[cslot[c]])]
            /\ handle' = [handle EXCEPT ![c] = j]
            /\ jconn' = [jconn EXCEPT ![j] = c]
        BY <3>1 DEF RunCommand
      <4> QED
        BY <2>2, <4>1 DEF TypeOK
    <3>2. CASE ThreadFails(c, j)
      BY <3>2 DEF ThreadFails, TypeOK
    <3> QED
      BY <1>12, <3>1, <3>2
  <2> QED
    BY <2>1, <2>3, <2>4, <2>5 DEF TypeOK
<1> QED
  BY <1>1, <1>2, <1>3, <1>4, <1>5, <1>6, <1>7, <1>8, <1>9, <1>10, <1>11, <1>12
  DEF ClientStep, ClientMoves, Receive

\* What is left of ConsolesPlaced when threads start late: an argument may have
\* been read from a dead stack, but a slot it is.
JobsPlaced ==
  \A j \in Jobs :
    /\ jpc[j] = "new" => jconn[j] \in Conns /\ cpc[jconn[j]] # "idle"
    /\ jpc[j] \notin {"none", "new", "void"} => jslot[j] \in Slots

\* What a console thread does keeps the types, given that its slot is one.
LEMMA TypeConsole ==
  ASSUME TypeOK, SlotsOwned, JobsPlaced, NEW j \in Jobs, ConsoleStep(j)
  PROVE  TypeOK'
<1> USE DEF netVars, clientVars, cdata, consoleVars, jdata, procVars
<1>a. \A n : At(n) \in Objects \cup {Closed}
  BY DEF TypeOK, At, Entry
<1>b. \A l \in ConsolePC : ToConsole(j, l) => up /\ jpc' \in [Jobs -> ConsolePC]
  BY DEF TypeOK, ToConsole
<1>c. \A l \in {"prompt", "fork", "parent", "loop", "input", "clear", "kill", "report",
              "deact", "free", "wait", "close1", "close2", "close3", "close4", "done"} :
        ToConsole(j, l) => up /\ jpc' \in [Jobs -> ConsolePC]
  BY <1>b DEF ConsolePC
<1>d. \A l \in {"fork", "input", "clear", "kill", "deact"} : OnlyToConsole(j, l) => TypeOK'
  BY <1>c DEF TypeOK, OnlyToConsole
<1>e. Die => TypeOK'
  BY DEF TypeOK, Die
<1>f. <<"shell", j>> \in Proc
  BY DEF Proc
<1>1. CASE Prompt(j) \/ ReadNothing(j) \/ LeaveLoop(j) \/ WriteInput(j) \/ Report(j)
  <2>1. CASE Prompt(j) \/ ReadNothing(j) \/ LeaveLoop(j)
    BY <1>d, <2>1 DEF Prompt, ReadNothing, LeaveLoop
  <2>2. CASE WriteInput(j) \/ Report(j)
    BY <1>d, <2>2 DEF WriteInput, Report
  <2> QED
    BY <1>1, <2>1, <2>2
<1>2. CASE ReadArgument(j)
  <2>1. cslot[jconn[j]] \in Slots
    BY <1>2 DEF ReadArgument, JobsPlaced, SlotsOwned, Busy
  <2> QED
    BY <1>2, <1>c, <2>1 DEF ReadArgument, TypeOK
<1>3. CASE ReadDangling(j)
  <2>1. ASSUME NEW s \in Slots, jslot' = [jslot EXCEPT ![j] = s], ToConsole(j, "prompt"),
               UNCHANGED <<up, netVars, ClientConsole, clientVars, jconn, jpid, procVars>>
        PROVE  TypeOK'
    BY <1>c, <2>1 DEF TypeOK
  <2> QED
    BY <1>3, <1>e, <2>1 DEF ReadDangling
<1>4. CASE Fork(j)
  <2>1. ClientConsole' \in [Slots -> ThreadData]
    BY <1>4, <1>f, TypesOfUpdates DEF Fork, TypeOK
  <2>2. proc' \in [Proc -> {"none", "run", "zombie", "gone"}] /\ pids' \in Seq(Proc)
    BY <1>4, <1>f DEF Fork, TypeOK
  <2>3. image' \in [Jobs -> [stdout : Objects \cup {Closed}, holds : SUBSET Objects]]
    <3> DEFINE held == Inherited(jslot[j])
    <3>1. \A o \in Objects \cup {Closed} : o[1] \in {"in0", "in1", "out1"} => o \in Objects
      BY DEF Closed
    <3>2. held \in SUBSET Objects
      BY <3>1 DEF Inherited, TypeOK
    <3>3. [stdout |-> At(ClientConsole[jslot[j]].pipeChildToParent[1]), holds |-> held]
            \in [stdout : Objects \cup {Closed}, holds : SUBSET Objects]
      BY <1>a, <3>2
    <3> HIDE DEF held
    <3>4. image' = [image EXCEPT ![j] =
            [stdout |-> At(ClientConsole[jslot[j]].pipeChildToParent[1]), holds |-> held]]
      BY <1>4 DEF Fork, held
    <3> QED
      BY <3>3, <3>4 DEF TypeOK
  <2> QED
    BY <1>4, <1>c, <2>1, <2>2, <2>3 DEF Fork, TypeOK
<1>5. CASE ForkFails(j)
  <2>1. ClientConsole' \in [Slots -> ThreadData]
    BY <1>5, TypesOfUpdates DEF ForkFails, TypeOK
  <2> QED
    BY <1>5, <1>c, <2>1 DEF ForkFails, TypeOK
<1>6. CASE Parent(j)
  <2>1. ClientConsole[jslot[j]].activePipeID \in Proc \cup {NoProc}
    BY <1>6 DEF Parent, JobsPlaced, TypeOK, ThreadData
  <2> QED
    BY <1>6, <1>c, <2>1 DEF Parent, Without, TypeOK
<1>7. CASE ReadOutput(j)
  <2>1. outq' \in [Jobs -> 0 .. Cap]
    BY <1>7, ConsoleAssumption DEF ConsoleAssumption, ReadOutput, HasOutput, TypeOK
  <2>2. up /\ jpc' \in [Jobs -> ConsolePC]
    BY <1>7, <1>c DEF ReadOutput, CheckInput
  <2> QED
    BY <1>7, <2>1, <2>2 DEF ReadOutput, TypeOK, CheckInput
<1>8. CASE ClearInput(j) \/ ClearExit(j) \/ Deactivate(j)
  <2> DEFINE t == ClientConsole[jslot[j]]
             cleared == [t EXCEPT !.hasNextCommand = FALSE, !.nextCommand = NoInput]
             stopped == [t EXCEPT !.exitCode = 0]
             ended == [t EXCEPT !.pipeActive = FALSE]
  <2>a. jslot[j] \in Slots /\ t \in ThreadData
    BY <1>8 DEF ClearInput, ClearExit, Deactivate, JobsPlaced, TypeOK
  <2>b. cleared \in ThreadData /\ stopped \in ThreadData /\ ended \in ThreadData
    BY <2>a, TypesOfUpdates
  <2>c. \/ ClientConsole' = [ClientConsole EXCEPT ![jslot[j]] = cleared]
        \/ ClientConsole' = [ClientConsole EXCEPT ![jslot[j]] = stopped]
        \/ ClientConsole' = [ClientConsole EXCEPT ![jslot[j]] = ended]
    BY <1>8 DEF ClearInput, ClearExit, Deactivate
  <2>1. ClientConsole' \in [Slots -> ThreadData]
    <3> HIDE DEF cleared, stopped, ended
    <3> QED
      BY <2>b, <2>c DEF TypeOK
  <2> QED
    BY <1>8, <1>c, <2>1 DEF ClearInput, ClearExit, Deactivate, TypeOK
<1>9. CASE Kill(j) \/ KillAll(j)
  BY <1>9, <1>c, <1>e DEF Kill, KillAll, EndOf, TypeOK
<1>10. CASE Wait(j)
  BY <1>10, <1>c DEF Wait, TypeOK
<1>11. CASE CloseAll(j)
  BY <1>11, <1>c DEF CloseAll, CloseEnd, Without, TypeOK
<1>12. CASE ReadForeign(j)
  <2>1. up /\ jpc' \in [Jobs -> ConsolePC]
    BY <1>12, <1>c DEF ReadForeign, CheckInput
  <2> QED
    BY <1>12, <2>1 DEF ReadForeign, TypeOK
<1> QED
  BY <1>1, <1>2, <1>3, <1>4, <1>5, <1>6, <1>7, <1>8, <1>9, <1>10, <1>11, <1>12
  DEF ConsoleStep, ConsoleMoves

\* Every step keeps the types.
LEMMA TypeNext == TypeOK /\ SlotsOwned /\ JobsPlaced /\ [Next]_vars => TypeOK'
<1> SUFFICES ASSUME TypeOK, SlotsOwned, JobsPlaced, [Next]_vars PROVE TypeOK'
  OBVIOUS
<1> USE DEF netVars, clientVars, cdata, consoleVars, jdata, procVars
<1>1. ASSUME NEW c \in Conns, ClientStep(c) \/ Receive(c) PROVE TypeOK'
  BY <1>1, TypeClient
<1>2. ASSUME NEW j \in Jobs, ConsoleStep(j) PROVE TypeOK'
  BY <1>2, TypeConsole
<1>3. CASE Sigpipe \/ InputRace
  BY <1>3 DEF Sigpipe, InputRace, Die, TypeOK
<1>4. CASE ProcessStep
  <2>1. ASSUME NEW k \in Jobs, Spawn(k) PROVE TypeOK'
    <3>1. <<"cmd", k>> \in Proc
      BY DEF Proc
    <3> QED
      BY <2>1, <3>1 DEF Spawn, TypeOK
  <2>2. ASSUME NEW k \in Jobs, Output(k) PROVE TypeOK'
    <3>1. outq' \in [Jobs -> 0 .. Cap]
      BY <2>2, ConsoleAssumption DEF ConsoleAssumption, Output, TypeOK
    <3> QED
      BY <2>2, <3>1 DEF Output, TypeOK
  <2>3. ASSUME NEW p \in Proc, Exit(p) PROVE TypeOK'
    BY <2>3 DEF Exit, EndOf, TypeOK
  <2> QED
    BY <1>4, <2>1, <2>2, <2>3 DEF ProcessStep
<1>5. CASE NetworkStep
  <2>1. ASSUME NEW c \in Conns, NEW s \in Slots, Accept(c, s) PROVE TypeOK'
    <3>1. Lowest(1) \in Fds
      BY <2>1, FirstFree DEF Accept, FreeFds
    <3>2. ClientConsole' \in [Slots -> ThreadData]
      BY <2>1, TypesOfUpdates DEF Accept, TypeOK
    <3>3. Sock(c) \in Objects
      BY DEF Sock, Objects
    <3> QED
      BY <2>1, <3>1, <3>2, <3>3 DEF Accept, ToClient, ClientPC, SockState, TypeOK
  <2>2. ASSUME NEW c \in Conns, PeerClose(c) \/ PeerReset(c) PROVE TypeOK'
    BY <2>2 DEF PeerClose, PeerReset, SockState, TypeOK
  <2> QED
    BY <1>5, <2>1, <2>2 DEF NetworkStep
<1>6. CASE Rest \/ UNCHANGED vars
  BY <1>6 DEF Rest, vars, TypeOK
<1> QED
  BY <1>1, <1>2, <1>3, <1>4, <1>5, <1>6 DEF Next

-----------------------------------------------------------------------------
(* Who changes what                                                        *)

\* A client thread that moves was busy and stays so, in its slot, unless it
\* frees the slot.
LEMMA ClientAlone ==
  ASSUME TypeOK, NEW c \in Conns, ClientStep(c) \/ Receive(c), ~FreeSlot(c)
  PROVE  /\ cslot' = cslot /\ clients' = clients /\ Busy(c) /\ Busy(c)'
         /\ \A d \in Conns : d # c => cpc'[d] = cpc[d]
<1> USE DEF netVars, clientVars, cdata, consoleVars, jdata, procVars, ToClient, Busy
<1>1. CASE ClientStep(c)
  BY <1>1 DEF TypeOK, ClientStep, ClientMoves, Reply, SayFailed, FlagInput, Joined,
     JoinUndefined, Die,
              Shutdown, CloseNumber, Again, OnlyAgain, OnlyToClient
<1>2. CASE Dropped(c) \/ Builtin(c) \/ PipeFails(c) \/ NextInput(c) \/ Cancel(c) \/ Leave(c)
  BY <1>2 DEF TypeOK, Dropped, Builtin, PipeFails, NextInput, Cancel, Leave, EndOfStream, Gets,
     Again,
              OnlyAgain, OnlyToClient
<1>3. ASSUME NEW j \in Jobs, RunCommand(c, j) \/ ThreadFails(c, j)
      PROVE  /\ cslot' = cslot /\ clients' = clients /\ Busy(c) /\ Busy(c)'
             /\ \A d \in Conns : d # c => cpc'[d] = cpc[d]
  BY <1>3 DEF TypeOK, RunCommand, ThreadFails, Gets
<1> QED
  BY <1>1, <1>2, <1>3 DEF Receive

\* Apart from starting a console, a client thread leaves the consoles alone.
LEMMA ClientSparesConsoles ==
  ASSUME NEW c \in Conns, ClientStep(c) \/ Receive(c),
         \A j \in Jobs : ~RunCommand(c, j) /\ ~ThreadFails(c, j)
  PROVE  UNCHANGED <<consoleVars, proc>>
BY DEF ClientStep, ClientMoves, Receive, Reply, SayFailed, FlagInput, Joined, JoinUndefined, Die,
   Shutdown,
       CloseNumber, FreeSlot, Dropped, Builtin, PipeFails, NextInput, Cancel, Leave, EndOfStream,
       OnlyAgain,
       OnlyToClient, consoleVars, procVars

\* Console threads leave the client threads and their slots alone.
LEMMA ConsoleSparesClients ==
  ASSUME NEW j \in Jobs, ConsoleStep(j)
  PROVE  UNCHANGED <<clients, clientVars>>
BY DEF ConsoleStep, ConsoleMoves, ReadArgument, ReadDangling, Prompt, Fork, ForkFails, Parent,
       ReadOutput, ReadForeign, ReadNothing, LeaveLoop, WriteInput, ClearInput, Kill,
       KillAll, Report, ClearExit, Deactivate, Wait, CloseAll, CloseEnd, OnlyToConsole, Die, netVars

\* A console thread moves alone, and never back to its beginning.
LEMMA ConsoleAlone ==
  ASSUME TypeOK, NEW j \in Jobs, ConsoleStep(j)
  PROVE  /\ jpc[j] \notin {"none", "done", "void"} /\ jconn' = jconn
         /\ jpc'[j] \notin {"none", "void"} /\ (jpc'[j] = "new" => jpc' = jpc)
         /\ \A k \in Jobs : k # j => jpc'[k] = jpc[k] /\ jslot'[k] = jslot[k]
         /\ jpc[j] # "new" => jslot' = jslot
BY DEF TypeOK, ConsoleStep, ConsoleMoves, ReadArgument, ReadDangling, Prompt, Fork, ForkFails,
   Parent,
       ReadOutput, ReadForeign, ReadNothing, LeaveLoop, WriteInput, ClearInput, Kill,
       KillAll, Report, ClearExit, Deactivate, Wait, CloseAll, CloseEnd, OnlyToConsole,
       ToConsole, CheckInput,
       Die, consoleVars, jdata

\* While its creator lives a console thread finds the creator's slot.
LEMMA ConsoleArgument ==
  ASSUME TypeOK, NEW j \in Jobs, ConsoleStep(j), jpc[j] = "new", cpc[jconn[j]] # "done"
  PROVE  jpc' = jpc \/ jslot'[j] = cslot[jconn[j]]
BY DEF TypeOK, ConsoleStep, ConsoleMoves, ReadArgument, ReadDangling, Prompt, Fork, ForkFails,
   Parent,
       ReadOutput, ReadForeign, ReadNothing, LeaveLoop, WriteInput, ClearInput, Kill,
       KillAll, Report, ClearExit, Deactivate, Wait, CloseAll, CloseEnd

\* Later it finds what is on the dead stack, a slot or nothing usable.
LEMMA DanglingArgument ==
  ASSUME TypeOK, NEW j \in Jobs, ConsoleStep(j), jpc[j] = "new", cpc[jconn[j]] = "done"
  PROVE  jpc' = jpc \/ jslot'[j] \in Slots
BY DEF TypeOK, ConsoleStep, ConsoleMoves, ReadArgument, ReadDangling, Die, Prompt, Fork,
   ForkFails, Parent,
       ReadOutput, ReadForeign, ReadNothing, LeaveLoop, WriteInput, ClearInput, Kill,
       KillAll, Report, ClearExit, Deactivate, Wait, CloseAll, CloseEnd, consoleVars

\* Processes, the network apart from Accept, and SIGPIPE change neither the
\* threads nor what they share.
LEMMA OthersSpareThreads ==
  ASSUME \/ ProcessStep \/ Sigpipe \/ InputRace \/ Rest \/ UNCHANGED vars
         \/ \E c \in Conns : PeerClose(c) \/ PeerReset(c)
  PROVE  UNCHANGED <<clients, ClientConsole, clientVars, consoleVars>>
BY DEF ProcessStep, Spawn, Output, Exit, Sigpipe, InputRace, Die, Rest, PeerClose, PeerReset,
   vars, netVars

\* Which steps write the two flags the threads of a slot agree by.
SameFlags(t) == /\ ClientConsole'[t].pipeActive = ClientConsole[t].pipeActive
                /\ ClientConsole'[t].exitCode = ClientConsole[t].exitCode

LEMMA ClientFlags ==
  ASSUME TypeOK, NEW c \in Conns, ClientStep(c) \/ Receive(c), ~Cancel(c),
         \A j \in Jobs : ~RunCommand(c, j) /\ ~ThreadFails(c, j)
  PROVE  \A t \in Slots : SameFlags(t)
<1> USE DEF SameFlags
<1>1. CASE FlagInput(c) \/ NextInput(c) \/ PipeFails(c)
  <2>1. \/ ClientConsole' = ClientConsole
        \/ ClientConsole' = [ClientConsole EXCEPT ![cslot[c]].hasNextCommand = TRUE]
        \/ \E v : ClientConsole' = [ClientConsole EXCEPT ![cslot[c]].nextCommand = v]
        \/ \E v : ClientConsole' = [ClientConsole EXCEPT ![cslot[c]].pipeChildToParent = v]
    <3>1. CASE FlagInput(c)
      BY <3>1 DEF FlagInput
    <3>2. CASE NextInput(c)
      BY <3>2, Zenon DEF NextInput
    <3>3. CASE PipeFails(c)
      BY <3>3, Zenon DEF PipeFails
    <3> QED
      BY <1>1, <3>1, <3>2, <3>3
  <2>2. ASSUME NEW t \in ThreadData, NEW v
        PROVE  /\ LET u == [t EXCEPT !.hasNextCommand = TRUE]
                  IN  u.pipeActive = t.pipeActive /\ u.exitCode = t.exitCode
               /\ LET u == [t EXCEPT !.nextCommand = v]
                  IN  u.pipeActive = t.pipeActive /\ u.exitCode = t.exitCode
               /\ LET u == [t EXCEPT !.pipeChildToParent = v]
                  IN  u.pipeActive = t.pipeActive /\ u.exitCode = t.exitCode
    BY DEF ThreadData
  <2>3. CASE ClientConsole' = ClientConsole
    BY <2>3
  <2>4. CASE ClientConsole' = [ClientConsole EXCEPT ![cslot[c]].hasNextCommand = TRUE]
    BY <2>2, <2>4 DEF TypeOK
  <2>5. ASSUME NEW v, ClientConsole' = [ClientConsole EXCEPT ![cslot[c]].nextCommand = v]
        PROVE  \A t \in Slots : SameFlags(t)
    BY <2>2, <2>5 DEF TypeOK
  <2>6. ASSUME NEW v, ClientConsole' = [ClientConsole EXCEPT ![cslot[c]].pipeChildToParent = v]
        PROVE  \A t \in Slots : SameFlags(t)
    BY <2>2, <2>6 DEF TypeOK
  <2> QED
    BY <2>1, <2>3, <2>4, <2>5, <2>6
<1>2. CASE ~(FlagInput(c) \/ NextInput(c) \/ PipeFails(c))
  BY <1>2 DEF ClientStep, ClientMoves, Receive, Reply, SayFailed, Joined, JoinUndefined, Die,
     Shutdown,
       CloseNumber, FreeSlot, Dropped, Builtin, Leave, EndOfStream, OnlyAgain, OnlyToClient
<1> QED
  BY <1>1, <1>2

LEMMA StartFlags ==
  ASSUME TypeOK, NEW c \in Conns, NEW j \in Jobs, RunCommand(c, j) \/ ThreadFails(c, j),
         cslot[c] \in Slots
  PROVE  /\ ~ClientConsole[cslot[c]].pipeActive /\ ClientConsole'[cslot[c]].pipeActive
         /\ \A t \in Slots : ClientConsole'[t].exitCode = ClientConsole[t].exitCode
         /\ \A t \in Slots \ {cslot[c]} : SameFlags(t)
<1>1. /\ ~ClientConsole[cslot[c]].pipeActive
      /\ \E a, b : ClientConsole' = [ClientConsole EXCEPT ![cslot[c]] = [@ EXCEPT
           !.pipeChildToParent = a, !.pipeParentToChild = b, !.pipeActive = TRUE]]
  BY DEF RunCommand, ThreadFails, OpenPipes
<1>2. ASSUME NEW t \in ThreadData, NEW a, NEW b
      PROVE  LET u == [t EXCEPT !.pipeChildToParent = a, !.pipeParentToChild = b,
                                !.pipeActive = TRUE]
             IN  u.pipeActive /\ u.exitCode = t.exitCode
  BY DEF ThreadData
<1> QED
  BY <1>1, <1>2 DEF TypeOK, SameFlags

LEMMA ConsoleFlags ==
  ASSUME TypeOK, NEW j \in Jobs, ConsoleStep(j)
  PROVE  \A t \in Slots :
           /\ \/ ClientConsole'[t].exitCode = ClientConsole[t].exitCode
              \/ jpc[j] = "deact" /\ jpc'[j] = "free" /\ t = jslot[j]
           /\ \/ ClientConsole'[t].pipeActive = ClientConsole[t].pipeActive
              \/ jpc[j] = "free" /\ jpc'[j] = "wait" /\ t = jslot[j]
<1> USE DEF SameFlags
<1>1. CASE Fork(j) \/ ForkFails(j)
  <2>1. \E v : ClientConsole' = [ClientConsole EXCEPT ![jslot[j]].activePipeID = v]
    BY <1>1, Zenon DEF Fork, ForkFails
  <2> QED
    BY <2>1 DEF TypeOK, ThreadData
<1>2. CASE ClearInput(j)
  <2>1. ASSUME NEW t \in ThreadData
        PROVE  LET u == [t EXCEPT !.hasNextCommand = FALSE, !.nextCommand = NoInput]
               IN  u.pipeActive = t.pipeActive /\ u.exitCode = t.exitCode
    BY DEF ThreadData
  <2> QED
    BY <1>2, <2>1 DEF TypeOK, ClearInput
<1>3. CASE Deactivate(j)
  <2>1. ASSUME NEW t \in ThreadData PROVE [t EXCEPT !.pipeActive = FALSE].exitCode = t.exitCode
    BY DEF ThreadData
  <2> QED
    BY <1>3, <2>1 DEF TypeOK, Deactivate, ToConsole
<1>5. CASE ClearExit(j)
  <2>1. ASSUME NEW t \in ThreadData PROVE [t EXCEPT !.exitCode = 0].pipeActive = t.pipeActive
    BY DEF ThreadData
  <2> QED
    BY <1>5, <2>1 DEF TypeOK, ClearExit, ToConsole
<1>4. CASE ~(Fork(j) \/ ForkFails(j) \/ ClearInput(j) \/ ClearExit(j) \/ Deactivate(j))
  BY <1>4 DEF ConsoleStep, ConsoleMoves, ReadArgument, ReadDangling, Prompt, Parent, ReadOutput,
       ReadForeign, ReadNothing, LeaveLoop, WriteInput, Kill, KillAll, Report, Wait,
       CloseAll, CloseEnd, OnlyToConsole, Die
<1> QED
  BY <1>1, <1>2, <1>3, <1>4, <1>5

LEMMA AcceptFlags ==
  ASSUME TypeOK, NEW c \in Conns, NEW s \in Slots, Accept(c, s)
  PROVE  /\ \A t \in Slots : ClientConsole'[t].pipeActive = ClientConsole[t].pipeActive
         /\ \A t \in Slots \ {s} : SameFlags(t)
BY DEF TypeOK, ThreadData, Accept, SameFlags

-----------------------------------------------------------------------------
(* Client threads and their slots                                          *)

LEMMA SlotsOwnedNext ==
  ASSUME TypeOK, SlotsOwned, [Next]_vars
  PROVE  SlotsOwned'
<1>1. ASSUME NEW c \in Conns, ClientStep(c) \/ Receive(c) PROVE SlotsOwned'
  <2>1. CASE FreeSlot(c)
    BY <2>1 DEF TypeOK, SlotsOwned, FreeSlot, Busy, ToClient, cdata
  <2>2. CASE ~FreeSlot(c)
    <3>1. \A d \in Conns : Busy(d)' <=> Busy(d)
      BY <1>1, <2>2, ClientAlone DEF Busy
    <3>2. cslot' = cslot /\ clients' = clients
      BY <1>1, <2>2, ClientAlone
    <3> QED
      BY <3>1, <3>2 DEF SlotsOwned
  <2> QED
    BY <2>1, <2>2
<1>2. ASSUME NEW j \in Jobs, ConsoleStep(j) PROVE SlotsOwned'
  BY <1>2, ConsoleSparesClients DEF SlotsOwned, Busy, clientVars, cdata
<1>3. CASE \/ ProcessStep \/ Sigpipe \/ InputRace \/ Rest \/ UNCHANGED vars
           \/ \E c \in Conns : PeerClose(c) \/ PeerReset(c)
  BY <1>3, OthersSpareThreads DEF SlotsOwned, Busy, clientVars, cdata
<1>4. ASSUME NEW c \in Conns, NEW s \in Slots, Accept(c, s) PROVE SlotsOwned'
  <2>1. Lowest(1) # 0
    BY <1>4, FirstFree, FreeIsFinite DEF Accept
  <2>2. \A d \in Conns : Busy(d) => cslot[d] # s
    BY <1>4 DEF Accept, SlotsOwned
  <2> QED
    BY <1>4, <2>1, <2>2 DEF TypeOK, SlotsOwned, Accept, Busy, ToClient
<1> QED
  BY <1>1, <1>2, <1>3, <1>4 DEF Next, NetworkStep

LEMMA PlacedAreJobs == ConsolesPlaced => JobsPlaced
  BY DEF ConsolesPlaced, JobsPlaced, Busy

LEMMA JobsPlacedNext ==
  ASSUME TypeOK, SlotsOwned, JobsPlaced, [Next]_vars
  PROVE  JobsPlaced'
<1>1. ASSUME NEW c \in Conns, ClientStep(c) \/ Receive(c) PROVE JobsPlaced'
  <2>1. ASSUME NEW j \in Jobs, RunCommand(c, j) PROVE JobsPlaced'
    BY <2>1 DEF TypeOK, JobsPlaced, RunCommand, Gets, ToClient, ToConsole
  <2>2. ASSUME NEW j \in Jobs, ThreadFails(c, j) PROVE JobsPlaced'
    BY <2>2 DEF TypeOK, JobsPlaced, ThreadFails, Gets, ToClient, ToConsole, jdata
  <2>3. CASE FreeSlot(c)
    BY <2>3 DEF TypeOK, JobsPlaced, FreeSlot, ToClient, consoleVars, jdata
  <2>4. CASE ~FreeSlot(c) /\ \A j \in Jobs : ~RunCommand(c, j) /\ ~ThreadFails(c, j)
    <3>1. \A d \in Conns : cpc[d] # "idle" => cpc'[d] # "idle"
      BY <1>1, <2>4, ClientAlone DEF Busy
    <3> QED
      BY <1>1, <2>4, <3>1, ClientSparesConsoles DEF JobsPlaced, consoleVars, jdata
  <2> QED
    BY <2>1, <2>2, <2>3, <2>4
<1>2. ASSUME NEW j \in Jobs, ConsoleStep(j) PROVE JobsPlaced'
  <2>1. jpc[j] = "new" => jpc' = jpc \/ jslot'[j] \in Slots
    <3>1. CASE jpc[j] = "new" /\ cpc[jconn[j]] # "done"
      <4>1. cslot[jconn[j]] \in Slots
        BY <3>1 DEF JobsPlaced, SlotsOwned, Busy
      <4> QED
        BY <1>2, <3>1, <4>1, ConsoleArgument
    <3>2. CASE jpc[j] = "new" /\ cpc[jconn[j]] = "done"
      BY <1>2, <3>2, DanglingArgument
    <3> QED
      BY <3>1, <3>2
  <2> QED
    BY <1>2, <2>1, ConsoleAlone, ConsoleSparesClients DEF JobsPlaced, clientVars
<1>3. CASE \/ ProcessStep \/ Sigpipe \/ InputRace \/ Rest \/ UNCHANGED vars
           \/ \E c \in Conns : PeerClose(c) \/ PeerReset(c)
  BY <1>3, OthersSpareThreads
     DEF JobsPlaced, clientVars, consoleVars, jdata
<1>4. ASSUME NEW c \in Conns, NEW s \in Slots, Accept(c, s) PROVE JobsPlaced'
  BY <1>4 DEF TypeOK, JobsPlaced, Accept, ToClient, consoleVars, jdata
<1> QED
  BY <1>1, <1>2, <1>3, <1>4 DEF Next, NetworkStep

LEMMA ConsolesPlacedNext ==
  ASSUME PromptStart, TypeOK, SlotsOwned, ConsolesPlaced, [Next]_vars
  PROVE  ConsolesPlaced'
<1>1. ASSUME NEW c \in Conns, ClientStep(c) \/ Receive(c) PROVE ConsolesPlaced'
  <2>1. ASSUME NEW j \in Jobs, RunCommand(c, j) PROVE ConsolesPlaced'
    BY <2>1 DEF TypeOK, ConsolesPlaced, RunCommand, Gets, Busy, ToClient, ToConsole
  <2>2. ASSUME NEW j \in Jobs, ThreadFails(c, j) PROVE ConsolesPlaced'
    BY <2>2 DEF TypeOK, ConsolesPlaced, ThreadFails, Gets, Busy, ToClient, ToConsole, jdata
  <2>3. CASE FreeSlot(c)
    BY <2>3 DEF TypeOK, ConsolesPlaced, FreeSlot, Busy, ToClient, consoleVars, jdata
  <2>4. CASE ~FreeSlot(c) /\ \A j \in Jobs : ~RunCommand(c, j) /\ ~ThreadFails(c, j)
    <3>1. \A d \in Conns : Busy(d)' <=> Busy(d)
      BY <1>1, <2>4, ClientAlone DEF Busy
    <3> QED
      BY <1>1, <2>4, <3>1, ClientSparesConsoles DEF ConsolesPlaced, consoleVars, jdata
  <2> QED
    BY <2>1, <2>2, <2>3, <2>4
<1>2. ASSUME NEW j \in Jobs, ConsoleStep(j) PROVE ConsolesPlaced'
  <2>1. jpc[j] = "new" => jpc' = jpc \/ jslot'[j] = cslot[jconn[j]]
    BY <1>2, ConsoleArgument DEF ConsolesPlaced, Busy
  <2>2. jpc[j] = "new" => cslot[jconn[j]] \in Slots
    BY DEF ConsolesPlaced, SlotsOwned
  <2> QED
    BY <1>2, <2>1, <2>2, ConsoleAlone, ConsoleSparesClients
       DEF ConsolesPlaced, Busy, clientVars
<1>3. CASE \/ ProcessStep \/ Sigpipe \/ InputRace \/ Rest \/ UNCHANGED vars
           \/ \E c \in Conns : PeerClose(c) \/ PeerReset(c)
  BY <1>3, OthersSpareThreads
     DEF ConsolesPlaced, Busy, clientVars, consoleVars, jdata
<1>4. ASSUME NEW c \in Conns, NEW s \in Slots, Accept(c, s) PROVE ConsolesPlaced'
  BY <1>4 DEF TypeOK, ConsolesPlaced, Accept, Busy, ToClient, consoleVars, jdata
<1> QED
  BY <1>1, <1>2, <1>3, <1>4 DEF Next, NetworkStep

-----------------------------------------------------------------------------
(* Consoles and their slots                                                *)

LEMMA ClientKeepsSlot ==
  ASSUME TypeOK, NEW c \in Conns, ClientStep(c) \/ Receive(c)
  PROVE  cslot' = cslot /\ (\A d \in Conns : Busy(d)' => Busy(d))
         /\ (\A d \in Conns : d # c => cpc'[d] = cpc[d])
<1>1. CASE FreeSlot(c)
  BY <1>1 DEF TypeOK, FreeSlot, ToClient, Busy, cdata
<1>2. CASE ~FreeSlot(c)
  BY <1>2, ClientAlone DEF Busy
<1> QED
  BY <1>1, <1>2

\* Only RunCommand makes a console active, and no active console moves.
Stays(j) == Active(j)' => Active(j) /\ Where(j)' = Where(j)

LEMMA PlacesStay ==
  ASSUME TypeOK, SlotsOwned, ConsolesPlaced, [Next]_vars,
         \A c \in Conns, j \in Jobs : ~RunCommand(c, j)
  PROVE  \A j \in Jobs : Stays(j)
<1> USE DEF Stays, Active, Where
<1>1. ASSUME NEW c \in Conns, ClientStep(c) \/ Receive(c) PROVE \A j \in Jobs : Stays(j)
  <2>1. cslot' = cslot
    BY <1>1, ClientKeepsSlot
  <2>2. ASSUME NEW j \in Jobs, ThreadFails(c, j) PROVE \A k \in Jobs : Stays(k)
    BY <2>1, <2>2 DEF TypeOK, ThreadFails, ToConsole, jdata
  <2>3. CASE \A j \in Jobs : ~ThreadFails(c, j)
    BY <1>1, <2>1, <2>3, ClientSparesConsoles DEF consoleVars, jdata
  <2> QED
    BY <2>2, <2>3
<1>2. ASSUME NEW j \in Jobs, ConsoleStep(j) PROVE \A k \in Jobs : Stays(k)
  <2>1. jconn' = jconn /\ cslot' = cslot /\ \A k \in Jobs \ {j} : Stays(k)
    BY <1>2, ConsoleAlone, ConsoleSparesClients DEF clientVars, cdata
  <2>2. Stays(j)
    <3>1. jpc[j] \notin {"wait", "close1", "close2", "close3", "close4"} \/ ~Active(j)'
      BY <1>2 DEF TypeOK, ConsoleStep, ConsoleMoves, ReadArgument, ReadDangling, Prompt, Fork,
         ForkFails,
         Parent, ReadOutput, ReadForeign, ReadNothing, LeaveLoop, WriteInput, ClearInput,
         Kill, KillAll, Report, ClearExit, Deactivate, Wait, CloseAll, CloseEnd, OnlyToConsole,
         ToConsole,
         CheckInput, Die, consoleVars
    <3>2. jpc[j] = "new" => jpc' = jpc \/ jslot'[j] = cslot[jconn[j]]
      BY <1>2, ConsoleArgument DEF ConsolesPlaced, Busy
    <3>3. jpc[j] = "new" /\ jpc' = jpc => jslot' = jslot
      BY <1>2 DEF TypeOK, ConsoleStep, ConsoleMoves, ReadArgument, ReadDangling, Prompt, Fork,
         ForkFails,
         Parent, ReadOutput, ReadForeign, ReadNothing, LeaveLoop, WriteInput, ClearInput,
         Kill, KillAll, Report, ClearExit, Deactivate, Wait, CloseAll, CloseEnd, OnlyToConsole,
         ToConsole,
         CheckInput, Die, consoleVars, jdata
    <3> QED
      BY <1>2, <2>1, <3>1, <3>2, <3>3, ConsoleAlone DEF TypeOK, ConsolePC
  <2> QED
    BY <2>1, <2>2
<1>3. CASE \/ ProcessStep \/ Sigpipe \/ InputRace \/ Rest \/ UNCHANGED vars
           \/ \E c \in Conns : PeerClose(c) \/ PeerReset(c)
  BY <1>3, OthersSpareThreads DEF clientVars, cdata, consoleVars, jdata
<1>4. ASSUME NEW c \in Conns, NEW s \in Slots, Accept(c, s) PROVE \A j \in Jobs : Stays(j)
  <2>1. consoleVars' = consoleVars /\ cpc[c] = "idle" /\ \A d \in Conns \ {c} : cslot'[d] = cslot[d]
    BY <1>4 DEF Accept, TypeOK
  <2> QED
    BY <2>1 DEF consoleVars, jdata, ConsolesPlaced, Busy
<1> QED
  BY <1>1, <1>2, <1>3, <1>4 DEF Next, NetworkStep

LEMMA RunPlaces ==
  ASSUME TypeOK, ConsolesPlaced, NEW c \in Conns, NEW j \in Jobs, RunCommand(c, j)
  PROVE  /\ jpc[j] = "none" /\ Active(j)' /\ Where(j)' = cslot[c] /\ cpc[c] = "recv"
         /\ cslot' = cslot /\ cpc' = [cpc EXCEPT ![c] = "recv"]
         /\ handle' = [handle EXCEPT ![c] = j] /\ jpc' = [jpc EXCEPT ![j] = "new"]
         /\ jslot' = jslot /\ jconn' = [jconn EXCEPT ![j] = c]
         /\ \A k \in Jobs \ {j} : Stays(k)
BY DEF TypeOK, RunCommand, Gets, ToClient, ToConsole, Active, Where, Stays

\* Who takes a flag back: the console thread when it ends, or Accept.
Clearing(t) == \E j \in Jobs : jpc[j] = "deact" /\ jslot[j] = t /\ jpc'[j] = "free"
Ending(t) == \E j \in Jobs : jpc[j] = "free" /\ jslot[j] = t /\ jpc'[j] = "wait"

LEMMA FlagsFall ==
  ASSUME TypeOK, SlotsOwned, [Next]_vars, NEW t \in Slots
  PROVE  /\ ClientConsole[t].pipeActive => ClientConsole'[t].pipeActive \/ Ending(t)
         /\ ClientConsole[t].exitCode = 1 =>
              ClientConsole'[t].exitCode = 1 \/ Clearing(t) \/ clients[t] = 0
<1> USE DEF SameFlags
<1>1. ASSUME NEW c \in Conns, ClientStep(c) \/ Receive(c)
      PROVE  /\ ClientConsole[t].pipeActive => ClientConsole'[t].pipeActive
             /\ ClientConsole[t].exitCode = 1 => ClientConsole'[t].exitCode = 1
  <2>1. ASSUME NEW j \in Jobs, RunCommand(c, j) \/ ThreadFails(c, j)
        PROVE  /\ ClientConsole[t].pipeActive => ClientConsole'[t].pipeActive
               /\ ClientConsole[t].exitCode = 1 => ClientConsole'[t].exitCode = 1
    <3>1. cslot[c] \in Slots
      BY <2>1 DEF RunCommand, ThreadFails, Gets, SlotsOwned, Busy
    <3> QED
      BY <2>1, <3>1, StartFlags
  <2>2. CASE Cancel(c)
    <3>1. ASSUME NEW u \in ThreadData
          PROVE  LET v == [u EXCEPT !.exitCode = 1]
                 IN  v.exitCode = 1 /\ v.pipeActive = u.pipeActive
      BY DEF ThreadData
    <3> QED
      BY <2>2, <3>1 DEF Cancel, TypeOK
  <2>3. CASE ~Cancel(c) /\ \A j \in Jobs : ~RunCommand(c, j) /\ ~ThreadFails(c, j)
    BY <1>1, <2>3, ClientFlags
  <2> QED
    BY <2>1, <2>2, <2>3
<1>2. ASSUME NEW j \in Jobs, ConsoleStep(j)
      PROVE  /\ ClientConsole'[t].exitCode = ClientConsole[t].exitCode \/ Clearing(t)
             /\ ClientConsole'[t].pipeActive = ClientConsole[t].pipeActive \/ Ending(t)
  BY <1>2, ConsoleFlags DEF Clearing, Ending
<1>3. CASE \/ ProcessStep \/ Sigpipe \/ InputRace \/ Rest \/ UNCHANGED vars
           \/ \E c \in Conns : PeerClose(c) \/ PeerReset(c)
  BY <1>3, OthersSpareThreads
<1>4. ASSUME NEW c \in Conns, NEW s \in Slots, Accept(c, s)
      PROVE  /\ ClientConsole'[t].pipeActive = ClientConsole[t].pipeActive
             /\ SameFlags(t) \/ clients[t] = 0
  <2>1. clients[s] = 0
    BY <1>4 DEF Accept
  <2> QED
    BY <1>4, <2>1, AcceptFlags
<1> QED
  BY <1>1, <1>2, <1>3, <1>4 DEF Next, NetworkStep

LEMMA ConsoleExclusiveNext ==
  ASSUME TypeOK, SlotsOwned, ConsolesPlaced, ConsoleExclusive, [Next]_vars
  PROVE  ConsoleExclusive'
<1>0. \A j \in Jobs : Active(j) => Where(j) \in Slots
  BY DEF Active, Where, ConsolesPlaced, SlotsOwned
<1>1. ASSUME NEW j \in Jobs, Active(j), Active(j)'
      PROVE  ClientConsole'[Where(j)].pipeActive
  <2>1. ~Ending(Where(j))
    <3>1. ASSUME NEW k \in Jobs, jpc[k] = "free", jslot[k] = Where(j), jpc'[k] = "wait"
          PROVE  FALSE
      BY <1>1, <3>1 DEF ConsoleExclusive, Active, Where
    <3> QED
      BY <3>1 DEF Ending
  <2> QED
    BY <1>0, <1>1, <2>1, FlagsFall DEF ConsoleExclusive
<1>2. CASE \A c \in Conns, j \in Jobs : ~RunCommand(c, j)
  <2>1. \A j \in Jobs : Stays(j)
    BY <1>2, PlacesStay
  <2> QED
    BY <1>1, <2>1 DEF ConsoleExclusive, Stays
<1>3. ASSUME NEW c \in Conns, NEW j \in Jobs, RunCommand(c, j) PROVE ConsoleExclusive'
  <2>1. cslot[c] \in Slots
    BY <1>3, RunPlaces DEF SlotsOwned, Busy
  <2>2. ~ClientConsole[cslot[c]].pipeActive /\ ClientConsole'[cslot[c]].pipeActive
    BY <1>3, <2>1, StartFlags
  <2>3. \A k \in Jobs : Active(k) => Where(k) # cslot[c]
    BY <2>2 DEF ConsoleExclusive
  <2>4. Where(j)' = cslot[c] /\ \A k \in Jobs \ {j} : Stays(k)
    BY <1>3, RunPlaces
  <2> QED
    BY <1>1, <2>2, <2>3, <2>4 DEF ConsoleExclusive, Stays
<1> QED
  BY <1>2, <1>3

-----------------------------------------------------------------------------
(* Cancels                                                                 *)

\* How a client thread comes to wait for a console, and whose handle it has.
LEMMA HandlesMove ==
  ASSUME TypeOK, [Next]_vars, NEW c \in Conns, \A j \in Jobs : ~RunCommand(c, j)
  PROVE  \/ handle'[c] = handle[c]
         \/ handle'[c] = Stale /\ handle[c] \in Jobs /\ jpc[handle[c]] = "done"
         \/ handle'[c] \in Jobs /\ handle[c] = Stale /\ UNCHANGED <<cpc, cslot, consoleVars>>
            /\ jpc[handle'[c]] \notin {"none", "done", "void"}
<1>1. ASSUME NEW d \in Conns, ClientStep(d) PROVE \/ handle' = handle
        \/ Joined(d) \/ (JoinUndefined(d) /\ handle[d] = Stale)
  BY <1>1 DEF ClientStep, ClientMoves, Reply, SayFailed, FlagInput, JoinUndefined, Die, Shutdown,
     CloseNumber, FreeSlot, OnlyAgain, OnlyToClient, clientVars, cdata
<1>2. ASSUME NEW d \in Conns, Receive(d), \A j \in Jobs : ~RunCommand(d, j)
      PROVE  handle' = handle
  BY <1>2 DEF Receive, ThreadFails, Dropped, Builtin, PipeFails, NextInput, Cancel, Leave,
     EndOfStream,
     OnlyAgain, OnlyToClient, cdata
<1>3. ASSUME NEW d \in Conns, NEW j \in Jobs, RunCommand(d, j) PROVE handle'[c] = handle[c]
  BY <1>3 DEF RunCommand, TypeOK
<1>4. ASSUME NEW d \in Conns, Joined(d)
      PROVE  \/ handle'[c] = handle[c]
             \/ handle'[c] = Stale /\ handle[c] \in Jobs /\ jpc[handle[c]] = "done"
  BY <1>4 DEF Joined, TypeOK
<1>5. ASSUME NEW d \in Conns, JoinUndefined(d), handle[d] = Stale
      PROVE  \/ handle'[c] = handle[c]
             \/ handle'[c] \in Jobs /\ handle[c] = Stale /\ UNCHANGED <<cpc, cslot, consoleVars>>
                /\ jpc[handle'[c]] \notin {"none", "done", "void"}
  BY <1>5 DEF JoinUndefined, Die, OnlyAgain, clientVars, cdata, TypeOK
<1>6. CASE \E j \in Jobs : ConsoleStep(j)
  BY <1>6, ConsoleSparesClients DEF clientVars, cdata
<1>7. CASE \/ ProcessStep \/ Sigpipe \/ InputRace \/ Rest \/ UNCHANGED vars
           \/ \E d \in Conns : PeerClose(d) \/ PeerReset(d)
  BY <1>7, OthersSpareThreads DEF clientVars, cdata
<1>8. ASSUME NEW d \in Conns, NEW s \in Slots, Accept(d, s) PROVE handle' = handle
  BY <1>8 DEF Accept
<1> QED
  BY <1>1, <1>2, <1>3, <1>4, <1>5, <1>6, <1>7, <1>8 DEF Next, NetworkStep

\* Only Cancel makes a client thread wait for a console.
LEMMA JoinsBegin ==
  ASSUME TypeOK, [Next]_vars, NEW c \in Conns, cpc'[c] = "join"
  PROVE  cpc[c] = "join" \/ Cancel(c)
<1>1. ASSUME NEW d \in Conns, ClientStep(d) PROVE cpc[c] = "join"
  BY <1>1 DEF TypeOK, ClientStep, ClientMoves, Reply, SayFailed, FlagInput, Joined,
     JoinUndefined, Die,
     Shutdown, CloseNumber, FreeSlot, Again, OnlyAgain, OnlyToClient, ToClient, clientVars
<1>2. ASSUME NEW d \in Conns, Receive(d) PROVE cpc[c] = "join" \/ Cancel(c)
  BY <1>2 DEF TypeOK, Receive, RunCommand, ThreadFails, Dropped, Builtin, PipeFails,
     NextInput, Cancel, Leave, EndOfStream, Again, OnlyAgain, OnlyToClient, ToClient
<1>3. CASE \E j \in Jobs : ConsoleStep(j)
  BY <1>3, ConsoleSparesClients DEF clientVars
<1>4. CASE \/ ProcessStep \/ Sigpipe \/ InputRace \/ Rest \/ UNCHANGED vars
           \/ \E d \in Conns : PeerClose(d) \/ PeerReset(d)
  BY <1>4, OthersSpareThreads DEF clientVars
<1>5. ASSUME NEW d \in Conns, NEW s \in Slots, Accept(d, s) PROVE cpc[c] = "join"
  BY <1>5 DEF TypeOK, Accept, ToClient
<1> QED
  BY <1>1, <1>2, <1>3, <1>4, <1>5 DEF Next, NetworkStep

\* A console thread once created never becomes one that was not.
LEMMA ThreadsStay ==
  ASSUME TypeOK, [Next]_vars, NEW j \in Jobs, jpc[j] \notin {"none", "void"}
  PROVE  jpc'[j] \notin {"none", "void"}
<1>1. ASSUME NEW c \in Conns, ClientStep(c) \/ Receive(c) PROVE jpc'[j] \notin {"none", "void"}
  <2>1. CASE \E k \in Jobs : RunCommand(c, k) \/ ThreadFails(c, k)
    BY <2>1 DEF TypeOK, RunCommand, ThreadFails, ToConsole
  <2>2. CASE ~\E k \in Jobs : RunCommand(c, k) \/ ThreadFails(c, k)
    BY <1>1, <2>2, ClientSparesConsoles DEF consoleVars
  <2> QED
    BY <2>1, <2>2
<1>2. CASE \E k \in Jobs : ConsoleStep(k)
  BY <1>2, ConsoleAlone
<1>3. CASE \/ ProcessStep \/ Sigpipe \/ InputRace \/ Rest \/ UNCHANGED vars
           \/ \E d \in Conns : PeerClose(d) \/ PeerReset(d)
  BY <1>3, OthersSpareThreads DEF consoleVars
<1>4. CASE \E c \in Conns, s \in Slots : Accept(c, s)
  BY <1>4 DEF Accept, consoleVars
<1> QED
  BY <1>1, <1>2, <1>3, <1>4 DEF Next, NetworkStep

\* Client threads keep their slots; only Accept makes one busy.
LEMMA SlotsStay ==
  ASSUME TypeOK, [Next]_vars, NEW c \in Conns
  PROVE  \/ cpc[c] = "idle" /\ handle' = handle /\ (\A j \in Jobs : ~RunCommand(c, j))
            /\ \E s \in Slots : Accept(c, s)
         \/ cslot'[c] = cslot[c] /\ (cpc'[c] = "idle" => cpc[c] = "idle")
            /\ (Busy(c)' => Busy(c))
<1>1. ASSUME NEW d \in Conns, ClientStep(d) \/ Receive(d)
      PROVE  cslot'[c] = cslot[c] /\ (cpc'[c] = "idle" => cpc[c] = "idle") /\ (Busy(c)' => Busy(c))
  <2>1. CASE FreeSlot(d)
    BY <2>1 DEF TypeOK, FreeSlot, ToClient, Busy, cdata
  <2>2. CASE ~FreeSlot(d)
    BY <1>1, <2>2, ClientAlone DEF Busy
  <2> QED
    BY <2>1, <2>2
<1>2. CASE \E j \in Jobs : ConsoleStep(j)
  BY <1>2, ConsoleSparesClients DEF clientVars, cdata, Busy
<1>3. CASE \/ ProcessStep \/ Sigpipe \/ InputRace \/ Rest \/ UNCHANGED vars
           \/ \E d \in Conns : PeerClose(d) \/ PeerReset(d)
  BY <1>3, OthersSpareThreads DEF clientVars, cdata, Busy
<1>4. ASSUME NEW d \in Conns, NEW s \in Slots, Accept(d, s), d # c
      PROVE  cslot'[c] = cslot[c] /\ (cpc'[c] = "idle" => cpc[c] = "idle") /\ (Busy(c)' => Busy(c))
  BY <1>4 DEF TypeOK, Accept, ToClient, Busy
<1>5. ASSUME NEW s \in Slots, Accept(c, s)
      PROVE  cpc[c] = "idle" /\ handle' = handle /\ (\A j \in Jobs : ~RunCommand(c, j))
  BY <1>5 DEF Accept, RunCommand, Gets
<1> QED
  BY <1>1, <1>2, <1>3, <1>4, <1>5 DEF Next, NetworkStep

LEMMA HandlesKnownNext ==
  ASSUME TypeOK, SlotsOwned, ConsolesPlaced, ConsoleExclusive, HandlesKnown, [Next]_vars
  PROVE  HandlesKnown'
<1>1. ASSUME NEW c \in Conns, NEW j \in Jobs, RunCommand(c, j) PROVE HandlesKnown'
  <2>1. cslot[c] \in Slots
    BY <1>1, RunPlaces DEF SlotsOwned, Busy
  <2>2. \A k \in Jobs : Active(k) => Where(k) # cslot[c]
    BY <1>1, <2>1, StartFlags DEF ConsoleExclusive
  <2>3. /\ jpc[j] = "none" /\ cpc[c] = "recv" /\ Where(j)' = cslot[c]
        /\ cslot' = cslot /\ cpc' = [cpc EXCEPT ![c] = "recv"]
        /\ handle' = [handle EXCEPT ![c] = j] /\ jpc' = [jpc EXCEPT ![j] = "new"]
        /\ \A k \in Jobs \ {j} : Stays(k)
    BY <1>1, RunPlaces
  <2>4. ASSUME NEW d \in Conns, d # c
        PROVE  /\ cpc'[d] = cpc[d] /\ handle'[d] = handle[d] /\ handle[d] # j
               /\ Busy(d) => cslot[d] # cslot[c]
    BY <2>3, <2>4 DEF TypeOK, HandlesKnown, SlotsOwned, Busy
  <2>5. cpc'[c] = "recv" /\ handle'[c] = j /\ jpc'[j] = "new"
        /\ \A k \in Jobs \ {j} : jpc'[k] = jpc[k]
    BY <2>3 DEF TypeOK
  <2> QED
    BY <2>2, <2>3, <2>4, <2>5 DEF HandlesKnown, Stays, Busy
<1>2. ASSUME \A c \in Conns, j \in Jobs : ~RunCommand(c, j) PROVE HandlesKnown'
  <2>1. \A j \in Jobs : Stays(j)
    BY <1>2, PlacesStay
  <2>2. ASSUME NEW c \in Conns, NEW s \in Slots, Accept(c, s)
        PROVE  cpc'[c] # "idle" /\ handle'[c] = NoJob
    BY <2>2 DEF Accept, ToClient, TypeOK, HandlesKnown
  <2>3. ASSUME NEW c \in Conns
        PROVE  \/ handle'[c] = NoJob /\ cpc'[c] # "idle"
               \/ /\ cslot'[c] = cslot[c] /\ (cpc'[c] = "idle" => cpc[c] = "idle")
                  /\ Busy(c)' => Busy(c)
    BY <2>2, SlotsStay
  <2>4. ASSUME NEW c \in Conns
        PROVE  \/ handle'[c] = handle[c]
               \/ handle'[c] = Stale /\ handle[c] \in Jobs /\ jpc[handle[c]] = "done"
               \/ handle'[c] \in Jobs /\ handle[c] = Stale
                  /\ jpc[handle'[c]] \notin {"none", "done", "void"}
    BY <1>2, HandlesMove
  <2>5. ASSUME NEW c \in Conns, NEW j \in Jobs, handle'[c] = j
        PROVE  jpc'[j] \notin {"none", "void"}
    <3>1. jpc[j] \notin {"none", "void"}
      BY <2>4, <2>5, ConsoleAssumption DEF HandlesKnown, ConsoleAssumption
    <3> QED
      BY <3>1, ThreadsStay
  <2>6. ASSUME NEW c \in Conns, cpc'[c] = "idle"
        PROVE  handle'[c] = NoJob
    BY <2>3, <2>4, <2>6, ConsoleAssumption DEF HandlesKnown, ConsoleAssumption
  <2>7. ASSUME NEW c \in Conns, Busy(c)', handle'[c] # NoJob,
               NEW j \in Jobs, Active(j)', Where(j)' = cslot'[c]
        PROVE  handle'[c] = j
    <3>1. Busy(c) /\ cslot'[c] = cslot[c] /\ Active(j) /\ Where(j) = cslot[c]
      BY <2>1, <2>3, <2>7 DEF Stays
    <3>2. handle[c] # NoJob => handle[c] = j
      BY <3>1 DEF HandlesKnown
    <3> QED
      BY <2>4, <2>7, <3>1, <3>2, ConsoleAssumption DEF ConsoleAssumption, Active
  <2> QED
    BY <2>5, <2>6, <2>7 DEF HandlesKnown
<1> QED
  BY <1>1, <1>2

\* A console that has taken exitCode back only gives the slot back.
LEMMA FreePasses ==
  ASSUME TypeOK, [Next]_vars, NEW k \in Jobs, jpc[k] = "free"
  PROVE  jpc'[k] \in {"free", "wait"}
<1>1. ASSUME NEW c \in Conns, NEW j \in Jobs, RunCommand(c, j) \/ ThreadFails(c, j)
      PROVE  jpc'[k] = "free"
  BY <1>1 DEF TypeOK, RunCommand, ThreadFails, ToConsole
<1>2. ASSUME NEW c \in Conns, ClientStep(c) \/ Receive(c),
             \A j \in Jobs : ~RunCommand(c, j) /\ ~ThreadFails(c, j)
      PROVE  jpc'[k] = "free"
  BY <1>2, ClientSparesConsoles DEF consoleVars
<1>3. ASSUME NEW j \in Jobs, ConsoleStep(j) PROVE jpc'[k] \in {"free", "wait"}
  <2>1. CASE j = k
    BY <1>3, <2>1 DEF TypeOK, ConsoleStep, ConsoleMoves, ReadArgument, ReadDangling, Prompt, Fork,
       ForkFails, Parent, ReadOutput, ReadForeign, ReadNothing, LeaveLoop, WriteInput,
       ClearInput, Kill, KillAll, Report, ClearExit, Deactivate, Wait, CloseAll, CloseEnd,
       OnlyToConsole, ToConsole, Die, consoleVars
  <2> QED
    BY <1>3, <2>1, ConsoleAlone
<1>4. CASE \/ ProcessStep \/ Sigpipe \/ InputRace \/ Rest \/ UNCHANGED vars
           \/ \E c \in Conns : PeerClose(c) \/ PeerReset(c)
  BY <1>4, OthersSpareThreads DEF consoleVars
<1>5. ASSUME NEW c \in Conns, NEW s \in Slots, Accept(c, s) PROVE jpc'[k] = "free"
  BY <1>5 DEF Accept, consoleVars
<1> QED
  BY <1>1, <1>2, <1>3, <1>4, <1>5 DEF Next, NetworkStep

LEMMA CancelStandsNext ==
  ASSUME TypeOK, SlotsOwned, ConsolesPlaced, ConsoleExclusive, HandlesKnown, CancelStands,
         [Next]_vars
  PROVE  CancelStands'
<1> SUFFICES ASSUME NEW c \in Conns, cpc'[c] = "join", NEW k \in Jobs, handle'[c] = k,
                    Active(k)', jpc'[k] # "free", Where(k)' = cslot'[c]
             PROVE  ClientConsole'[cslot'[c]].exitCode = 1
  BY DEF CancelStands
<1>1. CASE Cancel(c)
  <2>1. cslot[c] \in Slots /\ cslot' = cslot
    BY <1>1 DEF Cancel, Gets, SlotsOwned, Busy, cdata
  <2>2. ASSUME NEW t \in ThreadData
        PROVE  [t EXCEPT !.exitCode = 1].exitCode = 1
    BY DEF ThreadData
  <2> QED
    BY <1>1, <2>1, <2>2 DEF Cancel, TypeOK
<1>2. CASE cpc[c] = "join"
  <2>1. \A j \in Jobs : ~RunCommand(c, j)
    BY <1>2 DEF RunCommand, Gets
  <2>2. Busy(c) /\ cslot[c] \in Slots /\ clients[cslot[c]] # 0 /\ cslot'[c] = cslot[c]
    BY <1>2, SlotsStay DEF SlotsOwned, Busy
  <2>3. Stays(k)
    <3>1. CASE \A d \in Conns, j \in Jobs : ~RunCommand(d, j)
      BY <3>1, PlacesStay
    <3>2. ASSUME NEW d \in Conns, NEW j \in Jobs, RunCommand(d, j)
          PROVE  Stays(k)
      <4>1. d # c /\ jpc[j] = "none" /\ handle'[c] = handle[c]
        BY <2>1, <3>2, RunPlaces DEF TypeOK
      <4> QED
        BY <3>2, <4>1, RunPlaces DEF HandlesKnown
    <3> QED
      BY <3>1, <3>2
  <2>4. Active(k) /\ Where(k) = cslot[c]
    BY <2>2, <2>3 DEF Stays
  <2>5. handle[c] = k
    <3>1. handle[c] # Stale
      BY <2>2, <2>4, ConsoleAssumption DEF HandlesKnown, ConsoleAssumption
    <3> QED
      BY <2>1, <3>1, HandlesMove, ConsoleAssumption DEF ConsoleAssumption
  <2>6. ~Clearing(cslot[c])
    <3>1. ASSUME NEW j \in Jobs, jpc[j] = "deact", jslot[j] = cslot[c], jpc'[j] = "free"
          PROVE  j = k
      BY <2>4, <3>1 DEF ConsoleExclusive, Active, Where
    <3> QED
      BY <3>1 DEF Clearing
  <2>7. ClientConsole[cslot[c]].exitCode = 1
    <3>1. jpc[k] # "free"
      BY FreePasses DEF Active
    <3> QED
      BY <1>2, <2>4, <2>5, <3>1 DEF CancelStands
  <2> QED
    BY <2>2, <2>6, <2>7, FlagsFall
<1> QED
  BY <1>1, <1>2, JoinsBegin

-----------------------------------------------------------------------------
(* Shells                                                                  *)

\* Only fork() writes activePipeID.
LEMMA PidKept ==
  ASSUME TypeOK, SlotsOwned, [Next]_vars, NEW t \in Slots,
         \A j \in Jobs : jpc[j] = "fork" => jslot[j] # t
  PROVE  ClientConsole'[t].activePipeID = ClientConsole[t].activePipeID
<1> DEFINE Kept == ClientConsole'[t].activePipeID = ClientConsole[t].activePipeID
<1>1. ASSUME NEW u \in ThreadData, NEW a, NEW b
      PROVE  /\ [u EXCEPT !.hasNextCommand = a].activePipeID = u.activePipeID
             /\ [u EXCEPT !.nextCommand = a].activePipeID = u.activePipeID
             /\ [u EXCEPT !.pipeChildToParent = a].activePipeID = u.activePipeID
             /\ [u EXCEPT !.exitCode = a].activePipeID = u.activePipeID
             /\ [u EXCEPT !.pipeActive = FALSE].activePipeID = u.activePipeID
             /\ [u EXCEPT !.hasNextCommand = FALSE, !.nextCommand = a].activePipeID = u.activePipeID
             /\ [u EXCEPT !.pipeChildToParent = a, !.pipeParentToChild = b,
                          !.pipeActive = TRUE].activePipeID = u.activePipeID
  BY DEF ThreadData
<1>2. ASSUME NEW c \in Conns, ClientStep(c) \/ Receive(c) PROVE Kept
  <2>1. CASE \E j \in Jobs : RunCommand(c, j) \/ ThreadFails(c, j)
    <3>1. \E a, b : ClientConsole' = [ClientConsole EXCEPT ![cslot[c]] = [@ EXCEPT
            !.pipeChildToParent = a, !.pipeParentToChild = b, !.pipeActive = TRUE]]
      BY <2>1 DEF RunCommand, ThreadFails, OpenPipes
    <3>2. PICK a, b : ClientConsole' = [ClientConsole EXCEPT ![cslot[c]] = [@ EXCEPT
            !.pipeChildToParent = a, !.pipeParentToChild = b, !.pipeActive = TRUE]]
      BY <3>1
    <3>3. ClientConsole[t] \in ThreadData
      BY DEF TypeOK
    <3>4. [ClientConsole[t] EXCEPT !.pipeChildToParent = a, !.pipeParentToChild = b,
             !.pipeActive = TRUE].activePipeID = ClientConsole[t].activePipeID
      BY <1>1, <3>3
    <3>5. ClientConsole'[t] \in {ClientConsole[t], [ClientConsole[t] EXCEPT
             !.pipeChildToParent = a, !.pipeParentToChild = b, !.pipeActive = TRUE]}
      BY <3>2, Zenon DEF TypeOK
    <3> QED
      BY <3>4, <3>5
  <2>2. CASE PipeFails(c)
    <3>1. \/ ClientConsole' = ClientConsole
          \/ \E v : ClientConsole' = [ClientConsole EXCEPT ![cslot[c]].pipeChildToParent = v]
      BY <2>2, Zenon DEF PipeFails
    <3>2. ASSUME NEW v, ClientConsole' = [ClientConsole EXCEPT ![cslot[c]].pipeChildToParent = v]
          PROVE  Kept
      BY <1>1, <3>2 DEF TypeOK
    <3> QED
      BY <3>1, <3>2
  <2>3. CASE NextInput(c)
    <3>1. \E v : ClientConsole' = [ClientConsole EXCEPT ![cslot[c]].nextCommand = v]
      BY <2>3, Zenon DEF NextInput
    <3> QED
      BY <1>1, <3>1 DEF TypeOK
  <2>4. CASE FlagInput(c) \/ Cancel(c)
    <3>1. CASE FlagInput(c)
      BY <1>1, <3>1 DEF TypeOK, FlagInput
    <3>2. CASE Cancel(c)
      BY <1>1, <3>2 DEF TypeOK, Cancel
    <3> QED
      BY <2>4, <3>1, <3>2
  <2>5. CASE ~ \/ \E j \in Jobs : RunCommand(c, j) \/ ThreadFails(c, j)
               \/ PipeFails(c) \/ NextInput(c) \/ FlagInput(c) \/ Cancel(c)
    BY <1>2, <2>5 DEF ClientStep, ClientMoves, Receive, Reply, SayFailed, Joined, JoinUndefined,
       Die,
       Shutdown, CloseNumber, FreeSlot, Dropped, Builtin, Leave, EndOfStream, OnlyAgain,
       OnlyToClient
  <2> QED
    BY <2>1, <2>2, <2>3, <2>4, <2>5
<1>3. ASSUME NEW j \in Jobs, ConsoleStep(j) PROVE Kept
  <2>1. CASE Fork(j) \/ ForkFails(j)
    <3>1. \E v : ClientConsole' = [ClientConsole EXCEPT ![jslot[j]].activePipeID = v]
      BY <2>1, Zenon DEF Fork, ForkFails
    <3>2. jslot[j] # t
      BY <2>1 DEF Fork, ForkFails
    <3> QED
      BY <3>1, <3>2 DEF TypeOK
  <2>2. CASE ClearInput(j) \/ ClearExit(j) \/ Deactivate(j)
    <3>1. CASE ClearInput(j)
      BY <1>1, <3>1 DEF TypeOK, ClearInput
    <3>2. CASE ClearExit(j)
      BY <1>1, <3>2 DEF TypeOK, ClearExit
    <3>3. CASE Deactivate(j)
      BY <1>1, <3>3 DEF TypeOK, Deactivate
    <3> QED
      BY <2>2, <3>1, <3>2, <3>3
  <2>3. CASE ~(Fork(j) \/ ForkFails(j) \/ ClearInput(j) \/ ClearExit(j) \/ Deactivate(j))
    BY <1>3, <2>3 DEF ConsoleStep, ConsoleMoves, ReadArgument, ReadDangling, Prompt, Parent,
       ReadOutput,
       ReadForeign, ReadNothing, LeaveLoop, WriteInput, Kill, KillAll, Report, Wait,
       CloseAll, CloseEnd, OnlyToConsole, Die
  <2> QED
    BY <2>1, <2>2, <2>3
<1>4. CASE \/ ProcessStep \/ Sigpipe \/ InputRace \/ Rest \/ UNCHANGED vars
           \/ \E c \in Conns : PeerClose(c) \/ PeerReset(c)
  BY <1>4, OthersSpareThreads
<1>5. ASSUME NEW c \in Conns, NEW s \in Slots, Accept(c, s) PROVE Kept
  BY <1>1, <1>5 DEF TypeOK, Accept
<1> QED
  BY <1>2, <1>3, <1>4, <1>5 DEF Next, NetworkStep

\* What can become of a shell in one step.
Shell(j) == <<"shell", j>>

LEMMA ShellMoves ==
  ASSUME TypeOK, [Next]_vars, NEW j \in Jobs
  PROVE  \/ proc'[Shell(j)] = proc[Shell(j)]
         \/ proc[Shell(j)] = "run" /\ proc'[Shell(j)] = "zombie"
         \/ proc[Shell(j)] = "zombie" /\ proc'[Shell(j)] = "gone" /\ \E k \in Jobs : Wait(k)
         \/ Fork(j)
<1> USE DEF Shell
<1>1. \A k \in Jobs : Shell(k) \in Proc /\ EndOf(Shell(k)) = "zombie"
  BY DEF Proc, EndOf
<1>2. ASSUME NEW c \in Conns, ClientStep(c) \/ Receive(c) PROVE proc' = proc
  <2>1. CASE \E k \in Jobs : RunCommand(c, k) \/ ThreadFails(c, k)
    BY <2>1 DEF RunCommand, ThreadFails, procVars
  <2> QED
    BY <1>2, <2>1, ClientSparesConsoles
<1>3. ASSUME NEW k \in Jobs, Fork(k), k # j PROVE proc'[Shell(j)] = proc[Shell(j)]
  <2>1. Shell(j) # Shell(k)
    BY <1>3
  <2> QED
    BY <1>1, <1>3, <2>1 DEF Fork, TypeOK
<1>4. ASSUME NEW k \in Jobs, Kill(k)
      PROVE  \/ proc'[Shell(j)] = proc[Shell(j)]
             \/ proc[Shell(j)] = "run" /\ proc'[Shell(j)] = "zombie"
  BY <1>1, <1>4 DEF Kill, TypeOK
<1>5. ASSUME NEW k \in Jobs, Wait(k)
      PROVE  \/ proc'[Shell(j)] = proc[Shell(j)]
             \/ proc[Shell(j)] = "zombie" /\ proc'[Shell(j)] = "gone"
  BY <1>1, <1>5 DEF Wait, Shells, TypeOK
<1>6. ASSUME NEW k \in Jobs, ConsoleStep(k), ~Fork(k), ~Kill(k), ~Wait(k) PROVE proc' = proc
  BY <1>6 DEF ConsoleStep, ConsoleMoves, ReadArgument, ReadDangling, Prompt, ForkFails, Parent,
     ReadOutput, ReadForeign, ReadNothing, LeaveLoop, WriteInput, ClearInput, KillAll,
     Report, ClearExit, Deactivate, CloseAll, CloseEnd, OnlyToConsole, Die, procVars
<1>7. ASSUME NEW k \in Jobs, Spawn(k) \/ Output(k) PROVE proc'[Shell(j)] = proc[Shell(j)]
  <2>1. Shell(j) # <<"cmd", k>>
    OBVIOUS
  <2> QED
    BY <1>1, <1>7, <2>1 DEF Spawn, Output, TypeOK
<1>8. ASSUME NEW p \in Proc, Exit(p)
      PROVE  \/ proc'[Shell(j)] = proc[Shell(j)]
             \/ proc[Shell(j)] = "run" /\ proc'[Shell(j)] = "zombie"
  BY <1>1, <1>8 DEF Exit, TypeOK
<1>9. CASE NetworkStep \/ Sigpipe \/ InputRace \/ Rest \/ UNCHANGED vars
  BY <1>9 DEF NetworkStep, Accept, PeerClose, PeerReset, Sigpipe, InputRace, Die, Rest, vars,
     procVars
<1> QED
  BY <1>2, <1>3, <1>4, <1>5, <1>6, <1>7, <1>8, <1>9 DEF Next, ProcessStep

Started == {"parent", "loop", "input", "clear", "kill"}
Ended == {"report", "deact", "free", "wait", "close1", "close2", "close3", "close4", "done"}

\* How a console thread passes the stages ShellFollows tells apart.
LEMMA StagesPass ==
  ASSUME TypeOK, NEW j \in Jobs, ConsoleStep(j), ~Fork(j), ~ForkFails(j), ~Parent(j), ~Kill(j)
  PROVE  /\ jpc[j] \in {"new", "prompt", "fork"} => jpc'[j] \in {"new", "prompt", "fork"}
         /\ jpc[j] \in Started => jpc'[j] \in Started
         /\ jpc'[j] = "parent" => jpc[j] = "parent" /\ jslot' = jslot
         /\ jpc[j] \in Ended => jpc'[j] \in Ended
         /\ jpid' = jpid
BY DEF Started, Ended, TypeOK, ConsoleStep, ConsoleMoves, ReadArgument, ReadDangling, Prompt,
   ReadOutput, ReadForeign, ReadNothing, LeaveLoop, WriteInput, ClearInput, KillAll,
   Report, ClearExit, Deactivate, Wait, CloseAll, CloseEnd, OnlyToConsole, ToConsole, CheckInput,
   Die,
   consoleVars, jdata

LEMMA ShellsFollowNext ==
  ASSUME TypeOK, SlotsOwned, ConsolesPlaced, ConsoleExclusive, ShellsFollow, [Next]_vars
  PROVE  ShellsFollow'
<1> USE DEF Shell
<1>0. \A j \in Jobs : Shell(j) \in Proc /\ Shell(j) # NoProc
  BY DEF Proc, NoProc
<1>1. ASSUME NEW j \in Jobs, ~Fork(j)
      PROVE  /\ proc[Shell(j)] = "none" <=> proc'[Shell(j)] = "none"
             /\ proc[Shell(j)] \in {"zombie", "gone"} => proc'[Shell(j)] \in {"zombie", "gone"}
  BY <1>1, ShellMoves
<1>2. ASSUME NEW j \in Jobs, jpc[j] = "parent"
      PROVE  ClientConsole'[jslot[j]].activePipeID = ClientConsole[jslot[j]].activePipeID
  <2>1. jslot[j] \in Slots
    BY <1>2 DEF ConsolesPlaced
  <2>2. \A k \in Jobs : jpc[k] = "fork" => jslot[k] # jslot[j]
    BY <1>2 DEF ConsoleExclusive, Active, Where
  <2> QED
    BY <2>1, <2>2, PidKept
\* A console that does not move.
<1>3. ASSUME NEW j \in Jobs, ~Fork(j), jpc'[j] = jpc[j], jslot'[j] = jslot[j], jpid'[j] = jpid[j]
      PROVE  ShellFollows(j)'
  BY <1>1, <1>2, <1>3 DEF ShellsFollow, ShellFollows
<1>4. ASSUME NEW c \in Conns, NEW i \in Jobs, RunCommand(c, i) \/ ThreadFails(c, i)
      PROVE  ShellsFollow'
  <2>1. /\ jpc[i] = "none" /\ jpc'[i] \in {"new", "void"} /\ jslot' = jslot /\ jpid' = jpid
        /\ \A j \in Jobs \ {i} : jpc'[j] = jpc[j]
        /\ proc' = proc
    BY <1>4 DEF TypeOK, RunCommand, ThreadFails, ToConsole, jdata, procVars
  <2>2. ShellFollows(i)'
    BY <2>1 DEF ShellsFollow, ShellFollows
  <2>3. ASSUME NEW j \in Jobs, j # i PROVE ShellFollows(j)'
    <3>1. ~Fork(j)
      BY <2>1, <2>3 DEF Fork, ToConsole, TypeOK
    <3> QED
      BY <1>3, <2>1, <2>3, <3>1
  <2> QED
    BY <2>2, <2>3 DEF ShellsFollow
<1>5. ASSUME NEW i \in Jobs, ConsoleStep(i) PROVE ShellsFollow'
  <2>1. ASSUME NEW j \in Jobs, j # i PROVE ShellFollows(j)'
    <3>1. jpc'[j] = jpc[j] /\ jslot'[j] = jslot[j]
      BY <1>5, <2>1, ConsoleAlone
    <3>2. jpid'[j] = jpid[j]
      BY <1>5, <2>1 DEF TypeOK, ConsoleStep, ConsoleMoves, ReadArgument, ReadDangling, Prompt, Fork,
         ForkFails, Parent, ReadOutput, ReadForeign, ReadNothing, LeaveLoop, WriteInput,
         ClearInput, Kill, KillAll, Report, ClearExit, Deactivate, Wait, CloseAll, CloseEnd,
         OnlyToConsole,
         Die, consoleVars, jdata
    <3>3. ~Fork(j)
      BY <3>1 DEF Fork, ToConsole, TypeOK
    <3> QED
      BY <1>3, <3>1, <3>2, <3>3
  <2>2. ShellFollows(i)'
    <3>1. CASE Fork(i)
      <4>1. jslot[i] \in Slots
        BY <3>1 DEF Fork, ConsolesPlaced
      <4>2. ClientConsole'[jslot[i]].activePipeID = Shell(i)
        <5>1. ASSUME NEW u \in ThreadData, NEW v
            PROVE  [u EXCEPT !.activePipeID = v].activePipeID = v
          BY DEF ThreadData
        <5> QED
          BY <3>1, <4>1, <5>1 DEF Fork, TypeOK
      <4>3. proc'[Shell(i)] \in {"run", "zombie"} /\ jpc'[i] = "parent" /\ jslot' = jslot
        BY <1>0, <3>1 DEF Fork, TypeOK, ToConsole, jdata
      <4> QED
        BY <4>2, <4>3 DEF ShellFollows
    <3>2. CASE ForkFails(i)
      <4>1. jslot[i] \in Slots
        BY <3>2 DEF ForkFails, ConsolesPlaced
      <4>2. ClientConsole'[jslot[i]].activePipeID = NoProc
        <5>1. ASSUME NEW u \in ThreadData, NEW v
            PROVE  [u EXCEPT !.activePipeID = v].activePipeID = v
          BY DEF ThreadData
        <5> QED
          BY <3>2, <4>1, <5>1 DEF ForkFails, TypeOK
      <4>3. proc' = proc /\ jpc[i] = "fork" /\ jpc'[i] = "parent" /\ jslot' = jslot
        BY <3>2 DEF ForkFails, TypeOK, ToConsole, jdata, procVars
      <4> QED
        BY <4>2, <4>3 DEF ShellsFollow, ShellFollows
    <3>3. CASE Parent(i)
      <4>1. /\ jpid'[i] = ClientConsole[jslot[i]].activePipeID /\ proc' = proc
            /\ jpc[i] = "parent" /\ jpc'[i] = "loop"
        BY <3>3 DEF Parent, TypeOK, ToConsole, procVars
      <4> QED
        BY <4>1 DEF ShellsFollow, ShellFollows
    <3>4. CASE Kill(i)
      <4>1. jpid[i] = Shell(i) /\ proc[Shell(i)] # "none" /\ jpc'[i] = "report"
        BY <3>4 DEF Kill, ShellsFollow, ShellFollows, TypeOK, ToConsole
      <4>2. proc'[Shell(i)] \in {"zombie", "gone"}
        BY <1>0, <3>4, <4>1 DEF Kill, Targets, EndOf, TypeOK
      <4> QED
        BY <4>1, <4>2 DEF ShellFollows
    <3>5. CASE ~Fork(i) /\ ~ForkFails(i) /\ ~Parent(i) /\ ~Kill(i)
      <4>1. jpc[i] \in {"new", "prompt", "fork"} \cup Started \cup Ended
        BY <1>5, ConsoleAlone DEF TypeOK, ConsolePC, Started, Ended
      <4>2. jpc'[i] = "parent" => jpc[i] = "parent" /\ jslot' = jslot
        BY <1>5, <3>5, StagesPass
      <4>3. CASE jpc[i] \in {"new", "prompt", "fork"}
        <5>1. jpc'[i] \in {"new", "prompt", "fork"} /\ proc[Shell(i)] = "none"
          BY <1>5, <3>5, <4>3, StagesPass DEF ShellsFollow, ShellFollows
        <5> QED
          BY <1>1, <3>5, <5>1 DEF ShellFollows
      <4>4. CASE jpc[i] \in Started
        <5>1. jpc'[i] \in Started /\ jpid' = jpid
          BY <1>5, <3>5, <4>4, StagesPass
        <5>2. jpc[i] = "parent" => jpc'[i] = "parent"
          BY <1>5, <3>5 DEF ConsoleStep, ConsoleMoves, ReadArgument, ReadDangling, Prompt,
             ReadOutput,
             ReadForeign, ReadNothing, LeaveLoop, WriteInput, ClearInput, KillAll, Report,
             ClearExit, Deactivate, Wait, CloseAll, CloseEnd
        <5> QED
          BY <1>1, <1>2, <3>5, <4>2, <4>4, <5>1, <5>2 DEF ShellsFollow, ShellFollows, Started
      <4>5. CASE jpc[i] \in Ended
        <5>1. jpc'[i] \in Ended /\ proc[Shell(i)] \in {"zombie", "gone"}
          BY <1>5, <3>5, <4>5, StagesPass DEF ShellsFollow, ShellFollows, Ended
        <5> QED
          BY <1>1, <3>5, <5>1 DEF ShellFollows, Ended
      <4> QED
        BY <4>1, <4>3, <4>4, <4>5
    <3> QED
      BY <3>1, <3>2, <3>3, <3>4, <3>5
  <2> QED
    BY <2>1, <2>2 DEF ShellsFollow
<1>6. CASE UNCHANGED consoleVars
  BY <1>3, <1>6 DEF ShellsFollow, consoleVars, jdata, Fork, ToConsole, TypeOK
<1>7. ASSUME NEW c \in Conns, ClientStep(c) \/ Receive(c),
             \A j \in Jobs : ~RunCommand(c, j) /\ ~ThreadFails(c, j)
      PROVE  UNCHANGED consoleVars
  BY <1>7, ClientSparesConsoles
<1>8. CASE ProcessStep \/ Sigpipe \/ InputRace \/ Rest \/ UNCHANGED vars \/ NetworkStep
  BY <1>8, OthersSpareThreads, <1>6 DEF NetworkStep, Accept
<1> QED
  BY <1>4, <1>5, <1>6, <1>7, <1>8 DEF Next

-----------------------------------------------------------------------------
(* Children                                                                *)

Children == Shells({"run", "zombie"})

LEMMA ChildrenFinite ==
  /\ IsFiniteSet(Children) /\ IsFiniteSet(Unwaited)
  /\ \A states : IsFiniteSet(Shells(states))
  /\ IsFiniteSet({j \in Jobs : jpc[j] = "wait"})
<1>1. \A S \in SUBSET Jobs : IsFiniteSet(S)
  BY ConsoleAssumption, FS_Subset DEF ConsoleAssumption
<1>2. /\ Children \in SUBSET Jobs /\ Unwaited \in SUBSET Jobs
      /\ \A states : Shells(states) \in SUBSET Jobs
      /\ {j \in Jobs : jpc[j] = "wait"} \in SUBSET Jobs
  BY DEF Children, Unwaited, Shells
<1> QED
  BY <1>1, <1>2

\* Apart from fork() and wait() nothing changes who is a child.
LEMMA ChildrenStay ==
  ASSUME TypeOK, ConsolesPlaced, ShellsFollow, [Next]_vars,
         \A j \in Jobs : ~Fork(j) /\ ~Wait(j)
  PROVE  Children' = Children /\ Unwaited' = Unwaited
<1> USE DEF Shell
<1>1. \A j \in Jobs : \/ proc'[Shell(j)] = proc[Shell(j)]
                      \/ proc[Shell(j)] = "run" /\ proc'[Shell(j)] = "zombie"
  BY ShellMoves
<1>2. Children' = Children
  BY <1>1 DEF Children, Shells
<1>3. ASSUME NEW j \in Jobs, proc[Shell(j)] # "none"
      PROVE  jpc'[j] \in {"close1", "close2", "close3", "close4", "done"} <=> jpc[j] \in {"close1", "close2", "close3", "close4", "done"}
  <2>1. CASE jpc'[j] = jpc[j]
    BY <2>1
  <2>2. ASSUME NEW k \in Jobs, ConsoleStep(k), jpc'[j] # jpc[j]
        PROVE  jpc'[j] \in {"close1", "close2", "close3", "close4", "done"} <=> jpc[j] \in {"close1", "close2", "close3", "close4", "done"}
    <3>1. k = j
      BY <2>2, ConsoleAlone
    <3> QED
      BY <2>2, <3>1 DEF TypeOK, ConsoleStep, ConsoleMoves, ReadArgument, ReadDangling, Prompt,
         ForkFails,
         Parent, ReadOutput, ReadForeign, ReadNothing, LeaveLoop, WriteInput, ClearInput,
         Kill, KillAll, Report, ClearExit, Deactivate, CloseAll, CloseEnd, OnlyToConsole, ToConsole,
         CheckInput, Die, consoleVars
  <2>3. ASSUME NEW c \in Conns, NEW k \in Jobs, RunCommand(c, k) \/ ThreadFails(c, k)
        PROVE  jpc'[j] = jpc[j]
    <3>1. k # j
      BY <1>3, <2>3 DEF RunCommand, ThreadFails, ShellsFollow, ShellFollows
    <3> QED
      BY <2>3, <3>1 DEF RunCommand, ThreadFails, ToConsole, TypeOK
  <2>4. ASSUME NEW c \in Conns, ClientStep(c) \/ Receive(c),
               \A k \in Jobs : ~RunCommand(c, k) /\ ~ThreadFails(c, k)
        PROVE  jpc' = jpc
    BY <2>4, ClientSparesConsoles DEF consoleVars
  <2>5. CASE ProcessStep \/ Sigpipe \/ InputRace \/ Rest \/ UNCHANGED vars \/ NetworkStep
    BY <2>5, OthersSpareThreads DEF NetworkStep, Accept, consoleVars
  <2> QED
    BY <2>1, <2>2, <2>3, <2>4, <2>5 DEF Next
<1>4. \A j \in Jobs : j \in Unwaited' <=> j \in Unwaited
  BY <1>1, <1>3 DEF Unwaited
<1>5. Unwaited' = Unwaited
  BY <1>4 DEF Unwaited
<1> QED
  BY <1>2, <1>5

LEMMA ChildrenCountedNext ==
  ASSUME TypeOK, ConsolesPlaced, ShellsFollow, ChildrenCounted, [Next]_vars
  PROVE  ChildrenCounted'
<1> USE DEF Shell
<1>0. \A j \in Jobs : Shell(j) \in Proc
  BY DEF Proc
<1>1. Cardinality(Children) = Cardinality(Unwaited)
  BY DEF ChildrenCounted, Children
<1>2. ASSUME NEW j \in Jobs, Fork(j) PROVE ChildrenCounted'
  <2>1. proc[Shell(j)] = "none" /\ jpc'[j] = "parent" /\ \A k \in Jobs \ {j} : jpc'[k] = jpc[k]
    BY <1>2 DEF Fork, ShellsFollow, ShellFollows, ToConsole, TypeOK
  <2>2. proc'[Shell(j)] \in {"run", "zombie"}
        /\ \A k \in Jobs \ {j} : proc'[Shell(k)] = proc[Shell(k)]
    <3>1. \A k \in Jobs \ {j} : Shell(k) # Shell(j)
      OBVIOUS
    <3> QED
      BY <1>0, <1>2, <3>1 DEF Fork, TypeOK
  <2>3. j \notin Children /\ j \notin Unwaited
    BY <2>1 DEF Children, Shells, Unwaited
  <2>4. Children' = Children \cup {j}
    BY <2>1, <2>2 DEF Children, Shells
  <2>5. Unwaited' = Unwaited \cup {j}
    BY <2>1, <2>2 DEF Unwaited
  <2>6. /\ Cardinality(Children') = Cardinality(Children) + 1
        /\ Cardinality(Unwaited') = Cardinality(Unwaited) + 1
    BY <2>3, <2>4, <2>5, ChildrenFinite, FS_AddElement
  <2> QED
    BY <1>1, <2>6 DEF ChildrenCounted, Children
<1>3. ASSUME NEW j \in Jobs, Wait(j) PROVE ChildrenCounted'
  <2>1. jpc[j] = "wait" /\ jpc'[j] = "close1" /\ \A k \in Jobs \ {j} : jpc'[k] = jpc[k]
    BY <1>3 DEF Wait, ToConsole, TypeOK
  <2>2. j \in Unwaited
    BY <2>1 DEF Unwaited, ShellsFollow, ShellFollows
  <2>3. Children # {}
    BY <1>1, <2>2, ChildrenFinite, FS_EmptySet
  <2>4. PICK k \in Shells({"zombie"}) : proc' = [proc EXCEPT ![Shell(k)] = "gone"]
    BY <1>3, <2>3 DEF Wait, Children
  <2>5. k \in Jobs /\ k \in Children /\ proc'[Shell(k)] = "gone"
        /\ \A i \in Jobs \ {k} : proc'[Shell(i)] = proc[Shell(i)]
    <3>1. \A i \in Jobs \ {k} : Shell(k) # Shell(i)
      OBVIOUS
    <3> QED
      BY <1>0, <2>4, <3>1 DEF Shells, Children, TypeOK
  <2>6. Children' = Children \ {k}
    BY <2>5 DEF Children, Shells
  <2>7. Unwaited' = Unwaited \ {j}
    <3>1. \A i \in Jobs : proc[Shell(i)] = "none" <=> proc'[Shell(i)] = "none"
      BY <2>4, <2>5 DEF Shells
    <3> QED
      BY <2>1, <3>1 DEF Unwaited
  <2>8. /\ Cardinality(Children') = Cardinality(Children) - 1
        /\ Cardinality(Unwaited') = Cardinality(Unwaited) - 1
    BY <2>2, <2>5, <2>6, <2>7, ChildrenFinite, FS_RemoveElement
  <2> QED
    BY <1>1, <2>8 DEF ChildrenCounted, Children
<1>4. CASE \A j \in Jobs : ~Fork(j) /\ ~Wait(j)
  BY <1>1, <1>4, ChildrenStay DEF ChildrenCounted, Children
<1> QED
  BY <1>2, <1>3, <1>4

\* The children that still run belong to consoles before their wait().
LEMMA WaitersCovered ==
  ASSUME TypeOK, ShellsFollow, ChildrenCounted
  PROVE  WaitNeverBlocks
<1> DEFINE Waiters == {j \in Jobs : jpc[j] = "wait"}
           Live == Shells({"run"})
           Dead == Shells({"zombie"})
<1>1. Waiters \cap Live = {} /\ Live \cap Dead = {} /\ Children = Live \cup Dead
  BY DEF Shells, Children, ShellsFollow, ShellFollows
<1>2. Waiters \cup Live \in SUBSET Unwaited
  BY DEF Shells, Unwaited, ShellsFollow, ShellFollows
<1>3. IsFiniteSet(Waiters) /\ IsFiniteSet(Live) /\ IsFiniteSet(Dead) /\ IsFiniteSet(Unwaited)
  BY ChildrenFinite
<1> HIDE DEF Waiters, Live, Dead
<1>4. /\ Cardinality(Waiters) \in Nat /\ Cardinality(Live) \in Nat /\ Cardinality(Dead) \in Nat
      /\ Cardinality(Waiters \cup Live) = Cardinality(Waiters) + Cardinality(Live)
      /\ Cardinality(Children) = Cardinality(Live) + Cardinality(Dead)
  <2>1. Cardinality({}) = 0
    BY FS_EmptySet
  <2>2. /\ Cardinality(Waiters) \in Nat /\ Cardinality(Live) \in Nat
        /\ Cardinality(Dead) \in Nat
    BY <1>3, FS_CardinalityType
  <2>3. Cardinality(Waiters \cup Live) = Cardinality(Waiters) + Cardinality(Live) - 0
    BY <1>1, <1>3, <2>1, FS_Union
  <2>4. Cardinality(Children) = Cardinality(Live) + Cardinality(Dead) - 0
    BY <1>1, <1>3, <2>1, FS_Union
  <2> QED
    BY <2>2, <2>3, <2>4
<1>5. Cardinality(Waiters \cup Live) <= Cardinality(Unwaited)
  BY <1>2, <1>3, FS_Subset
<1>6. Cardinality(Children) = Cardinality(Unwaited)
  BY DEF ChildrenCounted, Children
<1>7. Cardinality(Waiters) <= Cardinality(Dead)
  BY <1>4, <1>5, <1>6
<1> QED
  BY <1>7 DEF WaitNeverBlocks, Waiters, Dead

-----------------------------------------------------------------------------
(* The invariant                                                           *)

LEMMA InvInit == Init => ConsoleInv
<1> SUFFICES ASSUME Init PROVE ConsoleInv
  OBVIOUS
<1>1. TypeOK
  BY TypeInit
<1>2. SlotsOwned /\ ConsolesPlaced
  BY DEF Init, SlotsOwned, ConsolesPlaced, Busy
<1>3. ConsoleExclusive /\ HandlesKnown /\ CancelStands
  BY ConsoleAssumption
     DEF Init, ConsoleExclusive, HandlesKnown, CancelStands, Active, Busy, ConsoleAssumption
<1>4. ShellsFollow
  BY DEF Init, ShellsFollow, ShellFollows, Proc
<1>5. Shells({"run", "zombie"}) = {} /\ Unwaited = {}
  BY DEF Init, Shells, Unwaited, Proc
<1>6. ChildrenCounted
  BY <1>5 DEF ChildrenCounted
<1> QED
  BY <1>1, <1>2, <1>3, <1>4, <1>6 DEF ConsoleInv

LEMMA InvNext ==
  ASSUME PromptStart, ConsoleInv, [Next]_vars
  PROVE  ConsoleInv'
<1> USE DEF ConsoleInv
<1>1. TypeOK' /\ SlotsOwned' /\ ConsolesPlaced'
  BY PlacedAreJobs, TypeNext, SlotsOwnedNext, ConsolesPlacedNext
<1>2. ConsoleExclusive' /\ HandlesKnown' /\ CancelStands'
  BY ConsoleExclusiveNext, HandlesKnownNext, CancelStandsNext
<1>3. ShellsFollow' /\ ChildrenCounted'
  BY ShellsFollowNext, ChildrenCountedNext
<1> QED
  BY <1>1, <1>2, <1>3

\* The invariant of the command sessions: provided every console thread reads
\* its argument before its creator exits, all of ConsoleInv holds for ever,
\* for any number of slots, connections and commands.
THEOREM Invariance == PromptStart => (Spec => []ConsoleInv)
<1> SUFFICES ASSUME PromptStart PROVE Spec => []ConsoleInv
  OBVIOUS
<1>1. Init => ConsoleInv
  BY InvInit
<1>2. ConsoleInv /\ [Next]_vars => ConsoleInv'
  BY InvNext
<1> QED
  BY <1>1, <1>2, PTL DEF Spec

\* What needs no assumption about threads: the slots of client threads are
\* their own, and a console's socketID is a slot, if not the right one.
Base == TypeOK /\ SlotsOwned /\ JobsPlaced

LEMMA AlwaysBase == Spec => []Base
<1>1. Init => Base
  BY InvInit, PlacedAreJobs DEF Base, ConsoleInv
<1>2. Base /\ [Next]_vars => Base'
  BY TypeNext, SlotsOwnedNext, JobsPlacedNext DEF Base
<1> QED
  BY <1>1, <1>2, PTL DEF Spec

\* Type correctness of NewClient and NewConsole, even with an argument read
\* from a dead stack: a thread's socketID is a slot whenever it is used as an
\* index, unless that read ends the server.
THEOREM TypeCorrect == Spec => []TypeOK
<1>1. Base => TypeOK
  BY DEF Base
<1> QED
  BY <1>1, AlwaysBase, PTL

\* "One thread at a time" (main.cpp:236): at most one console is active in a
\* slot, whatever the order of commands, cancels, hang-ups and new clients.
THEOREM OneConsole == PromptStart => (Spec => []ConsoleExclusive)
<1>1. ConsoleInv => ConsoleExclusive
  BY DEF ConsoleInv
<1> QED
  BY <1>1, Invariance, PTL

\* The request to stop (main.cpp:275) is still there when the console of the
\* slot looks for it.
THEOREM CancelKept == PromptStart => (Spec => []CancelStands)
<1>1. ConsoleInv => CancelStands
  BY DEF ConsoleInv
<1> QED
  BY <1>1, Invariance, PTL

\* wait(NULL) (main.cpp:372) returns at once although it takes any child: no
\* session ever waits for another session's shell.
THEOREM WaitReturns == PromptStart => (Spec => []WaitNeverBlocks)
<1>1. ConsoleInv => WaitNeverBlocks
  BY WaitersCovered DEF ConsoleInv
<1> QED
  BY <1>1, Invariance, PTL
=============================================================================
