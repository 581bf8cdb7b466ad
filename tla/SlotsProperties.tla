--------------------------- MODULE SlotsProperties ---------------------------
(* What the accept loop and the client threads of module Slots guarantee. *)
EXTENDS Slots

\* The connections whose sessions are under way: from accept() to the end of
\* CloseSocket.
Setup(c) == newest = c /\ tpc[c] = "none"
Running(c) == tpc[c] \in {"serve", "join", "shut", "close", "null"}
Home(c) == IF Running(c) THEN socketID[c]
           ELSE IF Setup(c) THEN i ELSE currentClientSocket
Session(c) == Setup(c) \/ tpc[c] = "start" \/ Running(c)

\* Every session has a slot of its own, whose number is the session's socket
\* until it closes it: no thread reads from, shuts down or closes another
\* client's connection, and the loop does not fill a slot in use.
Exclusive ==
  \A c \in Conns : Session(c) =>
    /\ clients[Home(c)] # 0
    /\ tpc[c] # "null" => At(Home(c)) = c
    /\ \A d \in Conns : Session(d) /\ Home(c) = Home(d) => c = d

\* The only way to break this is a hand-off that was overtaken: no other order
\* of the steps of the loop and of the threads does, with any failure.
ServedOnce == overtaken \/ Exclusive

\* A descriptor is given back with its slot.  The only ones that are not are
\* those of connections reset by the client, for CloseSocket does not close a
\* number when shutdown() failed, and of those that never got a thread ...
Accounted ==
  \A c \in Conns :
    Cardinality({n \in Fds : fd[n] = c}) =
      IF sock[c] = "reset" \/ tpc[c] = "void" THEN 1
      ELSE IF Session(c) /\ tpc[c] # "null" THEN 1 ELSE 0

\* ... unless a hand-off was overtaken.
FdsAccounted == overtaken \/ Accounted

\* The sessions as module Admission sees them.
Owner(s) == IF \E c \in Conns : Session(c) /\ Home(c) = s
            THEN CHOOSE c \in Conns : Session(c) /\ Home(c) = s
            ELSE Nobody

Board == INSTANCE Admission WITH
  owner <- [s \in Slots |-> Owner(s)],
  past <- {c \in Conns : tpc[c] \in {"read", "count", "done", "void"}}

\* Until a hand-off is overtaken, every step admits one client, releases one
\* slot, or changes nothing of either.
ImplementsAdmission ==
  Board!Init /\ [][overtaken' \/ Board!Next]_(Board!vars)

\* A client that hung up gives its slot back and is counted out, unless it
\* never got a thread, or its thread waits for a console that never ends, or a
\* hand-off was overtaken.
HangUpEnds ==
  []~overtaken =>
    \A c \in Conns : \/ <>[](tpc[c] = "join")
                     \/ sock[c] = "closed" ~> tpc[c] \in {"done", "void"}

\* A waiting client is accepted if numbers keep becoming free, and slots without
\* one: a slot that holds what a failed accept() returned is not lost.
WaitingAdmitted ==
  ([]<>(FreeFds # {} /\ \E s \in Slots : clients[s] \notin Fds))
  => \A c \in Conns : sock[c] = "queued" ~> sock[c] # "queued"

-----------------------------------------------------------------------------
(* What the comments say, and the code does not do                         *)

\* "This will store the current socket used" (main.cpp:153): the slot a
\* thread takes for its own holds the connection it was created for.
OwnSlot == \A c \in Conns : tpc[c] = "serve" => rsock[c] = c
=============================================================================
