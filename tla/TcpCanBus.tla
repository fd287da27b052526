----------------------------- MODULE TcpCanBus -----------------------------
(***************************************************************************)
(* can_server with its TCP clients: the "virtual CAN bus" of CanServer.h.  *)
(* Composes CanServer and TcpCanController over the connections of         *)
(* TcpLink.                                                                *)
(***************************************************************************)
EXTENDS Naturals, Sequences, FiniteSets

CONSTANTS
  Client, Cleanup, NoThread,
  SendThread,  \* clients that send from a thread of its own
  Capacity,    \* bound: tokens in a stream
  BodySize,    \* bound: lengths of what follows a CMD_MSG
  Slow,        \* bound: clients on whose connection values are cut
  Torn,        \* bound: kinds of tokens cut in their middle
  MaxSends,    \* bound: messages sent, per client
  Steady,      \* bound: clients that neither stop nor close
  Restart      \* bound: clients started again after a failure or a stop

ASSUME TcpCanBusAssumption ==
  /\ Cleanup # NoThread
  /\ {Cleanup, NoThread} \cap Client = {}
  /\ SendThread \subseteq Client
  /\ Capacity \in Nat \ {0}
  /\ MaxSends \in [Client -> Nat]
  /\ BodySize \subseteq 6..14 /\ BodySize # {}
  /\ Slow \subseteq Client

VARIABLES
  up, down, connected, serving,
  app, rx, tx, sent, rxNeed, adrift, seen, answered, cut,
  m_clients, m_disconnected_clients, m_mutex, newcomer, comm,
  m_controller_started, msg, need, late, todo, half, deleted, bus

L == INSTANCE TcpLink
K == INSTANCE TcpCanController
S == INSTANCE CanServer

link == <<up, down, connected, serving>>
controllers == <<app, rx, tx, sent, rxNeed, adrift, seen, answered, cut>>
server == <<m_clients, m_disconnected_clients, m_mutex, newcomer, comm,
            m_controller_started, msg, need, late, todo, half, deleted, bus>>
vars == <<link, controllers, server>>

Init == L!Init /\ K!Init /\ S!Init

Request(c) == K!Request(c) /\ UNCHANGED server
AppStep(c) == K!AppStep(c) /\ UNCHANGED server
SendBody(c) == K!SendBody(c) /\ UNCHANGED server
RxStep(c) == K!RxStep(c) /\ UNCHANGED server

CommStep(c) == S!CommStep(c) /\ UNCHANGED controllers
ListenStep == S!ListenStep /\ UNCHANGED controllers
CleanupStep == S!CleanupStep /\ UNCHANGED controllers

Next ==
  \/ \E c \in Client :
       \/ Request(c) \/ AppStep(c) \/ SendBody(c) \/ RxStep(c)
       \/ CommStep(c)
  \/ ListenStep
  \/ CleanupStep

(* Threads that can run do run; nobody has to open, send, stop or close.   *)
Fairness ==
  /\ \A c \in Client :
       /\ WF_vars(AppStep(c)) /\ WF_vars(SendBody(c)) /\ WF_vars(RxStep(c))
       /\ WF_vars(CommStep(c))
  /\ WF_vars(ListenStep)
  /\ WF_vars(CleanupStep)

SafetySpec == Init /\ [][Next]_vars
Spec == SafetySpec /\ Fairness

-----------------------------------------------------------------------------
TypeOK == L!TypeOK /\ K!TypeOK /\ S!TypeOK

(* The server and its controllers are a CAN bus: whatever connects, stops, *)
(* times out or vanishes, all see the messages in the order in which the   *)
(* server dispatched them, at most once, and never their own.  What never  *)
(* was a message reaches only a controller one of whose reads timed out.   *)
Bus == INSTANCE CanBus WITH Node <- Client, Message <- Nat

ImplementsBus == Bus!Spec

(* What a controller put on the bus is what was handed to its send(), in   *)
(* that order and at most once.  Something that is no message of it only   *)
(* gets there when two threads use the controller, when one of its writes  *)
(* was cut, or when the server's read of one was.                          *)
BusCarriesWhatWasSent ==
  \A c \in Client :
    LET own == {k \in DOMAIN bus : bus[k].from = c}
        messages == {k \in own : bus[k].msg # L!Garbled}
    IN  /\ (c \notin SendThread /\ ~cut[c] /\ ~late[c]) => messages = own
        /\ \A i, j \in messages :
             /\ bus[i].msg \in 1..sent[c]
             /\ i < j => bus[i].msg < bus[j].msg

(* A controller none of whose reads timed out half way finds a command     *)
(* where it expects one and a message where it expects one: no answer of   *)
(* the server lands between CMD_MSG and what belongs to it.                *)
ControllersReadInStep ==
  \A c \in Client : ~adrift[c] =>
    /\ rx[c] # "garbled"
    /\ (rx[c] = "command" /\ down[c] # <<>>) => Head(down[c]).cmd \in L!Command
    /\ (rx[c] = "body" /\ down[c] # <<>>) => Head(down[c]).cmd = "BODY"

(* Until a controller has once been started, the first thing it finds in   *)
(* the stream is the answer to its CMD_START, never a message, even when   *)
(* the answer comes after start() has given up, as long as it gave up with *)
(* no byte of it read.                                                     *)
AnswerComesFirst ==
  \A c \in Client :
    (~answered[c] /\ ~adrift[c] /\ down[c] # <<>>) => Head(down[c]).cmd = "START"

DeletedIsUnused == S!DeletedIsUnused

(* Nobody reads what the server writes to this controller: the server is   *)
(* stuck once the stream is full.                                          *)
Stalled(c) ==
  /\ connected[c] = "open"
  /\ ~L!Room(down[c])
  /\ rx[c] \in {"none", "ended"}

Stuck == ~serving \/ \E c \in Client : Stalled(c)

(* The mutex of the server, held while writing to all clients and while    *)
(* joining the threads of those that have gone, is always given back,      *)
(* unless a controller does not read.                                      *)
MutexIsReleased == (m_mutex # NoThread) ~> (m_mutex = NoThread \/ Stuck)

(* Every client that has gone is deleted. *)
GoneIsDeleted ==
  \A c \in Client : (connected[c] = "closed") ~> (c \in deleted \/ Stuck)

(* A read that timed out in the middle of what it was reading has left one *)
(* end of the connection out of step.                                      *)
OutOfStep(c) == late[c] \/ adrift[c]

(* stop() of a controller used by one thread comes back, unless its        *)
(* command could not be written, its stream is out of step or the server   *)
(* is stuck with another one.                                              *)
StopReturns ==
  \A c \in Client \ SendThread :
    (app[c] = "stopping") ~>
      \/ app[c] # "stopping" \/ cut[c] \/ OutOfStep(c)
      \/ \E d \in Client \ {c} : Stalled(d)

(* "Send message only if the client's controller is started": nothing is   *)
(* written to a controller whose stop() has returned.                      *)
StoppedGetsNothing ==
  [][\A c \in Client :
       app[c] = "stopped" /\ app'[c] = "stopped" => Len(down'[c]) <= Len(down[c])]_vars

=============================================================================
