----------------------------- MODULE CanServer -----------------------------
(***************************************************************************)
(* CanServer and CanClient (apps/can_server).  Every client has a thread,  *)
(* commThread(), that reads its commands; the message of one client is     *)
(* written to all others by the thread of the first, under the mutex of    *)
(* the server.  A listening thread adds clients, a cleanup thread deletes  *)
(* those whose thread has reported the end of the connection.              *)
(*                                                                         *)
(* The mutex of a client keeps an answer out of the middle of a message;   *)
(* it is not a variable, Busy says when it is held.  start() creates the   *)
(* thread and assigns m_thread in one step.                                *)
(***************************************************************************)
EXTENDS Naturals, SequencesExt

CONSTANTS
  Client,
  Capacity, BodySize, Slow, Torn,
  Cleanup,    \* the cleanup thread
  NoThread    \* owner of a free mutex

VARIABLES
  up, down, connected, serving,
  m_clients,
  m_disconnected_clients,
  m_mutex,               \* the thread that holds it, or NoThread
  newcomer,              \* the client the listening thread has still to start
  comm,                  \* where the thread of a client is
  m_controller_started,
  msg,                   \* per client: the can_msg its thread has read
  need,                  \* bytes it still wants of one that is out of step
  late,                  \* history: a read of the client's was cut by its timeout
  todo,                  \* the clients a dispatch has still to serve
  half,                  \* the dispatch has written CMD_MSG, and no more
  deleted,               \* the clients deleted
  bus                    \* history: the messages dispatched, in order

link == <<up, down, connected, serving>>
lists == <<m_clients, m_disconnected_clients, newcomer, deleted>>
reading == <<msg, need, late>>
dispatching == <<todo, half, bus>>
local == <<lists, m_mutex, comm, m_controller_started, reading, dispatching>>

L == INSTANCE TcpLink

Comm == {"none", "command", "start", "stop", "body", "garbled", "dispatch",
         "send", "lost", "leaving", "ended"}

Members(s) == {s[i] : i \in DOMAIN s}

(* list::remove() of a client, which is listed once. *)
Without(s, c) ==
  IF c \in Members(s) THEN RemoveAt(s, CHOOSE i \in DOMAIN s : s[i] = c) ELSE s

Init ==
  /\ m_clients = <<>>
  /\ m_disconnected_clients = <<>>
  /\ m_mutex = NoThread
  /\ newcomer = NoThread
  /\ comm = [c \in Client |-> "none"]
  /\ m_controller_started = [c \in Client |-> FALSE]
  /\ msg = [c \in Client |-> L!Garbled]
  /\ need = [c \in Client |-> 0]
  /\ late = [c \in Client |-> FALSE]
  /\ todo = <<>>
  /\ half = FALSE
  /\ deleted = {}
  /\ bus = <<>>

Goto(c, s) == comm' = [comm EXCEPT ![c] = s]

-----------------------------------------------------------------------------
(* onNewClient(), in the listening thread.                                 *)
Accept(c) ==
  /\ serving
  /\ connected[c] # "never"
  /\ comm[c] = "none"
  /\ newcomer = NoThread
  /\ m_mutex = NoThread
  /\ m_clients' = Append(m_clients, c)
  /\ newcomer' = c
  /\ UNCHANGED <<link, m_disconnected_clients, deleted, m_mutex, comm,
                 m_controller_started, reading, dispatching>>

StartClient(c) ==
  /\ serving
  /\ newcomer = c
  /\ newcomer' = NoThread
  /\ Goto(c, "command")
  /\ UNCHANGED <<link, m_clients, m_disconnected_clients, deleted, m_mutex,
                 m_controller_started, reading, dispatching>>

-----------------------------------------------------------------------------
(* commThread()                                                            *)
(* Where a command leads: one that does not suit is ignored.               *)
Obey(c, word) ==
  Goto(c, CASE word = "START" /\ ~m_controller_started[c] -> "start"
            [] word = "STOP" /\ m_controller_started[c] -> "stop"
            [] word = "MSG" /\ m_controller_started[c] -> "body"
            [] OTHER -> "command")

(* Mutant: the controller is started before the answer is written. *)
ReadCommandStarts(c) ==
  /\ serving
  /\ comm[c] = "command"
  /\ L!HasWord(up[c])
  /\ \E word \in L!WordsAt(up[c]) :
       /\ Obey(c, word)
       /\ m_controller_started' = [m_controller_started EXCEPT
                                     ![c] = @ \/ word = "START"]
  /\ L!ServerReads(c, L!AfterWord(up[c]))
  /\ UNCHANGED <<down, connected, serving, lists, m_mutex, reading, dispatching>>

ReadCommand(c) ==
  /\ serving
  /\ comm[c] = "command"
  /\ L!HasWord(up[c])
  /\ \E word \in L!WordsAt(up[c]) : Obey(c, word)
  /\ L!ServerReads(c, L!AfterWord(up[c]))
  /\ UNCHANGED <<down, connected, serving, lists, m_mutex,
                 m_controller_started, reading, dispatching>>

(* The read of a command times out after its first byte. *)
CutCommand(c) ==
  /\ serving
  /\ comm[c] = "command"
  /\ L!WordIsCut(c, up[c])
  /\ L!ServerReads(c, L!Take(up[c], 1))
  /\ late' = [late EXCEPT ![c] = TRUE]
  /\ UNCHANGED <<down, connected, serving, lists, m_mutex, comm,
                 m_controller_started, msg, need, dispatching>>

(* A message is being written to c: m_mutex of c is held. *)
Busy(c) == half /\ Head(todo) = c

AnswerStart(c) ==
  /\ serving
  /\ comm[c] = "start"
  /\ ~Busy(c)
  /\ L!ServerWrites(c, L!Cmd("START"))
  /\ m_controller_started' = [m_controller_started EXCEPT ![c] = TRUE]
  /\ Goto(c, "command")
  /\ UNCHANGED <<up, connected, lists, m_mutex, reading, dispatching>>

(* Mutants: the answer to a stop is written without the mutex of the       *)
(* client, is not written.                                                 *)
AnswerStopUnlocked(c) ==
  /\ serving
  /\ comm[c] = "stop"
  /\ L!ServerWrites(c, L!Cmd("STOP"))
  /\ Goto(c, "command")
  /\ UNCHANGED <<up, connected, lists, m_mutex, m_controller_started, reading,
                 dispatching>>

AnswerStopSilently(c) ==
  /\ serving
  /\ comm[c] = "stop"
  /\ ~Busy(c)
  /\ m_controller_started' = [m_controller_started EXCEPT ![c] = FALSE]
  /\ Goto(c, "command")
  /\ UNCHANGED <<link, lists, m_mutex, reading, dispatching>>

(* The client is told that it is stopped, and stays started. *)
AnswerStop(c) ==
  /\ serving
  /\ comm[c] = "stop"
  /\ ~Busy(c)
  /\ L!ServerWrites(c, L!Cmd("STOP"))
  /\ Goto(c, "command")
  /\ UNCHANGED <<up, connected, lists, m_mutex, m_controller_started, reading,
                 dispatching>>

ReadBody(c) ==
  /\ serving
  /\ comm[c] = "body"
  /\ L!IsMessage(up[c])
  /\ L!ServerReads(c, Tail(up[c]))
  /\ msg' = [msg EXCEPT ![c] = Head(up[c]).body]
  /\ Goto(c, "dispatch")
  /\ UNCHANGED <<down, connected, serving, lists, m_mutex,
                 m_controller_started, need, late, dispatching>>

(* What stands in the place of a message is read as one, whatever it is.   *)
(* The byte taken for its size is not checked against the 8 of data[]: the *)
(* read then writes over what is behind, and the process is given up here. *)
ReadMisplaced(c) ==
  /\ serving
  /\ comm[c] = "body"
  /\ up[c] # <<>> /\ ~L!IsMessage(up[c])
  /\ \/ /\ need' \in {[need EXCEPT ![c] = n] : n \in BodySize}
        /\ Goto(c, "garbled")
        /\ UNCHANGED serving
     \/ /\ serving' = FALSE
        /\ UNCHANGED <<need, comm>>
  /\ UNCHANGED <<up, down, connected, lists, m_mutex, m_controller_started,
                 msg, late, dispatching>>

ReadGarbled(c) ==
  /\ serving
  /\ comm[c] = "garbled"
  /\ \E k \in L!Pieces(up[c], need[c]) :
       /\ L!ServerReads(c, L!Take(up[c], k))
       /\ need' = [need EXCEPT ![c] = @ - k]
       /\ IF k = need[c]
            THEN msg' = [msg EXCEPT ![c] = L!Garbled] /\ Goto(c, "dispatch")
            ELSE UNCHANGED <<msg, comm>>
  /\ UNCHANGED <<down, connected, serving, lists, m_mutex,
                 m_controller_started, late, dispatching>>

(* A read that times out gives up the message it was in the middle of. *)
ReadTimeout(c) ==
  /\ serving
  /\ c \in Slow
  /\ \/ /\ comm[c] = "body"
        /\ \E s \in L!MessageCuts(up[c]) : L!ServerReads(c, s)
     \/ /\ comm[c] = "garbled"
        /\ UNCHANGED up
  /\ need' = [need EXCEPT ![c] = 0]
  /\ late' = [late EXCEPT ![c] = TRUE]
  /\ Goto(c, "command")
  /\ UNCHANGED <<down, connected, serving, lists, m_mutex,
                 m_controller_started, msg, dispatching>>

(* Mutant: the thread lists its client as disconnected before it asks for  *)
(* the mutex.                                                              *)
DisconnectedListed(c) ==
  /\ serving
  /\ comm[c] \in {"command", "body", "garbled"}
  /\ L!ServerFindsClosed(c)
  /\ m_controller_started' = [m_controller_started EXCEPT ![c] = FALSE]
  /\ m_disconnected_clients' = Append(m_disconnected_clients, c)
  /\ Goto(c, "lost")
  /\ UNCHANGED <<link, m_clients, newcomer, deleted, m_mutex, reading, dispatching>>

Disconnected(c) ==
  /\ serving
  /\ comm[c] \in {"command", "body", "garbled"}
  /\ L!ServerFindsClosed(c)
  /\ m_controller_started' = [m_controller_started EXCEPT ![c] = FALSE]
  /\ Goto(c, "lost")
  /\ UNCHANGED <<link, lists, m_mutex, reading, dispatching>>

-----------------------------------------------------------------------------
(* onCanMsgReceived(), in the thread of the client that sent the message.  *)
DispatchBegin(c) ==
  /\ serving
  /\ comm[c] = "dispatch"
  /\ m_mutex = NoThread
  /\ m_mutex' = c
  /\ todo' = m_clients
  /\ bus' = Append(bus, [from |-> c, msg |-> msg[c]])
  /\ Goto(c, "send")
  /\ UNCHANGED <<link, lists, m_controller_started, reading, half>>

Served(d) ==
  /\ todo' = Tail(todo)
  /\ half' = FALSE

DispatchSkip(c) ==
  /\ serving
  /\ comm[c] = "send"
  /\ todo # <<>> /\ ~half
  /\ LET d == Head(todo) IN
       /\ d = c \/ ~m_controller_started[d]
       /\ Served(d)
  /\ UNCHANGED <<link, lists, m_mutex, comm, m_controller_started, reading, bus>>

(* Mutant: the message is written to its sender, too. *)
DispatchCommandToAll(c) ==
  /\ serving
  /\ comm[c] = "send"
  /\ todo # <<>> /\ ~half
  /\ LET d == Head(todo) IN
       /\ m_controller_started[d]
       /\ L!ServerWrites(d, L!Cmd("MSG"))
       /\ IF connected[d] = "open" THEN half' = TRUE /\ UNCHANGED todo
                                   ELSE Served(d)
  /\ UNCHANGED <<up, connected, lists, m_mutex, comm, m_controller_started,
                 reading, bus>>

(* sendMsg(): a message to a client that has gone is given up after the    *)
(* first write that fails.                                                 *)
DispatchCommand(c) ==
  /\ serving
  /\ comm[c] = "send"
  /\ todo # <<>> /\ ~half
  /\ LET d == Head(todo) IN
       /\ d # c /\ m_controller_started[d]
       /\ L!ServerWrites(d, L!Cmd("MSG"))
       /\ IF connected[d] = "open" THEN half' = TRUE /\ UNCHANGED todo
                                   ELSE Served(d)
  /\ UNCHANGED <<up, connected, lists, m_mutex, comm, m_controller_started,
                 reading, bus>>

(* Mutant: the mutex of the client is not released. *)
DispatchBodyHeld(c) ==
  /\ serving
  /\ comm[c] = "send"
  /\ half
  /\ \E n \in BodySize : L!ServerWrites(Head(todo), L!Body(Len(bus), n))
  /\ todo' = Tail(todo)
  /\ UNCHANGED <<up, connected, lists, m_mutex, comm, m_controller_started,
                 reading, half, bus>>

DispatchBody(c) ==
  /\ serving
  /\ comm[c] = "send"
  /\ half
  /\ \E n \in BodySize : L!ServerWrites(Head(todo), L!Body(Len(bus), n))
  /\ Served(Head(todo))
  /\ UNCHANGED <<up, connected, lists, m_mutex, comm, m_controller_started,
                 reading, bus>>

DispatchEnd(c) ==
  /\ serving
  /\ comm[c] = "send"
  /\ todo = <<>>
  /\ m_mutex' = NoThread
  /\ Goto(c, "command")
  /\ UNCHANGED <<link, lists, m_controller_started, reading, dispatching>>

-----------------------------------------------------------------------------
(* Mutant: the client is removed from one list and not added to the other. *)
LoseClientUnlisted(c) ==
  /\ serving
  /\ comm[c] = "lost"
  /\ m_mutex = NoThread
  /\ m_clients' = Without(m_clients, c)
  /\ Goto(c, "leaving")
  /\ UNCHANGED <<link, m_disconnected_clients, newcomer, deleted, m_mutex,
                 m_controller_started, reading, dispatching>>

(* onLostClient(), the last thing the thread of a client does.             *)
LoseClient(c) ==
  /\ serving
  /\ comm[c] = "lost"
  /\ m_mutex = NoThread
  /\ m_clients' = Without(m_clients, c)
  /\ m_disconnected_clients' = Append(m_disconnected_clients, c)
  /\ Goto(c, "leaving")
  /\ UNCHANGED <<link, newcomer, deleted, m_mutex, m_controller_started, reading,
                 dispatching>>

ThreadEnd(c) ==
  /\ serving
  /\ comm[c] = "leaving"
  /\ Goto(c, "ended")
  /\ UNCHANGED <<link, lists, m_mutex, m_controller_started, reading, dispatching>>

(* cleanupThread(): the destructor of a client joins its thread.           *)
CleanupBegin ==
  /\ serving
  /\ m_mutex = NoThread
  /\ m_disconnected_clients # <<>>
  /\ m_mutex' = Cleanup
  /\ UNCHANGED <<link, lists, comm, m_controller_started, reading, dispatching>>

(* Mutant: the destructor does not wait for the thread. *)
CleanupDeleteUnjoined ==
  /\ serving
  /\ m_mutex = Cleanup
  /\ m_disconnected_clients # <<>>
  /\ deleted' = deleted \cup {Head(m_disconnected_clients)}
  /\ m_disconnected_clients' = Tail(m_disconnected_clients)
  /\ UNCHANGED <<link, m_clients, newcomer, m_mutex, comm,
                 m_controller_started, reading, dispatching>>

CleanupDelete ==
  /\ serving
  /\ m_mutex = Cleanup
  /\ m_disconnected_clients # <<>>
  /\ LET c == Head(m_disconnected_clients) IN
       /\ comm[c] = "ended"
       /\ deleted' = deleted \cup {c}
  /\ m_disconnected_clients' = Tail(m_disconnected_clients)
  /\ UNCHANGED <<link, m_clients, newcomer, m_mutex, comm,
                 m_controller_started, reading, dispatching>>

CleanupEnd ==
  /\ serving
  /\ m_mutex = Cleanup
  /\ m_disconnected_clients = <<>>
  /\ m_mutex' = NoThread
  /\ UNCHANGED <<link, lists, comm, m_controller_started, reading, dispatching>>

-----------------------------------------------------------------------------
CommStep(c) ==
  \/ ReadCommand(c) \/ CutCommand(c) \/ AnswerStart(c) \/ AnswerStop(c)
  \/ ReadBody(c) \/ ReadMisplaced(c) \/ ReadGarbled(c) \/ ReadTimeout(c)
  \/ Disconnected(c)
  \/ DispatchBegin(c) \/ DispatchSkip(c) \/ DispatchCommand(c)
  \/ DispatchBody(c) \/ DispatchEnd(c)
  \/ LoseClient(c) \/ ThreadEnd(c)

ListenStep == \E c \in Client : Accept(c) \/ StartClient(c)
CleanupStep == CleanupBegin \/ CleanupDelete \/ CleanupEnd

TypeOK ==
  /\ m_clients \in Seq(Client)
  /\ m_disconnected_clients \in Seq(Client)
  /\ m_mutex \in Client \cup {NoThread, Cleanup}
  /\ newcomer \in Client \cup {NoThread}
  /\ comm \in [Client -> Comm]
  /\ m_controller_started \in [Client -> BOOLEAN]
  /\ msg \in [Client -> Nat]
  /\ need \in [Client -> Nat]
  /\ late \in [Client -> BOOLEAN]
  /\ todo \in Seq(Client)
  /\ half \in BOOLEAN
  /\ deleted \in SUBSET Client
  /\ bus \in Seq([from : Client, msg : Nat])
  /\ half => todo # <<>>

(* A client is deleted when its thread has ended and nobody holds it: it   *)
(* is neither listed nor among those a dispatch has still to serve         *)
(* (CanServer::cleanupThread against onLostClient and onCanMsgReceived).   *)
DeletedIsUnused ==
  \A c \in deleted :
    /\ comm[c] = "ended"
    /\ c \notin Members(m_clients) \cup Members(m_disconnected_clients)
    /\ c \notin Members(todo)

=============================================================================
