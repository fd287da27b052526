-------------------------- MODULE UdpCanController --------------------------
(***************************************************************************)
(* UdpCanController (dynlibs/adapters/udp_adapter) over UdpCanSerializer   *)
(* and MulticastUdpSocket: a CAN bus made of a multicast group.            *)
(*                                                                         *)
(* A datagram carries the identifier of its sender, and a controller       *)
(* drops those that carry its own, since multicast brings back to a host   *)
(* what it sends.  The identifier has two words: hi, and lo of LoBits      *)
(* bits, for the two 32-bit halves of the code's uint64_t.                 *)
(*                                                                         *)
(* The network is external: it loses, duplicates and reorders datagrams,   *)
(* and others than cantools may send to the group.                         *)
(***************************************************************************)
EXTENDS Integers, Sequences

CONSTANTS
  Side,
  Words,        \* bound: number of values of a word, an even number, 2^32 in
                \* the code
  SocketSize    \* bound: datagrams the receive buffer of a socket holds

VARIABLES
  m_uid,             \* <<hi, lo>>
  m_opened,
  m_started,
  m_stop_rx_thread,
  m_rx_thread,       \* "none", "reading", "read" (a datum in hand),
                     \* "notify" (about to call the listener), "ended"
  hand,              \* the datum rxThread() has read
  socket             \* datagrams in the receive buffer

Uid == (0..Words - 1) \X (0..Words - 1)

Event(e) == [type |-> "event", event |-> e]
Rx(msg) == [type |-> "rx", msg |-> msg]

Init ==
  /\ m_uid \in [Side -> Uid]
  /\ m_opened = [s \in Side |-> FALSE]
  /\ m_started = [s \in Side |-> FALSE]
  /\ m_stop_rx_thread = [s \in Side |-> FALSE]
  /\ m_rx_thread = [s \in Side |-> "none"]
  /\ hand = [s \in Side |-> <<>>]
  /\ socket = [s \in Side |-> <<>>]

-----------------------------------------------------------------------------
(* write(uint64_t) and read(uint64_t) of the serializer.  read() shifts    *)
(* the fourth byte as an int: when its top bit is set, the sum of the low  *)
(* bytes is negative and takes one from the high word.                     *)
WriteUid(uid) == uid

ReadUid(uid) ==
  IF uid[2] >= Words \div 2 THEN <<(uid[1] + Words - 1) % Words, uid[2]>> ELSE uid

(* What another controller with this identifier reads as its own. *)
Readable(uid) == ReadUid(WriteUid(uid)) = uid

Datagram(uid, msg) == [uid |-> WriteUid(uid), valid |-> TRUE, msg |-> msg]

(* read(): a datagram that is too short, of another type or of a message   *)
(* longer than eight bytes is an error frame, unless it is an own one.     *)
(* Mutant: the sender is not looked at. *)
OwnUnknown(s, d) == FALSE

Own(s, d) == ReadUid(d.uid) = m_uid[s]

ReadData(d) == IF d.valid THEN Rx(d.msg) ELSE Event("ERROR")

-----------------------------------------------------------------------------
(* What reaches a socket that is open, and finds its buffer full or not.   *)
Arrives(s, d) ==
  socket' = IF m_opened[s] /\ Len(socket[s]) < SocketSize
            THEN [socket EXCEPT ![s] = Append(@, d)]
            ELSE socket

(* A datagram of the group: delayed, again, or after a later one. *)
Network(s, d) ==
  /\ m_opened[s]
  /\ Len(socket[s]) < SocketSize
  /\ Arrives(s, d)
  /\ UNCHANGED <<m_uid, m_opened, m_started, m_stop_rx_thread, m_rx_thread, hand>>

Open(s) ==
  /\ ~m_opened[s]
  /\ m_opened' = [m_opened EXCEPT ![s] = TRUE]
  /\ UNCHANGED <<m_uid, m_started, m_stop_rx_thread, m_rx_thread, hand, socket>>

(* close() of a controller that is not started; a started one is stopped   *)
(* first, with StopRequest and StopJoin.                                   *)
Close(s) ==
  /\ m_opened[s] /\ ~m_started[s]
  /\ m_opened' = [m_opened EXCEPT ![s] = FALSE]
  /\ socket' = [socket EXCEPT ![s] = <<>>]
  /\ UNCHANGED <<m_uid, m_started, m_stop_rx_thread, m_rx_thread, hand>>

(* start() reads until read() fails: on 250 ms without a datagram, and on  *)
(* an own datagram as well.                                                *)
Flush(s) ==
  /\ m_opened[s] /\ ~m_started[s]
  /\ socket[s] # <<>>
  /\ ~Own(s, Head(socket[s]))
  /\ socket' = [socket EXCEPT ![s] = Tail(@)]
  /\ UNCHANGED <<m_uid, m_opened, m_started, m_stop_rx_thread, m_rx_thread, hand>>

Start(s) ==
  /\ m_opened[s] /\ ~m_started[s]
  /\ \/ socket[s] = <<>> /\ UNCHANGED socket
     \/ /\ socket[s] # <<>>
        /\ Own(s, Head(socket[s]))
        /\ socket' = [socket EXCEPT ![s] = Tail(@)]
  /\ m_stop_rx_thread' = [m_stop_rx_thread EXCEPT ![s] = FALSE]
  /\ m_rx_thread' = [m_rx_thread EXCEPT ![s] = "reading"]
  /\ m_started' = [m_started EXCEPT ![s] = TRUE]
  /\ UNCHANGED <<m_uid, m_opened, hand>>

StopRequest(s) ==
  /\ m_started[s]
  /\ m_stop_rx_thread' = [m_stop_rx_thread EXCEPT ![s] = TRUE]
  /\ UNCHANGED <<m_uid, m_opened, m_started, m_rx_thread, hand, socket>>

(* Mutant: the thread is not waited for. *)
StopJoinAtOnce(s) ==
  /\ m_stop_rx_thread[s]
  /\ m_started' = [m_started EXCEPT ![s] = FALSE]
  /\ UNCHANGED <<m_uid, m_opened, m_stop_rx_thread, m_rx_thread, hand, socket>>

StopJoin(s) ==
  /\ m_stop_rx_thread[s]
  /\ m_rx_thread[s] = "ended"
  /\ m_started' = [m_started EXCEPT ![s] = FALSE]
  /\ m_rx_thread' = [m_rx_thread EXCEPT ![s] = "none"]
  /\ UNCHANGED <<m_uid, m_opened, m_stop_rx_thread, hand, socket>>

(* send() looks at m_started, without a lock, and writes: multicast brings *)
(* the datagram back to the sender's socket.                               *)
MaySend(s) == m_started[s]

Write(s, msg) ==
  /\ Arrives(s, Datagram(m_uid[s], msg))
  /\ UNCHANGED <<m_uid, m_opened, m_started, m_stop_rx_thread, m_rx_thread, hand>>

-----------------------------------------------------------------------------
LoopTest(s) == IF m_stop_rx_thread[s] THEN "ended" ELSE "reading"

(* rxThread(): read() takes a datagram, or gives up after 250 ms. *)
RxRead(s) ==
  /\ m_rx_thread[s] = "reading"
  /\ socket[s] # <<>>
  /\ socket' = [socket EXCEPT ![s] = Tail(@)]
  /\ IF Own(s, Head(socket[s]))
     THEN m_rx_thread' = [m_rx_thread EXCEPT ![s] = LoopTest(s)] /\ UNCHANGED hand
     ELSE /\ m_rx_thread' = [m_rx_thread EXCEPT ![s] = "read"]
          /\ hand' = [hand EXCEPT ![s] = <<ReadData(Head(socket[s]))>>]
  /\ UNCHANGED <<m_uid, m_opened, m_started, m_stop_rx_thread>>

(* Mutant: read() has no timeout. *)
RxTimeoutNever(s) == FALSE

RxTimeout(s) ==
  /\ m_rx_thread[s] = "reading"
  /\ socket[s] = <<>>
  /\ m_stop_rx_thread[s]
  /\ m_rx_thread' = [m_rx_thread EXCEPT ![s] = "ended"]
  /\ UNCHANGED <<m_uid, m_opened, m_started, m_stop_rx_thread, hand, socket>>

(* Mutant: the datum is kept. *)
RxCheckKept(s) ==
  /\ m_rx_thread[s] = "read"
  /\ m_rx_thread' = [m_rx_thread EXCEPT ![s] =
                      IF m_stop_rx_thread[s] THEN "ended" ELSE "notify"]
  /\ UNCHANGED <<m_uid, m_opened, m_started, m_stop_rx_thread, hand, socket>>

(* The datum is given to the listener unless stop() has been called since. *)
RxCheck(s) ==
  /\ m_rx_thread[s] = "read"
  /\ IF m_stop_rx_thread[s]
     THEN /\ m_rx_thread' = [m_rx_thread EXCEPT ![s] = "ended"]
          /\ hand' = [hand EXCEPT ![s] = <<>>]
     ELSE /\ m_rx_thread' = [m_rx_thread EXCEPT ![s] = "notify"]
          /\ UNCHANGED hand
  /\ UNCHANGED <<m_uid, m_opened, m_started, m_stop_rx_thread, socket>>

RxNotify(s) ==
  /\ m_rx_thread[s] = "notify"
  /\ m_rx_thread' = [m_rx_thread EXCEPT ![s] = LoopTest(s)]
  /\ hand' = [hand EXCEPT ![s] = <<>>]
  /\ UNCHANGED <<m_uid, m_opened, m_started, m_stop_rx_thread, socket>>

=============================================================================
