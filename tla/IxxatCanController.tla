------------------------- MODULE IxxatCanController -------------------------
(***************************************************************************)
(* IxxatCanController (dynlibs/adapters/ixxat_adapter, Windows): a         *)
(* controller over the VCI driver.                                         *)
(*                                                                         *)
(* The driver is external: a channel is a queue of messages, in which      *)
(* starting and stopping the controller put an information of their own,   *)
(* and any call may fail (the device is unplugged).  rxThread() gives the  *)
(* messages that come after the start to the listener and ends with the    *)
(* stop, or with an event of its own on an error.                          *)
(***************************************************************************)
EXTENDS Sequences

CONSTANTS Side

VARIABLES
  m_hcontroller,   \* open
  opmode,          \* what the controller is to give: "std", "ext", "error"
  m_hthread,       \* "null", "set"
  thread,          \* "none", "running", "draining" (a stop has been received),
                   \* "failed" (before its last event), "ended"
  start_received,
  channel          \* messages the driver holds for rxThread()

Event(e) == [type |-> "event", event |-> e]
Rx(msg) == [type |-> "rx", msg |-> msg]
Info(i) == [type |-> "info", info |-> i]
Error(e) == [type |-> "error", error |-> e]

Init ==
  /\ m_hcontroller = [s \in Side |-> FALSE]
  /\ opmode = [s \in Side |-> {}]
  /\ m_hthread = [s \in Side |-> "null"]
  /\ thread = [s \in Side |-> "none"]
  /\ start_received = [s \in Side |-> FALSE]
  /\ channel = [s \in Side |-> <<>>]

-----------------------------------------------------------------------------
(* The bus, as the driver hands it to the channel. *)
Frame(m) ==
  CASE m.type = "error" -> "error"
    [] m.type = "rx" /\ m.msg.extended -> "ext"
    [] m.type = "rx" /\ ~m.msg.extended -> "std"

Bus(s, m) ==
  /\ m_hcontroller[s]
  /\ Frame(m) \in opmode[s]
  /\ channel' = [channel EXCEPT ![s] = Append(@, m)]
  /\ UNCHANGED <<m_hcontroller, opmode, m_hthread, thread, start_received>>

(* open() closes the handles it got when a later call fails (but for the   *)
(* device, that stays open), so that the controller is open or it is not.  *)
Open(s) ==
  /\ m_hcontroller' = [m_hcontroller EXCEPT ![s] = TRUE]
  /\ UNCHANGED <<opmode, m_hthread, thread, start_received, channel>>

(* close() neither stops the controller nor waits for the thread. *)
Close(s) ==
  /\ m_hcontroller' = [m_hcontroller EXCEPT ![s] = FALSE]
  /\ channel' = [channel EXCEPT ![s] = <<>>]
  /\ UNCHANGED <<opmode, m_hthread, thread, start_received>>

(* configure() may be refused by the driver: an unknown bit rate, for one, *)
(* is asked for as the registers 0 and 0.                                  *)
Configure(s, mode) ==
  /\ m_hcontroller[s]
  /\ opmode' = [opmode EXCEPT ![s] = {"error"} \union mode]
  /\ UNCHANGED <<m_hcontroller, m_hthread, thread, start_received, channel>>

MayStart(s) == m_hcontroller[s] /\ m_hthread[s] = "null"

(* start(): the driver starts, then the thread is created. *)
Start(s) ==
  /\ MayStart(s)
  /\ channel' = [channel EXCEPT ![s] = Append(@, Info("START"))]
  /\ thread' = [thread EXCEPT ![s] = "running"]
  /\ start_received' = [start_received EXCEPT ![s] = FALSE]
  /\ UNCHANGED <<m_hcontroller, opmode, m_hthread>>

(* CreateThread() returns the handle when the thread already runs. *)
StartHandle(s) ==
  /\ m_hthread' = [m_hthread EXCEPT ![s] = "set"]
  /\ UNCHANGED <<m_hcontroller, opmode, thread, start_received, channel>>

(* canControlStart() fails, or CreateThread() does and the controller is   *)
(* stopped again.                                                          *)
StartFails(s) ==
  /\ channel' = [channel EXCEPT ![s] = @ \o <<Info("START"), Info("STOP")>>]
                \/ UNCHANGED channel
  /\ UNCHANGED <<m_hcontroller, opmode, m_hthread, thread, start_received>>

StopRequest(s) ==
  /\ m_hcontroller[s]
  /\ channel' = [channel EXCEPT ![s] = Append(@, Info("STOP"))]
  /\ UNCHANGED <<m_hcontroller, opmode, m_hthread, thread, start_received>>

(* WaitForSingleObject() on the thread's handle, if there is one. *)
StopWaited(s) == m_hthread[s] = "null" \/ thread[s] = "ended"

(* send(): the driver takes the message unless its queue is full. *)
MaySend(s) == m_hcontroller[s] /\ m_hthread[s] = "set"

-----------------------------------------------------------------------------
(* What the thread gives to the listener for a message of the channel. *)
Notified(s, m) ==
  CASE m.type = "rx" /\ start_received[s] -> <<m>>
    [] m.type = "error" ->
         <<Event(IF m.error = "ACK" THEN "NO_ACK" ELSE "ERROR")>>
    [] OTHER -> <<>>

(* A CAN_INFO_STOP that comes before the start is of an earlier session.   *)
(* After it the thread goes on as long as there are messages.              *)
RxPeek(s) ==
  /\ thread[s] \in {"running", "draining"}
  /\ channel[s] # <<>>
  /\ channel' = [channel EXCEPT ![s] = Tail(@)]
  /\ LET m == Head(channel[s])
     IN /\ thread' = IF m = Info("STOP") /\ start_received[s]
                     THEN [thread EXCEPT ![s] = "draining"]
                     ELSE thread
        /\ start_received' =
             [start_received EXCEPT ![s] = @ \/ m = Info("START")]
  /\ UNCHANGED <<m_hcontroller, opmode, m_hthread>>

RxEnd(s) ==
  /\ thread[s] = "draining"
  /\ channel[s] = <<>>
  /\ thread' = [thread EXCEPT ![s] = "ended"]
  /\ m_hthread' = [m_hthread EXCEPT ![s] = "null"]
  /\ UNCHANGED <<m_hcontroller, opmode, start_received, channel>>

(* canChannelWaitRxEvent() or, after 500 ms, canControlGetStatus() fails:  *)
(* always, on handles that close() has closed.                             *)
RxFails(s) ==
  /\ thread[s] = "running"
  /\ thread' = [thread EXCEPT ![s] = "failed"]
  /\ UNCHANGED <<m_hcontroller, opmode, m_hthread, start_received, channel>>

(* The last event is given to the listener and the thread ends. *)
RxLastEvent(s) ==
  /\ thread[s] = "failed"
  /\ thread' = [thread EXCEPT ![s] = "ended"]
  /\ m_hthread' = [m_hthread EXCEPT ![s] = "null"]
  /\ UNCHANGED <<m_hcontroller, opmode, start_received, channel>>

=============================================================================
