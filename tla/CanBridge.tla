----------------------------- MODULE CanBridge -----------------------------
(***************************************************************************)
(* can_bridge (apps/can_bridge): two controllers, and two pipelines that   *)
(* forward what one receives to the other.                                 *)
(*                                                                         *)
(* Pipeline s takes data from controller s, hands it to the filter made of *)
(* the lists of the other adapter, and the forwarder after it sends to the *)
(* other controller in the pipeline's thread.  The main thread builds,     *)
(* starts, stops and deletes.  The pipelines are those of CanPipeline,     *)
(* without suspend(): a mailbox of positions in `given`, and a thread.     *)
(***************************************************************************)
EXTENDS Integers, SequencesExt

CONSTANTS
  Kinds,         \* pairs of adapters: "udp", "loopback" or "ixxat", per side
  Lists,         \* lists of the command line: [white, black]
  Words, SocketSize, IdBits,
  Peer,          \* senders of the multicast groups: [uid, valid]
  Ids,
  MaxArrivals,   \* bound: messages that arrive on both sides
  MaxSent        \* bound: messages sent on a side; the next ones fail

ASSUME CanBridgeAssumption ==
  /\ Kinds \subseteq [1..2 -> {"udp", "loopback", "ixxat"}]
  /\ Lists \subseteq [white : SUBSET Nat, black : SUBSET Nat]
  /\ Peer \subseteq [uid : (0..Words - 1) \X (0..Words - 1), valid : BOOLEAN]
  /\ Words \in Nat /\ Words % 2 = 0
  /\ SocketSize \in Nat \ {0}
  /\ IdBits \in Nat \ {0}

Side == 1..2
Other(s) == 3 - s

VARIABLES
  m_uid, m_opened, m_started, m_stop_rx_thread, m_rx_thread, hand, socket,
  opened, started, mode,
  m_hcontroller, opmode, m_hthread, thread, start_received, channel,
  kind,      \* per side
  lists,     \* per side
  main,      \* <<where main() is, side>>
  box,       \* m_rx_mailbox, per pipeline
  pipe,      \* the pipeline's thread: "none", "loop", "wait", "cancelled",
             \* "dispatch", "send", "write", "echo", "ended"
  cur,       \* position of the datum the thread has in hand, 0 for none
  arrivals,  \* number of messages that have arrived
  given,     \* history: data given to the listener of a controller
  out,       \* history: positions, in what the other gave, of what was sent
  silent     \* history: Len(given) when stop() of the controller succeeded

F == INSTANCE CanMsgFilter
U == INSTANCE UdpCanController
L == INSTANCE LoopbackCanController
X == INSTANCE IxxatCanController

udp == <<m_uid, m_opened, m_started, m_stop_rx_thread, m_rx_thread, hand, socket>>
loopback == <<opened, started, mode>>
ixxat == <<m_hcontroller, opmode, m_hthread, thread, start_received, channel>>
adapters == <<udp, loopback, ixxat>>
pipes == <<box, pipe, cur>>
history == <<arrivals, given, out, silent>>
fixed == <<kind, lists>>
vars == <<adapters, fixed, main, pipes, history>>

Init ==
  /\ U!Init /\ L!Init /\ X!Init
  /\ kind \in Kinds
  /\ lists \in [Side -> Lists]
  /\ main = <<"init", 1>>
  /\ box = [s \in Side |-> <<>>]
  /\ pipe = [s \in Side |-> "none"]
  /\ cur = [s \in Side |-> 0]
  /\ arrivals = 0
  /\ given = [s \in Side |-> <<>>]
  /\ out = [s \in Side |-> <<>>]
  /\ silent = [s \in Side |-> -1]

Msg(s, id) == [id |-> id, extended |-> FALSE, from |-> s]

(* CanController::canDataReceivedCallback(), CanPipeline::canDataReceived() *)
Posts(s, data) ==
  /\ given' = [given EXCEPT ![s] = @ \o data]
  /\ box' = [box EXCEPT ![s] = @ \o [i \in DOMAIN data |-> Len(given[s]) + i]]

Post(s, datum) == Posts(s, <<datum>>)

Goto(at, s) == main' = <<at, s>>
PipeGoto(s, at) == pipe' = [pipe EXCEPT ![s] = at]

Udp(A)      == A /\ UNCHANGED <<loopback, ixxat>>
Loopback(A) == A /\ UNCHANGED <<udp, ixxat>>
Ixxat(A)    == A /\ UNCHANGED <<udp, loopback>>

-----------------------------------------------------------------------------
(* The filter of pipeline s, from the lists of the adapter it sends to:    *)
(* the white list, or else the black list, or else none.  main() adds the  *)
(* ids one by one, as ids of standard messages.                            *)
AddAll(f, ids) == [f EXCEPT ![F!List(FALSE)] = @ \union ids]

Filters(s) ==
  LET list == lists[Other(s)]
  IN CASE list.white # {} -> <<AddAll(F!WhiteList, list.white)>>
       [] list.white = {} /\ list.black # {} -> <<AddAll(F!BlackList, list.black)>>
       [] OTHER -> <<>>

PassesFilter(s, datum) == \A i \in DOMAIN Filters(s) : F!Forwards(Filters(s)[i], datum)

(* Mutant: the echo is forwarded as well. *)
ForwardsEcho(s, datum) == PassesFilter(s, datum) /\ datum.type # "event"

(* CanMsgForwarder::processCanData() *)
Forwards(s, datum) == PassesFilter(s, datum) /\ datum.type = "rx"

-----------------------------------------------------------------------------
CloseAdapter(s) ==
  \/ kind[s] = "udp" /\ Udp(U!Close(s))
  \/ kind[s] = "loopback" /\ Loopback(L!Close(s))
  \/ kind[s] = "ixxat" /\ Ixxat(X!Close(s))

Configured == {"std", "ext"}

(* InitAdapter(): the plugin, the controller, open() or configure() may    *)
(* fail; what was made is then deleted, and so is controller 1.            *)
InitFails(s) == IF s = 2 THEN Goto("delete", 1) ELSE Goto("done", 0)

InitAdapter(s) ==
  /\ main = <<"init", s>>
  /\ \/ /\ \/ kind[s] = "udp" /\ Udp(U!Open(s))
           \/ kind[s] = "loopback" /\ Loopback(L!Open(s))
           \/ kind[s] = "ixxat" /\ Ixxat(X!Open(s))
        /\ Goto("configure", s)
     \/ InitFails(s) /\ UNCHANGED adapters
  /\ UNCHANGED <<fixed, pipes, history>>

Configure(s) ==
  /\ main = <<"configure", s>>
  /\ \/ /\ \/ kind[s] = "udp" /\ UNCHANGED adapters
           \/ kind[s] = "loopback" /\ Loopback(L!Configure(s, Configured))
           \/ kind[s] = "ixxat" /\ Ixxat(X!Configure(s, Configured))
        /\ IF s = 1 THEN Goto("init", 2) ELSE Goto("start", 1)
     \/ /\ kind[s] = "ixxat"
        /\ CloseAdapter(s)
        /\ InitFails(s)
  /\ UNCHANGED <<fixed, pipes, history>>

(* CanPipeline::start(): the mailbox is emptied, then the controller is    *)
(* started, then the thread is created.                                    *)
PipelineStart(s) ==
  /\ main = <<"start", s>>
  /\ box' = [box EXCEPT ![s] = <<>>]
  /\ Goto("start controller", s)
  /\ UNCHANGED <<adapters, fixed, pipe, cur, history>>

StartController(s) ==
  /\ main = <<"start controller", s>>
  /\ \/ /\ kind[s] = "udp"
        /\ Udp(U!Start(s))
        /\ Goto("create thread", s)
     \/ /\ kind[s] = "udp"
        /\ Udp(U!Flush(s))
        /\ UNCHANGED main
     \/ /\ kind[s] = "loopback"
        /\ Loopback(L!Start(s))
        /\ Goto("create thread", s)
     \/ /\ kind[s] = "ixxat"
        /\ Ixxat(X!Start(s))
        /\ Goto("handle", s)
     \/ /\ kind[s] = "ixxat"
        /\ Ixxat(X!StartFails(s))
        /\ Goto("delete", 2)
  /\ UNCHANGED <<fixed, pipes, history>>

StartHandle(s) ==
  /\ main = <<"handle", s>>
  /\ Ixxat(X!StartHandle(s))
  /\ Goto("create thread", s)
  /\ UNCHANGED <<fixed, pipes, history>>

CreateThread(s) ==
  /\ main = <<"create thread", s>>
  /\ PipeGoto(s, "loop")
  /\ IF s = 1 THEN Goto("start", 2) ELSE Goto("enter", 0)
  /\ UNCHANGED <<adapters, fixed, box, cur, history>>

EnterKey ==
  /\ main[1] = "enter"
  /\ Goto("stop", 1)
  /\ UNCHANGED <<adapters, fixed, pipes, history>>

(* CanPipeline::stop(): the controller is stopped, whether that works or   *)
(* not the waiters are cancelled, and the thread is joined.                *)
StopController(s) ==
  /\ main = <<"stop", s>>
  /\ \/ /\ kind[s] = "udp"
        /\ Udp(U!StopRequest(s))
        /\ Goto("stop join", s)
        /\ UNCHANGED silent
     \/ /\ kind[s] = "loopback"
        /\ Loopback(L!Stop(s))
        /\ Goto("clear", s)
        /\ silent' = [silent EXCEPT ![s] = Len(given[s])]
     \/ /\ kind[s] = "ixxat"
        /\ Ixxat(X!StopRequest(s))
        /\ Goto("stop join", s)
        /\ UNCHANGED silent
     \/ /\ kind[s] = "ixxat"
        /\ Goto("clear", s)
        /\ UNCHANGED <<adapters, silent>>
  /\ UNCHANGED <<fixed, pipes, arrivals, given, out>>

StopControllerJoin(s) ==
  /\ main = <<"stop join", s>>
  /\ \/ kind[s] = "udp" /\ Udp(U!StopJoin(s))
     \/ kind[s] = "ixxat" /\ X!StopWaited(s) /\ UNCHANGED adapters
  /\ Goto("clear", s)
  /\ silent' = [silent EXCEPT ![s] = Len(given[s])]
  /\ UNCHANGED <<fixed, pipes, arrivals, given, out>>

(* MailBox::clear(true): only a thread that waits is cancelled. *)
CancelWaiters(s) ==
  /\ main = <<"clear", s>>
  /\ box' = [box EXCEPT ![s] = <<>>]
  /\ pipe' = IF pipe[s] = "wait" THEN [pipe EXCEPT ![s] = "cancelled"] ELSE pipe
  /\ Goto("join", s)
  /\ UNCHANGED <<adapters, fixed, cur, history>>

(* Mutant: the thread is not waited for. *)
JoinThreadUnended(s) ==
  /\ main = <<"join", s>>
  /\ IF s = 1 THEN Goto("stop", 2) ELSE Goto("delete", 2)
  /\ UNCHANGED <<adapters, fixed, pipes, history>>

JoinThread(s) ==
  /\ main = <<"join", s>>
  /\ pipe[s] = "ended"
  /\ PipeGoto(s, "none")
  /\ IF s = 1 THEN Goto("stop", 2) ELSE Goto("delete", 2)
  /\ UNCHANGED <<adapters, fixed, box, cur, history>>

(* The destructor closes the controller.  Controller 1 is left to the end  *)
(* of the process when there is a controller 2.                            *)
DeleteController(s) ==
  /\ main = <<"delete", s>>
  /\ CloseAdapter(s)
  /\ Goto("return", 0)
  /\ UNCHANGED <<fixed, pipes, history>>

Return ==
  /\ main[1] = "return"
  /\ Goto("done", 0)
  /\ UNCHANGED <<adapters, fixed, pipes, history>>

Main ==
  \/ \E s \in Side :
       \/ InitAdapter(s) \/ Configure(s) \/ PipelineStart(s) \/ StartController(s)
       \/ StartHandle(s) \/ CreateThread(s)
       \/ StopController(s) \/ StopControllerJoin(s) \/ CancelWaiters(s)
       \/ JoinThread(s) \/ DeleteController(s)
  \/ Return

-----------------------------------------------------------------------------
(* The reception threads of the controllers. *)
UdpRx(s) ==
  /\ kind[s] = "udp"
  /\ \/ /\ U!RxRead(s) \/ U!RxTimeout(s) \/ U!RxCheck(s)
        /\ UNCHANGED <<box, given>>
     \/ /\ U!RxNotify(s)
        /\ Posts(s, hand[s])
  /\ UNCHANGED <<loopback, ixxat, fixed, main, pipe, cur, arrivals, out, silent>>

IxxatRx(s) ==
  /\ kind[s] = "ixxat"
  /\ \/ /\ X!RxPeek(s)
        /\ Posts(s, X!Notified(s, Head(channel[s])))
     \/ /\ X!RxEnd(s)
        /\ UNCHANGED <<box, given>>
     \/ /\ X!RxLastEvent(s)
        /\ Post(s, X!Event("CONTROLLER_ERROR"))
  /\ UNCHANGED <<udp, loopback, fixed, main, pipe, cur, arrivals, out, silent>>

IxxatFails(s) ==
  /\ kind[s] = "ixxat"
  /\ Ixxat(X!RxFails(s))
  /\ UNCHANGED <<fixed, main, pipes, history>>

(* Other nodes of the buses. *)
Arrive(s) ==
  /\ arrivals < MaxArrivals
  /\ arrivals' = arrivals + 1
  /\ \/ /\ kind[s] = "udp"
        /\ \E p \in Peer, id \in Ids :
             Udp(U!Network(s, [uid |-> p.uid, valid |-> p.valid, msg |-> Msg(s, id)]))
     \/ /\ kind[s] = "ixxat"
        /\ \E m \in {X!Rx(Msg(s, id)) : id \in Ids} \union {X!Error("ACK"), X!Error("STUFF")} :
             Ixxat(X!Bus(s, m))
  /\ UNCHANGED <<fixed, main, pipes, given, out, silent>>

-----------------------------------------------------------------------------
(* CanPipeline::rxThread() of pipeline s. *)
Take(s) ==
  /\ pipe[s] \in {"loop", "wait"}
  /\ box[s] # <<>>
  /\ cur' = [cur EXCEPT ![s] = Head(box[s])]
  /\ box' = [box EXCEPT ![s] = Tail(@)]
  /\ PipeGoto(s, "dispatch")
  /\ UNCHANGED <<adapters, fixed, main, history>>

Wait(s) ==
  /\ pipe[s] = "loop"
  /\ box[s] = <<>>
  /\ PipeGoto(s, "wait")
  /\ UNCHANGED <<adapters, fixed, main, box, cur, history>>

Cancelled(s) ==
  /\ pipe[s] = "cancelled"
  /\ PipeGoto(s, "ended")
  /\ UNCHANGED <<adapters, fixed, main, box, cur, history>>

Dispatch(s) ==
  /\ pipe[s] = "dispatch"
  /\ PipeGoto(s, IF Forwards(s, given[s][cur[s]]) THEN "send" ELSE "loop")
  /\ UNCHANGED <<adapters, fixed, main, box, cur, history>>

InHand(s) == given[s][cur[s]].msg

Sends(s) == out' = [out EXCEPT ![Other(s)] = Append(@, cur[s])]

(* CanController::send() of the other controller; a send that fails is     *)
(* not tried again.                                                        *)
Send(s) ==
  LET t == Other(s)
  IN /\ pipe[s] = "send"
     /\ \/ /\ kind[t] = "udp" /\ U!MaySend(t)
           /\ PipeGoto(s, "write")
           /\ UNCHANGED <<adapters, given, box, out>>
        \/ /\ kind[t] = "loopback" /\ L!Accepts(t, InHand(s))
           /\ Len(out[t]) < MaxSent
           /\ Post(t, L!Rx(InHand(s)))
           /\ Sends(s)
           /\ PipeGoto(s, "echo")
           /\ UNCHANGED adapters
        \/ /\ kind[t] = "ixxat" /\ X!MaySend(t)
           /\ Len(out[t]) < MaxSent
           /\ Sends(s)
           /\ PipeGoto(s, "echo")
           /\ UNCHANGED <<adapters, given, box>>
        \/ /\ kind[t] = "ixxat" /\ X!MaySend(t)
           /\ Post(t, X!Event("TX_OVR"))
           /\ PipeGoto(s, "loop")
           /\ UNCHANGED <<adapters, out>>
        \/ /\ \/ kind[t] = "udp" /\ ~U!MaySend(t)
              \/ kind[t] = "loopback" /\ ~L!Accepts(t, InHand(s))
              \/ kind[t] = "ixxat"
              \/ Len(out[t]) >= MaxSent
           /\ PipeGoto(s, "loop")
           /\ UNCHANGED <<adapters, given, box, out>>
     /\ UNCHANGED <<fixed, main, cur, arrivals, silent>>

UdpWrite(s) ==
  /\ pipe[s] = "write"
  /\ \/ /\ Len(out[Other(s)]) < MaxSent
        /\ Udp(U!Write(Other(s), InHand(s)))
        /\ Sends(s)
        /\ PipeGoto(s, "echo")
     \/ /\ PipeGoto(s, "loop")
        /\ UNCHANGED <<adapters, out>>
  /\ UNCHANGED <<fixed, main, box, cur, arrivals, given, silent>>

(* CanController::send() echoes what was sent to its own listener. *)
Echo(s) ==
  /\ pipe[s] = "echo"
  /\ Post(Other(s), [type |-> "tx", msg |-> InHand(s)])
  /\ PipeGoto(s, "loop")
  /\ UNCHANGED <<adapters, fixed, main, cur, arrivals, out, silent>>

Pipeline(s) ==
  \/ Take(s) \/ Wait(s) \/ Cancelled(s) \/ Dispatch(s)
  \/ Send(s) \/ UdpWrite(s) \/ Echo(s)

-----------------------------------------------------------------------------
Running == main[1] # "done"

Next ==
  \/ Running /\ Main
  \/ Running /\ EnterKey
  \/ \E s \in Side :
       Running /\ (UdpRx(s) \/ IxxatRx(s) \/ IxxatFails(s) \/ Arrive(s) \/ Pipeline(s))

(* The threads run; nobody has to press the key, and no driver has to fail. *)
Fairness ==
  /\ WF_vars(Running /\ Main)
  /\ \A s \in Side :
       /\ WF_vars(Running /\ (UdpRx(s) \/ IxxatRx(s)))
       /\ WF_vars(Running /\ Pipeline(s))

Spec == Init /\ [][Next]_vars /\ Fairness

-----------------------------------------------------------------------------
(* Types, and: a thread has a position in hand while it works on it; the   *)
(* mailboxes hold positions of data given, in order.                       *)
TypeOK ==
  /\ m_rx_thread \in [Side -> {"none", "reading", "read", "notify", "ended"}]
  /\ \A s \in Side : (m_rx_thread[s] \in {"read", "notify"}) <=> (hand[s] # <<>>)
  /\ m_hthread \in [Side -> {"null", "set"}]
  /\ thread \in [Side -> {"none", "running", "draining", "failed", "ended"}]
  /\ pipe \in [Side -> {"none", "loop", "wait", "cancelled", "dispatch", "send",
                        "write", "echo", "ended"}]
  /\ \A s \in Side :
       /\ cur[s] \in 0..Len(given[s])
       /\ \A i \in DOMAIN box[s] :
            box[s][i] = Len(given[s]) - Len(box[s]) + i

Channel == INSTANCE CanBridgeChannel

(* In each direction the bridge is an ordered channel without duplicates   *)
(* of the messages received, never of the echo of what it sent, and only   *)
(* of those the lists select.                                              *)
ImplementsChannel == Channel!Spec

(* A message that comes from one side is never sent back to it, through    *)
(* the multicast loop or the echo of the controllers, unless the other     *)
(* controller is a loopback, or one whose identifier is not read back as   *)
(* it was written: half of all identifiers.                                *)
NeverSentBack ==
  \A s \in Side :
    kind[Other(s)] = "loopback"
    \/ (kind[Other(s)] = "udp" /\ ~U!Readable(m_uid[Other(s)]))
    \/ \A i \in DOMAIN out[s] : given[Other(s)][out[s][i]].msg.from # s

(* When stop() of a controller has returned true, its listener is given    *)
(* nothing any more but what send() in the other pipeline gives it: the    *)
(* echo, or, when the driver takes no more, an event.                      *)
StoppedIsSilent ==
  \A s \in Side :
    silent[s] >= 0 =>
      \A i \in silent[s] + 1..Len(given[s]) :
        given[s][i].type = "tx" \/ given[s][i] = X!Event("TX_OVR")

(* After `delete controller2` no thread is about to call it or to be       *)
(* called back by it, if both pipelines were started and the driver's stop *)
(* did not fail.                                                           *)
DeletedIsUnused ==
  (main[1] = "return" /\ silent[1] >= 0 /\ silent[2] >= 0) =>
    /\ pipe[1] \notin {"send", "write", "echo"}
    /\ m_rx_thread[2] \in {"none", "ended"}
    /\ thread[2] \in {"none", "ended"}

(* CanPipeline::stop() waits for ever for a thread that was not waiting    *)
(* when the mailbox was emptied: see CanPipeline.                          *)
MissedCancel(s) == main = <<"join", s>> /\ pipe[s] \notin {"cancelled", "ended"}

(* Once the key is pressed the program ends, unless a pipeline's thread    *)
(* misses its cancellation.                                                *)
MainEnds ==
  main = <<"stop", 1>> ~> (main[1] = "done" \/ \E s \in Side : MissedCancel(s))

=============================================================================
