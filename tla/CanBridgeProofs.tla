-------------------------- MODULE CanBridgeProofs --------------------------
(***************************************************************************)
(* The safety properties of CanBridge hold of every pair of adapters, of   *)
(* all lists and of any traffic, and the bridge implements                 *)
(* CanBridgeChannel.                                                       *)
(*                                                                         *)
(* Every step changes the data of one side, so that the invariant is said  *)
(* side by side: IInv follows what a controller may give to its listener   *)
(* from the wire (UdpSide, IxxatSide) through the mailbox to what the      *)
(* other controller has sent (FlowSide), and QuietSide follows the end of  *)
(* the threads that could give something after a stop.                     *)
(***************************************************************************)
EXTENDS CanBridge, SequenceFacts

(* The messages of both buses, what a listener is given, and what reaches  *)
(* the socket or the channel of controller s.                              *)
Message == [id : Ids, extended : BOOLEAN, from : Side]

MessageFrom(s) == {m \in Message : m.from = s}

Datum ==
  [type : {"rx", "tx"}, msg : Message]
    \cup [type : {"event"}, event : {"ERROR", "NO_ACK", "CONTROLLER_ERROR", "TX_OVR"}]

(* A controller that gives as received only what came from its own bus. *)
Loyal(s) ==
  /\ kind[s] # "loopback"
  /\ kind[s] = "udp" => U!Readable(m_uid[s])

Heard(s) == {d \in Datum : Loyal(s) /\ d.type = "rx" => d.msg.from = s}

Arriving(s) ==
  {d \in [uid : U!Uid, valid : BOOLEAN, msg : Message] :
     d.uid = m_uid[s] \/ d.msg.from = s}

Coming(s) ==
  [type : {"rx"}, msg : MessageFrom(s)]
    \cup [type : {"info"}, info : {"START", "STOP"}]
    \cup [type : {"error"}, error : {"ACK", "STUFF"}]

(* What the lists let pipeline s forward. *)
Chosen(s, d) ==
  /\ d.type = "rx"
  /\ IF lists[Other(s)].white # {}
     THEN ~d.msg.extended /\ d.msg.id \in lists[Other(s)].white
     ELSE d.msg.extended \/ d.msg.id \notin lists[Other(s)].black

PerSide(f) == f = [s \in Side |-> f[s]]

-----------------------------------------------------------------------------
FixedInv ==
  /\ kind \in [Side -> {"udp", "loopback", "ixxat"}]
  /\ m_uid \in [Side -> U!Uid]

UdpSide(s) ==
  /\ m_rx_thread[s] \in {"none", "reading", "read", "notify", "ended"}
  /\ (m_rx_thread[s] \in {"read", "notify"}) <=> (hand[s] # <<>>)
  /\ hand[s] \in Seq(Heard(s))
  /\ socket[s] \in Seq(Arriving(s))
  /\ ~m_started[s] => m_rx_thread[s] = "none"
  /\ kind[s] # "udp" => ~m_started[s]

IxxatSide(s) ==
  /\ m_hthread[s] \in {"null", "set"}
  /\ thread[s] \in {"none", "running", "draining", "failed", "ended"}
  /\ channel[s] \in Seq(Coming(s))
  /\ kind[s] # "ixxat" => thread[s] = "none"
  /\ (main # <<"handle", s>> /\ thread[s] \in {"running", "draining", "failed"})
       => m_hthread[s] = "set"

(* Pipeline s, from what its controller has given to what the other one    *)
(* has sent.                                                               *)
FlowSide(s) ==
  /\ given[s] \in Seq(Heard(s))
  /\ box[s] \in Seq(Nat)
  /\ \A i \in 1..Len(box[s]) : box[s][i] = Len(given[s]) - Len(box[s]) + i
  /\ cur[s] \in 0..Len(given[s]) - Len(box[s])
  /\ pipe[s] \in {"none", "loop", "wait", "cancelled", "dispatch", "send",
                  "write", "echo", "ended"}
  /\ pipe[s] \in {"dispatch", "send", "write", "echo"} => cur[s] # 0
  /\ pipe[s] \in {"send", "write", "echo"} => Chosen(s, given[s][cur[s]])
  /\ out[Other(s)] \in Seq(Nat)
  /\ \A i \in 1..Len(out[Other(s)]) :
       /\ out[Other(s)][i] \in 1..cur[s]
       /\ given[s][out[Other(s)][i]].type = "rx"
       /\ pipe[s] \in {"dispatch", "send", "write"} => out[Other(s)][i] < cur[s]

Stops == {"stop", "stop join", "clear", "join", "delete", "return", "done"}

QuietSide(s) ==
  /\ silent[s] \in {-1} \cup (0..Len(given[s]))
  /\ silent[s] # -1 =>
       /\ main[1] \in Stops
       /\ m_rx_thread[s] = "none"
       /\ thread[s] \in {"none", "ended"}
       /\ kind[s] = "loopback" => ~started[s]
       /\ \A i \in silent[s] + 1..Len(given[s]) :
            given[s][i].type = "tx" \/ given[s][i] = X!Event("TX_OVR")

(* Pipeline 1 has been joined before controller 2 is stopped. *)
JoinInv ==
  (silent[2] # -1
     \/ main \in {<<"stop", 2>>, <<"stop join", 2>>, <<"clear", 2>>, <<"join", 2>>})
  => pipe[1] = "none"

UdpInv ==
  /\ PerSide(m_started) /\ PerSide(m_rx_thread) /\ PerSide(hand) /\ PerSide(socket)
  /\ \A s \in Side : UdpSide(s)

IxxatInv ==
  /\ PerSide(m_hthread) /\ PerSide(thread) /\ PerSide(channel)
  /\ \A s \in Side : IxxatSide(s)

FlowInv ==
  /\ PerSide(given) /\ PerSide(box) /\ PerSide(cur) /\ PerSide(pipe) /\ PerSide(out)
  /\ \A s \in Side : FlowSide(s)

QuietInv ==
  /\ PerSide(silent) /\ PerSide(started)
  /\ \A s \in Side : QuietSide(s)
  /\ JoinInv

IInv == FixedInv /\ UdpInv /\ IxxatInv /\ FlowInv /\ QuietInv

-----------------------------------------------------------------------------
(* Two sides, and functions of them. *)
LEMMA TwoSides ==
  /\ Side = {1, 2} /\ Other(1) = 2 /\ Other(2) = 1
  /\ \A s \in Side : /\ Other(s) \in Side /\ Other(s) # s
                     /\ Other(Other(s)) = s
                     /\ \A t \in Side : t # s => t = Other(s)
  BY DEF Side, Other

LEMMA SetSide ==
  ASSUME NEW f, PerSide(f), NEW s \in Side, NEW x
  PROVE /\ PerSide([f EXCEPT ![s] = x])
        /\ [f EXCEPT ![s] = x][s] = x
        /\ \A t \in Side : t # s => [f EXCEPT ![s] = x][t] = f[t]
  <1>1. DOMAIN f = Side
    BY DEF PerSide
  <1>2. [f EXCEPT ![s] = x] = [t \in Side |-> IF t = s THEN x ELSE f[t]]
    BY <1>1
  <1>3. QED
    BY <1>2 DEF PerSide

-----------------------------------------------------------------------------
(* The steps that touch an adapter, and those that do not.                 *)
RxRestUnchanged == UNCHANGED <<m_uid, m_opened, m_started, m_stop_rx_thread,
                               m_rx_thread, hand>>

UdpMoves(s) ==
  \/ /\ kind[s] = "udp"
     /\ \/ U!Open(s) \/ U!Close(s) \/ U!Flush(s)
        \/ main[1] = "start controller" /\ U!Start(s)
        \/ U!StopRequest(s) \/ U!StopJoin(s)
        \/ U!RxRead(s) \/ U!RxTimeout(s) \/ U!RxCheck(s) \/ U!RxNotify(s)
  \/ \E d \in Arriving(s) : U!Arrives(s, d) /\ RxRestUnchanged

IxxatMoves(s) ==
  \/ /\ kind[s] = "ixxat"
     /\ UNCHANGED main \/ main[1] # "handle"
     /\ \/ X!Open(s) \/ X!Close(s) \/ X!Configure(s, Configured)
        \/ X!StartFails(s) \/ X!StopRequest(s)
        \/ X!RxPeek(s) \/ X!RxEnd(s) \/ X!RxFails(s) \/ X!RxLastEvent(s)
        \/ \E m \in Coming(s) : X!Bus(s, m)
  \/ /\ kind[s] = "ixxat" /\ main[1] = "start controller" /\ main' = <<"handle", s>>
     /\ X!Start(s)
  \/ main = <<"handle", s>> /\ X!StartHandle(s)

LEMMA ArrivesFrom ==
  ASSUME FixedInv, NEW s \in Side, NEW id \in Ids
  PROVE /\ \A p \in Peer :
             [uid |-> p.uid, valid |-> p.valid, msg |-> Msg(s, id)] \in Arriving(s)
        /\ X!Rx(Msg(s, id)) \in Coming(s)
        /\ X!Error("ACK") \in Coming(s) /\ X!Error("STUFF") \in Coming(s)
  <1>1. Msg(s, id) \in Message /\ Msg(s, id).from = s
    BY DEF Msg, Message
  <1>2. \A p \in Peer : p.uid \in U!Uid /\ p.valid \in BOOLEAN
    BY CanBridgeAssumption DEF U!Uid
  <1>3. QED
    BY <1>1, <1>2 DEF Arriving, Coming, MessageFrom, X!Rx, X!Error

LEMMA WrittenArrives ==
  ASSUME FixedInv, NEW t \in Side, NEW m \in Message
  PROVE U!Datagram(m_uid[t], m) \in Arriving(t)
  <1>1. m_uid[t] \in U!Uid
    BY DEF FixedInv
  <1>2. QED
    BY <1>1 DEF U!Datagram, U!WriteUid, Arriving

(* The message in hand of a pipeline that sends. *)
LEMMA HandIsMessage ==
  ASSUME IInv, NEW s \in Side, pipe[s] \in {"send", "write", "echo"}
  PROVE /\ cur[s] \in 1..Len(given[s])
        /\ given[s][cur[s]] \in Heard(s)
        /\ given[s][cur[s]].type = "rx"
        /\ InHand(s) \in Message
  <1>1. FlowSide(s)
    BY DEF IInv, FlowInv
  <1>2. /\ given[s] \in Seq(Heard(s)) /\ box[s] \in Seq(Nat)
        /\ cur[s] \in 0..Len(given[s]) - Len(box[s]) /\ cur[s] # 0
        /\ Chosen(s, given[s][cur[s]])
    BY <1>1 DEF FlowSide
  <1>3. Len(given[s]) \in Nat /\ Len(box[s]) \in Nat
    BY <1>2, LenProperties
  <1>4. cur[s] \in 1..Len(given[s])
    <2>1. \A n, k \in Nat : \A c \in 0..n - k : c # 0 => c \in 1..n
      OBVIOUS
    <2>2. QED
      BY <1>2, <1>3, <2>1, Zenon
  <1>5. given[s][cur[s]] \in Heard(s)
    BY <1>2, <1>4, ElementOfSeq
  <1>6. given[s][cur[s]].type = "rx"
    BY <1>2 DEF Chosen
  <1>7. given[s][cur[s]].msg \in Message
    BY <1>5, <1>6 DEF Heard, Datum
  <1>8. QED
    BY <1>4, <1>5, <1>6, <1>7 DEF InHand

Settled ==
  /\ UNCHANGED <<kind, lists, m_uid>>
  /\ UNCHANGED udp \/ \E s \in Side : UdpMoves(s)
  /\ \/ UNCHANGED ixxat /\ (UNCHANGED main \/ main[1] # "handle")
     \/ \E s \in Side : IxxatMoves(s)

LEMMA UdpSettles ==
  ASSUME NEW s \in Side, UdpMoves(s), UNCHANGED ixxat, UNCHANGED fixed,
         UNCHANGED main \/ main[1] # "handle"
  PROVE Settled
  <1>1. UNCHANGED m_uid
    BY DEF UdpMoves, U!Open, U!Close, U!Flush, U!Start, U!StopRequest, U!StopJoin,
           U!RxRead, U!RxTimeout, U!RxCheck, U!RxNotify, RxRestUnchanged
  <1>2. QED
    BY <1>1 DEF Settled, fixed

LEMMA IxxatSettles ==
  ASSUME NEW s \in Side, IxxatMoves(s), UNCHANGED udp, UNCHANGED fixed
  PROVE Settled
  BY DEF Settled, fixed, udp

LEMMA AdaptersSettle ==
  ASSUME UNCHANGED udp, UNCHANGED ixxat, UNCHANGED fixed,
         UNCHANGED main \/ main[1] # "handle"
  PROVE Settled
  BY DEF Settled, fixed, udp

LEMMA CloseSettles ==
  ASSUME NEW s \in Side, CloseAdapter(s), UNCHANGED fixed, main[1] # "handle"
  PROVE Settled
  <1>1. CASE kind[s] = "udp" /\ Udp(U!Close(s))
    BY <1>1, UdpSettles DEF UdpMoves, Udp
  <1>2. CASE kind[s] = "loopback" /\ Loopback(L!Close(s))
    BY <1>2, AdaptersSettle DEF Loopback
  <1>3. CASE kind[s] = "ixxat" /\ Ixxat(X!Close(s))
    BY <1>3, IxxatSettles DEF IxxatMoves, Ixxat
  <1>4. QED
    BY <1>1, <1>2, <1>3 DEF CloseAdapter

LEMMA MainSettles ==
  ASSUME IInv, Main \/ EnterKey
  PROVE Settled
  <1>1. ASSUME NEW s \in Side, InitAdapter(s) PROVE Settled
    <2>1. main[1] # "handle" /\ UNCHANGED fixed
      BY <1>1 DEF InitAdapter
    <2>2. CASE kind[s] = "udp" /\ Udp(U!Open(s))
      BY <2>1, <2>2, UdpSettles DEF UdpMoves, Udp
    <2>3. CASE kind[s] = "loopback" /\ Loopback(L!Open(s))
      BY <2>1, <2>3, AdaptersSettle DEF Loopback
    <2>4. CASE kind[s] = "ixxat" /\ Ixxat(X!Open(s))
      BY <2>1, <2>4, IxxatSettles DEF IxxatMoves, Ixxat
    <2>5. CASE UNCHANGED adapters
      BY <2>1, <2>5, AdaptersSettle DEF adapters
    <2>6. QED
      BY <1>1, <2>2, <2>3, <2>4, <2>5 DEF InitAdapter
  <1>2. ASSUME NEW s \in Side, Configure(s) PROVE Settled
    <2>1. main[1] # "handle" /\ UNCHANGED fixed
      BY <1>2 DEF Configure
    <2>2. CASE UNCHANGED adapters
      BY <2>1, <2>2, AdaptersSettle DEF adapters
    <2>3. CASE kind[s] = "loopback" /\ Loopback(L!Configure(s, Configured))
      BY <2>1, <2>3, AdaptersSettle DEF Loopback
    <2>4. CASE kind[s] = "ixxat" /\ Ixxat(X!Configure(s, Configured))
      BY <2>1, <2>4, IxxatSettles DEF IxxatMoves, Ixxat
    <2>5. CASE CloseAdapter(s)
      BY <2>1, <2>5, CloseSettles
    <2>6. QED
      BY <1>2, <2>2, <2>3, <2>4, <2>5 DEF Configure
  <1>3. ASSUME NEW s \in Side, StartController(s) PROVE Settled
    <2>1. main[1] # "handle" /\ main[1] = "start controller" /\ UNCHANGED fixed
      BY <1>3 DEF StartController
    <2>2. CASE kind[s] = "udp" /\ Udp(U!Start(s))
      BY <2>1, <2>2, UdpSettles DEF UdpMoves, Udp
    <2>3. CASE kind[s] = "udp" /\ Udp(U!Flush(s))
      BY <2>1, <2>3, UdpSettles DEF UdpMoves, Udp
    <2>4. CASE kind[s] = "loopback" /\ Loopback(L!Start(s))
      BY <2>1, <2>4, AdaptersSettle DEF Loopback
    <2>5. CASE kind[s] = "ixxat" /\ Ixxat(X!Start(s)) /\ Goto("handle", s)
      BY <2>1, <2>5, IxxatSettles DEF IxxatMoves, Ixxat, Goto
    <2>6. CASE kind[s] = "ixxat" /\ Ixxat(X!StartFails(s))
      BY <2>1, <2>6, IxxatSettles DEF IxxatMoves, Ixxat
    <2>7. QED
      BY <1>3, <2>2, <2>3, <2>4, <2>5, <2>6 DEF StartController
  <1>4. ASSUME NEW s \in Side, StartHandle(s) PROVE Settled
    <2>1. IxxatMoves(s)
      BY <1>4 DEF StartHandle, IxxatMoves, Ixxat
    <2>2. QED
      BY <1>4, <2>1, IxxatSettles DEF StartHandle, Ixxat
  <1>5. ASSUME NEW s \in Side, StopController(s) PROVE Settled
    <2>1. main[1] # "handle" /\ UNCHANGED fixed
      BY <1>5 DEF StopController
    <2>2. CASE kind[s] = "udp" /\ Udp(U!StopRequest(s))
      BY <2>1, <2>2, UdpSettles DEF UdpMoves, Udp
    <2>3. CASE kind[s] = "loopback" /\ Loopback(L!Stop(s))
      BY <2>1, <2>3, AdaptersSettle DEF Loopback
    <2>4. CASE kind[s] = "ixxat" /\ Ixxat(X!StopRequest(s))
      BY <2>1, <2>4, IxxatSettles DEF IxxatMoves, Ixxat
    <2>5. CASE UNCHANGED adapters
      BY <2>1, <2>5, AdaptersSettle DEF adapters
    <2>6. QED
      BY <1>5, <2>2, <2>3, <2>4, <2>5 DEF StopController
  <1>6. ASSUME NEW s \in Side, StopControllerJoin(s) PROVE Settled
    <2>1. main[1] # "handle" /\ UNCHANGED fixed
      BY <1>6 DEF StopControllerJoin
    <2>2. CASE kind[s] = "udp" /\ Udp(U!StopJoin(s))
      BY <2>1, <2>2, UdpSettles DEF UdpMoves, Udp
    <2>3. CASE UNCHANGED adapters
      BY <2>1, <2>3, AdaptersSettle DEF adapters
    <2>4. QED
      BY <1>6, <2>2, <2>3 DEF StopControllerJoin
  <1>7. ASSUME NEW s \in Side, DeleteController(s) PROVE Settled
    <2>1. main[1] # "handle" /\ UNCHANGED fixed /\ CloseAdapter(s)
      BY <1>7 DEF DeleteController
    <2>2. QED
      BY <2>1, CloseSettles
  <1>8. ASSUME NEW s \in Side,
               PipelineStart(s) \/ CreateThread(s) \/ CancelWaiters(s) \/ JoinThread(s)
        PROVE Settled
    <2>1. UNCHANGED fixed /\ UNCHANGED adapters
      BY <1>8 DEF PipelineStart, CreateThread, CancelWaiters, JoinThread
    <2>2. \/ main = <<"start", s>> \/ main = <<"create thread", s>>
          \/ main = <<"clear", s>> \/ main = <<"join", s>>
      BY <1>8 DEF PipelineStart, CreateThread, CancelWaiters, JoinThread
    <2>3. main[1] # "handle"
      <3>1. \A at : <<at, s>>[1] = at
        OBVIOUS
      <3>2. main[1] \in {"start", "create thread", "clear", "join"}
        BY <2>2, <3>1, Zenon
      <3>3. QED
        BY <3>2
    <2>4. QED
      BY <2>1, <2>3, AdaptersSettle DEF adapters
  <1>9. CASE Return \/ EnterKey
    <2>1. main[1] # "handle" /\ UNCHANGED fixed /\ UNCHANGED adapters
      BY <1>9 DEF Return, EnterKey
    <2>2. QED
      BY <2>1, AdaptersSettle DEF adapters
  <1>10. QED
    BY <1>1, <1>2, <1>3, <1>4, <1>5, <1>6, <1>7, <1>8, <1>9 DEF Main

LEMMA SideSettles ==
  ASSUME IInv, NEW s \in Side,
         UdpRx(s) \/ IxxatRx(s) \/ IxxatFails(s) \/ Arrive(s) \/ Pipeline(s)
  PROVE Settled
  <1>1. CASE UdpRx(s)
    <2>1. UdpMoves(s)
      BY <1>1 DEF UdpRx, UdpMoves
    <2>2. QED
      BY <1>1, <2>1, UdpSettles DEF UdpRx
  <1>2. CASE IxxatRx(s)
    <2>1. IxxatMoves(s)
      BY <1>2 DEF IxxatRx, IxxatMoves
    <2>2. QED
      BY <1>2, <2>1, IxxatSettles DEF IxxatRx
  <1>3. CASE IxxatFails(s)
    <2>1. IxxatMoves(s)
      BY <1>3 DEF IxxatFails, IxxatMoves, Ixxat
    <2>2. QED
      BY <1>3, <2>1, IxxatSettles DEF IxxatFails, Ixxat
  <1>4. CASE Arrive(s)
    <2>1. FixedInv
      BY DEF IInv
    <2>2. ASSUME NEW p \in Peer, NEW id \in Ids, kind[s] = "udp",
                 Udp(U!Network(s, [uid |-> p.uid, valid |-> p.valid, msg |-> Msg(s, id)]))
          PROVE Settled
      <3>1. [uid |-> p.uid, valid |-> p.valid, msg |-> Msg(s, id)] \in Arriving(s)
        BY <2>1, ArrivesFrom
      <3>2. UdpMoves(s)
        BY <2>2, <3>1 DEF UdpMoves, Udp, U!Network, RxRestUnchanged
      <3>3. QED
        BY <1>4, <2>2, <3>2, UdpSettles DEF Arrive, Udp
    <2>3. ASSUME NEW m \in Coming(s), kind[s] = "ixxat", Ixxat(X!Bus(s, m))
          PROVE Settled
      <3>1. IxxatMoves(s)
        BY <1>4, <2>3 DEF IxxatMoves, Ixxat, Arrive
      <3>2. QED
        BY <1>4, <2>3, <3>1, IxxatSettles DEF Arrive, Ixxat
    <2>4. {X!Rx(Msg(s, id)) : id \in Ids} \union {X!Error("ACK"), X!Error("STUFF")}
            \subseteq Coming(s)
      <3>1. X!Error("ACK") \in Coming(s) /\ X!Error("STUFF") \in Coming(s)
        BY DEF Coming, X!Error
      <3>2. \A id \in Ids : X!Rx(Msg(s, id)) \in Coming(s)
        BY <2>1, ArrivesFrom
      <3>3. QED
        BY <3>1, <3>2
    <2>5. QED
      BY <1>4, <2>2, <2>3, <2>4 DEF Arrive
  <1>5. CASE UdpWrite(s)
    <2>1. UNCHANGED fixed /\ UNCHANGED main
      BY <1>5 DEF UdpWrite
    <2>2. CASE Udp(U!Write(Other(s), InHand(s)))
      <3>1. pipe[s] = "write"
        BY <1>5 DEF UdpWrite
      <3>2. InHand(s) \in Message /\ Other(s) \in Side /\ FixedInv
        BY <3>1, HandIsMessage, TwoSides DEF IInv
      <3>3. U!Datagram(m_uid[Other(s)], InHand(s)) \in Arriving(Other(s))
        BY <3>2, WrittenArrives
      <3>4. UdpMoves(Other(s))
        BY <2>2, <3>1, <3>3 DEF UdpMoves, Udp, U!Write, RxRestUnchanged
      <3>5. QED
        BY <2>1, <2>2, <3>2, <3>4, UdpSettles DEF Udp
    <2>3. CASE UNCHANGED adapters
      BY <2>1, <2>3, AdaptersSettle DEF adapters
    <2>4. QED
      BY <1>5, <2>2, <2>3 DEF UdpWrite
  <1>6. CASE Take(s) \/ Wait(s) \/ Cancelled(s) \/ Dispatch(s) \/ Send(s) \/ Echo(s)
    <2>1. UNCHANGED adapters /\ UNCHANGED fixed /\ UNCHANGED main
      BY <1>6 DEF Take, Wait, Cancelled, Dispatch, Send, Echo
    <2>2. QED
      BY <2>1, AdaptersSettle DEF adapters
  <1>7. QED
    BY <1>1, <1>2, <1>3, <1>4, <1>5, <1>6 DEF Pipeline

LEMMA NextSettles ==
  ASSUME IInv, Next
  PROVE Settled
  BY MainSettles, SideSettles DEF Next

-----------------------------------------------------------------------------
(* The controllers over UDP: what waits in a socket came from the bus or   *)
(* carries the own identifier, and the second is read back as an own one   *)
(* by a loyal controller.                                                  *)
LEMMA SetsStay ==
  ASSUME UNCHANGED <<kind, lists, m_uid>>, NEW s \in Side
  PROVE /\ Heard(s)' = Heard(s)
        /\ Arriving(s)' = Arriving(s)
        /\ \A d : Chosen(s, d) <=> (Chosen(s, d))'
  <1>1. Loyal(s)' <=> Loyal(s)
    BY DEF Loyal, U!Readable, U!ReadUid, U!WriteUid
  <1>2. Heard(s)' = Heard(s)
    BY <1>1 DEF Heard
  <1>3. Arriving(s)' = Arriving(s)
    BY DEF Arriving
  <1>4. \A d : Chosen(s, d) <=> (Chosen(s, d))'
    BY DEF Chosen
  <1>5. QED
    BY <1>2, <1>3, <1>4

LEMMA FixedKept ==
  ASSUME FixedInv, Settled
  PROVE FixedInv'
  BY DEF FixedInv, Settled

LEMMA ReadIsHeard ==
  ASSUME FixedInv, NEW s \in Side, kind[s] = "udp",
         NEW d \in Arriving(s), ~U!Own(s, d)
  PROVE U!ReadData(d) \in Heard(s)
  <1>1. /\ d.msg \in Message /\ (d.uid = m_uid[s] \/ d.msg.from = s)
    BY DEF Arriving
  <1>2. CASE ~d.valid
    BY <1>2 DEF U!ReadData, U!Event, Heard, Datum
  <1>3. CASE d.valid
    <2>1. U!ReadData(d) = [type |-> "rx", msg |-> d.msg]
      BY <1>3 DEF U!ReadData, U!Rx
    <2>2. ASSUME Loyal(s) PROVE d.msg.from = s
      <3>1. U!ReadUid(m_uid[s]) = m_uid[s]
        BY <2>2 DEF Loyal, U!Readable, U!WriteUid
      <3>2. d.uid # m_uid[s]
        BY <3>1 DEF U!Own
      <3>3. QED
        BY <1>1, <3>2
    <2>3. QED
      BY <1>1, <2>1, <2>2 DEF Heard, Datum
  <1>4. QED
    BY <1>2, <1>3

(* It is enough to look at the side that changes. *)
LEMMA UdpSideSuffices ==
  ASSUME UdpInv, NEW s \in Side, UNCHANGED <<kind, lists, m_uid>>,
         PerSide(m_started)', PerSide(m_rx_thread)', PerSide(hand)', PerSide(socket)',
         \A t \in Side : t # s =>
           /\ m_started'[t] = m_started[t] /\ m_rx_thread'[t] = m_rx_thread[t]
           /\ hand'[t] = hand[t] /\ socket'[t] = socket[t],
         UdpSide(s)'
  PROVE UdpInv'
  <1>1. ASSUME NEW t \in Side, t # s PROVE UdpSide(t)'
    <2>1. UdpSide(t)
      BY DEF UdpInv
    <2>2. Heard(t)' = Heard(t) /\ Arriving(t)' = Arriving(t)
      BY SetsStay
    <2>3. QED
      BY <1>1, <2>1, <2>2 DEF UdpSide
  <1>2. QED
    BY <1>1 DEF UdpInv

LEMMA UdpKept ==
  ASSUME IInv, UNCHANGED <<kind, lists, m_uid>>, UNCHANGED udp
  PROVE UdpInv'
  <1>1. UdpInv
    BY DEF IInv
  <1>2. /\ m_started' = m_started /\ m_rx_thread' = m_rx_thread
        /\ hand' = hand /\ socket' = socket
    BY DEF udp
  <1>3. ASSUME NEW s \in Side PROVE UdpSide(s)'
    <2>1. UdpSide(s) /\ Heard(s)' = Heard(s) /\ Arriving(s)' = Arriving(s)
      BY <1>1, SetsStay DEF UdpInv
    <2>2. QED
      BY <1>2, <2>1 DEF UdpSide
  <1>4. QED
    BY <1>1, <1>2, <1>3 DEF UdpInv, PerSide

LEMMA UdpMovesKeep ==
  ASSUME IInv, NEW s \in Side, UdpMoves(s), UNCHANGED <<kind, lists, m_uid>>
  PROVE UdpInv'
  <1>1. /\ UdpInv /\ UdpSide(s) /\ FixedInv
        /\ PerSide(m_started) /\ PerSide(m_rx_thread) /\ PerSide(hand) /\ PerSide(socket)
    BY DEF IInv, UdpInv
  <1>2. Heard(s)' = Heard(s) /\ Arriving(s)' = Arriving(s)
    BY SetsStay
  <1>3. /\ socket[s] \in Seq(Arriving(s)) /\ hand[s] \in Seq(Heard(s))
        /\ socket[s] # <<>> => /\ Head(socket[s]) \in Arriving(s)
                               /\ Tail(socket[s]) \in Seq(Arriving(s))
        /\ <<>> \in Seq(Arriving(s)) /\ <<>> \in Seq(Heard(s))
    BY <1>1, HeadTailProperties, EmptySeq DEF UdpSide
  <1>4. CASE U!Open(s) \/ U!StopRequest(s)
    <2>1. /\ m_started' = m_started /\ m_rx_thread' = m_rx_thread
          /\ hand' = hand /\ socket' = socket
      BY <1>4 DEF U!Open, U!StopRequest
    <2>2. UdpSide(s)'
      BY <1>1, <1>2, <2>1 DEF UdpSide
    <2>3. QED
      BY <1>1, <2>1, <2>2, UdpSideSuffices DEF PerSide
  <1>5. ASSUME m_started' = m_started, m_rx_thread' = m_rx_thread, hand' = hand,
               NEW q \in Seq(Arriving(s)), socket' = [socket EXCEPT ![s] = q]
        PROVE UdpInv'
    <2>1. /\ PerSide(socket)' /\ socket'[s] = q
          /\ \A t \in Side : t # s => socket'[t] = socket[t]
      BY <1>1, <1>5, SetSide DEF PerSide
    <2>2. UdpSide(s)'
      BY <1>1, <1>2, <1>5, <2>1 DEF UdpSide
    <2>3. PerSide(m_started)' /\ PerSide(m_rx_thread)' /\ PerSide(hand)'
      BY <1>1, <1>5 DEF PerSide
    <2>4. QED
      BY <1>1, <1>5, <2>1, <2>2, <2>3, UdpSideSuffices
  <1>6. CASE U!Close(s)
    BY <1>3, <1>5, <1>6 DEF U!Close
  <1>7. CASE U!Flush(s)
    BY <1>3, <1>5, <1>7 DEF U!Flush
  <1>8. CASE \E d \in Arriving(s) : U!Arrives(s, d) /\ RxRestUnchanged
    <2>1. PICK d \in Arriving(s) : U!Arrives(s, d) /\ RxRestUnchanged
      BY <1>8
    <2>2. CASE m_opened[s] /\ Len(socket[s]) < SocketSize
      <3>1. socket' = [socket EXCEPT ![s] = Append(socket[s], d)]
        BY <2>1, <2>2 DEF U!Arrives
      <3>2. Append(socket[s], d) \in Seq(Arriving(s))
        BY <1>3, AppendProperties
      <3>3. QED
        BY <1>5, <2>1, <3>1, <3>2 DEF RxRestUnchanged
    <2>3. CASE ~(m_opened[s] /\ Len(socket[s]) < SocketSize)
      <3>1. UNCHANGED udp
        BY <2>1, <2>3 DEF U!Arrives, RxRestUnchanged, udp
      <3>2. QED
        BY <3>1, UdpKept
    <2>4. QED
      BY <2>2, <2>3
  <1>9. ASSUME kind[s] = "udp", NEW b, NEW r, NEW h \in Seq(Heard(s)),
               NEW q \in Seq(Arriving(s)),
               m_started' = [m_started EXCEPT ![s] = b],
               m_rx_thread' = [m_rx_thread EXCEPT ![s] = r],
               hand' = [hand EXCEPT ![s] = h],
               socket' = [socket EXCEPT ![s] = q],
               r \in {"none", "reading", "read", "notify", "ended"},
               (r \in {"read", "notify"}) <=> (h # <<>>),
               ~b => r = "none"
        PROVE UdpInv'
    <2>1. /\ PerSide(socket)' /\ socket'[s] = q
          /\ \A t \in Side : t # s => socket'[t] = socket[t]
      BY <1>1, <1>9, SetSide DEF PerSide
    <2>2. /\ PerSide(hand)' /\ hand'[s] = h
          /\ \A t \in Side : t # s => hand'[t] = hand[t]
      BY <1>1, <1>9, SetSide DEF PerSide
    <2>3. /\ PerSide(m_rx_thread)' /\ m_rx_thread'[s] = r
          /\ \A t \in Side : t # s => m_rx_thread'[t] = m_rx_thread[t]
      BY <1>1, <1>9, SetSide DEF PerSide
    <2>4. /\ PerSide(m_started)' /\ m_started'[s] = b
          /\ \A t \in Side : t # s => m_started'[t] = m_started[t]
      BY <1>1, <1>9, SetSide DEF PerSide
    <2>5. UdpSide(s)'
      BY <1>2, <1>9, <2>1, <2>2, <2>3, <2>4 DEF UdpSide
    <2>6. QED
      BY <1>1, <2>1, <2>2, <2>3, <2>4, <2>5, UdpSideSuffices
  <1>10. /\ socket = [socket EXCEPT ![s] = socket[s]]
         /\ hand = [hand EXCEPT ![s] = hand[s]]
         /\ m_started = [m_started EXCEPT ![s] = m_started[s]]
         /\ m_rx_thread = [m_rx_thread EXCEPT ![s] = m_rx_thread[s]]
    BY <1>1 DEF PerSide
  <1>11. U!LoopTest(s) \in {"reading", "ended"}
    BY DEF U!LoopTest
  <1>12. m_rx_thread[s] \in {"reading", "read", "notify", "ended"} => m_started[s]
    BY <1>1 DEF UdpSide
  <1>13. ASSUME kind[s] = "udp", U!Start(s) PROVE UdpInv'
    <2>1. hand[s] = <<>>
      BY <1>1, <1>13 DEF UdpSide, U!Start
    <2>2. PICK q \in Seq(Arriving(s)) : socket' = [socket EXCEPT ![s] = q]
      BY <1>3, <1>10, <1>13 DEF U!Start
    <2>3. /\ m_started' = [m_started EXCEPT ![s] = TRUE]
          /\ m_rx_thread' = [m_rx_thread EXCEPT ![s] = "reading"]
          /\ hand' = [hand EXCEPT ![s] = hand[s]]
      BY <1>10, <1>13 DEF U!Start
    <2>4. QED
      BY <1>3, <1>9, <1>13, <2>1, <2>2, <2>3
  <1>14. ASSUME kind[s] = "udp", U!StopJoin(s) PROVE UdpInv'
    <2>1. hand[s] = <<>>
      BY <1>1, <1>14 DEF UdpSide, U!StopJoin
    <2>2. /\ m_started' = [m_started EXCEPT ![s] = FALSE]
          /\ m_rx_thread' = [m_rx_thread EXCEPT ![s] = "none"]
          /\ hand' = [hand EXCEPT ![s] = hand[s]]
          /\ socket' = [socket EXCEPT ![s] = socket[s]]
      BY <1>10, <1>14 DEF U!StopJoin
    <2>3. QED
      BY <1>3, <1>9, <1>14, <2>1, <2>2
  <1>15. ASSUME kind[s] = "udp", U!RxRead(s) PROVE UdpInv'
    <2>1. /\ m_rx_thread[s] = "reading" /\ socket[s] # <<>>
          /\ m_started' = [m_started EXCEPT ![s] = m_started[s]]
          /\ socket' = [socket EXCEPT ![s] = Tail(socket[s])]
      BY <1>10, <1>15 DEF U!RxRead
    <2>2. hand[s] = <<>> /\ m_started[s]
      BY <1>1, <1>12, <2>1 DEF UdpSide
    <2>3. CASE U!Own(s, Head(socket[s]))
      <3>1. /\ m_rx_thread' = [m_rx_thread EXCEPT ![s] = U!LoopTest(s)]
            /\ hand' = [hand EXCEPT ![s] = hand[s]]
        BY <1>10, <1>15, <2>3 DEF U!RxRead
      <3>2. QED
        BY <1>3, <1>9, <1>11, <1>15, <2>1, <2>2, <3>1
    <2>4. CASE ~U!Own(s, Head(socket[s]))
      <3>1. /\ m_rx_thread' = [m_rx_thread EXCEPT ![s] = "read"]
            /\ hand' = [hand EXCEPT ![s] = <<U!ReadData(Head(socket[s]))>>]
        BY <1>15, <2>4 DEF U!RxRead
      <3>2. U!ReadData(Head(socket[s])) \in Heard(s)
        BY <1>1, <1>3, <1>15, <2>1, <2>4, ReadIsHeard
      <3>3. \A x \in Heard(s) : <<x>> \in Seq(Heard(s)) /\ <<x>> # <<>>
        OBVIOUS
      <3>4. QED
        BY <1>3, <1>9, <1>15, <2>1, <2>2, <3>1, <3>2, <3>3
    <2>5. QED
      BY <2>3, <2>4
  <1>16. ASSUME kind[s] = "udp", U!RxTimeout(s) PROVE UdpInv'
    <2>1. /\ m_rx_thread[s] = "reading"
          /\ m_started' = [m_started EXCEPT ![s] = m_started[s]]
          /\ m_rx_thread' = [m_rx_thread EXCEPT ![s] = "ended"]
          /\ hand' = [hand EXCEPT ![s] = hand[s]]
          /\ socket' = [socket EXCEPT ![s] = socket[s]]
      BY <1>10, <1>16 DEF U!RxTimeout
    <2>2. hand[s] = <<>> /\ m_started[s]
      BY <1>1, <1>12, <2>1 DEF UdpSide
    <2>3. QED
      BY <1>3, <1>9, <1>16, <2>1, <2>2
  <1>17. ASSUME kind[s] = "udp", U!RxCheck(s) PROVE UdpInv'
    <2>1. /\ m_rx_thread[s] = "read"
          /\ m_started' = [m_started EXCEPT ![s] = m_started[s]]
          /\ socket' = [socket EXCEPT ![s] = socket[s]]
      BY <1>10, <1>17 DEF U!RxCheck
    <2>2. hand[s] # <<>> /\ m_started[s]
      BY <1>1, <1>12, <2>1 DEF UdpSide
    <2>3. CASE m_stop_rx_thread[s]
      <3>1. /\ m_rx_thread' = [m_rx_thread EXCEPT ![s] = "ended"]
            /\ hand' = [hand EXCEPT ![s] = <<>>]
        BY <1>17, <2>3 DEF U!RxCheck
      <3>2. QED
        BY <1>3, <1>9, <1>17, <2>1, <2>2, <3>1
    <2>4. CASE ~m_stop_rx_thread[s]
      <3>1. /\ m_rx_thread' = [m_rx_thread EXCEPT ![s] = "notify"]
            /\ hand' = [hand EXCEPT ![s] = hand[s]]
        BY <1>10, <1>17, <2>4 DEF U!RxCheck
      <3>2. QED
        BY <1>3, <1>9, <1>17, <2>1, <2>2, <3>1
    <2>5. QED
      BY <2>3, <2>4
  <1>18. ASSUME kind[s] = "udp", U!RxNotify(s) PROVE UdpInv'
    <2>1. /\ m_rx_thread[s] = "notify"
          /\ m_started' = [m_started EXCEPT ![s] = m_started[s]]
          /\ m_rx_thread' = [m_rx_thread EXCEPT ![s] = U!LoopTest(s)]
          /\ hand' = [hand EXCEPT ![s] = <<>>]
          /\ socket' = [socket EXCEPT ![s] = socket[s]]
      BY <1>10, <1>18 DEF U!RxNotify
    <2>2. m_started[s]
      BY <1>12, <2>1
    <2>3. QED
      BY <1>3, <1>9, <1>11, <1>18, <2>1, <2>2
  <1>19. QED
    BY <1>4, <1>6, <1>7, <1>8, <1>13, <1>14, <1>15, <1>16, <1>17, <1>18 DEF UdpMoves

LEMMA UdpNext ==
  ASSUME IInv, Settled
  PROVE UdpInv'
  BY UdpKept, UdpMovesKeep DEF Settled

-----------------------------------------------------------------------------
(* The controllers over the driver: a thread that runs has its handle,     *)
(* but between the creation of the one and the assignment of the other.    *)
Busy == {"running", "draining", "failed"}

LEMMA IxxatSideSuffices ==
  ASSUME IxxatInv, NEW s \in Side, UNCHANGED kind,
         PerSide(m_hthread)', PerSide(thread)', PerSide(channel)',
         \A t \in Side : t # s =>
           /\ m_hthread'[t] = m_hthread[t] /\ thread'[t] = thread[t]
           /\ channel'[t] = channel[t]
           /\ main # <<"handle", t>> \/ main' = <<"handle", t>>,
         IxxatSide(s)'
  PROVE IxxatInv'
  <1>1. ASSUME NEW t \in Side, t # s PROVE IxxatSide(t)'
    <2>1. IxxatSide(t)
      BY DEF IxxatInv
    <2>2. Coming(t)' = Coming(t)
      BY DEF Coming
    <2>3. QED
      BY <1>1, <2>1, <2>2 DEF IxxatSide
  <1>2. QED
    BY <1>1 DEF IxxatInv

LEMMA IxxatKept ==
  ASSUME IInv, UNCHANGED kind, UNCHANGED ixxat, UNCHANGED main \/ main[1] # "handle"
  PROVE IxxatInv'
  <1>1. IxxatInv
    BY DEF IInv
  <1>2. m_hthread' = m_hthread /\ thread' = thread /\ channel' = channel
    BY DEF ixxat
  <1>3. ASSUME NEW s \in Side PROVE IxxatSide(s)'
    <2>1. IxxatSide(s) /\ Coming(s)' = Coming(s)
      BY <1>1 DEF IxxatInv, Coming
    <2>2. main # <<"handle", s>> \/ main' = <<"handle", s>>
      OBVIOUS
    <2>3. QED
      BY <1>2, <2>1, <2>2 DEF IxxatSide
  <1>4. QED
    BY <1>1, <1>2, <1>3 DEF IxxatInv, PerSide

LEMMA IxxatMovesKeep ==
  ASSUME IInv, NEW s \in Side, IxxatMoves(s), UNCHANGED kind
  PROVE IxxatInv'
  <1>1. /\ IxxatInv /\ IxxatSide(s)
        /\ PerSide(m_hthread) /\ PerSide(thread) /\ PerSide(channel)
    BY DEF IInv, IxxatInv
  <1>2. Coming(s)' = Coming(s)
    BY DEF Coming
  <1>3. /\ channel[s] \in Seq(Coming(s))
        /\ channel[s] # <<>> => Tail(channel[s]) \in Seq(Coming(s))
        /\ <<>> \in Seq(Coming(s))
        /\ \A m \in Coming(s) : Append(channel[s], m) \in Seq(Coming(s))
        /\ X!Info("START") \in Coming(s) /\ X!Info("STOP") \in Coming(s)
    <2>1. channel[s] \in Seq(Coming(s)) /\ <<>> \in Seq(Coming(s))
      BY <1>1, EmptySeq DEF IxxatSide
    <2>2. channel[s] # <<>> => Tail(channel[s]) \in Seq(Coming(s))
      BY <2>1, HeadTailProperties
    <2>3. \A m \in Coming(s) : Append(channel[s], m) \in Seq(Coming(s))
      BY <2>1, AppendProperties
    <2>4. X!Info("START") \in Coming(s) /\ X!Info("STOP") \in Coming(s)
      BY DEF Coming, X!Info
    <2>5. QED
      BY <2>1, <2>2, <2>3, <2>4
  <1>4. ASSUME NEW h \in {"null", "set"},
               NEW r \in {"none", "running", "draining", "failed", "ended"},
               NEW q \in Seq(Coming(s)),
               m_hthread' = [m_hthread EXCEPT ![s] = h],
               thread' = [thread EXCEPT ![s] = r],
               channel' = [channel EXCEPT ![s] = q],
               kind[s] = "ixxat" \/ r = "none",
               main' = <<"handle", s>> \/ r \notin Busy \/ h = "set",
               \A t \in Side : t # s => main # <<"handle", t>> \/ main' = <<"handle", t>>
        PROVE IxxatInv'
    <2>1. /\ PerSide(m_hthread)' /\ m_hthread'[s] = h
          /\ \A t \in Side : t # s => m_hthread'[t] = m_hthread[t]
      BY <1>1, <1>4, SetSide DEF PerSide
    <2>2. /\ PerSide(thread)' /\ thread'[s] = r
          /\ \A t \in Side : t # s => thread'[t] = thread[t]
      BY <1>1, <1>4, SetSide DEF PerSide
    <2>3. /\ PerSide(channel)' /\ channel'[s] = q
          /\ \A t \in Side : t # s => channel'[t] = channel[t]
      BY <1>1, <1>4, SetSide DEF PerSide
    <2>4. IxxatSide(s)'
      BY <1>2, <1>4, <2>1, <2>2, <2>3 DEF IxxatSide, Busy
    <2>5. QED
      BY <1>1, <1>4, <2>1, <2>2, <2>3, <2>4, IxxatSideSuffices
  <1>5. /\ channel = [channel EXCEPT ![s] = channel[s]]
        /\ thread = [thread EXCEPT ![s] = thread[s]]
        /\ m_hthread = [m_hthread EXCEPT ![s] = m_hthread[s]]
        /\ m_hthread[s] \in {"null", "set"}
        /\ thread[s] \in {"none", "running", "draining", "failed", "ended"}
    BY <1>1 DEF PerSide, IxxatSide
  <1>6. ASSUME kind[s] = "ixxat", UNCHANGED main \/ main[1] # "handle",
               NEW h \in {"null", "set"},
               NEW r \in {"none", "running", "draining", "failed", "ended"},
               NEW q \in Seq(Coming(s)),
               m_hthread' = [m_hthread EXCEPT ![s] = h],
               thread' = [thread EXCEPT ![s] = r],
               channel' = [channel EXCEPT ![s] = q],
               r \notin Busy \/ (thread[s] \in Busy /\ h = m_hthread[s])
        PROVE IxxatInv'
    <2>1. \A t \in Side : main # <<"handle", t>> \/ main' = <<"handle", t>>
      BY <1>6
    <2>2. main' = <<"handle", s>> \/ r \notin Busy \/ h = "set"
      BY <1>1, <1>6, <2>1 DEF IxxatSide, Busy
    <2>3. QED
      BY <1>4, <1>6, <2>1, <2>2
  <1>7. ASSUME kind[s] = "ixxat", UNCHANGED main \/ main[1] # "handle",
               NEW q \in Seq(Coming(s)),
               UNCHANGED <<m_hthread, thread>>, channel' = [channel EXCEPT ![s] = q]
        PROVE IxxatInv'
    BY <1>5, <1>6, <1>7
  <1>8. ASSUME kind[s] = "ixxat", UNCHANGED main \/ main[1] # "handle",
               X!Open(s) \/ X!Configure(s, Configured)
        PROVE IxxatInv'
    <2>1. UNCHANGED <<m_hthread, thread>> /\ channel' = [channel EXCEPT ![s] = channel[s]]
      BY <1>5, <1>8 DEF X!Open, X!Configure
    <2>2. QED
      BY <1>3, <1>7, <1>8, <2>1
  <1>9. ASSUME kind[s] = "ixxat", UNCHANGED main \/ main[1] # "handle",
               X!Close(s) \/ X!StopRequest(s)
        PROVE IxxatInv'
    BY <1>3, <1>7, <1>9 DEF X!Close, X!StopRequest
  <1>10. ASSUME kind[s] = "ixxat", UNCHANGED main \/ main[1] # "handle", X!StartFails(s)
         PROVE IxxatInv'
    <2>1. channel[s] \o <<X!Info("START"), X!Info("STOP")>> \in Seq(Coming(s))
      <3>1. <<X!Info("START"), X!Info("STOP")>> \in Seq(Coming(s))
        BY <1>3
      <3>2. QED
        BY <1>3, <3>1, ConcatProperties
    <2>2. UNCHANGED <<m_hthread, thread>>
      BY <1>10 DEF X!StartFails
    <2>3. PICK q \in Seq(Coming(s)) : channel' = [channel EXCEPT ![s] = q]
      BY <1>3, <1>5, <1>10, <2>1 DEF X!StartFails
    <2>4. QED
      BY <1>7, <1>10, <2>2, <2>3
  <1>11. ASSUME kind[s] = "ixxat", UNCHANGED main \/ main[1] # "handle",
                NEW m \in Coming(s), X!Bus(s, m)
         PROVE IxxatInv'
    BY <1>3, <1>7, <1>11 DEF X!Bus
  <1>12. ASSUME kind[s] = "ixxat", UNCHANGED main \/ main[1] # "handle", X!RxPeek(s)
         PROVE IxxatInv'
    <2>1. /\ thread[s] \in Busy /\ channel[s] # <<>>
          /\ channel' = [channel EXCEPT ![s] = Tail(channel[s])]
          /\ m_hthread' = [m_hthread EXCEPT ![s] = m_hthread[s]]
      BY <1>5, <1>12 DEF X!RxPeek, Busy
    <2>2. thread' = [thread EXCEPT ![s] = "draining"] \/ thread' = [thread EXCEPT ![s] = thread[s]]
      BY <1>5, <1>12 DEF X!RxPeek
    <2>3. QED
      BY <1>3, <1>5, <1>6, <1>12, <2>1, <2>2
  <1>13. ASSUME kind[s] = "ixxat", UNCHANGED main \/ main[1] # "handle",
                X!RxEnd(s) \/ X!RxLastEvent(s)
         PROVE IxxatInv'
    <2>1. /\ channel' = [channel EXCEPT ![s] = channel[s]]
          /\ m_hthread' = [m_hthread EXCEPT ![s] = "null"]
          /\ thread' = [thread EXCEPT ![s] = "ended"]
      BY <1>5, <1>13 DEF X!RxEnd, X!RxLastEvent
    <2>2. QED
      BY <1>3, <1>6, <1>13, <2>1 DEF Busy
  <1>14. ASSUME kind[s] = "ixxat", UNCHANGED main \/ main[1] # "handle", X!RxFails(s)
         PROVE IxxatInv'
    <2>1. /\ channel' = [channel EXCEPT ![s] = channel[s]]
          /\ m_hthread' = [m_hthread EXCEPT ![s] = m_hthread[s]]
          /\ thread' = [thread EXCEPT ![s] = "failed"]
          /\ thread[s] \in Busy
      BY <1>5, <1>14 DEF X!RxFails, Busy
    <2>2. QED
      BY <1>3, <1>5, <1>6, <1>14, <2>1
  <1>15. ASSUME kind[s] = "ixxat", main[1] = "start controller",
                main' = <<"handle", s>>, X!Start(s)
         PROVE IxxatInv'
    <2>1. /\ channel' = [channel EXCEPT ![s] = Append(channel[s], X!Info("START"))]
          /\ m_hthread' = [m_hthread EXCEPT ![s] = m_hthread[s]]
          /\ thread' = [thread EXCEPT ![s] = "running"]
      BY <1>5, <1>15 DEF X!Start
    <2>2. \A t \in Side : main # <<"handle", t>>
      <3>1. main[1] # "handle"
        BY <1>15
      <3>2. QED
        BY <3>1
    <2>3. QED
      BY <1>3, <1>4, <1>5, <1>15, <2>1, <2>2
  <1>16. ASSUME main = <<"handle", s>>, X!StartHandle(s)
         PROVE IxxatInv'
    <2>1. /\ channel' = [channel EXCEPT ![s] = channel[s]]
          /\ m_hthread' = [m_hthread EXCEPT ![s] = "set"]
          /\ thread' = [thread EXCEPT ![s] = thread[s]]
      BY <1>5, <1>16 DEF X!StartHandle
    <2>2. \A t \in Side : t # s => main # <<"handle", t>>
      BY <1>16
    <2>3. kind[s] = "ixxat" \/ thread[s] = "none"
      BY <1>1 DEF IxxatSide
    <2>4. QED
      BY <1>3, <1>4, <1>5, <1>16, <2>1, <2>2, <2>3
  <1>17. QED
    BY <1>8, <1>9, <1>10, <1>11, <1>12, <1>13, <1>14, <1>15, <1>16 DEF IxxatMoves

LEMMA IxxatNext ==
  ASSUME IInv, Settled
  PROVE IxxatInv'
  BY IxxatKept, IxxatMovesKeep DEF Settled

-----------------------------------------------------------------------------
(* What the filter of a pipeline hands on is what the lists choose. *)
LEMMA ForwardsChosen ==
  ASSUME NEW s \in Side, NEW d, Forwards(s, d)
  PROVE Chosen(s, d)
  <1> DEFINE l == lists[Other(s)]
  <1>1. d.type = "rx" /\ F!IsMsg(d) /\ PassesFilter(s, d)
    BY DEF Forwards, F!IsMsg
  <1>2. CASE l.white # {}
    <2> DEFINE f == AddAll(F!WhiteList, l.white)
    <2>1. f = [kind |-> "white", std |-> l.white, ext |-> {}]
      BY DEF AddAll, F!List, F!WhiteList
    <2>2. Filters(s) = <<f>>
      BY <1>2 DEF Filters
    <2>3. F!Forwards(f, d)
      BY <1>1, <2>2 DEF PassesFilter
    <2> HIDE DEF f
    <2>4. d.msg.id \in f[F!List(d.msg.extended)]
      BY <1>1, <2>1, <2>3 DEF F!Forwards, F!ListForwards
    <2>5. ~d.msg.extended /\ d.msg.id \in l.white
      BY <2>1, <2>4 DEF F!List
    <2>6. QED
      BY <1>1, <1>2, <2>5 DEF Chosen
  <1>3. CASE l.white = {} /\ l.black # {}
    <2> DEFINE f == AddAll(F!BlackList, l.black)
    <2>1. f = [kind |-> "black", std |-> l.black, ext |-> {}]
      BY DEF AddAll, F!List, F!BlackList
    <2>2. Filters(s) = <<f>>
      BY <1>3 DEF Filters
    <2>3. F!Forwards(f, d)
      BY <1>1, <2>2 DEF PassesFilter
    <2> HIDE DEF f
    <2>4. d.msg.id \notin f[F!List(d.msg.extended)]
      BY <1>1, <2>1, <2>3 DEF F!Forwards, F!ListForwards
    <2>5. d.msg.extended \/ d.msg.id \notin l.black
      BY <2>1, <2>4 DEF F!List
    <2>6. QED
      BY <1>1, <1>3, <2>5 DEF Chosen
  <1>4. CASE l.white = {} /\ l.black = {}
    BY <1>1, <1>4 DEF Chosen
  <1>5. QED
    BY <1>2, <1>3, <1>4

-----------------------------------------------------------------------------
(* The pipelines: what a step does to one of them. *)
LEMMA FlowSideStays ==
  ASSUME NEW t \in Side, FlowSide(t), UNCHANGED <<kind, lists, m_uid>>,
         given'[t] = given[t], box'[t] = box[t], cur'[t] = cur[t], pipe'[t] = pipe[t],
         out'[Other(t)] = out[Other(t)]
  PROVE FlowSide(t)'
  <1>1. Heard(t)' = Heard(t)
    BY SetsStay
  <1>2. QED
    BY <1>1 DEF FlowSide, Chosen

LEMMA FlowLens ==
  ASSUME NEW t \in Side, FlowSide(t)
  PROVE /\ Len(given[t]) \in Nat /\ Len(box[t]) \in Nat /\ cur[t] \in Nat
        /\ Len(box[t]) <= Len(given[t]) /\ cur[t] <= Len(given[t]) - Len(box[t])
        /\ cur[t] \in 0..Len(given[t])
        /\ Len(out[Other(t)]) \in Nat
  <1>1. Len(given[t]) \in Nat /\ Len(box[t]) \in Nat /\ Len(out[Other(t)]) \in Nat
    BY LenProperties DEF FlowSide
  <1>2. cur[t] \in 0..Len(given[t]) - Len(box[t])
    BY DEF FlowSide
  <1>3. \A n, k \in Nat : \A c \in 0..n - k :
          c \in Nat /\ k <= n /\ c <= n - k /\ c \in 0..n
    OBVIOUS
  <1>4. QED
    BY <1>1, <1>2, <1>3, Zenon

(* The listener is given data. *)
LEMMA PostKeepsFlow ==
  ASSUME NEW t \in Side, FlowSide(t), UNCHANGED <<kind, lists, m_uid>>,
         NEW data \in Seq(Heard(t)),
         given'[t] = given[t] \o data,
         box'[t] = box[t] \o [i \in DOMAIN data |-> Len(given[t]) + i],
         cur'[t] = cur[t], pipe'[t] = pipe[t], out'[Other(t)] = out[Other(t)]
  PROVE FlowSide(t)'
  <1> DEFINE g == given[t]
  <1> DEFINE b == box[t]
  <1> DEFINE p == [i \in DOMAIN data |-> Len(given[t]) + i]
  <1>1. /\ Heard(t)' = Heard(t)
        /\ g \in Seq(Heard(t)) /\ b \in Seq(Nat)
        /\ \A i \in 1..Len(b) : b[i] = Len(g) - Len(b) + i
    BY SetsStay DEF FlowSide
  <1>2. /\ Len(g) \in Nat /\ Len(b) \in Nat /\ cur[t] \in Nat
        /\ Len(b) <= Len(g) /\ cur[t] <= Len(g) - Len(b)
    BY FlowLens
  <1>3. Len(data) \in Nat /\ DOMAIN data = 1..Len(data)
    BY LenProperties
  <1>4. p \in Seq(Nat) /\ Len(p) = Len(data) /\ \A i \in 1..Len(data) : p[i] = Len(g) + i
    <2>1. p = [i \in 1..Len(data) |-> Len(g) + i]
      BY <1>3
    <2>2. \A i \in 1..Len(data) : Len(g) + i \in Nat
      BY <1>2, <1>3
    <2> HIDE DEF p
    <2>3. p \in [1..Len(data) -> Nat]
      BY <2>1, <2>2
    <2>4. p \in Seq(Nat)
      <3>1. Seq(Nat) = UNION {[1..n -> Nat] : n \in Nat}
        BY SeqDef
      <3>2. QED
        BY <1>3, <2>3, <3>1
    <2>5. Len(p) = Len(data)
      BY <1>3, <2>3, <2>4, LenProperties
    <2>6. QED
      BY <2>1, <2>4, <2>5
  <1> HIDE DEF p
  <1> DEFINE h == g \o data
  <1> DEFINE c == b \o p
  <1>5. /\ h \in Seq(Heard(t)) /\ Len(h) = Len(g) + Len(data)
        /\ \A i \in 1..Len(g) : h[i] = g[i]
    <2>1. /\ h \in Seq(Heard(t)) /\ Len(h) = Len(g) + Len(data)
          /\ \A i \in 1..Len(g) + Len(data) :
               h[i] = IF i <= Len(g) THEN g[i] ELSE data[i - Len(g)]
      BY <1>1, ConcatProperties
    <2> HIDE DEF h, g
    <2>2. QED
      BY <1>2, <1>3, <2>1
  <1>6. /\ c \in Seq(Nat) /\ Len(c) = Len(b) + Len(data)
        /\ \A i \in 1..Len(c) : c[i] = Len(h) - Len(c) + i
    <2>1. /\ c \in Seq(Nat) /\ Len(c) = Len(b) + Len(p)
          /\ \A i \in 1..Len(b) + Len(p) :
               c[i] = IF i <= Len(b) THEN b[i] ELSE p[i - Len(b)]
      <3>1. b \in Seq(Nat) /\ p \in Seq(Nat)
        BY <1>1, <1>4
      <3>2. QED
        BY <3>1, ConcatProperties, Zenon
    <2> HIDE DEF c, b, g, h
    <2>2. ASSUME NEW i \in 1..Len(c) PROVE c[i] = Len(h) - Len(c) + i
      <3> DEFINE k == Len(b)
      <3> DEFINE m == Len(data)
      <3> DEFINE n == Len(g)
      <3>a. /\ k \in Nat /\ m \in Nat /\ n \in Nat /\ Len(c) = k + m /\ Len(h) = n + m
            /\ i \in 1..k + m /\ Len(p) = m
            /\ c[i] = IF i <= k THEN b[i] ELSE p[i - k]
        BY <1>2, <1>3, <1>4, <1>5, <2>1
      <3>b. /\ \A j \in 1..k : b[j] = n - k + j
            /\ \A j \in 1..m : p[j] = n + j
        BY <1>1, <1>4
      <3> HIDE DEF k, m, n
      <3>1. CASE i <= k
        <4>1. i \in 1..k /\ c[i] = b[i]
          BY <3>a, <3>1
        <4>2. c[i] = n - k + i
          BY <3>b, <4>1
        <4>3. QED
          BY <3>a, <4>2
      <3>2. CASE ~(i <= k)
        <4>1. i - k \in 1..m /\ c[i] = p[i - k]
          BY <3>a, <3>2
        <4>2. c[i] = n + (i - k)
          BY <3>b, <4>1
        <4>3. QED
          BY <3>a, <4>2
      <3>3. QED
        BY <3>1, <3>2
    <2>3. QED
      BY <1>4, <2>1, <2>2
  <1>7. given'[t] = h /\ box'[t] = c
    BY DEF p
  <1>8. cur[t] \in 0..Len(h) - Len(c)
    <2> HIDE DEF h, c, g, b
    <2>1. QED
      BY <1>2, <1>3, <1>5, <1>6
  <1>9. \A j \in 1..cur[t] : h[j] = given[t][j]
    <2> HIDE DEF h, b
    <2>1. QED
      BY <1>2, <1>5
  <1> HIDE DEF h, c
  <1>10. pipe[t] \in {"send", "write", "echo"} => Chosen(t, h[cur[t]])
    <2>1. cur[t] # 0 => cur[t] \in 1..cur[t]
      BY <1>2
    <2>2. QED
      BY <1>9, <2>1 DEF FlowSide
  <1>11. \A i \in 1..Len(out[Other(t)]) :
           /\ out[Other(t)][i] \in 1..cur[t]
           /\ h[out[Other(t)][i]].type = "rx"
           /\ pipe[t] \in {"dispatch", "send", "write"} => out[Other(t)][i] < cur[t]
    BY <1>9 DEF FlowSide
  <1>12. QED
    BY <1>1, <1>5, <1>6, <1>7, <1>8, <1>10, <1>11 DEF FlowSide, Chosen

(* The thread goes to a place where it has nothing in hand. *)
LEMMA IdleKeepsFlow ==
  ASSUME NEW s \in Side, FlowSide(s), UNCHANGED <<kind, lists, m_uid>>,
         given'[s] = given[s], box'[s] = box[s], cur'[s] = cur[s],
         out'[Other(s)] = out[Other(s)],
         pipe'[s] \in {"none", "loop", "wait", "cancelled", "ended"}
  PROVE FlowSide(s)'
  <1>1. Heard(s)' = Heard(s)
    BY SetsStay
  <1>2. QED
    BY <1>1 DEF FlowSide

(* The mailbox is emptied, and a thread that waits may be cancelled. *)
LEMMA ClearKeepsFlow ==
  ASSUME NEW s \in Side, FlowSide(s), UNCHANGED <<kind, lists, m_uid>>,
         given'[s] = given[s], box'[s] = <<>>, cur'[s] = cur[s],
         out'[Other(s)] = out[Other(s)],
         pipe'[s] = pipe[s] \/ pipe'[s] = "cancelled"
  PROVE FlowSide(s)'
  <1>1. Heard(s)' = Heard(s) /\ <<>> \in Seq(Nat) /\ Len(<<>>) = 0
    BY SetsStay, EmptySeq
  <1>2. cur[s] \in 0..Len(given[s]) - 0
    <2>1. cur[s] \in 0..Len(given[s]) /\ Len(given[s]) \in Nat
      BY FlowLens
    <2>2. \A n \in Nat : n - 0 = n
      OBVIOUS
    <2>3. QED
      BY <2>1, <2>2
  <1>3. \A i \in 1..0 : FALSE
    OBVIOUS
  <1>4. QED
    BY <1>1, <1>2, <1>3 DEF FlowSide, Chosen

LEMMA TakeKeepsFlow ==
  ASSUME NEW s \in Side, FlowSide(s), UNCHANGED <<kind, lists, m_uid>>,
         box[s] # <<>>, box'[s] = Tail(box[s]), cur'[s] = Head(box[s]),
         pipe'[s] = "dispatch", given'[s] = given[s], out'[Other(s)] = out[Other(s)]
  PROVE FlowSide(s)'
  <1> DEFINE b == box[s]
  <1> DEFINE c == Tail(b)
  <1> DEFINE n == Len(given[s])
  <1>1. /\ n \in Nat /\ Len(b) \in Nat /\ cur[s] \in Nat
        /\ Len(b) <= n /\ cur[s] <= n - Len(b)
    BY FlowLens
  <1>2. /\ b \in Seq(Nat) /\ \A i \in 1..Len(b) : b[i] = n - Len(b) + i
    BY DEF FlowSide
  <1>3. /\ Len(b) # 0 /\ Head(b) = b[1]
        /\ c \in Seq(Nat) /\ Len(c) = Len(b) - 1
        /\ \A i \in 1..Len(c) : c[i] = b[i + 1]
    BY <1>2, EmptySeq, HeadTailProperties
  <1>4. Head(b) = n - Len(c) /\ Head(b) > cur[s]
    <2> HIDE DEF n, b, c
    <2>1. 1 \in 1..Len(b)
      BY <1>1, <1>3
    <2>2. Head(b) = n - Len(b) + 1
      BY <1>2, <1>3, <2>1
    <2>3. QED
      BY <1>1, <1>3, <2>2
  <1>5. \A i \in 1..Len(c) : c[i] = n - Len(c) + i
    <2> HIDE DEF n, b, c
    <2>1. ASSUME NEW i \in 1..Len(c) PROVE c[i] = n - Len(c) + i
      <3>1. i + 1 \in 1..Len(b)
        BY <1>1, <1>3
      <3>2. c[i] = n - Len(b) + (i + 1)
        BY <1>2, <1>3, <3>1
      <3>3. QED
        BY <1>1, <1>3, <3>2
    <2>2. QED
      BY <2>1
  <1>6. Head(b) \in 0..n - Len(c) /\ Head(b) # 0
    <2> HIDE DEF n
    <2>1. QED
      BY <1>1, <1>3, <1>4
  <1>7. \A x \in 1..cur[s] : x \in 1..Head(b) /\ x < Head(b)
    <2> HIDE DEF n
    <2>1. QED
      BY <1>1, <1>3, <1>4
  <1>8. Heard(s)' = Heard(s) /\ c \in Seq(Nat)
    BY <1>3, SetsStay
  <1>9. \A i \in 1..Len(out[Other(s)]) :
          /\ out[Other(s)][i] \in 1..Head(b)
          /\ given[s][out[Other(s)][i]].type = "rx"
          /\ out[Other(s)][i] < Head(b)
    BY <1>7 DEF FlowSide
  <1> HIDE DEF c
  <1>10. given[s] \in Seq(Heard(s)) /\ out[Other(s)] \in Seq(Nat)
    BY DEF FlowSide
  <1>11. box'[s] = c /\ cur'[s] = Head(b)
    BY DEF c
  <1> HIDE DEF b
  <1>12. QED
    BY <1>5, <1>6, <1>8, <1>9, <1>10, <1>11 DEF FlowSide

(* From dispatching to sending, and from sending to writing. *)
LEMMA SendKeepsFlow ==
  ASSUME NEW s \in Side, FlowSide(s), UNCHANGED <<kind, lists, m_uid>>,
         given'[s] = given[s], box'[s] = box[s], cur'[s] = cur[s],
         out'[Other(s)] = out[Other(s)],
         pipe[s] \in {"dispatch", "send"}, Chosen(s, given[s][cur[s]]),
         pipe'[s] \in {"send", "write"}
  PROVE FlowSide(s)'
  <1>1. Heard(s)' = Heard(s)
    BY SetsStay
  <1>2. QED
    BY <1>1 DEF FlowSide, Chosen

LEMMA SentKeepsFlow ==
  ASSUME NEW s \in Side, FlowSide(s), UNCHANGED <<kind, lists, m_uid>>,
         given'[s] = given[s], box'[s] = box[s], cur'[s] = cur[s],
         out'[Other(s)] = Append(out[Other(s)], cur[s]),
         pipe[s] \in {"send", "write"}, pipe'[s] = "echo"
  PROVE FlowSide(s)'
  <1> DEFINE o == out[Other(s)]
  <1> DEFINE q == Append(o, cur[s])
  <1>1. /\ Heard(s)' = Heard(s)
        /\ cur[s] \in Nat /\ cur[s] # 0 /\ o \in Seq(Nat) /\ Len(o) \in Nat
        /\ Chosen(s, given[s][cur[s]])
    BY SetsStay, FlowLens DEF FlowSide
  <1>2. /\ q \in Seq(Nat) /\ Len(q) = Len(o) + 1
        /\ \A i \in 1..Len(o) : q[i] = o[i]
        /\ q[Len(o) + 1] = cur[s]
    BY <1>1, AppendProperties
  <1> HIDE DEF q
  <1>3. \A i \in 1..Len(o) : o[i] \in 1..cur[s] /\ given[s][o[i]].type = "rx"
    BY DEF FlowSide
  <1>4. cur[s] \in 1..cur[s] /\ given[s][cur[s]].type = "rx"
    BY <1>1 DEF Chosen
  <1>5. \A i \in 1..Len(q) : q[i] \in 1..cur[s] /\ given[s][q[i]].type = "rx"
    <2> HIDE DEF o
    <2>1. \A i \in 1..Len(q) : i \in 1..Len(o) \/ i = Len(o) + 1
      BY <1>1, <1>2
    <2>2. QED
      BY <1>2, <1>3, <1>4, <2>1
  <1>6. out'[Other(s)] = q
    BY DEF q
  <1>7. QED
    BY <1>1, <1>2, <1>5, <1>6 DEF FlowSide, Chosen

-----------------------------------------------------------------------------
(* What a step does to both pipelines: the listeners are given more, and   *)
(* nothing but echoes and TX_OVR after a stop; a pipeline that sends or    *)
(* writes may send what it has in hand.                                    *)
Quiet(d) == d.type = "tx" \/ d = X!Event("TX_OVR")

Grows(t) ==
  \E data \in Seq(Heard(t)) :
    /\ given'[t] = given[t] \o data
    /\ silent[t] # -1 => \A i \in 1..Len(data) : Quiet(data[i])

OutStep ==
  UNCHANGED out \/ \E s \in Side : pipe[s] \in {"send", "write"} /\ Sends(s)

FlowStep == FlowInv' /\ (\A t \in Side : Grows(t)) /\ OutStep

LEMMA GivenStays ==
  ASSUME IInv, NEW t \in Side, given'[t] = given[t]
  PROVE Grows(t)
  <1>1. given[t] \in Seq(Heard(t))
    BY DEF IInv, FlowInv, FlowSide
  <1>2. <<>> \in Seq(Heard(t)) /\ Len(<<>>) = 0 /\ given[t] \o <<>> = given[t]
    BY <1>1, EmptySeq, ConcatEmptySeq
  <1>3. \A i \in 1..0 : FALSE
    OBVIOUS
  <1>4. QED
    BY <1>2, <1>3 DEF Grows

LEMMA FlowUntouched ==
  ASSUME IInv, UNCHANGED <<kind, lists, m_uid>>,
         UNCHANGED given, UNCHANGED pipes, UNCHANGED out
  PROVE FlowStep
  <1>1. UNCHANGED <<given, box, pipe, cur, out>> /\ FlowInv
    BY DEF pipes, IInv
  <1>2. \A t \in Side : FlowSide(t)'
    BY <1>1, FlowSideStays DEF FlowInv
  <1>3. \A t \in Side : Grows(t)
    BY GivenStays
  <1>4. FlowInv'
    BY <1>1, <1>2 DEF FlowInv, PerSide
  <1>5. QED
    BY <1>3, <1>4 DEF FlowStep, OutStep

(* The listener of controller t is given data. *)
LEMMA PostsIsStep ==
  ASSUME IInv, UNCHANGED <<kind, lists, m_uid>>, NEW t \in Side,
         NEW data \in Seq(Heard(t)), Posts(t, data),
         silent[t] # -1 => \A i \in 1..Len(data) : Quiet(data[i])
  PROVE /\ PerSide(given)' /\ PerSide(box)'
        /\ \A s \in Side : Grows(s)
        /\ \A s \in Side : s # t => given'[s] = given[s] /\ box'[s] = box[s]
        /\ cur'[t] = cur[t] /\ pipe'[t] = pipe[t] /\ out'[Other(t)] = out[Other(t)] =>
             FlowSide(t)'
  <1>1. FlowInv /\ FlowSide(t)
    BY DEF IInv, FlowInv
  <1> DEFINE p == [i \in DOMAIN data |-> Len(given[t]) + i]
  <1>2. /\ given' = [given EXCEPT ![t] = given[t] \o data]
        /\ box' = [box EXCEPT ![t] = box[t] \o p]
    BY DEF Posts
  <1>3. /\ PerSide(given)' /\ given'[t] = given[t] \o data
        /\ \A s \in Side : s # t => given'[s] = given[s]
    BY <1>1, <1>2, SetSide DEF FlowInv, PerSide
  <1>4. /\ PerSide(box)' /\ box'[t] = box[t] \o p
        /\ \A s \in Side : s # t => box'[s] = box[s]
    BY <1>1, <1>2, SetSide DEF FlowInv, PerSide
  <1>5. Grows(t)
    BY <1>3 DEF Grows
  <1>6. \A s \in Side : Grows(s)
    BY <1>3, <1>5, GivenStays
  <1>7. ASSUME cur'[t] = cur[t], pipe'[t] = pipe[t], out'[Other(t)] = out[Other(t)]
        PROVE FlowSide(t)'
    BY <1>1, <1>3, <1>4, <1>7, PostKeepsFlow
  <1>8. QED
    BY <1>3, <1>4, <1>6, <1>7

LEMMA OnlyPosts ==
  ASSUME IInv, UNCHANGED <<kind, lists, m_uid>>, NEW t \in Side,
         NEW data \in Seq(Heard(t)), Posts(t, data),
         silent[t] # -1 => \A i \in 1..Len(data) : Quiet(data[i]),
         UNCHANGED <<cur, pipe, out>>
  PROVE FlowStep
  <1>1. /\ PerSide(given)' /\ PerSide(box)'
        /\ \A s \in Side : Grows(s)
        /\ \A s \in Side : s # t => given'[s] = given[s] /\ box'[s] = box[s]
        /\ FlowSide(t)'
    BY PostsIsStep
  <1>2. \A s \in Side : s # t => FlowSide(s)'
    BY <1>1, FlowSideStays DEF IInv, FlowInv
  <1>3. FlowInv'
    BY <1>1, <1>2 DEF IInv, FlowInv, PerSide
  <1>4. QED
    BY <1>1, <1>3 DEF FlowStep, OutStep

(* Pipeline s moves and its controller gives nothing; the mailbox of the   *)
(* other side is left alone.                                               *)
LEMMA OnlyMoves ==
  ASSUME IInv, UNCHANGED <<kind, lists, m_uid>>, NEW s \in Side, UNCHANGED given,
         PerSide(box)', PerSide(cur)', PerSide(pipe)', PerSide(out)',
         \A t \in Side : t # s =>
           /\ box'[t] = box[t] /\ cur'[t] = cur[t] /\ pipe'[t] = pipe[t]
           /\ out'[Other(t)] = out[Other(t)],
         FlowSide(s)', OutStep
  PROVE FlowStep
  <1>1. \A t \in Side : t # s => FlowSide(t)'
    BY FlowSideStays DEF IInv, FlowInv
  <1>2. FlowInv'
    BY <1>1 DEF IInv, FlowInv, PerSide
  <1>3. QED
    BY <1>2, GivenStays DEF FlowStep

(* The thread of pipeline s goes to a place. *)
LEMMA PipeMoves ==
  ASSUME IInv, NEW s \in Side, NEW at, PipeGoto(s, at)
  PROVE /\ PerSide(pipe)' /\ pipe'[s] = at
        /\ \A t \in Side : t # s => pipe'[t] = pipe[t]
  BY SetSide DEF PipeGoto, IInv, FlowInv, PerSide

LEMMA OnlyPipeMoves ==
  ASSUME IInv, UNCHANGED <<kind, lists, m_uid>>, NEW s \in Side, NEW at,
         PipeGoto(s, at), UNCHANGED <<given, box, cur, out>>,
         \/ at \in {"none", "loop", "wait", "cancelled", "ended"}
         \/ /\ pipe[s] \in {"dispatch", "send"} /\ Chosen(s, given[s][cur[s]])
            /\ at \in {"send", "write"}
  PROVE FlowStep
  <1>1. /\ PerSide(pipe)' /\ pipe'[s] = at
        /\ \A t \in Side : t # s => pipe'[t] = pipe[t]
    BY PipeMoves
  <1>2. FlowSide(s)
    BY DEF IInv, FlowInv
  <1>3. FlowSide(s)'
    BY <1>1, <1>2, IdleKeepsFlow, SendKeepsFlow
  <1>4. OutStep
    BY DEF OutStep
  <1>5. PerSide(box)' /\ PerSide(cur)' /\ PerSide(out)'
    BY DEF IInv, FlowInv, PerSide
  <1>6. QED
    BY <1>1, <1>3, <1>4, <1>5, OnlyMoves

-----------------------------------------------------------------------------
(* The steps of main().                                                    *)
LEMMA MainFlows ==
  ASSUME IInv, UNCHANGED <<kind, lists, m_uid>>, Main \/ EnterKey
  PROVE FlowStep
  <1>1. CASE \E s \in Side : InitAdapter(s) \/ Configure(s) \/ StartController(s)
                             \/ StartHandle(s) \/ StopController(s)
                             \/ StopControllerJoin(s) \/ DeleteController(s)
    BY <1>1, FlowUntouched DEF InitAdapter, Configure, StartController, StartHandle,
         StopController, StopControllerJoin, DeleteController, history
  <1>2. CASE Return \/ EnterKey
    BY <1>2, FlowUntouched DEF Return, EnterKey, history
  <1>3. ASSUME NEW s \in Side, CreateThread(s) \/ JoinThread(s) PROVE FlowStep
    <2>1. /\ UNCHANGED <<given, box, cur, out>>
          /\ PipeGoto(s, "loop") \/ PipeGoto(s, "none")
      BY <1>3 DEF CreateThread, JoinThread, history
    <2>2. QED
      BY <2>1, OnlyPipeMoves
  <1>4. ASSUME NEW s \in Side, PipelineStart(s) \/ CancelWaiters(s) PROVE FlowStep
    <2>1. /\ UNCHANGED <<given, cur, out>> /\ box' = [box EXCEPT ![s] = <<>>]
          /\ \/ pipe' = pipe
             \/ pipe' = [pipe EXCEPT ![s] = "cancelled"]
      BY <1>4 DEF PipelineStart, CancelWaiters, history
    <2>2. FlowInv
      BY DEF IInv
    <2>3. /\ PerSide(box)' /\ box'[s] = <<>>
          /\ \A t \in Side : t # s => box'[t] = box[t]
      BY <2>1, <2>2, SetSide DEF FlowInv, PerSide
    <2>4. /\ PerSide(pipe)' /\ pipe'[s] \in {pipe[s], "cancelled"}
          /\ \A t \in Side : t # s => pipe'[t] = pipe[t]
      BY <2>1, <2>2, SetSide DEF FlowInv, PerSide
    <2>5. FlowSide(s)'
      BY <2>1, <2>2, <2>3, <2>4, ClearKeepsFlow DEF FlowInv
    <2>6. PerSide(cur)' /\ PerSide(out)' /\ OutStep
      BY <2>1, <2>2 DEF FlowInv, PerSide, OutStep
    <2>7. QED
      BY <2>1, <2>3, <2>4, <2>5, <2>6, OnlyMoves
  <1>5. QED
    BY <1>1, <1>2, <1>3, <1>4 DEF Main

-----------------------------------------------------------------------------
(* The steps of the reception threads and of the buses.                    *)
LEMMA SingleIsSeq ==
  ASSUME NEW S, NEW x \in S
  PROVE <<x>> \in Seq(S) /\ Len(<<x>>) = 1 /\ <<x>>[1] = x
  OBVIOUS

LEMMA EventsAreHeard ==
  ASSUME NEW s \in Side,
         NEW e \in {"ERROR", "NO_ACK", "CONTROLLER_ERROR", "TX_OVR"}
  PROVE X!Event(e) \in Heard(s)
  BY DEF X!Event, Heard, Datum

LEMMA NotifiedIsHeard ==
  ASSUME NEW s \in Side, NEW m \in Coming(s)
  PROVE X!Notified(s, m) \in Seq(Heard(s))
  <1>1. CASE m \in [type : {"rx"}, msg : MessageFrom(s)]
    <2>1. m.type = "rx" /\ m \in Heard(s)
      BY <1>1 DEF MessageFrom, Heard, Datum
    <2>2. <<m>> \in Seq(Heard(s)) /\ <<>> \in Seq(Heard(s))
      BY <2>1, SingleIsSeq, EmptySeq
    <2>3. QED
      BY <2>1, <2>2 DEF X!Notified
  <1>2. CASE m \in [type : {"info"}, info : {"START", "STOP"}]
    <2>1. m.type = "info"
      BY <1>2
    <2>2. QED
      BY <2>1, EmptySeq DEF X!Notified
  <1>3. CASE m \in [type : {"error"}, error : {"ACK", "STUFF"}]
    <2>1. m.type = "error"
      BY <1>3
    <2>2. \A e \in {"NO_ACK", "ERROR"} : <<X!Event(e)>> \in Seq(Heard(s))
      BY EventsAreHeard, SingleIsSeq
    <2>3. QED
      BY <2>1, <2>2 DEF X!Notified
  <1>4. QED
    BY <1>1, <1>2, <1>3 DEF Coming

LEMMA RxFlows ==
  ASSUME IInv, UNCHANGED <<kind, lists, m_uid>>, NEW s \in Side,
         UdpRx(s) \/ IxxatRx(s) \/ IxxatFails(s) \/ Arrive(s)
  PROVE FlowStep
  <1>1. UdpSide(s) /\ IxxatSide(s) /\ QuietSide(s)
    BY DEF IInv, UdpInv, IxxatInv, QuietInv
  <1>2. CASE IxxatFails(s) \/ Arrive(s)
    BY <1>2, FlowUntouched DEF IxxatFails, Arrive, history
  <1>3. CASE UdpRx(s)
    <2>1. UNCHANGED <<cur, pipe, out>>
      BY <1>3 DEF UdpRx
    <2>2. CASE UNCHANGED <<box, given>>
      BY <2>1, <2>2, FlowUntouched DEF pipes
    <2>3. CASE U!RxNotify(s) /\ Posts(s, hand[s])
      <3>1. m_rx_thread[s] = "notify"
        BY <2>3 DEF U!RxNotify
      <3>2. silent[s] = -1 /\ hand[s] \in Seq(Heard(s))
        BY <1>1, <3>1 DEF QuietSide, UdpSide
      <3>3. QED
        BY <2>1, <2>3, <3>2, OnlyPosts
    <2>4. QED
      BY <1>3, <2>2, <2>3 DEF UdpRx
  <1>4. CASE IxxatRx(s)
    <2>1. UNCHANGED <<cur, pipe, out>>
      BY <1>4 DEF IxxatRx
    <2>2. CASE UNCHANGED <<box, given>>
      BY <2>1, <2>2, FlowUntouched DEF pipes
    <2>3. CASE X!RxPeek(s) /\ Posts(s, X!Notified(s, Head(channel[s])))
      <3>1. thread[s] \in {"running", "draining"} /\ channel[s] # <<>>
        BY <2>3 DEF X!RxPeek
      <3>2. silent[s] = -1 /\ channel[s] \in Seq(Coming(s))
        BY <1>1, <3>1 DEF QuietSide, IxxatSide
      <3>3. Head(channel[s]) \in Coming(s)
        BY <3>1, <3>2, HeadTailProperties
      <3>4. X!Notified(s, Head(channel[s])) \in Seq(Heard(s))
        BY <3>3, NotifiedIsHeard
      <3>5. QED
        BY <2>1, <2>3, <3>2, <3>4, OnlyPosts
    <2>4. CASE X!RxLastEvent(s) /\ Post(s, X!Event("CONTROLLER_ERROR"))
      <3>1. thread[s] = "failed"
        BY <2>4 DEF X!RxLastEvent
      <3>2. silent[s] = -1
        BY <1>1, <3>1 DEF QuietSide
      <3>3. <<X!Event("CONTROLLER_ERROR")>> \in Seq(Heard(s))
        BY EventsAreHeard, SingleIsSeq
      <3>4. QED
        BY <2>1, <2>4, <3>2, <3>3, OnlyPosts DEF Post
    <2>5. QED
      BY <1>4, <2>2, <2>3, <2>4 DEF IxxatRx
  <1>5. QED
    BY <1>2, <1>3, <1>4

-----------------------------------------------------------------------------
(* The steps of the pipelines' threads.                                    *)
LEMMA TakeFlows ==
  ASSUME IInv, UNCHANGED <<kind, lists, m_uid>>, NEW s \in Side, Take(s)
  PROVE FlowStep
  <1>1. /\ UNCHANGED <<given, out>> /\ box[s] # <<>>
        /\ cur' = [cur EXCEPT ![s] = Head(box[s])]
        /\ box' = [box EXCEPT ![s] = Tail(box[s])]
        /\ PipeGoto(s, "dispatch")
    BY DEF Take, history
  <1>2. FlowInv
    BY DEF IInv
  <1>3. /\ PerSide(cur)' /\ cur'[s] = Head(box[s])
        /\ \A t \in Side : t # s => cur'[t] = cur[t]
    BY <1>1, <1>2, SetSide DEF FlowInv, PerSide
  <1>4. /\ PerSide(box)' /\ box'[s] = Tail(box[s])
        /\ \A t \in Side : t # s => box'[t] = box[t]
    BY <1>1, <1>2, SetSide DEF FlowInv, PerSide
  <1>5. /\ PerSide(pipe)' /\ pipe'[s] = "dispatch"
        /\ \A t \in Side : t # s => pipe'[t] = pipe[t]
    BY <1>1, PipeMoves
  <1>6. FlowSide(s)'
    BY <1>1, <1>2, <1>3, <1>4, <1>5, TakeKeepsFlow DEF FlowInv
  <1>7. PerSide(out)' /\ OutStep
    BY <1>1, <1>2 DEF FlowInv, PerSide, OutStep
  <1>8. QED
    BY <1>1, <1>3, <1>4, <1>5, <1>6, <1>7, OnlyMoves

(* Pipeline s has sent what it has in hand. *)
LEMMA SendsIsStep ==
  ASSUME IInv, NEW s \in Side, Sends(s)
  PROVE /\ PerSide(out)'
        /\ out'[Other(s)] = Append(out[Other(s)], cur[s])
        /\ out'[s] = out[s]
        /\ \A t \in Side : t # s => out'[Other(t)] = out[Other(t)]
  <1>1. out' = [out EXCEPT ![Other(s)] = Append(out[Other(s)], cur[s])]
    BY DEF Sends
  <1>2. Other(s) \in Side /\ Other(s) # s /\ \A t \in Side : t # s => Other(t) = s
    BY TwoSides
  <1>3. PerSide(out)
    BY DEF IInv, FlowInv
  <1>4. /\ PerSide([out EXCEPT ![Other(s)] = Append(out[Other(s)], cur[s])])
        /\ out'[Other(s)] = Append(out[Other(s)], cur[s])
        /\ \A t \in Side : t # Other(s) => out'[t] = out[t]
    <2> DEFINE o == Other(s)
    <2> DEFINE x == Append(out[o], cur[s])
    <2>1. o \in Side
      BY <1>2
    <2> HIDE DEF o, x
    <2>2. /\ PerSide([out EXCEPT ![o] = x])
          /\ [out EXCEPT ![o] = x][o] = x
          /\ \A t \in Side : t # o => [out EXCEPT ![o] = x][t] = out[t]
      BY <1>3, <2>1, SetSide
    <2>3. out' = [out EXCEPT ![o] = x]
      BY <1>1 DEF o, x
    <2>4. QED
      BY <2>2, <2>3 DEF o, x
  <1>5. PerSide(out)'
    BY <1>1, <1>4 DEF PerSide
  <1>6. QED
    BY <1>2, <1>4, <1>5

LEMMA OnlySends ==
  ASSUME IInv, UNCHANGED <<kind, lists, m_uid>>, NEW s \in Side,
         pipe[s] \in {"send", "write"}, Sends(s), PipeGoto(s, "echo"),
         UNCHANGED <<given, box, cur>>
  PROVE FlowStep
  <1>1. /\ PerSide(out)'
        /\ out'[Other(s)] = Append(out[Other(s)], cur[s])
        /\ \A t \in Side : t # s => out'[Other(t)] = out[Other(t)]
    BY SendsIsStep
  <1>2. /\ PerSide(pipe)' /\ pipe'[s] = "echo"
        /\ \A t \in Side : t # s => pipe'[t] = pipe[t]
    BY PipeMoves
  <1>3. FlowSide(s)
    BY DEF IInv, FlowInv
  <1>4. FlowSide(s)'
    BY <1>1, <1>2, <1>3, SentKeepsFlow
  <1>5. OutStep
    BY DEF OutStep
  <1>6. PerSide(box)' /\ PerSide(cur)'
    BY DEF IInv, FlowInv, PerSide
  <1>7. QED
    BY <1>1, <1>2, <1>4, <1>5, <1>6, OnlyMoves

(* The other listener is given what a controller that sends gives it. *)
LEMMA PostsOther ==
  ASSUME IInv, UNCHANGED <<kind, lists, m_uid>>, NEW s \in Side, NEW at,
         NEW x \in Heard(Other(s)), Post(Other(s), x),
         silent[Other(s)] # -1 => Quiet(x),
         PipeGoto(s, at), UNCHANGED cur,
         \/ UNCHANGED out /\ at = "loop"
         \/ pipe[s] = "send" /\ Sends(s) /\ at = "echo"
  PROVE FlowStep
  <1> DEFINE t == Other(s)
  <1>1. t \in Side /\ t # s /\ Other(t) = s /\ \A r \in Side : r # s => r = t
    BY TwoSides
  <1>2. /\ PerSide(pipe)' /\ pipe'[s] = at
        /\ \A r \in Side : r # s => pipe'[r] = pipe[r]
    BY PipeMoves
  <1>3. <<x>> \in Seq(Heard(t)) /\ Len(<<x>>) = 1 /\ <<x>>[1] = x
    BY SingleIsSeq
  <1>4. silent[t] # -1 => \A i \in 1..Len(<<x>>) : Quiet(<<x>>[i])
    <2>1. \A i \in 1..1 : i = 1
      OBVIOUS
    <2>2. QED
      BY <1>3, <2>1
  <1>5. Posts(t, <<x>>)
    BY DEF Post
  <1>6. /\ PerSide(given)' /\ PerSide(box)'
        /\ \A r \in Side : Grows(r)
        /\ \A r \in Side : r # t => given'[r] = given[r] /\ box'[r] = box[r]
        /\ cur'[t] = cur[t] /\ pipe'[t] = pipe[t] /\ out'[Other(t)] = out[Other(t)] =>
             FlowSide(t)'
    BY <1>1, <1>3, <1>4, <1>5, PostsIsStep
  <1> HIDE DEF t
  <1>7. /\ PerSide(out)' /\ OutStep /\ out'[s] = out[s]
        /\ \/ out'[Other(s)] = out[Other(s)]
           \/ /\ pipe[s] = "send" /\ at = "echo"
              /\ out'[Other(s)] = Append(out[Other(s)], cur[s])
    <2>1. CASE UNCHANGED out
      BY <2>1 DEF IInv, FlowInv, PerSide, OutStep
    <2>2. CASE pipe[s] = "send" /\ Sends(s) /\ at = "echo"
      BY <2>2, SendsIsStep DEF OutStep
    <2>3. QED
      BY <2>1, <2>2
  <1>8. FlowSide(t)'
    BY <1>1, <1>2, <1>6, <1>7
  <1>9. FlowSide(s)'
    <2>1. FlowSide(s) /\ given'[s] = given[s] /\ box'[s] = box[s] /\ cur'[s] = cur[s]
      BY <1>1, <1>6 DEF IInv, FlowInv
    <2>2. CASE UNCHANGED out /\ at = "loop"
      BY <1>2, <2>1, <2>2, IdleKeepsFlow
    <2>3. CASE pipe[s] = "send" /\ Sends(s) /\ at = "echo"
      <3>1. out'[Other(s)] = Append(out[Other(s)], cur[s])
        BY <2>3, SendsIsStep
      <3>2. QED
        BY <1>2, <2>1, <2>3, <3>1, SentKeepsFlow
    <2>4. QED
      BY <2>2, <2>3
  <1>10. PerSide(cur)'
    BY DEF IInv, FlowInv, PerSide
  <1>11. \A r \in Side : FlowSide(r)'
    BY <1>1, <1>8, <1>9
  <1>12. QED
    BY <1>2, <1>6, <1>7, <1>10, <1>11 DEF FlowStep, FlowInv

LEMMA SendFlows ==
  ASSUME IInv, UNCHANGED <<kind, lists, m_uid>>, NEW s \in Side, Send(s)
  PROVE FlowStep
  <1> DEFINE t == Other(s)
  <1>1. t \in Side
    BY TwoSides
  <1>2. pipe[s] = "send" /\ UNCHANGED cur
    BY DEF Send
  <1>3. FlowSide(s) /\ Chosen(s, given[s][cur[s]]) /\ InHand(s) \in Message
    BY <1>2, HandIsMessage DEF IInv, FlowInv, FlowSide
  <1>4. CASE kind[t] = "udp" /\ U!MaySend(t) /\ PipeGoto(s, "write")
             /\ UNCHANGED <<adapters, given, box, out>>
    BY <1>2, <1>3, <1>4, OnlyPipeMoves
  <1>5. CASE kind[t] = "loopback" /\ L!Accepts(t, InHand(s)) /\ Post(t, L!Rx(InHand(s)))
             /\ Sends(s) /\ PipeGoto(s, "echo")
    <2>1. L!Rx(InHand(s)) \in Heard(t)
      BY <1>3, <1>5 DEF L!Rx, Heard, Datum, Loyal
    <2>2. silent[t] = -1
      <3>1. QuietSide(t)
        BY <1>1 DEF IInv, QuietInv
      <3>2. QED
        BY <1>5, <3>1 DEF QuietSide, L!Accepts
    <2>3. QED
      BY <1>2, <1>5, <2>1, <2>2, PostsOther
  <1>6. CASE kind[t] = "ixxat" /\ Sends(s) /\ PipeGoto(s, "echo")
             /\ UNCHANGED <<adapters, given, box>>
    BY <1>2, <1>6, OnlySends
  <1>7. CASE kind[t] = "ixxat" /\ Post(t, X!Event("TX_OVR")) /\ PipeGoto(s, "loop")
             /\ UNCHANGED <<adapters, out>>
    <2>1. X!Event("TX_OVR") \in Heard(t) /\ Quiet(X!Event("TX_OVR"))
      BY <1>1, EventsAreHeard DEF Quiet
    <2>2. QED
      BY <1>2, <1>7, <2>1, PostsOther
  <1>8. CASE PipeGoto(s, "loop") /\ UNCHANGED <<adapters, given, box, out>>
    BY <1>2, <1>8, OnlyPipeMoves
  <1>9. QED
    BY <1>4, <1>5, <1>6, <1>7, <1>8 DEF Send

LEMMA PipelineFlows ==
  ASSUME IInv, UNCHANGED <<kind, lists, m_uid>>, NEW s \in Side, Pipeline(s)
  PROVE FlowStep
  <1>1. CASE Wait(s)
    <2>1. UNCHANGED <<given, box, cur, out>> /\ PipeGoto(s, "wait")
      BY <1>1 DEF Wait, history
    <2>2. QED
      BY <2>1, OnlyPipeMoves
  <1>2. CASE Cancelled(s)
    <2>1. UNCHANGED <<given, box, cur, out>> /\ PipeGoto(s, "ended")
      BY <1>2 DEF Cancelled, history
    <2>2. QED
      BY <2>1, OnlyPipeMoves
  <1>3. CASE Dispatch(s)
    <2>1. UNCHANGED <<given, box, cur, out>> /\ pipe[s] = "dispatch"
      BY <1>3 DEF Dispatch, history
    <2>2. CASE Forwards(s, given[s][cur[s]])
      <3>1. PipeGoto(s, "send")
        BY <1>3, <2>2 DEF Dispatch
      <3>2. Chosen(s, given[s][cur[s]])
        BY <2>2, ForwardsChosen
      <3>3. QED
        BY <2>1, <3>1, <3>2, OnlyPipeMoves
    <2>3. CASE ~Forwards(s, given[s][cur[s]])
      <3>1. PipeGoto(s, "loop")
        BY <1>3, <2>3 DEF Dispatch
      <3>2. QED
        BY <2>1, <3>1, OnlyPipeMoves
    <2>4. QED
      BY <2>2, <2>3
  <1>4. CASE UdpWrite(s)
    <2>1. UNCHANGED <<given, box, cur>> /\ pipe[s] = "write"
      BY <1>4 DEF UdpWrite
    <2>2. CASE Sends(s) /\ PipeGoto(s, "echo")
      BY <2>1, <2>2, OnlySends
    <2>3. CASE PipeGoto(s, "loop") /\ UNCHANGED <<adapters, out>>
      BY <2>1, <2>3, OnlyPipeMoves
    <2>4. QED
      BY <1>4, <2>2, <2>3 DEF UdpWrite
  <1>5. CASE Echo(s)
    <2>1. /\ pipe[s] = "echo" /\ UNCHANGED <<cur, out>> /\ PipeGoto(s, "loop")
          /\ Post(Other(s), [type |-> "tx", msg |-> InHand(s)])
      BY <1>5 DEF Echo
    <2>2. InHand(s) \in Message
      BY <2>1, HandIsMessage
    <2>3. /\ [type |-> "tx", msg |-> InHand(s)] \in Heard(Other(s))
          /\ Quiet([type |-> "tx", msg |-> InHand(s)])
      BY <2>2 DEF Heard, Datum, Quiet
    <2>4. QED
      BY <2>1, <2>3, PostsOther
  <1>6. QED
    BY <1>1, <1>2, <1>3, <1>4, <1>5, TakeFlows, SendFlows DEF Pipeline

LEMMA FlowNext ==
  ASSUME IInv, Next, Settled
  PROVE FlowStep
  <1>1. UNCHANGED <<kind, lists, m_uid>>
    BY DEF Settled
  <1>2. QED
    BY <1>1, MainFlows, RxFlows, PipelineFlows DEF Next

-----------------------------------------------------------------------------
(* The end of the threads: once a controller has been stopped, no step     *)
(* starts it again.                                                        *)
LEMMA ThreadsStayQuiet ==
  ASSUME IInv, Settled, main[1] \in Stops, NEW t \in Side
  PROVE /\ m_rx_thread[t] = "none" => m_rx_thread'[t] = "none"
        /\ thread[t] \in {"none", "ended"} => thread'[t] \in {"none", "ended"}
  <1>1. main[1] # "start controller"
    BY DEF Stops
  <1>2. UdpInv /\ IxxatInv
    BY DEF IInv
  <1>3. ASSUME m_rx_thread[t] = "none" PROVE m_rx_thread'[t] = "none"
    <2>1. CASE UNCHANGED udp
      BY <1>3, <2>1 DEF udp
    <2>2. ASSUME NEW s \in Side, UdpMoves(s) PROVE m_rx_thread'[t] = "none"
      <3>1. CASE UNCHANGED m_rx_thread
        BY <1>3, <3>1
      <3>2. ASSUME NEW r, m_rx_thread' = [m_rx_thread EXCEPT ![s] = r],
                   m_rx_thread[s] # "none" \/ r = "none"
            PROVE m_rx_thread'[t] = "none"
        <4>1. /\ m_rx_thread'[s] = r
              /\ \A u \in Side : u # s => m_rx_thread'[u] = m_rx_thread[u]
          BY <1>2, <3>2, SetSide DEF UdpInv
        <4>2. QED
          BY <1>3, <3>2, <4>1
      <3>3. CASE U!StopJoin(s) \/ U!RxTimeout(s) \/ U!RxCheck(s) \/ U!RxNotify(s)
        BY <3>1, <3>2, <3>3 DEF U!StopJoin, U!RxTimeout, U!RxCheck, U!RxNotify
      <3>4. CASE U!RxRead(s)
        BY <3>1, <3>2, <3>4 DEF U!RxRead
      <3>5. CASE U!Open(s) \/ U!Close(s) \/ U!Flush(s) \/ U!StopRequest(s)
        BY <3>1, <3>5 DEF U!Open, U!Close, U!Flush, U!StopRequest
      <3>6. CASE \E d \in Arriving(s) : U!Arrives(s, d) /\ RxRestUnchanged
        BY <3>1, <3>6 DEF RxRestUnchanged
      <3>7. QED
        BY <1>1, <2>2, <3>3, <3>4, <3>5, <3>6 DEF UdpMoves
    <2>3. QED
      BY <2>1, <2>2 DEF Settled
  <1>4. ASSUME thread[t] \in {"none", "ended"} PROVE thread'[t] \in {"none", "ended"}
    <2>1. CASE UNCHANGED ixxat
      BY <1>4, <2>1 DEF ixxat
    <2>2. ASSUME NEW s \in Side, IxxatMoves(s) PROVE thread'[t] \in {"none", "ended"}
      <3>1. CASE UNCHANGED thread
        BY <1>4, <3>1
      <3>2. ASSUME NEW r, thread' = [thread EXCEPT ![s] = r],
                   thread[s] \in Busy
            PROVE thread'[t] \in {"none", "ended"}
        <4>1. \A u \in Side : u # s => thread'[u] = thread[u]
          BY <1>2, <3>2, SetSide DEF IxxatInv
        <4>2. t # s
          BY <1>4, <3>2 DEF Busy
        <4>3. QED
          BY <1>4, <4>1, <4>2
      <3>3. CASE X!RxEnd(s) \/ X!RxFails(s) \/ X!RxLastEvent(s)
        BY <3>2, <3>3 DEF X!RxEnd, X!RxFails, X!RxLastEvent, Busy
      <3>4. CASE X!RxPeek(s)
        BY <3>1, <3>2, <3>4 DEF X!RxPeek, Busy
      <3>5. CASE X!Open(s) \/ X!Close(s) \/ X!Configure(s, Configured)
                 \/ X!StartFails(s) \/ X!StopRequest(s) \/ X!StartHandle(s)
        BY <3>1, <3>5 DEF X!Open, X!Close, X!Configure, X!StartFails, X!StopRequest,
           X!StartHandle
      <3>6. CASE \E m \in Coming(s) : X!Bus(s, m)
        BY <3>1, <3>6 DEF X!Bus
      <3>7. QED
        BY <1>1, <2>2, <3>3, <3>4, <3>5, <3>6 DEF IxxatMoves
    <2>3. QED
      BY <2>1, <2>2 DEF Settled
  <1>5. QED
    BY <1>3, <1>4

Silenced(s) ==
  /\ m_rx_thread[s] = "none" /\ thread[s] \in {"none", "ended"}
  /\ kind[s] = "loopback" => ~started[s]

SilentStep ==
  \/ UNCHANGED silent
  \/ \E s \in Side :
       /\ silent' = [silent EXCEPT ![s] = Len(given[s])] /\ given' = given
       /\ Silenced(s)' /\ main'[1] = "clear"

StopsStep ==
  /\ PerSide(started)'
  /\ main[1] \in Stops =>
       main'[1] \in Stops /\ \A t \in Side : ~started[t] => ~started'[t]

LEMMA GotoIs ==
  ASSUME NEW at, NEW n, Goto(at, n)
  PROVE main' = <<at, n>> /\ main'[1] = at
  BY DEF Goto

LEMMA LoopbackStays ==
  ASSUME IInv, UNCHANGED loopback
  PROVE PerSide(started)' /\ \A t \in Side : ~started[t] => ~started'[t]
  BY DEF IInv, QuietInv, loopback, PerSide

LEMMA LoopbackStops ==
  ASSUME IInv, NEW s \in Side, started' = [started EXCEPT ![s] = FALSE]
  PROVE /\ PerSide(started)' /\ ~started'[s]
        /\ \A t \in Side : ~started[t] => ~started'[t]
  <1>1. /\ PerSide(started)' /\ started'[s] = FALSE
        /\ \A t \in Side : t # s => started'[t] = started[t]
    BY SetSide DEF IInv, QuietInv, PerSide
  <1>2. QED
    BY <1>1

LEMMA CloseStops ==
  ASSUME IInv, NEW s \in Side, CloseAdapter(s)
  PROVE PerSide(started)' /\ \A t \in Side : ~started[t] => ~started'[t]
  <1>1. CASE UNCHANGED loopback
    BY <1>1, LoopbackStays
  <1>2. CASE L!Close(s)
    BY <1>2, LoopbackStops DEF L!Close
  <1>3. QED
    BY <1>1, <1>2 DEF CloseAdapter, Udp, Ixxat, Loopback

LEMMA MainStops ==
  ASSUME IInv, Main \/ EnterKey
  PROVE StopsStep
  <1>1. ASSUME NEW s \in Side, InitAdapter(s) \/ Configure(s) \/ StartController(s)
        PROVE StopsStep
    <2>1. main[1] \notin Stops
      <3>1. CASE InitAdapter(s)
        BY <3>1 DEF InitAdapter, Stops
      <3>2. CASE Configure(s)
        BY <3>2 DEF Configure, Stops
      <3>3. CASE StartController(s)
        BY <3>3 DEF StartController, Stops
      <3>4. QED
        BY <1>1, <3>1, <3>2, <3>3
    <2>2. CASE UNCHANGED loopback
      BY <2>1, <2>2, LoopbackStays DEF StopsStep
    <2>3. CASE CloseAdapter(s)
      BY <2>1, <2>3, CloseStops DEF StopsStep
    <2>4. CASE L!Start(s) \/ L!Open(s) \/ L!Configure(s, Configured)
      <3>1. CASE L!Start(s)
        <4>1. PerSide(started)'
          BY <3>1, SetSide DEF L!Start, IInv, QuietInv, PerSide
        <4>2. QED
          BY <2>1, <4>1 DEF StopsStep
      <3>2. CASE L!Open(s) \/ L!Configure(s, Configured)
        BY <2>1, <3>2 DEF L!Open, L!Configure, StopsStep, IInv, QuietInv, PerSide
      <3>3. QED
        BY <2>4, <3>1, <3>2
    <2>5. QED
      BY <1>1, <2>2, <2>3, <2>4
         DEF InitAdapter, Configure, StartController, Udp, Ixxat, Loopback, adapters
  <1>2. ASSUME NEW s \in Side, PipelineStart(s) \/ StartHandle(s) \/ CreateThread(s)
        PROVE StopsStep
    <2>1. main[1] \notin Stops
      <3>1. CASE PipelineStart(s)
        BY <3>1 DEF PipelineStart, Stops
      <3>2. CASE StartHandle(s)
        BY <3>2 DEF StartHandle, Stops
      <3>3. CASE CreateThread(s)
        BY <3>3 DEF CreateThread, Stops
      <3>4. QED
        BY <1>2, <3>1, <3>2, <3>3
    <2>2. UNCHANGED loopback
      BY <1>2 DEF PipelineStart, StartHandle, CreateThread, adapters, Ixxat
    <2>3. QED
      BY <2>1, <2>2, LoopbackStays DEF StopsStep
  <1>3. ASSUME NEW s \in Side, StopController(s) PROVE StopsStep
    <2>1. main'[1] \in Stops
      BY <1>3, GotoIs DEF StopController, Stops
    <2>2. CASE UNCHANGED loopback
      BY <2>1, <2>2, LoopbackStays DEF StopsStep
    <2>3. CASE L!Stop(s)
      BY <2>1, <2>3, LoopbackStops DEF StopsStep, L!Stop
    <2>4. QED
      BY <1>3, <2>2, <2>3 DEF StopController, Udp, Ixxat, Loopback, adapters
  <1>4. ASSUME NEW s \in Side,
               StopControllerJoin(s) \/ CancelWaiters(s) \/ JoinThread(s)
        PROVE StopsStep
    <2>1. main'[1] \in Stops
      BY <1>4, GotoIs DEF StopControllerJoin, CancelWaiters, JoinThread, Stops
    <2>2. UNCHANGED loopback
      BY <1>4 DEF StopControllerJoin, CancelWaiters, JoinThread, adapters, Udp
    <2>3. QED
      BY <2>1, <2>2, LoopbackStays DEF StopsStep
  <1>5. ASSUME NEW s \in Side, DeleteController(s) PROVE StopsStep
    <2>1. main'[1] \in Stops /\ CloseAdapter(s)
      BY <1>5, GotoIs DEF DeleteController, Stops
    <2>2. QED
      BY <2>1, CloseStops DEF StopsStep
  <1>6. CASE Return \/ EnterKey
    <2>1. main'[1] \in Stops /\ UNCHANGED loopback
      BY <1>6, GotoIs DEF Return, EnterKey, adapters, Stops
    <2>2. QED
      BY <2>1, LoopbackStays DEF StopsStep
  <1>7. QED
    BY <1>1, <1>2, <1>3, <1>4, <1>5, <1>6 DEF Main

LEMMA MainSilences ==
  ASSUME IInv, Settled, Main \/ EnterKey
  PROVE SilentStep
  <1>0. UdpInv /\ IxxatInv /\ UNCHANGED kind
    BY DEF IInv, Settled
  <1>1. CASE Return \/ EnterKey
    BY <1>1 DEF Return, EnterKey, history, SilentStep
  <1>2. ASSUME NEW s \in Side,
               \/ InitAdapter(s) \/ Configure(s) \/ PipelineStart(s) \/ StartController(s)
               \/ StartHandle(s) \/ CreateThread(s) \/ CancelWaiters(s)
               \/ JoinThread(s) \/ DeleteController(s)
        PROVE SilentStep
    BY <1>2 DEF InitAdapter, Configure, PipelineStart, StartController, StartHandle,
         CreateThread, CancelWaiters, JoinThread, DeleteController, history, SilentStep
  <1>3. ASSUME NEW s \in Side, StopController(s) PROVE SilentStep
    <2>1. CASE UNCHANGED silent
      BY <2>1 DEF SilentStep
    <2>2. CASE kind[s] = "loopback" /\ Loopback(L!Stop(s)) /\ Goto("clear", s)
               /\ silent' = [silent EXCEPT ![s] = Len(given[s])]
      <3>1. given' = given /\ main'[1] = "clear" /\ UNCHANGED udp /\ UNCHANGED ixxat
        BY <1>3, <2>2, GotoIs DEF StopController, Loopback
      <3>2. ~started'[s]
        BY <2>2, LoopbackStops DEF Loopback, L!Stop
      <3>3. UdpSide(s) /\ IxxatSide(s)
        BY <1>0 DEF UdpInv, IxxatInv
      <3>4. m_rx_thread[s] = "none" /\ thread[s] = "none"
        BY <2>2, <3>3 DEF UdpSide, IxxatSide
      <3>5. Silenced(s)'
        BY <3>1, <3>2, <3>4 DEF Silenced, udp, ixxat
      <3>6. QED
        BY <2>2, <3>1, <3>5 DEF SilentStep
    <2>3. QED
      BY <1>3, <2>1, <2>2 DEF StopController
  <1>4. ASSUME NEW s \in Side, StopControllerJoin(s) PROVE SilentStep
    <2>1. /\ silent' = [silent EXCEPT ![s] = Len(given[s])] /\ given' = given
          /\ main = <<"stop join", s>>
      BY <1>4 DEF StopControllerJoin
    <2>2. main'[1] = "clear"
      BY <1>4, GotoIs DEF StopControllerJoin
    <2>3. UdpSide(s) /\ IxxatSide(s)
      BY <1>0 DEF UdpInv, IxxatInv
    <2>4. CASE kind[s] = "udp" /\ Udp(U!StopJoin(s))
      <3>1. m_rx_thread' = [m_rx_thread EXCEPT ![s] = "none"] /\ UNCHANGED ixxat
        BY <2>4 DEF Udp, U!StopJoin
      <3>2. m_rx_thread'[s] = "none"
        BY <1>0, <3>1, SetSide DEF UdpInv
      <3>3. thread[s] = "none"
        BY <2>3, <2>4 DEF IxxatSide
      <3>4. Silenced(s)'
        BY <1>0, <2>4, <3>1, <3>2, <3>3 DEF Silenced, ixxat
      <3>5. QED
        BY <2>1, <2>2, <3>4 DEF SilentStep
    <2>5. CASE kind[s] = "ixxat" /\ X!StopWaited(s) /\ UNCHANGED adapters
      <3>1. main # <<"handle", s>>
        BY <2>1
      <3>2. thread[s] \in {"none", "ended"}
        BY <2>3, <2>5, <3>1 DEF IxxatSide, X!StopWaited
      <3>3. m_rx_thread[s] = "none"
        BY <2>3, <2>5 DEF UdpSide
      <3>4. Silenced(s)'
        BY <1>0, <2>5, <3>2, <3>3 DEF Silenced, adapters, udp, ixxat
      <3>5. QED
        BY <2>1, <2>2, <3>4 DEF SilentStep
    <2>6. QED
      BY <1>4, <2>4, <2>5 DEF StopControllerJoin
  <1>5. QED
    BY <1>1, <1>2, <1>3, <1>4 DEF Main

(* Pipeline 1 is started before the key is pressed, and joined before      *)
(* controller 2 is stopped.                                                *)
Second == {<<"stop", 2>>, <<"stop join", 2>>, <<"clear", 2>>, <<"join", 2>>}

LEMMA SecondIs ==
  /\ \A at, n : <<at, n>> \in Second <=>
       at \in {"stop", "stop join", "clear", "join"} /\ n = 2
  /\ \A at : <<at, 0>> \notin Second /\ <<at, 1>> \notin Second
  /\ \A n : <<"start", n>> \notin Second
  <1>1. \A at, n : <<at, n>> \in Second <=>
          at \in {"stop", "stop join", "clear", "join"} /\ n = 2
    BY DEF Second
  <1>2. 0 # 2 /\ 1 # 2 /\ "start" \notin {"stop", "stop join", "clear", "join"}
    OBVIOUS
  <1>3. QED
    BY <1>1, <1>2, Zenon

LEMMA MainJoins ==
  ASSUME IInv, Main \/ EnterKey
  PROVE JoinInv'
  <1>1. JoinInv /\ JoinInv = ((silent[2] # -1 \/ main \in Second) => pipe[1] = "none")
    BY DEF IInv, QuietInv, JoinInv, Second
  <1>2. JoinInv' = ((silent'[2] # -1 \/ main' \in Second) => pipe'[1] = "none")
    BY DEF JoinInv, Second
  <1>3. ASSUME pipe[1] = "none" => pipe'[1] = "none",
               main' \in Second => main \in Second,
               silent'[2] # -1 => silent[2] # -1 \/ main \in Second
        PROVE JoinInv'
    BY <1>1, <1>2, <1>3
  <1>4. CASE Return \/ EnterKey
    <2>1. UNCHANGED silent /\ UNCHANGED pipe
      BY <1>4 DEF Return, EnterKey, history, pipes
    <2>2. main' = <<"done", 0>> \/ main' = <<"stop", 1>>
      BY <1>4 DEF Return, EnterKey, Goto
    <2>3. main' \notin Second
      BY <2>2, SecondIs
    <2>4. QED
      BY <1>3, <2>1, <2>3
  <1>5. ASSUME NEW s \in Side,
               \/ InitAdapter(s) \/ Configure(s) \/ PipelineStart(s) \/ StartController(s)
               \/ StartHandle(s) \/ DeleteController(s)
        PROVE JoinInv'
    <2>1. UNCHANGED silent /\ UNCHANGED pipe
      BY <1>5 DEF InitAdapter, Configure, PipelineStart, StartController, StartHandle,
         DeleteController, history, pipes
    <2>2. \/ UNCHANGED main
          \/ \E at \in {"configure", "init", "start", "start controller", "create thread",
                        "handle", "delete", "return", "done"} : \E n : main' = <<at, n>>
      BY <1>5 DEF InitAdapter, Configure, PipelineStart, StartController, StartHandle,
         DeleteController, InitFails, Goto
    <2>3. main' \in Second => main \in Second
      BY <2>2, SecondIs
    <2>4. QED
      BY <1>3, <2>1, <2>3
  <1>6. ASSUME NEW s \in Side, CreateThread(s) PROVE JoinInv'
    <2>1. main[1] = "create thread" /\ UNCHANGED silent
      BY <1>6 DEF CreateThread, history
    <2>2. QuietSide(2)
      BY TwoSides DEF IInv, QuietInv
    <2>3. silent[2] = -1
      BY <2>1, <2>2 DEF QuietSide, Stops
    <2>4. main' = <<"start", 2>> \/ main' = <<"enter", 0>>
      BY <1>6 DEF CreateThread, Goto
    <2>5. main' \notin Second
      BY <2>4, SecondIs
    <2>6. QED
      BY <1>2, <2>1, <2>3, <2>5
  <1>7. ASSUME NEW s \in Side, JoinThread(s) PROVE JoinInv'
    <2>1. main = <<"join", s>> /\ PipeGoto(s, "none")
      BY <1>7 DEF JoinThread
    <2>2. pipe'[s] = "none" /\ \A t \in Side : t # s => pipe'[t] = pipe[t]
      BY <2>1, PipeMoves
    <2>3. CASE s = 1
      BY <1>2, <2>2, <2>3
    <2>4. CASE s = 2
      <3>1. main \in Second
        BY <2>1, <2>4, SecondIs
      <3>2. pipe[1] = "none" /\ pipe'[1] = pipe[1]
        BY <1>1, <2>2, <2>4, <3>1, TwoSides
      <3>3. QED
        BY <1>2, <3>2
    <2>5. QED
      BY <2>3, <2>4, TwoSides
  <1>8. ASSUME NEW s \in Side, StopController(s) \/ StopControllerJoin(s) \/ CancelWaiters(s)
        PROVE JoinInv'
    <2>1. \E at \in {"stop", "stop join", "clear"} : main = <<at, s>>
      BY <1>8 DEF StopController, StopControllerJoin, CancelWaiters
    <2>2. \E at : main' = <<at, s>>
      BY <1>8 DEF StopController, StopControllerJoin, CancelWaiters, Goto
    <2>3. UNCHANGED silent \/ silent' = [silent EXCEPT ![s] = Len(given[s])]
      BY <1>8 DEF StopController, StopControllerJoin, CancelWaiters, history
    <2>4. \A t \in Side : t # s => silent'[t] = silent[t]
      BY <2>3, SetSide DEF IInv, QuietInv
    <2>5. pipe[1] = "none" => pipe'[1] = "none"
      <3>1. \/ pipe' = pipe
            \/ pipe[s] = "wait" /\ pipe' = [pipe EXCEPT ![s] = "cancelled"]
        BY <1>8 DEF StopController, StopControllerJoin, CancelWaiters, pipes
      <3>2. CASE pipe' = pipe
        BY <3>2
      <3>3. CASE pipe[s] = "wait" /\ pipe' = [pipe EXCEPT ![s] = "cancelled"]
        <4>1. \A t \in Side : t # s => pipe'[t] = pipe[t]
          BY <3>3, SetSide DEF IInv, FlowInv
        <4>2. QED
          BY <3>3, <4>1, TwoSides
      <3>4. QED
        BY <3>1, <3>2, <3>3
    <2>6. CASE s = 1
      <3>1. main' \notin Second
        BY <2>2, <2>6, SecondIs
      <3>2. silent'[2] = silent[2]
        BY <2>4, <2>6, TwoSides
      <3>3. QED
        BY <1>3, <2>5, <3>1, <3>2
    <2>7. CASE s = 2
      <3>1. main \in Second
        BY <2>1, <2>7, SecondIs
      <3>2. QED
        BY <1>3, <2>5, <3>1
    <2>8. QED
      BY <2>6, <2>7, TwoSides
  <1>9. QED
    BY <1>4, <1>5, <1>6, <1>7, <1>8 DEF Main

LEMMA SidesQuiet ==
  ASSUME IInv, NEW s \in Side,
         UdpRx(s) \/ IxxatRx(s) \/ IxxatFails(s) \/ Arrive(s) \/ Pipeline(s)
  PROVE SilentStep /\ StopsStep /\ JoinInv'
  <1>1. UNCHANGED main /\ UNCHANGED silent /\ UNCHANGED loopback
    <2>1. CASE UdpRx(s) \/ IxxatRx(s)
      BY <2>1 DEF UdpRx, IxxatRx
    <2>2. CASE IxxatFails(s) \/ Arrive(s)
      BY <2>2 DEF IxxatFails, Arrive, Ixxat, Udp, history
    <2>3. CASE Take(s) \/ Wait(s) \/ Cancelled(s) \/ Dispatch(s) \/ Echo(s)
      BY <2>3 DEF Take, Wait, Cancelled, Dispatch, Echo, adapters, history
    <2>4. CASE Send(s) \/ UdpWrite(s)
      BY <2>4 DEF Send, UdpWrite, adapters, Udp
    <2>5. QED
      BY <2>1, <2>2, <2>3, <2>4 DEF Pipeline
  <1>2. pipe[1] = "none" => pipe'[1] = "none"
    <2>1. CASE UNCHANGED pipe
      BY <2>1
    <2>2. ASSUME NEW at, PipeGoto(s, at), pipe[s] # "none"
          PROVE pipe[1] = "none" => pipe'[1] = "none"
      <3>1. \A t \in Side : t # s => pipe'[t] = pipe[t]
        BY <2>2, PipeMoves
      <3>2. QED
        BY <2>2, <3>1, TwoSides
    <2>3. CASE UdpRx(s) \/ IxxatRx(s) \/ IxxatFails(s) \/ Arrive(s)
      BY <2>1, <2>3 DEF UdpRx, IxxatRx, IxxatFails, Arrive, pipes
    <2>4. CASE Take(s) \/ Wait(s) \/ Cancelled(s) \/ Dispatch(s) \/ Echo(s)
      BY <2>2, <2>4 DEF Take, Wait, Cancelled, Dispatch, Echo
    <2>5. CASE Send(s)
      <3>1. pipe[s] = "send" /\ \E at \in {"write", "echo", "loop"} : PipeGoto(s, at)
        BY <2>5 DEF Send
      <3>2. QED
        BY <2>2, <3>1
    <2>6. CASE UdpWrite(s)
      <3>1. pipe[s] = "write" /\ \E at \in {"echo", "loop"} : PipeGoto(s, at)
        BY <2>6 DEF UdpWrite
      <3>2. QED
        BY <2>2, <3>1
    <2>7. QED
      BY <2>3, <2>4, <2>5, <2>6 DEF Pipeline
  <1>3. JoinInv'
    BY <1>1, <1>2 DEF IInv, QuietInv, JoinInv
  <1>4. StopsStep
    BY <1>1, LoopbackStays DEF StopsStep
  <1>5. QED
    BY <1>1, <1>3, <1>4 DEF SilentStep

LEMMA QuietNext ==
  ASSUME IInv, Next, Settled, FlowStep
  PROVE QuietInv'
  <1>1. SilentStep /\ StopsStep /\ JoinInv'
    BY MainSilences, MainStops, MainJoins, SidesQuiet DEF Next
  <1>2. QuietInv /\ UNCHANGED kind
    BY DEF IInv, Settled
  <1>3. PerSide(silent)'
    <2>1. CASE UNCHANGED silent
      BY <1>2, <2>1 DEF QuietInv, PerSide
    <2>2. ASSUME NEW s \in Side, silent' = [silent EXCEPT ![s] = Len(given[s])]
          PROVE PerSide(silent)'
      BY <1>2, <2>2, SetSide DEF QuietInv, PerSide
    <2>3. QED
      BY <1>1, <2>1, <2>2 DEF SilentStep
  <1>4. ASSUME NEW t \in Side, silent'[t] = silent[t] PROVE QuietSide(t)'
    <2>1. QuietSide(t) /\ given[t] \in Seq(Heard(t))
      BY <1>2 DEF QuietInv, IInv, FlowInv, FlowSide
    <2>2. PICK data \in Seq(Heard(t)) :
            /\ given'[t] = given[t] \o data
            /\ silent[t] # -1 => \A i \in 1..Len(data) : Quiet(data[i])
      BY DEF FlowStep, Grows
    <2> DEFINE g == given[t]
    <2> DEFINE h == g \o data
    <2>3. /\ Len(h) = Len(g) + Len(data) /\ Len(g) \in Nat /\ Len(data) \in Nat
          /\ \A i \in 1..Len(g) + Len(data) :
               h[i] = IF i <= Len(g) THEN g[i] ELSE data[i - Len(g)]
      BY <2>1, ConcatProperties, LenProperties
    <2>4. silent[t] \in {-1} \cup (0..Len(h))
      <3>1. silent[t] \in {-1} \cup (0..Len(g))
        BY <2>1 DEF QuietSide
      <3> HIDE DEF h, g
      <3>2. QED
        BY <2>3, <3>1
    <2>5. ASSUME silent[t] # -1
          PROVE \A i \in silent[t] + 1..Len(h) : Quiet(h[i])
      <3>1. /\ silent[t] \in 0..Len(g)
            /\ \A i \in silent[t] + 1..Len(g) : Quiet(g[i])
        BY <2>1, <2>5 DEF QuietSide, Quiet
      <3>2. \A i \in 1..Len(data) : Quiet(data[i])
        BY <2>2, <2>5
      <3> HIDE DEF h, g
      <3>3. ASSUME NEW i \in silent[t] + 1..Len(h) PROVE Quiet(h[i])
        <4>1. i \in 1..Len(g) + Len(data)
          BY <2>3, <3>1
        <4>2. CASE i <= Len(g)
          <5>1. h[i] = g[i] /\ i \in silent[t] + 1..Len(g)
            BY <2>3, <3>1, <4>1, <4>2
          <5>2. QED
            BY <3>1, <5>1
        <4>3. CASE ~(i <= Len(g))
          <5>1. h[i] = data[i - Len(g)] /\ i - Len(g) \in 1..Len(data)
            BY <2>3, <4>1, <4>3
          <5>2. QED
            BY <3>2, <5>1
        <4>4. QED
          BY <4>2, <4>3
      <3>4. QED
        BY <3>3
    <2>6. given'[t] = h
      BY <2>2
    <2> HIDE DEF h, g
    <2>7. CASE silent[t] = -1
      BY <1>4, <2>4, <2>6, <2>7 DEF QuietSide
    <2>8. CASE silent[t] # -1
      <3>1. /\ main[1] \in Stops /\ m_rx_thread[t] = "none"
            /\ thread[t] \in {"none", "ended"}
            /\ kind[t] = "loopback" => ~started[t]
        BY <2>1, <2>8 DEF QuietSide
      <3>2. m_rx_thread'[t] = "none" /\ thread'[t] \in {"none", "ended"}
        BY <3>1, ThreadsStayQuiet
      <3>3. main'[1] \in Stops /\ (kind[t] = "loopback" => ~started'[t])
        BY <1>1, <3>1 DEF StopsStep
      <3>4. \A i \in silent[t] + 1..Len(h) : h[i].type = "tx" \/ h[i] = X!Event("TX_OVR")
        BY <2>5, <2>8 DEF Quiet
      <3>5. QED
        BY <1>2, <1>4, <2>4, <2>6, <3>2, <3>3, <3>4 DEF QuietSide
    <2>9. QED
      BY <2>7, <2>8
  <1>5. CASE UNCHANGED silent
    BY <1>1, <1>3, <1>4, <1>5 DEF QuietInv, StopsStep
  <1>6. ASSUME NEW s \in Side,
               silent' = [silent EXCEPT ![s] = Len(given[s])], given' = given,
               Silenced(s)', main'[1] = "clear"
        PROVE QuietInv'
    <2>1. silent'[s] = Len(given[s]) /\ \A t \in Side : t # s => silent'[t] = silent[t]
      BY <1>2, <1>6, SetSide DEF QuietInv
    <2>2. Len(given[s]) \in Nat
      BY LenProperties DEF IInv, FlowInv, FlowSide
    <2>3. QuietSide(s)'
      <3>1. \A i \in Len(given[s]) + 1..Len(given[s]) : FALSE
        BY <2>2
      <3>2. Len(given[s]) \in {-1} \cup (0..Len(given[s]))
        BY <2>2
      <3>3. "clear" \in Stops
        BY DEF Stops
      <3>4. QED
        BY <1>6, <2>1, <3>1, <3>2, <3>3 DEF QuietSide, Silenced
    <2>4. \A t \in Side : QuietSide(t)'
      BY <1>4, <2>1, <2>3
    <2>5. QED
      BY <1>1, <1>3, <2>4 DEF QuietInv, StopsStep
  <1>7. QED
    BY <1>1, <1>5, <1>6 DEF SilentStep

-----------------------------------------------------------------------------
(* The invariant is inductive. *)
LEMMA BridgeStarts ==
  ASSUME Init
  PROVE IInv
  <1>1. FixedInv
    BY CanBridgeAssumption DEF Init, U!Init, U!Uid, FixedInv, Side
  <1>2. UdpInv
    <2>1. /\ m_started = [s \in Side |-> FALSE] /\ m_rx_thread = [s \in Side |-> "none"]
          /\ hand = [s \in Side |-> <<>>] /\ socket = [s \in Side |-> <<>>]
      BY DEF Init, U!Init
    <2>2. \A s \in Side : <<>> \in Seq(Heard(s)) /\ <<>> \in Seq(Arriving(s))
      BY EmptySeq
    <2>3. QED
      BY <2>1, <2>2 DEF UdpInv, UdpSide, PerSide
  <1>3. IxxatInv
    <2>1. /\ m_hthread = [s \in Side |-> "null"] /\ thread = [s \in Side |-> "none"]
          /\ channel = [s \in Side |-> <<>>]
      BY DEF Init, X!Init
    <2>2. \A s \in Side : <<>> \in Seq(Coming(s))
      BY EmptySeq
    <2>3. QED
      BY <2>1, <2>2 DEF IxxatInv, IxxatSide, PerSide
  <1>4. /\ given = [s \in Side |-> <<>>] /\ box = [s \in Side |-> <<>>]
        /\ cur = [s \in Side |-> 0] /\ pipe = [s \in Side |-> "none"]
        /\ out = [s \in Side |-> <<>>] /\ silent = [s \in Side |-> -1]
    BY DEF Init
  <1>5. FlowInv
    <2>1. ASSUME NEW s \in Side PROVE FlowSide(s)
      <3>1. <<>> \in Seq(Heard(s)) /\ <<>> \in Seq(Nat) /\ Len(<<>>) = 0
        BY EmptySeq
      <3>2. /\ given[s] = <<>> /\ box[s] = <<>> /\ cur[s] = 0 /\ pipe[s] = "none"
            /\ out[Other(s)] = <<>>
        BY <1>4, TwoSides
      <3>3. 0 \in 0..0 - 0 /\ \A i \in 1..0 : FALSE
        OBVIOUS
      <3>4. QED
        BY <3>1, <3>2, <3>3 DEF FlowSide
    <2>2. QED
      BY <1>4, <2>1 DEF FlowInv, PerSide
  <1>6. QuietInv
    <2>1. PerSide(started)
      BY DEF Init, L!Init, PerSide
    <2>2. silent[2] = -1
      BY <1>4, TwoSides
    <2>3. main \notin Second
      BY SecondIs DEF Init
    <2>4. JoinInv
      BY <2>2, <2>3 DEF JoinInv, Second
    <2>5. QED
      BY <1>4, <2>1, <2>4 DEF QuietInv, QuietSide, PerSide
  <1>7. QED
    BY <1>1, <1>2, <1>3, <1>5, <1>6 DEF IInv

LEMMA BridgeStutters ==
  ASSUME IInv, UNCHANGED vars
  PROVE IInv' /\ FlowStep /\ UNCHANGED lists
  <1>1. /\ UNCHANGED <<kind, lists, m_uid>> /\ UNCHANGED udp /\ UNCHANGED ixxat
        /\ UNCHANGED main /\ UNCHANGED pipes /\ UNCHANGED given /\ UNCHANGED out
        /\ UNCHANGED silent /\ UNCHANGED started
    BY DEF vars, adapters, fixed, history, loopback, udp
  <1>2. Settled
    BY <1>1 DEF Settled
  <1>3. FlowStep
    BY <1>1, FlowUntouched
  <1>4. QuietInv'
    <2>1. QuietInv
      BY DEF IInv
    <2>2. PerSide(silent)' /\ PerSide(started)'
      BY <1>1, <2>1 DEF QuietInv, PerSide
    <2>3. \A s \in Side : QuietSide(s)'
      BY <1>1, <2>1 DEF QuietInv, QuietSide, udp, ixxat
    <2>4. JoinInv'
      BY <1>1, <2>1 DEF QuietInv, JoinInv, pipes
    <2>5. QED
      BY <2>2, <2>3, <2>4 DEF QuietInv
  <1>5. FixedInv' /\ UdpInv' /\ IxxatInv' /\ FlowInv'
    BY <1>2, <1>3, FixedKept, UdpNext, IxxatNext DEF IInv, FlowStep
  <1>6. QED
    BY <1>1, <1>3, <1>4, <1>5 DEF IInv

LEMMA BridgeSteps ==
  ASSUME IInv, [Next]_vars
  PROVE IInv' /\ FlowStep /\ UNCHANGED lists
  <1>1. CASE Next
    <2>1. Settled
      BY <1>1, NextSettles
    <2>2. FlowStep
      BY <1>1, <2>1, FlowNext
    <2>3. QuietInv'
      BY <1>1, <2>1, <2>2, QuietNext
    <2>4. FixedInv' /\ UdpInv' /\ IxxatInv' /\ FlowInv' /\ UNCHANGED lists
      BY <2>1, <2>2, FixedKept, UdpNext, IxxatNext DEF IInv, FlowStep, Settled
    <2>5. QED
      BY <2>2, <2>3, <2>4 DEF IInv
  <1>2. CASE UNCHANGED vars
    BY <1>2, BridgeStutters
  <1>3. QED
    BY <1>1, <1>2

LEMMA BridgeInv == Spec => []IInv
  <1>1. IInv /\ [Next]_vars => IInv'
    BY BridgeSteps
  <1>2. QED
    BY <1>1, BridgeStarts, PTL DEF Spec

-----------------------------------------------------------------------------
(* The variables have their types, a reception thread holds a datum only   *)
(* while it is to be notified, a pipeline's thread has a position of the   *)
(* data given, and its mailbox holds those that are to be dispatched, in   *)
(* order: rxThread() of the controllers and of CanPipeline.                *)
THEOREM BridgeTypesAreKept == Spec => []TypeOK
  <1>1. IInv => TypeOK
    <2> SUFFICES ASSUME IInv PROVE TypeOK
      OBVIOUS
    <2>1. /\ PerSide(m_rx_thread) /\ PerSide(m_hthread) /\ PerSide(thread) /\ PerSide(pipe)
      BY DEF IInv, UdpInv, IxxatInv, FlowInv
    <2>2. \A s \in Side : UdpSide(s) /\ IxxatSide(s) /\ FlowSide(s)
      BY DEF IInv, UdpInv, IxxatInv, FlowInv
    <2>3. m_rx_thread \in [Side -> {"none", "reading", "read", "notify", "ended"}]
      BY <2>1, <2>2 DEF PerSide, UdpSide
    <2>4. m_hthread \in [Side -> {"null", "set"}]
      BY <2>1, <2>2 DEF PerSide, IxxatSide
    <2>5. thread \in [Side -> {"none", "running", "draining", "failed", "ended"}]
      BY <2>1, <2>2 DEF PerSide, IxxatSide
    <2>6. pipe \in [Side -> {"none", "loop", "wait", "cancelled", "dispatch", "send",
                             "write", "echo", "ended"}]
      BY <2>1, <2>2 DEF PerSide, FlowSide
    <2>7. \A s \in Side : (m_rx_thread[s] \in {"read", "notify"}) <=> (hand[s] # <<>>)
      BY <2>2 DEF UdpSide
    <2>8. ASSUME NEW s \in Side
          PROVE /\ cur[s] \in 0..Len(given[s])
                /\ \A i \in DOMAIN box[s] : box[s][i] = Len(given[s]) - Len(box[s]) + i
      <3>1. FlowSide(s)
        BY <2>2
      <3>2. box[s] \in Seq(Nat) /\ cur[s] \in 0..Len(given[s])
        BY <3>1, FlowLens DEF FlowSide
      <3>3. DOMAIN box[s] = 1..Len(box[s])
        BY <3>2, LenProperties
      <3>4. QED
        BY <3>1, <3>2, <3>3 DEF FlowSide
    <2>9. QED
      BY <2>3, <2>4, <2>5, <2>6, <2>7, <2>8 DEF TypeOK
  <1>2. QED
    BY <1>1, BridgeInv, PTL

(* No message is sent back to the side it came from, neither through the   *)
(* multicast loop, whose datagrams UdpCanController::rxThread() knows by   *)
(* their identifier, nor through the echo of CanController::send().        *)
THEOREM NothingIsSentBack == Spec => []NeverSentBack
  <1>1. IInv => NeverSentBack
    <2> SUFFICES ASSUME IInv, NEW s \in Side, Loyal(Other(s)),
                        NEW i \in DOMAIN out[s]
                 PROVE given[Other(s)][out[s][i]].msg.from # s
      BY DEF NeverSentBack, Loyal
    <2> DEFINE o == Other(s)
    <2>1. o \in Side /\ o # s /\ Other(o) = s
      BY TwoSides
    <2>2. FlowSide(o)
      BY <2>1 DEF IInv, FlowInv
    <2>3. out[s] \in Seq(Nat) /\ i \in 1..Len(out[s])
      BY <2>1, <2>2, LenProperties DEF FlowSide
    <2>4. out[s][i] \in 1..cur[o] /\ given[o][out[s][i]].type = "rx"
      BY <2>1, <2>2, <2>3 DEF FlowSide
    <2>5. cur[o] \in 0..Len(given[o]) /\ Len(given[o]) \in Nat /\ given[o] \in Seq(Heard(o))
      BY <2>1, <2>2, FlowLens DEF FlowSide
    <2>6. out[s][i] \in 1..Len(given[o])
      BY <2>4, <2>5
    <2>7. given[o][out[s][i]] \in Heard(o)
      BY <2>5, <2>6, ElementOfSeq
    <2>8. given[o][out[s][i]].msg.from = o
      BY <2>4, <2>7 DEF Heard
    <2>9. QED
      BY <2>1, <2>8
  <1>2. QED
    BY <1>1, BridgeInv, PTL

(* After stop() of a controller its thread gives nothing: stop() joined    *)
(* it, or waited for the handle that its end has reset.  What send() of    *)
(* the other pipeline gives is an echo, or the event of a full queue.      *)
THEOREM StoppedStaysSilent == Spec => []StoppedIsSilent
  <1>1. IInv => StoppedIsSilent
    <2> SUFFICES ASSUME IInv, NEW s \in Side, silent[s] >= 0
                 PROVE \A i \in silent[s] + 1..Len(given[s]) :
                         given[s][i].type = "tx" \/ given[s][i] = X!Event("TX_OVR")
      BY DEF StoppedIsSilent
    <2>1. silent[s] # -1
      OBVIOUS
    <2>2. QED
      BY <2>1 DEF IInv, QuietInv, QuietSide
  <1>2. QED
    BY <1>1, BridgeInv, PTL

(* main() deletes controller 2 when pipeline 1, that sends to it, has been *)
(* joined, and when the threads of the controllers that were stopped have  *)
(* ended.                                                                  *)
THEOREM NobodyUsesController2 == Spec => []DeletedIsUnused
  <1>1. IInv => DeletedIsUnused
    <2> SUFFICES ASSUME IInv, silent[2] >= 0
                 PROVE /\ pipe[1] \notin {"send", "write", "echo"}
                       /\ m_rx_thread[2] \in {"none", "ended"}
                       /\ thread[2] \in {"none", "ended"}
      BY DEF DeletedIsUnused
    <2>1. silent[2] # -1
      OBVIOUS
    <2>2. pipe[1] = "none"
      BY <2>1 DEF IInv, QuietInv, JoinInv
    <2>3. m_rx_thread[2] = "none" /\ thread[2] \in {"none", "ended"}
      BY <2>1, TwoSides DEF IInv, QuietInv, QuietSide
    <2>4. QED
      BY <2>2, <2>3
  <1>2. QED
    BY <1>1, BridgeInv, PTL

-----------------------------------------------------------------------------
(* The bridge implements the channel: the data given only grow, and what a *)
(* pipeline sends is what it has in hand, a message the lists choose and   *)
(* that comes after those it has sent before.                              *)
LEMMA GrowsIsPrefix ==
  ASSUME NEW S, NEW g \in Seq(S), NEW d \in Seq(S)
  PROVE IsPrefix(g, g \o d)
  <1> DEFINE h == g \o d
  <1> DEFINE a == SubSeq(h, 1, Len(g))
  <1>1. /\ h \in Seq(S) /\ Len(h) = Len(g) + Len(d)
        /\ Len(g) \in Nat /\ Len(d) \in Nat
        /\ \A i \in 1..Len(g) + Len(d) : h[i] = IF i <= Len(g) THEN g[i] ELSE d[i - Len(g)]
    BY ConcatProperties, LenProperties
  <1> HIDE DEF h
  <1>2. \A i \in 1..Len(g) : h[i] = g[i] /\ g[i] \in S
    BY <1>1, ElementOfSeq
  <1>3. /\ a \in Seq(S) /\ Len(a) = Len(g)
        /\ \A i \in 1..Len(g) : a[i] = g[i]
    <2>1. \A i \in 1..Len(g) : h[i] \in S
      BY <1>2
    <2>2. /\ a \in Seq(S)
          /\ Len(a) = IF 1 <= Len(g) THEN Len(g) - 1 + 1 ELSE 0
          /\ \A i \in 1..Len(g) - 1 + 1 : a[i] = h[1 + i - 1]
      BY <1>1, <2>1, SubSeqProperties
    <2> HIDE DEF a
    <2>3. QED
      BY <1>1, <1>2, <2>2
  <1> HIDE DEF a
  <1>4. a = g
    BY <1>3, SeqEqual
  <1>5. SubSeq(g, 1, Len(g)) = g
    BY SubSeqFull
  <1>6. Len(g) <= Len(h)
    BY <1>1
  <1>7. QED
    BY <1>4, <1>5, <1>6 DEF IsPrefix, a, h

LEMMA SendsIsForward ==
  ASSUME IInv, NEW s \in Side, pipe[s] \in {"send", "write"}, Sends(s)
  PROVE Channel!Forward(Other(s))
  <1> DEFINE t == Other(s)
  <1>1. t \in Side /\ t # s /\ Other(t) = s
    BY TwoSides
  <1>2. Channel!OtherSide(t) = s
    BY <1>1, TwoSides DEF Channel!OtherSide
  <1>3. FlowSide(s)
    BY DEF IInv, FlowInv
  <1>4. /\ cur[s] \in 1..Len(given[s]) /\ given[s][cur[s]].type = "rx"
    BY HandIsMessage
  <1>5. cur[s] \in DOMAIN given[s]
    BY <1>3, <1>4, LenProperties DEF FlowSide
  <1>6. ASSUME out[t] # <<>> PROVE cur[s] > Last(out[t])
    <2>1. out[t] \in Seq(Nat)
      BY <1>3 DEF FlowSide
    <2>2. Len(out[t]) \in 1..Len(out[t])
      <3>1. Len(out[t]) \in Nat \ {0}
        BY <1>6, <2>1, EmptySeq
      <3>2. QED
        BY <3>1
    <2>3. out[t][Len(out[t])] \in 1..cur[s] /\ out[t][Len(out[t])] < cur[s]
      BY <1>3, <2>2 DEF FlowSide
    <2>4. cur[s] \in Nat
      BY <1>3, FlowLens
    <2> HIDE DEF t
    <2>5. QED
      BY <2>3, <2>4 DEF Last
  <1>7. Channel!Selected(t, given[s][cur[s]].msg)
    BY <1>3 DEF FlowSide, Chosen, Channel!Selected
  <1>8. out' = [out EXCEPT ![t] = Append(@, cur[s])]
    BY DEF Sends
  <1> HIDE DEF t
  <1>9. Channel!Forward(t)
    <2>1. out[t] # <<>> => cur[s] > Channel!Last(out[t])
      BY <1>6 DEF Last, Channel!Last
    <2>2. QED
      BY <1>2, <1>4, <1>5, <1>7, <1>8, <2>1 DEF Channel!Forward
  <1>10. QED
    BY <1>9 DEF t

LEMMA StepIsChannel ==
  ASSUME IInv, FlowStep, UNCHANGED lists
  PROVE Channel!Next
  <1>1. ASSUME NEW t \in Side PROVE IsPrefix(given[t], given'[t])
    <2>1. given[t] \in Seq(Heard(t))
      BY DEF IInv, FlowInv, FlowSide
    <2>2. PICK data \in Seq(Heard(t)) : given'[t] = given[t] \o data
      BY DEF FlowStep, Grows
    <2>3. QED
      BY <2>1, <2>2, GrowsIsPrefix
  <1>2. Channel!Give
    BY <1>1 DEF Channel!Give, IsPrefix, Channel!IsPrefix
  <1>3. UNCHANGED out \/ \E s \in Side : Channel!Forward(s)
    BY SendsIsForward, TwoSides DEF FlowStep, OutStep
  <1>4. QED
    BY <1>2, <1>3 DEF Channel!Next

(* In each direction can_bridge is the channel of CanBridgeChannel: what   *)
(* CanMsgForwarder::processCanData() sends are messages received on the    *)
(* other side, each at most once, in order, that the lists select.         *)
THEOREM BridgeIsAChannel == Spec => ImplementsChannel
  <1>1. Init => Channel!Init
    BY DEF Init, Channel!Init
  <1>2. IInv /\ [Next]_vars => [Channel!Next]_(Channel!vars)
    BY BridgeSteps, StepIsChannel
  <1>3. QED
    BY <1>1, <1>2, BridgeInv, PTL DEF Spec, ImplementsChannel, Channel!Spec

=============================================================================
