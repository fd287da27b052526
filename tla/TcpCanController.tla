-------------------------- MODULE TcpCanController --------------------------
(***************************************************************************)
(* TcpCanController (dynlibs/adapters/tcp_adapter), the client of          *)
(* can_server: one controller per client, from open() to close().          *)
(*                                                                         *)
(* An application thread opens, starts, stops and closes the controller.   *)
(* It also sends, unless the controller is in SendThread: then another     *)
(* thread sends, as the crossed pipelines of can_bridge do, and no lock    *)
(* keeps the two from writing at the same time.                            *)
(***************************************************************************)
EXTENDS Naturals, Sequences

CONSTANTS
  Client,
  Capacity, BodySize, Slow, Torn,
  SendThread,  \* controllers on which a thread of its own sends
  MaxSends,    \* bound: messages sent, per controller
  Steady,      \* bound: controllers that are neither stopped nor closed
  Restart      \* bound: those that are started again after a failure or stop

VARIABLES
  up, down, connected, serving,
  app,       \* "closed", "open", "starting", "started", "stopping",
             \* "failed", "stopped" (open, after a start() that failed or
             \* a stop()), "gone" (closed again)
  rx,        \* m_rx_thread: "none", "command", "body", "garbled", "ended"
  tx,        \* send(): "idle", or "body" after the command is written
  sent,      \* number of messages handed to send()
  rxNeed,    \* bytes it still wants of a message that is out of step
  adrift,    \* history: a read was cut by its timeout, or start() took
             \* something else for its answer
  seen,      \* history: messages given to the data_received callback
  answered,  \* history: a start() has had its answer
  cut        \* history: a write of the controller's has timed out

link == <<up, down, connected, serving>>
reading == <<rxNeed, adrift, seen>>
local == <<app, rx, tx, sent, reading, answered, cut>>

L == INSTANCE TcpLink

Init ==
  /\ app = [c \in Client |-> "closed"]
  /\ rx = [c \in Client |-> "none"]
  /\ tx = [c \in Client |-> "idle"]
  /\ sent = [c \in Client |-> 0]
  /\ rxNeed = [c \in Client |-> 0]
  /\ adrift = [c \in Client |-> FALSE]
  /\ seen = [c \in Client |-> <<>>]
  /\ answered = [c \in Client |-> FALSE]
  /\ cut = [c \in Client |-> FALSE]

Goto(c, a) == app' = [app EXCEPT ![c] = a]
RxGoto(c, r) == rx' = [rx EXCEPT ![c] = r]
TxGoto(c, t) == tx' = [tx EXCEPT ![c] = t]

TxMayInterleave(c) == tx[c] = "idle" \/ c \in SendThread

-----------------------------------------------------------------------------
Open(c) ==
  /\ app[c] = "closed"
  /\ serving
  /\ connected' = [connected EXCEPT ![c] = "open"]
  /\ Goto(c, "open")
  /\ UNCHANGED <<up, down, serving, rx, tx, sent, reading, answered, cut>>

(* close() of a controller that is not started, or the end of the program  *)
(* at any time.  close() of a started controller calls stop() first.       *)
Vanish(c) ==
  /\ connected' = [connected EXCEPT ![c] = "closed"]
  /\ down' = [down EXCEPT ![c] = <<>>]
  /\ Goto(c, "gone")
  /\ RxGoto(c, "none")
  /\ TxGoto(c, "idle")
  /\ UNCHANGED <<up, serving, sent, reading, answered, cut>>

Close(c) ==
  /\ c \notin Steady
  /\ connected[c] = "open"
  /\ Vanish(c)

Cut(c) == cut' = [cut EXCEPT ![c] = TRUE]

(* start() writes a command and takes the next two bytes for the answer.   *)
StartRequest(c) ==
  /\ \/ app[c] = "open"
     \/ app[c] \in {"failed", "stopped"} /\ c \in Restart
  /\ TxMayInterleave(c)
  /\ \/ /\ L!ClientWrites(c, L!Cmd("START"))
        /\ Goto(c, "starting")
        /\ UNCHANGED cut
     \/ /\ L!ClientWriteIsCut(c, L!Cmd("START"))
        /\ Cut(c)
        /\ Goto(c, "failed")
  /\ UNCHANGED <<down, connected, serving, rx, tx, sent, reading, answered>>

StartAnswer(c) ==
  /\ app[c] = "starting"
  /\ L!HasWord(down[c])
  /\ \E word \in L!WordsAt(down[c]) :
       \/ /\ word = "START"
          /\ Goto(c, "started")
          /\ RxGoto(c, "command")
          /\ answered' = [answered EXCEPT ![c] = TRUE]
          /\ UNCHANGED adrift
       \/ /\ word # "START"
          /\ Goto(c, "failed")
          /\ adrift' = [adrift EXCEPT ![c] = TRUE]
          /\ UNCHANGED <<rx, answered>>
  /\ L!ClientReads(c, L!AfterWord(down[c]))
  /\ UNCHANGED <<up, connected, serving, tx, sent, rxNeed, seen, cut>>

(* The answer does not come, or only its first byte does. *)
StartTimeout(c) ==
  /\ app[c] = "starting"
  /\ \/ /\ down[c] = <<>>
        /\ UNCHANGED <<down, adrift>>
     \/ /\ L!WordIsCut(c, down[c])
        /\ L!ClientReads(c, L!Take(down[c], 1))
        /\ adrift' = [adrift EXCEPT ![c] = TRUE]
  /\ Goto(c, "failed")
  /\ UNCHANGED <<up, connected, serving, rx, tx, sent, rxNeed, seen, answered,
                 cut>>

(* Mutant: the command is written in the middle of a message. *)
StopRequestInterleaved(c) ==
  /\ c \notin Steady
  /\ app[c] = "started"
  /\ L!ClientWrites(c, L!Cmd("STOP"))
  /\ Goto(c, "stopping")
  /\ UNCHANGED <<down, connected, serving, rx, tx, sent, reading, answered, cut>>

(* stop() ignores whether its command could be written. *)
StopRequest(c) ==
  /\ c \notin Steady
  /\ app[c] = "started"
  /\ TxMayInterleave(c)
  /\ \/ /\ ~L!ClientIsConnected(c)
        /\ UNCHANGED <<up, cut>>
     \/ /\ L!ClientIsConnected(c)
        /\ L!ClientWrites(c, L!Cmd("STOP"))
        /\ UNCHANGED cut
     \/ /\ L!ClientIsConnected(c)
        /\ L!ClientWriteIsCut(c, L!Cmd("STOP"))
        /\ Cut(c)
  /\ Goto(c, "stopping")
  /\ UNCHANGED <<down, connected, serving, rx, tx, sent, reading, answered>>

StopJoin(c) ==
  /\ app[c] = "stopping"
  /\ rx[c] = "ended"
  /\ Goto(c, "stopped")
  /\ RxGoto(c, "none")
  /\ UNCHANGED <<link, tx, sent, reading, answered, cut>>

-----------------------------------------------------------------------------
(* send(), on a started controller: the command, then the message.         *)
SendCommand(c) ==
  /\ \/ app[c] = "started"
     \/ app[c] = "stopping" /\ c \in SendThread
  /\ tx[c] = "idle"
  /\ sent[c] < MaxSends[c]
  /\ \/ /\ L!ClientWrites(c, L!Cmd("MSG"))
        /\ TxGoto(c, "body")
        /\ UNCHANGED cut
     \/ /\ L!ClientWriteIsCut(c, L!Cmd("MSG"))
        /\ Cut(c)
        /\ UNCHANGED tx
  /\ sent' = [sent EXCEPT ![c] = @ + 1]
  /\ UNCHANGED <<down, connected, serving, app, rx, reading, answered>>

SendBody(c) ==
  /\ tx[c] = "body"
  /\ \E n \in BodySize :
       \/ /\ L!ClientWrites(c, L!Body(sent[c], n))
          /\ UNCHANGED cut
       \/ /\ L!ClientWriteIsCut(c, L!Body(sent[c], n))
          /\ Cut(c)
  /\ TxGoto(c, "idle")
  /\ UNCHANGED <<down, connected, serving, app, rx, sent, reading, answered>>

-----------------------------------------------------------------------------
(* rxThread()                                                              *)
RxCommand(c) ==
  /\ rx[c] = "command"
  /\ L!HasWord(down[c])
  /\ \E word \in L!WordsAt(down[c]) :
       RxGoto(c, CASE word = "STOP" -> "ended"
                   [] word = "MSG" -> "body"
                   [] OTHER -> "command")
  /\ L!ClientReads(c, L!AfterWord(down[c]))
  /\ UNCHANGED <<up, connected, serving, app, tx, sent, reading, answered, cut>>

(* The read of a command times out after its first byte. *)
RxCutCommand(c) ==
  /\ rx[c] = "command"
  /\ L!WordIsCut(c, down[c])
  /\ L!ClientReads(c, L!Take(down[c], 1))
  /\ adrift' = [adrift EXCEPT ![c] = TRUE]
  /\ UNCHANGED <<up, connected, serving, app, rx, tx, sent, rxNeed, seen,
                 answered, cut>>

RxBody(c) ==
  /\ rx[c] = "body"
  /\ L!IsMessage(down[c])
  /\ L!ClientReads(c, Tail(down[c]))
  /\ seen' = [seen EXCEPT ![c] = Append(@, Head(down[c]).body)]
  /\ RxGoto(c, "command")
  /\ UNCHANGED <<up, connected, serving, app, tx, sent, rxNeed, adrift,
                 answered, cut>>

(* What stands in the place of a message is read as one.  A size above 8   *)
(* is not refused and the read writes over what is behind data[]: the      *)
(* program is given up here.                                               *)
RxMisplaced(c) ==
  /\ rx[c] = "body"
  /\ down[c] # <<>> /\ ~L!IsMessage(down[c])
  /\ \/ /\ rxNeed' \in {[rxNeed EXCEPT ![c] = n] : n \in BodySize}
        /\ RxGoto(c, "garbled")
        /\ UNCHANGED <<link, app, tx, sent, seen, adrift, answered, cut>>
     \/ Vanish(c)

RxGarbled(c) ==
  /\ rx[c] = "garbled"
  /\ \E k \in L!Pieces(down[c], rxNeed[c]) :
       /\ L!ClientReads(c, L!Take(down[c], k))
       /\ rxNeed' = [rxNeed EXCEPT ![c] = @ - k]
       /\ IF k = rxNeed[c]
            THEN /\ seen' = [seen EXCEPT ![c] = Append(@, L!Garbled)]
                 /\ RxGoto(c, "command")
            ELSE UNCHANGED <<seen, rx>>
  /\ UNCHANGED <<up, connected, serving, app, tx, sent, adrift, answered, cut>>

(* A read that times out gives up the message it was in the middle of. *)
RxTimeout(c) ==
  /\ c \in Slow
  /\ \/ /\ rx[c] = "body"
        /\ \E s \in L!MessageCuts(down[c]) : L!ClientReads(c, s)
     \/ /\ rx[c] = "garbled"
        /\ UNCHANGED down
  /\ rxNeed' = [rxNeed EXCEPT ![c] = 0]
  /\ adrift' = [adrift EXCEPT ![c] = TRUE]
  /\ RxGoto(c, "command")
  /\ UNCHANGED <<up, connected, serving, app, tx, sent, seen, answered, cut>>

RxDisconnected(c) ==
  /\ rx[c] \in {"command", "body", "garbled"}
  /\ ~L!ClientIsConnected(c)
  /\ RxGoto(c, "ended")
  /\ UNCHANGED <<link, app, tx, sent, reading, answered, cut>>

-----------------------------------------------------------------------------
(* What the application decides, and what then happens by itself.          *)
Request(c) ==
  Open(c) \/ Close(c) \/ StartRequest(c) \/ StopRequest(c) \/ SendCommand(c)

AppStep(c) ==
  StartAnswer(c) \/ StartTimeout(c) \/ StopJoin(c)

RxStep(c) ==
  \/ RxCommand(c) \/ RxCutCommand(c) \/ RxBody(c) \/ RxMisplaced(c)
  \/ RxGarbled(c) \/ RxTimeout(c) \/ RxDisconnected(c)

TypeOK ==
  /\ app \in [Client -> {"closed", "open", "starting", "started", "stopping",
                         "failed", "stopped", "gone"}]
  /\ rx \in [Client -> {"none", "command", "body", "garbled", "ended"}]
  /\ tx \in [Client -> {"idle", "body"}]
  /\ sent \in [Client -> Nat]
  /\ \A c \in Client : sent[c] <= MaxSends[c]
  /\ rxNeed \in [Client -> Nat]
  /\ adrift \in [Client -> BOOLEAN]
  /\ seen \in [Client -> Seq(Nat)]
  /\ answered \in [Client -> BOOLEAN]
  /\ cut \in [Client -> BOOLEAN]

=============================================================================
