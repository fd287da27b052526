---------------------------- MODULE CanPipeline ----------------------------
(***************************************************************************)
(* CanPipeline (libs/pipeline): a CanController posts the data it receives *)
(* in the pipeline's MailBox, whatever thread it calls back on, and the    *)
(* pipeline's reception thread hands it to the CanPipelineSuspender.  One  *)
(* application thread starts, suspends, resumes, stops and sends.          *)
(*                                                                         *)
(* The operations that only record an error text because of the state of   *)
(* the pipeline ("already started", "not suspended", ...) change nothing   *)
(* and are stuttering steps.                                               *)
(***************************************************************************)
EXTENDS Naturals, Sequences, FiniteSets

CONSTANTS
  Rx,          \* the reception thread
  App,         \* the application thread
  NoThread,
  Child,       \* the first stages of the pipeline
  MaxPosts     \* bound: data received and echoed by the controller

ASSUME CanPipelineAssumption ==
  /\ Rx # App
  /\ NoThread \notin {Rx, App}
  /\ MaxPosts \in Nat

VARIABLES
  m_msgs, m_cancel_status, cancel, waiter, posted, got, dropped,
  m_is_suspended, m_mutex, m_can_data, stage, cur, todo, next, received,
  delivered,
  m_rx_thread,   \* "null", "running", or "ended": to be joined
  controller,    \* the controller is started: it may call back
  app,           \* where the application thread is in start() or stop()
  started_at     \* history: `posted` when start() last emptied the mailbox

MB == INSTANCE MailBox WITH Waiter <- {Rx}, TimedWaiter <- {}
S  == INSTANCE CanPipelineSuspender

mailbox == <<m_msgs, m_cancel_status, cancel, waiter, posted, got, dropped>>
suspender == <<m_is_suspended, m_mutex, m_can_data, stage, cur, todo, next,
               received, delivered>>
own == <<m_rx_thread, controller, app, started_at>>
vars == <<mailbox, suspender, own>>

Init ==
  /\ MB!Init
  /\ S!Init
  /\ m_rx_thread = "null"
  /\ controller = FALSE
  /\ app = "idle"
  /\ started_at = 0

AppIdle == app = "idle" /\ stage[App] = "outside"

-----------------------------------------------------------------------------
(* Mutant: the mailbox is not emptied. *)
StartUncleared ==
  /\ AppIdle
  /\ m_rx_thread = "null"
  /\ app' = "starting"
  /\ started_at' = posted
  /\ UNCHANGED <<mailbox, suspender, m_rx_thread, controller>>

(* start(): empty the mailbox, start the controller, create the thread.    *)
(* The controller may call back before the thread exists.                  *)
StartClear ==
  /\ AppIdle
  /\ m_rx_thread = "null"
  /\ MB!Clear(FALSE)
  /\ app' = "starting"
  /\ started_at' = posted
  /\ UNCHANGED <<suspender, m_rx_thread, controller>>

StartController ==
  /\ app = "starting"
  /\ \/ controller' = TRUE /\ app' = "creating"
     \/ app' = "idle" /\ UNCHANGED controller
  /\ UNCHANGED <<mailbox, suspender, m_rx_thread, started_at>>

StartThread ==
  /\ app = "creating"
  /\ m_rx_thread' = "running"
  /\ app' = "idle"
  /\ UNCHANGED <<mailbox, suspender, controller, started_at>>

(* stop(): a failure of the controller's stop() is recorded and ignored,   *)
(* the controller then goes on; join() waits for the thread to end.        *)
StopController ==
  /\ AppIdle
  /\ m_rx_thread # "null"
  /\ controller' \in {FALSE, controller}
  /\ app' = "stopping"
  /\ UNCHANGED <<mailbox, suspender, m_rx_thread, started_at>>

StopClear ==
  /\ app = "stopping"
  /\ MB!Clear(TRUE)
  /\ app' = "joining"
  /\ UNCHANGED <<suspender, m_rx_thread, controller, started_at>>

StopJoin ==
  /\ app = "joining"
  /\ m_rx_thread = "ended"
  /\ m_rx_thread' = "null"
  /\ app' = "idle"
  /\ UNCHANGED <<mailbox, suspender, controller, started_at>>

Suspend ==
  /\ AppIdle
  /\ m_rx_thread # "null" /\ ~m_is_suspended
  /\ S!Suspend(App)
  /\ UNCHANGED <<mailbox, own>>

Resume ==
  /\ AppIdle
  /\ m_rx_thread # "null" /\ m_is_suspended
  /\ S!ResumeCall(App)
  /\ UNCHANGED <<mailbox, own>>

(* send(): when the controller accepts the message, CanController echoes   *)
(* it to the pipeline in the calling thread.                               *)
Send ==
  /\ AppIdle
  /\ m_rx_thread # "null"
  /\ controller
  /\ MB!PostBounded
  /\ UNCHANGED <<suspender, own>>

ResumeStep == S!AppStep /\ UNCHANGED <<mailbox, own>>

AppStep ==
  StartController \/ StartThread \/ StopClear \/ StopJoin \/ ResumeStep

-----------------------------------------------------------------------------
(* canDataReceived(), called back by the controller.                       *)
ControllerData ==
  /\ controller
  /\ MB!PostBounded
  /\ UNCHANGED <<suspender, own>>

-----------------------------------------------------------------------------
(* rxThread(): while (m_rx_mailbox.wait(can_data)) canDataReceived(...)    *)
RxOutside == m_rx_thread = "running" /\ stage[Rx] = "outside"

RxTake ==
  /\ RxOutside
  /\ MB!WaitTake(Rx) \/ MB!WakeTake(Rx)
  /\ S!Receive(Rx, Head(m_msgs))
  /\ UNCHANGED own

RxWait ==
  /\ RxOutside
  /\ MB!WaitBlock(Rx) \/ MB!WakeAgain(Rx)
  /\ UNCHANGED <<suspender, own>>

RxSpuriousWakeup ==
  /\ RxOutside
  /\ MB!SpuriousWakeup(Rx)
  /\ UNCHANGED <<suspender, own>>

RxCancelled ==
  /\ RxOutside
  /\ MB!WakeCancelled(Rx)
  /\ m_rx_thread' = "ended"
  /\ UNCHANGED <<suspender, controller, app, started_at>>

RxStage == S!RxStep /\ UNCHANGED <<mailbox, own>>

RxStep == RxTake \/ RxWait \/ RxCancelled \/ RxStage

-----------------------------------------------------------------------------
Next ==
  \/ StartClear \/ StartController \/ StartThread
  \/ StopController \/ StopClear \/ StopJoin
  \/ Suspend \/ Resume \/ ResumeStep
  \/ Send
  \/ ControllerData
  \/ RxTake \/ RxWait \/ RxSpuriousWakeup \/ RxCancelled \/ RxStage

(* Threads that can run do run, and a thread waiting for a mutex that is   *)
(* released again and again gets it; nobody has to call an operation, and  *)
(* the controller has nothing to receive.                                  *)
Fairness ==
  /\ WF_vars(AppStep)
  /\ WF_vars(RxStep)
  /\ SF_vars(RxStage)

SafetySpec == Init /\ [][Next]_vars
Spec == SafetySpec /\ Fairness

-----------------------------------------------------------------------------
TypeOK ==
  /\ MB!TypeOK
  /\ S!TypeOK
  /\ m_rx_thread \in {"null", "running", "ended"}
  /\ controller \in BOOLEAN
  /\ app \in {"idle", "starting", "creating", "stopping", "joining"}
  /\ started_at \in Nat
  /\ next <= Len(m_can_data) + 1

(* The reception thread sleeps only on an empty mailbox. *)
NoLostWakeup == MB!NoLostWakeup

(* Through any interleaving of reception, suspend(), resume(), stop() and  *)
(* start(), what a child has been called with, what the suspender keeps    *)
(* for it and what the reception thread has in hand are, in this order,    *)
(* everything taken from the mailbox.                                      *)
DispatchKeepsOrder == S!NothingLostNorReordered

(* Children have no lock: the reception thread and a resume() in the       *)
(* application thread never call them at the same time.                    *)
ChildrenCalledByOneThread == S!ChildrenCalledByOneThread

(* The reception thread of a session finds in the mailbox only data posted *)
(* since that session's start(), even if a controller whose stop() failed  *)
(* went on posting between the sessions.                                   *)
MailboxIsOfThisSession ==
  m_rx_thread = "running" => \A i \in DOMAIN m_msgs : m_msgs[i] > started_at

(* The pipeline implements the channel its children are promised. *)
Channel == INSTANCE CanDataChannel WITH
  sent <- posted,
  pending <- [c \in Child |-> S!Kept(c) \o S!InHand(c) \o m_msgs],
  out <- delivered

ImplementsChannel == Channel!Spec

Queued(m) == \E i \in DOMAIN m_msgs : m_msgs[i] = m
SeenByAll(m) == \A c \in Child : \E i \in DOMAIN delivered[c] : delivered[c][i] = m
Suspended(m) == \E i \in DOMAIN m_can_data : m_can_data[i] = m

(* Data in the mailbox of a running pipeline is eventually dispatched to   *)
(* every child or kept by a suspended suspender, unless stop() or start()  *)
(* drops it.                                                               *)
QueuedDataIsTaken ==
  \A m \in 1..MaxPosts :
    (Queued(m) /\ m_rx_thread = "running") ~>
      (SeenByAll(m) \/ Suspended(m) \/ m \in dropped \/ m_rx_thread # "running")

(* Once resume() is called, what was kept reaches every child, even if the *)
(* pipeline is stopped next.                                               *)
ResumeDelivers ==
  \A m \in 1..MaxPosts :
    (Suspended(m) /\ stage[App] = "resume") ~> SeenByAll(m)

(* "Stop the pipeline": a call of stop() comes back. *)
StopReturns == (app = "joining") ~> (app = "idle")

=============================================================================
