------------------------- MODULE CanPipelineProofs -------------------------
(***************************************************************************)
(* Proofs about CanPipeline, for every set of children and every number of *)
(* data.  Every step of the pipeline is a step of its mailbox, a step of   *)
(* its suspender, both or neither, so the invariants of the two parts hold *)
(* in the composition and carry over what is proved of each.               *)
(***************************************************************************)
EXTENDS CanPipeline, SequenceFacts, TLAPS

MP == INSTANCE MailBoxProofs WITH Waiter <- {Rx}, TimedWaiter <- {}
SP == INSTANCE CanPipelineSuspenderProofs

SessionInv ==
  /\ started_at \in Nat /\ started_at <= posted
  /\ \A i \in DOMAIN m_msgs : m_msgs[i] > started_at
  /\ Len(m_msgs) <= posted

OwnTypes ==
  /\ m_rx_thread \in {"null", "running", "ended"}
  /\ controller \in BOOLEAN
  /\ app \in {"idle", "starting", "creating", "stopping", "joining"}

IInv == MP!IInv /\ SP!IInv /\ OwnTypes /\ SessionInv

-----------------------------------------------------------------------------
LEMMA PartsAssumptions == MP!MailBoxAssumption /\ SP!DistinctThreads
  <1>1. MP!MailBoxAssumption
    BY CanPipelineAssumption DEF MP!MailBoxAssumption
  <1>2. SP!DistinctThreads
    BY CanPipelineAssumption DEF SP!DistinctThreads
  <1>3. QED
    BY <1>1, <1>2

LEMMA InitIInv == Init => IInv
  <1> SUFFICES ASSUME Init PROVE IInv
    OBVIOUS
  <1>1. MP!IInv
    <2>1. MP!Init
      BY DEF Init, MB!Init, MP!Init
    <2>2. QED
      BY <2>1, MP!InitIInv, PartsAssumptions
  <1>2. SP!IInv
    <2>1. SP!Init
      BY DEF Init, S!Init, SP!Init, S!Thread, SP!Thread
    <2>2. QED
      BY <2>1, SP!InitIInv, PartsAssumptions
  <1>3. OwnTypes
    BY DEF Init, OwnTypes
  <1>4. SessionInv
    BY DEF Init, MB!Init, SessionInv
  <1>5. QED
    BY <1>1, <1>2, <1>3, <1>4 DEF IInv

-----------------------------------------------------------------------------
(* Every operation the pipeline uses is a step of the part it belongs to.  *)
LEMMA MailboxSteps ==
  /\ \A b \in BOOLEAN : MB!Clear(b) => MP!Next
  /\ MB!PostBounded => MP!Next
  /\ MB!WaitTake(Rx) \/ MB!WakeTake(Rx) => MP!Next
  /\ MB!WaitBlock(Rx) \/ MB!WakeAgain(Rx) => MP!Next
  /\ MB!SpuriousWakeup(Rx) => MP!Next
  /\ MB!WakeCancelled(Rx) => MP!Next
  <1>1. ASSUME NEW b \in BOOLEAN
        PROVE MB!Clear(b) => MP!Next
    <2>1. MB!Clear(b) => MP!Clear(b)
      BY DEF MB!Clear, MP!Clear, MB!NotifyAll, MP!NotifyAll, MB!Elements, MP!Elements
    <2>2. QED
      BY <2>1 DEF MP!Next
  <1>2. MB!PostBounded => MP!Next
    <2>1. MB!PostBounded => MP!PostBounded
      BY DEF MB!PostBounded, MP!PostBounded, MB!Post, MP!Post, MB!NotifyAll,
             MP!NotifyAll
    <2>2. QED
      BY <2>1 DEF MP!Next
  <1>3. MB!WaitTake(Rx) \/ MB!WakeTake(Rx) => MP!WaitTake(Rx) \/ MP!WakeTake(Rx)
    BY DEF MB!WaitTake, MP!WaitTake, MB!WakeTake, MP!WakeTake, MB!PopFront,
           MP!PopFront, MB!Leave, MP!Leave
  <1>4. MB!WaitBlock(Rx) \/ MB!WakeAgain(Rx) => MP!WaitBlock(Rx) \/ MP!WakeAgain(Rx)
    BY DEF MB!WaitBlock, MP!WaitBlock, MB!WakeAgain, MP!WakeAgain
  <1>5. MB!SpuriousWakeup(Rx) => MP!SpuriousWakeup(Rx)
    BY DEF MB!SpuriousWakeup, MP!SpuriousWakeup
  <1>6. MB!WakeCancelled(Rx) => MP!WakeCancelled(Rx)
    BY DEF MB!WakeCancelled, MP!WakeCancelled, MB!Leave, MP!Leave
  <1>7. Rx \in {Rx}
    OBVIOUS
  <1>8. QED
    BY <1>1, <1>2, <1>3, <1>4, <1>5, <1>6, <1>7 DEF MP!Next

LEMMA SuspenderSteps ==
  /\ \A d \in Nat : S!Receive(Rx, d) => SP!Next
  /\ S!RxStep => SP!Next
  /\ S!AppStep => SP!Next
  /\ S!Suspend(App) => SP!Next
  /\ S!ResumeCall(App) => SP!Next
  <1>1. ASSUME NEW d \in Nat
        PROVE S!Receive(Rx, d) => SP!Receive(Rx, d)
    BY DEF S!Receive, SP!Receive, S!Goto, SP!Goto
  <1>2. S!RxStep => SP!RxStep
    <2>1. S!Check(Rx) => SP!Check(Rx)
      BY DEF S!Check, SP!Check, S!Goto, SP!Goto, S!Forward, SP!Forward
    <2>2. S!LockedCheck(Rx) => SP!LockedCheck(Rx)
      BY DEF S!LockedCheck, SP!LockedCheck, S!Goto, SP!Goto, S!Forward, SP!Forward
    <2>3. S!DispatchReturn(Rx) => SP!DispatchReturn(Rx)
      BY DEF S!DispatchReturn, SP!DispatchReturn, S!Goto, SP!Goto
    <2>4. ASSUME NEW c \in Child
          PROVE S!Dispatch(Rx, c) => SP!Dispatch(Rx, c)
      BY DEF S!Dispatch, SP!Dispatch
    <2>5. QED
      BY <2>1, <2>2, <2>3, <2>4 DEF S!RxStep, SP!RxStep
  <1>3. S!AppStep => SP!AppStep
    <2>1. S!ResumeLock(App) => SP!ResumeLock(App)
      BY DEF S!ResumeLock, SP!ResumeLock, S!Goto, SP!Goto
    <2>2. S!ResumeNext(App) => SP!ResumeNext(App)
      BY DEF S!ResumeNext, SP!ResumeNext
    <2>3. S!ResumeReturn(App) => SP!ResumeReturn(App)
      BY DEF S!ResumeReturn, SP!ResumeReturn, S!Goto, SP!Goto
    <2>4. ASSUME NEW c \in Child
          PROVE S!ResumeDispatch(App, c) => SP!ResumeDispatch(App, c)
      BY DEF S!ResumeDispatch, SP!ResumeDispatch
    <2>5. QED
      BY <2>1, <2>2, <2>3, <2>4 DEF S!AppStep, SP!AppStep
  <1>4. S!Suspend(App) => SP!Suspend(App)
    BY DEF S!Suspend, SP!Suspend
  <1>5. S!ResumeCall(App) => SP!ResumeCall(App)
    BY DEF S!ResumeCall, SP!ResumeCall, S!Goto, SP!Goto
  <1>6. QED
    BY <1>1, <1>2, <1>3, <1>4, <1>5 DEF SP!Next

LEMMA StepOfParts ==
  ASSUME m_msgs \in Seq(Nat), Next
  PROVE /\ MP!Next \/ UNCHANGED mailbox
        /\ SP!Next \/ UNCHANGED suspender
  <1> USE MailboxSteps, SuspenderSteps
  <1>1. CASE StartClear \/ StopClear
    BY <1>1 DEF StartClear, StopClear
  <1>2. CASE StartController \/ StartThread \/ StopController \/ StopJoin
    BY <1>2 DEF StartController, StartThread, StopController, StopJoin
  <1>3. CASE Suspend \/ Resume \/ ResumeStep
    BY <1>3 DEF Suspend, Resume, ResumeStep
  <1>4. CASE Send \/ ControllerData
    BY <1>4 DEF Send, ControllerData
  <1>5. CASE RxTake
    <2>1. m_msgs # <<>>
      BY <1>5 DEF RxTake, MB!WaitTake, MB!WakeTake
    <2>2. Head(m_msgs) \in Nat
      BY <2>1
    <2>3. QED
      BY <1>5, <2>2 DEF RxTake
  <1>6. CASE RxWait \/ RxSpuriousWakeup \/ RxCancelled \/ RxStage
    BY <1>6 DEF RxWait, RxSpuriousWakeup, RxCancelled, RxStage
  <1>7. QED
    BY <1>1, <1>2, <1>3, <1>4, <1>5, <1>6 DEF Next

-----------------------------------------------------------------------------
(* The mailbox never holds data older than the last start(): start() has   *)
(* emptied it, and what is posted later has a greater number.              *)
LEMMA PostSession ==
  ASSUME IInv, MB!PostBounded, started_at' = started_at
  PROVE SessionInv'
  <1>1. /\ m_msgs \in Seq(Nat) /\ posted \in Nat
        /\ m_msgs' = Append(m_msgs, posted + 1) /\ posted' = posted + 1
    BY DEF IInv, MP!IInv, MP!WakeInv, MP!TypeOK, MB!PostBounded, MB!Post
  <1>2. ASSUME NEW i \in DOMAIN m_msgs'
        PROVE m_msgs'[i] > started_at
    <2>1. i \in DOMAIN m_msgs \/ m_msgs'[i] = posted + 1
      BY <1>1
    <2>2. i \in DOMAIN m_msgs => m_msgs'[i] = m_msgs[i]
      BY <1>1
    <2>3. QED
      BY <1>1, <2>1, <2>2 DEF IInv, SessionInv
  <1>3. QED
    BY <1>1, <1>2 DEF IInv, SessionInv

LEMMA RxTakeSession ==
  ASSUME IInv, RxTake
  PROVE SessionInv'
  <1>1. /\ m_msgs \in Seq(Nat) /\ m_msgs # <<>>
        /\ m_msgs' = Tail(m_msgs) /\ posted' = posted /\ started_at' = started_at
    BY DEF IInv, MP!IInv, MP!WakeInv, MP!TypeOK, RxTake, MB!WaitTake, MB!WakeTake,
           MB!PopFront, own
  <1>2. ASSUME NEW i \in DOMAIN m_msgs'
        PROVE m_msgs'[i] > started_at
    <2>1. i + 1 \in DOMAIN m_msgs /\ m_msgs'[i] = m_msgs[i + 1]
      BY <1>1
    <2>2. QED
      BY <2>1 DEF IInv, SessionInv
  <1>3. posted \in Nat /\ Len(m_msgs') <= Len(m_msgs) /\ Len(m_msgs') \in Nat
    BY <1>1 DEF IInv, MP!IInv, MP!WakeInv, MP!TypeOK
  <1>4. Len(m_msgs') <= posted'
    BY <1>1, <1>3 DEF IInv, SessionInv
  <1>5. QED
    BY <1>1, <1>2, <1>4 DEF IInv, SessionInv

LEMMA NextIInv ==
  ASSUME IInv, [Next]_vars
  PROVE IInv'
  <1>1. MP!IInv'
    <2>1. m_msgs \in Seq(Nat)
      BY DEF IInv, MP!IInv, MP!WakeInv, MP!TypeOK
    <2>2. [MP!Next]_MP!vars
      BY <2>1, StepOfParts DEF vars, mailbox, MP!vars
    <2>3. QED
      BY <2>2, MP!NextIInv, PartsAssumptions DEF IInv
  <1>2. SP!IInv'
    <2>1. m_msgs \in Seq(Nat)
      BY DEF IInv, MP!IInv, MP!WakeInv, MP!TypeOK
    <2>2. [SP!Next]_SP!vars
      BY <2>1, StepOfParts DEF vars, suspender, SP!vars
    <2>3. QED
      BY <2>2, SP!NextIInv, PartsAssumptions DEF IInv
  <1>3. OwnTypes'
    <2>1. OwnTypes
      BY DEF IInv
    <2>2. QED
      BY <2>1
      DEF OwnTypes, vars, own, Next, StartClear, StartController, StartThread,
          StopController, StopClear, StopJoin, Suspend, Resume, ResumeStep, Send,
          ControllerData, RxTake, RxWait, RxSpuriousWakeup, RxCancelled, RxStage
  <1>4. SessionInv'
    <2>1. CASE StartClear \/ StopClear
      <3>1. posted \in Nat
        BY DEF IInv, MP!IInv, MP!WakeInv, MP!TypeOK
      <3>2. m_msgs' = <<>> /\ posted' = posted /\ started_at' \in {started_at, posted}
        BY <2>1 DEF StartClear, StopClear, MB!Clear
      <3>3. QED
        BY <3>1, <3>2 DEF IInv, SessionInv
    <2>2. CASE Send \/ ControllerData
      BY <2>2, PostSession DEF Send, ControllerData, own
    <2>3. CASE RxTake
      BY <2>3, RxTakeSession
    <2>4. CASE UNCHANGED <<m_msgs, posted, started_at>>
      BY <2>4 DEF IInv, SessionInv
    <2>5. QED
      BY <2>1, <2>2, <2>3, <2>4
      DEF vars, mailbox, own, Next, StartController, StartThread, StopController,
          StopJoin, Suspend, Resume, ResumeStep, RxWait, RxSpuriousWakeup,
          RxCancelled, RxStage, MB!WaitBlock, MB!WakeAgain, MB!SpuriousWakeup,
          MB!WakeCancelled
  <1>5. QED
    BY <1>1, <1>2, <1>3, <1>4 DEF IInv

LEMMA SpecIInv == Spec => []IInv
  <1>1. QED
    BY InitIInv, NextIInv, PTL DEF Spec, SafetySpec

-----------------------------------------------------------------------------
(* Every variable of the pipeline has its type. *)
THEOREM PipelineTypeOK == Spec => []TypeOK
  <1>1. ASSUME IInv PROVE TypeOK
    <2>1. MP!TypeOK /\ SP!TypeOK /\ OwnTypes /\ started_at \in Nat
          /\ next <= Len(m_can_data) + 1
      BY <1>1 DEF IInv, MP!IInv, MP!WakeInv, SP!IInv, SP!LockInv, SessionInv
    <2>2. MP!TypeOK => MB!TypeOK
      BY DEF MP!TypeOK, MB!TypeOK, MP!WaiterState, MB!WaiterState
    <2>3. SP!TypeOK => S!TypeOK
      BY DEF SP!TypeOK, S!TypeOK, SP!Thread, S!Thread, SP!Stage, S!Stage
    <2>4. QED
      BY <2>1, <2>2, <2>3 DEF TypeOK, OwnTypes
  <1>2. QED
    BY <1>1, SpecIInv, PTL

(* The reception thread only sleeps on an empty mailbox, whoever posts.    *)
THEOREM PipelineNoLostWakeup == Spec => []NoLostWakeup
  <1>1. ASSUME IInv PROVE NoLostWakeup
    BY <1>1 DEF IInv, MP!IInv, MP!WakeInv, MP!NoLostWakeup, NoLostWakeup,
                MB!NoLostWakeup
  <1>2. QED
    BY <1>1, SpecIInv, PTL

(* Suspending, resuming, stopping and starting the pipeline while data     *)
(* arrives loses, repeats and reorders nothing of what is taken from its   *)
(* mailbox.                                                                *)
THEOREM PipelineKeepsOrder == Spec => []DispatchKeepsOrder
  <1>1. ASSUME IInv PROVE DispatchKeepsOrder
    <2>1. SP!NothingLostNorReordered
      BY <1>1, SP!PrefixKeptHand, PartsAssumptions DEF IInv
    <2>2. SP!NothingLostNorReordered => S!NothingLostNorReordered
      BY DEF SP!NothingLostNorReordered, S!NothingLostNorReordered, SP!Kept, S!Kept,
             SP!InHand, S!InHand
    <2>3. QED
      BY <2>1, <2>2 DEF DispatchKeepsOrder
  <1>2. QED
    BY <1>1, SpecIInv, PTL

(* Its two threads are never in the children, which have no lock, at the   *)
(* same time.                                                              *)
THEOREM PipelineCallsFromOneThread == Spec => []ChildrenCalledByOneThread
  <1>1. ASSUME IInv PROVE ChildrenCalledByOneThread
    <2>1. SP!ChildrenCalledByOneThread
      BY <1>1, SP!OneThreadCalls, PartsAssumptions DEF IInv
    <2>2. QED
      BY <2>1 DEF SP!ChildrenCalledByOneThread, S!ChildrenCalledByOneThread,
                  SP!CallsChildren, S!CallsChildren, ChildrenCalledByOneThread
  <1>2. QED
    BY <1>1, SpecIInv, PTL

(* A session never receives data of an earlier one. *)
THEOREM PipelineMailboxIsOfThisSession == Spec => []MailboxIsOfThisSession
  <1>1. ASSUME IInv PROVE MailboxIsOfThisSession
    BY <1>1 DEF IInv, SessionInv, MailboxIsOfThisSession
  <1>2. QED
    BY <1>1, SpecIInv, PTL

-----------------------------------------------------------------------------
(* The pipeline implements the channel.  What a child has still to see is  *)
(* what was received after the data it has seen, then the mailbox.         *)
Rest(c) == After(received, Len(delivered[c]))

Pending == [c \in Child |-> S!Kept(c) \o S!InHand(c) \o m_msgs]

LEMMA Queues ==
  ASSUME IInv
  PROVE /\ m_msgs \in Seq(Nat) /\ posted \in Nat /\ received \in Seq(Nat)
        /\ delivered \in [Child -> Seq(Nat)]
        /\ Len(m_msgs) <= posted
  <1>1. QED
    BY DEF IInv, MP!IInv, MP!WakeInv, MP!TypeOK, SP!IInv, SP!TypeOK, SessionInv

LEMMA SeenIsAPrefix ==
  ASSUME IInv, NEW c \in Child
  PROVE /\ Len(delivered[c]) \in 0..Len(received)
        /\ \A i \in 1..Len(delivered[c]) : received[i] = delivered[c][i]
        /\ S!Kept(c) \o S!InHand(c) = Rest(c)
        /\ Rest(c) \in Seq(Nat)
  <1> DEFINE k == SP!Kept(c)
  <1> DEFINE h == SP!InHand(c)
  <1> DEFINE d == delivered[c]
  <1>1. k \in Seq(Nat) /\ h \in Seq(Nat)
    BY SP!KeptIsASegment, SP!InHandIsTheLast, PartsAssumptions DEF IInv
  <1>2. (d \o k) \o h = received
    BY SP!PrefixKeptHand, PartsAssumptions DEF IInv, SP!NothingLostNorReordered
  <1>3. d \in Seq(Nat)
    BY Queues
  <1>4. S!Kept(c) = k /\ S!InHand(c) = h
    BY DEF SP!Kept, S!Kept, SP!InHand, S!InHand
  <1> HIDE DEF k, h, d
  <1>5. d \o (k \o h) = received
    <2>1. (d \o k) \o h = d \o (k \o h)
      BY <1>1, <1>3, ConcatAssociative
    <2>2. QED
      BY <1>2, <2>1
  <1>6. k \o h \in Seq(Nat)
    BY <1>1, ConcatProperties
  <1>7. /\ Len(d) \in 0..Len(received)
        /\ \A i \in 1..Len(d) : received[i] = d[i]
        /\ After(received, Len(d)) = k \o h
    BY <1>3, <1>5, <1>6, AfterConcat
  <1>8. QED
    BY <1>4, <1>6, <1>7 DEF Rest, d

LEMMA PendingIsRest == IInv => Pending = [c \in Child |-> Rest(c) \o m_msgs]
  <1>1. QED
    BY SeenIsAPrefix DEF Pending

LEMMA PendingIsRestNext ==
  IInv' => Pending' = [c \in Child |-> Rest(c)' \o m_msgs']
  <1>1. IInv' => (Pending = [c \in Child |-> Rest(c) \o m_msgs])'
    BY PendingIsRest, PTL
  <1>2. QED
    BY <1>1

(* A step that moves no datum is a stuttering step of the channel. *)
LEMMA QuietStutters ==
  ASSUME IInv, IInv', UNCHANGED <<posted, received, delivered, m_msgs>>
  PROVE UNCHANGED Channel!vars
  <1>1. Pending' = [c \in Child |-> Rest(c)' \o m_msgs']
    BY PendingIsRestNext
  <1>2. \A c \in Child : Rest(c)' = Rest(c)
    BY DEF Rest
  <1>3. Pending' = Pending
    BY <1>1, <1>2, PendingIsRest
  <1>4. QED
    BY <1>3 DEF Pending, Channel!vars

LEMMA PostAccepts ==
  ASSUME IInv, IInv', MB!PostBounded, UNCHANGED suspender
  PROVE Channel!Accept
  <1>1. m_msgs' = Append(m_msgs, posted + 1) /\ posted' = posted + 1
    BY DEF MB!PostBounded, MB!Post
  <1>2. \A c \in Child : Rest(c)' = Rest(c)
    BY DEF Rest, suspender
  <1>3. Pending' = [c \in Child |-> Rest(c)' \o m_msgs']
    BY PendingIsRestNext
  <1>4. ASSUME NEW c \in Child
        PROVE Rest(c) \o Append(m_msgs, posted + 1) = Append(Rest(c) \o m_msgs, posted + 1)
    BY Queues, SeenIsAPrefix, TwoQueues
  <1>5. Pending' = [c \in Child |-> Append(Pending[c], posted + 1)]
    BY <1>1, <1>2, <1>3, <1>4, PendingIsRest
  <1>6. delivered' = delivered
    BY DEF suspender
  <1>7. QED
    BY <1>1, <1>5, <1>6 DEF Pending, Channel!Accept

LEMMA ClearDiscards ==
  ASSUME IInv, IInv', m_msgs' = <<>>, UNCHANGED <<posted, received, delivered>>
  PROVE Channel!Next \/ UNCHANGED Channel!vars
  <1>1. CASE m_msgs = <<>>
    BY <1>1, QuietStutters
  <1>2. CASE m_msgs # <<>>
    <2> DEFINE n == Len(m_msgs)
    <2>1. n \in 1..posted
      BY <1>2, Queues, EmptySeq
    <2>2. Pending' = [c \in Child |-> Rest(c)' \o m_msgs']
      BY PendingIsRestNext
    <2>3. ASSUME NEW c \in Child
          PROVE /\ Rest(c)' \o m_msgs' = Rest(c)
                /\ n <= Len(Rest(c) \o m_msgs)
                /\ Rest(c) = SubSeq(Rest(c) \o m_msgs, 1, Len(Rest(c) \o m_msgs) - n)
      <3>1. Rest(c)' = Rest(c) /\ Rest(c) \in Seq(Nat) /\ m_msgs \in Seq(Nat)
        BY Queues, SeenIsAPrefix DEF Rest
      <3>2. /\ Rest(c) \o <<>> = Rest(c)
            /\ Len(Rest(c) \o m_msgs) = Len(Rest(c)) + n
            /\ Rest(c) = SubSeq(Rest(c) \o m_msgs, 1, Len(Rest(c) \o m_msgs) - n)
        BY <3>1, TwoQueues
      <3>3. Len(Rest(c)) \in Nat /\ n \in Nat
        BY <3>1
      <3>4. n <= Len(Rest(c) \o m_msgs)
        BY <3>2, <3>3
      <3>5. QED
        BY <3>1, <3>2, <3>4
    <2> HIDE DEF n
    <2>4. /\ \A c \in Child : n <= Len(Pending[c])
          /\ Pending' = [c \in Child |-> SubSeq(Pending[c], 1, Len(Pending[c]) - n)]
      BY <2>2, <2>3, PendingIsRest
    <2>5. Channel!DiscardNewest(n)
      BY <2>4 DEF Pending, Channel!DiscardNewest
    <2>6. QED
      BY <2>1, <2>5 DEF Channel!Next
  <1>3. QED
    BY <1>1, <1>2

LEMMA RxTakeMovesHead ==
  ASSUME IInv, IInv', RxTake
  PROVE UNCHANGED Channel!vars
  <1>1. /\ m_msgs # <<>> /\ m_msgs' = Tail(m_msgs)
        /\ posted' = posted /\ delivered' = delivered
        /\ received' = Append(received, Head(m_msgs))
    BY DEF RxTake, MB!WaitTake, MB!WakeTake, MB!PopFront, S!Receive
  <1>2. Head(m_msgs) \in Nat
    BY <1>1, Queues
  <1>3. ASSUME NEW c \in Child
        PROVE Rest(c)' \o m_msgs' = Rest(c) \o m_msgs
    <2>1. Rest(c)' = After(received', Len(delivered[c]))
      BY <1>1 DEF Rest
    <2>2. After(received', Len(delivered[c])) = Append(Rest(c), Head(m_msgs))
      BY <1>1, <1>2, Queues, SeenIsAPrefix, AfterAppend DEF Rest
    <2>3. Append(Rest(c), Head(m_msgs)) \o Tail(m_msgs) = Rest(c) \o m_msgs
      BY <1>1, <1>2, Queues, SeenIsAPrefix, TwoQueues
    <2>4. QED
      BY <1>1, <2>1, <2>2, <2>3
  <1>4. Pending' = Pending
    BY <1>3, PendingIsRest, PendingIsRestNext
  <1>5. QED
    BY <1>1, <1>4 DEF Pending, Channel!vars

LEMMA SeenIsAPrefixNext ==
  IInv' => \A c \in Child : /\ Len(delivered'[c]) \in 0..Len(received')
                            /\ \A i \in 1..Len(delivered'[c]) :
                                  received'[i] = delivered'[c][i]
  <1> DEFINE P == \A c \in Child : /\ Len(delivered[c]) \in 0..Len(received)
                                    /\ \A i \in 1..Len(delivered[c]) :
                                          received[i] = delivered[c][i]
  <1>1. IInv => P
    BY SeenIsAPrefix
  <1>2. IInv' => P'
    BY <1>1, PTL
  <1>3. QED
    BY <1>2

(* Calling a child is Deliver: the invariant of the next state makes what  *)
(* it is called with the first datum it has still to see.                  *)
LEMMA CallDelivers ==
  ASSUME IInv, IInv', NEW c \in Child, NEW x \in Nat,
         UNCHANGED <<posted, received, m_msgs>>,
         delivered' = [delivered EXCEPT ![c] = Append(@, x)]
  PROVE Channel!Deliver(c)
  <1> DEFINE n == Len(delivered[c])
  <1>1. /\ delivered'[c] = Append(delivered[c], x)
        /\ delivered[c] \in Seq(Nat)
        /\ \A d \in Child \ {c} : delivered'[d] = delivered[d]
    BY Queues
  <1>2. n \in Nat /\ Len(delivered'[c]) = n + 1 /\ delivered'[c][n + 1] = x
    BY <1>1
  <1>3. n + 1 <= Len(received) /\ received[n + 1] = x /\ Len(received) \in Nat
    BY <1>2, SeenIsAPrefixNext, Queues
  <1>4. Rest(c)' = After(received, n + 1)
    BY <1>2 DEF Rest
  <1>5. Rest(c) # <<>> /\ Head(Rest(c)) = x /\ Rest(c)' = Tail(Rest(c))
    <2>1. n \in 0..Len(received) /\ n # Len(received) /\ received \in Seq(Nat)
      BY <1>2, <1>3, Queues
    <2>2. Rest(c) = After(received, n)
      BY DEF Rest
    <2> HIDE DEF n
    <2>3. QED
      BY <1>3, <1>4, <2>1, <2>2, AfterNext
  <1>6. /\ Rest(c) \o m_msgs # <<>>
        /\ Head(Rest(c) \o m_msgs) = x
        /\ Tail(Rest(c) \o m_msgs) = Rest(c)' \o m_msgs
    <2>1. Rest(c) \in Seq(Nat) /\ m_msgs \in Seq(Nat)
      BY Queues, SeenIsAPrefix
    <2>2. /\ Rest(c) \o m_msgs # <<>>
          /\ Head(Rest(c) \o m_msgs) = Head(Rest(c))
          /\ Tail(Rest(c) \o m_msgs) = Tail(Rest(c)) \o m_msgs
      BY <1>5, <2>1, TwoQueues
    <2>3. QED
      BY <1>5, <2>2
  <1>7. \A d \in Child \ {c} : Rest(d)' = Rest(d)
    BY <1>1 DEF Rest
  <1>8. /\ Pending[c] # <<>> /\ Head(Pending[c]) = x
        /\ Pending' = [Pending EXCEPT ![c] = Tail(@)]
    <2>1. /\ Pending = [d \in Child |-> Rest(d) \o m_msgs]
          /\ Pending' = [d \in Child |-> Rest(d)' \o m_msgs]
      BY PendingIsRest, PendingIsRestNext
    <2>2. Pending[c] = Rest(c) \o m_msgs
      BY <2>1
    <2>3. Pending' = [Pending EXCEPT ![c] = Rest(c)' \o m_msgs]
      BY <1>7, <2>1
    <2>4. QED
      BY <1>6, <2>2, <2>3
  <1>9. QED
    BY <1>8 DEF Pending, Channel!Deliver

LEMMA StepOfChannel ==
  ASSUME IInv, IInv', Next
  PROVE Channel!Next \/ UNCHANGED Channel!vars
  <1>1. CASE StartClear \/ StopClear
    <2>1. m_msgs' = <<>> /\ UNCHANGED <<posted, received, delivered>>
      BY <1>1 DEF StartClear, StopClear, MB!Clear, suspender
    <2>2. QED
      BY <2>1, ClearDiscards
  <1>2. CASE Send \/ ControllerData
    <2>1. Channel!Accept
      BY <1>2, PostAccepts DEF Send, ControllerData
    <2>2. QED
      BY <2>1 DEF Channel!Next
  <1>3. CASE RxTake
    BY <1>3, RxTakeMovesHead
  <1>4. CASE RxStage
    <2>1. CASE \E c \in Child : S!Dispatch(Rx, c)
      <3>1. PICK c \in Child : S!Dispatch(Rx, c)
        BY <2>1
      <3>2. cur[Rx] \in Nat
        BY DEF IInv, SP!IInv, SP!TypeOK, SP!Thread
      <3>3. Channel!Deliver(c)
        BY <1>4, <3>1, <3>2, CallDelivers DEF RxStage, mailbox, S!Dispatch
      <3>4. QED
        BY <3>3 DEF Channel!Next
    <2>2. CASE S!Check(Rx) \/ S!LockedCheck(Rx) \/ S!DispatchReturn(Rx)
      BY <1>4, <2>2, QuietStutters
      DEF RxStage, mailbox, S!Check, S!LockedCheck, S!DispatchReturn
    <2>3. QED
      BY <1>4, <2>1, <2>2 DEF RxStage, S!RxStep
  <1>5. CASE ResumeStep
    <2>1. CASE \E c \in Child : S!ResumeDispatch(App, c)
      <3>1. PICK c \in Child : S!ResumeDispatch(App, c)
        BY <2>1
      <3>2. m_can_data[next] \in Nat
        BY <3>1 DEF IInv, SP!IInv, SP!TypeOK, S!ResumeDispatch
      <3>3. Channel!Deliver(c)
        BY <1>5, <3>1, <3>2, CallDelivers DEF ResumeStep, mailbox, S!ResumeDispatch
      <3>4. QED
        BY <3>3 DEF Channel!Next
    <2>2. CASE S!ResumeLock(App) \/ S!ResumeNext(App) \/ S!ResumeReturn(App)
      BY <1>5, <2>2, QuietStutters
      DEF ResumeStep, mailbox, S!ResumeLock, S!ResumeNext, S!ResumeReturn
    <2>3. QED
      BY <1>5, <2>1, <2>2 DEF ResumeStep, S!AppStep
  <1>6. CASE UNCHANGED <<posted, received, delivered, m_msgs>>
    BY <1>6, QuietStutters
  <1>7. QED
    BY <1>1, <1>2, <1>3, <1>4, <1>5, <1>6
    DEF Next, StartController, StartThread, StopController, StopJoin, Suspend,
        Resume, RxWait, RxSpuriousWakeup, RxCancelled, mailbox, suspender,
        MB!WaitBlock, MB!WakeAgain, MB!SpuriousWakeup, MB!WakeCancelled,
        S!Suspend, S!ResumeCall

(* The pipeline, whatever is started, stopped, suspended and resumed while *)
(* data arrives, is the channel its stages are promised.                   *)
THEOREM PipelineImplementsChannel == Spec => ImplementsChannel
  <1>1. Init => Channel!Init
    <2> SUFFICES ASSUME Init PROVE Channel!Init
      OBVIOUS
    <2>1. \A c \in Child : S!Kept(c) \o S!InHand(c) \o m_msgs = <<>>
      BY DEF Init, MB!Init, S!Init, S!Kept, S!InHand, S!Thread
    <2>2. QED
      BY <2>1 DEF Init, MB!Init, S!Init, Channel!Init
  <1>2. ASSUME IInv, IInv', [Next]_vars
        PROVE [Channel!Next]_Channel!vars
    <2>1. CASE Next
      BY <1>2, <2>1, StepOfChannel
    <2>2. CASE UNCHANGED vars
      BY <1>2, <2>2, QuietStutters DEF vars, mailbox, suspender
    <2>3. QED
      BY <1>2, <2>1, <2>2
  <1>3. QED
    BY <1>1, <1>2, SpecIInv, PTL DEF ImplementsChannel, Channel!Spec, Spec, SafetySpec

=============================================================================
