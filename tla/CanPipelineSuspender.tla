----------------------- MODULE CanPipelineSuspender -----------------------
(***************************************************************************)
(* CanPipelineSuspender (libs/pipeline), the stage at the head of every    *)
(* CanPipeline, with the part of CanPipelineStageBase it runs.  While it   *)
(* is suspended the data received is kept; resume() replays it.            *)
(*                                                                         *)
(* m_is_suspended is a plain bool, written by suspend() without m_mutex    *)
(* and read by processCanData() once without and once with it, so a step   *)
(* lies between the two reads.  Children are called one after the other,   *)
(* in the unspecified order of an unordered_set, outside the mutex by      *)
(* canDataReceived() and inside it by resume().                            *)
(***************************************************************************)
EXTENDS Naturals, Sequences, FiniteSets

CONSTANTS
  Rx,          \* the thread that feeds the stage
  App,         \* the thread that suspends and resumes it
  NoThread,    \* owner of a free mutex
  Child        \* m_childs: the stages data is dispatched to

(* What a composition with this stage has to give it. *)
DistinctThreads == Rx # App /\ NoThread \notin {Rx, App}

Thread == {Rx, App}

VARIABLES
  m_is_suspended,
  m_mutex,     \* the thread holding it, or NoThread
  m_can_data,  \* data kept while suspended
  stage,       \* per thread: where it is inside the stage
  cur,         \* per thread: the can_data argument of canDataReceived()
  todo,        \* per thread: children its dispatchCanData() has yet to call
  next,        \* the i of the loop in resume()
  received,    \* history: data passed to canDataReceived(), in order
  delivered    \* history: data each child has been called with, in order

vars == <<m_is_suspended, m_mutex, m_can_data, stage, cur, todo, next,
          received, delivered>>

Stage == {"outside", "check", "lock", "dispatch", "resume", "resuming"}

Init ==
  /\ m_is_suspended = FALSE
  /\ m_mutex = NoThread
  /\ m_can_data = <<>>
  /\ stage = [t \in Thread |-> "outside"]
  /\ cur = [t \in Thread |-> 0]
  /\ todo = [t \in Thread |-> {}]
  /\ next = 1
  /\ received = <<>>
  /\ delivered = [c \in Child |-> <<>>]

Goto(t, s) == stage' = [stage EXCEPT ![t] = s]

-----------------------------------------------------------------------------
(* canDataReceived() and processCanData()                                  *)

Receive(t, can_data) ==
  /\ stage[t] = "outside"
  /\ cur' = [cur EXCEPT ![t] = can_data]
  /\ received' = Append(received, can_data)
  /\ Goto(t, "check")
  /\ UNCHANGED <<m_is_suspended, m_mutex, m_can_data, todo, next, delivered>>

Forward(t) ==
  /\ Goto(t, "dispatch")
  /\ todo' = [todo EXCEPT ![t] = Child]

(* The first read of m_is_suspended, without the mutex. *)
Check(t) ==
  /\ stage[t] = "check"
  /\ IF m_is_suspended THEN Goto(t, "lock") /\ UNCHANGED todo ELSE Forward(t)
  /\ UNCHANGED <<m_is_suspended, m_mutex, m_can_data, cur, next, received,
                 delivered>>

(* Mutants: the flag is not read again with the mutex, the mutex is not    *)
(* released.                                                               *)
LockedCheckOnce(t) ==
  /\ stage[t] = "lock"
  /\ m_mutex = NoThread
  /\ m_can_data' = Append(m_can_data, cur[t])
  /\ Goto(t, "outside")
  /\ UNCHANGED <<m_is_suspended, m_mutex, cur, todo, next, received, delivered>>

LockedCheckHeld(t) ==
  /\ stage[t] = "lock"
  /\ m_mutex = NoThread
  /\ m_mutex' = t
  /\ \/ /\ m_is_suspended
        /\ m_can_data' = Append(m_can_data, cur[t])
        /\ Goto(t, "outside")
        /\ UNCHANGED todo
     \/ /\ ~m_is_suspended
        /\ Forward(t)
        /\ UNCHANGED m_can_data
  /\ UNCHANGED <<m_is_suspended, cur, next, received, delivered>>

(* The second read, with the mutex: the data is kept or forwarded. *)
LockedCheck(t) ==
  /\ stage[t] = "lock"
  /\ m_mutex = NoThread
  /\ \/ /\ m_is_suspended
        /\ m_can_data' = Append(m_can_data, cur[t])
        /\ Goto(t, "outside")
        /\ UNCHANGED todo
     \/ /\ ~m_is_suspended
        /\ Forward(t)
        /\ UNCHANGED m_can_data
  /\ UNCHANGED <<m_is_suspended, m_mutex, cur, next, received, delivered>>

Dispatch(t, c) ==
  /\ stage[t] = "dispatch"
  /\ c \in todo[t]
  /\ delivered' = [delivered EXCEPT ![c] = Append(@, cur[t])]
  /\ todo' = [todo EXCEPT ![t] = @ \ {c}]
  /\ UNCHANGED <<m_is_suspended, m_mutex, m_can_data, stage, cur, next, received>>

DispatchReturn(t) ==
  /\ stage[t] = "dispatch"
  /\ todo[t] = {}
  /\ Goto(t, "outside")
  /\ UNCHANGED <<m_is_suspended, m_mutex, m_can_data, cur, todo, next, received,
                 delivered>>

-----------------------------------------------------------------------------
Suspend(t) ==
  /\ stage[t] = "outside"
  /\ m_is_suspended' = TRUE
  /\ UNCHANGED <<m_mutex, m_can_data, stage, cur, todo, next, received, delivered>>

(* resume() waits for the mutex and keeps it while it replays the data,    *)
(* until the flag is reset.                                                *)
ResumeCall(t) ==
  /\ stage[t] = "outside"
  /\ Goto(t, "resume")
  /\ UNCHANGED <<m_is_suspended, m_mutex, m_can_data, cur, todo, next, received,
                 delivered>>

(* Mutant: the flag is reset before the data is replayed. *)
ResumeLockReset(t) ==
  /\ stage[t] = "resume"
  /\ m_mutex = NoThread
  /\ m_mutex' = t
  /\ m_is_suspended' = FALSE
  /\ next' = 1
  /\ todo' = [todo EXCEPT ![t] = Child]
  /\ Goto(t, "resuming")
  /\ UNCHANGED <<m_can_data, cur, received, delivered>>

ResumeLock(t) ==
  /\ stage[t] = "resume"
  /\ m_mutex = NoThread
  /\ m_mutex' = t
  /\ next' = 1
  /\ todo' = [todo EXCEPT ![t] = Child]
  /\ Goto(t, "resuming")
  /\ UNCHANGED <<m_is_suspended, m_can_data, cur, received, delivered>>

ResumeDispatch(t, c) ==
  /\ stage[t] = "resuming"
  /\ next <= Len(m_can_data)
  /\ c \in todo[t]
  /\ delivered' = [delivered EXCEPT ![c] = Append(@, m_can_data[next])]
  /\ todo' = [todo EXCEPT ![t] = @ \ {c}]
  /\ UNCHANGED <<m_is_suspended, m_mutex, m_can_data, stage, cur, next, received>>

(* Mutant: what is replayed is erased and the index still advances. *)
ResumeNextErase(t) ==
  /\ stage[t] = "resuming"
  /\ next <= Len(m_can_data)
  /\ todo[t] = {}
  /\ next' = next + 1
  /\ m_can_data' = Tail(m_can_data)
  /\ todo' = [todo EXCEPT ![t] = Child]
  /\ UNCHANGED <<m_is_suspended, m_mutex, stage, cur, received, delivered>>

ResumeNext(t) ==
  /\ stage[t] = "resuming"
  /\ next <= Len(m_can_data)
  /\ todo[t] = {}
  /\ next' = next + 1
  /\ todo' = [todo EXCEPT ![t] = Child]
  /\ UNCHANGED <<m_is_suspended, m_mutex, m_can_data, stage, cur, received,
                 delivered>>

(* Mutant: the data replayed is kept. *)
ResumeReturnKept(t) ==
  /\ stage[t] = "resuming"
  /\ next > Len(m_can_data)
  /\ m_is_suspended' = FALSE
  /\ m_mutex' = NoThread
  /\ next' = 1
  /\ todo' = [todo EXCEPT ![t] = {}]
  /\ Goto(t, "outside")
  /\ UNCHANGED <<m_can_data, cur, received, delivered>>

ResumeReturn(t) ==
  /\ stage[t] = "resuming"
  /\ next > Len(m_can_data)
  /\ m_can_data' = <<>>
  /\ m_is_suspended' = FALSE
  /\ m_mutex' = NoThread
  /\ next' = 1
  /\ todo' = [todo EXCEPT ![t] = {}]
  /\ Goto(t, "outside")
  /\ UNCHANGED <<cur, received, delivered>>

-----------------------------------------------------------------------------
(* clear(): under the mutex, suspend() if need be, drop the data, then     *)
(* resume(), which locks the mutex its own caller still holds.             *)
ClearSuspended(t) ==
  /\ stage[t] = "outside"
  /\ m_mutex = NoThread
  /\ m_is_suspended
  /\ m_can_data' = <<>>
  /\ UNCHANGED <<m_is_suspended, m_mutex, stage, cur, todo, next, received,
                 delivered>>

ClearNotSuspended(t) ==
  /\ stage[t] = "outside"
  /\ m_mutex = NoThread
  /\ ~m_is_suspended
  /\ m_mutex' = t
  /\ m_is_suspended' = TRUE
  /\ m_can_data' = <<>>
  /\ Goto(t, "resume")
  /\ UNCHANGED <<cur, todo, next, received, delivered>>

-----------------------------------------------------------------------------
(* The stage in use: Rx feeds it, App suspends and resumes it.             *)
RxStep == \/ Check(Rx) \/ LockedCheck(Rx) \/ DispatchReturn(Rx)
          \/ \E c \in Child : Dispatch(Rx, c)

AppStep == \/ ResumeLock(App) \/ ResumeNext(App) \/ ResumeReturn(App)
           \/ \E c \in Child : ResumeDispatch(App, c)

Next ==
  \/ \E can_data \in Nat : Receive(Rx, can_data)
  \/ RxStep
  \/ Suspend(App)
  \/ ResumeCall(App)
  \/ AppStep

Spec == Init /\ [][Next]_vars

(* The same with clear(), which nothing in the repository calls. *)
ReceiveBounded == Len(received) < 2 /\ Receive(Rx, Len(received) + 1)

NextWithClear ==
  \/ ReceiveBounded
  \/ RxStep
  \/ Suspend(App)
  \/ ResumeCall(App)
  \/ AppStep
  \/ ClearSuspended(App)
  \/ ClearNotSuspended(App)

SpecWithClear ==
  Init /\ [][NextWithClear]_vars /\ WF_vars(RxStep) /\ WF_vars(AppStep)

-----------------------------------------------------------------------------
TypeOK ==
  /\ m_is_suspended \in BOOLEAN
  /\ m_mutex \in Thread \cup {NoThread}
  /\ m_can_data \in Seq(Nat)
  /\ stage \in [Thread -> Stage]
  /\ stage[Rx] \notin {"resume", "resuming"}
  /\ stage[App] \in {"outside", "resume", "resuming"}
  /\ cur \in [Thread -> Nat]
  /\ todo \in [Thread -> SUBSET Child]
  /\ next \in Nat \ {0}
  /\ received \in Seq(Nat)
  /\ delivered \in [Child -> Seq(Nat)]

(* What child c has still to be called with: what resume() has not replayed *)
(* to it yet, then the data the feeding thread has in hand.                 *)
Kept(c) ==
  IF stage[App] = "resuming"
  THEN SubSeq(m_can_data, IF c \in todo[App] THEN next ELSE next + 1, Len(m_can_data))
  ELSE m_can_data

InHand(c) ==
  IF stage[Rx] \in {"check", "lock"} \/ (stage[Rx] = "dispatch" /\ c \in todo[Rx])
  THEN <<cur[Rx]>> ELSE <<>>

(* Suspending and resuming loses no data, repeats none and keeps the order *)
(* for every child, wherever both threads are.                             *)
NothingLostNorReordered ==
  \A c \in Child : delivered[c] \o Kept(c) \o InHand(c) = received

(* The thread that feeds the stage and the thread that resumes it never    *)
(* call children at the same time; the children have no lock of their own. *)
CallsChildren(t) ==
  \/ stage[t] = "dispatch"
  \/ stage[t] = "resuming" /\ next <= Len(m_can_data)

ChildrenCalledByOneThread == ~(CallsChildren(Rx) /\ CallsChildren(App))

(* "Clear the message queue": clear() called by App comes back. *)
ClearReturns == (stage[App] # "outside") ~> (stage[App] = "outside")

=============================================================================
