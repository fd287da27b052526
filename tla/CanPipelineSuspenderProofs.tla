--------------------- MODULE CanPipelineSuspenderProofs ---------------------
(***************************************************************************)
(* Proofs about CanPipelineSuspender, for every set of children and every  *)
(* datum: suspending and resuming neither loses, repeats nor reorders data *)
(* and never has two threads in the children.                              *)
(*                                                                         *)
(* The invariant places what is kept and what was delivered inside the     *)
(* sequence of data received, position by position: with n data received,  *)
(* k kept and h (0 or 1) in the hand of Rx, the data kept is received at   *)
(* positions n-h-k+1 .. n-h, and every child has seen exactly a prefix.    *)
(***************************************************************************)
EXTENDS CanPipelineSuspender, SequenceTheorems, TLAPS

Hand == IF stage[Rx] = "outside" THEN 0 ELSE 1

Before == Len(received) - Hand - Len(m_can_data)

(* How many data of the ones kept, and of the one in hand, c has seen. *)
Replayed(c) ==
  IF stage[App] = "resuming"
  THEN IF c \in todo[App] THEN next - 1 ELSE next
  ELSE 0

Handed(c) == IF stage[Rx] = "dispatch" /\ c \notin todo[Rx] THEN 1 ELSE 0

LockInv ==
  /\ m_mutex \in {App, NoThread}
  /\ m_mutex = App <=> stage[App] = "resuming"
  /\ Len(m_can_data) > 0 => m_is_suspended
  /\ stage[Rx] = "dispatch" => m_can_data = <<>>
  /\ next <= Len(m_can_data) + 1
  /\ stage[App] = "resuming" /\ next > Len(m_can_data) => todo[App] = Child

PlaceInv ==
  /\ Before \in Nat
  /\ Hand = 1 => cur[Rx] = received[Len(received)]
  /\ \A i \in 1..Len(m_can_data) : m_can_data[i] = received[Before + i]
  /\ \A c \in Child :
       /\ Len(delivered[c]) = Before + Replayed(c) + Handed(c)
       /\ \A i \in 1..Len(delivered[c]) : delivered[c][i] = received[i]

IInv == DistinctThreads /\ TypeOK /\ LockInv /\ PlaceInv
-----------------------------------------------------------------------------
LEMMA InitIInv ==
  ASSUME DistinctThreads, Init
  PROVE IInv
  <1> USE DEF Init
  <1>1. TypeOK
    <2>1. m_mutex \in Thread \cup {NoThread} /\ m_is_suspended \in BOOLEAN
      OBVIOUS
    <2>2. stage \in [Thread -> Stage] /\ cur \in [Thread -> Nat]
      BY DEF Stage
    <2>3. stage[Rx] = "outside" /\ stage[App] = "outside"
      BY DEF Thread
    <2>4. todo \in [Thread -> SUBSET Child] /\ next \in Nat \ {0}
      OBVIOUS
    <2>5. m_can_data \in Seq(Nat) /\ received \in Seq(Nat)
      OBVIOUS
    <2>6. delivered \in [Child -> Seq(Nat)]
      OBVIOUS
    <2>7. QED
      BY <2>1, <2>2, <2>3, <2>4, <2>5, <2>6 DEF TypeOK
  <1>2. LockInv
    BY DEF DistinctThreads, LockInv, Thread
  <1>3. PlaceInv
    BY DEF PlaceInv, Thread, Before, Hand, Replayed, Handed
  <1>4. QED
    BY <1>1, <1>2, <1>3 DEF IInv

(* What the position arithmetic of every step rests on. *)
LEMMA Bounds ==
  ASSUME IInv
  PROVE /\ Len(received) \in Nat /\ Len(m_can_data) \in Nat /\ Before \in Nat
        /\ Hand \in {0, 1}
        /\ Len(received) = Before + Len(m_can_data) + Hand
        /\ \A c \in Child :
             /\ Replayed(c) \in 0..Len(m_can_data)
             /\ Handed(c) \in 0..Hand
             /\ Len(delivered[c]) \in Nat
             /\ Len(delivered[c]) = Before + Replayed(c) + Handed(c)
             /\ Len(delivered[c]) <= Len(received)
  <1> USE DEF IInv
  <1>1. Len(received) \in Nat /\ Len(m_can_data) \in Nat /\ Hand \in {0, 1}
    BY DEF TypeOK, Hand
  <1>2. Before \in Nat /\ Len(received) = Before + Len(m_can_data) + Hand
    BY <1>1 DEF PlaceInv, Before
  <1>3. ASSUME NEW c \in Child
        PROVE Replayed(c) \in 0..Len(m_can_data) /\ Handed(c) \in 0..Hand
    BY <1>1, <1>3 DEF TypeOK, LockInv, Replayed, Handed, Hand
  <1>4. ASSUME NEW c \in Child
        PROVE /\ Len(delivered[c]) = Before + Replayed(c) + Handed(c)
              /\ Len(delivered[c]) \in Nat
    BY DEF PlaceInv, TypeOK
  <1>5. QED
    BY <1>1, <1>2, <1>3, <1>4

LEMMA ReceiveIInv ==
  ASSUME IInv, NEW can_data \in Nat, Receive(Rx, can_data)
  PROVE IInv'
  <1> USE DEF IInv, DistinctThreads, Receive, Goto, Thread
  <1>1. TypeOK'
    BY DEF TypeOK, Stage
  <1>2. LockInv'
    BY DEF LockInv, TypeOK
  <1>3. /\ Hand = 0 /\ Hand' = 1
        /\ received' \in Seq(Nat)
        /\ Len(received') = Len(received) + 1
        /\ Before' = Before
        /\ cur'[Rx] = can_data
        /\ received'[Len(received')] = can_data
        /\ \A i \in 1..Len(received) : received'[i] = received[i]
    BY Bounds DEF Hand, Before, TypeOK
  <1>4. \A i \in 1..Len(m_can_data) : m_can_data[i] = received'[Before + i]
    <2> SUFFICES ASSUME NEW i \in 1..Len(m_can_data)
                 PROVE m_can_data[i] = received'[Before + i]
      OBVIOUS
    <2>1. Before + i \in 1..Len(received)
      BY Bounds
    <2>2. QED
      BY <1>3, <2>1 DEF PlaceInv
  <1>5. ASSUME NEW c \in Child
        PROVE /\ Len(delivered[c]) = Before + Replayed(c)' + Handed(c)'
              /\ \A i \in 1..Len(delivered[c]) : delivered[c][i] = received'[i]
    <2>1. Replayed(c)' = Replayed(c) /\ Handed(c)' = 0 /\ Handed(c) = 0
      BY DEF TypeOK, Replayed, Handed
    <2>2. QED
      BY <1>3, <2>1, Bounds DEF PlaceInv
  <1>6. PlaceInv'
    BY <1>3, <1>4, <1>5, Bounds DEF PlaceInv
  <1>7. QED
    BY <1>1, <1>2, <1>6

(* Both reads of m_is_suspended that find it false: no data is kept. *)
LEMMA ForwardIInv ==
  ASSUME IInv, stage[Rx] \in {"check", "lock"}, ~m_is_suspended, Forward(Rx),
         UNCHANGED <<m_is_suspended, m_mutex, m_can_data, cur, next, received,
                     delivered>>
  PROVE IInv'
  <1> USE DEF IInv, DistinctThreads, Forward, Goto, Thread
  <1>1. m_can_data = <<>>
    BY Bounds DEF LockInv, TypeOK
  <1>2. TypeOK'
    BY DEF TypeOK, Stage
  <1>3. LockInv'
    BY <1>1 DEF LockInv, TypeOK
  <1>4. Before' = Before /\ Hand' = 1 /\ Hand = 1
    BY DEF Hand, Before, TypeOK
  <1>5. ASSUME NEW c \in Child
        PROVE Replayed(c)' = Replayed(c) /\ Handed(c)' = 0 /\ Handed(c) = 0
    BY <1>5 DEF TypeOK, Replayed, Handed
  <1>6. PlaceInv'
    BY <1>4, <1>5 DEF PlaceInv
  <1>7. QED
    BY <1>2, <1>3, <1>6

LEMMA CheckIInv ==
  ASSUME IInv, Check(Rx)
  PROVE IInv'
  <1> USE DEF Check
  <1>1. CASE ~m_is_suspended
    BY <1>1, ForwardIInv
  <1>2. CASE m_is_suspended
    <2> USE DEF IInv, DistinctThreads, Goto, Thread
    <2>1. TypeOK'
      BY <1>2 DEF TypeOK, Stage
    <2>2. LockInv'
      BY <1>2 DEF LockInv, TypeOK
    <2>3. Before' = Before /\ Hand' = 1 /\ Hand = 1
      BY <1>2 DEF Hand, Before, TypeOK
    <2>4. ASSUME NEW c \in Child
          PROVE Replayed(c)' = Replayed(c) /\ Handed(c)' = 0 /\ Handed(c) = 0
      BY <1>2 DEF TypeOK, Replayed, Handed
    <2>5. PlaceInv'
      BY <1>2, <2>3, <2>4 DEF PlaceInv
    <2>6. QED
      BY <2>1, <2>2, <2>5
  <1>3. QED
    BY <1>1, <1>2

LEMMA LockedCheckIInv ==
  ASSUME IInv, LockedCheck(Rx)
  PROVE IInv'
  <1> USE DEF LockedCheck
  <1>1. CASE ~m_is_suspended
    BY <1>1, ForwardIInv
  <1>2. CASE m_is_suspended
    <2> USE <1>2 DEF IInv, DistinctThreads, Goto, Thread
    <2>a. /\ m_can_data' = Append(m_can_data, cur[Rx])
          /\ m_can_data \in Seq(Nat) /\ cur[Rx] \in Nat
      BY DEF TypeOK
    <2>1. /\ m_can_data' \in Seq(Nat)
          /\ Len(m_can_data') = Len(m_can_data) + 1
          /\ m_can_data'[Len(m_can_data) + 1] = cur[Rx]
          /\ \A i \in 1..Len(m_can_data) : m_can_data'[i] = m_can_data[i]
      BY <2>a
    <2>2. TypeOK'
      BY <2>1 DEF TypeOK, Stage
    <2>3. LockInv'
      BY <2>1, Bounds DEF LockInv, TypeOK
    <2>4. Before' = Before /\ Hand' = 0 /\ Hand = 1
      BY <2>1, Bounds DEF Hand, Before, TypeOK
    <2>5. ASSUME NEW c \in Child
          PROVE Replayed(c)' = Replayed(c) /\ Handed(c)' = 0 /\ Handed(c) = 0
      BY DEF TypeOK, LockInv, Replayed, Handed
    <2>6. \A i \in 1..Len(m_can_data') : m_can_data'[i] = received[Before + i]
      BY <2>1, <2>4, Bounds DEF PlaceInv
    <2>7. PlaceInv'
      BY <2>4, <2>5, <2>6, Bounds DEF PlaceInv
    <2>8. QED
      BY <2>2, <2>3, <2>7
  <1>3. QED
    BY <1>1, <1>2

(* One more datum for child c: shared by Dispatch and ResumeDispatch. *)
LEMMA CallChild ==
  ASSUME IInv, NEW c \in Child, NEW v \in Nat,
         Len(delivered[c]) < Len(received),
         v = received[Len(delivered[c]) + 1],
         delivered' = [delivered EXCEPT ![c] = Append(@, v)]
  PROVE /\ delivered' \in [Child -> Seq(Nat)]
        /\ Len(delivered'[c]) = Len(delivered[c]) + 1
        /\ \A d \in Child \ {c} : delivered'[d] = delivered[d]
        /\ \A d \in Child : \A i \in 1..Len(delivered'[d]) : delivered'[d][i] = received[i]
  <1>1. delivered \in [Child -> Seq(Nat)]
    BY DEF IInv, TypeOK
  <1>2. delivered'[c] = Append(delivered[c], v) /\ delivered[c] \in Seq(Nat)
    BY <1>1
  <1>3. /\ delivered'[c] \in Seq(Nat)
        /\ Len(delivered'[c]) = Len(delivered[c]) + 1
        /\ delivered'[c][Len(delivered[c]) + 1] = v
        /\ \A i \in 1..Len(delivered[c]) : delivered'[c][i] = delivered[c][i]
    BY <1>2
  <1>4. \A d \in Child \ {c} : delivered'[d] = delivered[d]
    BY <1>1
  <1>5. \A i \in 1..Len(delivered'[c]) : delivered'[c][i] = received[i]
    BY <1>3, Bounds DEF IInv, PlaceInv
  <1>6. QED
    BY <1>1, <1>3, <1>4, <1>5 DEF IInv, PlaceInv

LEMMA DispatchIInv ==
  ASSUME IInv, NEW c \in Child, Dispatch(Rx, c)
  PROVE IInv'
  <1> USE DEF IInv, DistinctThreads, Dispatch, Thread
  <1>1. /\ m_can_data = <<>> /\ Hand = 1 /\ Hand' = 1 /\ Before' = Before
        /\ cur[Rx] = received[Len(received)] /\ cur[Rx] \in Nat
    BY DEF LockInv, PlaceInv, Hand, Before, TypeOK
  <1>2. Len(m_can_data) = 0 /\ Len(received) = Before + 1
    BY <1>1, Bounds
  <1>3. Replayed(c) = 0 /\ Handed(c) = 0
    BY <1>2, Bounds DEF Handed
  <1>4. Len(delivered[c]) = Before /\ Len(delivered[c]) + 1 = Len(received)
    BY <1>2, <1>3, Bounds
  <1>5. /\ delivered' \in [Child -> Seq(Nat)]
        /\ Len(delivered'[c]) = Len(delivered[c]) + 1
        /\ \A d \in Child \ {c} : delivered'[d] = delivered[d]
        /\ \A d \in Child : \A i \in 1..Len(delivered'[d]) : delivered'[d][i] = received[i]
    <2>1. cur[Rx] = received[Len(delivered[c]) + 1]
      BY <1>1, <1>4
    <2>2. Len(delivered[c]) < Len(received)
      BY <1>4, Bounds
    <2>3. QED
      BY <1>1, <2>1, <2>2, CallChild
  <1>6. TypeOK'
    BY <1>5 DEF TypeOK
  <1>7. LockInv'
    BY DEF LockInv, TypeOK
  <1>8. ASSUME NEW d \in Child
        PROVE /\ Replayed(d)' = Replayed(d)
              /\ Handed(d)' = IF d = c THEN 1 ELSE Handed(d)
    BY DEF TypeOK, Replayed, Handed
  <1>9. PlaceInv'
    BY <1>1, <1>3, <1>4, <1>5, <1>8, Bounds DEF PlaceInv
  <1>10. QED
    BY <1>6, <1>7, <1>9

LEMMA DispatchReturnIInv ==
  ASSUME IInv, DispatchReturn(Rx)
  PROVE IInv'
  <1> USE DEF IInv, DistinctThreads, DispatchReturn, Goto, Thread
  <1>1. TypeOK'
    BY DEF TypeOK, Stage
  <1>2. LockInv'
    BY DEF LockInv, TypeOK
  <1>3. m_can_data = <<>> /\ Hand = 1 /\ Hand' = 0
    BY DEF LockInv, Hand, TypeOK
  <1>4. Len(m_can_data) = 0 /\ Before' = Before + 1
    BY <1>3, Bounds DEF Before
  <1>5. ASSUME NEW c \in Child
        PROVE Replayed(c)' = Replayed(c) /\ Handed(c)' = 0 /\ Handed(c) = 1
    BY DEF TypeOK, Replayed, Handed
  <1>6. PlaceInv'
    BY <1>3, <1>4, <1>5, Bounds DEF PlaceInv
  <1>7. QED
    BY <1>1, <1>2, <1>6

LEMMA SuspendIInv ==
  ASSUME IInv, Suspend(App)
  PROVE IInv'
  <1> USE DEF IInv, DistinctThreads, Suspend, Thread
  <1>1. TypeOK'
    BY DEF TypeOK
  <1>2. LockInv'
    BY DEF LockInv
  <1>3. Before' = Before /\ Hand' = Hand
    BY DEF Before, Hand
  <1>4. ASSUME NEW c \in Child
        PROVE Replayed(c)' = Replayed(c) /\ Handed(c)' = Handed(c)
    BY DEF Replayed, Handed
  <1>5. PlaceInv'
    BY <1>3, <1>4 DEF PlaceInv
  <1>6. QED
    BY <1>1, <1>2, <1>5

LEMMA ResumeCallIInv ==
  ASSUME IInv, ResumeCall(App)
  PROVE IInv'
  <1> USE DEF IInv, DistinctThreads, ResumeCall, Goto, Thread
  <1>1. TypeOK'
    BY DEF TypeOK, Stage
  <1>2. LockInv'
    BY DEF LockInv, TypeOK
  <1>3. Before' = Before /\ Hand' = Hand
    BY DEF Before, Hand, TypeOK
  <1>4. ASSUME NEW c \in Child
        PROVE Replayed(c)' = Replayed(c) /\ Handed(c)' = Handed(c)
    BY DEF Replayed, Handed, TypeOK
  <1>5. PlaceInv'
    BY <1>3, <1>4 DEF PlaceInv
  <1>6. QED
    BY <1>1, <1>2, <1>5

LEMMA ResumeLockIInv ==
  ASSUME IInv, ResumeLock(App)
  PROVE IInv'
  <1> USE DEF IInv, DistinctThreads, ResumeLock, Goto, Thread
  <1>1. TypeOK'
    BY DEF TypeOK, Stage
  <1>2. LockInv'
    BY Bounds DEF LockInv, TypeOK
  <1>3. Before' = Before /\ Hand' = Hand
    BY DEF Before, Hand, TypeOK
  <1>4. ASSUME NEW c \in Child
        PROVE Replayed(c)' = Replayed(c) /\ Handed(c)' = Handed(c)
    BY DEF Replayed, Handed, TypeOK
  <1>5. PlaceInv'
    BY <1>3, <1>4 DEF PlaceInv
  <1>6. QED
    BY <1>1, <1>2, <1>5

LEMMA ResumeDispatchIInv ==
  ASSUME IInv, NEW c \in Child, ResumeDispatch(App, c)
  PROVE IInv'
  <1> USE DEF IInv, DistinctThreads, ResumeDispatch, Thread
  <1>1. /\ next \in 1..Len(m_can_data)
        /\ m_can_data[next] = received[Before + next] /\ m_can_data[next] \in Nat
        /\ Hand' = Hand /\ Before' = Before
    <2>1. next \in 1..Len(m_can_data)
      BY Bounds DEF TypeOK
    <2>2. m_can_data[next] = received[Before + next]
      BY <2>1 DEF PlaceInv
    <2>3. m_can_data[next] \in Nat
      BY <2>1 DEF TypeOK
    <2>4. Hand' = Hand /\ Before' = Before
      BY DEF Hand, Before
    <2>5. QED
      BY <2>1, <2>2, <2>3, <2>4
  <1>2. Handed(c) = 0 /\ Replayed(c) = next - 1
    BY <1>1, Bounds DEF Handed, Replayed, LockInv, TypeOK
  <1>3. Len(delivered[c]) + 1 = Before + next /\ Len(delivered[c]) < Len(received)
    <2>1. Len(delivered[c]) = Before + (next - 1) + 0
      BY <1>2, Bounds
    <2>2. Len(m_can_data) \in Nat /\ Before \in Nat /\ Hand \in {0, 1}
          /\ Len(received) = Before + Len(m_can_data) + Hand
      BY Bounds
    <2>3. QED
      BY <1>1, <2>1, <2>2
  <1>4. /\ delivered' \in [Child -> Seq(Nat)]
        /\ Len(delivered'[c]) = Len(delivered[c]) + 1
        /\ \A d \in Child \ {c} : delivered'[d] = delivered[d]
        /\ \A d \in Child : \A i \in 1..Len(delivered'[d]) : delivered'[d][i] = received[i]
    <2>1. m_can_data[next] = received[Len(delivered[c]) + 1]
      BY <1>1, <1>3
    <2>2. QED
      BY <1>1, <1>3, <2>1, CallChild
  <1>5. TypeOK'
    BY <1>4 DEF TypeOK
  <1>6. LockInv'
    BY <1>1, Bounds DEF LockInv, TypeOK
  <1>7. ASSUME NEW d \in Child
        PROVE /\ Replayed(d)' = IF d = c THEN next ELSE Replayed(d)
              /\ Handed(d)' = Handed(d)
    BY DEF TypeOK, Replayed, Handed
  <1>8. ASSUME NEW d \in Child
        PROVE Len(delivered'[d]) = Before + Replayed(d)' + Handed(d)'
    <2>1. CASE d = c
      BY <1>1, <1>2, <1>3, <1>4, <1>7, <2>1, Bounds
    <2>2. CASE d # c
      BY <1>4, <1>7, <2>2, Bounds
    <2>3. QED
      BY <2>1, <2>2
  <1>9. PlaceInv'
    BY <1>1, <1>4, <1>8 DEF PlaceInv
  <1>10. QED
    BY <1>5, <1>6, <1>9

LEMMA ResumeNextIInv ==
  ASSUME IInv, ResumeNext(App)
  PROVE IInv'
  <1> USE DEF IInv, DistinctThreads, ResumeNext, Thread
  <1>1. TypeOK'
    BY DEF TypeOK
  <1>2. LockInv'
    BY Bounds DEF LockInv, TypeOK
  <1>3. Before' = Before /\ Hand' = Hand
    BY DEF Before, Hand, TypeOK
  <1>4. ASSUME NEW c \in Child
        PROVE Replayed(c)' = Replayed(c) /\ Handed(c)' = Handed(c)
    BY DEF Replayed, Handed, TypeOK
  <1>5. PlaceInv'
    BY <1>3, <1>4 DEF PlaceInv
  <1>6. QED
    BY <1>1, <1>2, <1>5

LEMMA ResumeReturnIInv ==
  ASSUME IInv, ResumeReturn(App)
  PROVE IInv'
  <1> USE DEF IInv, DistinctThreads, ResumeReturn, Goto, Thread
  <1>1. TypeOK'
    <2>1. m_is_suspended' \in BOOLEAN
      OBVIOUS
    <2>2. m_can_data' \in Seq(Nat)
      OBVIOUS
    <2>3. QED
      BY <2>1, <2>2 DEF TypeOK, Stage
  <1>2. LockInv'
    BY DEF LockInv, TypeOK
  <1>3. next = Len(m_can_data) + 1 /\ todo[App] = Child
    BY Bounds DEF LockInv, TypeOK
  <1>4. /\ Len(m_can_data') = 0 /\ Hand' = Hand
        /\ Before' = Before + Len(m_can_data)
    BY Bounds DEF Before, Hand, TypeOK
  <1>5. ASSUME NEW c \in Child
        PROVE /\ Replayed(c) = Len(m_can_data) /\ Replayed(c)' = 0
              /\ Handed(c)' = Handed(c)
    BY <1>3, Bounds DEF Replayed, Handed, TypeOK
  <1>6. PlaceInv'
    BY <1>4, <1>5, Bounds DEF PlaceInv
  <1>7. QED
    BY <1>1, <1>2, <1>6

-----------------------------------------------------------------------------
(* No step of the stage, and no step that leaves it alone, breaks the      *)
(* invariant.                                                              *)
LEMMA NextIInv ==
  ASSUME IInv, [Next]_vars
  PROVE IInv'
  <1>1. CASE \E can_data \in Nat : Receive(Rx, can_data)
    BY <1>1, ReceiveIInv
  <1>2. CASE RxStep
    BY <1>2, CheckIInv, LockedCheckIInv, DispatchIInv, DispatchReturnIInv DEF RxStep
  <1>3. CASE Suspend(App)
    BY <1>3, SuspendIInv
  <1>4. CASE ResumeCall(App)
    BY <1>4, ResumeCallIInv
  <1>5. CASE AppStep
    BY <1>5, ResumeLockIInv, ResumeDispatchIInv, ResumeNextIInv, ResumeReturnIInv
    DEF AppStep
  <1>6. CASE UNCHANGED vars
    BY <1>6 DEF vars, IInv, TypeOK, LockInv, PlaceInv, Before, Hand, Replayed, Handed
  <1>7. QED
    BY <1>1, <1>2, <1>3, <1>4, <1>5, <1>6 DEF Next

LEMMA SpecIInv ==
  ASSUME DistinctThreads
  PROVE Spec => []IInv
  <1>1. Init => IInv
    BY InitIInv
  <1>2. QED
    BY <1>1, NextIInv, PTL DEF Spec

-----------------------------------------------------------------------------
(* What is kept for c, and what is in hand for it, as positions in the     *)
(* data received.                                                          *)
LEMMA KeptIsASegment ==
  ASSUME IInv, NEW c \in Child
  PROVE /\ Kept(c) \in Seq(Nat)
        /\ Len(Kept(c)) = Len(m_can_data) - Replayed(c)
        /\ \A i \in 1..Len(Kept(c)) : Kept(c)[i] = received[Before + Replayed(c) + i]
  <1> DEFINE r == Replayed(c)
  <1> DEFINE k == Len(m_can_data)
  <1>1. r \in 0..k /\ k \in Nat /\ Before \in Nat /\ m_can_data \in Seq(Nat)
    BY Bounds DEF IInv, TypeOK
  <1>2. CASE stage[App] # "resuming"
    <2>1. Kept(c) = m_can_data /\ r = 0
      BY <1>2 DEF Kept, Replayed
    <2>2. QED
      BY <1>1, <2>1 DEF IInv, PlaceInv
  <1>3. CASE stage[App] = "resuming"
    <2>1. Kept(c) = SubSeq(m_can_data, r + 1, k)
      BY <1>3 DEF Kept, Replayed, IInv, TypeOK
    <2>2. \A i \in r + 1 .. k : m_can_data[i] \in Nat
      BY <1>1
    <2> HIDE DEF r, k
    <2>3. /\ Kept(c) \in Seq(Nat)
          /\ Len(Kept(c)) = IF r + 1 <= k THEN k - (r + 1) + 1 ELSE 0
          /\ \A i \in 1 .. k - (r + 1) + 1 : Kept(c)[i] = m_can_data[r + 1 + i - 1]
      BY <1>1, <2>1, <2>2, SubSeqProperties
    <2>4. Len(Kept(c)) = k - r
      BY <1>1, <2>3
    <2>5. ASSUME NEW i \in 1..Len(Kept(c))
          PROVE Kept(c)[i] = received[Before + r + i]
      <3>1. r + i \in 1..k /\ Kept(c)[i] = m_can_data[r + i]
        BY <1>1, <2>3, <2>4
      <3>2. m_can_data[r + i] = received[Before + (r + i)]
        BY <3>1 DEF IInv, PlaceInv, k
      <3>3. Before + (r + i) = Before + r + i
        BY <1>1, <3>1
      <3>4. QED
        BY <3>1, <3>2, <3>3
    <2>6. QED
      BY <2>3, <2>4, <2>5 DEF r, k
  <1>4. QED
    BY <1>2, <1>3

LEMMA InHandIsTheLast ==
  ASSUME IInv, NEW c \in Child
  PROVE /\ InHand(c) \in Seq(Nat)
        /\ Len(InHand(c)) = Hand - Handed(c)
        /\ \A i \in 1..Len(InHand(c)) : InHand(c)[i] = received[Len(received)]
  <1>1. stage[Rx] \in {"outside", "check", "lock", "dispatch"} /\ cur[Rx] \in Nat
    BY DEF IInv, TypeOK, Thread, Stage
  <1>2. CASE Hand = 1 /\ Handed(c) = 0
    <2>1. InHand(c) = <<cur[Rx]>> /\ cur[Rx] = received[Len(received)]
      BY <1>1, <1>2 DEF InHand, Hand, Handed, IInv, PlaceInv
    <2>2. QED
      BY <1>1, <1>2, <2>1
  <1>3. CASE ~(Hand = 1 /\ Handed(c) = 0)
    <2>1. InHand(c) = <<>> /\ Hand = Handed(c)
      BY <1>1, <1>3 DEF InHand, Hand, Handed
    <2>2. QED
      BY <2>1, Bounds
  <1>4. QED
    BY <1>2, <1>3

LEMMA PrefixKeptHand ==
  ASSUME IInv
  PROVE NothingLostNorReordered
  <1> SUFFICES ASSUME NEW c \in Child
               PROVE delivered[c] \o Kept(c) \o InHand(c) = received
    BY DEF NothingLostNorReordered
  <1> DEFINE d == delivered[c]
  <1> DEFINE k == Kept(c)
  <1> DEFINE h == InHand(c)
  <1>1. /\ d \in Seq(Nat) /\ received \in Seq(Nat)
        /\ \A i \in 1..Len(d) : d[i] = received[i]
    BY DEF IInv, TypeOK, PlaceInv
  <1>2. /\ k \in Seq(Nat)
        /\ Len(k) = Len(m_can_data) - Replayed(c)
        /\ \A i \in 1..Len(k) : k[i] = received[Before + Replayed(c) + i]
    BY KeptIsASegment
  <1>3. /\ h \in Seq(Nat)
        /\ Len(h) = Hand - Handed(c)
        /\ \A i \in 1..Len(h) : h[i] = received[Len(received)]
    BY InHandIsTheLast
  <1>4. /\ Len(d) = Before + Replayed(c) + Handed(c)
        /\ Before \in Nat /\ Len(m_can_data) \in Nat
        /\ Replayed(c) \in 0..Len(m_can_data) /\ Handed(c) \in 0..Hand
        /\ Hand \in {0, 1} /\ Len(received) = Before + Len(m_can_data) + Hand
    BY Bounds
  <1>5. Handed(c) = 1 => Len(k) = 0
    BY <1>2, <1>4 DEF Handed, IInv, LockInv
  <1> DEFINE x == d \o k
  <1> DEFINE y == x \o h
  <1> HIDE DEF d, k, h
  <1>6. /\ x \in Seq(Nat)
        /\ Len(x) = Len(d) + Len(k)
        /\ \A i \in 1 .. Len(d) + Len(k) :
             x[i] = IF i <= Len(d) THEN d[i] ELSE k[i - Len(d)]
    BY <1>1, <1>2, ConcatProperties
  <1> HIDE DEF x
  <1>7. /\ y \in Seq(Nat)
        /\ Len(y) = Len(x) + Len(h)
        /\ \A i \in 1 .. Len(x) + Len(h) :
             y[i] = IF i <= Len(x) THEN x[i] ELSE h[i - Len(x)]
    <2>1. x \in Seq(Nat) /\ h \in Seq(Nat)
      BY <1>3, <1>6
    <2>2. QED
      BY <2>1, ConcatProperties
  <1> HIDE DEF y
  <1>8. /\ Len(d) \in Nat /\ Len(k) \in Nat /\ Len(h) \in Nat
        /\ Len(y) = Len(received) /\ Len(received) \in Nat
        /\ Len(received) = Len(d) + Len(k) + Len(h)
    <2>1. Len(d) \in Nat /\ Len(k) \in Nat /\ Len(h) \in Nat /\ Len(received) \in Nat
      BY <1>1, <1>2, <1>3, LenProperties
    <2>2. Len(received) = Len(d) + Len(k) + Len(h)
      BY <1>2, <1>3, <1>4
    <2>3. QED
      BY <1>6, <1>7, <2>1, <2>2
  <1>9. ASSUME NEW i \in 1..Len(y)
        PROVE y[i] = received[i]
    <2>1. CASE i <= Len(d)
      <3>1. y[i] = x[i] /\ x[i] = d[i]
        BY <1>6, <1>7, <1>8, <2>1
      <3>2. QED
        BY <1>1, <1>8, <2>1, <3>1
    <2>2. CASE i > Len(d) /\ i <= Len(d) + Len(k)
      <3>1. y[i] = x[i] /\ x[i] = k[i - Len(d)] /\ i - Len(d) \in 1..Len(k)
        BY <1>6, <1>7, <1>8, <2>2
      <3>2. Handed(c) = 0
        BY <1>4, <1>5, <1>8, <2>2
      <3>3. Before + Replayed(c) + (i - Len(d)) = i
        BY <1>4, <3>1, <3>2
      <3>4. QED
        BY <1>2, <3>1, <3>3
    <2>3. CASE i > Len(d) + Len(k)
      <3>1. y[i] = h[i - Len(x)] /\ i - Len(x) \in 1..Len(h)
        BY <1>6, <1>7, <1>8, <2>3
      <3>2. Len(h) <= 1
        BY <1>3, <1>4
      <3>3. i = Len(received)
        BY <1>6, <1>8, <3>1, <3>2
      <3>4. QED
        BY <1>3, <3>1, <3>3
    <2>4. QED
      BY <1>8, <2>1, <2>2, <2>3
  <1>10. y = received
    BY <1>1, <1>7, <1>8, <1>9, SeqEqual
  <1>11. QED
    BY <1>10 DEF d, k, h, x, y

LEMMA OneThreadCalls ==
  ASSUME IInv
  PROVE ChildrenCalledByOneThread
  <1>1. QED
    BY DEF IInv, TypeOK, LockInv, ChildrenCalledByOneThread, CallsChildren

(* The stage, fed, suspended and resumed in any order by its two threads,  *)
(* passes on what it receives: nothing lost, repeated or reordered.        *)
THEOREM SuspenderKeepsOrder ==
  ASSUME DistinctThreads
  PROVE Spec => []NothingLostNorReordered
  <1>1. QED
    BY SpecIInv, PrefixKeptHand, PTL

(* The two threads never call its children at the same time. *)
THEOREM SuspenderCallsFromOneThread ==
  ASSUME DistinctThreads
  PROVE Spec => []ChildrenCalledByOneThread
  <1>1. QED
    BY SpecIInv, OneThreadCalls, PTL
=============================================================================
