--------------------------- MODULE MailBoxProofs ---------------------------
(***************************************************************************)
(* Proofs about MailBox, for every set of waiting threads and every number *)
(* of messages: no notification is missed, clear() only reaches flags that *)
(* are alive, and every message is received at most once, in order.        *)
(***************************************************************************)
EXTENDS MailBox, SequenceTheorems, TLAPS

(* A flag is only ever set while its thread is inside wait(). *)
CancelInv == \A w \in Waiter : cancel[w] => waiter[w] # "outside"

WakeInv == TypeOK /\ FlagsAreLive /\ CancelInv /\ NoLostWakeup

IInv == WakeInv /\ ExactlyOnePlace /\ InPostOrder

-----------------------------------------------------------------------------
(* What the operations of a queue do to the set of its elements. *)
LEMMA ElementsIn ==
  ASSUME NEW s \in Seq(Nat)
  PROVE /\ Elements(s) \subseteq Nat
        /\ \A x : x \in Elements(s) <=> \E i \in 1..Len(s) : s[i] = x
  <1>1. DOMAIN s = 1..Len(s) /\ \A i \in 1..Len(s) : s[i] \in Nat
    BY LenProperties, ElementOfSeq
  <1>2. QED
    BY <1>1 DEF Elements

LEMMA ElementsAppend ==
  ASSUME NEW s \in Seq(Nat), NEW e \in Nat
  PROVE Elements(Append(s, e)) = Elements(s) \cup {e}
  <1>1. /\ Append(s, e) \in Seq(Nat)
        /\ Len(Append(s, e)) = Len(s) + 1 /\ Len(s) \in Nat
        /\ \A i \in 1..Len(s) : Append(s, e)[i] = s[i]
        /\ Append(s, e)[Len(s) + 1] = e
    OBVIOUS
  <1>2. ASSUME NEW x
        PROVE x \in Elements(Append(s, e)) <=> x \in Elements(s) \cup {e}
    <2>1. x \in Elements(Append(s, e)) <=>
            \E i \in 1..(Len(s) + 1) : Append(s, e)[i] = x
      BY <1>1, ElementsIn
    <2>2. x \in Elements(s) <=> \E i \in 1..Len(s) : s[i] = x
      BY ElementsIn
    <2>3. QED
      BY <1>1, <2>1, <2>2
  <1>3. QED
    BY <1>2

LEMMA ElementsTail ==
  ASSUME NEW s \in Seq(Nat), s # <<>>,
         \A i, j \in 1..Len(s) : i < j => s[i] < s[j]
  PROVE /\ Head(s) \in Nat /\ Tail(s) \in Seq(Nat)
        /\ Head(s) \in Elements(s)
        /\ Elements(Tail(s)) = Elements(s) \ {Head(s)}
        /\ \A i, j \in 1..Len(Tail(s)) : i < j => Tail(s)[i] < Tail(s)[j]
        /\ \A j \in 1..Len(Tail(s)) : Head(s) < Tail(s)[j]
  <1>1. /\ Tail(s) \in Seq(Nat) /\ Len(s) \in Nat \ {0}
        /\ Len(Tail(s)) = Len(s) - 1
        /\ \A i \in 1..Len(Tail(s)) : Tail(s)[i] = s[i + 1]
        /\ Head(s) = s[1] /\ Head(s) \in Nat
    BY HeadTailProperties, EmptySeq
  <1>2. /\ \A i, j \in 1..Len(Tail(s)) : i < j => Tail(s)[i] < Tail(s)[j]
        /\ \A j \in 1..Len(Tail(s)) : Head(s) < Tail(s)[j]
    BY <1>1
  <1>3. Head(s) \in Elements(s)
    BY <1>1, ElementsIn
  <1>4. ASSUME NEW x
        PROVE x \in Elements(Tail(s)) <=> x \in Elements(s) \ {Head(s)}
    <2>1. x \in Elements(Tail(s)) <=> \E i \in 1..(Len(s) - 1) : s[i + 1] = x
      <3>1. x \in Elements(Tail(s)) <=> \E i \in 1..Len(Tail(s)) : Tail(s)[i] = x
        BY <1>1, ElementsIn
      <3>2. QED
        BY <1>1, <3>1
    <2>2. x \in Elements(s) <=> \E i \in 1..Len(s) : s[i] = x
      BY ElementsIn
    <2>3. ASSUME x \in Elements(Tail(s))
          PROVE x \in Elements(s) \ {Head(s)}
      <3>1. PICK i \in 1..(Len(s) - 1) : s[i + 1] = x
        BY <2>1, <2>3
      <3>2. i + 1 \in 1..Len(s) /\ 1 \in 1..Len(s) /\ 1 < i + 1
        BY <1>1
      <3>3. s[1] < s[i + 1] /\ s[i + 1] \in Nat
        BY <3>2, ElementOfSeq
      <3>4. QED
        BY <1>1, <2>2, <3>1, <3>2, <3>3
    <2>4. ASSUME x \in Elements(s) \ {Head(s)}
          PROVE x \in Elements(Tail(s))
      <3>1. PICK i \in 1..Len(s) : s[i] = x
        BY <2>2, <2>4
      <3>2. i # 1
        BY <1>1, <2>4, <3>1
      <3>3. i - 1 \in 1..(Len(s) - 1) /\ s[(i - 1) + 1] = x
        BY <1>1, <3>1, <3>2
      <3>4. QED
        BY <2>1, <3>3
    <2>5. QED
      BY <2>3, <2>4
  <1>5. QED
    BY <1>1, <1>2, <1>3, <1>4

-----------------------------------------------------------------------------
LEMMA InitWakeInv == Init => WakeInv
  <1> SUFFICES ASSUME Init PROVE WakeInv
    OBVIOUS
  <1> USE DEF Init
  <1>1. TypeOK
    <2>1. cancel \in [Waiter -> BOOLEAN] /\ m_cancel_status \subseteq Waiter
      OBVIOUS
    <2>2. m_msgs \in Seq(Nat) /\ got \in [Waiter -> Seq(Nat)]
      OBVIOUS
    <2>3. posted \in Nat /\ dropped \subseteq Nat
      OBVIOUS
    <2>4. waiter \in [Waiter -> {"outside"}]
      OBVIOUS
    <2>5. QED
      BY <2>1, <2>2, <2>3, <2>4 DEF TypeOK, WaiterState
  <1>2. QED
    BY <1>1 DEF WakeInv, FlagsAreLive, CancelInv, NoLostWakeup

LEMMA NextWakeInv ==
  ASSUME WakeInv, [Next]_vars
  PROVE WakeInv'
  <1> USE DEF WakeInv, TypeOK, WaiterState
  <1>1. CASE Post
    <2> USE <1>1 DEF Post, NotifyAll
    <2>1. TypeOK'
      OBVIOUS
    <2>2. QED
      BY <2>1 DEF FlagsAreLive, CancelInv, NoLostWakeup
  <1>2. ASSUME NEW b \in BOOLEAN, Clear(b)
        PROVE WakeInv'
    <2> USE <1>2 DEF Clear, NotifyAll
    <2>1. waiter' \in [Waiter -> WaiterState] /\ posted' = posted /\ got' = got
      OBVIOUS
    <2>2. \A w \in Waiter : /\ waiter'[w] = "outside" <=> waiter[w] = "outside"
                            /\ waiter'[w] = "expired" <=> waiter[w] = "expired"
      OBVIOUS
    <2>3. cancel' \in [Waiter -> BOOLEAN]
      OBVIOUS
    <2>4. m_msgs' \in Seq(Nat) /\ m_msgs' = <<>>
      OBVIOUS
    <2>5. dropped' \subseteq Nat
      BY ElementsIn
    <2>6. TypeOK'
      BY <2>1, <2>2, <2>3, <2>4, <2>5
    <2>7. FlagsAreLive' /\ CancelInv'
      BY <2>2 DEF FlagsAreLive, CancelInv
    <2>8. NoLostWakeup'
      <3>1. CASE b
        BY <2>1, <3>1 DEF NoLostWakeup
      <3>2. CASE ~b
        BY <2>4, <3>2 DEF NoLostWakeup
      <3>3. QED
        BY <3>1, <3>2
    <2>9. QED
      BY <2>6, <2>7, <2>8
  <1>3. ASSUME NEW w \in Waiter, WaitTake(w)
        PROVE WakeInv'
    <2> USE <1>3 DEF WaitTake, PopFront
    <2>1. TypeOK'
      OBVIOUS
    <2>2. QED
      BY <2>1 DEF FlagsAreLive, CancelInv, NoLostWakeup
  <1>4. ASSUME NEW w \in Waiter, WaitBlock(w)
        PROVE WakeInv'
    <2> USE <1>4 DEF WaitBlock
    <2>1. TypeOK'
      OBVIOUS
    <2>2. QED
      BY <2>1 DEF FlagsAreLive, CancelInv, NoLostWakeup
  <1>5. ASSUME NEW w \in Waiter, SpuriousWakeup(w) \/ Expire(w)
        PROVE WakeInv'
    <2> USE <1>5 DEF SpuriousWakeup, Expire
    <2>1. TypeOK'
      OBVIOUS
    <2>2. QED
      BY <2>1 DEF FlagsAreLive, CancelInv, NoLostWakeup
  <1>6. ASSUME NEW w \in Waiter, WakeAgain(w)
        PROVE WakeInv'
    <2> USE <1>6 DEF WakeAgain
    <2>1. TypeOK'
      OBVIOUS
    <2>2. QED
      BY <2>1 DEF FlagsAreLive, CancelInv, NoLostWakeup
  <1>7. ASSUME NEW w \in Waiter, WakeTake(w)
        PROVE WakeInv'
    <2> USE <1>7 DEF WakeTake, PopFront, Leave
    <2>1. TypeOK'
      OBVIOUS
    <2>2. QED
      BY <2>1 DEF FlagsAreLive, CancelInv, NoLostWakeup
  <1>8. ASSUME NEW w \in Waiter, WakeCancelled(w) \/ WakeTimeout(w)
        PROVE WakeInv'
    <2> USE <1>8 DEF WakeCancelled, WakeTimeout, Leave
    <2>1. TypeOK'
      OBVIOUS
    <2>2. QED
      BY <2>1 DEF FlagsAreLive, CancelInv, NoLostWakeup
  <1>9. CASE UNCHANGED vars
    BY <1>9 DEF vars, FlagsAreLive, CancelInv, NoLostWakeup
  <1>10. QED
    BY <1>1, <1>2, <1>3, <1>4, <1>5, <1>6, <1>7, <1>8, <1>9
    DEF Next, PostBounded

-----------------------------------------------------------------------------
LEMMA InitIInv == Init => IInv
  <1> SUFFICES ASSUME Init PROVE IInv
    OBVIOUS
  <1>1. WakeInv
    BY InitWakeInv
  <1>2. Elements(<<>>) = {}
    BY DEF Elements
  <1>3. ExactlyOnePlace
    BY <1>2 DEF ExactlyOnePlace, Init
  <1>4. InPostOrder
    BY DEF InPostOrder, Init
  <1>5. QED
    BY <1>1, <1>3, <1>4 DEF IInv

(* A new message is the greatest number there is. *)
LEMMA PostPlaces ==
  ASSUME IInv, Post
  PROVE ExactlyOnePlace' /\ InPostOrder'
  <1>1. /\ m_msgs \in Seq(Nat) /\ posted \in Nat
        /\ \A w \in Waiter : got[w] \in Seq(Nat)
    BY DEF IInv, WakeInv, TypeOK
  <1>2. Elements(m_msgs') = Elements(m_msgs) \cup {posted + 1}
    BY <1>1, ElementsAppend DEF Post
  <1>3. \A x \in 1..posted : x # posted + 1
    BY <1>1
  <1>4. 1..posted' = (1..posted) \cup {posted + 1}
    BY <1>1 DEF Post
  <1>5. ExactlyOnePlace'
    <2>1. UNCHANGED <<got, dropped>>
      BY DEF Post
    <2>2. \A w \in Waiter : posted + 1 \notin Elements(got[w])
      BY <1>3 DEF IInv, ExactlyOnePlace
    <2>3. posted + 1 \notin dropped
      BY <1>3 DEF IInv, ExactlyOnePlace
    <2>4. QED
      BY <1>2, <1>4, <2>1, <2>2, <2>3 DEF IInv, ExactlyOnePlace
  <1>6. InPostOrder'
    <2>1. /\ m_msgs' \in Seq(Nat) /\ Len(m_msgs') = Len(m_msgs) + 1
          /\ Len(m_msgs) \in Nat
          /\ DOMAIN m_msgs' = 1..Len(m_msgs') /\ DOMAIN m_msgs = 1..Len(m_msgs)
          /\ m_msgs'[Len(m_msgs) + 1] = posted + 1
          /\ \A i \in 1..Len(m_msgs) : m_msgs'[i] = m_msgs[i]
      BY <1>1 DEF Post
    <2>2. \A i \in DOMAIN m_msgs : m_msgs[i] < posted + 1
      <3>1. \A i \in DOMAIN m_msgs : m_msgs[i] \in 1..posted
        BY DEF IInv, ExactlyOnePlace, Elements
      <3>2. QED
        BY <1>1, <3>1
    <2>3. \A w \in Waiter : \A i \in DOMAIN got[w] : got[w][i] < posted + 1
      <3>1. \A w \in Waiter : \A i \in DOMAIN got[w] : got[w][i] \in 1..posted
        BY DEF IInv, ExactlyOnePlace, Elements
      <3>2. QED
        BY <1>1, <3>1
    <2>4. got' = got
      BY DEF Post
    <2>5. \A i, j \in DOMAIN m_msgs' : i < j => m_msgs'[i] < m_msgs'[j]
      BY <2>1, <2>2 DEF IInv, InPostOrder
    <2>6. \A w \in Waiter : \A i \in DOMAIN got[w], j \in DOMAIN m_msgs' :
            got[w][i] < m_msgs'[j]
      BY <2>1, <2>3 DEF IInv, InPostOrder
    <2>7. QED
      BY <2>4, <2>5, <2>6 DEF IInv, InPostOrder
  <1>7. QED
    BY <1>5, <1>6

LEMMA ClearPlaces ==
  ASSUME IInv, NEW b \in BOOLEAN, Clear(b)
  PROVE ExactlyOnePlace' /\ InPostOrder'
  <1>1. /\ m_msgs' = <<>> /\ dropped' = dropped \cup Elements(m_msgs)
        /\ UNCHANGED <<posted, got>>
    BY DEF Clear
  <1>2. Elements(<<>>) = {} /\ DOMAIN <<>> = {}
    BY DEF Elements
  <1>3. QED
    BY <1>1, <1>2 DEF IInv, ExactlyOnePlace, InPostOrder

(* The oldest message goes from the queue to one thread, which has only    *)
(* older ones.                                                             *)
LEMMA PopPlaces ==
  ASSUME IInv, NEW w \in Waiter, m_msgs # <<>>, PopFront(w),
         UNCHANGED <<posted, dropped>>
  PROVE ExactlyOnePlace' /\ InPostOrder'
  <1> DEFINE h == Head(m_msgs)
  <1>1. /\ m_msgs \in Seq(Nat)
        /\ got \in [Waiter -> Seq(Nat)]
        /\ DOMAIN m_msgs = 1..Len(m_msgs)
    BY LenProperties DEF IInv, WakeInv, TypeOK
  <1>2. \A i, j \in 1..Len(m_msgs) : i < j => m_msgs[i] < m_msgs[j]
    BY <1>1 DEF IInv, InPostOrder
  <1>3. /\ h \in Nat /\ m_msgs' \in Seq(Nat)
        /\ h \in Elements(m_msgs)
        /\ Elements(m_msgs') = Elements(m_msgs) \ {h}
        /\ \A i, j \in 1..Len(m_msgs') : i < j => m_msgs'[i] < m_msgs'[j]
        /\ \A j \in 1..Len(m_msgs') : h < m_msgs'[j]
    BY <1>1, <1>2, ElementsTail DEF PopFront
  <1> HIDE DEF h
  <1>4. /\ got'[w] = Append(got[w], h)
        /\ \A v \in Waiter \ {w} : got'[v] = got[v]
        /\ \A v \in Waiter : got[v] \in Seq(Nat)
    BY <1>1 DEF PopFront, h
  <1>5. Elements(got'[w]) = Elements(got[w]) \cup {h}
    BY <1>3, <1>4, ElementsAppend
  <1>6. ExactlyOnePlace'
    <2>1. h \notin dropped /\ \A v \in Waiter : h \notin Elements(got[v])
      BY <1>3 DEF IInv, ExactlyOnePlace
    <2>2. \A v \in Waiter \ {w} : Elements(got'[v]) = Elements(got[v])
      BY <1>4
    <2>3. Elements(m_msgs') \cup dropped' \cup UNION {Elements(got'[v]) : v \in Waiter}
            = 1..posted'
      <3>1. UNION {Elements(got'[v]) : v \in Waiter}
              = {h} \cup UNION {Elements(got[v]) : v \in Waiter}
        BY <1>5, <2>2
      <3>2. QED
        BY <1>3, <3>1 DEF IInv, ExactlyOnePlace
    <2>4. Elements(m_msgs') \cap dropped' = {}
      BY <1>3 DEF IInv, ExactlyOnePlace
    <2>5. ASSUME NEW v \in Waiter
          PROVE Elements(got'[v]) \cap (Elements(m_msgs') \cup dropped') = {}
      BY <1>3, <1>5, <2>1, <2>2 DEF IInv, ExactlyOnePlace
    <2>6. ASSUME NEW v \in Waiter, NEW u \in Waiter \ {v}
          PROVE Elements(got'[v]) \cap Elements(got'[u]) = {}
      BY <1>5, <2>1, <2>2 DEF IInv, ExactlyOnePlace
    <2>7. QED
      BY <2>3, <2>4, <2>5, <2>6 DEF ExactlyOnePlace
  <1>7. InPostOrder'
    <2>1. /\ got'[w] \in Seq(Nat) /\ Len(got[w]) \in Nat
          /\ Len(got'[w]) = Len(got[w]) + 1
          /\ DOMAIN got'[w] = 1..(Len(got[w]) + 1) /\ DOMAIN got[w] = 1..Len(got[w])
          /\ \A i \in 1..Len(got[w]) : got'[w][i] = got[w][i]
          /\ got'[w][Len(got[w]) + 1] = h
      BY <1>3, <1>4
    <2>2. DOMAIN m_msgs' = 1..Len(m_msgs')
      BY <1>3, LenProperties
    <2>3. \A v \in Waiter : \A i \in DOMAIN got[v] : got[v][i] < h /\ got[v][i] \in Nat
      <3>1. PICK k \in DOMAIN m_msgs : m_msgs[k] = h
        BY <1>3 DEF Elements
      <3>2. \A v \in Waiter : \A i \in DOMAIN got[v] : got[v][i] < h
        BY <3>1 DEF IInv, InPostOrder
      <3>3. \A v \in Waiter : \A i \in DOMAIN got[v] : got[v][i] \in Nat
        BY <1>4, LenProperties, ElementOfSeq
      <3>4. QED
        BY <3>2, <3>3
    <2>4. \A j \in 1..Len(m_msgs') : m_msgs'[j] \in Nat
      BY <1>3, ElementOfSeq
    <2>5. ASSUME NEW i \in DOMAIN got'[w], NEW j \in DOMAIN got'[w], i < j
          PROVE got'[w][i] < got'[w][j]
      <3>1. i \in DOMAIN got[w] /\ got'[w][i] = got[w][i]
        BY <2>1, <2>5
      <3>2. CASE j = Len(got[w]) + 1
        BY <2>1, <2>3, <3>1, <3>2
      <3>3. CASE j # Len(got[w]) + 1
        <4>1. j \in DOMAIN got[w] /\ got'[w][j] = got[w][j]
          BY <2>1, <3>3
        <4>2. QED
          BY <2>5, <3>1, <4>1 DEF IInv, InPostOrder
      <3>4. QED
        BY <3>2, <3>3
    <2>6. \A i \in DOMAIN got'[w], j \in DOMAIN m_msgs' : got'[w][i] < m_msgs'[j]
      <3>1. ASSUME NEW i \in DOMAIN got'[w], NEW j \in DOMAIN m_msgs'
            PROVE got'[w][i] < m_msgs'[j]
        <4>1. h < m_msgs'[j] /\ m_msgs'[j] \in Nat
          BY <1>3, <2>2, <2>4
        <4>2. got'[w][i] = h \/ (got'[w][i] < h /\ got'[w][i] \in Nat)
          BY <2>1, <2>3
        <4>3. QED
          BY <1>3, <4>1, <4>2
      <3>2. QED
        BY <3>1
    <2>7. ASSUME NEW v \in Waiter \ {w}
          PROVE \A i \in DOMAIN got'[v], j \in DOMAIN m_msgs' : got'[v][i] < m_msgs'[j]
      <3>1. ASSUME NEW i \in DOMAIN got[v], NEW j \in DOMAIN m_msgs'
            PROVE got[v][i] < m_msgs'[j]
        BY <1>3, <2>2, <2>3, <2>4
      <3>2. QED
        BY <1>4, <3>1
    <2>8. ASSUME NEW v \in Waiter
          PROVE \A i, j \in DOMAIN got'[v] : i < j => got'[v][i] < got'[v][j]
      BY <1>4, <2>5 DEF IInv, InPostOrder
    <2>9. \A i, j \in DOMAIN m_msgs' : i < j => m_msgs'[i] < m_msgs'[j]
      BY <1>3, <2>2
    <2>10. QED
      BY <2>6, <2>7, <2>8, <2>9 DEF InPostOrder
  <1>8. QED
    BY <1>6, <1>7

LEMMA NextIInv ==
  ASSUME IInv, [Next]_vars
  PROVE IInv'
  <1>1. WakeInv'
    BY NextWakeInv DEF IInv
  <1>2. ExactlyOnePlace' /\ InPostOrder'
    <2>1. CASE Post
      BY <2>1, PostPlaces
    <2>2. CASE \E b \in BOOLEAN : Clear(b)
      BY <2>2, ClearPlaces
    <2>3. CASE \E w \in Waiter : WaitTake(w) \/ WakeTake(w)
      BY <2>3, PopPlaces DEF WaitTake, WakeTake
    <2>4. CASE UNCHANGED <<m_msgs, posted, got, dropped>>
      BY <2>4 DEF IInv, ExactlyOnePlace, InPostOrder
    <2>5. QED
      BY <2>1, <2>2, <2>3, <2>4
      DEF Next, vars, PostBounded, WaitBlock, SpuriousWakeup, Expire, WakeAgain,
          WakeCancelled, WakeTimeout
  <1>3. QED
    BY <1>1, <1>2 DEF IInv

LEMMA SpecIInv == Spec => []IInv
  <1>1. QED
    BY InitIInv, NextIInv, PTL DEF Spec

(* The queue and the histories hold message numbers, a flag that is        *)
(* registered is that of a waiting thread, and only the wait() that has a  *)
(* deadline ever meets it.                                                 *)
THEOREM MailBoxTypeOK == Spec => []TypeOK
  <1>1. IInv => TypeOK
    BY DEF IInv, WakeInv
  <1>2. QED
    BY <1>1, SpecIInv, PTL

(* A thread sleeps only while there is nothing for it in the mailbox, and  *)
(* clear() writes the flags of the wait() calls in progress, no others.    *)
THEOREM MailBoxEveryWaitIsReached == Spec => []EveryWaitIsReached
  <1>1. IInv => EveryWaitIsReached
    BY DEF IInv, WakeInv, EveryWaitIsReached
  <1>2. QED
    BY <1>1, SpecIInv, PTL

(* Every message is queued, dropped, or received once by one thread. *)
THEOREM MailBoxExactlyOnePlace == Spec => []ExactlyOnePlace
  <1>1. IInv => ExactlyOnePlace
    BY DEF IInv
  <1>2. QED
    BY <1>1, SpecIInv, PTL

(* Every thread receives messages in the order they were posted. *)
THEOREM MailBoxInPostOrder == Spec => []InPostOrder
  <1>1. IInv => InPostOrder
    BY DEF IInv
  <1>2. QED
    BY <1>1, SpecIInv, PTL

(* Once cancelled, a thread leaves wait() without a message. *)
THEOREM MailBoxCancelledTakesNothing == Spec => CancelledTakesNothing
  <1>1. ASSUME IInv, [Next]_vars
        PROVE [\A w \in Waiter : cancel[w] => got'[w] = got[w]]_vars
    <2>1. ASSUME NEW w \in Waiter, cancel[w]
          PROVE got'[w] = got[w]
      <3>1. waiter[w] # "outside" /\ got \in [Waiter -> Seq(Nat)]
        BY <1>1, <2>1 DEF IInv, WakeInv, TypeOK, CancelInv
      <3>2. \A v \in Waiter : WaitTake(v) \/ WakeTake(v) => v # w
        BY <2>1, <3>1 DEF WaitTake, WakeTake
      <3>3. QED
        BY <1>1, <3>1, <3>2
        DEF Next, vars, PostBounded, Post, Clear, WaitTake, WaitBlock, SpuriousWakeup,
            Expire, WakeAgain, WakeTake, WakeCancelled, WakeTimeout, PopFront
    <2>2. QED
      BY <2>1
  <1>2. QED
    BY <1>1, SpecIInv, PTL DEF CancelledTakesNothing, Spec
=============================================================================
