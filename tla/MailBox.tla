------------------------------ MODULE MailBox ------------------------------
(***************************************************************************)
(* The inter-thread mailbox of libs/utils/MailBox.h: a queue, a mutex and  *)
(* a condition variable, and the set of `cancel` flags of the threads that *)
(* are inside wait() at the moment.                                        *)
(*                                                                         *)
(* Every operation holds m_mutex from its first to its last statement,     *)
(* except inside m_cond_var.wait, so each critical section is one action   *)
(* and the mutex itself needs no variable.  A thread in wait() is cut in   *)
(* two critical sections: the one that ends in m_cond_var.wait and the one *)
(* that begins when that call returns.                                     *)
(*                                                                         *)
(* Messages are numbered in the order post() enqueues them; posted, got    *)
(* and dropped are history variables.                                      *)
(***************************************************************************)
EXTENDS Naturals, Sequences, FiniteSets

CONSTANTS
  Waiter,        \* the threads that call wait()
  TimedWaiter,   \* those that call the overload with a timeout
  MaxPosts       \* bound: how many messages are ever posted

ASSUME MailBoxAssumption ==
  /\ TimedWaiter \subseteq Waiter
  /\ MaxPosts \in Nat

VARIABLES
  m_msgs,            \* the queue
  m_cancel_status,   \* threads whose cancel flag is registered
  cancel,            \* the flag, a local of wait()
  waiter,            \* where a thread is: outside wait(), blocked in
                     \* m_cond_var.wait, woken (notified or spuriously) or
                     \* expired (wait_until returned timeout), these two still
                     \* having to take the mutex again
  posted,            \* history: number of messages posted
  got,               \* history: what each thread's wait() returned
  dropped            \* history: messages removed by clear()

vars == <<m_msgs, m_cancel_status, cancel, waiter, posted, got, dropped>>

WaiterState == {"outside", "blocked", "woken", "expired"}

Elements(s) == {s[i] : i \in DOMAIN s}

Init ==
  /\ m_msgs = <<>>
  /\ m_cancel_status = {}
  /\ cancel = [w \in Waiter |-> FALSE]
  /\ waiter = [w \in Waiter |-> "outside"]
  /\ posted = 0
  /\ got = [w \in Waiter |-> <<>>]
  /\ dropped = {}

-----------------------------------------------------------------------------
(* m_cond_var.notify_all() *)
NotifyAll ==
  waiter' = [w \in Waiter |-> IF waiter[w] = "blocked" THEN "woken" ELSE waiter[w]]

(* Mutant: the waiting threads are not woken. *)
ClearWithoutNotify(cancel_waiters) ==
  /\ m_msgs' = <<>>
  /\ dropped' = dropped \cup Elements(m_msgs)
  /\ cancel' = [w \in Waiter |->
                  cancel[w] \/ (cancel_waiters /\ w \in m_cancel_status)]
  /\ UNCHANGED <<m_cancel_status, waiter, posted, got>>

Clear(cancel_waiters) ==
  /\ m_msgs' = <<>>
  /\ dropped' = dropped \cup Elements(m_msgs)
  /\ cancel' = [w \in Waiter |->
                  cancel[w] \/ (cancel_waiters /\ w \in m_cancel_status)]
  /\ IF cancel_waiters THEN NotifyAll ELSE UNCHANGED waiter
  /\ UNCHANGED <<m_cancel_status, posted, got>>

(* Mutants: the waiting threads are not woken, the message goes first. *)
PostWithoutNotify ==
  /\ posted' = posted + 1
  /\ m_msgs' = Append(m_msgs, posted + 1)
  /\ UNCHANGED <<m_cancel_status, cancel, waiter, got, dropped>>

PostFront ==
  /\ posted' = posted + 1
  /\ m_msgs' = <<posted + 1>> \o m_msgs
  /\ NotifyAll
  /\ UNCHANGED <<m_cancel_status, cancel, got, dropped>>

Post ==
  /\ posted' = posted + 1
  /\ m_msgs' = Append(m_msgs, posted + 1)
  /\ NotifyAll
  /\ UNCHANGED <<m_cancel_status, cancel, got, dropped>>

-----------------------------------------------------------------------------
(* wait(): what it does on its first critical section.                     *)

(* Mutant: the message is copied and left in the queue. *)
CopyFront(w) ==
  /\ got' = [got EXCEPT ![w] = Append(@, Head(m_msgs))]
  /\ UNCHANGED m_msgs

PopFront(w) ==
  /\ got' = [got EXCEPT ![w] = Append(@, Head(m_msgs))]
  /\ m_msgs' = Tail(m_msgs)

WaitTake(w) ==
  /\ waiter[w] = "outside"
  /\ m_msgs # <<>>
  /\ PopFront(w)
  /\ UNCHANGED <<m_cancel_status, cancel, waiter, posted, dropped>>

WaitBlock(w) ==
  /\ waiter[w] = "outside"
  /\ m_msgs = <<>>
  /\ m_cancel_status' = m_cancel_status \cup {w}
  /\ waiter' = [waiter EXCEPT ![w] = "blocked"]
  /\ UNCHANGED <<m_msgs, cancel, posted, got, dropped>>

(* m_cond_var.wait may also return without a notification, and wait_until  *)
(* when the deadline has passed.                                           *)
SpuriousWakeup(w) ==
  /\ waiter[w] = "blocked"
  /\ waiter' = [waiter EXCEPT ![w] = "woken"]
  /\ UNCHANGED <<m_msgs, m_cancel_status, cancel, posted, got, dropped>>

(* Mutant: the wait without a timeout has one too. *)
ExpireAlways(w) ==
  /\ waiter[w] \in {"blocked", "woken"}
  /\ waiter' = [waiter EXCEPT ![w] = "expired"]
  /\ UNCHANGED <<m_msgs, m_cancel_status, cancel, posted, got, dropped>>

Expire(w) ==
  /\ w \in TimedWaiter
  /\ waiter[w] \in {"blocked", "woken"}
  /\ waiter' = [waiter EXCEPT ![w] = "expired"]
  /\ UNCHANGED <<m_msgs, m_cancel_status, cancel, posted, got, dropped>>

(* The second critical section: wait again, or leave with a message, or    *)
(* leave with false because of a cancellation or the timeout.              *)
WakeAgain(w) ==
  /\ waiter[w] = "woken"
  /\ m_msgs = <<>> /\ ~cancel[w]
  /\ waiter' = [waiter EXCEPT ![w] = "blocked"]
  /\ UNCHANGED <<m_msgs, m_cancel_status, cancel, posted, got, dropped>>

(* Mutant: the flag stays registered. *)
LeaveRegistered(w) ==
  /\ cancel' = [cancel EXCEPT ![w] = FALSE]
  /\ waiter' = [waiter EXCEPT ![w] = "outside"]
  /\ UNCHANGED m_cancel_status

Leave(w) ==
  /\ m_cancel_status' = m_cancel_status \ {w}
  /\ cancel' = [cancel EXCEPT ![w] = FALSE]
  /\ waiter' = [waiter EXCEPT ![w] = "outside"]

(* Mutant: a cancelled thread still takes a message. *)
WakeTakeCancelled(w) ==
  /\ waiter[w] \in {"woken", "expired"}
  /\ m_msgs # <<>>
  /\ Leave(w)
  /\ PopFront(w)
  /\ UNCHANGED <<posted, dropped>>

WakeTake(w) ==
  /\ waiter[w] \in {"woken", "expired"}
  /\ m_msgs # <<>> /\ ~cancel[w]
  /\ Leave(w)
  /\ PopFront(w)
  /\ UNCHANGED <<posted, dropped>>

WakeCancelled(w) ==
  /\ waiter[w] \in {"woken", "expired"}
  /\ cancel[w]
  /\ Leave(w)
  /\ UNCHANGED <<m_msgs, posted, got, dropped>>

WakeTimeout(w) ==
  /\ waiter[w] = "expired"
  /\ m_msgs = <<>> /\ ~cancel[w]
  /\ Leave(w)
  /\ UNCHANGED <<m_msgs, posted, got, dropped>>

Wake(w) == WakeAgain(w) \/ WakeTake(w) \/ WakeCancelled(w) \/ WakeTimeout(w)

-----------------------------------------------------------------------------
(* The mailbox on its own: any thread posts and clears.                    *)
PostBounded == posted < MaxPosts /\ Post

Next ==
  \/ PostBounded
  \/ \E cancel_waiters \in BOOLEAN : Clear(cancel_waiters)
  \/ \E w \in Waiter : \/ WaitTake(w)
                       \/ WaitBlock(w)
                       \/ SpuriousWakeup(w)
                       \/ Expire(w)
                       \/ WakeAgain(w)
                       \/ WakeTake(w)
                       \/ WakeCancelled(w)
                       \/ WakeTimeout(w)

(* A notified thread takes the mutex again and a deadline passes; nobody   *)
(* has to post, clear, or call wait().                                     *)
Fairness ==
  \A w \in Waiter : /\ WF_vars(Wake(w))
                    /\ WF_vars(Expire(w))

Spec == Init /\ [][Next]_vars /\ Fairness

-----------------------------------------------------------------------------
TypeOK ==
  /\ m_msgs \in Seq(Nat)
  /\ m_cancel_status \subseteq Waiter
  /\ cancel \in [Waiter -> BOOLEAN]
  /\ waiter \in [Waiter -> WaiterState]
  /\ \A w \in Waiter \ TimedWaiter : waiter[w] # "expired"
  /\ posted \in Nat
  /\ got \in [Waiter -> Seq(Nat)]
  /\ dropped \subseteq Nat

(* A thread sleeps in m_cond_var.wait only while there is neither a        *)
(* message nor a cancellation for it: no notification can be missed        *)
(* between the test of the queue and the wait.                             *)
NoLostWakeup ==
  \A w \in Waiter : waiter[w] = "blocked" => m_msgs = <<>> /\ ~cancel[w]

(* The registered flags are locals of the wait() calls in progress, no     *)
(* others: clear() never writes through a pointer into a frame that is     *)
(* gone, and reaches every call in progress.                               *)
FlagsAreLive == m_cancel_status = {w \in Waiter : waiter[w] # "outside"}

(* No call of wait() is missed: neither by post(), nor by clear(), which   *)
(* would also write where a call has been.                                 *)
EveryWaitIsReached == NoLostWakeup /\ FlagsAreLive

(* Every message posted is in exactly one place: still queued, returned by *)
(* one wait() of one thread, or dropped by clear().                        *)
ExactlyOnePlace ==
  /\ Elements(m_msgs) \cup dropped \cup UNION {Elements(got[w]) : w \in Waiter}
       = 1..posted
  /\ Elements(m_msgs) \cap dropped = {}
  /\ \A w \in Waiter :
       /\ Elements(got[w]) \cap (Elements(m_msgs) \cup dropped) = {}
       /\ \A v \in Waiter \ {w} : Elements(got[w]) \cap Elements(got[v]) = {}

(* Every thread receives messages in the order they were posted, and the   *)
(* queue only holds messages newer than any that was received.             *)
InPostOrder ==
  /\ \A i, j \in DOMAIN m_msgs : i < j => m_msgs[i] < m_msgs[j]
  /\ \A w \in Waiter :
       /\ \A i, j \in DOMAIN got[w] : i < j => got[w][i] < got[w][j]
       /\ \A i \in DOMAIN got[w], j \in DOMAIN m_msgs : got[w][i] < m_msgs[j]

(* clear(true) makes every thread that is inside wait() at that moment     *)
(* return false: it takes no message, even one posted after the clear.     *)
CancelledTakesNothing ==
  [][\A w \in Waiter : cancel[w] => got'[w] = got[w]]_vars

(* A cancelled thread and a thread with a timeout do come out of wait().   *)
WaitReturns ==
  \A w \in Waiter :
    (cancel[w] \/ (waiter[w] # "outside" /\ w \in TimedWaiter))
      ~> (waiter[w] = "outside")

=============================================================================
