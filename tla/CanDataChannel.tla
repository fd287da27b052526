--------------------------- MODULE CanDataChannel ---------------------------
(***************************************************************************)
(* What a CAN pipeline promises to the stages connected to it, whatever it *)
(* is built from: each of them sees the data in the order the controller   *)
(* gave it, each datum at most once, and the only data it never sees is    *)
(* the newest that was still waiting when the pipeline was emptied, the    *)
(* same for all of them.                                                   *)
(***************************************************************************)
EXTENDS Naturals, Sequences

CONSTANTS Child

VARIABLES
  sent,      \* number of data given by the controller
  pending,   \* per child: data it has still to see
  out        \* per child: data it has seen

vars == <<sent, pending, out>>

Init ==
  /\ sent = 0
  /\ pending = [c \in Child |-> <<>>]
  /\ out = [c \in Child |-> <<>>]

Accept ==
  /\ sent' = sent + 1
  /\ pending' = [c \in Child |-> Append(pending[c], sent + 1)]
  /\ UNCHANGED out

Deliver(c) ==
  /\ pending[c] # <<>>
  /\ out' = [out EXCEPT ![c] = Append(@, Head(pending[c]))]
  /\ pending' = [pending EXCEPT ![c] = Tail(@)]
  /\ UNCHANGED sent

DiscardNewest(n) ==
  /\ \A c \in Child : n <= Len(pending[c])
  /\ pending' = [c \in Child |-> SubSeq(pending[c], 1, Len(pending[c]) - n)]
  /\ UNCHANGED <<sent, out>>

Next ==
  \/ Accept
  \/ \E c \in Child : Deliver(c)
  \/ \E n \in 1..sent : DiscardNewest(n)

Spec == Init /\ [][Next]_vars

=============================================================================
