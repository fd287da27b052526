------------------------------- MODULE CanBus -------------------------------
(***************************************************************************)
(* A CAN bus, as can_server promises to provide one: messages appear on it *)
(* one after the other, and every node sees those of the other nodes in    *)
(* that one order, each at most once and never its own.  A node out of     *)
(* step may also see what was never on the bus.                            *)
(***************************************************************************)
EXTENDS Naturals, Sequences

CONSTANTS Node, Message

VARIABLES
  bus,    \* what has appeared on the bus, in order
  seen,   \* per node: the positions on the bus of what it has seen
  adrift  \* per node: it may be out of step

vars == <<bus, seen, adrift>>

Nowhere == 0

Init ==
  /\ bus = <<>>
  /\ seen = [c \in Node |-> <<>>]
  /\ adrift = [c \in Node |-> FALSE]

Transmit(c) ==
  /\ Len(bus') = Len(bus) + 1
  /\ LET m == bus'[Len(bus')].msg
     IN  m \in Message /\ bus' = Append(bus, [from |-> c, msg |-> m])
  /\ UNCHANGED <<seen, adrift>>

Later(c, n) == \A i \in DOMAIN seen[c] : seen[c][i] < n

See(c) ==
  /\ \E n \in 1..Len(bus) :
       /\ bus[n].from # c
       /\ Later(c, n)
       /\ seen' = [seen EXCEPT ![c] = Append(@, n)]
  /\ UNCHANGED <<bus, adrift>>

Drift(c) ==
  /\ adrift' = [adrift EXCEPT ![c] = TRUE]
  /\ UNCHANGED <<bus, seen>>

SeeStray(c) ==
  /\ adrift[c]
  /\ seen' = [seen EXCEPT ![c] = Append(@, Nowhere)]
  /\ UNCHANGED <<bus, adrift>>

Next ==
  \E c \in Node : Transmit(c) \/ See(c) \/ Drift(c) \/ SeeStray(c)

Spec == Init /\ [][Next]_vars

=============================================================================
