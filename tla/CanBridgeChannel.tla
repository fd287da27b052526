-------------------------- MODULE CanBridgeChannel --------------------------
(***************************************************************************)
(* What can_bridge promises in each direction, whatever the adapters: it   *)
(* sends on one side messages its controller on the other side received,   *)
(* each at most once, in the order they were received and none that the    *)
(* lists of the command line keep out.  It may lose messages.              *)
(***************************************************************************)
EXTENDS Naturals, SequencesExt

CONSTANT
  Side

VARIABLES
  lists,   \* per side: [white, black], sets of ids
  given,   \* per side: the data its controller has given
  out      \* per side: positions, in what the other side gave, of what was sent

vars == <<lists, given, out>>

OtherSide(s) == CHOOSE t \in Side : t # s

(* The lists name the messages that are to reach an adapter.  Their ids    *)
(* are those of standard messages.                                         *)
Selected(s, msg) ==
  IF lists[s].white # {} THEN ~msg.extended /\ msg.id \in lists[s].white
  ELSE msg.extended \/ msg.id \notin lists[s].black

Init ==
  /\ given = [s \in Side |-> <<>>]
  /\ out = [s \in Side |-> <<>>]

(* The controllers give data, received or echoed: what has been given is   *)
(* never taken back.                                                       *)
Give == \A s \in Side : IsPrefix(given[s], given'[s])

Forward(s) ==
  \E i \in DOMAIN given[OtherSide(s)] :
    /\ out[s] # <<>> => i > Last(out[s])
    /\ given[OtherSide(s)][i].type = "rx"
    /\ Selected(s, given[OtherSide(s)][i].msg)
    /\ out' = [out EXCEPT ![s] = Append(@, i)]

Next ==
  /\ Give
  /\ UNCHANGED out \/ \E s \in Side : Forward(s)
  /\ UNCHANGED lists

Spec == Init /\ [][Next]_vars

=============================================================================
