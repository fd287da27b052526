----------------------- MODULE LoopbackCanController -----------------------
(***************************************************************************)
(* LoopbackCanAdapterController (dynlibs/adapters/loopback_adapter): a     *)
(* controller without a thread, that gives what it is asked to send to its *)
(* listener as received, in the calling thread and before send() returns.  *)
(***************************************************************************)
CONSTANTS Side

VARIABLES
  opened,
  started,
  mode     \* subset of {"std", "ext"}


Rx(msg) == [type |-> "rx", msg |-> msg]

(* Allocate(): calloc() *)
Init ==
  /\ opened = [s \in Side |-> FALSE]
  /\ started = [s \in Side |-> FALSE]
  /\ mode = [s \in Side |-> {}]

Open(s) ==
  /\ ~opened[s]
  /\ opened' = [opened EXCEPT ![s] = TRUE]
  /\ UNCHANGED <<started, mode>>

(* Close() does not ask the controller to be stopped; Release() frees it,  *)
(* open or not.                                                            *)
Close(s) ==
  /\ opened[s]
  /\ opened' = [opened EXCEPT ![s] = FALSE]
  /\ started' = [started EXCEPT ![s] = FALSE]
  /\ UNCHANGED mode

Configure(s, m) ==
  /\ opened[s]
  /\ mode' = [mode EXCEPT ![s] = m]
  /\ UNCHANGED <<opened, started>>

Start(s) ==
  /\ opened[s] /\ ~started[s]
  /\ started' = [started EXCEPT ![s] = TRUE]
  /\ UNCHANGED <<opened, mode>>

Stop(s) ==
  /\ opened[s] /\ started[s]
  /\ started' = [started EXCEPT ![s] = FALSE]
  /\ UNCHANGED <<opened, mode>>

(* Send() of an extended message fails unless the mode allows it. *)
Accepts(s, msg) ==
  /\ opened[s] /\ started[s]
  /\ msg.extended => "ext" \in mode[s]

=============================================================================
