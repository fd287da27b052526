---------------------------- MODULE MCTcpCanBus ----------------------------
(* Constant values for checking TcpCanBus with TLC. *)
EXTENDS TcpCanBus

CONSTANTS c1, c2, c3

OnlyFirst == [c \in Client |-> IF c = c1 THEN 1 ELSE 0]
FirstAndThird == [c \in Client |-> IF c \in {c1, c3} THEN 1 ELSE 0]
=============================================================================
