------------------------------ MODULE MCCanSdo ------------------------------
(* Constant values for checking CanSdo with TLC. *)
EXTENDS CanSdo

Bytes(n) == [i \in 1..n |-> i]
Written(n) == [i \in 1..n |-> 100 + i]

(* Empty, expedited or not, one segment, a full one, one and a bit, three. *)
Lengths == {0, 1, 4, 5, 7, 8, 14, 15}
MCObjects == {Bytes(n) : n \in Lengths}
MCValues == {Written(n) : n \in Lengths}
=============================================================================
