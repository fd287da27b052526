----------------------------- MODULE MCMailBox -----------------------------
(* Constant values for checking MailBox with TLC: one thread that waits    *)
(* without and one that waits with a timeout.                              *)
EXTENDS MailBox

CONSTANTS w1, w2
=============================================================================
