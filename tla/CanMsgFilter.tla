---------------------------- MODULE CanMsgFilter ----------------------------
(***************************************************************************)
(* The message filters (libs/pipeline/filter): stages of a pipeline that   *)
(* hand on all the data that is not a CAN message, and of the messages     *)
(* those their lists, flags or masks let through.                          *)
(*                                                                         *)
(* A datum is [type |-> "rx" | "tx", msg |-> [id, extended, rtr]] or an    *)
(* event.  A filter is [kind, std, ext]: std and ext are what it holds for *)
(* the standard and for the extended messages, a set of ids for the lists  *)
(* and of <<id, mask>> for the masks, which are looked at until one stops  *)
(* the message; the flags are [kind, flags].                               *)
(***************************************************************************)
EXTENDS Integers

CONSTANT
  IdBits  \* bound: width of a message id, 32 in the code

Id == 0..(2^IdBits - 1)

IsMsg(data) == data.type \in {"rx", "tx"}

Bit(n, i) == (n \div 2^i) % 2

(* id & mask, bit by bit *)
And(id, mask) ==
  LET low[i \in 0..IdBits] ==
        IF i = 0 THEN 0
        ELSE low[i - 1] + Bit(id, i - 1) * Bit(mask, i - 1) * 2^(i - 1)
  IN low[IdBits]

-----------------------------------------------------------------------------
(* CanMsgIdRange::create() takes its bounds in any order. *)
IdRange(a, b) == [min |-> IF a < b THEN a ELSE b, max |-> IF a < b THEN b ELSE a]

RangeContains(range, id) == id >= range.min /\ id <= range.max

(* The loop over a range counts ids of IdBits bits up to `id <= max`: it   *)
(* does not end when max is the largest of them.                           *)
Ends(range) == range.max < 2^IdBits - 1

List(extended) == IF extended THEN "ext" ELSE "std"

WhiteList == [kind |-> "white", std |-> {}, ext |-> {}]
BlackList == [kind |-> "black", std |-> {}, ext |-> {}]
IdMask    == [kind |-> "mask", std |-> {}, ext |-> {}]
Flags(flags) == [kind |-> "flags", flags |-> flags]

Add(f, id, extended) == [f EXCEPT ![List(extended)] = @ \union {id}]
Remove(f, id, extended) == [f EXCEPT ![List(extended)] = @ \ {id}]

AddRange(f, range, extended) ==
  [f EXCEPT ![List(extended)] = @ \union {id \in Id : RangeContains(range, id)}]

(* Variant: the loop ends before the last identifier. *)
RemoveRangeBelow(f, range, extended) ==
  [f EXCEPT ![List(extended)] = @ \ {id \in Id : id >= range.min /\ id < range.max}]

RemoveRange(f, range, extended) ==
  [f EXCEPT ![List(extended)] = @ \ {id \in Id : RangeContains(range, id)}]

AddMask(f, id, mask, extended) ==
  [f EXCEPT ![List(extended)] = @ \union {<<id, mask>>}]

(* list::remove() takes out every pair that is equal. *)
RemoveMask(f, id, mask, extended) ==
  [f EXCEPT ![List(extended)] = @ \ {<<id, mask>>}]

AddFlag(f, flag)    == [f EXCEPT !.flags = @ \union {flag}]
RemoveFlag(f, flag) == [f EXCEPT !.flags = @ \ {flag}]

-----------------------------------------------------------------------------
(* The flags are looked at one after the other, from a verdict that is     *)
(* "forward" as long as CANMSG_FLAG_STD has not changed it.                *)
FlagsForward(flags, msg) ==
  \/ "std" \notin flags
  \/ ~msg.extended
  \/ "ext" \in flags /\ msg.extended
  \/ "rtr" \in flags /\ msg.rtr

ListForwards(f, msg) ==
  LET held == f[List(msg.extended)]
  IN CASE f.kind = "white" -> msg.id \in held
       [] f.kind = "black" -> msg.id \notin held
       [] f.kind = "mask" -> \A p \in held : And(msg.id, p[2]) # p[1]

(* processCanData(): is the datum handed on? *)
Forwards(f, data) ==
  IsMsg(data) =>
    IF f.kind = "flags" THEN FlagsForward(f.flags, data.msg)
    ELSE ListForwards(f, data.msg)

=============================================================================
