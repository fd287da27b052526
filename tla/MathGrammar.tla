---------------------------- MODULE MathGrammar ----------------------------
(***************************************************************************)
(* What an expression means: the operators of equal precedence associate   *)
(* to the left, and * and / bind more than + and -.                        *)
(***************************************************************************)
EXTENDS MathExpressionParser, FiniteSetsExt

Depth(s, i) ==
  Cardinality({j \in 1..i : s[j] = "("}) - Cardinality({j \in 1..i : s[j] = ")"})

Balanced(s) == /\ \A i \in DOMAIN s : Depth(s, i) >= 0
               /\ Depth(s, Len(s)) = 0

(* The positions of Items in s that no parenthesis encloses *)
Outside(s, Items_) == {i \in DOMAIN s : s[i] \in Items_ /\ Depth(s, i) = 0}

(* s without its first and last item, when these enclose the rest *)
Encloses(s) == /\ Len(s) > 2 /\ s[1] = "(" /\ Last(s) = ")"
               /\ \A i \in 1..(Len(s) - 1) : Depth(s, i) > 0
Inside(s) == SubSeq(s, 2, Len(s) - 1)

RECURSIVE Meanings(_)
RECURSIVE Arguments(_)

(* The tree of s, or no tree when it has no meaning *)
Meanings(s) ==
  LET adds == Outside(s, Additive)
      muls == Outside(s, Prioritary)
      Parted(i) == {[op |-> s[i], args |-> <<l, r>>] :
                     l \in Meanings(SubSeq(s, 1, i - 1)),
                     r \in Meanings(SubSeq(s, i + 1, Len(s)))}
  IN CASE s = <<>> \/ ~Balanced(s) -> {}
       [] adds # {} -> Parted(Max(adds))
       [] adds = {} /\ muls # {} -> Parted(Max(muls))
       [] Len(s) = 1 -> IF s[1] \in Separators \union Malformed THEN {} ELSE {Leaf(s[1])}
       [] Encloses(s) -> Meanings(Inside(s))
       [] s[1] \in DOMAIN Arity /\ Encloses(Tail(s)) ->
            {[op |-> s[1], args |-> a] :
               a \in {b \in Arguments(Inside(Tail(s))) : Len(b) = Arity[s[1]]}}
       [] OTHER -> {}

(* The trees of what the commas outside parentheses separate *)
Arguments(s) ==
  LET commas == Outside(s, {","})
      i == Max(commas)
  IN IF commas = {} THEN {<<tree>> : tree \in Meanings(s)}
     ELSE {Append(a, tree) : a \in Arguments(SubSeq(s, 1, i - 1)),
                             tree \in Meanings(SubSeq(s, i + 1, Len(s)))}
=============================================================================
