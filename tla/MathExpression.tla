--------------------------- MODULE MathExpression ---------------------------
(***************************************************************************)
(* MathExpression.h: what a tree evaluates to.                             *)
(*                                                                         *)
(* A double is the set of one integer, or the empty set when it is not an  *)
(* integer that can be followed: a quotient, a sine.                       *)
(***************************************************************************)
EXTENDS MathExpressionParser

CONSTANT NumeralValue  \* the integer a numeral stands for

(* compute() of the operators, and the functions that map integers to      *)
(* integers *)
Compute(op, x) ==
  CASE op = "+" -> {x[1] + x[2]}
    [] op = "-" -> {x[1] - x[2]}
    [] op = "*" -> {x[1] * x[2]}
    [] op = "min" -> {IF x[1] < x[2] THEN x[1] ELSE x[2]}
    [] op = "max" -> {IF x[1] > x[2] THEN x[1] ELSE x[2]}
    [] op = "abs" -> {IF x[1] < 0 THEN -x[1] ELSE x[1]}
    [] op \in {"ceil", "floor", "round", "trunc"} -> {x[1]}
    [] OTHER -> {}

RECURSIVE Evaluate(_, _)
Evaluate(tree, env) ==
  LET x == [i \in DOMAIN tree.args |-> Evaluate(tree.args[i], env)]
  IN IF tree.op \in Numerals THEN {NumeralValue[tree.op]}
     ELSE IF tree.args = <<>> THEN env[tree.op]
     ELSE IF {} \in Range(x) THEN {}
     ELSE Compute(tree.op, [i \in DOMAIN x |-> CHOOSE n \in x[i] : TRUE])

(* std::map::at() throws on a variable without a value. *)
RECURSIVE Throws(_, _)
Throws(tree, env) ==
  IF tree.args = <<>> THEN tree.op \notin Numerals \union DOMAIN env
  ELSE \E i \in DOMAIN tree.args : Throws(tree.args[i], env)
=============================================================================
