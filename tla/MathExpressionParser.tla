------------------------ MODULE MathExpressionParser ------------------------
(***************************************************************************)
(* MathExpressionLexer and MathExpressionParser (libs/math): what parse()  *)
(* makes of an expression.                                                 *)
(*                                                                         *)
(* An expression is a sequence of items: separators, and the runs of other *)
(* characters between them, of which no two follow each other.  A tree is  *)
(* [op, args]: op is a constant, a variable, an operator or a function.    *)
(*                                                                         *)
(* An outcome is "ok", "failed", or "undefined" where the code reads past  *)
(* the end of a container or frees an object twice.                        *)
(***************************************************************************)
EXTENDS Integers, SequencesExt

CONSTANTS
  Numerals,   \* runs made of digits and at most one dot
  Malformed,  \* runs with a second dot or a digit before a name
  Arity       \* number of parameters of the functions, by name

Prioritary == {"*", "/"}
Additive   == {"+", "-"}
Binary     == Additive \union Prioritary
Separators == Binary \union {"(", ")", ","}

Null == [op |-> "null", args |-> <<>>]
Leaf(item) == [op |-> item, args |-> <<>>]

Token(type, item) == [type |-> type, token |-> item]

-----------------------------------------------------------------------------
(* addToken(): a name before a parenthesis becomes a call, and the         *)
(* parenthesis a part of it.                                               *)
AddToken(tokens, item) ==
  IF item = "(" /\ tokens # <<>> /\ Last(tokens).type = "VAR_EXPR"
  THEN Append(Front(tokens), Token("FUNC_CALL", Last(tokens).token))
  ELSE Append(tokens,
              Token(CASE item \in Separators -> "OPERATOR"
                      [] item \in Numerals   -> "CONST_EXPR"
                      [] OTHER               -> "VAR_EXPR", item))

Tokens(items) == FoldLeft(AddToken, <<>>, items)

(* isNumeric() fails on a malformed run, and the run is still there when   *)
(* tokenize() adds the final token: it fails again.                        *)
Tokenizes(items) == \A i \in DOMAIN items : items[i] \notin Malformed

-----------------------------------------------------------------------------
(* What is said of the token before is forgotten when there is a token     *)
(* after: only the last token is held to what precedes it.                 *)
OperandFits(tokens, i) ==
  IF i < Len(tokens)
  THEN tokens[i + 1].type = "OPERATOR" \/ tokens[i].type = "FUNC_CALL"
  ELSE i > 1 => tokens[i - 1].type = "OPERATOR"

OperatorFits(tokens, i) ==
  IF i < Len(tokens)
  THEN tokens[i + 1].type # "OPERATOR" \/ tokens[i + 1].token = "("
  ELSE i > 1 => tokens[i - 1].type # "OPERATOR" \/ tokens[i - 1].token = ")"

Opens(token)  == token.token = "(" \/ token.type = "FUNC_CALL"
Closes(token) == token.token = ")"

(* checkSyntax(): too many opening parentheses are left to the parser. *)
CheckSyntax(tokens) ==
  /\ \A i \in DOMAIN tokens :
       /\ tokens[i].type # "OPERATOR" => OperandFits(tokens, i)
       /\ tokens[i].token \in Binary => OperatorFits(tokens, i)
  /\ Len(SelectSeq(tokens, Opens)) >= Len(SelectSeq(tokens, Closes))

-----------------------------------------------------------------------------
(* A pass of factorizeExpression() from position i on: an operator takes   *)
(* the expressions on both sides of it.  exprs is shorter than toks when   *)
(* an item gave no expression.                                             *)
Taken(s, i) == Append(SubSeq(s, 1, i - 2), s[i]) \o SubSeq(s, i + 2, Len(s))

RECURSIVE Pass(_, _, _, _)
Pass(toks, exprs, i, Ops) ==
  IF i > Len(toks) THEN [out |-> "ok", toks |-> toks, exprs |-> exprs]
  ELSE IF toks[i].token \notin Ops THEN Pass(toks, exprs, i + 1, Ops)
  ELSE IF i > Len(exprs) THEN [out |-> "undefined"]
  ELSE IF exprs[i].op \notin Binary \/ i \in {1, Len(toks)}
  THEN [out |-> "failed", toks |-> toks]
  ELSE IF i = Len(exprs) THEN [out |-> "undefined"]
  ELSE LET both == [exprs[i] EXCEPT !.args = <<exprs[i - 1], exprs[i + 1]>>]
       IN Pass(Taken(toks, i), Taken([exprs EXCEPT ![i] = both], i), i, Ops)

(* After a failure parseExpression() deletes the expressions it handed     *)
(* over, also those that an operator owns by then.                         *)
Factorized(toks, s) ==
  CASE s.out = "undefined" -> s
    [] s.out = "ok" /\ Len(s.exprs) = 1 -> [out |-> "ok", tree |-> s.exprs[1]]
    [] OTHER -> [out |-> IF s.toks = toks THEN "failed" ELSE "undefined"]

ThenPass(s, Ops) == IF s.out = "ok" THEN Pass(s.toks, s.exprs, 1, Ops) ELSE s

(* Variant: one pass for all the operators. *)
FactorizeAtOnce(toks, exprs) ==
  IF toks = <<>> THEN [out |-> "ok", tree |-> Null]
  ELSE Factorized(toks, Pass(toks, exprs, 1, Binary))

FactorizeExpression(toks, exprs) ==
  IF toks = <<>> THEN [out |-> "ok", tree |-> Null]
  ELSE Factorized(toks, ThenPass(Pass(toks, exprs, 1, Prioritary), Additive))

-----------------------------------------------------------------------------
(* findFunction() and FunctionCallExpression::setParams(); a wrong number  *)
(* of parameters is reported in m_last_error only, and the call lost.      *)
Call(function, params) ==
  IF Len(params) = Arity[function] THEN << [op |-> function, args |-> params] >>
  ELSE <<>>

RECURSIVE ParseExpression(_, _, _), Items(_, _), Params(_, _)

(* An item that ends at a position, and the expression it gives, if any *)
Gives(tokens, s, out, index, exprs) ==
  [out |-> out, index |-> IF index <= Len(tokens) THEN index + 1 ELSE index,
   toks |-> Append(s.toks, tokens[s.index]), exprs |-> s.exprs \o exprs]

Block(tokens, s, inner) ==
  Gives(tokens, s, inner.out, inner.index, IF inner.tree = Null THEN <<>> ELSE <<inner.tree>>)

FunctionCall(tokens, s, call) ==
  Gives(tokens, s, call.out, call.index, Call(tokens[s.index].token, call.params))

Item(tokens, s, token) ==
  CASE token.token = "(" -> Block(tokens, s, ParseExpression(tokens, s.index + 1, TRUE))
    [] token.type = "FUNC_CALL" /\ token.token \in DOMAIN Arity ->
         FunctionCall(tokens, s, Params(tokens,
           [out |-> "ok", index |-> s.index + 1, start |-> s.index + 1, depth |-> 1, params |-> <<>>]))
    [] token.type \in {"CONST_EXPR", "VAR_EXPR"} \/ token.token \in Binary ->
         Gives(tokens, s, "ok", s.index, <<Leaf(token.token)>>)
    [] OTHER -> Gives(tokens, s, "failed", s.index, <<>>)

Items(tokens, s) ==
  IF s.out # "ok" \/ s.index > Len(tokens) \/ Closes(tokens[s.index]) THEN s
  ELSE Items(tokens, Item(tokens, s, tokens[s.index]))

(* What the items of a block give, at its end *)
Result(index, res) ==
  [out |-> res.out, index |-> index, tree |-> IF res.out = "ok" THEN res.tree ELSE Null]

Expression(tokens, s, need_ending_parenthesis) ==
  Result(s.index,
    CASE s.out # "ok" -> s
      [] s.out = "ok" /\ (s.index <= Len(tokens)) # need_ending_parenthesis -> [out |-> "failed"]
      [] OTHER -> FactorizeExpression(s.toks, s.exprs))

(* Parse up to the end of the tokens, or to the parenthesis that ends the  *)
(* block when one is needed.                                               *)
ParseExpression(tokens, index, need_ending_parenthesis) ==
  Expression(tokens,
    Items(tokens, [out |-> "ok", index |-> index, toks |-> <<>>, exprs |-> <<>>]),
    need_ending_parenthesis)

(* A parameter that a comma ends, at s.index, and the last one, which a    *)
(* parenthesis has ended.  After this the caller steps over the token that *)
(* follows, which it should not when the call had no parameter.            *)
Param(s, param) ==
  CASE param.out # "ok" -> [s EXCEPT !.out = param.out]
    [] param.out = "ok" /\ param.tree = Null -> [s EXCEPT !.out = "failed"]
    [] OTHER -> [s EXCEPT !.params = Append(@, param.tree),
                          !.index = @ + 1, !.start = s.index + 1]

LastParam(s, param, length) ==
  CASE param.out # "ok" -> [s EXCEPT !.out = param.out]
    [] param.out = "ok" /\ param.tree = Null ->
         IF s.params = <<>> THEN s ELSE [s EXCEPT !.out = "failed"]
    [] OTHER -> [s EXCEPT !.params = Append(@, param.tree),
                          !.index = IF @ <= length THEN @ - 1 ELSE @]

(* A token of a parameter *)
Nested(s, token) ==
  [s EXCEPT !.index = @ + 1,
            !.depth = @ + (IF Opens(token) THEN 1 ELSE IF Closes(token) THEN -1 ELSE 0)]

(* parseFunctionParams(), from the token at s.index on: the tokens of a    *)
(* parameter are parsed on their own.                                      *)
ParamOf(tokens, s, last) == ParseExpression(SubSeq(tokens, s.start, last), 1, FALSE)

Params(tokens, s) ==
  IF s.out # "ok" THEN s
  ELSE IF s.depth = 0 THEN LastParam(s, ParamOf(tokens, s, s.index - 2), Len(tokens))
  ELSE IF s.index > Len(tokens) THEN [s EXCEPT !.out = "failed"]
  ELSE Params(tokens,
         IF tokens[s.index].token # "," \/ s.depth # 1 THEN Nested(s, tokens[s.index])
         ELSE Param(s, ParamOf(tokens, s, s.index - 1)))

(* parse(): an empty expression is parsed, and gives no tree. *)
Parsed(tokens) ==
  IF CheckSyntax(tokens) THEN ParseExpression(tokens, 1, FALSE)
  ELSE [out |-> "failed", tree |-> Null]

Parse(items) ==
  IF Tokenizes(items) THEN Parsed(Tokens(items)) ELSE [out |-> "failed", tree |-> Null]
=============================================================================
