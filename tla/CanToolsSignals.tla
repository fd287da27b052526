-------------------------- MODULE CanToolsSignals --------------------------
(***************************************************************************)
(* What the decoder of the command line tools promises, stated on the      *)
(* elements of the file, the expressions in it and the data received.      *)
(***************************************************************************)
EXTENDS CanToolsProperties, MathExpression

Grammar == INSTANCE MathGrammar

-----------------------------------------------------------------------------
(* An expression with nothing between two parentheses, or with nothing *)
Empty(items) ==
  \/ items = <<>>
  \/ \E i \in 1..(Len(items) - 1) : items[i] = "(" /\ items[i + 1] = ")"

(* A call with more or fewer parameters than the function has *)
Miscalls(items) ==
  \E i, j \in DOMAIN items :
    /\ i < j /\ items[i] \in DOMAIN Arity
    /\ LET params == SubSeq(items, i + 1, j)
       IN /\ Grammar!Encloses(params)
          /\ Cardinality(Grammar!Outside(Grammar!Inside(params), {","})) + 1 # Arity[items[i]]

(***************************************************************************)
(* A function converter is made of every expression that has a meaning,    *)
(* and computes it, whatever the precedences and the parentheses; of those *)
(* that have none, only empty parentheses and calls with a wrong number of *)
(* parameters, which vanish, are accepted.  checkSyntax() forgets what it  *)
(* found at a token when it looks at the next, and the parser finds the    *)
(* rest, if by undefined behaviour.                                        *)
(***************************************************************************)
ExpressionMeansWhatItSays ==
  \A e \in Range(xml.converters) :
    (e.type = "function_converter" /\ e.f # {} /\ Len(xml.converters) = 1
       /\ "converters" \in xml.has /\ pc \notin {"arguments", "database"}
       /\ DOMAIN db.can_msgs # {}) =>
      LET items == CHOOSE i \in e.f : TRUE
          meanings == Grammar!Meanings(items)
          accepted == e.id \in DOMAIN db.converters
      IN /\ meanings # {} => accepted /\ db.converters[e.id].tree \in meanings
         /\ accepted => meanings # {} \/ Empty(items) \/ Miscalls(items)

-----------------------------------------------------------------------------
(* A file without mistakes: identifiers that are there and differ, values  *)
(* that fit and do not overlap, converters for values they can convert.    *)
Differ(elements) ==
  \A i, j \in DOMAIN elements : elements[i].id = elements[j].id => i = j

Elements == FlattenSeq([i \in DOMAIN xml.messages |-> xml.messages[i].values])

Covers(e) == Low(e)..(Low(e) + SizeOf(e) - 1)

SaneValue(e) ==
  /\ Invalid \notin {e.byte, e.bit, e.size}
  /\ e.type \in {"bool", "uint", "int", "float", "double"}
  /\ e.size # 0 /\ e.size # Absent
  /\ Covers(e) \subseteq 0..(MsgBits - 1)
  /\ SizeOf(e) = MsgBits => wide # 0
  /\ e.type = "bool" => Number(e.bit) < ByteBits

SaneMessage(e) ==
  /\ e.id \in Id /\ e.extended # "maybe"
  /\ \A v \in Range(e.values) : SaneValue(v)
  /\ \A i, j \in DOMAIN e.values : i # j => Covers(e.values[i]) \intersect Covers(e.values[j]) = {}

Named(elements, name) == CHOOSE e \in Range(elements) : e.id = name

RECURSIVE Variables(_)
Variables(tree) ==
  IF tree.args = <<>> THEN {tree.op} \ Numerals
  ELSE UNION {Variables(t) : t \in Range(tree.args)}

SaneConverter(e) ==
  \/ /\ e.type = "enum_converter" /\ Differ(e.enums)
     /\ \A v \in Range(e.enums) : v.id # Invalid /\ v.id # Absent /\ v.value # None
  \/ /\ e.type = "function_converter"
     /\ \E items \in e.f : \E tree \in Grammar!Meanings(items) : Variables(tree) \subseteq {"in_val"}

SaneSignal(e) ==
  /\ e.id # None
  /\ \E v \in Range(Elements) : v.id = e.value
  /\ e.converter # None =>
       /\ clean
       /\ \E c \in Range(xml.converters) : c.id = e.converter
       /\ IF Named(xml.converters, e.converter).type = "enum_converter"
          THEN Named(Elements, e.value).type \in {"int", "uint"}
          ELSE Named(Elements, e.value).type # "bool"

Sane ==
  /\ xml.has = {"messages", "converters", "signals"}
  /\ Differ(xml.messages) /\ Differ(Elements) /\ Differ(xml.converters)
  /\ \A e \in Range(xml.messages) : SaneMessage(e)
  /\ \A e \in Range(xml.converters) : e.id # None /\ SaneConverter(e)
  /\ \A e \in Range(xml.signals) : SaneSignal(e)

-----------------------------------------------------------------------------
(* The bits a value covers, as a number *)
Carried(e, data) == BitsOf(data, Low(e), SizeOf(e))
Negative(e, data) == BitOf(data, Low(e) + SizeOf(e) - 1) = 1
Raw(e, data) == Carried(e, data) - IF e.type = "int" THEN 2^SizeOf(e) ELSE 0

(* What a function makes of an integer, when that is an integer *)
RECURSIVE Worth(_, _)
Worth(tree, n) ==
  LET x == [i \in DOMAIN tree.args |-> Worth(tree.args[i], n)]
  IN CASE tree.op = "in_val"    -> {n}
       [] tree.op \in Numerals -> {NumeralValue[tree.op]}
       [] tree.op = "+"   -> {a + b : a \in x[1], b \in x[2]}
       [] tree.op = "-"   -> {a - b : a \in x[1], b \in x[2]}
       [] tree.op = "*"   -> {a * b : a \in x[1], b \in x[2]}
       [] tree.op = "min" -> {Min({a, b}) : a \in x[1], b \in x[2]}
       [] tree.op = "max" -> {Max({a, b}) : a \in x[1], b \in x[2]}
       [] tree.op = "abs" -> {Max({a, -a}) : a \in x[1]}
       [] OTHER -> {}

(* What the line of a signal says.  Of an int that is not negative the     *)
(* code makes a negative number, and a bool it does not print: nothing is  *)
(* said of these.  A function is followed on integers only.                *)
Says(line, signal, data) ==
  LET e == Named(Elements, signal.value)
      c == Named(xml.converters, signal.converter)
      printed == IF e.type \in {"int", "uint"} THEN [number |-> {Raw(e, data)}]
                 ELSE [bits |-> Carried(e, data)]
      entries == {v \in Range(c.enums) : v.id = Raw(e, data)}
      meant == CHOOSE tree \in UNION {Grammar!Meanings(items) : items \in c.f} : TRUE
  IN /\ line.signal = signal.id
     /\ (e.type # "bool" /\ (e.type = "int" => Negative(e, data))) =>
          /\ line.raw = printed
          /\ IF signal.converter = None THEN line.converted = printed
             ELSE IF c.type = "enum_converter"
             THEN line.converted.text \in
                    IF entries = {} THEN {""} ELSE {v.value : v \in entries}
             ELSE e.type \in {"int", "uint"} =>
                    line.converted.number = Worth(meant, Raw(e, data))

Declared(msg) ==
  SelectSeq(xml.signals, LAMBDA s :
    \E e \in Range(xml.messages) : e.id = msg.id /\ \E v \in Range(e.values) : v.id = s.value)

(***************************************************************************)
(* With a database without mistakes can_dump prints the signals of the     *)
(* traffic its lists let through, in order, each with the bits its value   *)
(* was declared to have and what its converter makes of them; such a       *)
(* database is loaded and does not end the program.  Of extended messages  *)
(* with an identifier of the lists nothing is said.                        *)
(***************************************************************************)
SignalsAreTheTraffic ==
  (tool \in {"can_dump", "client"} /\ Sane) =>
    /\ db.out = "ok" /\ pc # "undefined"
    /\ (Told /\ NoExtendedOnList /\ ~Logs) =>
         LET asked == FlattenSeq([i \in DOMAIN Passed |->
                        [k \in DOMAIN Declared(Passed[i].msg) |->
                           <<Declared(Passed[i].msg)[k], Passed[i].msg.data>>]])
         IN /\ Len(output) = Len(asked)
            /\ \A i \in DOMAIN output : Says(output[i], asked[i][1], asked[i][2])
=============================================================================
