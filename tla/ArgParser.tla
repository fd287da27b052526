----------------------------- MODULE ArgParser -----------------------------
(***************************************************************************)
(* ArgParser (libs/utils): parse() goes through the words of a command     *)
(* line, option by option.                                                 *)
(*                                                                         *)
(* A word is [text, number, minus, hex]: the number it begins with, or     *)
(* NoNumber, whether a minus sign comes before it, and whether it begins   *)
(* with 0x.  What follows the number changes the text only.                *)
(***************************************************************************)
EXTENDS Integers, SequencesExt

CONSTANT
  Width   \* bound: bits of the integer types, [uint8, ..., uint64]; 8 to 64
          \* in the code

(* No integer is wider than std::stoull() reads. *)
ASSUME ArgParserAssumption ==
  /\ DOMAIN Width = {"uint8", "uint16", "uint32", "uint64"}
  /\ \A type \in DOMAIN Width : 2^Width[type] \in 1..2^Width.uint64

VARIABLES
  args,             \* of the program: [option, name, type, mandatory, min, max]
  argv,             \* the words after the name of the program
  count,            \* position of the word to look at
  parsing,          \* "option", "parameters", "parsed" or "failed"
  arg,              \* position of the option whose parameters are read
  converters,       \* their values
  m_values,         \* values, by name
  m_args_presence   \* positions of the options that were found

parser == <<args, argv, count, parsing, arg, converters, m_values, m_args_presence>>

NoNumber == -1

-----------------------------------------------------------------------------
(* The conversions give the set of one value, or no value when they fail.  *)
(* std::stoull() makes -n of the largest number a wrap.                    *)
Stoull(w) ==
  IF w.number = NoNumber \/ w.number >= 2^Width.uint64 THEN {}
  ELSE IF w.minus THEN {(2^Width.uint64 - w.number) % 2^Width.uint64}
  ELSE {w.number}

ConvertUint(type, w) == {n \in Stoull(w) : n < 2^Width[type]}

(* std::stoll() reads the 0 of 0x. *)
Stoll(w) == CASE w.hex -> {0}
              [] ~w.hex /\ w.number = NoNumber -> {}
              [] OTHER -> {IF w.minus THEN -w.number ELSE w.number}

Bits(type) == Width[CASE type = "int8"  -> "uint8"
                      [] type = "int16" -> "uint16"
                      [] type = "int32" -> "uint32"
                      [] type = "int64" -> "uint64"]

ConvertSint(type, w) ==
  {n \in Stoll(w) : n \in (-2^(Bits(type) - 1))..(2^(Bits(type) - 1) - 1)}

(* The smallest value is numeric_limits::min(), the smallest that is       *)
(* positive: zero and less are refused.                                    *)
ConvertFloat(w) == IF w.number > 0 /\ ~w.minus THEN {w.number} ELSE {}

ConvertBool(w) ==
  CASE w.text \in {"true", "True", "TRUE"}    -> {TRUE}
    [] w.text \in {"false", "False", "FALSE"} -> {FALSE}
    [] OTHER -> {}

Convert(type, w) ==
  CASE type = "string" -> {w.text}
    [] type = "bool" -> ConvertBool(w)
    [] type \in {"float", "double"} -> ConvertFloat(w)
    [] type \in DOMAIN Width -> ConvertUint(type, w)
    [] OTHER -> ConvertSint(type, w)

-----------------------------------------------------------------------------
(* Argument takes one parameter unless it is told otherwise, and           *)
(* SingleArgument takes none: its value is there when the option is.       *)
Argument(option, name, type, mandatory, min, max) ==
  [option |-> option, name |-> name, type |-> type, mandatory |-> mandatory,
   min |-> min, max |-> max]
OneArgument(option, name, type, mandatory) ==
  Argument(option, name, type, mandatory, 1, 1)
SingleArgument(option, name) == Argument(option, name, "bool", FALSE, 0, 0)

(* The constructor adds the option that asks for help. *)
Help == SingleArgument("-h", "help")

(* findArgument(): the first option that has the name of the word *)
Found(w) == {a \in DOMAIN args : args[a].option = w.text}
FindArgument(w) == Min(Found(w))

-----------------------------------------------------------------------------
Init ==
  /\ count = 1
  /\ parsing = "option"
  /\ arg = 0
  /\ converters = <<>>
  /\ m_values = [name \in {} |-> <<>>]
  /\ m_args_presence = {}

Save(values) ==
  m_values' = [name \in DOMAIN m_values \union {args[arg'].name} |->
                 IF name = args[arg'].name THEN values ELSE m_values[name]]

(* parse() returns false *)
Refuse ==
  /\ parsing' = "failed"
  /\ UNCHANGED <<args, argv, count, arg, converters, m_values, m_args_presence>>

AtOption == parsing = "option" /\ count <= Len(argv)

UnknownOption == AtOption /\ Found(argv[count]) = {} /\ Refuse

HelpOption ==
  /\ AtOption
  /\ Found(argv[count]) # {} /\ args[FindArgument(argv[count])] = Help
  /\ Refuse

(* An option, whose presence counts even if its parameters are refused *)
Option ==
  /\ AtOption
  /\ Found(argv[count]) # {} /\ args[FindArgument(argv[count])] # Help
  /\ arg' = FindArgument(argv[count])
  /\ m_args_presence' = m_args_presence \union {arg'}
  /\ count' = count + 1
  /\ converters' = <<>>
  /\ IF args[arg'].max = 0
     THEN parsing' = "option" /\ Save(<<TRUE>>)
     ELSE parsing' = "parameters" /\ UNCHANGED m_values
  /\ UNCHANGED <<args, argv>>

(* Variant: a parameter may look like an option. *)
AtAnyWord == parsing = "parameters" /\ count <= Len(argv)

AtParameter ==
  parsing = "parameters" /\ count <= Len(argv) /\ Found(argv[count]) = {}

Parameter ==
  /\ AtParameter
  /\ \E value \in Convert(args[arg].type, argv[count]) :
       converters' = Append(converters, value)
  /\ count' = count + 1
  /\ UNCHANGED <<args, argv, parsing, arg, m_values, m_args_presence>>

InvalidParameter ==
  AtParameter /\ Convert(args[arg].type, argv[count]) = {} /\ Refuse

(* The next word is an option, or there is none.  The values of an option  *)
(* of the same name that came before are lost.                             *)
EndOfParameters ==
  /\ parsing = "parameters"
  /\ count <= Len(argv) => Found(argv[count]) # {}
  /\ IF Len(converters) \in args[arg].min..args[arg].max
     THEN /\ parsing' = "option" /\ arg' = arg
          /\ Save(converters)
          /\ UNCHANGED <<args, argv, count, converters, m_args_presence>>
     ELSE Refuse

EndOfLine ==
  /\ parsing = "option" /\ count > Len(argv)
  /\ IF \A a \in DOMAIN args : args[a].mandatory => a \in m_args_presence
     THEN /\ parsing' = "parsed"
          /\ UNCHANGED <<args, argv, count, arg, converters, m_values, m_args_presence>>
     ELSE Refuse

ParseWords ==
  \/ UnknownOption \/ HelpOption \/ Option
  \/ Parameter \/ InvalidParameter \/ EndOfParameters
  \/ EndOfLine

(* parse() of any words, for the options of any program: of an option at   *)
(* most as many parameters as at least, and none mandatory that another    *)
(* hides.                                                                  *)
Type == {"string", "bool", "float", "double", "uint8", "uint16", "uint32", "uint64",
         "int8", "int16", "int32", "int64"}
CommandWord == [text : STRING, number : Nat \union {NoNumber}, minus : BOOLEAN, hex : BOOLEAN]

LineOK ==
  /\ args \in Seq([option : STRING, name : STRING, type : Type, mandatory : BOOLEAN,
                   min : Nat, max : Nat])
  /\ argv \in Seq(CommandWord)
  /\ \A a \in DOMAIN args : args[a].min <= args[a].max
  /\ \A a, b \in DOMAIN args : args[a].mandatory /\ args[a] = args[b] => a = b

ParserSpec == LineOK /\ Init /\ [][ParseWords]_parser

(* operator[], and value() and values(), which read what was converted for *)
(* the type of the option as one of the type that is asked for             *)
Given(name) == name \in DOMAIN m_values
ValueAs(type, name) == m_values[name][1] % 2^Width[type]
Value(name) == m_values[name][1]
Values(name) == IF Given(name) THEN m_values[name] ELSE <<>>

-----------------------------------------------------------------------------
(* What a command line means: an option goes with the words up to the next *)
(* one, and of those of a name the last counts.                            *)
Options == {i \in DOMAIN argv : Found(argv[i]) # {}}

ParametersOf(i) ==
  LET next == {j \in Options : j > i}
  IN SubSeq(argv, i + 1, IF next = {} THEN Len(argv) ELSE Min(next) - 1)

Of(i) == args[FindArgument(argv[i])]

(* A number is one of the values of its type.  Not all the negative and    *)
(* hexadecimal ones are read as what they are.                             *)
Plain(type, w) ==
  /\ w.number # NoNumber
  /\ type \in DOMAIN Width => ~w.minus
  /\ type \notin DOMAIN Width => ~w.hex
NumberOf(w) == IF w.minus THEN -w.number ELSE w.number
ValuesOf(type) ==
  CASE type \in DOMAIN Width -> 0..(2^Width[type] - 1)
    [] type \in {"float", "double"} -> Nat \ {0}
    [] OTHER -> (-2^(Bits(type) - 1))..(2^(Bits(type) - 1) - 1)

IsLegal(type, w) ==
  IF type \notin {"string", "bool"} /\ Plain(type, w) THEN NumberOf(w) \in ValuesOf(type)
  ELSE Convert(type, w) # {}

Legal ==
  /\ argv # <<>> => 1 \in Options
  /\ \A i \in Options :
       /\ Of(i) # Help
       /\ Len(ParametersOf(i)) \in Of(i).min..Of(i).max
       /\ \A w \in Range(ParametersOf(i)) : IsLegal(Of(i).type, w)
  /\ \A a \in DOMAIN args : args[a].mandatory => \E i \in Options : Of(i) = args[a]

(* A word given for a parameter stands for its text or its number. *)
StandsFor(value, type, w) ==
  CASE type = "string" -> value = w.text
    [] type \notin {"string", "bool"} /\ Plain(type, w) -> value = NumberOf(w)
    [] OTHER -> TRUE

(* parse() accepts the legal command lines and no other, and keeps for the *)
(* names that were given, and no other, the parameters of the last option. *)
ArgsAreTheLine ==
  /\ parsing = "failed" => ~Legal
  /\ parsing = "parsed" =>
       /\ Legal
       /\ DOMAIN m_values = {Of(i).name : i \in Options}
       /\ \A name \in DOMAIN m_values :
            LET last == Max({i \in Options : Of(i).name = name})
            IN /\ Of(last).max > 0 => Len(m_values[name]) = Len(ParametersOf(last))
               /\ \A j \in DOMAIN ParametersOf(last) :
                    StandsFor(m_values[name][j], Of(last).type, ParametersOf(last)[j])
=============================================================================
