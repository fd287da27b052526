--------------------------- MODULE CanToolsProofs ---------------------------
(***************************************************************************)
(* Proofs about the command line tools, for every command line, every      *)
(* directory of libraries, every file and all the data received.           *)
(*                                                                         *)
(* 1. ArgParser: parse() accepts the legal command lines and no other, and *)
(*    keeps the parameters of the last option of each name.                *)
(* 2. What runs step by step: folds, and the libraries, the options text   *)
(*    and the lists that are folds.                                        *)
(* 3. LineInv and SessionInv: what main() has made of the values it asked  *)
(*    the parser for, and that these are the words of the line.            *)
(* 4. TrafficInv: what the filters hold after their changes, and what the  *)
(*    logger has printed of the traffic.                                   *)
(* 5. TypesInv: the types, with what loading leaves in a database.         *)
(* 6. DatabaseInv: the database is the one of the file, and its values are *)
(*    read from the bits they were declared to have.                       *)
(***************************************************************************)
EXTENDS CanToolsProperties, SequenceTheorems, FiniteSetTheorems, WellFoundedInduction, TLAPS

(* An option is read as the property asks for. *)
Good(i) ==
  /\ Of(i) # Help
  /\ Len(ParametersOf(i)) \in Of(i).min..Of(i).max
  /\ \A k \in DOMAIN ParametersOf(i) : IsLegal(Of(i).type, ParametersOf(i)[k])

Kept(i, values) ==
  /\ Of(i).max > 0 => Len(values) = Len(ParametersOf(i))
  /\ \A k \in DOMAIN ParametersOf(i) :
       StandsFor(values[k], Of(i).type, ParametersOf(i)[k])

(* The option whose parameters are read *)
Current == count - 1 - Len(converters)

(* The options before it have been read.                                   *)
Before == IF parsing = "parameters" THEN Current ELSE count
Read == {i \in Options : i < Before}

(* An option without parameters that is followed by a word: parse() looks  *)
(* at that word next, and refuses it.                                      *)
Unfinished(i) ==
  /\ Of(i).max = 0
  /\ i = count - 1 /\ count <= Len(argv) /\ count \notin Options

ReadInv ==
  /\ \A i \in Read : Good(i) \/ Unfinished(i)
  /\ DOMAIN m_values = {Of(i).name : i \in Read}
  /\ \A i \in Read :
       (Good(i) /\ \A j \in Read : i < j => Of(j).name # Of(i).name)
         => Kept(i, m_values[Of(i).name])
  /\ m_args_presence = {FindArgument(argv[i]) : i \in {j \in Options : j < count}}
  /\ count = 1 \/ 1 \in Options

OptionInv ==
  /\ \/ count = 1 \/ count > Len(argv) \/ count \in Options
     \/ count - 1 \in Options /\ Of(count - 1).max = 0
  /\ parsing = "parsed" =>
       /\ count > Len(argv)
       /\ \A a \in DOMAIN args : args[a].mandatory => a \in m_args_presence

ParametersInv ==
  /\ Current \in Options
  /\ arg = FindArgument(argv[Current])
  /\ Of(Current) # Help /\ Of(Current).max > 0
  /\ \A k \in (Current + 1)..(count - 1) : k \notin Options
  /\ \A k \in 1..Len(converters) :
       converters[k] \in Convert(Of(Current).type, argv[Current + k])

Converted == UNION {Convert(args[a].type, argv[c]) : a \in DOMAIN args, c \in DOMAIN argv}

IInv ==
  /\ LineOK
  /\ parsing \in {"option", "parameters", "parsed", "failed"}
  /\ count \in 1..(Len(argv) + 1)
  /\ converters \in Seq(Converted)
  /\ parsing = "failed" => ~Legal
  /\ parsing # "failed" => ReadInv
  /\ parsing \in {"option", "parsed"} => OptionInv
  /\ parsing = "parameters" => ParametersInv
-----------------------------------------------------------------------------
(* What Min and Max of sets of positions are. *)
LEMMA LeastExists ==
  ASSUME NEW S \in SUBSET Nat, S # {}
  PROVE \E m \in S : \A n \in S : m <= n
  <1> DEFINE R == {ss \in Nat \X Nat : ss[1] < ss[2]}
  <1>1. IsWellFoundedOn(R, Nat)
    BY NatLessThanWellFounded DEF OpToRel
  <1>2. \A m, n \in Nat : <<n, m>> \in R <=> n < m
    OBVIOUS
  <1> HIDE DEF R
  <1>3. PICK m \in S : \A n \in S : ~ (<<n, m>> \in R)
    BY <1>1, WFMin
  <1>4. \A n \in S : n \in Nat
    OBVIOUS
  <1>5. ASSUME NEW n \in S
        PROVE m <= n
    <2>1. ~ (n < m) /\ n \in Nat /\ m \in Nat
      BY <1>2, <1>3, <1>4
    <2>2. QED
      BY <2>1
  <1>6. QED
    BY <1>5

LEMMA MinIsLeast ==
  ASSUME NEW S \in SUBSET Nat, S # {}
  PROVE /\ Min(S) \in S /\ \A n \in S : Min(S) <= n
        /\ \A m \in S : (\A n \in S : m <= n) => Min(S) = m
  <1>1. Min(S) \in S /\ \A n \in S : Min(S) =< n
    BY LeastExists, Zenon DEF Min
  <1>2. ASSUME NEW m \in S, \A n \in S : m <= n
        PROVE Min(S) = m
    <2>1. m \in Nat /\ Min(S) \in Nat /\ m <= Min(S) /\ Min(S) <= m
      BY <1>1, <1>2
    <2>2. QED
      BY <2>1
  <1>3. QED
    BY <1>1, <1>2

LEMMA MaxIsGreatest ==
  ASSUME NEW N \in Nat, NEW S \in SUBSET (1..N), S # {}
  PROVE Max(S) \in S /\ \A n \in S : n <= Max(S)
  <1> DEFINE T == {N - n : n \in S}
  <1>1. T \in SUBSET Nat /\ T # {}
    <2>1. \A n \in S : N - n \in Nat
      OBVIOUS
    <2>2. QED
      BY <2>1
  <1>2. PICK t \in T : \A u \in T : t <= u
    BY <1>1, LeastExists
  <1>3. PICK m \in S : t = N - m
    BY <1>2
  <1>4. ASSUME NEW n \in S
        PROVE m >= n
    <2>1. N - m <= N - n
      BY <1>2, <1>3
    <2>2. m \in Nat /\ n \in Nat
      OBVIOUS
    <2>3. QED
      BY <2>1, <2>2
  <1>5. Max(S) \in S /\ \A n \in S : Max(S) >= n
    BY <1>4, Zenon DEF Max
  <1>6. \A n \in S : n \in Nat
    OBVIOUS
  <1>7. QED
    BY <1>5, <1>6

-----------------------------------------------------------------------------
(* The conversions: of a number that is written plainly the set of it if   *)
(* it is one of the values of the type, none otherwise.                    *)
LEMMA PlainConverts ==
  ASSUME NEW type \in Type \ {"string", "bool"}, NEW w \in CommandWord, Plain(type, w)
  PROVE Convert(type, w) = {n \in {NumberOf(w)} : n \in ValuesOf(type)}
  <1>1. w.number \in Nat /\ w.minus \in BOOLEAN /\ w.hex \in BOOLEAN
    BY DEF CommandWord, Plain, NoNumber
  <1>2. CASE type \in DOMAIN Width
    <2> DEFINE top == 2^Width.uint64  size == 2^Width[type]
    <2>1. size \in 1..top /\ top \in Nat /\ ~w.minus
      BY <1>2, ArgParserAssumption DEF Plain
    <2>2. /\ Convert(type, w) = {n \in Stoull(w) : n < size}
          /\ ValuesOf(type) = 0..(size - 1)
      BY <1>2, ArgParserAssumption DEF Convert, ConvertUint, ValuesOf
    <2>3. Stoull(w) = {n \in {w.number} : n < top}
      BY <1>1, <2>1 DEF Stoull, NoNumber
    <2>4. NumberOf(w) = w.number
      BY <2>1 DEF NumberOf
    <2> HIDE DEF top, size
    <2>5. QED
      BY <1>1, <2>1, <2>2, <2>3, <2>4
  <1>3. CASE type \in {"float", "double"}
    <2>1. Convert(type, w) = IF w.number > 0 /\ ~w.minus THEN {w.number} ELSE {}
      BY <1>3, ArgParserAssumption DEF Convert, ConvertFloat
    <2>2. ValuesOf(type) = Nat \ {0}
      BY <1>3, ArgParserAssumption DEF ValuesOf
    <2>3. QED
      BY <1>1, <2>1, <2>2 DEF NumberOf
  <1>4. CASE type \notin DOMAIN Width /\ type \notin {"float", "double"}
    <2> DEFINE values == (-2^(Bits(type) - 1))..(2^(Bits(type) - 1) - 1)
    <2>1. Convert(type, w) = {n \in Stoll(w) : n \in values}
      BY <1>4 DEF Convert, ConvertSint
    <2>2. ValuesOf(type) = values
      BY <1>4 DEF ValuesOf
    <2>3. Stoll(w) = {NumberOf(w)}
      BY <1>1, <1>4 DEF Stoll, NumberOf, Plain
    <2>4. QED
      BY <2>1, <2>2, <2>3, Zenon
  <1>5. QED
    BY <1>2, <1>3, <1>4

LEMMA LegalConverts ==
  ASSUME NEW type \in Type, NEW w \in CommandWord
  PROVE /\ IsLegal(type, w) <=> Convert(type, w) # {}
        /\ \A value \in Convert(type, w) : StandsFor(value, type, w)
  <1>1. CASE type = "string"
    <2>1. Convert(type, w) = {w.text}
      BY <1>1, ArgParserAssumption DEF Convert
    <2>2. QED
      BY <1>1, <2>1 DEF IsLegal, StandsFor
  <1>2. CASE type \notin {"string", "bool"} /\ Plain(type, w)
    <2>1. Convert(type, w) = {n \in {NumberOf(w)} : n \in ValuesOf(type)}
      BY <1>2, PlainConverts
    <2>2. /\ IsLegal(type, w) <=> NumberOf(w) \in ValuesOf(type)
          /\ \A value : StandsFor(value, type, w) <=> value = NumberOf(w)
      BY <1>2 DEF IsLegal, StandsFor
    <2>3. QED
      BY <2>1, <2>2
  <1>3. CASE type # "string" /\ ~(type \notin {"string", "bool"} /\ Plain(type, w))
    BY <1>3 DEF IsLegal, StandsFor
  <1>4. QED
    BY <1>1, <1>2, <1>3
-----------------------------------------------------------------------------
(* The option a word names, and the words up to the next one. *)
LEMMA LineTypes ==
  ASSUME LineOK
  PROVE /\ Len(argv) \in Nat /\ DOMAIN argv = 1..Len(argv)
        /\ \A c \in 1..Len(argv) : argv[c] \in CommandWord
        /\ \A a \in DOMAIN args : /\ args[a].type \in Type
                                  /\ args[a].min \in Nat /\ args[a].max \in Nat
                                  /\ args[a].min <= args[a].max
        /\ DOMAIN args \subseteq Nat
  <1>1. /\ Len(argv) \in Nat /\ DOMAIN argv = 1..Len(argv)
        /\ \A c \in 1..Len(argv) : argv[c] \in CommandWord
    BY LenProperties, ElementOfSeq DEF LineOK
  <1>2. DOMAIN args = 1..Len(args) /\ Len(args) \in Nat
    BY LenProperties DEF LineOK
  <1>3. ASSUME NEW a \in DOMAIN args
        PROVE args[a] \in [option : STRING, name : STRING, type : Type,
                           mandatory : BOOLEAN, min : Nat, max : Nat]
    BY <1>2, <1>3, ElementOfSeq DEF LineOK
  <1>4. \A a \in DOMAIN args : args[a].min <= args[a].max
    BY DEF LineOK
  <1>5. QED
    BY <1>1, <1>2, <1>3, <1>4

LEMMA OptionsAreFound ==
  ASSUME LineOK
  PROVE /\ Options \subseteq 1..Len(argv)
        /\ \A c \in 1..Len(argv) : c \in Options <=> Found(argv[c]) # {}
        /\ \A i \in Options : /\ FindArgument(argv[i]) \in DOMAIN args
                              /\ Of(i) = args[FindArgument(argv[i])]
                              /\ Of(i).type \in Type
                              /\ Of(i).min \in Nat /\ Of(i).max \in Nat
                              /\ Of(i).min <= Of(i).max
  <1>1. /\ Options \subseteq 1..Len(argv)
        /\ \A c \in 1..Len(argv) : c \in Options <=> Found(argv[c]) # {}
    BY LineTypes DEF Options
  <1>2. ASSUME NEW i \in Options
        PROVE FindArgument(argv[i]) \in DOMAIN args
    <2>1. Found(argv[i]) # {} /\ Found(argv[i]) \in SUBSET Nat
      BY LineTypes DEF Options, Found
    <2>2. FindArgument(argv[i]) \in Found(argv[i])
      BY <2>1, MinIsLeast DEF FindArgument
    <2>3. QED
      BY <2>2 DEF Found
  <1>3. QED
    BY <1>1, <1>2, LineTypes DEF Of

(* The parameters of an option end before an option, or at the end. *)
EndsAt(i, e) ==
  /\ e \in i..Len(argv)
  /\ \A c \in (i + 1)..e : c \notin Options
  /\ e = Len(argv) \/ e + 1 \in Options

LEMMA ParametersUpTo ==
  ASSUME LineOK, NEW i \in Options
  PROVE \E e \in i..Len(argv) :
          /\ EndsAt(i, e)
          /\ Len(ParametersOf(i)) = e - i
          /\ DOMAIN ParametersOf(i) = 1..(e - i)
          /\ \A k \in 1..(e - i) : ParametersOf(i)[k] = argv[i + k]
  <1> DEFINE next == {j \in Options : j > i}
             e == IF next = {} THEN Len(argv) ELSE Min(next) - 1
  <1>1. /\ i \in 1..Len(argv) /\ Len(argv) \in Nat
        /\ next \in SUBSET Nat /\ \A j \in Options : j \in 1..Len(argv)
    BY LineTypes, OptionsAreFound
  <1>2. EndsAt(i, e)
    <2>1. CASE next = {}
      BY <1>1, <2>1 DEF EndsAt
    <2>2. CASE next # {}
      <3>1. Min(next) \in next /\ \A j \in next : Min(next) <= j
        BY <1>1, <2>2, MinIsLeast
      <3>2. e = Min(next) - 1 /\ Min(next) \in 1..Len(argv) /\ Min(next) > i
            /\ Min(next) \in Options
        BY <1>1, <2>2, <3>1
      <3>3. ASSUME NEW c \in (i + 1)..e, c \in Options
            PROVE FALSE
        <4>1. c \in Nat /\ c > i /\ c < Min(next)
          BY <1>1, <3>2
        <4>2. c \in next
          BY <3>3, <4>1
        <4>3. QED
          BY <3>1, <3>2, <4>1, <4>2
      <3>4. e \in i..Len(argv) /\ e + 1 = Min(next)
        BY <1>1, <3>2
      <3> HIDE DEF e, next
      <3>5. QED
        BY <3>2, <3>3, <3>4 DEF EndsAt
    <2>3. QED
      BY <2>1, <2>2
  <1>3. ParametersOf(i) = SubSeq(argv, i + 1, e)
    BY DEF ParametersOf
  <1> HIDE DEF e, next
  <1>4. e \in i..Len(argv)
    BY <1>2 DEF EndsAt
  <1>5. \A c \in (i + 1)..e : argv[c] \in CommandWord
    BY <1>1, <1>4, LineTypes
  <1>6. /\ SubSeq(argv, i + 1, e) \in Seq(CommandWord)
        /\ Len(SubSeq(argv, i + 1, e)) = IF i + 1 <= e THEN e - (i + 1) + 1 ELSE 0
        /\ \A k \in 1..(e - (i + 1) + 1) :
             SubSeq(argv, i + 1, e)[k] = argv[(i + 1) + k - 1]
    BY <1>1, <1>4, <1>5, SubSeqProperties
  <1>7. e - (i + 1) + 1 = e - i /\ (~(i + 1 <= e) => e - i = 0)
        /\ \A k \in 1..(e - i) : (i + 1) + k - 1 = i + k
    BY <1>1, <1>4
  <1>8. DOMAIN ParametersOf(i) = 1..Len(ParametersOf(i))
    BY <1>3, <1>6, LenProperties
  <1>9. Len(ParametersOf(i)) = e - i
    <2>1. Len(ParametersOf(i)) = IF i + 1 <= e THEN e - i ELSE 0
      BY <1>3, <1>6, <1>7
    <2>2. QED
      BY <1>7, <2>1
  <1>10. \A k \in 1..(e - i) : ParametersOf(i)[k] = argv[i + k]
    <2>1. ASSUME NEW k \in 1..(e - i)
          PROVE SubSeq(argv, i + 1, e)[k] = argv[(i + 1) + k - 1]
      BY <1>6, <1>7
    <2>2. QED
      BY <1>3, <1>7, <2>1
  <1>11. QED
    BY <1>2, <1>4, <1>8, <1>9, <1>10

(* What the words after an option say of its parameters, when those up to  *)
(* the one before count are no options.                                    *)
LEMMA ParametersSeen ==
  ASSUME LineOK, NEW i \in Options, NEW c \in (i + 1)..(Len(argv) + 1),
         \A k \in (i + 1)..(c - 1) : k \notin Options
  PROVE /\ (c = Len(argv) + 1 \/ c \in Options) =>
             /\ Len(ParametersOf(i)) = c - 1 - i
             /\ DOMAIN ParametersOf(i) = 1..(c - 1 - i)
        /\ (c <= Len(argv) /\ c \notin Options) =>
             /\ Len(ParametersOf(i)) >= c - i /\ Len(ParametersOf(i)) \in Nat
             /\ c - i \in DOMAIN ParametersOf(i)
             /\ ParametersOf(i)[c - i] = argv[c]
        /\ \A k \in DOMAIN ParametersOf(i) : k \in Nat /\ ParametersOf(i)[k] = argv[i + k]
  <1>1. PICK e \in i..Len(argv) :
          /\ EndsAt(i, e)
          /\ Len(ParametersOf(i)) = e - i
          /\ DOMAIN ParametersOf(i) = 1..(e - i)
          /\ \A k \in 1..(e - i) : ParametersOf(i)[k] = argv[i + k]
    BY ParametersUpTo
  <1>2. i \in Nat /\ Len(argv) \in Nat /\ e \in Nat /\ c \in Nat /\ i < c /\ i <= e
        /\ c <= Len(argv) + 1 /\ e <= Len(argv)
    BY LineTypes, OptionsAreFound
  <1>3. /\ \A k \in (i + 1)..e : k \notin Options
        /\ e = Len(argv) \/ e + 1 \in Options
    BY <1>1 DEF EndsAt
  <1>4. ASSUME c = Len(argv) + 1 \/ c \in Options
        PROVE e = c - 1
    <2>1. c > e
      BY <1>2, <1>3, <1>4
    <2>2. e + 1 >= c
      BY <1>2, <1>3
    <2>3. QED
      BY <1>2, <2>1, <2>2
  <1>5. ASSUME c <= Len(argv), c \notin Options
        PROVE c <= e
    BY <1>2, <1>3, <1>5
  <1>6. ASSUME c <= Len(argv), c \notin Options
        PROVE c - i \in 1..(e - i) /\ i + (c - i) = c /\ e - i >= c - i /\ e - i \in Nat
    BY <1>2, <1>5, <1>6
  <1>7. QED
    BY <1>1, <1>2, <1>4, <1>6
-----------------------------------------------------------------------------
(* What a command line means does not change while it is parsed. *)
LEMMA SameLine ==
  ASSUME args' = args, argv' = argv
  PROVE /\ LineOK' <=> LineOK
        /\ Options' = Options
        /\ \A i : /\ Of(i)' = Of(i)
                  /\ ParametersOf(i)' = ParametersOf(i)
                  /\ FindArgument(argv[i])' = FindArgument(argv[i])
                  /\ Good(i)' <=> Good(i)
        /\ \A i, values : Kept(i, values)' <=> Kept(i, values)
        /\ Converted' = Converted
        /\ Legal' <=> Legal
  <1>1. LineOK' <=> LineOK
    BY DEF LineOK
  <1>2. Options' = Options
    BY DEF Options, Found
  <1>3. \A i : /\ Of(i)' = Of(i)
               /\ FindArgument(argv[i])' = FindArgument(argv[i])
    BY DEF Of, FindArgument, Found
  <1>4. \A i : ParametersOf(i)' = ParametersOf(i)
    BY <1>2 DEF ParametersOf
  <1>5. \A i : Good(i)' <=> Good(i)
    BY <1>3, <1>4 DEF Good
  <1>6. \A i, values : Kept(i, values)' <=> Kept(i, values)
    BY <1>3, <1>4 DEF Kept
  <1>7. Converted' = Converted
    BY DEF Converted
  <1>8. Legal' <=> Legal
    BY <1>2, <1>3, <1>4 DEF Legal
  <1>9. QED
    BY <1>1, <1>2, <1>3, <1>4, <1>5, <1>6, <1>7, <1>8

(* An option that is not as it should be makes the line illegal. *)
LEMMA BadOption ==
  ASSUME NEW i \in Options,
         \/ Of(i) = Help
         \/ Len(ParametersOf(i)) \notin Of(i).min..Of(i).max
         \/ \E k \in DOMAIN ParametersOf(i) : ~IsLegal(Of(i).type, ParametersOf(i)[k])
  PROVE ~Legal
  BY DEF Legal, Range

LEMMA InitIInv ==
  ASSUME LineOK, Init
  PROVE IInv
  <1>1. count = 1 /\ parsing = "option" /\ converters = <<>> /\ Before = 1
        /\ m_args_presence = {} /\ m_values = [name \in {} |-> <<>>]
    BY DEF Init, Before
  <1>2. Read = {} /\ {j \in Options : j < count} = {} /\ Len(argv) \in Nat
    <2>1. \A j \in Options : j \in 1..Len(argv)
      BY OptionsAreFound
    <2>2. QED
      BY <1>1, <2>1, LineTypes DEF Read
  <1>3. ReadInv
    BY <1>1, <1>2 DEF ReadInv
  <1>4. OptionInv
    BY <1>1 DEF OptionInv
  <1>5. QED
    BY <1>1, <1>2, <1>3, <1>4 DEF IInv

-----------------------------------------------------------------------------
(* When parse() returns false, the line is illegal. *)
LEMMA RefuseKeeps ==
  ASSUME IInv, Refuse, ~Legal
  PROVE IInv'
  <1>1. args' = args /\ argv' = argv /\ count' = count /\ converters' = converters
        /\ parsing' = "failed"
    BY DEF Refuse
  <1>2. QED
    BY <1>1, SameLine DEF IInv

LEMMA UnknownOptionKeeps ==
  ASSUME IInv, UnknownOption
  PROVE IInv'
  <1>1. /\ parsing = "option" /\ count \in 1..Len(argv) /\ count \notin Options
        /\ LineOK /\ OptionInv /\ Len(argv) \in Nat
    BY LineTypes, OptionsAreFound DEF IInv, UnknownOption, AtOption
  <1>2. CASE count = 1
    <2>1. argv # <<>> /\ 1 \notin Options
      BY <1>1, <1>2
    <2>2. ~Legal
      BY <2>1 DEF Legal
    <2>3. QED
      BY <2>2, RefuseKeeps DEF UnknownOption
  <1>3. CASE count # 1
    <2> DEFINE i == count - 1
    <2>1. i \in Options /\ Of(i).max = 0 /\ count \in Nat /\ count = i + 1 /\ i \in Nat
      BY <1>1, <1>3 DEF OptionInv
    <2> HIDE DEF i
    <2>2. count \in (i + 1)..(Len(argv) + 1) /\ \A k \in (i + 1)..(count - 1) : k \notin Options
      BY <1>1, <2>1
    <2>3. Len(ParametersOf(i)) >= count - i /\ Len(ParametersOf(i)) \in Nat
      BY <1>1, <2>1, <2>2, ParametersSeen
    <2>4. Len(ParametersOf(i)) \notin Of(i).min..Of(i).max
      BY <1>1, <2>1, <2>3
    <2>5. QED
      BY <2>1, <2>4, BadOption, RefuseKeeps DEF UnknownOption
  <1>4. QED
    BY <1>2, <1>3

LEMMA HelpOptionKeeps ==
  ASSUME IInv, HelpOption
  PROVE IInv'
  <1>1. LineOK /\ count \in 1..Len(argv) /\ count \in Options
    <2>1. LineOK /\ count \in 1..Len(argv) /\ Found(argv[count]) # {}
      BY LineTypes DEF IInv, HelpOption, AtOption
    <2>2. QED
      BY <2>1, OptionsAreFound
  <1>2. Of(count) = Help
    BY DEF Of, HelpOption
  <1>3. QED
    BY <1>1, <1>2, BadOption, RefuseKeeps DEF HelpOption

LEMMA InvalidParameterKeeps ==
  ASSUME IInv, InvalidParameter
  PROVE IInv'
  <1> DEFINE i == Current
  <1>1. /\ parsing = "parameters" /\ LineOK /\ ParametersInv
        /\ count \in 1..Len(argv) /\ count \notin Options /\ Len(argv) \in Nat
        /\ Convert(args[arg].type, argv[count]) = {}
    BY LineTypes, OptionsAreFound DEF IInv, InvalidParameter, AtParameter
  <1>2. /\ i \in Options /\ i \in Nat /\ args[arg] = Of(i) /\ Of(i).type \in Type
        /\ \A k \in (i + 1)..(count - 1) : k \notin Options
    BY <1>1, OptionsAreFound DEF ParametersInv
  <1>3. i < count
    BY <1>1, LenProperties DEF Current, IInv
  <1> HIDE DEF i
  <1>4. count \in (i + 1)..(Len(argv) + 1)
    BY <1>1, <1>2, <1>3
  <1>5. count - i \in DOMAIN ParametersOf(i) /\ ParametersOf(i)[count - i] = argv[count]
    BY <1>1, <1>2, <1>4, ParametersSeen
  <1>6. ~IsLegal(Of(i).type, argv[count])
    BY <1>1, <1>2, LegalConverts, LineTypes
  <1>7. QED
    BY <1>2, <1>5, <1>6, BadOption, RefuseKeeps DEF InvalidParameter
-----------------------------------------------------------------------------
LEMMA SaveStores ==
  ASSUME NEW values, Save(values)
  PROVE /\ DOMAIN m_values' = DOMAIN m_values \union {args[arg'].name}
        /\ m_values'[args[arg'].name] = values
        /\ \A name \in DOMAIN m_values :
             name # args[arg'].name => m_values'[name] = m_values[name]
  BY DEF Save

(* The values of an option that has been read are stored under its name,   *)
(* and so are those of the last option of every other name.                *)
LEMMA StoreKeeps ==
  ASSUME IInv, parsing # "failed", args' = args, argv' = argv,
         NEW i \in Options, \A j \in Read : j < i,
         Read' = Read \union {i},
         \A j \in Read : Good(j),
         NEW values, Save(values), args[arg'] = Of(i),
         Good(i) => Kept(i, values)
  PROVE /\ DOMAIN m_values' = {Of(j).name : j \in Read'}
        /\ \A j \in Read' :
             (Good(j) /\ \A k \in Read' : j < k => Of(k).name # Of(j).name)
               => Kept(j, m_values'[Of(j).name])
  <1>1. /\ LineOK /\ DOMAIN m_values = {Of(j).name : j \in Read}
        /\ \A j \in Read :
             (Good(j) /\ \A k \in Read : j < k => Of(k).name # Of(j).name)
               => Kept(j, m_values[Of(j).name])
    BY DEF IInv, ReadInv
  <1>2. /\ DOMAIN m_values' = DOMAIN m_values \union {Of(i).name}
        /\ m_values'[Of(i).name] = values
        /\ \A name \in DOMAIN m_values :
             name # Of(i).name => m_values'[name] = m_values[name]
    BY SaveStores
  <1>3. DOMAIN m_values' = {Of(j).name : j \in Read'}
    BY <1>1, <1>2
  <1>4. ASSUME NEW j \in Read', Good(j),
               \A k \in Read' : j < k => Of(k).name # Of(j).name
        PROVE Kept(j, m_values'[Of(j).name])
    <2>1. CASE j = i
      BY <1>2, <1>4, <2>1
    <2>2. CASE j \in Read
      <3>1. Of(i).name # Of(j).name
        BY <1>4, <2>2
      <3>2. Of(j).name \in DOMAIN m_values
        BY <1>1, <2>2
      <3>3. Kept(j, m_values[Of(j).name])
        BY <1>1, <1>4, <2>2
      <3>4. QED
        BY <1>2, <3>1, <3>2, <3>3
    <2>3. QED
      BY <1>4, <2>1, <2>2
  <1>5. QED
    BY <1>3, <1>4

LEMMA OptionKeeps ==
  ASSUME IInv, Option
  PROVE IInv'
  <1>1. /\ parsing = "option" /\ count \in 1..Len(argv) /\ count \in Options
        /\ LineOK /\ ReadInv /\ Len(argv) \in Nat /\ count \in Nat
    BY LineTypes, OptionsAreFound DEF IInv, Option, AtOption
  <1>2. /\ args' = args /\ argv' = argv /\ count' = count + 1 /\ converters' = <<>>
        /\ arg' = FindArgument(argv[count])
        /\ m_args_presence' = m_args_presence \union {FindArgument(argv[count])}
        /\ args[arg'] = Of(count) /\ Of(count) # Help
    BY DEF Option, Of
  <1>3. /\ Options' = Options /\ LineOK' /\ Converted' = Converted
        /\ \A i : /\ Of(i)' = Of(i) /\ FindArgument(argv[i])' = FindArgument(argv[i])
                  /\ Good(i)' <=> Good(i)
                  /\ ParametersOf(i)' = ParametersOf(i)
        /\ \A i, values : Kept(i, values)' <=> Kept(i, values)
    BY <1>1, <1>2, SameLine
  <1>4. /\ Read = {i \in Options : i < count}
        /\ \A i \in Read : Good(i)
        /\ \A i \in Options : i \in Nat
    BY <1>1, OptionsAreFound DEF Read, Before, ReadInv, Unfinished
  <1>5. m_args_presence' = {FindArgument(argv[i])' : i \in {j \in Options' : j < count'}}
    <2>1. {j \in Options' : j < count'} = {j \in Options : j < count} \union {count}
      <3>1. \A j \in Options : j < count' <=> j < count \/ j = count
        BY <1>1, <1>2, <1>4
      <3>2. QED
        BY <1>1, <1>3, <3>1
    <2>2. m_args_presence = {FindArgument(argv[i]) : i \in {j \in Options : j < count}}
      BY <1>1 DEF ReadInv
    <2>3. QED
      BY <1>2, <1>3, <2>1, <2>2
  <1>6. 1 \in Options'
    BY <1>1, <1>3 DEF ReadInv
  <1>7. /\ count' \in 1..(Len(argv) + 1) /\ converters' \in Seq(Converted)
    BY <1>1, <1>2
  <1>8. CASE Of(count).max = 0
    <2>1. parsing' = "option" /\ Save(<<TRUE>>)
      BY <1>2, <1>8 DEF Option
    <2>2. Before' = count + 1 /\ Read' = Read \union {count}
      <3>1. Before' = count + 1
        BY <1>2, <2>1 DEF Before
      <3>2. Read' = {i \in Options : i < count + 1}
        BY <1>3, <3>1 DEF Read
      <3>3. \A j \in Options : j < count + 1 <=> j < count \/ j = count
        BY <1>1, <1>4
      <3>4. QED
        BY <1>1, <1>4, <3>1, <3>2, <3>3
    <2>3. count + 1 \in (count + 1)..(Len(argv) + 1)
          /\ \A k \in (count + 1)..((count + 1) - 1) : k \notin Options
      BY <1>1
    <2>4. ASSUME count + 1 = Len(argv) + 1 \/ count + 1 \in Options
          PROVE Good(count)
      <3>1. /\ Len(ParametersOf(count)) = (count + 1) - 1 - count
            /\ DOMAIN ParametersOf(count) = 1..((count + 1) - 1 - count)
        BY <1>1, <2>3, <2>4, ParametersSeen
      <3>2. Len(ParametersOf(count)) = 0 /\ DOMAIN ParametersOf(count) = {}
        BY <1>1, <3>1
      <3>3. Of(count).min = 0
        BY <1>1, <1>8, OptionsAreFound
      <3>4. QED
        BY <1>2, <1>8, <3>2, <3>3 DEF Good
    <2>5. Good(count) => Kept(count, <<TRUE>>)
      <3>1. Good(count) => Len(ParametersOf(count)) = 0
        BY <1>1, <1>8, OptionsAreFound DEF Good
      <3>2. Len(ParametersOf(count)) = 0 => DOMAIN ParametersOf(count) = {}
        <4>1. PICK e \in count..Len(argv) :
                /\ Len(ParametersOf(count)) = e - count
                /\ DOMAIN ParametersOf(count) = 1..(e - count)
          BY <1>1, ParametersUpTo
        <4>2. QED
          BY <4>1
      <3>3. QED
        BY <1>8, <3>1, <3>2 DEF Kept
    <2>6. /\ DOMAIN m_values' = {Of(j).name : j \in Read'}
          /\ \A j \in Read' :
               (Good(j) /\ \A k \in Read' : j < k => Of(k).name # Of(j).name)
                 => Kept(j, m_values'[Of(j).name])
      BY <1>1, <1>2, <1>4, <2>1, <2>2, <2>5, StoreKeeps
    <2>7. \A i \in Read' : Good(i) \/ Unfinished(i)'
      <3>1. ASSUME NEW i, i = count, ~Good(i)
            PROVE Unfinished(i)'
        <4>1. count + 1 # Len(argv) + 1 /\ count + 1 \notin Options
          BY <2>4, <3>1
        <4>2. /\ count' = i + 1 /\ i = count' - 1 /\ count' <= Len(argv')
              /\ count' \notin Options'
          BY <1>1, <1>2, <1>3, <3>1, <4>1
        <4>3. Of(i)'.max = 0
          BY <1>3, <1>8, <3>1
        <4>4. QED
          BY <4>2, <4>3 DEF Unfinished
      <3>2. ASSUME NEW i \in Read'
            PROVE Good(i) \/ Unfinished(i)'
        <4>1. i = count \/ Good(i)
          BY <1>4, <2>2
        <4>2. QED
          BY <3>1, <4>1
      <3>3. QED
        BY <3>2
    <2>8. ReadInv'
      BY <1>3, <1>5, <1>6, <2>6, <2>7 DEF ReadInv
    <2>9. OptionInv'
      <3>1. count' - 1 = count
        BY <1>1, <1>2
      <3>2. QED
        BY <1>1, <1>3, <1>8, <2>1, <3>1 DEF OptionInv
    <2>10. QED
      BY <1>2, <1>3, <1>7, <2>1, <2>8, <2>9 DEF IInv
  <1>9. CASE Of(count).max # 0
    <2>1. parsing' = "parameters" /\ m_values' = m_values
      BY <1>2, <1>9 DEF Option
    <2>2. Current' = count
      <3>1. Len(converters') = 0
        BY <1>2
      <3>2. QED
        BY <1>1, <1>2, <3>1 DEF Current
    <2>3. Read' = Read
      BY <1>3, <1>4, <2>1, <2>2 DEF Read, Before
    <2>4. ReadInv'
      BY <1>1, <1>3, <1>4, <1>5, <1>6, <2>1, <2>3 DEF ReadInv
    <2>5. ParametersInv'
      <3>1. Of(count).max > 0
        BY <1>1, <1>9, OptionsAreFound
      <3>2. Len(converters') = 0 /\ count' - 1 = count
        BY <1>1, <1>2
      <3>3. (Of(Current))' = Of(count) /\ (FindArgument(argv[Current]))' = FindArgument(argv[count])
        <4>1. (Of(Current))' = Of(count)
          BY <1>2, <2>2 DEF Of, FindArgument, Found
        <4>2. (FindArgument(argv[Current]))' = FindArgument(argv[count])
          BY <1>2, <2>2 DEF FindArgument, Found
        <4>3. QED
          BY <4>1, <4>2
      <3>4. \A k \in (Current' + 1)..(count' - 1) : k \notin Options'
        BY <1>1, <2>2, <3>2
      <3>5. \A k \in 1..Len(converters') : FALSE
        BY <3>2
      <3>6. QED
        BY <1>1, <1>2, <1>3, <2>2, <3>1, <3>3, <3>4, <3>5 DEF ParametersInv
    <2>6. QED
      BY <1>2, <1>3, <1>7, <2>1, <2>4, <2>5 DEF IInv
  <1>10. QED
    BY <1>8, <1>9
LEMMA ParameterKeeps ==
  ASSUME IInv, Parameter
  PROVE IInv'
  <1>1. /\ parsing = "parameters" /\ count \in 1..Len(argv) /\ count \notin Options
        /\ LineOK /\ ReadInv /\ ParametersInv /\ Len(argv) \in Nat /\ count \in Nat
        /\ converters \in Seq(Converted) /\ Len(converters) \in Nat
    BY LineTypes, OptionsAreFound, LenProperties DEF IInv, Parameter, AtParameter
  <1>2. PICK value \in Convert(args[arg].type, argv[count]) :
          converters' = Append(converters, value)
    BY DEF Parameter
  <1>3. /\ args' = args /\ argv' = argv /\ count' = count + 1 /\ parsing' = parsing
        /\ arg' = arg /\ m_values' = m_values /\ m_args_presence' = m_args_presence
    BY DEF Parameter
  <1>4. /\ Options' = Options /\ LineOK' /\ Converted' = Converted
        /\ \A i : /\ Of(i)' = Of(i) /\ FindArgument(argv[i])' = FindArgument(argv[i])
                  /\ Good(i)' <=> Good(i)
        /\ \A i, values : Kept(i, values)' <=> Kept(i, values)
    BY <1>1, <1>3, SameLine
  <1>5. /\ Current \in Options /\ Current \in Nat /\ arg = FindArgument(argv[Current])
        /\ args[arg] = Of(Current) /\ arg \in DOMAIN args
    BY <1>1, OptionsAreFound DEF ParametersInv
  <1>6. converters' \in Seq(Converted)
    <2>1. DOMAIN argv = 1..Len(argv)
      BY <1>1, LineTypes
    <2>2. value \in Converted
      BY <1>1, <1>2, <1>5, <2>1 DEF Converted
    <2>3. QED
      BY <1>1, <1>2, <2>2
  <1>7. /\ Len(converters') = Len(converters) + 1
        /\ \A k \in 1..Len(converters) : converters'[k] = converters[k]
        /\ converters'[Len(converters) + 1] = value
    <2>1. value \in Converted \union {value} /\ converters \in Seq(Converted \union {value})
      BY <1>1
    <2>2. QED
      BY <1>2, <2>1
  <1>8. Current' = Current /\ count = Current + (Len(converters) + 1)
    BY <1>1, <1>3, <1>7 DEF Current
  <1>9. Read' = Read /\ Read = {i \in Options : i < Current}
    BY <1>1, <1>3, <1>4, <1>8 DEF Read, Before
  <1>10. ReadInv'
    <2>1. \A i \in Read : Good(i)
      <3>1. \A i \in Read : i # count - 1
        <4>1. \A i \in Options : i \in Nat
          BY <1>1, OptionsAreFound
        <4>2. QED
          BY <1>1, <1>5, <1>8, <1>9, <4>1
      <3>2. QED
        BY <1>1, <3>1 DEF ReadInv, Unfinished
    <2>2. {j \in Options' : j < count'} = {j \in Options : j < count}
      <3>1. \A j \in Options : j \in Nat /\ j # count
        BY <1>1, OptionsAreFound
      <3>2. \A j \in Options : j < count' <=> j < count
        BY <1>1, <1>3, <3>1
      <3>3. QED
        BY <1>4, <3>2
    <2>3. m_args_presence' = {FindArgument(argv[i])' : i \in {j \in Options' : j < count'}}
      BY <1>1, <1>3, <1>4, <2>2 DEF ReadInv
    <2>4. 1 \in Options'
      <3>1. count # 1
        BY <1>1, <1>5, <1>8, OptionsAreFound
      <3>2. QED
        BY <1>1, <1>4, <3>1 DEF ReadInv
    <2>5. QED
      BY <1>1, <1>3, <1>4, <1>9, <2>1, <2>3, <2>4 DEF ReadInv
  <1>11. ParametersInv'
    <2>1. (Of(Current))' = Of(Current) /\ (FindArgument(argv[Current]))' = arg
      <3>1. (Of(Current))' = Of(Current)
        BY <1>3, <1>8 DEF Of, FindArgument, Found
      <3>2. (FindArgument(argv[Current]))' = FindArgument(argv[Current])
        BY <1>3, <1>8 DEF FindArgument, Found
      <3>3. QED
        BY <1>5, <3>1, <3>2
    <2>2. ASSUME NEW k \in (Current + 1)..(count' - 1)
          PROVE k \notin Options
      <3>1. k = count \/ k \in (Current + 1)..(count - 1)
        BY <1>1, <1>3, <1>5
      <3>2. QED
        BY <1>1, <3>1 DEF ParametersInv
    <2>3. ASSUME NEW k \in 1..Len(converters')
          PROVE converters'[k] \in Convert(Of(Current).type, argv[Current + k])
      <3>1. CASE k = Len(converters) + 1
        BY <1>2, <1>5, <1>7, <1>8, <3>1
      <3>2. CASE k \in 1..Len(converters)
        BY <1>1, <1>7, <3>2 DEF ParametersInv
      <3>3. QED
        BY <1>1, <1>7, <3>1, <3>2
    <2>4. /\ Current' \in Options' /\ Of(Current) # Help /\ Of(Current).max > 0
      BY <1>1, <1>4, <1>5, <1>8 DEF ParametersInv
    <2>5. QED
      BY <1>3, <1>4, <1>8, <2>1, <2>2, <2>3, <2>4 DEF ParametersInv
  <1>12. count' \in 1..(Len(argv') + 1)
    BY <1>1, <1>3
  <1>13. QED
    BY <1>1, <1>3, <1>4, <1>6, <1>10, <1>11, <1>12 DEF IInv

LEMMA EndOfParametersKeeps ==
  ASSUME IInv, EndOfParameters
  PROVE IInv'
  <1>1. /\ parsing = "parameters" /\ LineOK /\ ReadInv /\ ParametersInv
        /\ Len(argv) \in Nat /\ count \in 1..(Len(argv) + 1) /\ count \in Nat
        /\ converters \in Seq(Converted) /\ Len(converters) \in Nat
        /\ count = Len(argv) + 1 \/ count \in Options
    BY LineTypes, OptionsAreFound, LenProperties DEF IInv, EndOfParameters
  <1>2. PICK i \in Options : i = Current
    BY <1>1 DEF ParametersInv
  <1>3. /\ i \in Nat /\ args[arg] = Of(i) /\ Of(i).type \in Type /\ Of(i) # Help
        /\ \A k \in (i + 1)..(count - 1) : k \notin Options
        /\ \A k \in 1..Len(converters) : converters[k] \in Convert(Of(i).type, argv[i + k])
    BY <1>1, <1>2, OptionsAreFound DEF ParametersInv
  <1>4. i + Len(converters) = count - 1 /\ count \in (i + 1)..(Len(argv) + 1)
        /\ count - 1 - i = Len(converters)
    BY <1>1, <1>2, <1>3 DEF Current
  <1>5. /\ Len(ParametersOf(i)) = Len(converters)
        /\ DOMAIN ParametersOf(i) = 1..Len(converters)
        /\ \A k \in DOMAIN ParametersOf(i) : ParametersOf(i)[k] = argv[i + k]
    BY <1>1, <1>3, <1>4, ParametersSeen
  <1>6. CASE Len(converters) \notin args[arg].min..args[arg].max
    <2>1. Refuse
      BY <1>6 DEF EndOfParameters
    <2>2. ~Legal
      BY <1>3, <1>5, <1>6, BadOption
    <2>3. QED
      BY <2>1, <2>2, RefuseKeeps
  <1>7. CASE Len(converters) \in args[arg].min..args[arg].max
    <2>1. /\ parsing' = "option" /\ arg' = arg /\ Save(converters)
          /\ args' = args /\ argv' = argv /\ count' = count /\ converters' = converters
          /\ m_args_presence' = m_args_presence
      BY <1>7 DEF EndOfParameters
    <2>2. /\ Options' = Options /\ LineOK' /\ Converted' = Converted
          /\ \A j : /\ Of(j)' = Of(j) /\ FindArgument(argv[j])' = FindArgument(argv[j])
                    /\ Good(j)' <=> Good(j)
          /\ \A j, values : Kept(j, values)' <=> Kept(j, values)
      BY <1>1, <2>1, SameLine
    <2>3. \A j \in Options : j \in Nat
      BY <1>1, OptionsAreFound
    <2>4. Read = {j \in Options : j < i} /\ Read' = {j \in Options : j < count}
      BY <1>1, <1>2, <2>1, <2>2 DEF Read, Before
    <2>5. Read' = Read \union {i}
      <3>1. ASSUME NEW j \in Options
            PROVE j < count <=> j < i \/ j = i
        <4>1. j \notin (i + 1)..(count - 1)
          BY <1>3
        <4>2. QED
          BY <1>1, <1>3, <1>4, <2>3, <4>1
      <3>2. QED
        BY <2>4, <3>1
    <2>6. \A j \in Read : Good(j)
      <3>1. \A j \in Read : j # count - 1
        BY <1>1, <1>3, <1>4, <2>3, <2>4
      <3>2. QED
        BY <1>1, <3>1 DEF ReadInv, Unfinished
    <2>7. ASSUME NEW k \in DOMAIN ParametersOf(i)
          PROVE /\ IsLegal(Of(i).type, ParametersOf(i)[k])
                /\ StandsFor(converters[k], Of(i).type, ParametersOf(i)[k])
      <3>1. /\ ParametersOf(i)[k] = argv[i + k] /\ i + k \in 1..Len(argv)
            /\ converters[k] \in Convert(Of(i).type, argv[i + k])
        BY <1>1, <1>3, <1>4, <1>5
      <3>2. argv[i + k] \in CommandWord
        BY <1>1, <3>1, LineTypes
      <3>3. QED
        BY <1>3, <3>1, <3>2, LegalConverts
    <2>8. Good(i) /\ Kept(i, converters)
      BY <1>3, <1>5, <1>7, <2>7 DEF Good, Kept
    <2>9. /\ DOMAIN m_values' = {Of(j).name : j \in Read'}
          /\ \A j \in Read' :
               (Good(j) /\ \A k \in Read' : j < k => Of(k).name # Of(j).name)
                 => Kept(j, m_values'[Of(j).name])
      BY <1>1, <1>3, <2>1, <2>4, <2>5, <2>6, <2>8, StoreKeeps
    <2>10. ReadInv'
      <3>1. m_args_presence' = {FindArgument(argv[j])' : j \in {k \in Options' : k < count'}}
        BY <1>1, <2>1, <2>2 DEF ReadInv
      <3>2. count' = 1 \/ 1 \in Options'
        BY <1>1, <2>1, <2>2 DEF ReadInv
      <3>3. \A j \in Read' : Good(j)
        BY <2>5, <2>6, <2>8
      <3>4. QED
        BY <2>2, <2>9, <3>1, <3>2, <3>3 DEF ReadInv
    <2>11. OptionInv'
      BY <1>1, <2>1, <2>2 DEF OptionInv
    <2>12. QED
      BY <1>1, <2>1, <2>2, <2>10, <2>11 DEF IInv
  <1>8. QED
    BY <1>6, <1>7

LEMMA EndOfLineKeeps ==
  ASSUME IInv, EndOfLine
  PROVE IInv'
  <1>1. /\ parsing = "option" /\ LineOK /\ ReadInv /\ OptionInv /\ count > Len(argv)
        /\ Len(argv) \in Nat /\ count \in 1..(Len(argv) + 1)
    BY LineTypes DEF IInv, EndOfLine
  <1>2. CASE \A a \in DOMAIN args : args[a].mandatory => a \in m_args_presence
    <2>1. /\ parsing' = "parsed"
          /\ args' = args /\ argv' = argv /\ count' = count /\ arg' = arg
          /\ converters' = converters /\ m_values' = m_values
          /\ m_args_presence' = m_args_presence
      BY <1>2 DEF EndOfLine
    <2>2. /\ Options' = Options /\ LineOK' /\ Converted' = Converted
          /\ \A i : /\ Of(i)' = Of(i) /\ FindArgument(argv[i])' = FindArgument(argv[i])
                    /\ Good(i)' <=> Good(i)
          /\ \A i, values : Kept(i, values)' <=> Kept(i, values)
      BY <1>1, <2>1, SameLine
    <2>3. Read' = Read
      BY <1>1, <2>1, <2>2 DEF Read, Before
    <2>4. \A i : Unfinished(i)' <=> Unfinished(i)
      BY <2>1, <2>2 DEF Unfinished
    <2>5. ReadInv'
      BY <1>1, <2>1, <2>2, <2>3, <2>4 DEF ReadInv
    <2>6. OptionInv'
      BY <1>1, <1>2, <2>1 DEF OptionInv
    <2>7. QED
      BY <2>1, <2>2, <2>5, <2>6 DEF IInv
  <1>3. CASE \E a \in DOMAIN args : args[a].mandatory /\ a \notin m_args_presence
    <2>1. PICK a \in DOMAIN args : args[a].mandatory /\ a \notin m_args_presence
      BY <1>3
    <2>2. ASSUME NEW i \in Options, Of(i) = args[a]
          PROVE FALSE
      <3>1. FindArgument(argv[i]) \in DOMAIN args /\ args[FindArgument(argv[i])] = args[a]
            /\ i < count
        BY <1>1, <2>2, OptionsAreFound
      <3>2. FindArgument(argv[i]) = a
        BY <1>1, <2>1, <3>1 DEF LineOK
      <3>3. a \in m_args_presence
        BY <1>1, <3>1, <3>2 DEF ReadInv
      <3>4. QED
        BY <2>1, <3>3
    <2>3. ~Legal
      BY <2>1, <2>2 DEF Legal
    <2>4. QED
      BY <1>3, <2>3, RefuseKeeps DEF EndOfLine
  <1>4. QED
    BY <1>2, <1>3

LEMMA NextIInv == IInv /\ [ParseWords]_parser => IInv'
  <1>1. ASSUME IInv, ParseWords
        PROVE IInv'
    BY <1>1, UnknownOptionKeeps, HelpOptionKeeps, OptionKeeps, ParameterKeeps,
       InvalidParameterKeeps, EndOfParametersKeeps, EndOfLineKeeps
    DEF ParseWords
  <1>2. ASSUME IInv, UNCHANGED parser
        PROVE IInv'
    <2>1. /\ args' = args /\ argv' = argv /\ count' = count /\ parsing' = parsing
          /\ arg' = arg /\ converters' = converters /\ m_values' = m_values
          /\ m_args_presence' = m_args_presence
      BY <1>2 DEF parser
    <2>2. /\ Options' = Options /\ (LineOK' <=> LineOK) /\ Converted' = Converted
          /\ \A i : /\ Of(i)' = Of(i) /\ FindArgument(argv[i])' = FindArgument(argv[i])
                    /\ Good(i)' <=> Good(i)
          /\ \A i, values : Kept(i, values)' <=> Kept(i, values)
          /\ Legal' <=> Legal
      BY <2>1, SameLine
    <2>3. Current' = Current /\ Read' = Read
      BY <2>1, <2>2 DEF Current, Read, Before
    <2>4. \A i : Unfinished(i)' <=> Unfinished(i)
      BY <2>1, <2>2 DEF Unfinished
    <2>5. ReadInv' <=> ReadInv
      BY <2>1, <2>2, <2>3, <2>4 DEF ReadInv
    <2>6. OptionInv' <=> OptionInv
      <3>1. (Of(count - 1))' = Of(count - 1)
        BY <2>1 DEF Of, FindArgument, Found
      <3>2. QED
        BY <2>1, <2>2, <3>1 DEF OptionInv
    <2>7. ParametersInv' <=> ParametersInv
      <3>1. /\ (Of(Current))' = Of(Current)
            /\ (FindArgument(argv[Current]))' = FindArgument(argv[Current])
        BY <2>1, <2>3 DEF Of, FindArgument, Found
      <3>2. QED
        BY <2>1, <2>2, <2>3, <3>1 DEF ParametersInv
    <2>8. QED
      BY <1>2, <2>1, <2>2, <2>5, <2>6, <2>7 DEF IInv
  <1>3. QED
    BY <1>1, <1>2
-----------------------------------------------------------------------------
(* Of the last option of a name, the parameters are kept under the name. *)
LEMMA IInvMeans == IInv => ArgsAreTheLine
  <1> SUFFICES ASSUME IInv, parsing = "parsed"
               PROVE /\ Legal
                     /\ DOMAIN m_values = {Of(i).name : i \in Options}
                     /\ \A name \in DOMAIN m_values :
                          LET last == Max({i \in Options : Of(i).name = name})
                          IN /\ Of(last).max > 0 =>
                                  Len(m_values[name]) = Len(ParametersOf(last))
                             /\ \A j \in DOMAIN ParametersOf(last) :
                                  StandsFor(m_values[name][j], Of(last).type,
                                            ParametersOf(last)[j])
    BY DEF IInv, ArgsAreTheLine
  <1>1. /\ LineOK /\ ReadInv /\ count > Len(argv) /\ Len(argv) \in Nat
        /\ count \in 1..(Len(argv) + 1)
        /\ \A a \in DOMAIN args : args[a].mandatory => a \in m_args_presence
    BY LineTypes DEF IInv, OptionInv
  <1>2. /\ Options \in SUBSET (1..Len(argv)) /\ \A i \in Options : i < count
    BY <1>1, OptionsAreFound
  <1>3. Read = Options
    BY <1>2 DEF Read, Before
  <1>4. \A i \in Options : Good(i)
    BY <1>1, <1>3 DEF ReadInv, Unfinished
  <1>5. Legal
    <2>1. ASSUME argv # <<>>
          PROVE 1 \in Options
      <3>1. argv \in Seq(CommandWord)
        BY <1>1 DEF LineOK
      <3>2. Len(argv) # 0
        BY <2>1, <3>1, EmptySeq
      <3>3. QED
        BY <1>1, <3>2 DEF ReadInv
    <2>2. ASSUME NEW a \in DOMAIN args, args[a].mandatory
          PROVE \E i \in Options : Of(i) = args[a]
      <3>1. PICK i \in Options : a = FindArgument(argv[i])
        BY <1>1, <2>2 DEF ReadInv
      <3>2. QED
        BY <3>1 DEF Of
    <2>3. ASSUME NEW i \in Options
          PROVE /\ Of(i) # Help
                /\ Len(ParametersOf(i)) \in Of(i).min..Of(i).max
                /\ \A w \in Range(ParametersOf(i)) : IsLegal(Of(i).type, w)
      BY <1>4 DEF Good, Range
    <2>4. QED
      BY <2>1, <2>2, <2>3 DEF Legal
  <1>6. DOMAIN m_values = {Of(i).name : i \in Options}
    BY <1>1, <1>3 DEF ReadInv
  <1>7. ASSUME NEW name \in DOMAIN m_values
        PROVE LET last == Max({i \in Options : Of(i).name = name})
              IN Kept(last, m_values[name])
    <2> DEFINE named == {i \in Options : Of(i).name = name}
               last == Max(named)
    <2>1. named \in SUBSET (1..Len(argv)) /\ named # {}
      BY <1>2, <1>6
    <2>2. last \in named /\ \A i \in named : i <= last
      BY <1>1, <2>1, MaxIsGreatest
    <2> HIDE DEF last
    <2>3. last \in Options /\ Of(last).name = name
      BY <2>2
    <2>4. \A j \in Options : last < j => Of(j).name # name
      <3>1. \A j \in Options : j \in Nat
        BY <1>2
      <3>2. ASSUME NEW j \in Options, last < j, Of(j).name = name
            PROVE FALSE
        <4>1. j <= last
          BY <2>2, <3>2
        <4>2. QED
          BY <2>3, <3>1, <3>2, <4>1
      <3>3. QED
        BY <3>2
    <2>5. Kept(last, m_values[name])
      BY <1>1, <1>3, <1>4, <2>3, <2>4 DEF ReadInv
    <2>6. QED
      BY <2>5 DEF last
  <1>8. QED
    BY <1>5, <1>6, <1>7 DEF Kept

(* ArgParser::parse() accepts the legal command lines and no other, and    *)
(* keeps for every name that was given the parameters of its last option,  *)
(* for any options of a program and any words.                             *)
THEOREM ParserReadsTheLine == ParserSpec => []ArgsAreTheLine
  <1>1. LineOK /\ Init => IInv
    BY InitIInv
  <1>2. QED
    BY <1>1, NextIInv, IInvMeans, PTL DEF ParserSpec
-----------------------------------------------------------------------------
(* 2. What runs step by step.  A fold of the community modules is the end  *)
(* of a run through the positions, in their order.                         *)

(* What holds at 0 and, from one number to the next, up to n *)
LEMMA Reaches ==
  ASSUME NEW n \in Nat, NEW S, 0 \in S, \A k \in 1..n : k - 1 \in S => k \in S
  PROVE \A k \in 0..n : k \in S
  <1> SUFFICES ASSUME NEW j \in 0..n, j \notin S
               PROVE FALSE
    OBVIOUS
  <1> DEFINE T == {k \in 0..n : k \notin S}
  <1>1. T \in SUBSET Nat /\ T # {}
    OBVIOUS
  <1>2. PICK m \in T : \A k \in T : m <= k
    BY <1>1, LeastExists
  <1>3. m \in 1..n /\ m - 1 \in 0..n
    BY <1>2
  <1>4. m - 1 \in S
    BY <1>2, <1>3
  <1>5. QED
    BY <1>2, <1>3, <1>4

(* The recursive functions on the numbers up to n, with values in V *)
Runs(n, V, base, Step) ==
  {r \in [0..n -> V] : r[0] = base /\ \A k \in 1..n : r[k] = Step[<<k, r[k - 1]>>]}

RunsTo(n, V, base, Step, end) == \E r \in Runs(n, V, base, Step) : r[n] = end

LEMMA RunExists ==
  ASSUME NEW n \in Nat, NEW V, NEW base \in V, NEW Step \in [(1..n) \X V -> V]
  PROVE Runs(n, V, base, Step) # {}
  <1> DEFINE OK(r, m) == r[0] = base /\ \A k \in 1..m : r[k] = Step[<<k, r[k - 1]>>]
             S == {m \in 0..n : \E r \in [0..m -> V] : OK(r, m)}
  <1>1. 0 \in S
    <2> DEFINE z == [k \in 0..0 |-> base]
    <2>1. z \in [0..0 -> V] /\ z[0] = base /\ 1..0 = {}
      OBVIOUS
    <2> HIDE DEF z
    <2>2. QED
      BY <2>1
  <1>2. ASSUME NEW m \in 1..n, m - 1 \in S
        PROVE m \in S
    <2>1. PICK r \in [0..(m - 1) -> V] : OK(r, m - 1)
      BY <1>2
    <2> DEFINE q == [k \in 0..m |-> IF k = m THEN Step[<<m, r[m - 1]>>] ELSE r[k]]
    <2>2. r[m - 1] \in V /\ Step[<<m, r[m - 1]>>] \in V
      OBVIOUS
    <2>3. q \in [0..m -> V]
      BY <2>2
    <2>4. \A k \in 0..(m - 1) : q[k] = r[k]
      OBVIOUS
    <2>5. q[0] = base
      BY <2>1, <2>4
    <2>6. ASSUME NEW k \in 1..m
          PROVE q[k] = Step[<<k, q[k - 1]>>]
      <3>1. k - 1 \in 0..(m - 1) /\ q[k - 1] = r[k - 1]
        BY <2>4
      <3>2. CASE k = m
        <4>1. q[m] = Step[<<m, r[m - 1]>>]
          OBVIOUS
        <4>2. QED
          BY <3>1, <3>2, <4>1
      <3>3. CASE k # m
        <4>1. k \in 1..(m - 1)
          BY <3>3
        <4>2. q[k] = r[k] /\ r[k] = Step[<<k, r[k - 1]>>]
          BY <2>1, <2>4, <4>1
        <4>3. QED
          BY <3>1, <4>2
      <3>4. QED
        BY <3>2, <3>3
    <2> HIDE DEF q
    <2>7. QED
      BY <2>3, <2>5, <2>6
  <1> HIDE DEF S
  <1>3. n \in S
    BY <1>1, <1>2, Reaches
  <1>4. QED
    BY <1>3 DEF S, Runs

LEMMA MaxOfRange ==
  ASSUME NEW n \in Nat, NEW k \in 1..n
  PROVE Max(1..k) = k /\ (1..k) \ {k} = 1..(k - 1)
  <1>1. Max(1..k) \in 1..k /\ \A j \in 1..k : j <= Max(1..k)
    <2>1. 1..k \in SUBSET (1..n) /\ k \in 1..k
      OBVIOUS
    <2>2. QED
      BY <2>1, MaxIsGreatest
  <1>2. k <= Max(1..k)
    BY <1>1
  <1>3. QED
    BY <1>1, <1>2

(* The functions behind a fold over the positions 1..n, which take the     *)
(* greatest of a set of positions last                                     *)
Folds(n, V, base, Step) ==
  {g \in [SUBSET (1..n) -> V] :
     \A s \in SUBSET (1..n) :
       g[s] = IF s = {} THEN base ELSE Step[<<Max(s), g[s \ {Max(s)}]>>]}

LEMMA FoldExists ==
  ASSUME NEW n \in Nat, NEW V, NEW base \in V, NEW Step \in [(1..n) \X V -> V]
  PROVE Folds(n, V, base, Step) # {}
  <1> DEFINE Sets == SUBSET (1..n)
             W == [Sets -> V]
             start == [s \in Sets |-> base]
             Next2(k, h) == [s \in Sets |-> IF k \in s THEN Step[<<k, h[s]>>] ELSE h[s]]
             Step2 == [p \in (1..n) \X W |-> Next2(p[1], p[2])]
  <1>1. start \in W
    OBVIOUS
  <1>2. ASSUME NEW k \in 1..n, NEW h \in W
        PROVE Next2(k, h) \in W /\ Step2[<<k, h>>] = Next2(k, h)
    OBVIOUS
  <1>3. Step2 \in [(1..n) \X W -> W]
    BY <1>2
  <1> HIDE DEF Step2, W, start
  <1>4. PICK r \in [0..n -> W] :
          r[0] = start /\ \A k \in 1..n : r[k] = Step2[<<k, r[k - 1]>>]
    <2>1. Runs(n, W, start, Step2) # {}
      BY <1>1, <1>3, RunExists
    <2>2. QED
      BY <2>1 DEF Runs
  <1>5. ASSUME NEW k \in 1..n, NEW s \in Sets
        PROVE r[k][s] = IF k \in s THEN Step[<<k, r[k - 1][s]>>] ELSE r[k - 1][s]
    <2>1. k - 1 \in 0..n /\ r[k - 1] \in W
      OBVIOUS
    <2>2. r[k] = Next2(k, r[k - 1])
      BY <1>2, <1>4, <2>1
    <2>3. QED
      BY <2>2
  <1> USE DEF W, start
  <1> DEFINE Above(m) == \A s \in Sets : \A j \in 0..m : s \subseteq 1..j => r[m][s] = r[j][s]
             Below(m) == \A s, t \in Sets :
                           s \intersect (1..m) = t \intersect (1..m) => r[m][s] = r[m][t]
  <1>6. \A m \in 0..n : Above(m)
    <2> DEFINE S == {m \in 0..n : Above(m)}
    <2>1. 0 \in S
      OBVIOUS
    <2>2. ASSUME NEW m \in 1..n, m - 1 \in S
          PROVE m \in S
      <3>1. ASSUME NEW s \in Sets, NEW j \in 0..m, s \subseteq 1..j
            PROVE r[m][s] = r[j][s]
        <4>1. CASE j = m
          BY <4>1
        <4>2. CASE j # m
          <5>1. j \in 0..(m - 1) /\ m \notin s
            BY <3>1, <4>2
          <5>2. r[m][s] = r[m - 1][s]
            BY <1>5, <5>1
          <5>3. QED
            BY <2>2, <3>1, <5>1, <5>2
        <4>3. QED
          BY <4>1, <4>2
      <3>2. QED
        BY <3>1
    <2> HIDE DEF S
    <2>3. \A m \in 0..n : m \in S
      BY <2>1, <2>2, Reaches
    <2>4. QED
      BY <2>3 DEF S
  <1>7. \A m \in 0..n : Below(m)
    <2> DEFINE S == {m \in 0..n : Below(m)}
    <2>1. 0 \in S
      <3>1. \A s \in Sets : r[0][s] = base
        BY <1>4
      <3>2. QED
        BY <3>1
    <2>2. ASSUME NEW m \in 1..n, m - 1 \in S
          PROVE m \in S
      <3>1. ASSUME NEW s \in Sets, NEW t \in Sets, s \intersect (1..m) = t \intersect (1..m)
            PROVE r[m][s] = r[m][t]
        <4>1. (m \in s <=> m \in t) /\ s \intersect (1..(m - 1)) = t \intersect (1..(m - 1))
          <5>1. m \in 1..m /\ 1..(m - 1) \subseteq 1..m
            OBVIOUS
          <5>2. QED
            BY <3>1, <5>1
        <4>2. r[m - 1][s] = r[m - 1][t]
          BY <2>2, <4>1
        <4>3. r[m][s] = IF m \in s THEN Step[<<m, r[m - 1][s]>>] ELSE r[m - 1][s]
          BY <1>5
        <4>4. r[m][t] = IF m \in t THEN Step[<<m, r[m - 1][t]>>] ELSE r[m - 1][t]
          BY <1>5
        <4>5. QED
          BY <4>1, <4>2, <4>3, <4>4
      <3>2. QED
        BY <3>1
    <2> HIDE DEF S
    <2>3. \A m \in 0..n : m \in S
      BY <2>1, <2>2, Reaches
    <2>4. QED
      BY <2>3 DEF S
  <1>8. r[n] \in [Sets -> V]
    BY <1>4
  <1>9. ASSUME NEW s \in Sets
        PROVE r[n][s] = IF s = {} THEN base ELSE Step[<<Max(s), r[n][s \ {Max(s)}]>>]
    <2>1. CASE s = {}
      <3>1. s \subseteq 1..0 /\ 0 \in 0..n /\ n \in 0..n
        BY <2>1
      <3>2. r[n][s] = r[0][s]
        BY <1>6, <3>1
      <3>3. QED
        BY <1>4, <2>1, <3>2
    <2>2. CASE s # {}
      <3> DEFINE x == Max(s)
                 t == s \ {x}
      <3>1. x \in s /\ \A j \in s : j <= x
        BY <2>2, MaxIsGreatest
      <3> HIDE DEF x
      <3>2. x \in 1..n /\ x \in 0..n /\ x - 1 \in 0..n /\ n \in 0..n
        BY <3>1
      <3>3. s \subseteq 1..x /\ t \subseteq 1..(x - 1) /\ t \in Sets
        BY <3>1, <3>2
      <3>4. r[n][s] = r[x][s] /\ r[n][t] = r[x - 1][t]
        <4>1. x \in 0..n /\ x - 1 \in 0..n
          BY <3>2
        <4>2. QED
          BY <1>6, <3>2, <3>3, <4>1
      <3>5. s \intersect (1..(x - 1)) = t \intersect (1..(x - 1))
        BY <3>2
      <3>6. r[x - 1][s] = r[x - 1][t]
        BY <1>7, <3>2, <3>3, <3>5
      <3>7. r[x][s] = Step[<<x, r[x - 1][s]>>]
        BY <1>5, <3>1, <3>2
      <3>8. r[n][s] = Step[<<x, r[n][t]>>]
        BY <3>4, <3>6, <3>7
      <3>9. QED
        BY <2>2, <3>8 DEF x
    <2>3. QED
      BY <2>1, <2>2
  <1>10. r[n] \in Folds(n, V, base, Step)
    BY <1>8, <1>9 DEF Folds
  <1>11. QED
    BY <1>10

(* A function that unfolds as a fold does, as far as its values are in V,  *)
(* runs through the positions in their order.                              *)
Unfolds(h, n, V, base, Step) ==
  /\ h[{}] = base
  /\ \A s \in (SUBSET (1..n)) \ {{}} :
       h[s \ {Max(s)}] \in V => h[s] = Step[<<Max(s), h[s \ {Max(s)}]>>]

LEMMA FoldRuns ==
  ASSUME NEW n \in Nat, NEW V, NEW base \in V, NEW Step \in [(1..n) \X V -> V],
         NEW h, Unfolds(h, n, V, base, Step)
  PROVE RunsTo(n, V, base, Step, h[1..n])
  <1> DEFINE S == {k \in 0..n : h[1..k] \in V}
             r == [k \in 0..n |-> h[1..k]]
  <1> USE DEF Unfolds
  <1>1. 1..0 = {} /\ h[1..0] = base
    OBVIOUS
  <1>2. ASSUME NEW k \in 1..n, h[1..(k - 1)] \in V
        PROVE h[1..k] = Step[<<k, h[1..(k - 1)]>>] /\ h[1..k] \in V
    <2>1. 1..k \in (SUBSET (1..n)) \ {{}}
      OBVIOUS
    <2>2. Max(1..k) = k /\ (1..k) \ {k} = 1..(k - 1)
      BY MaxOfRange
    <2>3. h[1..k] = Step[<<k, h[1..(k - 1)]>>]
      BY <1>2, <2>1, <2>2
    <2>4. QED
      BY <1>2, <2>3
  <1>3. 0 \in S
    BY <1>1
  <1>4. ASSUME NEW k \in 1..n, k - 1 \in S
        PROVE k \in S
    <2>1. h[1..(k - 1)] \in V
      BY <1>4
    <2>2. h[1..k] \in V
      BY ONLY <1>2, <2>1
    <2> HIDE DEF S
    <2>4. k \in 0..n
      OBVIOUS
    <2> USE DEF S
    <2>3. QED
      BY <2>2, <2>4
  <1>5. \A k \in 0..n : k \in S
    <2> HIDE DEF S
    <2>1. QED
      BY <1>3, <1>4, Reaches
  <1>6. r \in [0..n -> V]
    BY <1>5
  <1>7. ASSUME NEW k \in 1..n
        PROVE r[k] = Step[<<k, r[k - 1]>>]
    <2>1. k - 1 \in 0..n /\ h[1..(k - 1)] \in V
      BY <1>5
    <2>2. QED
      BY <1>2, <2>1
  <1>8. r[0] = base /\ r[n] = h[1..n]
    BY <1>1
  <1> HIDE DEF r
  <1>9. QED
    BY <1>6, <1>7, <1>8 DEF Runs, RunsTo
-----------------------------------------------------------------------------
Library == [loads : BOOLEAN, type : STRING, name : STRING]
Loaded == [ret : BOOLEAN, plugins : Seq(Library)]
Params == UNION {[names -> STRING] : names \in SUBSET STRING}

(* PluginLoader::load() goes through the libraries in their order. *)
LEMMA LoadPluginsRuns ==
  ASSUME NEW libs \in Seq(Library), NEW wanted
  PROVE \E r \in [0..Len(libs) -> Loaded] :
          /\ r[0] = [ret |-> TRUE, plugins |-> <<>>]
          /\ \A k \in 1..Len(libs) : r[k] = Plugins!LoadLibrary(r[k - 1], libs[k], wanted)
          /\ r[Len(libs)] = Plugins!LoadPlugins(libs, wanted)
  <1> DEFINE n == Len(libs)
             base == [ret |-> TRUE, plugins |-> <<>>]
             Op(v, k) == Plugins!LoadLibrary(v, libs[k], wanted)
             Step == [p \in (1..n) \X Loaded |-> Op(p[2], p[1])]
             Fold(h) == h = [s \in SUBSET (1..n) |->
                               IF s = {} THEN base ELSE Op(h[s \ {Max(s)}], Max(s))]
             h == CHOOSE h : Fold(h)
  <1>1. n \in Nat /\ DOMAIN libs = 1..n /\ base \in Loaded
    BY LenProperties, EmptySeq DEF Loaded
  <1>2. ASSUME NEW v \in Loaded, NEW k \in 1..n
        PROVE Op(v, k) \in Loaded /\ Step[<<k, v>>] = Op(v, k)
    <2>1. libs[k] \in Library /\ v.ret \in BOOLEAN /\ v.plugins \in Seq(Library)
      BY <1>1, ElementOfSeq DEF Loaded
    <2>2. Append(v.plugins, libs[k]) \in Seq(Library)
      BY <2>1, AppendProperties
    <2>3. Op(v, k) \in Loaded
      BY <2>1, <2>2 DEF Loaded, Library, Plugins!LoadLibrary
    <2>4. QED
      BY <2>3
  <1>3. Step \in [(1..n) \X Loaded -> Loaded]
    BY <1>2
  <1>4. Plugins!LoadPlugins(libs, wanted) = h[1..n]
    <2>1. DOMAIN libs = 1..n
      BY <1>1
    <2>2. QED
      BY <2>1, Zenon DEF Plugins!LoadPlugins, Plugins!FoldLeft, Plugins!MapThenFoldSet,
                         Plugins!Max, Max
  <1> HIDE DEF Op, Step, base, n
  <1>5. \E g : Fold(g)
    <2>1. Folds(n, Loaded, base, Step) # {}
      BY <1>1, <1>3, FoldExists
    <2>2. PICK g \in [SUBSET (1..n) -> Loaded] :
            \A s \in SUBSET (1..n) :
              g[s] = IF s = {} THEN base ELSE Step[<<Max(s), g[s \ {Max(s)}]>>]
      BY <2>1 DEF Folds
    <2>3. ASSUME NEW s \in SUBSET (1..n)
          PROVE g[s] = IF s = {} THEN base ELSE Op(g[s \ {Max(s)}], Max(s))
      <3>1. CASE s = {}
        BY <2>2, <3>1
      <3>2. CASE s # {}
        <4>1. Max(s) \in 1..n /\ s \ {Max(s)} \in SUBSET (1..n)
          BY <1>1, <3>2, MaxIsGreatest
        <4>2. g[s \ {Max(s)}] \in Loaded
          BY <4>1
        <4>3. QED
          BY <1>2, <2>2, <3>2, <4>1, <4>2
      <3>3. QED
        BY <3>1, <3>2
    <2>4. g = [s \in SUBSET (1..n) |->
                 IF s = {} THEN base ELSE Op(g[s \ {Max(s)}], Max(s))]
      BY <2>3
    <2>5. QED
      BY <2>4
  <1>6. h = [s \in SUBSET (1..n) |-> IF s = {} THEN base ELSE Op(h[s \ {Max(s)}], Max(s))]
    BY <1>5, Zenon
  <1> HIDE DEF h
  <1>7. ASSUME NEW s \in (SUBSET (1..n)) \ {{}}, h[s \ {Max(s)}] \in Loaded
        PROVE h[s] = Step[<<Max(s), h[s \ {Max(s)}]>>]
    <2>1. Max(s) \in 1..n
      BY <1>1, MaxIsGreatest
    <2>2. h[s] = Op(h[s \ {Max(s)}], Max(s))
      BY <1>6
    <2>3. QED
      BY <1>2, <1>7, <2>1, <2>2
  <1>8. RunsTo(n, Loaded, base, Step, h[1..n])
    <2>1. h[{}] = base
      BY <1>6
    <2>2. Unfolds(h, n, Loaded, base, Step)
      BY <1>7, <2>1 DEF Unfolds
    <2>3. QED
      BY <1>1, <1>3, <2>2, FoldRuns
  <1>9. PICK r \in [0..n -> Loaded] :
           /\ r[0] = base /\ r[n] = h[1..n]
           /\ \A k \in 1..n : r[k] = Step[<<k, r[k - 1]>>]
    BY <1>8 DEF Runs, RunsTo
  <1>10. ASSUME NEW k \in 1..n
         PROVE r[k] = Op(r[k - 1], k)
    <2>1. k - 1 \in 0..n
      BY <1>1
    <2>2. r[k - 1] \in Loaded
      BY <1>9, <2>1
    <2>3. QED
      BY <1>2, <1>9, <2>2
  <1>11. QED
    BY <1>4, <1>9, <1>10 DEF n, base, Op

(* ParameterString goes through the pairs of a text. *)
LEMMA ParameterRuns ==
  ASSUME NEW text \in Seq(Seq(STRING))
  PROVE \E r \in [0..Len(text) -> Params] :
          /\ r[0] = [name \in {} |-> ""]
          /\ \A k \in 1..Len(text) : r[k] = Plugins!AddParameter(r[k - 1], text[k])
          /\ r[Len(text)] = Plugins!ParameterString(text)
  <1> DEFINE n == Len(text)
             base == [name \in {} |-> ""]
             Op(v, k) == Plugins!AddParameter(v, text[k])
             Step == [p \in (1..n) \X Params |-> Op(p[2], p[1])]
             Fold(h) == h = [s \in SUBSET (1..n) |->
                               IF s = {} THEN base ELSE Op(h[s \ {Max(s)}], Max(s))]
             h == CHOOSE h : Fold(h)
  <1>1. n \in Nat /\ DOMAIN text = 1..n /\ base \in Params
    <2>1. base \in [{} -> STRING] /\ {} \in SUBSET STRING
      OBVIOUS
    <2>2. QED
      BY <2>1, LenProperties DEF Params
  <1>2. ASSUME NEW v \in Params, NEW k \in 1..n
        PROVE Op(v, k) \in Params /\ Step[<<k, v>>] = Op(v, k)
    <2>1. text[k] \in Seq(STRING)
      BY <1>1, ElementOfSeq
    <2>2. PICK names \in SUBSET STRING : v \in [names -> STRING]
      BY DEF Params
    <2>3. CASE Len(text[k]) = 2
      <3>1. text[k][1] \in STRING /\ text[k][2] \in STRING
        BY <2>1, <2>3, ElementOfSeq
      <3>2. [name \in DOMAIN v \union {text[k][1]} |->
               IF name = text[k][1] THEN text[k][2] ELSE v[name]]
              \in [names \union {text[k][1]} -> STRING]
        BY <2>2, <3>1
      <3>3. names \union {text[k][1]} \in SUBSET STRING
        BY <3>1
      <3>4. QED
        BY <3>2, <3>3 DEF Params, Plugins!AddParameter
    <2>4. CASE Len(text[k]) # 2
      BY <2>4 DEF Plugins!AddParameter
    <2>5. QED
      BY <2>3, <2>4
  <1>3. Step \in [(1..n) \X Params -> Params]
    BY <1>2
  <1>4. Plugins!ParameterString(text) = h[1..n]
    <2>1. DOMAIN text = 1..n
      BY <1>1
    <2>2. QED
      BY <2>1, Zenon DEF Plugins!ParameterString, Plugins!FoldLeft, Plugins!MapThenFoldSet,
                         Plugins!Max, Max
  <1> HIDE DEF Op, Step, base, n
  <1>5. \E g : Fold(g)
    <2>1. Folds(n, Params, base, Step) # {}
      BY <1>1, <1>3, FoldExists
    <2>2. PICK g \in [SUBSET (1..n) -> Params] :
            \A s \in SUBSET (1..n) :
              g[s] = IF s = {} THEN base ELSE Step[<<Max(s), g[s \ {Max(s)}]>>]
      BY <2>1 DEF Folds
    <2>3. ASSUME NEW s \in SUBSET (1..n)
          PROVE g[s] = IF s = {} THEN base ELSE Op(g[s \ {Max(s)}], Max(s))
      <3>1. CASE s = {}
        BY <2>2, <3>1
      <3>2. CASE s # {}
        <4>1. Max(s) \in 1..n /\ s \ {Max(s)} \in SUBSET (1..n)
          BY <1>1, <3>2, MaxIsGreatest
        <4>2. g[s \ {Max(s)}] \in Params
          BY <4>1
        <4>3. QED
          BY <1>2, <2>2, <3>2, <4>1, <4>2
      <3>3. QED
        BY <3>1, <3>2
    <2>4. g = [s \in SUBSET (1..n) |->
                 IF s = {} THEN base ELSE Op(g[s \ {Max(s)}], Max(s))]
      BY <2>3
    <2>5. QED
      BY <2>4
  <1>6. h = [s \in SUBSET (1..n) |-> IF s = {} THEN base ELSE Op(h[s \ {Max(s)}], Max(s))]
    BY <1>5, Zenon
  <1> HIDE DEF h
  <1>7. ASSUME NEW s \in (SUBSET (1..n)) \ {{}}, h[s \ {Max(s)}] \in Params
        PROVE h[s] = Step[<<Max(s), h[s \ {Max(s)}]>>]
    <2>1. Max(s) \in 1..n
      BY <1>1, MaxIsGreatest
    <2>2. h[s] = Op(h[s \ {Max(s)}], Max(s))
      BY <1>6
    <2>3. QED
      BY <1>2, <1>7, <2>1, <2>2
  <1>8. RunsTo(n, Params, base, Step, h[1..n])
    <2>1. h[{}] = base
      BY <1>6
    <2>2. Unfolds(h, n, Params, base, Step)
      BY <1>7, <2>1 DEF Unfolds
    <2>3. QED
      BY <1>1, <1>3, <2>2, FoldRuns
  <1>9. PICK r \in [0..n -> Params] :
           /\ r[0] = base /\ r[n] = h[1..n]
           /\ \A k \in 1..n : r[k] = Step[<<k, r[k - 1]>>]
    BY <1>8 DEF Runs, RunsTo
  <1>10. ASSUME NEW k \in 1..n
         PROVE r[k] = Op(r[k - 1], k)
    <2>1. k - 1 \in 0..n
      BY <1>1
    <2>2. r[k - 1] \in Params
      BY <1>9, <2>1
    <2>3. QED
      BY <1>2, <1>9, <2>2
  <1>11. QED
    BY <1>4, <1>9, <1>10 DEF n, base, Op

(* Those looks at the elements in their order. *)
ThoseRun(E, seq, T) ==
  {r \in [0..Len(seq) -> Seq(E)] :
     /\ r[0] = <<>>
     /\ \A k \in 1..Len(seq) : r[k] = IF seq[k] \in T THEN Append(r[k - 1], seq[k]) ELSE r[k - 1]
     /\ r[Len(seq)] = Those(seq, T)}

LEMMA ThoseRuns ==
  ASSUME NEW E, NEW seq \in Seq(E), NEW T
  PROVE ThoseRun(E, seq, T) # {}
  <1> DEFINE n == Len(seq)
             base == <<>>
             Op(v, k) == IF seq[k] \in T THEN Append(v, seq[k]) ELSE v
             Step == [p \in (1..n) \X Seq(E) |-> Op(p[2], p[1])]
             Fold(h) == h = [s \in SUBSET (1..n) |->
                               IF s = {} THEN base ELSE Op(h[s \ {Max(s)}], Max(s))]
             h == CHOOSE h : Fold(h)
  <1>1. n \in Nat /\ DOMAIN seq = 1..n /\ base \in Seq(E)
    BY LenProperties, EmptySeq
  <1>2. ASSUME NEW v \in Seq(E), NEW k \in 1..n
        PROVE Op(v, k) \in Seq(E) /\ Step[<<k, v>>] = Op(v, k)
    <2>1. seq[k] \in E
      BY <1>1, ElementOfSeq
    <2>2. Append(v, seq[k]) \in Seq(E)
      BY <2>1, AppendProperties
    <2>3. QED
      BY <2>2
  <1>3. Step \in [(1..n) \X Seq(E) -> Seq(E)]
    BY <1>2
  <1>4. Those(seq, T) = h[1..n]
    <2>1. DOMAIN seq = 1..n
      BY <1>1
    <2>2. QED
      BY <2>1, Zenon DEF Those, FoldLeft, MapThenFoldSet, Max
  <1> HIDE DEF Op, Step, base, n
  <1>5. \E g : Fold(g)
    <2>1. Folds(n, Seq(E), base, Step) # {}
      BY <1>1, <1>3, FoldExists
    <2>2. PICK g \in [SUBSET (1..n) -> Seq(E)] :
            \A s \in SUBSET (1..n) :
              g[s] = IF s = {} THEN base ELSE Step[<<Max(s), g[s \ {Max(s)}]>>]
      BY <2>1 DEF Folds
    <2>3. ASSUME NEW s \in SUBSET (1..n)
          PROVE g[s] = IF s = {} THEN base ELSE Op(g[s \ {Max(s)}], Max(s))
      <3>1. CASE s = {}
        BY <2>2, <3>1
      <3>2. CASE s # {}
        <4>1. Max(s) \in 1..n /\ s \ {Max(s)} \in SUBSET (1..n)
          BY <1>1, <3>2, MaxIsGreatest
        <4>2. g[s \ {Max(s)}] \in Seq(E)
          BY <4>1
        <4>3. QED
          BY <1>2, <2>2, <3>2, <4>1, <4>2
      <3>3. QED
        BY <3>1, <3>2
    <2>4. g = [s \in SUBSET (1..n) |->
                 IF s = {} THEN base ELSE Op(g[s \ {Max(s)}], Max(s))]
      BY <2>3
    <2>5. QED
      BY <2>4
  <1>6. h = [s \in SUBSET (1..n) |-> IF s = {} THEN base ELSE Op(h[s \ {Max(s)}], Max(s))]
    BY <1>5, Zenon
  <1> HIDE DEF h
  <1>7. ASSUME NEW s \in (SUBSET (1..n)) \ {{}}, h[s \ {Max(s)}] \in Seq(E)
        PROVE h[s] = Step[<<Max(s), h[s \ {Max(s)}]>>]
    <2>1. Max(s) \in 1..n
      BY <1>1, MaxIsGreatest
    <2>2. h[s] = Op(h[s \ {Max(s)}], Max(s))
      BY <1>6
    <2>3. QED
      BY <1>2, <1>7, <2>1, <2>2
  <1>8. RunsTo(n, Seq(E), base, Step, h[1..n])
    <2>1. h[{}] = base
      BY <1>6
    <2>2. Unfolds(h, n, Seq(E), base, Step)
      BY <1>7, <2>1 DEF Unfolds
    <2>3. QED
      BY <1>1, <1>3, <2>2, FoldRuns
  <1>9. PICK r \in [0..n -> Seq(E)] :
           /\ r[0] = base /\ r[n] = h[1..n]
           /\ \A k \in 1..n : r[k] = Step[<<k, r[k - 1]>>]
    BY <1>8 DEF Runs, RunsTo
  <1>10. ASSUME NEW k \in 1..n
         PROVE r[k] = Op(r[k - 1], k)
    <2>1. k - 1 \in 0..n
      BY <1>1
    <2>2. r[k - 1] \in Seq(E)
      BY <1>9, <2>1
    <2>3. QED
      BY <1>2, <1>9, <2>2
  <1>11. QED
    BY <1>4, <1>9, <1>10 DEF n, base, Op, ThoseRun
-----------------------------------------------------------------------------
Wants(l, wanted) == l.loads /\ l.type = "can_adapter" /\ l.name \in wanted

(* An adapter is loaded when a single library of the directory is it. *)
LEMMA LoadAdapterLoads ==
  ASSUME NEW libs \in Seq(Library), NEW adapter, Plugins!LoadAdapter(libs, adapter) # {}
  PROVE \E i \in DOMAIN libs :
          /\ Plugins!LoadAdapter(libs, adapter) = {libs[i]}
          /\ {j \in DOMAIN libs : Wants(libs[j], {adapter})} = {i}
  <1> DEFINE n == Len(libs)
             Mine(k) == {j \in 1..k : Wants(libs[j], {adapter})}
  <1>1. PICK r \in [0..n -> Loaded] :
          /\ r[0] = [ret |-> TRUE, plugins |-> <<>>]
          /\ \A k \in 1..n : r[k] = Plugins!LoadLibrary(r[k - 1], libs[k], {adapter})
          /\ r[n] = Plugins!LoadPlugins(libs, {adapter})
    BY LoadPluginsRuns
  <1>2. n \in Nat /\ DOMAIN libs = 1..n /\ \A k \in 1..n : libs[k] \in Library
    BY LenProperties, ElementOfSeq
  <1> DEFINE One(k) ==
        /\ Len(r[k].plugins) = 0 => Mine(k) = {}
        /\ Len(r[k].plugins) = 1 => \E i \in 1..k : Mine(k) = {i} /\ r[k].plugins[1] = libs[i]
      S == {k \in 0..n : One(k)}
  <1>3. 0 \in S
    <2>1. r[0].plugins = <<>>
      BY <1>1
    <2>2. Len(r[0].plugins) = 0 /\ Mine(0) = {}
      BY <2>1
    <2>3. QED
      BY <1>2, <2>2
  <1>4. ASSUME NEW k \in 1..n, k - 1 \in S
        PROVE k \in S
    <2> DEFINE p == r[k - 1].plugins
    <2>1. k - 1 \in 0..n /\ p \in Seq(Library) /\ Len(p) \in Nat /\ One(k - 1)
      BY <1>2, <1>4, LenProperties DEF Loaded
    <2>2. r[k].plugins = IF Wants(libs[k], {adapter}) THEN Append(p, libs[k]) ELSE p
      <3>1. r[k] = Plugins!LoadLibrary(r[k - 1], libs[k], {adapter})
        BY <1>1
      <3>2. QED
        BY <3>1 DEF Plugins!LoadLibrary, Wants
    <2>3. Mine(k) = IF Wants(libs[k], {adapter}) THEN Mine(k - 1) \union {k} ELSE Mine(k - 1)
      <3>1. 1..k = (1..(k - 1)) \union {k} /\ k \notin 1..(k - 1)
        OBVIOUS
      <3>2. QED
        BY <3>1
    <2>4. CASE ~Wants(libs[k], {adapter})
      <3>1. Mine(k) = Mine(k - 1) /\ r[k].plugins = p /\ 1..(k - 1) \subseteq 1..k
        BY <2>2, <2>3, <2>4
      <3> HIDE DEF Mine
      <3>2. QED
        BY <2>1, <3>1
    <2>5. CASE Wants(libs[k], {adapter})
      <3>1. Mine(k) = Mine(k - 1) \union {k} /\ r[k].plugins = Append(p, libs[k])
        BY <2>2, <2>3, <2>5
      <3>2. /\ Len(r[k].plugins) = Len(p) + 1
            /\ Len(p) = 0 => r[k].plugins[1] = libs[k]
        BY <1>2, <2>1, <3>1, AppendProperties
      <3> HIDE DEF Mine
      <3>3. Len(p) = 0 => Mine(k) = {k}
        BY <2>1, <3>1
      <3>4. Len(r[k].plugins) # 0 /\ (Len(r[k].plugins) = 1 => Len(p) = 0)
        BY <2>1, <3>2
      <3>5. One(k) /\ k \in 0..n
        BY <1>2, <3>2, <3>3, <3>4
      <3>6. QED
        BY <3>5
    <2>6. QED
      BY <2>4, <2>5
  <1> HIDE DEF S
  <1>5. \A k \in 0..n : k \in S
    BY <1>2, <1>3, <1>4, Reaches
  <1>6. One(n)
    <2>1. n \in S
      BY <1>2, <1>5
    <2>2. QED
      BY <2>1 DEF S
  <1>7. Plugins!LoadAdapter(libs, adapter) = {r[n].plugins[1]} /\ Len(r[n].plugins) = 1
    BY <1>1 DEF Plugins!LoadAdapter
  <1>8. QED
    BY <1>2, <1>6, <1>7

(* The plugins of a directory are its adapters of the names wanted. *)
LEMMA LoadPluginsLists ==
  ASSUME NEW libs \in Seq(Library), NEW wanted, NEW T,
         \A l \in Range(libs) : l \in T <=> Wants(l, wanted)
  PROVE Plugins!LoadPlugins(libs, wanted).plugins = Those(libs, T)
  <1> DEFINE n == Len(libs)
  <1>1. PICK r \in [0..n -> Loaded] :
          /\ r[0] = [ret |-> TRUE, plugins |-> <<>>]
          /\ \A k \in 1..n : r[k] = Plugins!LoadLibrary(r[k - 1], libs[k], wanted)
          /\ r[n] = Plugins!LoadPlugins(libs, wanted)
    BY LoadPluginsRuns
  <1>2. PICK q \in [0..n -> Seq(Library)] :
          /\ q[0] = <<>>
          /\ \A k \in 1..n : q[k] = IF libs[k] \in T THEN Append(q[k - 1], libs[k]) ELSE q[k - 1]
          /\ q[n] = Those(libs, T)
    <2>1. ThoseRun(Library, libs, T) # {}
      BY ThoseRuns
    <2>2. QED
      BY <2>1 DEF ThoseRun
  <1>3. n \in Nat /\ \A k \in 1..n : libs[k] \in Library /\ libs[k] \in Range(libs)
    BY LenProperties, ElementOfSeq DEF Range
  <1> DEFINE S == {k \in 0..n : r[k].plugins = q[k]}
  <1>4. 0 \in S
    BY <1>1, <1>2, <1>3
  <1>5. ASSUME NEW k \in 1..n, k - 1 \in S
        PROVE k \in S
    <2>1. r[k].plugins = IF Wants(libs[k], wanted) THEN Append(r[k - 1].plugins, libs[k])
                         ELSE r[k - 1].plugins
      <3>1. r[k] = Plugins!LoadLibrary(r[k - 1], libs[k], wanted)
        BY <1>1
      <3>2. QED
        BY <3>1 DEF Plugins!LoadLibrary, Wants
    <2>2. libs[k] \in T <=> Wants(libs[k], wanted)
      BY <1>3
    <2>3. r[k - 1].plugins = q[k - 1]
      BY <1>5
    <2>4. r[k].plugins = q[k]
      BY <1>2, <2>1, <2>2, <2>3
    <2>5. QED
      BY <1>3, <2>4
  <1> HIDE DEF S
  <1>6. \A k \in 0..n : k \in S
    BY <1>3, <1>4, <1>5, Reaches
  <1>7. QED
    BY <1>1, <1>2, <1>3, <1>6 DEF S

(* Of the pairs of a name, the last counts. *)
LEMMA PortIsTheLast ==
  ASSUME NEW text \in Seq(Seq(STRING))
  PROVE Plugins!GetParam(Plugins!ParameterString(text), "port", DefaultPort) = PortOf(text)
  <1> DEFINE n == Len(text)
             IsPort(i) == Len(text[i]) = 2 /\ text[i][1] = "port" /\ text[i][2] # ""
             Ports(k) == {i \in 1..k : IsPort(i)}
  <1>1. PICK r \in [0..n -> Params] :
          /\ r[0] = [name \in {} |-> ""]
          /\ \A k \in 1..n : r[k] = Plugins!AddParameter(r[k - 1], text[k])
          /\ r[n] = Plugins!ParameterString(text)
    BY ParameterRuns
  <1>2. n \in Nat /\ DOMAIN text = 1..n /\ \A k \in 1..n : text[k] \in Seq(STRING)
    BY LenProperties, ElementOfSeq
  <1> DEFINE Known(k) ==
        /\ "port" \in DOMAIN r[k] <=> Ports(k) # {}
        /\ Ports(k) # {} => r[k]["port"] = text[Max(Ports(k))][2]
      S == {k \in 0..n : Known(k)}
  <1>3. 0 \in S
    <2>1. Ports(0) = {} /\ DOMAIN r[0] = {}
      BY <1>1
    <2> HIDE DEF Ports
    <2>2. QED
      BY <1>2, <2>1
  <1>4. ASSUME NEW k \in 1..n, k - 1 \in S
        PROVE k \in S
    <2>1. Known(k - 1) /\ r[k] = Plugins!AddParameter(r[k - 1], text[k])
      BY <1>1, <1>4
    <2>2. Ports(k) = IF IsPort(k) THEN Ports(k - 1) \union {k} ELSE Ports(k - 1)
      <3>1. 1..k = (1..(k - 1)) \union {k} /\ k \notin 1..(k - 1)
        OBVIOUS
      <3>2. QED
        BY <3>1
    <2>3. CASE IsPort(k)
      <3>1. "" \notin Range(text[k])
        <4>1. DOMAIN text[k] = 1..2
          BY <1>2, <2>3, LenProperties
        <4>2. \A i \in 1..2 : text[k][i] # ""
          <5>1. \A i \in 1..2 : i = 1 \/ i = 2
            OBVIOUS
          <5>2. text[k][1] # "" /\ text[k][2] # ""
            BY <2>3
          <5>3. QED
            BY <5>1, <5>2
        <4>3. QED
          BY <4>1, <4>2 DEF Range
      <3>2. "port" \in DOMAIN r[k] /\ r[k]["port"] = text[k][2]
        BY <2>1, <2>3, <3>1 DEF Plugins!AddParameter, Plugins!Range, Range
      <3>3. Max(Ports(k)) = k
        <4>1. Ports(k) \in SUBSET (1..k) /\ k \in Ports(k)
          BY <2>2, <2>3
        <4> HIDE DEF Ports
        <4>2. Max(Ports(k)) \in Ports(k) /\ k <= Max(Ports(k))
          <5>1. k \in Nat
            BY <1>2
          <5>2. QED
            BY <4>1, <5>1, MaxIsGreatest
        <4>3. QED
          BY <4>1, <4>2
      <3>4. Ports(k) # {}
        BY <2>2, <2>3
      <3> HIDE DEF Ports
      <3>5. Known(k)
        BY <3>2, <3>3, <3>4
      <3>6. QED
        BY <1>2, <3>5
    <2>4. CASE ~IsPort(k)
      <3>1. Ports(k) = Ports(k - 1)
        BY <2>2, <2>4
      <3>2. /\ "port" \in DOMAIN r[k] <=> "port" \in DOMAIN r[k - 1]
            /\ "port" \in DOMAIN r[k - 1] => r[k]["port"] = r[k - 1]["port"]
        <4>1. CASE Len(text[k]) = 2 /\ "" \notin Range(text[k])
          <5>1. DOMAIN text[k] = 1..2
            BY <1>2, <4>1, LenProperties
          <5>2. text[k][2] # ""
            <6>1. 2 \in DOMAIN text[k]
              BY <5>1
            <6>2. QED
              BY <4>1, <6>1, Zenon DEF Range
          <5>3. text[k][1] # "port"
            BY <2>4, <4>1, <5>2
          <5>4. r[k] = [name \in DOMAIN r[k - 1] \union {text[k][1]} |->
                          IF name = text[k][1] THEN text[k][2] ELSE r[k - 1][name]]
            BY <2>1, <4>1 DEF Plugins!AddParameter, Plugins!Range, Range
          <5>5. QED
            BY <5>3, <5>4
        <4>2. CASE ~(Len(text[k]) = 2 /\ "" \notin Range(text[k]))
          BY <2>1, <4>2 DEF Plugins!AddParameter, Plugins!Range, Range
        <4>3. QED
          BY <4>1, <4>2
      <3> HIDE DEF Ports
      <3>3. QED
        BY <1>2, <2>1, <3>1, <3>2
    <2>5. QED
      BY <2>3, <2>4
  <1> HIDE DEF S
  <1>5. \A k \in 0..n : k \in S
    BY <1>2, <1>3, <1>4, Reaches
  <1>6. Known(n)
    <2>1. n \in S
      BY <1>2, <1>5
    <2>2. QED
      BY <2>1 DEF S
  <1>7. {i \in DOMAIN text : Len(text[i]) = 2 /\ text[i][1] = "port" /\ text[i][2] # ""} = Ports(n)
    BY <1>2
  <1> HIDE DEF Ports
  <1>8. PortOf(text) = IF Ports(n) = {} THEN DefaultPort ELSE text[Max(Ports(n))][2]
    BY <1>7 DEF PortOf
  <1>9. QED
    BY <1>1, <1>6, <1>8 DEF Plugins!GetParam

LEMMA ThoseAppend ==
  ASSUME NEW E, NEW seq \in Seq(E), NEW e \in E, NEW T
  PROVE /\ Those(seq, T) \in Seq(E)
        /\ Those(<<>>, T) = <<>>
        /\ Those(Append(seq, e), T) =
             IF e \in T THEN Append(Those(seq, T), e) ELSE Those(seq, T)
  <1> DEFINE n == Len(seq)
             more == Append(seq, e)
  <1>1. /\ n \in Nat /\ more \in Seq(E) /\ Len(more) = n + 1
        /\ more[n + 1] = e /\ \A k \in 1..n : more[k] = seq[k]
    BY LenProperties, AppendProperties
  <1>2. PICK r \in [0..n -> Seq(E)] :
          /\ r[0] = <<>>
          /\ \A k \in 1..n : r[k] = IF seq[k] \in T THEN Append(r[k - 1], seq[k]) ELSE r[k - 1]
          /\ r[n] = Those(seq, T)
    <2>1. ThoseRun(E, seq, T) # {}
      BY ThoseRuns
    <2>2. QED
      BY <2>1 DEF ThoseRun
  <1> HIDE DEF more
  <1>3. PICK q \in [0..Len(more) -> Seq(E)] :
          /\ q[0] = <<>>
          /\ \A k \in 1..Len(more) :
               q[k] = IF more[k] \in T THEN Append(q[k - 1], more[k]) ELSE q[k - 1]
          /\ q[Len(more)] = Those(more, T)
    <2>1. ThoseRun(E, more, T) # {}
      BY <1>1, ThoseRuns
    <2>2. QED
      BY <2>1 DEF ThoseRun
  <1> DEFINE S == {k \in 0..n : q[k] = r[k]}
  <1>4. 0 \in S
    BY <1>1, <1>2, <1>3
  <1>5. ASSUME NEW k \in 1..n, k - 1 \in S
        PROVE k \in S
    <2>1. more[k] = seq[k] /\ k \in 1..Len(more) /\ q[k - 1] = r[k - 1]
      BY <1>1, <1>5
    <2>2. q[k] = r[k]
      BY <1>2, <1>3, <2>1
    <2>3. QED
      BY <1>1, <2>2
  <1> HIDE DEF S
  <1>6. \A k \in 0..n : k \in S
    BY <1>1, <1>4, <1>5, Reaches
  <1>7. q[n] = r[n]
    BY <1>1, <1>6 DEF S
  <1>8. q[n + 1] = IF e \in T THEN Append(q[n], e) ELSE q[n]
    <2>1. n + 1 \in 1..Len(more) /\ (n + 1) - 1 = n
      BY <1>1
    <2>2. QED
      BY <1>1, <1>3, <2>1
  <1>9. Those(<<>>, T) = <<>>
    <2>1. <<>> \in Seq(E) /\ Len(<<>>) = 0
      OBVIOUS
    <2>2. PICK p \in [0..Len(<<>>) -> Seq(E)] :
            p[0] = <<>> /\ p[Len(<<>>)] = Those(<<>>, T)
      <3>1. ThoseRun(E, <<>>, T) # {}
        BY <2>1, ThoseRuns
      <3>2. QED
        BY <3>1 DEF ThoseRun
    <2>3. QED
      BY <2>1, <2>2
  <1>10. QED
    <2>1. Those(seq, T) \in Seq(E)
      BY <1>1, <1>2
    <2>2. Those(more, T) = q[n + 1] /\ Those(seq, T) = q[n]
      BY <1>1, <1>2, <1>3, <1>7
    <2>3. QED
      BY <1>8, <1>9, <2>1, <2>2 DEF more
-----------------------------------------------------------------------------
(* 3. The tools.  LineInv: the parser keeps its promise while a tool uses  *)
(* it, and SessionInv: what main() has made of the values it asked for.    *)

(* Every step of a tool is one of its parser, or leaves the parser alone.  *)
LEMMA StepParses ==
  ASSUME [Next]_vars
  PROVE /\ [ParseWords]_parser /\ UNCHANGED environment
        /\ args' = args /\ argv' = argv
        /\ parsing = "parsed" => UNCHANGED parser
  <1>1. CASE ParseArguments
    <2>1. ParseWords /\ UNCHANGED environment
      BY <1>1 DEF ParseArguments
    <2>2. args' = args /\ argv' = argv /\ parsing # "parsed"
      BY <2>1 DEF ParseWords, UnknownOption, HelpOption, Option, Parameter, InvalidParameter,
                  EndOfParameters, EndOfLine, Refuse, AtOption, AtParameter
    <2>3. QED
      BY <2>1, <2>2
  <1>2. CASE UNCHANGED vars
    BY <1>2 DEF vars, parser
  <1>3. CASE Next /\ ~ParseArguments
    <2>1. UNCHANGED <<parser, environment>>
      BY <1>3 DEF Next, At, ControllerCall, Initialized, LoadDatabase, LoadPlugin,
        CreateController, Open, Configure, StartController, Receive, PressEnter, ChangeFilter,
        Filtered, Send, Stop, Close, Delete, Serve, ListAdapters
    <2>2. QED
      BY <2>1 DEF parser
  <1>4. QED
    BY <1>1, <1>2, <1>3

(* What was converted is kept in sequences. *)
Held == Converted \union {TRUE}
ValuesInv == \A name \in DOMAIN m_values : m_values[name] \in Seq(Held)

LEMMA ValuesKept ==
  ASSUME IInv, ValuesInv, [ParseWords]_parser, args' = args, argv' = argv
  PROVE ValuesInv'
  <1>1. Held' = Held /\ converters \in Seq(Converted)
    BY SameLine DEF Held, IInv
  <1>2. ASSUME NEW values \in Seq(Held), Save(values)
        PROVE ValuesInv'
    BY <1>1, <1>2, SaveStores DEF ValuesInv
  <1>3. CASE m_values' = m_values
    BY <1>1, <1>3 DEF ValuesInv
  <1>4. CASE Option /\ m_values' # m_values
    <2>1. Save(<<TRUE>>) /\ <<TRUE>> \in Seq(Held)
      BY <1>4 DEF Option, Held
    <2>2. QED
      BY <1>2, <2>1
  <1>5. CASE EndOfParameters /\ m_values' # m_values
    <2>1. Save(converters) /\ converters \in Seq(Held)
      <3>1. converters \in Seq(Held)
        <4>1. Converted \subseteq Held
          BY DEF Held
        <4>2. QED
          BY <1>1, <4>1, SeqMonotonic
      <3>2. QED
        BY <1>5, <3>1 DEF EndOfParameters, Refuse
    <2>2. QED
      BY <1>2, <2>1
  <1>6. QED
    BY <1>3, <1>4, <1>5 DEF ParseWords, parser, UnknownOption, HelpOption, Parameter,
       InvalidParameter, EndOfLine, Refuse

LineInv == ToolOK /\ IInv /\ ValuesInv

LEMMA InitLine == ToolOK /\ ToolInit => LineInv
  <1> SUFFICES ASSUME ToolOK, ToolInit
               PROVE LineInv
    OBVIOUS
  <1>1. LineOK /\ Init
    BY DEF ToolOK, ToolInit
  <1>2. ValuesInv
    BY <1>1 DEF Init, ValuesInv
  <1>3. QED
    BY <1>1, <1>2, InitIInv DEF LineInv

LEMMA NextLine == LineInv /\ [Next]_vars => LineInv'
  <1> SUFFICES ASSUME LineInv, [Next]_vars
               PROVE LineInv'
    OBVIOUS
  <1>1. /\ [ParseWords]_parser /\ UNCHANGED environment /\ args' = args /\ argv' = argv
    BY StepParses
  <1>2. IInv' /\ ValuesInv'
    BY <1>1, NextIInv, ValuesKept DEF LineInv
  <1>3. ToolOK'
    BY <1>1, SameLine DEF LineInv, ToolOK, environment, ToolArguments
  <1>4. QED
    BY <1>2, <1>3 DEF LineInv

(* The tools read their command lines as the parser promises. *)
THEOREM ToolsReadTheLine == ToolSpec => []ArgsAreTheLine
  <1>1. LineInv => ArgsAreTheLine
    BY IInvMeans DEF LineInv
  <1>2. QED
    BY <1>1, InitLine, NextLine, PTL DEF ToolSpec
-----------------------------------------------------------------------------
AdapterTools == {"can_dump", "can_send", "can_sdo"}
Driven == {"open", "configure", "start", "running", "send", "stop", "close", "delete"}
Places ==
  CASE tool = "client"   -> {"database", "filters", "running"}
    [] tool = "can_dump" -> {"arguments", "database", "plugin", "create"} \union (Driven \ {"send"})
    [] tool \in {"can_send", "can_sdo"} ->
         {"arguments", "plugin", "create"} \union (Driven \ {"running"})
    [] tool = "can_server"  -> {"arguments", "server"}
    [] tool = "can_adapter" -> {"arguments", "list"}
    [] tool \in {"can_bridge", "other"} -> {"arguments"}

(* What main() makes of the values *)
AskedAdapter == Plugins!LoadAdapter(libraries, Value("adapter"))
ServerPort == IF Given("port") THEN ValueAs("uint16", "port")
              ELSE WordOf(DefaultPort).number % 2^Width.uint16
Shown ==
  LET res == IF Given("list_adapters")
             THEN Plugins!LoadAdapters(libraries, Range(Values("list_adapters")))
             ELSE Plugins!LoadAll(libraries)
  IN IF res.ret THEN [i \in DOMAIN res.plugins |-> res.plugins[i].name] ELSE <<>>

PlaceInv ==
  /\ pc \in Places \union Ended
  /\ (tool # "client" /\ pc \notin {"arguments", "ended"}) => parsing = "parsed"
  /\ (tool \in AdapterTools /\ pc \in Driven) => controller # "none"
  /\ pc \in {"arguments", "database", "plugin", "create", "filters"} => controller = "none"
  /\ pc = "create" => plugin # {}

AdapterInv ==
  /\ plugin # {} => parsing = "parsed" /\ tool \in AdapterTools /\ plugin = AskedAdapter
  /\ controller # "none" =>
       plugin # {} /\ (HasPort => \E n \in AskedPort : port = n % 2^Width.uint16)

OutputInv ==
  /\ (tool = "can_send" /\ output # <<>>) => parsing = "parsed" /\ output = <<Message>>
  /\ (tool = "can_sdo" /\ output # <<>>) => parsing = "parsed" /\ output = <<Transfer>>
  /\ (tool = "can_server" /\ port # 0) => parsing = "parsed" /\ port = ServerPort
  /\ (tool = "can_adapter" /\ output # <<>>) => parsing = "parsed" /\ output = Shown

SessionInv == PlaceInv /\ AdapterInv /\ OutputInv

LEMMA InitSession == ToolOK /\ ToolInit => SessionInv
  BY DEF ToolOK, ToolInit, Init, SessionInv, PlaceInv, AdapterInv, OutputInv, Places, AdapterTools,
         Driven, Ended

LEMMA PlacesDiffer ==
  ASSUME ToolOK
  PROVE /\ "plugin" \in Places => tool \in AdapterTools
        /\ "create" \in Places => tool \in AdapterTools
        /\ \A p \in Driven \ {"running"} : p \in Places => tool \in AdapterTools
        /\ "running" \in Places => tool \in {"client", "can_dump"}
        /\ "send" \in Places => tool \in {"can_send", "can_sdo"}
        /\ "server" \in Places => tool = "can_server"
        /\ "list" \in Places => tool = "can_adapter"
        /\ "database" \in Places => tool \in {"client", "can_dump"}
        /\ "filters" \in Places => tool = "client"
        /\ "arguments" \in Places => tool # "client"
  BY DEF ToolOK, Places, AdapterTools, Driven

(* Decoding ends the program, or goes out of bounds. *)
LEMMA DecodingEnds ==
  \A d, msg : Decoding(d, msg) # "ok" => Decoding(d, msg) \in {"aborted", "undefined"}
  BY DEF Decoding

LEMMA SameWords ==
  ASSUME UNCHANGED parser, UNCHANGED environment
  PROVE /\ Places' = Places /\ tool' = tool /\ parsing' = parsing /\ libraries' = libraries
        /\ AskedAdapter' = AskedAdapter /\ AskedPort' = AskedPort
        /\ Message' = Message /\ Transfer' = Transfer
        /\ ServerPort' = ServerPort /\ Shown' = Shown
        /\ \A name : /\ Given(name)' <=> Given(name)
                     /\ Values(name)' = Values(name)
                     /\ Value(name)' = Value(name)
  BY DEF parser, environment, Places, AskedAdapter, AskedPort, Parameters, Message, Transfer,
         ServerPort, Shown, Given, Value, ValueAs, Values

LEMMA NextSession == LineInv /\ SessionInv /\ [Next]_vars => SessionInv'
  <1> SUFFICES ASSUME LineInv, SessionInv, [Next]_vars
               PROVE SessionInv'
    OBVIOUS
  <1>1. ToolOK /\ PlaceInv /\ AdapterInv /\ OutputInv
    BY DEF LineInv, SessionInv
  <1> USE <1>1
  <1>2. CASE ParseArguments
    <2>1. /\ pc = "arguments" /\ parsing # "parsed" /\ UNCHANGED <<environment, pc, session, history>>
      BY <1>2 DEF ParseArguments, ParseWords, UnknownOption, HelpOption, Option, Parameter,
        InvalidParameter, EndOfParameters, EndOfLine, AtOption, AtParameter
    <2>2. Places' = Places /\ tool' = tool
      BY <2>1 DEF Places, environment
    <2>3. plugin = {} /\ controller = "none" /\ plugin' = {} /\ controller' = "none" /\ pc' = pc
      BY <2>1 DEF AdapterInv, session
    <2>4. PlaceInv'
      BY <2>1, <2>2, <2>3 DEF PlaceInv, Driven, AdapterTools
    <2>5. AdapterInv'
      BY <2>3 DEF AdapterInv
    <2>6. OutputInv'
      BY <2>1, <2>2 DEF OutputInv, session, history
    <2>7. QED
      BY <2>4, <2>5, <2>6 DEF SessionInv
  <1>3. CASE UNCHANGED <<parser, environment>> /\ [Next /\ ~ParseArguments]_vars
    <2>1. /\ Places' = Places /\ tool' = tool /\ parsing' = parsing /\ libraries' = libraries
          /\ AskedAdapter' = AskedAdapter /\ AskedPort' = AskedPort
          /\ Message' = Message /\ Transfer' = Transfer
          /\ ServerPort' = ServerPort /\ Shown' = Shown
      BY <1>3, SameWords
    <2>2. HasPort' <=> \E p \in plugin' : p.name \in {"udp_adapter", "tcp_adapter"}
      BY DEF HasPort
    <2>3. CASE UNCHANGED vars
      <3>1. UNCHANGED <<pc, plugin, controller, port, output>>
        BY <2>3 DEF vars, session, history
      <3>2. QED
        BY <2>1, <2>2, <3>1 DEF SessionInv, PlaceInv, AdapterInv, OutputInv, HasPort
    <2>4. CASE Initialized
      <3>1. /\ pc = "arguments" /\ UNCHANGED <<plugin, controller, port, output>>
            /\ pc' \in {"ended", "database", "server", "list", "plugin"}
            /\ pc' # "ended" => parsing = "parsed"
            /\ pc' \in Places \union {"ended"}
        <4>1. pc = "arguments" /\ UNCHANGED <<plugin, controller, port, output>>
              /\ tool # "client"
          BY <2>4, PlacesDiffer DEF Initialized, At, session, history, PlaceInv, Ended
        <4>2. QED
          BY <2>4, <4>1 DEF Initialized, At, Goto, Places, ToolOK
      <3>2. PlaceInv'
        BY <2>1, <3>1 DEF PlaceInv, Driven, Ended
      <3>3. QED
        BY <2>1, <2>2, <3>1, <3>2 DEF SessionInv, AdapterInv, OutputInv, HasPort
    <2>5. CASE LoadDatabase
      <3>1. /\ pc = "database" /\ UNCHANGED <<plugin, controller, port, output>>
            /\ pc' \in Ended \/ (tool = "client" /\ pc' = "filters")
                             \/ (tool = "can_dump" /\ pc' = "plugin")
        <4>1. pc = "database" /\ UNCHANGED <<plugin, controller, port, output>>
              /\ tool \in {"client", "can_dump"}
          BY <2>5, PlacesDiffer DEF LoadDatabase, At, history, PlaceInv, Ended
        <4>2. QED
          BY <2>5, <4>1 DEF LoadDatabase, At, Goto, Ended
      <3>2. pc' \in Places \union Ended
        BY <3>1 DEF Places
      <3>3. PlaceInv'
        BY <2>1, <3>1, <3>2 DEF PlaceInv, Driven, Ended, AdapterTools
      <3>4. QED
        BY <2>1, <2>2, <3>1, <3>3 DEF SessionInv, AdapterInv, OutputInv, HasPort
    <2>6. CASE LoadPlugin
      <3>1. /\ pc = "plugin" /\ UNCHANGED <<controller, port, output>>
            /\ plugin' = AskedAdapter
            /\ pc' = IF plugin' = {} THEN "ended" ELSE "create"
        BY <2>6 DEF LoadPlugin, At, Goto, history, AskedAdapter
      <3>2. tool \in AdapterTools /\ controller = "none" /\ parsing = "parsed"
        BY <3>1, PlacesDiffer DEF PlaceInv, Ended, AdapterTools
      <3>3. PlaceInv'
        BY <2>1, <3>1, <3>2 DEF PlaceInv, Driven, Ended, AdapterTools, Places
      <3>4. AdapterInv'
        BY <2>1, <3>1, <3>2 DEF AdapterInv
      <3>5. OutputInv'
        BY <2>1, <3>1 DEF OutputInv
      <3>6. QED
        BY <3>3, <3>4, <3>5 DEF SessionInv
    <2>7. CASE CreateController
      <3>1. pc = "create" /\ UNCHANGED <<plugin, output>> /\ tool \in AdapterTools
            /\ controller = "none" /\ parsing = "parsed"
        BY <2>7, PlacesDiffer DEF CreateController, At, history, PlaceInv, Ended, AdapterTools
      <3>2. \/ pc' \in {"aborted", "ended"} /\ UNCHANGED <<controller, port>>
            \/ /\ pc' = "open" /\ controller' = "created"
               /\ HasPort => \E n \in AskedPort : port' = n % 2^Width.uint16
        BY <2>7 DEF CreateController, Goto
      <3>3. PlaceInv'
        BY <2>1, <3>1, <3>2 DEF PlaceInv, Driven, Ended, AdapterTools, Places
      <3>4. AdapterInv'
        BY <2>1, <2>2, <3>1, <3>2 DEF AdapterInv, PlaceInv, HasPort
      <3>5. OutputInv'
        BY <2>1, <3>1 DEF OutputInv, AdapterTools
      <3>6. QED
        BY <3>3, <3>4, <3>5 DEF SessionInv
    <2>8. CASE Open \/ Configure \/ StartController \/ Stop \/ Close \/ Delete
      <3>1. UNCHANGED <<plugin, port, output>> /\ pc \in Driven \ {"running"}
            /\ (controller' = controller \/ controller' # "none")
            /\ pc' \in Driven \union {"ended"}
            /\ (pc' = "running" <=> pc' \in Driven \ {"send"} /\ pc = "start" /\ pc' # "close")
            /\ (pc' = "running" => tool = "can_dump") /\ (pc' = "send" => tool # "can_dump")
        BY <2>8 DEF Open, Configure, StartController, Stop, Close, Delete, ControllerCall, At,
                    Goto, history, Driven
      <3>2. tool \in AdapterTools
        BY <3>1, PlacesDiffer DEF PlaceInv, Ended, Driven
      <3>3. controller # "none" /\ parsing = "parsed"
        BY <3>1, <3>2 DEF PlaceInv, Driven, AdapterTools
      <3>4. pc' \in Places \union Ended
        BY <3>1, <3>2 DEF Places, Driven, Ended, AdapterTools
      <3>5. PlaceInv'
        BY <2>1, <3>1, <3>2, <3>3, <3>4 DEF PlaceInv, Driven
      <3>6. QED
        BY <2>1, <2>2, <3>1, <3>2, <3>3, <3>5 DEF SessionInv, AdapterInv, OutputInv, HasPort,
             AdapterTools
    <2>9. CASE Receive \/ PressEnter \/ ChangeFilter \/ Filtered
      <3>1. /\ UNCHANGED <<plugin, controller, port>>
            /\ pc \in {"running", "filters"} /\ (pc = "filters" => output' = output)
            /\ pc' \in {pc, "ended", "stop", "running", "aborted", "undefined", "hangs"}
            /\ pc' = "stop" => tool # "client" /\ pc = "running"
        <4>1. CASE Receive
          BY <4>1, DecodingEnds DEF Receive, At, Goto, session
        <4>2. CASE PressEnter \/ ChangeFilter \/ Filtered
          BY <4>2 DEF PressEnter, ChangeFilter, Filtered, At, Goto, session, history
        <4>3. QED
          BY <2>9, <4>1, <4>2
      <3>2. tool \in {"client", "can_dump"}
        BY <3>1, PlacesDiffer DEF PlaceInv, Ended
      <3>3. pc' \in Places \union Ended
        BY <3>1, <3>2 DEF Places, Ended, Driven, PlaceInv
      <3>4. PlaceInv'
        BY <2>1, <3>1, <3>2, <3>3, PlacesDiffer DEF PlaceInv, Driven, Ended, AdapterTools
      <3>5. QED
        BY <2>1, <2>2, <3>1, <3>2, <3>4 DEF SessionInv, AdapterInv, OutputInv, HasPort
    <2>10. CASE Send
      <3>1. /\ pc = "send" /\ pc' = "stop" /\ UNCHANGED <<plugin, controller, port>>
            /\ output' = <<IF tool = "can_send" THEN Message ELSE Transfer>> \/ output' = output
        BY <2>10 DEF Send, At, Goto, session
      <3>2. tool \in {"can_send", "can_sdo"} /\ parsing = "parsed"
        BY <3>1, PlacesDiffer DEF PlaceInv, Ended
      <3>3. PlaceInv'
        BY <2>1, <3>1, <3>2 DEF PlaceInv, Driven, Ended, AdapterTools, Places
      <3>4. AdapterInv'
        BY <2>1, <2>2, <3>1 DEF AdapterInv, HasPort
      <3>5. OutputInv'
        BY <2>1, <3>1, <3>2 DEF OutputInv
      <3>6. QED
        BY <3>3, <3>4, <3>5 DEF SessionInv
    <2>11. CASE Serve
      <3>1. /\ pc = "server" /\ pc' = "ended" /\ UNCHANGED <<plugin, controller, output>>
            /\ port' = ServerPort
        BY <2>11 DEF Serve, At, Goto, history, ServerPort
      <3>2. tool = "can_server" /\ parsing = "parsed"
        BY <3>1, PlacesDiffer DEF PlaceInv, Ended
      <3>3. plugin = {} /\ controller = "none"
        BY <3>2 DEF AdapterInv, AdapterTools
      <3>4. QED
        BY <2>1, <3>1, <3>2, <3>3
          DEF SessionInv, PlaceInv, AdapterInv, OutputInv, Ended, AdapterTools, Driven
    <2>12. CASE ListAdapters
      <3>1. /\ pc = "list" /\ pc' = "ended" /\ UNCHANGED <<plugin, controller, port>>
            /\ output' = Shown
        BY <2>12 DEF ListAdapters, At, Goto, session, Shown
      <3>2. tool = "can_adapter" /\ parsing = "parsed"
        BY <3>1, PlacesDiffer DEF PlaceInv, Ended
      <3>3. PlaceInv'
        BY <2>1, <3>1, <3>2 DEF PlaceInv, Driven, Ended, AdapterTools
      <3>4. AdapterInv'
        BY <2>1, <2>2, <3>1 DEF AdapterInv, HasPort
      <3>5. OutputInv'
        BY <2>1, <3>1, <3>2 DEF OutputInv
      <3>6. QED
        BY <3>3, <3>4, <3>5 DEF SessionInv
    <2>13. QED
      BY <1>3, <2>3, <2>4, <2>5, <2>6, <2>7, <2>8, <2>9, <2>10, <2>11, <2>12 DEF Next
  <1>4. QED
    <2>1. CASE Next /\ ~ParseArguments
      <3>1. UNCHANGED <<parser, environment>>
        BY <2>1 DEF Next, At, ControllerCall, Initialized, LoadDatabase, LoadPlugin,
          CreateController, Open, Configure, StartController, Receive, PressEnter, ChangeFilter,
          Filtered, Send, Stop, Close, Delete, Serve, ListAdapters
      <3>2. QED
        BY <1>3, <2>1, <3>1
    <2>2. CASE UNCHANGED vars
      BY <1>3, <2>2 DEF vars
    <2>3. QED
      BY <1>2, <2>1, <2>2
-----------------------------------------------------------------------------
(* What the values are in the words of the line, option by option          *)

(* An option that is found has the name of its word. *)
LEMMA OptionHasText ==
  ASSUME LineOK, NEW i \in Options
  PROVE /\ Of(i).option = argv[i].text
        /\ \E a \in DOMAIN args : Of(i) = args[a]
  <1>1. Found(argv[i]) # {} /\ Found(argv[i]) \in SUBSET Nat
    BY LineTypes DEF Options, Found
  <1>2. FindArgument(argv[i]) \in Found(argv[i])
    BY <1>1, MinIsLeast DEF FindArgument
  <1>3. QED
    BY <1>2 DEF Found, Of

(* What parse() has kept under a name is what the words given for it say. *)
Tells(name, last) ==
  /\ last \in Options /\ Of(last).name = name
  /\ WordsOf(name) \in Seq(CommandWord)
  /\ Len(WordsOf(name)) \in Of(last).min..Of(last).max
  /\ Of(last).max > 0 => Len(m_values[name]) = Len(WordsOf(name))
  /\ \A k \in 1..Len(WordsOf(name)) :
       /\ IsLegal(Of(last).type, WordsOf(name)[k])
       /\ StandsFor(m_values[name][k], Of(last).type, WordsOf(name)[k])

LEMMA ValuesTell ==
  ASSUME LineInv, parsing = "parsed", NEW name
  PROVE /\ Given(name) <=> \E i \in Options : Of(i).name = name
        /\ ~Given(name) => WordsOf(name) = <<>>
        /\ Given(name) => m_values[name] \in Seq(Held) /\ \E last \in Options : Tells(name, last)
  <1> DEFINE named == {i \in Options : Of(i).name = name}
             last == Max(named)
  <1>1. LineOK /\ Legal /\ ArgsAreTheLine /\ ValuesInv
    BY IInvMeans DEF LineInv, IInv, ArgsAreTheLine
  <1>2. DOMAIN m_values = {Of(i).name : i \in Options}
    BY <1>1 DEF ArgsAreTheLine
  <1>3. Given(name) <=> \E i \in Options : Of(i).name = name
    BY <1>2 DEF Given
  <1>4. ASSUME ~Given(name)
        PROVE WordsOf(name) = <<>>
    <2>1. named = {}
      BY <1>3, <1>4
    <2>2. QED
      BY <2>1 DEF WordsOf
  <1>5. ASSUME Given(name)
        PROVE Tells(name, last) /\ last \in Options
    <2>1. named # {} /\ named \in SUBSET (1..Len(argv)) /\ Len(argv) \in Nat
      BY <1>1, <1>3, <1>5, OptionsAreFound, LineTypes
    <2>2. last \in named
      BY <2>1, MaxIsGreatest
    <2>3. WordsOf(name) = ParametersOf(last)
      BY <2>1 DEF WordsOf
    <2>4. Kept(last, m_values[name])
      BY <1>1, <1>5 DEF ArgsAreTheLine, Given, Kept
    <2> HIDE DEF last, named
    <2>5. last \in Options /\ Of(last).name = name
      BY <2>2 DEF named
    <2>6. /\ Len(ParametersOf(last)) \in Of(last).min..Of(last).max
          /\ \A w \in Range(ParametersOf(last)) : IsLegal(Of(last).type, w)
      BY <1>1, <2>5 DEF Legal
    <2>7. PICK e \in last..Len(argv) :
            /\ Len(ParametersOf(last)) = e - last
            /\ DOMAIN ParametersOf(last) = 1..(e - last)
            /\ \A k \in 1..(e - last) : ParametersOf(last)[k] = argv[last + k]
      BY <1>1, <2>5, ParametersUpTo
    <2>8. last \in Nat /\ e \in Nat /\ e <= Len(argv) /\ Len(argv) \in Nat
      BY <1>1, <2>1, <2>5, <2>7, OptionsAreFound
    <2>9. ParametersOf(last) \in Seq(CommandWord)
      <3>1. last + 1 \in 1..(Len(argv) + 1) /\ argv \in Seq(CommandWord)
        BY <1>1, <2>1, <2>5, OptionsAreFound DEF LineOK
      <3>2. \E n \in Nat : ParametersOf(last) = SubSeq(argv, last + 1, n) /\ n <= Len(argv)
        <4> DEFINE next == {j \in Options : j > last}
        <4>1. CASE next = {}
          BY <2>8, <4>1 DEF ParametersOf
        <4>2. CASE next # {}
          <5>1. next \in SUBSET Nat /\ \A j \in Options : j \in 1..Len(argv)
            BY <1>1, OptionsAreFound
          <5>2. Min(next) \in next
            BY <4>2, <5>1, MinIsLeast
          <5>3. Min(next) \in 1..Len(argv)
            BY <5>1, <5>2
          <5>4. ParametersOf(last) = SubSeq(argv, last + 1, Min(next) - 1)
            BY <4>2 DEF ParametersOf
          <5>5. Min(next) - 1 \in Nat /\ Min(next) - 1 <= Len(argv)
            BY <2>8, <5>3
          <5>6. QED
            BY <5>4, <5>5
        <4>3. QED
          BY <4>1, <4>2
      <3>3. PICK n \in Nat : ParametersOf(last) = SubSeq(argv, last + 1, n) /\ n <= Len(argv)
        BY <3>2
      <3>4. \A c \in (last + 1)..n : argv[c] \in CommandWord
        BY <1>1, <2>8, <3>3, LineTypes
      <3>5. SubSeq(argv, last + 1, n) \in Seq(CommandWord)
        BY <2>8, <3>3, <3>4, SubSeqProperties
      <3>6. QED
        BY <3>3, <3>5
    <2>10. \A k \in 1..Len(ParametersOf(last)) : k \in DOMAIN ParametersOf(last)
      BY <2>9, LenProperties
    <2>11. QED
      BY <2>3, <2>4, <2>5, <2>6, <2>9, <2>10 DEF Tells, Kept, Range
  <1>6. Given(name) => m_values[name] \in Seq(Held)
    BY <1>1 DEF ValuesInv, Given
  <1>7. QED
    BY <1>3, <1>4, <1>5, <1>6

(* A mandatory option has been given. *)
LEMMA MandatoryGiven ==
  ASSUME LineInv, parsing = "parsed", NEW a \in DOMAIN args, args[a].mandatory
  PROVE Given(args[a].name)
  <1>1. Legal
    BY IInvMeans DEF LineInv, ArgsAreTheLine
  <1>2. PICK i \in Options : Of(i) = args[a]
    BY <1>1 DEF Legal
  <1>3. QED
    BY <1>2, ValuesTell

(* The options of a name that take words of a type *)
Takes(name, types) ==
  \A a \in DOMAIN args : args[a].name = name => args[a].type \in types /\ args[a].min > 0

LEMMA LastTakes ==
  ASSUME LineInv, NEW name, NEW types, Takes(name, types), NEW last, Tells(name, last)
  PROVE /\ Of(last).type \in types
        /\ Len(WordsOf(name)) \in Nat \ {0} /\ Len(m_values[name]) = Len(WordsOf(name))
        /\ \A k \in 1..Len(WordsOf(name)) : WordsOf(name)[k] \in CommandWord
  <1>1. last \in Options /\ Of(last).name = name /\ LineOK
    BY DEF Tells, LineInv, IInv
  <1>2. PICK a \in DOMAIN args : Of(last) = args[a]
    BY <1>1, OptionHasText
  <1>3. Of(last).type \in types /\ Of(last).min > 0
    BY <1>1, <1>2 DEF Takes
  <1>4. Of(last).min \in Nat /\ Of(last).max \in Nat /\ Of(last).min <= Of(last).max
    BY <1>1, OptionsAreFound
  <1>5. Len(WordsOf(name)) \in Nat /\ \A k \in 1..Len(WordsOf(name)) : WordsOf(name)[k] \in CommandWord
    BY LenProperties, ElementOfSeq DEF Tells
  <1>6. QED
    BY <1>3, <1>4, <1>5 DEF Tells

LEMMA TextGiven ==
  ASSUME LineInv, parsing = "parsed", NEW name, Takes(name, {"string"}), Given(name)
  PROVE /\ WordsOf(name) # <<>>
        /\ Value(name) = WordsOf(name)[1].text /\ WordsOf(name)[1].text \in STRING
        /\ Range(Values(name)) = {w.text : w \in Range(WordsOf(name))}
  <1>1. PICK last \in Options : Tells(name, last)
    BY ValuesTell
  <1>2. /\ Of(last).type = "string"
        /\ Len(WordsOf(name)) \in Nat \ {0} /\ Len(m_values[name]) = Len(WordsOf(name))
        /\ \A k \in 1..Len(WordsOf(name)) : WordsOf(name)[k] \in CommandWord
    BY <1>1, LastTakes
  <1>3. \A k \in 1..Len(WordsOf(name)) : m_values[name][k] = WordsOf(name)[k].text
    BY <1>1, <1>2 DEF Tells, StandsFor
  <1>4. DOMAIN m_values[name] = 1..Len(WordsOf(name)) /\ DOMAIN WordsOf(name) = 1..Len(WordsOf(name))
    BY <1>1, <1>2, ValuesTell, LenProperties DEF Tells
  <1>5. 1 \in 1..Len(WordsOf(name))
    BY <1>2
  <1>6. WordsOf(name) # <<>>
    BY <1>2
  <1>7. Value(name) = WordsOf(name)[1].text /\ WordsOf(name)[1].text \in STRING
    BY <1>2, <1>3, <1>5 DEF Value, CommandWord
  <1>8. Values(name) = m_values[name]
    BY DEF Values
  <1>9. Range(Values(name)) = {w.text : w \in Range(WordsOf(name))}
    BY <1>3, <1>4, <1>8 DEF Range
  <1>10. QED
    BY <1>6, <1>7, <1>9

LEMMA NumbersGiven ==
  ASSUME LineInv, parsing = "parsed", NEW name, NEW types \in SUBSET DOMAIN Width,
         Takes(name, types), Given(name), Positive(name)
  PROVE /\ WordsOf(name) # <<>>
        /\ Values(name) = Numbers(name) /\ Value(name) = Numbers(name)[1]
        /\ \E last \in Options :
             /\ Of(last).name = name /\ Of(last).type \in types
             /\ \A k \in DOMAIN Numbers(name) :
                  Numbers(name)[k] \in 0..(2^Width[Of(last).type] - 1)
        /\ 1 \in DOMAIN Numbers(name)
  <1>1. PICK last \in Options : Tells(name, last)
    BY ValuesTell
  <1> DEFINE type == Of(last).type
             n == Len(WordsOf(name))
  <1>2. /\ type \in types
        /\ n \in Nat \ {0} /\ Len(m_values[name]) = n
        /\ \A k \in 1..n : WordsOf(name)[k] \in CommandWord
    BY <1>1, LastTakes
  <1>3. DOMAIN m_values[name] = 1..n /\ DOMAIN WordsOf(name) = 1..n /\ m_values[name] \in Seq(Held)
    BY <1>1, <1>2, ValuesTell, LenProperties DEF Tells
  <1>4. type \in DOMAIN Width /\ type \notin {"string", "bool", "float", "double"}
    BY <1>2, ArgParserAssumption
  <1>5. ASSUME NEW k \in 1..n
        PROVE /\ m_values[name][k] = WordsOf(name)[k].number
              /\ WordsOf(name)[k].number \in 0..(2^Width[type] - 1)
    <2> DEFINE w == WordsOf(name)[k]
    <2>1. /\ w \in CommandWord /\ ~w.minus
          /\ IsLegal(type, w) /\ StandsFor(m_values[name][k], type, w)
      BY <1>1, <1>2, <1>3, <1>5 DEF Tells, Positive, Range
    <2> HIDE DEF w, type
    <2>2. w.number # NoNumber
      <3>1. w.number = NoNumber => Convert(type, w) = {}
        BY <1>4, <2>1 DEF Convert, ConvertUint, Stoull
      <3>2. QED
        BY <1>4, <2>1, <3>1 DEF IsLegal, Plain
    <2>3. Plain(type, w) /\ NumberOf(w) = w.number
      BY <1>4, <2>1, <2>2 DEF Plain, NumberOf
    <2>4. m_values[name][k] = w.number /\ w.number \in ValuesOf(type)
      BY <1>4, <2>1, <2>3 DEF IsLegal, StandsFor
    <2>5. QED
      BY <1>4, <2>4 DEF ValuesOf, w
  <1>6. m_values[name] = [k \in 1..n |-> m_values[name][k]]
    BY <1>3, LenProperties
  <1> HIDE DEF type, n
  <1>7. Numbers(name) = [k \in 1..n |-> WordsOf(name)[k].number]
    BY <1>3 DEF Numbers
  <1>8. Values(name) = Numbers(name)
    BY <1>5, <1>6, <1>7 DEF Values
  <1>9. 1 \in 1..n
    BY <1>2
  <1>10. Value(name) = Numbers(name)[1]
    BY <1>5, <1>7, <1>9 DEF Value
  <1>11. WordsOf(name) # <<>>
    BY <1>2 DEF n
  <1>12. \A k \in DOMAIN Numbers(name) :
           Numbers(name)[k] \in 0..(2^Width[Of(last).type] - 1)
    BY <1>5, <1>7 DEF type
  <1>13. last \in Options /\ Of(last).name = name /\ Of(last).type \in types
    BY <1>1, <1>2 DEF Tells, type
  <1>14. QED
    BY <1>7, <1>8, <1>9, <1>10, <1>11, <1>12, <1>13

LEMMA FlagGiven ==
  ASSUME LineInv, parsing = "parsed", NEW name, NEW option,
         \A a \in DOMAIN args : args[a].name = name <=> args[a].option = option
  PROVE Given(name) <=> \E i \in Options : argv[i].text = option
  <1>1. ASSUME NEW i \in Options
        PROVE Of(i).name = name <=> argv[i].text = option
    <2>1. LineOK
      BY DEF LineInv, IInv
    <2>2. QED
      BY <2>1, OptionHasText
  <1>2. QED
    BY <1>1, ValuesTell
-----------------------------------------------------------------------------
(* The options of the tools *)
AreRows(rows) ==
  /\ \A a \in DOMAIN args : args[a] \in rows
  /\ \A r \in rows : \E a \in DOMAIN args : args[a] = r

LEMMA RowsOfBoth ==
  ASSUME NEW S, NEW A \in Seq(S), NEW B \in Seq(S), args = A \o B
  PROVE AreRows(Range(A) \union Range(B))
  <1>1. /\ args \in Seq(S) /\ Len(args) = Len(A) + Len(B)
        /\ \A i \in 1..Len(args) : args[i] = IF i <= Len(A) THEN A[i] ELSE B[i - Len(A)]
    BY ConcatProperties
  <1>2. /\ Len(A) \in Nat /\ Len(B) \in Nat /\ DOMAIN A = 1..Len(A) /\ DOMAIN B = 1..Len(B)
        /\ DOMAIN args = 1..(Len(A) + Len(B))
    BY <1>1, LenProperties
  <1>3. ASSUME NEW a \in DOMAIN args
        PROVE args[a] \in Range(A) \union Range(B)
    <2>1. CASE a <= Len(A)
      BY <1>1, <1>2, <2>1 DEF Range
    <2>2. CASE ~(a <= Len(A))
      <3>1. a - Len(A) \in DOMAIN B /\ args[a] = B[a - Len(A)]
        BY <1>1, <1>2, <2>2
      <3>2. QED
        BY <3>1 DEF Range
    <2>3. QED
      BY <2>1, <2>2
  <1>4. ASSUME NEW i \in DOMAIN A
        PROVE i \in DOMAIN args /\ args[i] = A[i]
    BY <1>1, <1>2
  <1>5. ASSUME NEW i \in DOMAIN B
        PROVE i + Len(A) \in DOMAIN args /\ args[i + Len(A)] = B[i]
    <2>1. i \in Nat /\ i >= 1 /\ i <= Len(B) /\ (i + Len(A)) - Len(A) = i
      BY <1>2
    <2>2. QED
      BY <1>1, <1>2, <2>1
  <1>6. QED
    BY <1>3, <1>4, <1>5 DEF Range, AreRows


LEMMA RangeOf3 ==
  ASSUME NEW a, NEW b, NEW c
  PROVE Range(<<a, b, c>>) = {a, b, c}
  <1>1. /\ DOMAIN <<a, b, c>> = 1..3
        /\ \A k \in 1..3 : k = 1 \/ k = 2 \/ k = 3
    OBVIOUS
  <1>2. QED
    BY <1>1 DEF Range

LEMMA RangeOf4 ==
  ASSUME NEW a, NEW b, NEW c, NEW d
  PROVE Range(<<a, b, c, d>>) = {a, b, c, d}
  <1>1. /\ DOMAIN <<a, b, c, d>> = 1..4
        /\ \A k \in 1..4 : k = 1 \/ k = 2 \/ k = 3 \/ k = 4
    OBVIOUS
  <1>2. QED
    BY <1>1 DEF Range

LEMMA RangeOf5 ==
  ASSUME NEW a, NEW b, NEW c, NEW d, NEW e
  PROVE Range(<<a, b, c, d, e>>) = {a, b, c, d, e}
  <1>1. /\ DOMAIN <<a, b, c, d, e>> = 1..5
        /\ \A k \in 1..5 : k = 1 \/ k = 2 \/ k = 3 \/ k = 4 \/ k = 5
    OBVIOUS
  <1>2. QED
    BY <1>1 DEF Range

LEMMA RangeOf9 ==
  ASSUME NEW a, NEW b, NEW c, NEW d, NEW e, NEW f, NEW g, NEW h, NEW i
  PROVE Range(<<a, b, c, d, e, f, g, h, i>>) = {a, b, c, d, e, f, g, h, i}
  <1>1. /\ DOMAIN <<a, b, c, d, e, f, g, h, i>> = 1..9
        /\ \A k \in 1..9 : k = 1 \/ k = 2 \/ k = 3 \/ k = 4 \/ k = 5
                          \/ k = 6 \/ k = 7 \/ k = 8 \/ k = 9
    OBVIOUS
  <1>2. QED
    BY <1>1 DEF Range

AdapterRow == OneArgument("--adapter", "adapter", "string", TRUE)
OptionsRow == OneArgument("--options", "option_string", "string", FALSE)
BitrateRow == OneArgument("--bitrate", "bitrate", "uint16", TRUE)
AdapterRows == {AdapterRow, OptionsRow, BitrateRow}

LEMMA AdapterArgumentsRows ==
  AdapterArguments = <<AdapterRow, OptionsRow, BitrateRow>> /\ Range(AdapterArguments) = AdapterRows
  <1>1. AdapterArguments = <<AdapterRow, OptionsRow, BitrateRow>>
    BY DEF AdapterArguments, AdapterRow, OptionsRow, BitrateRow
  <1>2. QED
    BY <1>1, RangeOf3 DEF AdapterRows

SendRows ==
  { OneArgument("--msg_id", "msg_id", "uint32", TRUE),
    Argument("--msg_data", "msg_data", "uint8", FALSE, 1, 8),
    SingleArgument("--extended", "extended"), SingleArgument("--rtr", "rtr"), Help }

SdoRows ==
  { OneArgument("--client_sdo", "client_sdo_id", "uint16", TRUE),
    OneArgument("--server_sdo", "server_sdo_id", "uint16", TRUE),
    OneArgument("--obd_index", "obd_index", "uint16", TRUE),
    OneArgument("--obd_subindex", "obd_subindex", "uint8", TRUE),
    OneArgument("--data_string", "data_string", "string", FALSE),
    Argument("--data_bytes", "data_bytes", "uint8", FALSE, 1, 4096),
    SingleArgument("--read", "read_mode"),
    SingleArgument("--string_output", "string_output"), Help }

DumpRows ==
  { Argument("--white_list", "white_list", "uint32", FALSE, 1, 1000),
    Argument("--black_list", "black_list", "uint32", FALSE, 1, 1000),
    OneArgument("--database", "database", "string", FALSE), Help }

ServerRows ==
  { OneArgument("--ip", "ip", "string", FALSE),
    OneArgument("--port", "port", "uint16", FALSE),
    OneArgument("--timeout", "port", "uint32", FALSE), Help }

AdapterToolRows ==
  { Argument("--list_adapters", "list_adapters", "string", FALSE, 1, 100),
    SingleArgument("--parameters", "parameters"),
    SingleArgument("--enumerate", "enumerate"), Help }

LEMMA BothAreRows ==
  ASSUME NEW B, NEW rows, B \in Seq(rows), Range(B) = rows, args = AdapterArguments \o B
  PROVE AreRows(AdapterRows \union rows)
  <1>1. AdapterArguments \in Seq(AdapterRows \union rows)
    BY AdapterArgumentsRows DEF AdapterRows
  <1>2. B \in Seq(AdapterRows \union rows)
    BY SeqMonotonic
  <1> DEFINE A == AdapterArguments
  <1>3. AreRows(Range(A) \union Range(B))
    <2> HIDE DEF A
    <2>1. args = A \o B
      BY DEF A
    <2>2. QED
      BY <1>1, <1>2, <2>1, RowsOfBoth DEF A
  <1>4. QED
    BY <1>3, AdapterArgumentsRows

LEMMA ToolRows ==
  ASSUME ToolOK
  PROVE /\ tool = "can_dump" => AreRows(AdapterRows \union DumpRows)
        /\ tool = "can_send" => AreRows(AdapterRows \union SendRows)
        /\ tool = "can_sdo"  => AreRows(AdapterRows \union SdoRows)
        /\ tool = "can_server"  => AreRows(ServerRows)
        /\ tool = "can_adapter" => AreRows(AdapterToolRows)
  <1>1. CASE tool = "can_dump"
    <2> DEFINE a == Argument("--white_list", "white_list", "uint32", FALSE, 1, 1000)
               b == Argument("--black_list", "black_list", "uint32", FALSE, 1, 1000)
               c == OneArgument("--database", "database", "string", FALSE)
               B == <<a, b, c, Help>>
    <2>1. args = AdapterArguments \o B
      BY <1>1 DEF ToolOK, ToolArguments, DumpArguments
    <2>2. DumpRows = {a, b, c, Help}
      BY DEF DumpRows
    <2> HIDE DEF a, b, c
    <2>3. B \in Seq(DumpRows) /\ Range(B) = DumpRows
      BY <2>2, RangeOf4
    <2> HIDE DEF B
    <2>4. QED
      BY <1>1, <2>1, <2>3, BothAreRows
  <1>2. CASE tool = "can_send"
    <2> DEFINE a == OneArgument("--msg_id", "msg_id", "uint32", TRUE)
               b == Argument("--msg_data", "msg_data", "uint8", FALSE, 1, 8)
               c == SingleArgument("--extended", "extended")
               d == SingleArgument("--rtr", "rtr")
               B == <<a, b, c, d, Help>>
    <2>1. args = AdapterArguments \o B
      BY <1>2 DEF ToolOK, ToolArguments, SendArguments
    <2>2. SendRows = {a, b, c, d, Help}
      BY DEF SendRows
    <2> HIDE DEF a, b, c, d
    <2>3. B \in Seq(SendRows) /\ Range(B) = SendRows
      BY <2>2, RangeOf5
    <2> HIDE DEF B
    <2>4. QED
      BY <1>2, <2>1, <2>3, BothAreRows
  <1>3. CASE tool = "can_sdo"
    <2> DEFINE a == OneArgument("--client_sdo", "client_sdo_id", "uint16", TRUE)
               b == OneArgument("--server_sdo", "server_sdo_id", "uint16", TRUE)
               c == OneArgument("--obd_index", "obd_index", "uint16", TRUE)
               d == OneArgument("--obd_subindex", "obd_subindex", "uint8", TRUE)
               e == OneArgument("--data_string", "data_string", "string", FALSE)
               f == Argument("--data_bytes", "data_bytes", "uint8", FALSE, 1, 4096)
               g == SingleArgument("--read", "read_mode")
               h == SingleArgument("--string_output", "string_output")
               B == <<a, b, c, d, e, f, g, h, Help>>
    <2>1. args = AdapterArguments \o B
      <3>1. args = SdoArguments
        BY <1>3 DEF ToolOK, ToolArguments
      <3>2. SdoArguments = AdapterArguments \o B
        BY Zenon DEF SdoArguments
      <3>3. QED
        BY <3>1, <3>2
    <2>2. SdoRows = {a, b, c, d, e, f, g, h, Help}
      BY DEF SdoRows
    <2> HIDE DEF a, b, c, d, e, f, g, h
    <2>3. B \in Seq(SdoRows) /\ Range(B) = SdoRows
      BY <2>2, RangeOf9
    <2> HIDE DEF B
    <2>4. QED
      BY <1>3, <2>1, <2>3, BothAreRows
  <1>4. CASE tool = "can_server"
    <2> DEFINE a == OneArgument("--ip", "ip", "string", FALSE)
               b == OneArgument("--port", "port", "uint16", FALSE)
               c == OneArgument("--timeout", "port", "uint32", FALSE)
               B == <<a, b, c, Help>>
    <2>1. args = B
      BY <1>4 DEF ToolOK, ToolArguments, ServerArguments
    <2>2. ServerRows = {a, b, c, Help}
      BY DEF ServerRows
    <2> HIDE DEF a, b, c
    <2>3. Range(B) = ServerRows
      BY <2>2, RangeOf4
    <2> HIDE DEF B
    <2>4. QED
      BY <1>4, <2>1, <2>3 DEF AreRows, Range
  <1>5. CASE tool = "can_adapter"
    <2> DEFINE a == Argument("--list_adapters", "list_adapters", "string", FALSE, 1, 100)
               b == SingleArgument("--parameters", "parameters")
               c == SingleArgument("--enumerate", "enumerate")
               B == <<a, b, c, Help>>
    <2>1. args = B
      BY <1>5 DEF ToolOK, ToolArguments, AdapterToolArguments
    <2>2. AdapterToolRows = {a, b, c, Help}
      BY DEF AdapterToolRows
    <2> HIDE DEF a, b, c
    <2>3. Range(B) = AdapterToolRows
      BY <2>2, RangeOf4
    <2> HIDE DEF B
    <2>4. QED
      BY <1>5, <2>1, <2>3 DEF AreRows, Range
  <1>6. QED
    BY <1>1, <1>2, <1>3, <1>4, <1>5
-----------------------------------------------------------------------------
(* What the options of a name take, by their rows *)
RowsTake(rows, name, types) ==
  \A r \in rows : r.name = name => r.type \in types /\ r.min > 0

LEMMA TakesFromRows ==
  ASSUME NEW rows, AreRows(rows), NEW name, NEW types, RowsTake(rows, name, types)
  PROVE Takes(name, types)
  BY DEF AreRows, RowsTake, Takes

LEMMA AdapterRowsTake ==
  /\ RowsTake(AdapterRows, "adapter", {"string"})
  /\ RowsTake(AdapterRows, "option_string", {"string"})
  /\ \A name \in {"msg_id", "msg_data", "extended", "rtr", "client_sdo_id", "server_sdo_id",
                  "obd_index", "obd_subindex", "data_string", "data_bytes", "read_mode",
                  "white_list", "black_list"} :
       \A r \in AdapterRows : r.name # name
  /\ \A option \in {"--extended", "--rtr", "--read"} : \A r \in AdapterRows : r.option # option
  /\ AdapterRow.mandatory /\ AdapterRow.name = "adapter"
  BY DEF RowsTake, AdapterRows, AdapterRow, OptionsRow, BitrateRow, OneArgument, Argument

LEMMA OtherRowsTake ==
  /\ \A rows \in {DumpRows, SendRows, SdoRows} : \A r \in rows :
       r.name # "adapter" /\ r.name # "option_string"
  /\ RowsTake(DumpRows, "white_list", {"uint32"}) /\ RowsTake(DumpRows, "black_list", {"uint32"})
  /\ RowsTake(SendRows, "msg_id", {"uint32"}) /\ RowsTake(SendRows, "msg_data", {"uint8"})
  /\ \A name \in {"client_sdo_id", "server_sdo_id", "obd_index"} :
       RowsTake(SdoRows, name, {"uint16"})
  /\ \A name \in {"obd_subindex", "data_bytes"} : RowsTake(SdoRows, name, {"uint8"})
  /\ RowsTake(SdoRows, "data_string", {"string"})
  /\ RowsTake(ServerRows, "port", {"uint16", "uint32"})
  /\ RowsTake(AdapterToolRows, "list_adapters", {"string"})
  BY DEF RowsTake, DumpRows, SendRows, SdoRows, ServerRows, AdapterToolRows,
         OneArgument, SingleArgument, Argument, Help

LEMMA RowsAsk ==
  /\ \A r \in SendRows : /\ r.name = "extended" <=> r.option = "--extended"
                         /\ r.name = "rtr" <=> r.option = "--rtr"
  /\ \A r \in SdoRows : r.name = "read_mode" <=> r.option = "--read"
  /\ \A r \in ServerRows : r.name = "port" => r.option = "--port" \/ r.option = "--timeout"
  /\ \A r \in ServerRows : r.option = "--port" => r.type = "uint16"
  /\ \E r \in SendRows : r.mandatory /\ r.name = "msg_id"
  /\ \A name \in {"client_sdo_id", "server_sdo_id", "obd_index", "obd_subindex"} :
       \E r \in SdoRows : r.mandatory /\ r.name = name
  BY DEF SendRows, SdoRows, ServerRows, OneArgument, SingleArgument, Argument, Help
-----------------------------------------------------------------------------
(* What is said of the rows holds of the options. *)
LEMMA BothTake ==
  ASSUME NEW rows, AreRows(AdapterRows \union rows), NEW name, NEW types,
         RowsTake(AdapterRows, name, types), RowsTake(rows, name, types)
  PROVE Takes(name, types)
  BY DEF AreRows, RowsTake, Takes

LEMMA AdapterIsGiven ==
  ASSUME LineInv, parsing = "parsed", tool \in AdapterTools
  PROVE /\ Takes("adapter", {"string"}) /\ Takes("option_string", {"string"})
        /\ Given("adapter")
  <1>1. PICK rows \in {DumpRows, SendRows, SdoRows} : AreRows(AdapterRows \union rows)
    BY ToolRows DEF LineInv, AdapterTools
  <1>2. RowsTake(rows, "adapter", {"string"}) /\ RowsTake(rows, "option_string", {"string"})
    BY OtherRowsTake DEF RowsTake
  <1>3. Takes("adapter", {"string"}) /\ Takes("option_string", {"string"})
    BY <1>1, <1>2, AdapterRowsTake, BothTake
  <1>4. AdapterRow \in AdapterRows \union rows
    BY DEF AdapterRows
  <1>5. PICK a \in DOMAIN args : args[a] = AdapterRow
    BY <1>1, <1>4 DEF AreRows
  <1>6. args[a].mandatory /\ args[a].name = "adapter"
    BY <1>5, AdapterRowsTake
  <1>7. Given("adapter")
    BY <1>6, MandatoryGiven
  <1>8. QED
    BY <1>3, <1>7

LEMMA OnePiece ==
  ASSUME NEW S, NEW x \in S
  PROVE << <<x>> >> \in Seq(Seq(S))
  OBVIOUS

LEMMA Alike ==
  ASSUME NEW a \in BOOLEAN, NEW b \in BOOLEAN, a <=> b
  PROVE a = b
  OBVIOUS

LEMMA PiecesTyped ==
  ASSUME NEW text \in STRING
  PROVE Pieces(text) \in Seq(Seq(STRING))
  <1>1. \A t \in DOMAIN Split : Split[t] \in Seq(Seq(STRING))
    BY ToolsAssumption
  <1>2. << <<text>> >> \in Seq(Seq(STRING))
    BY OnePiece
  <1>3. QED
    BY <1>1, <1>2 DEF Pieces

(* The controller *)
ControllerIsAsked ==
  LET options == IF WordsOf("option_string") = <<>> THEN <<>>
                 ELSE Pieces(WordsOf("option_string")[1].text)
      asked == WordOf(PortOf(options))
      named == {i \in DOMAIN libraries :
                  /\ libraries[i].type = "can_adapter" /\ libraries[i].loads
                  /\ libraries[i].name = WordsOf("adapter")[1].text}
  IN /\ Cardinality(named) = 1
     /\ \A i \in named :
          /\ plugin = {libraries[i]}
          /\ (/\ libraries[i].name \in {"udp_adapter", "tcp_adapter"}
              /\ ~asked.minus /\ ~asked.hex) =>
               port = asked.number % 2^Width.uint16

LEMMA ControllerMeans ==
  ASSUME LineInv, SessionInv, controller # "none"
  PROVE ControllerIsAsked
  <1> DEFINE options == IF WordsOf("option_string") = <<>> THEN <<>>
                        ELSE Pieces(WordsOf("option_string")[1].text)
             asked == WordOf(PortOf(options))
             adapter == WordsOf("adapter")[1].text
             named == {i \in DOMAIN libraries :
                         /\ libraries[i].type = "can_adapter" /\ libraries[i].loads
                         /\ libraries[i].name = adapter}
  <1>1. /\ parsing = "parsed" /\ tool \in AdapterTools
        /\ plugin # {} /\ plugin = Plugins!LoadAdapter(libraries, Value("adapter"))
        /\ HasPort => \E n \in AskedPort : port = n % 2^Width.uint16
    BY DEF SessionInv, AdapterInv, AskedAdapter
  <1>2. Value("adapter") = adapter
    BY <1>1, AdapterIsGiven, TextGiven
  <1>3. options = (IF Given("option_string") THEN Pieces(Value("option_string")) ELSE <<>>)
        /\ options \in Seq(Seq(STRING))
    <2>1. CASE Given("option_string")
      <3>1. /\ WordsOf("option_string") # <<>> /\ WordsOf("option_string")[1].text \in STRING
            /\ Value("option_string") = WordsOf("option_string")[1].text
        BY <1>1, <2>1, AdapterIsGiven, TextGiven
      <3>2. QED
        BY <2>1, <3>1, PiecesTyped
    <2>2. CASE ~Given("option_string")
      <3>1. WordsOf("option_string") = <<>>
        BY <1>1, <2>2, ValuesTell
      <3>2. QED
        BY <2>2, <3>1
    <2>3. QED
      BY <2>1, <2>2
  <1> HIDE DEF options, adapter
  <1>4. AskedPort = NumberParam(PortOf(options))
    <2>1. Plugins!GetParam(Plugins!ParameterString(options), "port", DefaultPort) = PortOf(options)
      BY <1>3, PortIsTheLast
    <2>2. AskedPort = NumberParam(Plugins!GetParam(Plugins!ParameterString(options), "port",
                                                   DefaultPort))
      BY <1>3 DEF AskedPort, Parameters
    <2>3. QED
      BY <2>1, <2>2
  <1>5. libraries \in Seq(Library)
    BY DEF LineInv, ToolOK, Library
  <1>6. PICK i \in DOMAIN libraries :
          /\ plugin = {libraries[i]}
          /\ {j \in DOMAIN libraries : Wants(libraries[j], {adapter})} = {i}
    <2>1. plugin = Plugins!LoadAdapter(libraries, adapter)
      BY <1>1, <1>2
    <2>2. Plugins!LoadAdapter(libraries, adapter) # {}
      BY <1>1, <2>1
    <2>3. PICK i \in DOMAIN libraries :
            /\ Plugins!LoadAdapter(libraries, adapter) = {libraries[i]}
            /\ {j \in DOMAIN libraries : Wants(libraries[j], {adapter})} = {i}
      BY <1>5, <2>2, LoadAdapterLoads
    <2>4. QED
      BY <2>1, <2>3
  <1>7. named = {i}
    BY <1>6 DEF Wants
  <1>8. Cardinality(named) = 1
    BY <1>7, FS_Singleton
  <1> HIDE DEF asked
  <1>9. ASSUME libraries[i].name \in {"udp_adapter", "tcp_adapter"}, ~asked.minus, ~asked.hex
        PROVE port = asked.number % 2^Width.uint16
    <2>1. HasPort
      BY <1>6, <1>9 DEF HasPort
    <2>5. NumberParam(PortOf(options)) = Stoull(asked)
      BY <1>9 DEF NumberParam, asked
    <2>2. PICK n \in Stoull(asked) : port = n % 2^Width.uint16
      BY <1>1, <1>4, <2>1, <2>5
    <2>3. n = asked.number
      BY <1>9, <2>2 DEF Stoull
    <2>4. QED
      BY <2>2, <2>3
  <1>10. QED
    BY <1>6, <1>7, <1>8, <1>9 DEF ControllerIsAsked, asked, options, adapter

(* What can_send sends *)
LEMMA SmallStays ==
  ASSUME NEW n \in Nat, NEW m \in Nat, n < m
  PROVE n % m = n
  OBVIOUS

(* No words, no numbers *)
LEMMA NoNumbers ==
  ASSUME NEW name, WordsOf(name) = <<>>
  PROVE Numbers(name) = <<>>
  <1>1. Numbers(name) \in [1..0 -> {}]
    BY DEF Numbers
  <1>2. Numbers(name) \in Seq({})
    BY <1>1
  <1>3. Len(Numbers(name)) = 0
    BY <1>1, <1>2, LenProperties
  <1>4. QED
    BY <1>2, <1>3, EmptySeq

LEMMA PowersOfWidths ==
  \A type \in DOMAIN Width : 2^Width[type] \in Nat \ {0}
  <1>1. 2^Width.uint64 \in Int \/ 2^Width.uint64 \notin Int
    OBVIOUS
  <1>2. QED
    BY ArgParserAssumption

LEMMA MessageMeans ==
  ASSUME LineInv, SessionInv, tool = "can_send", output # <<>>,
         Positive("msg_id"), Positive("msg_data"), Numbers("msg_id")[1] < 2^Width.uint16
  PROVE output = << [id |-> Numbers("msg_id")[1],
                     extended |-> \E i \in Options : argv[i].text = "--extended",
                     rtr |-> \E i \in Options : argv[i].text = "--rtr",
                     data |-> Numbers("msg_data")] >>
  <1>1. parsing = "parsed" /\ output = <<Message>>
    BY DEF SessionInv, OutputInv
  <1>2. AreRows(AdapterRows \union SendRows)
    BY ToolRows DEF LineInv
  <1>3. Takes("msg_id", {"uint32"}) /\ Takes("msg_data", {"uint8"})
    <2>1. RowsTake(AdapterRows, "msg_id", {"uint32"}) /\ RowsTake(AdapterRows, "msg_data", {"uint8"})
      BY AdapterRowsTake DEF RowsTake
    <2>2. QED
      BY <1>2, <2>1, OtherRowsTake, BothTake
  <1>4. {"uint32"} \in SUBSET DOMAIN Width /\ {"uint8"} \in SUBSET DOMAIN Width
    BY ArgParserAssumption
  <1>5. Given("msg_id")
    <2>1. PICK r \in AdapterRows \union SendRows : r.mandatory /\ r.name = "msg_id"
      BY RowsAsk
    <2>2. PICK a \in DOMAIN args : args[a] = r
      BY <1>2 DEF AreRows
    <2>3. QED
      BY <1>1, <2>1, <2>2, MandatoryGiven
  <1>6. /\ Value("msg_id") = Numbers("msg_id")[1] /\ 1 \in DOMAIN Numbers("msg_id")
        /\ \A k \in DOMAIN Numbers("msg_id") :
             Numbers("msg_id")[k] \in 0..(2^Width["uint32"] - 1)
    <2>1. PICK last \in Options :
             /\ Of(last).name = "msg_id" /\ Of(last).type \in {"uint32"}
             /\ \A k \in DOMAIN Numbers("msg_id") :
                  Numbers("msg_id")[k] \in 0..(2^Width[Of(last).type] - 1)
      BY <1>1, <1>3, <1>4, <1>5, NumbersGiven
    <2>2. QED
      BY <1>1, <1>3, <1>4, <1>5, <2>1, NumbersGiven
  <1>7. ValueAs("uint16", "msg_id") = Numbers("msg_id")[1]
    <2>1. 2^Width["uint32"] \in Nat /\ 2^Width["uint16"] \in Nat
      BY PowersOfWidths, ArgParserAssumption
    <2>2. Numbers("msg_id")[1] \in Nat
      BY <1>6, <2>1
    <2>3. Value("msg_id") % 2^Width["uint16"] = Numbers("msg_id")[1]
      BY <1>6, <2>1, <2>2, SmallStays
    <2>4. QED
      BY <2>3 DEF ValueAs, Value
  <1>8. Values("msg_data") = Numbers("msg_data")
    <2>1. CASE Given("msg_data")
      BY <1>1, <1>3, <1>4, <2>1, NumbersGiven
    <2>2. CASE ~Given("msg_data")
      <3>1. WordsOf("msg_data") = <<>> /\ Values("msg_data") = <<>>
        BY <1>1, <2>2, ValuesTell DEF Values
      <3>2. QED
        BY <3>1, NoNumbers
    <2>3. QED
      BY <2>1, <2>2
  <1>9. /\ Given("extended") <=> \E i \in Options : argv[i].text = "--extended"
        /\ Given("rtr") <=> \E i \in Options : argv[i].text = "--rtr"
    <2>1. \A a \in DOMAIN args : /\ args[a].name = "extended" <=> args[a].option = "--extended"
                                 /\ args[a].name = "rtr" <=> args[a].option = "--rtr"
      BY <1>2, RowsAsk, AdapterRowsTake DEF AreRows
    <2>2. Given("extended") <=> \E i \in Options : argv[i].text = "--extended"
      BY <1>1, <2>1, FlagGiven
    <2>3. Given("rtr") <=> \E i \in Options : argv[i].text = "--rtr"
      BY <1>1, <2>1, FlagGiven
    <2>4. QED
      BY <2>2, <2>3
  <1>10. Message = [id |-> Numbers("msg_id")[1],
                    extended |-> \E i \in Options : argv[i].text = "--extended",
                    rtr |-> \E i \in Options : argv[i].text = "--rtr",
                    data |-> Numbers("msg_data")]
    <2> DEFINE E == \E i \in Options : argv[i].text = "--extended"
               R == \E i \in Options : argv[i].text = "--rtr"
    <2>1. Given("extended") = E /\ Given("rtr") = R
      <3>1. Given("extended") \in BOOLEAN /\ Given("rtr") \in BOOLEAN
        BY DEF Given
      <3>2. E \in BOOLEAN /\ R \in BOOLEAN
        BY Zenon
      <3>3. (Given("extended") <=> E) /\ (Given("rtr") <=> R)
        BY <1>9
      <3> HIDE DEF E, R
      <3>4. QED
        BY <3>1, <3>2, <3>3, Alike
    <2> HIDE DEF E, R
    <2>2. Message = [id |-> ValueAs("uint16", "msg_id"), extended |-> Given("extended"),
                     rtr |-> Given("rtr"), data |-> Values("msg_data")]
      BY Zenon DEF Message
    <2>3. Message = [id |-> Numbers("msg_id")[1], extended |-> E, rtr |-> R,
                     data |-> Numbers("msg_data")]
      BY <1>7, <1>8, <2>1, <2>2, Zenon
    <2>4. QED
      BY <2>3, Zenon DEF E, R
  <1>11. QED
    BY <1>1, <1>10
-----------------------------------------------------------------------------
TransferIsAsked ==
  LET bytes == WordsOf("data_bytes")
      text == WordsOf("data_string")
  IN /\ output[1].read = \E i \in Options : argv[i].text = "--read"
     /\ <<output[1].client, output[1].server, output[1].index, output[1].subindex>> =
        <<Numbers("client_sdo_id")[1], Numbers("server_sdo_id")[1],
          Numbers("obd_index")[1], Numbers("obd_subindex")[1]>>
     /\ output[1].data = CASE bytes # <<>> -> Numbers("data_bytes")
                           [] bytes = <<>> /\ text # <<>> -> Characters[text[1].text]
                           [] OTHER -> <<>>

SdoNames == {"client_sdo_id", "server_sdo_id", "obd_index", "obd_subindex"}

LEMMA TransferMeans ==
  ASSUME LineInv, SessionInv, tool = "can_sdo", output # <<>>,
         \A name \in SdoNames \union {"data_bytes"} : Positive(name)
  PROVE TransferIsAsked
  <1>1. parsing = "parsed" /\ output = <<Transfer>> /\ AreRows(AdapterRows \union SdoRows)
    BY ToolRows DEF SessionInv, OutputInv, LineInv
  <1>2. ASSUME NEW name \in SdoNames
        PROVE Value(name) = Numbers(name)[1]
    <2>1. PICK type \in {"uint8", "uint16"} : RowsTake(SdoRows, name, {type})
      BY OtherRowsTake DEF SdoNames
    <2>2. RowsTake(AdapterRows, name, {type})
      BY AdapterRowsTake DEF RowsTake, SdoNames
    <2>3. Takes(name, {type})
      BY <1>1, <2>1, <2>2, BothTake
    <2>4. Given(name)
      <3>1. PICK r \in AdapterRows \union SdoRows : r.mandatory /\ r.name = name
        BY RowsAsk DEF SdoNames
      <3>2. PICK a \in DOMAIN args : args[a] = r
        BY <1>1 DEF AreRows
      <3>3. QED
        BY <1>1, <3>1, <3>2, MandatoryGiven
    <2>5. {type} \in SUBSET DOMAIN Width
      BY ArgParserAssumption
    <2>6. QED
      BY <1>1, <2>3, <2>4, <2>5, NumbersGiven
  <1>3. /\ Given("data_bytes") <=> WordsOf("data_bytes") # <<>>
        /\ Given("data_bytes") => Values("data_bytes") = Numbers("data_bytes")
    <2>1. Takes("data_bytes", {"uint8"}) /\ {"uint8"} \in SUBSET DOMAIN Width
      <3>1. RowsTake(AdapterRows, "data_bytes", {"uint8"})
        BY AdapterRowsTake DEF RowsTake
      <3>2. QED
        BY <1>1, <3>1, OtherRowsTake, BothTake, ArgParserAssumption
    <2>2. CASE Given("data_bytes")
      BY <1>1, <2>1, <2>2, NumbersGiven
    <2>3. CASE ~Given("data_bytes")
      BY <1>1, <2>3, ValuesTell
    <2>4. QED
      BY <2>2, <2>3
  <1>4. /\ Given("data_string") <=> WordsOf("data_string") # <<>>
        /\ Given("data_string") => Value("data_string") = WordsOf("data_string")[1].text
    <2>1. Takes("data_string", {"string"})
      <3>1. RowsTake(AdapterRows, "data_string", {"string"})
        BY AdapterRowsTake DEF RowsTake
      <3>2. QED
        BY <1>1, <3>1, OtherRowsTake, BothTake
    <2>2. CASE Given("data_string")
      BY <1>1, <2>1, <2>2, TextGiven
    <2>3. CASE ~Given("data_string")
      BY <1>1, <2>3, ValuesTell
    <2>4. QED
      BY <2>2, <2>3
  <1>5. Given("read_mode") <=> \E i \in Options : argv[i].text = "--read"
    <2>1. \A a \in DOMAIN args : args[a].name = "read_mode" <=> args[a].option = "--read"
      BY <1>1, RowsAsk, AdapterRowsTake DEF AreRows
    <2>2. QED
      BY <1>1, <2>1, FlagGiven
  <1>6. output[1] = Transfer
    BY <1>1
  <1>7. output[1].read = \E i \in Options : argv[i].text = "--read"
    <2> DEFINE E == \E i \in Options : argv[i].text = "--read"
    <2>1. E \in BOOLEAN
      BY Zenon
    <2>2. Given("read_mode") \in BOOLEAN
      BY DEF Given
    <2>3. Given("read_mode") <=> E
      BY <1>5
    <2> HIDE DEF E
    <2>4. output[1].read = E
      <3>1. Transfer.read = Given("read_mode")
        BY DEF Transfer
      <3>2. Given("read_mode") = E
        BY <2>1, <2>2, <2>3, Alike
      <3>3. QED
        BY <1>6, <3>1, <3>2, Zenon
    <2>5. QED
      BY <2>4, Zenon DEF E
  <1>8. /\ output[1].client = Numbers("client_sdo_id")[1]
        /\ output[1].server = Numbers("server_sdo_id")[1]
        /\ output[1].index = Numbers("obd_index")[1]
        /\ output[1].subindex = Numbers("obd_subindex")[1]
    BY <1>2, <1>6 DEF Transfer, SdoNames
  <1>9. output[1].data = CASE WordsOf("data_bytes") # <<>> -> Numbers("data_bytes")
             [] WordsOf("data_bytes") = <<>> /\ WordsOf("data_string") # <<>> ->
                  Characters[WordsOf("data_string")[1].text]
             [] OTHER -> <<>>
    BY <1>3, <1>4, <1>6 DEF Transfer
  <1>10. QED
    BY <1>7, <1>8, <1>9, Zenon DEF TransferIsAsked

(* The port can_server listens on *)
LEMMA PortMeans ==
  ASSUME LineInv, SessionInv, tool = "can_server", port # 0, Positive("port"),
         \A i \in Options : argv[i].text # "--timeout"
  PROVE port = IF WordsOf("port") = <<>> THEN WordOf(DefaultPort).number ELSE Numbers("port")[1]
  <1>1. parsing = "parsed" /\ port = ServerPort /\ AreRows(ServerRows) /\ LineOK
    BY ToolRows DEF SessionInv, OutputInv, LineInv, IInv
  <1>2. 2^Width["uint16"] \in Nat \ {0}
    BY PowersOfWidths, ArgParserAssumption
  <1>3. CASE Given("port")
    <2>1. Takes("port", {"uint16", "uint32"}) /\ {"uint16", "uint32"} \in SUBSET DOMAIN Width
      BY <1>1, OtherRowsTake, TakesFromRows, ArgParserAssumption
    <2>2. PICK last \in Options :
             /\ Of(last).name = "port"
             /\ \A k \in DOMAIN Numbers("port") :
                  Numbers("port")[k] \in 0..(2^Width[Of(last).type] - 1)
      BY <1>1, <1>3, <2>1, NumbersGiven
    <2>3. Of(last).option # "--timeout"
      BY <1>1, OptionHasText
    <2>4. Of(last).type = "uint16"
      <3>1. PICK a \in DOMAIN args : Of(last) = args[a]
        BY <1>1, OptionHasText
      <3>2. QED
        BY <1>1, <2>2, <2>3, <3>1, RowsAsk DEF AreRows
    <2>5. /\ WordsOf("port") # <<>> /\ Value("port") = Numbers("port")[1]
          /\ Numbers("port")[1] \in 0..(2^Width["uint16"] - 1)
      BY <1>1, <1>3, <2>1, <2>2, <2>4, NumbersGiven
    <2>6. Numbers("port")[1] \in Nat /\ Numbers("port")[1] < 2^Width["uint16"]
      BY <1>2, <2>5
    <2>7. Value("port") % 2^Width["uint16"] = Numbers("port")[1]
      BY <1>2, <2>5, <2>6, SmallStays
    <2>8. port = Numbers("port")[1]
      BY <1>1, <1>3, <2>7 DEF ServerPort, ValueAs, Value
    <2>9. QED
      BY <2>5, <2>8
  <1>4. CASE ~Given("port")
    <2>1. WordsOf("port") = <<>>
      BY <1>1, <1>4, ValuesTell
    <2>2. WordOf(DefaultPort).number \in 0..(2^Width["uint16"] - 1)
      <3>1. /\ \E w \in Words : w.text = DefaultPort
            /\ \A w \in Words : w.text = DefaultPort => w.number \in 0..(2^Width.uint16 - 1)
        BY ToolsAssumption
      <3> DEFINE w == CHOOSE w \in Words : w.text = DefaultPort
      <3>2. w \in Words /\ w.text = DefaultPort
        BY <3>1, Zenon
      <3>3. WordOf(DefaultPort) = w
        BY <3>1 DEF WordOf
      <3> HIDE DEF w
      <3>4. QED
        BY <3>1, <3>2, <3>3
    <2>3. WordOf(DefaultPort).number \in Nat /\ WordOf(DefaultPort).number < 2^Width["uint16"]
      BY <1>2, <2>2
    <2>4. WordOf(DefaultPort).number % 2^Width["uint16"] = WordOf(DefaultPort).number
      BY <1>2, <2>3, SmallStays
    <2>5. QED
      BY <1>1, <1>4, <2>1, <2>4 DEF ServerPort
  <1>5. QED
    BY <1>3, <1>4

(* What can_adapter shows *)
LEMMA AdaptersMean ==
  ASSUME LineInv, SessionInv, tool = "can_adapter", output # <<>>
  PROVE output = [i \in DOMAIN Adapters |-> Adapters[i].name]
  <1>1. parsing = "parsed" /\ output = Shown /\ AreRows(AdapterToolRows)
    BY ToolRows DEF SessionInv, OutputInv, LineInv
  <1>2. libraries \in Seq(Library) /\ \A l \in Range(libraries) : l.type = "can_adapter" => l.loads
    BY DEF LineInv, ToolOK, Library
  <1> DEFINE names == {w.text : w \in Range(WordsOf("list_adapters"))}
             T == {l \in Range(libraries) :
                     l.type = "can_adapter" /\ (names = {} \/ l.name \in names)}
             wanted == IF Given("list_adapters") THEN Range(Values("list_adapters"))
                       ELSE {library.name : library \in Range(libraries)}
  <1>3. \A l \in Range(libraries) : l \in T <=> Wants(l, wanted)
    <2>1. CASE Given("list_adapters")
      <3>1. Takes("list_adapters", {"string"})
        BY <1>1, OtherRowsTake, TakesFromRows
      <3>2. wanted = names /\ WordsOf("list_adapters") # <<>>
        BY <1>1, <2>1, <3>1, TextGiven
      <3>3. names # {}
        <4>1. PICK last \in Options : Tells("list_adapters", last)
          BY <1>1, <2>1, ValuesTell
        <4>2. WordsOf("list_adapters") \in Seq(CommandWord)
          BY <4>1 DEF Tells
        <4>3. Len(WordsOf("list_adapters")) \in Nat \ {0}
          BY <3>2, <4>2, EmptySeq
        <4>4. 1 \in DOMAIN WordsOf("list_adapters")
          BY <4>2, <4>3, LenProperties
        <4>5. QED
          BY <4>4 DEF Range
      <3> HIDE DEF names
      <3>4. QED
        BY <1>2, <3>2, <3>3 DEF Wants
    <2>2. CASE ~Given("list_adapters")
      <3>1. WordsOf("list_adapters") = <<>>
        BY <1>1, <2>2, ValuesTell
      <3>2. names = {}
        BY <3>1 DEF Range
      <3>3. \A l \in Range(libraries) : l.name \in wanted
        BY <2>2
      <3> HIDE DEF names
      <3>4. QED
        BY <1>2, <3>2, <3>3 DEF Wants
    <2>3. QED
      BY <2>1, <2>2
  <1> HIDE DEF T, wanted
  <1>4. Plugins!LoadPlugins(libraries, wanted).plugins = Those(libraries, T)
    BY <1>2, <1>3, LoadPluginsLists
  <1>5. Adapters = Those(libraries, T)
    BY Zenon DEF Adapters, T
  <1>6. Shown = IF Plugins!LoadPlugins(libraries, wanted).ret
                THEN [i \in DOMAIN Adapters |-> Adapters[i].name] ELSE <<>>
    <2> DEFINE res == Plugins!LoadPlugins(libraries, wanted)
    <2>1. Shown = IF res.ret THEN [i \in DOMAIN res.plugins |-> res.plugins[i].name] ELSE <<>>
      BY DEF Shown, wanted, Plugins!LoadAdapters, Plugins!LoadAll, Plugins!Range, Range
    <2>2. res.plugins = Adapters
      BY <1>4, <1>5
    <2> HIDE DEF res
    <2>3. Shown = IF res.ret THEN [i \in DOMAIN Adapters |-> Adapters[i].name] ELSE <<>>
      BY <2>1, <2>2
    <2>4. QED
      BY <2>3 DEF res
  <1>7. QED
    BY <1>1, <1>6

LEMMA SessionMeans == LineInv /\ SessionInv => SessionIsTheLine
  <1> SUFFICES ASSUME LineInv, SessionInv
               PROVE SessionIsTheLine
    OBVIOUS
  <1>1. controller # "none" => ControllerIsAsked
    BY ControllerMeans
  <1>2. (tool = "can_sdo" /\ output # <<>>
          /\ \A name \in {"client_sdo_id", "server_sdo_id", "obd_index", "obd_subindex",
                          "data_bytes"} : Positive(name)) => TransferIsAsked
    BY TransferMeans DEF SdoNames
  <1>3. QED
    BY <1>1, <1>2, MessageMeans, PortMeans, AdaptersMean, Zenon
      DEF SessionIsTheLine, ControllerIsAsked, TransferIsAsked

(* A session is the one the command line asks for. *)
THEOREM ToolsDoAsAsked == ToolSpec => []SessionIsTheLine
  <1>1. ToolOK /\ ToolInit => LineInv /\ SessionInv
    BY InitLine, InitSession
  <1>2. (LineInv /\ SessionInv) /\ [Next]_vars => (LineInv /\ SessionInv)'
    BY NextLine, NextSession
  <1>3. QED
    BY <1>1, <1>2, SessionMeans, PTL DEF ToolSpec
-----------------------------------------------------------------------------
(* 4. The traffic.  `id & mask`, bit by bit                                *)

(* Powers of two are numbers, each twice the one before. *)
LEMMA PowersUpTo ==
  ASSUME NEW n \in Nat, 2^0 = 1, \A i \in 0..n : 2^i \in Nat /\ 2^(i + 1) = 2 * 2^i
  PROVE /\ \A i \in 0..n : 2^i \in Nat \ {0}
        /\ \A i \in 1..n : 2^i = 2 * 2^(i - 1)
  <1>1. \A i \in 1..n : 2^i = 2 * 2^(i - 1)
    <2>1. ASSUME NEW i \in 1..n
          PROVE 2^i = 2 * 2^(i - 1)
      <3>1. i - 1 \in 0..n /\ (i - 1) + 1 = i
        OBVIOUS
      <3>2. 2^((i - 1) + 1) = 2 * 2^(i - 1)
        BY <3>1
      <3>3. QED
        BY <3>1, <3>2
    <2>2. QED
      BY <2>1
  <1> DEFINE S == {i \in 0..n : 2^i # 0}
  <1>2. 0 \in S
    OBVIOUS
  <1>3. ASSUME NEW k \in 1..n, k - 1 \in S
        PROVE k \in S
    <2>1. 2^(k - 1) # 0 /\ 2^(k - 1) \in Nat /\ k \in 0..n
      BY <1>3
    <2>2. 2^k = 2 * 2^(k - 1)
      BY <1>1
    <2>3. QED
      BY <2>1, <2>2
  <1> HIDE DEF S
  <1>4. \A k \in 0..n : k \in S
    BY <1>2, <1>3, Reaches
  <1>5. QED
    BY <1>1, <1>4 DEF S

(* The powers of two up to the width of an identifier *)
LEMMA Powers ==
  /\ IdBits \in Nat /\ 2^0 = 1
  /\ \A i \in 0..IdBits : 2^i \in Nat \ {0}
  /\ \A i \in 1..IdBits : 2^i = 2 * 2^(i - 1)
  <1>1. /\ IdBits \in Nat /\ 2^0 = 1
        /\ \A i \in 0..IdBits : 2^i \in Nat /\ 2^(i + 1) = 2 * 2^i
    BY ToolsAssumption
  <1>2. QED
    BY <1>1, PowersUpTo

(* One more bit of a number *)
LEMMA Divides ==
  ASSUME NEW n \in Nat, NEW p \in Nat \ {0}
  PROVE /\ n \div p \in Nat /\ n % p \in 0..(p - 1)
        /\ n = p * (n \div p) + (n % p)
  OBVIOUS

LEMMA RemainderIs ==
  ASSUME NEW n \in Nat, NEW p \in Nat \ {0}, NEW q \in Nat, NEW r \in 0..(p - 1), n = p * q + r
  PROVE n % p = r
  <1>1. /\ n \div p \in Nat /\ n % p \in 0..(p - 1)
        /\ n = p * (n \div p) + (n % p)
    BY Divides
  <1> DEFINE d == n \div p
             s == n % p
  <1> HIDE DEF d, s
  <1>2. d \in Nat /\ s \in 0..(p - 1) /\ p * d + s = p * q + r
    BY <1>1 DEF d, s
  <1>3. p * (d - q) = r - s
    BY <1>2
  <1>4. d = q
    <2>1. CASE d > q
      <3>1. p * (d - q) >= p
        BY <1>2, <2>1
      <3>2. QED
        BY <1>2, <1>3, <3>1
    <2>2. CASE d < q
      <3>1. p * (q - d) >= p
        BY <1>2, <2>2
      <3>2. p * (q - d) = s - r
        BY <1>2
      <3>3. QED
        BY <1>2, <3>1, <3>2
    <2>3. QED
      BY <1>2, <2>1, <2>2
  <1>5. s = r
    BY <1>2, <1>4
  <1>6. QED
    BY <1>5 DEF s

LEMMA NextBit ==
  ASSUME NEW n \in Nat, NEW p \in Nat \ {0}
  PROVE n % (2 * p) = (n % p) + ((n \div p) % 2) * p
  <1> DEFINE q == n \div p
             r == n % p
             s == q \div 2
             c == q % 2
  <1>1. q \in Nat /\ r \in 0..(p - 1) /\ n = p * q + r
    BY Divides
  <1> HIDE DEF q, r
  <1>2. s \in Nat /\ c \in 0..1 /\ q = 2 * s + c
    BY <1>1
  <1> HIDE DEF s, c
  <1>3. n = (2 * p) * s + (c * p + r)
    <2>1. n = p * (2 * s + c) + r
      BY <1>1, <1>2
    <2>2. p * (2 * s + c) = (2 * p) * s + c * p
      BY <1>2
    <2>3. QED
      BY <1>1, <1>2, <2>1, <2>2
  <1>4. c * p + r \in 0..(2 * p - 1)
    <2>1. CASE c = 0
      BY <1>1, <2>1
    <2>2. CASE c = 1
      BY <1>1, <2>2
    <2>3. QED
      BY <1>2, <2>1, <2>2
  <1>5. n % (2 * p) = c * p + r
    <2>1. 2 * p \in Nat \ {0}
      OBVIOUS
    <2>2. QED
      BY <1>2, <1>3, <1>4, <2>1, RemainderIs
  <1>6. QED
    BY <1>1, <1>2, <1>5 DEF q, r, s, c

LEMMA BitIs ==
  ASSUME NEW n \in Nat, NEW i \in 0..IdBits
  PROVE F!Bit(n, i) \in 0..1
  <1>1. n \div 2^i \in Nat
    BY Powers, Divides
  <1>2. QED
    BY <1>1, Divides DEF F!Bit

(* The bits of id & mask *)
LEMMA AndRuns ==
  ASSUME NEW a \in Nat, NEW m \in Nat
  PROVE \E r \in [0..IdBits -> Nat] :
          /\ r[0] = 0
          /\ \A k \in 1..IdBits :
               r[k] = r[k - 1] + F!Bit(a, k - 1) * F!Bit(m, k - 1) * 2^(k - 1)
          /\ r[IdBits] = F!And(a, m)
  <1> DEFINE Bits2(k) == F!Bit(a, k - 1) * F!Bit(m, k - 1) * 2^(k - 1)
             Step == [p \in (1..IdBits) \X Nat |-> p[2] + Bits2(p[1])]
             Sums(low) == low = [i \in 0..IdBits |->
                                  IF i = 0 THEN 0
                                  ELSE low[i - 1] + F!Bit(a, i - 1) * F!Bit(m, i - 1) * 2^(i - 1)]
             low == CHOOSE low : Sums(low)
  <1>1. \A k \in 1..IdBits : Bits2(k) \in Nat
    <2>1. ASSUME NEW k \in 1..IdBits
          PROVE Bits2(k) \in Nat
      <3>1. k - 1 \in 0..IdBits
        BY Powers
      <3>2. F!Bit(a, k - 1) \in Nat /\ F!Bit(m, k - 1) \in Nat /\ 2^(k - 1) \in Nat
        BY <3>1, BitIs, Powers
      <3>3. QED
        BY <3>2
    <2>2. QED
      BY <2>1
  <1> HIDE DEF Bits2
  <1>2. Step \in [(1..IdBits) \X Nat -> Nat]
    BY <1>1
  <1>3. Runs(IdBits, Nat, 0, Step) # {}
    BY <1>2, Powers, RunExists
  <1>4. PICK r \in [0..IdBits -> Nat] :
          r[0] = 0 /\ \A k \in 1..IdBits : r[k] = Step[<<k, r[k - 1]>>]
    BY <1>3 DEF Runs
  <1>5. \A k \in 1..IdBits : r[k] = r[k - 1] + Bits2(k)
    <2>1. ASSUME NEW k \in 1..IdBits
          PROVE r[k] = r[k - 1] + Bits2(k)
      <3>1. k - 1 \in 0..IdBits
        BY Powers
      <3>2. <<k, r[k - 1]>> \in (1..IdBits) \X Nat
        BY <1>4, <3>1
      <3>3. QED
        BY <1>4, <3>2
    <2>2. QED
      BY <2>1
  <1>6. \E g : Sums(g)
    <2>1. r = [i \in 0..IdBits |->
                 IF i = 0 THEN 0
                 ELSE r[i - 1] + F!Bit(a, i - 1) * F!Bit(m, i - 1) * 2^(i - 1)]
      BY <1>4, <1>5, Powers DEF Bits2
    <2>2. QED
      BY <2>1
  <1>7. Sums(low)
    BY <1>6, Zenon
  <1>8. F!And(a, m) = low[IdBits]
    BY Zenon DEF F!And
  <1> HIDE DEF low
  <1> DEFINE S == {k \in 0..IdBits : r[k] = low[k]}
  <1>9. 0 \in S
    BY <1>4, <1>7, Powers
  <1>10. ASSUME NEW k \in 1..IdBits, k - 1 \in S
         PROVE k \in S
    <2>1. r[k - 1] = low[k - 1] /\ k \in 0..IdBits /\ k # 0
      BY <1>10
    <2>2. low[k] = low[k - 1] + F!Bit(a, k - 1) * F!Bit(m, k - 1) * 2^(k - 1)
      BY <1>7, <2>1
    <2>3. QED
      BY <1>5, <2>1, <2>2 DEF Bits2
  <1> HIDE DEF S
  <1>11. \A k \in 0..IdBits : k \in S
    BY <1>9, <1>10, Powers, Reaches
  <1>12. r[IdBits] = low[IdBits]
    BY <1>11, Powers DEF S
  <1>13. QED
    BY <1>4, <1>5, <1>8, <1>12 DEF Bits2

LEMMA AndIs ==
  ASSUME NEW a \in Id, NEW m \in Id, NEW v \in Id
  PROVE F!And(a, m) = v <=>
          \A b \in 0..(IdBits - 1) : F!Bit(v, b) = F!Bit(a, b) * F!Bit(m, b)
  <1>1. a \in Nat /\ m \in Nat /\ v \in Nat /\ v < 2^IdBits /\ 2^IdBits \in Nat \ {0}
        /\ IdBits \in Nat
    BY Powers DEF Id
  <1>2. PICK r \in [0..IdBits -> Nat] :
          /\ r[0] = 0
          /\ \A k \in 1..IdBits :
               r[k] = r[k - 1] + F!Bit(a, k - 1) * F!Bit(m, k - 1) * 2^(k - 1)
          /\ r[IdBits] = F!And(a, m)
    BY <1>1, AndRuns
  <1> DEFINE Equal(b) == F!Bit(v, b) = F!Bit(a, b) * F!Bit(m, b)
             S == {k \in 0..IdBits : /\ r[k] < 2^k
                                     /\ r[k] = v % 2^k <=> \A b \in 0..(k - 1) : Equal(b)}
  <1>3. 0 \in S
    <2>1. 2^0 = 1 /\ v % 1 = 0 /\ 0..(0 - 1) = {}
      BY <1>1, Powers
    <2> HIDE DEF Equal
    <2>2. QED
      BY <1>1, <1>2, <2>1
  <1>4. ASSUME NEW k \in 1..IdBits, k - 1 \in S
        PROVE k \in S
    <2> DEFINE p == 2^(k - 1)
               c == F!Bit(a, k - 1) * F!Bit(m, k - 1)
               d == F!Bit(v, k - 1)
    <2>1. k - 1 \in 0..IdBits /\ p \in Nat \ {0} /\ 2^k = 2 * p /\ k \in 0..IdBits
      BY <1>1, Powers
    <2>2. c \in 0..1 /\ d \in 0..1
      <3>1. F!Bit(a, k - 1) \in 0..1 /\ F!Bit(m, k - 1) \in 0..1 /\ d \in 0..1
        BY <1>1, <2>1, BitIs
      <3>2. QED
        BY <3>1
    <2>3. /\ r[k - 1] \in Nat /\ r[k - 1] < p
          /\ r[k - 1] = v % p <=> \A b \in 0..((k - 1) - 1) : Equal(b)
      BY <1>2, <1>4, <2>1
    <2>4. r[k] = r[k - 1] + c * p
      BY <1>2
    <2>5. v % 2^k = (v % p) + d * p
      <3>1. v % (2 * p) = (v % p) + ((v \div p) % 2) * p
        BY <1>1, <2>1, NextBit
      <3>2. QED
        BY <2>1, <3>1 DEF F!Bit
    <2>6. v % p \in 0..(p - 1)
      BY <1>1, <2>1, Divides
    <2>7. Equal(k - 1) <=> d = c
      OBVIOUS
    <2>8. 0..(k - 1) = 0..((k - 1) - 1) \union {k - 1}
      OBVIOUS
    <2>9. (\A b \in 0..(k - 1) : Equal(b)) <=> r[k - 1] = v % p /\ d = c
      <3> HIDE DEF Equal
      <3>1. QED
        BY <2>3, <2>7, <2>8
    <2> HIDE DEF p, c, d
    <2>10. r[k] < 2 * p /\ (r[k] = (v % p) + d * p <=> r[k - 1] = v % p /\ d = c)
      <3> DEFINE x == r[k - 1]
                 y == v % p
      <3>1. x \in Nat /\ x < p /\ y \in Nat /\ y < p
        BY <2>1, <2>3, <2>6
      <3>2. r[k] = x + c * p
        BY <2>4
      <3> HIDE DEF x, y
      <3>3. CASE c = 0 /\ d = 0
        BY <2>1, <3>1, <3>2, <3>3 DEF x, y
      <3>4. CASE c = 0 /\ d = 1
        BY <2>1, <3>1, <3>2, <3>4 DEF x, y
      <3>5. CASE c = 1 /\ d = 0
        BY <2>1, <3>1, <3>2, <3>5 DEF x, y
      <3>6. CASE c = 1 /\ d = 1
        BY <2>1, <3>1, <3>2, <3>6 DEF x, y
      <3>7. QED
        BY <2>2, <3>3, <3>4, <3>5, <3>6
    <2> HIDE DEF Equal
    <2>11. QED
      BY <2>1, <2>5, <2>9, <2>10
  <1> HIDE DEF S, Equal
  <1>5. \A k \in 0..IdBits : k \in S
    BY <1>1, <1>3, <1>4, Reaches
  <1>6. r[IdBits] = v % 2^IdBits <=> \A b \in 0..(IdBits - 1) : Equal(b)
    <2>1. IdBits \in S
      BY <1>1, <1>5
    <2>2. QED
      BY <2>1 DEF S
  <1>7. v % 2^IdBits = v
    BY <1>1, SmallStays
  <1>8. QED
    BY <1>2, <1>6, <1>7 DEF Equal
-----------------------------------------------------------------------------
Lists(kind, ids) == [kind : {kind.kind}, std : SUBSET Range(ids), ext : {{}}]
Filled(kind, ids) == FoldLeft(LAMBDA f, id : F!Add(f, id, FALSE), kind, ids)

(* The lists of can_dump are filled word by word. *)
LEMMA ListRuns ==
  ASSUME NEW E, NEW ids \in Seq(E), NEW kind \in {F!WhiteList, F!BlackList}
  PROVE \E r \in [0..Len(ids) -> Lists(kind, ids)] :
          /\ r[0] = kind
          /\ \A k \in 1..Len(ids) : r[k] = F!Add(r[k - 1], ids[k], FALSE)
          /\ r[Len(ids)] = Filled(kind, ids)
  <1> DEFINE n == Len(ids)
             base == kind
             Op(v, k) == F!Add(v, ids[k], FALSE)
             Step == [p \in (1..n) \X Lists(kind, ids) |-> Op(p[2], p[1])]
             Fold(h) == h = [s \in SUBSET (1..n) |->
                               IF s = {} THEN base ELSE Op(h[s \ {Max(s)}], Max(s))]
             h == CHOOSE h : Fold(h)
  <1>1. n \in Nat /\ DOMAIN ids = 1..n /\ base \in Lists(kind, ids)
    BY LenProperties DEF Lists, F!WhiteList, F!BlackList
  <1>2. ASSUME NEW v \in Lists(kind, ids), NEW k \in 1..n
        PROVE Op(v, k) \in Lists(kind, ids) /\ Step[<<k, v>>] = Op(v, k)
    <2>1. ids[k] \in Range(ids)
      BY <1>1 DEF Range
    <2>2. Op(v, k) \in Lists(kind, ids)
      BY <2>1 DEF Lists, F!Add, F!List
    <2>3. QED
      BY <2>2
  <1>3. Step \in [(1..n) \X Lists(kind, ids) -> Lists(kind, ids)]
    BY <1>2
  <1>4. Filled(kind, ids) = h[1..n]
    <2>1. DOMAIN ids = 1..n
      BY <1>1
    <2>2. QED
      BY <2>1, Zenon DEF Filled, FoldLeft, MapThenFoldSet, Max
  <1> HIDE DEF Op, Step, base, n
  <1>5. \E g : Fold(g)
    <2>1. Folds(n, Lists(kind, ids), base, Step) # {}
      BY <1>1, <1>3, FoldExists
    <2>2. PICK g \in [SUBSET (1..n) -> Lists(kind, ids)] :
            \A s \in SUBSET (1..n) :
              g[s] = IF s = {} THEN base ELSE Step[<<Max(s), g[s \ {Max(s)}]>>]
      BY <2>1 DEF Folds
    <2>3. ASSUME NEW s \in SUBSET (1..n)
          PROVE g[s] = IF s = {} THEN base ELSE Op(g[s \ {Max(s)}], Max(s))
      <3>1. CASE s = {}
        BY <2>2, <3>1
      <3>2. CASE s # {}
        <4>1. Max(s) \in 1..n /\ s \ {Max(s)} \in SUBSET (1..n)
          BY <1>1, <3>2, MaxIsGreatest
        <4>2. g[s \ {Max(s)}] \in Lists(kind, ids)
          BY <4>1
        <4>3. QED
          BY <1>2, <2>2, <3>2, <4>1, <4>2
      <3>3. QED
        BY <3>1, <3>2
    <2>4. g = [s \in SUBSET (1..n) |->
                 IF s = {} THEN base ELSE Op(g[s \ {Max(s)}], Max(s))]
      BY <2>3
    <2>5. QED
      BY <2>4
  <1>6. h = [s \in SUBSET (1..n) |-> IF s = {} THEN base ELSE Op(h[s \ {Max(s)}], Max(s))]
    BY <1>5, Zenon
  <1> HIDE DEF h
  <1>7. ASSUME NEW s \in (SUBSET (1..n)) \ {{}}, h[s \ {Max(s)}] \in Lists(kind, ids)
        PROVE h[s] = Step[<<Max(s), h[s \ {Max(s)}]>>]
    <2>1. Max(s) \in 1..n
      BY <1>1, MaxIsGreatest
    <2>2. h[s] = Op(h[s \ {Max(s)}], Max(s))
      BY <1>6
    <2>3. QED
      BY <1>2, <1>7, <2>1, <2>2
  <1>8. RunsTo(n, Lists(kind, ids), base, Step, h[1..n])
    <2>1. h[{}] = base
      BY <1>6
    <2>2. Unfolds(h, n, Lists(kind, ids), base, Step)
      BY <1>7, <2>1 DEF Unfolds
    <2>3. QED
      BY <1>1, <1>3, <2>2, FoldRuns
  <1>9. PICK r \in [0..n -> Lists(kind, ids)] :
           /\ r[0] = base /\ r[n] = h[1..n]
           /\ \A k \in 1..n : r[k] = Step[<<k, r[k - 1]>>]
    BY <1>8 DEF Runs, RunsTo
  <1>10. ASSUME NEW k \in 1..n
         PROVE r[k] = Op(r[k - 1], k)
    <2>1. k - 1 \in 0..n
      BY <1>1
    <2>2. r[k - 1] \in Lists(kind, ids)
      BY <1>9, <2>1
    <2>3. QED
      BY <1>2, <1>9, <2>2
  <1>11. QED
    BY <1>4, <1>9, <1>10 DEF n, base, Op

LEMMA FilledHolds ==
  ASSUME NEW E, NEW ids \in Seq(E), NEW kind \in {F!WhiteList, F!BlackList}
  PROVE Filled(kind, ids) = [kind |-> kind.kind, std |-> Range(ids), ext |-> {}]
  <1> DEFINE n == Len(ids)
  <1>1. PICK r \in [0..n -> Lists(kind, ids)] :
          /\ r[0] = kind
          /\ \A k \in 1..n : r[k] = F!Add(r[k - 1], ids[k], FALSE)
          /\ r[n] = Filled(kind, ids)
    BY ListRuns
  <1>2. n \in Nat /\ DOMAIN ids = 1..n
    BY LenProperties
  <1> DEFINE Upto(k) == {ids[j] : j \in 1..k}
             S == {k \in 0..n : r[k].std = Upto(k)}
  <1>3. 0 \in S
    BY <1>1, <1>2 DEF F!WhiteList, F!BlackList
  <1>4. ASSUME NEW k \in 1..n, k - 1 \in S
        PROVE k \in S
    <2>1. r[k - 1].std = Upto(k - 1) /\ k - 1 \in 0..n /\ r[k - 1] \in Lists(kind, ids)
      BY <1>1, <1>2, <1>4
    <2>2. r[k].std = r[k - 1].std \union {ids[k]}
      BY <1>1, <2>1 DEF F!Add, F!List, Lists
    <2>3. Upto(k) = Upto(k - 1) \union {ids[k]}
      <3>1. 1..k = (1..(k - 1)) \union {k}
        OBVIOUS
      <3>2. QED
        BY <3>1
    <2> HIDE DEF Upto
    <2>4. QED
      BY <1>2, <2>1, <2>2, <2>3
  <1> HIDE DEF S
  <1>5. \A k \in 0..n : k \in S
    BY <1>2, <1>3, <1>4, Reaches
  <1>6. r[n].std = Upto(n)
    BY <1>2, <1>5 DEF S
  <1>7. Upto(n) = Range(ids)
    BY <1>2 DEF Range
  <1>8. r[n] \in Lists(kind, ids)
    BY <1>1, <1>2
  <1>9. QED
    BY <1>1, <1>6, <1>7, <1>8 DEF Lists
-----------------------------------------------------------------------------
(* Of the changes that concern something, the last one counts. *)
LastIn(s, C, A) ==
  LET covering == {i \in DOMAIN s : s[i] \in C}
  IN covering # {} /\ s[Max(covering)] \in A

LEMMA LastOfNone ==
  ASSUME NEW C, NEW A
  PROVE ~LastIn(<<>>, C, A)
  BY DEF LastIn

LEMMA LastOfMore ==
  ASSUME NEW E, NEW s \in Seq(E), NEW e \in E, NEW C, NEW A
  PROVE LastIn(Append(s, e), C, A) <=> IF e \in C THEN e \in A ELSE LastIn(s, C, A)
  <1> DEFINE t == Append(s, e)
             n == Len(s)
             old == {i \in DOMAIN s : s[i] \in C}
             new == {i \in DOMAIN t : t[i] \in C}
  <1>1. /\ n \in Nat /\ DOMAIN s = 1..n /\ DOMAIN t = 1..(n + 1)
        /\ t[n + 1] = e /\ \A i \in 1..n : t[i] = s[i]
    BY LenProperties, AppendProperties
  <1> HIDE DEF t, n
  <1>2. CASE e \in C
    <2>1. new \in SUBSET (1..(n + 1)) /\ n + 1 \in new /\ n + 1 \in Nat
      BY <1>1, <1>2
    <2> HIDE DEF new
    <2>2. Max(new) \in new /\ n + 1 <= Max(new)
      BY <2>1, MaxIsGreatest
    <2>3. Max(new) = n + 1
      <3>1. Max(new) \in 1..(n + 1)
        BY <2>1, <2>2
      <3>2. QED
        BY <1>1, <2>2, <3>1
    <2>4. LastIn(t, C, A) <=> e \in A
      BY <1>1, <2>1, <2>3 DEF LastIn, new
    <2>5. QED
      BY <1>2, <2>4 DEF t
  <1>3. CASE e \notin C
    <2>1. new = old
      BY <1>1, <1>3
    <2>2. old # {} => Max(old) \in old /\ old \in SUBSET (1..n)
      <3>1. old \in SUBSET (1..n)
        BY <1>1
      <3> HIDE DEF old
      <3>2. QED
        BY <1>1, <3>1, MaxIsGreatest
    <2>3. old # {} => t[Max(old)] = s[Max(old)]
      <3> HIDE DEF old
      <3>1. QED
        BY <1>1, <2>2
    <2>4. LastIn(t, C, A) <=> LastIn(s, C, A)
      BY <2>1, <2>3 DEF LastIn
    <2>5. QED
      BY <1>3, <2>4 DEF t
  <1>4. QED
    BY <1>2, <1>3
-----------------------------------------------------------------------------
(* What a filter holds after its changes *)

ListOp == [op : {"add", "remove", "add_range", "remove_range"}, id : Id, to : Id,
           extended : BOOLEAN]
MaskOp == [op : {"add_mask", "remove_mask"}, id : Id, to : Id, extended : BOOLEAN]
FlagOp == [op : {"add_flag", "remove_flag"}, flag : {"std", "ext", "rtr"}]

LEMMA OpsTyped ==
  /\ \A kind \in {"white", "black"} : Ops[kind] \subseteq ListOp
  /\ Ops["mask"] \subseteq MaskOp /\ Ops["flags"] \subseteq FlagOp
  BY ToolsAssumption DEF ListOp, MaskOp, FlagOp

(* A filter holds what its changes have left. *)
ListFilter == [kind : {"white", "black"}, std : SUBSET Id, ext : SUBSET Id]
MaskFilter == [kind : {"mask"}, std : SUBSET (Id \X Id), ext : SUBSET (Id \X Id)]
FlagFilter == [kind : {"flags"}, flags : SUBSET {"std", "ext", "rtr"}]

Covering(msg) == {op \in ListOp : CoversId(op, msg)}
Adding == {op \in ListOp : op.op \in {"add", "add_range"}}
Changing(flag) == {op \in FlagOp : op.flag = flag}
Setting == {op \in FlagOp : op.op = "add_flag"}
Masking(extended, p, i) ==
  /\ ops[i].op = "add_mask" /\ ops[i].extended = extended /\ <<ops[i].id, ops[i].to>> = p
  /\ \A j \in DOMAIN ops : j > i => ops[j] # [ops[i] EXCEPT !.op = "remove_mask"]
Stopping(extended, p) == \E i \in DOMAIN ops : Masking(extended, p, i)

Ids == [id : Id, extended : BOOLEAN]

ListHolds(f) ==
  /\ f \in ListFilter /\ ops \in Seq(ListOp)
  /\ \A msg \in Ids : msg.id \in f[F!List(msg.extended)] <=> LastIn(ops, Covering(msg), Adding)
MaskHolds(f) ==
  /\ f \in MaskFilter /\ ops \in Seq(MaskOp)
  /\ \A extended \in BOOLEAN : \A p \in Id \X Id :
       p \in f[F!List(extended)] <=> Stopping(extended, p)
FlagHolds(f) ==
  /\ f \in FlagFilter /\ ops \in Seq(FlagOp)
  /\ \A flag \in {"std", "ext", "rtr"} : flag \in f.flags <=> LastIn(ops, Changing(flag), Setting)

Holds(f) == ListHolds(f) \/ MaskHolds(f) \/ FlagHolds(f)

LEMMA NewFilterHolds ==
  ASSUME NEW f \in NewFilters, ops = <<>>
  PROVE Holds(f)
  <1>1. ops \in Seq(ListOp) /\ ops \in Seq(MaskOp) /\ ops \in Seq(FlagOp)
    BY EmptySeq
  <1>2. CASE f \in {F!WhiteList, F!BlackList}
    <2>1. f \in ListFilter /\ \A extended \in BOOLEAN : f[F!List(extended)] = {}
      BY <1>2 DEF ListFilter, F!WhiteList, F!BlackList, F!List
    <2>2. \A msg : ~LastIn(ops, Covering(msg), Adding)
      BY LastOfNone
    <2>3. ListHolds(f)
      BY <1>1, <2>1, <2>2 DEF ListHolds, Ids
    <2>4. QED
      BY <2>3 DEF Holds
  <1>3. CASE f = F!IdMask
    <2>1. f \in MaskFilter /\ \A extended \in BOOLEAN : f[F!List(extended)] = {}
      BY <1>3 DEF MaskFilter, F!IdMask, F!List
    <2>2. \A extended, p : ~Stopping(extended, p)
      BY DEF Stopping
    <2>3. MaskHolds(f)
      BY <1>1, <2>1, <2>2 DEF MaskHolds
    <2>4. QED
      BY <2>3 DEF Holds
  <1>4. CASE f = F!Flags({})
    <2>1. f \in FlagFilter /\ f.flags = {}
      BY <1>4 DEF FlagFilter, F!Flags
    <2>2. \A flag : ~LastIn(ops, Changing(flag), Setting)
      BY LastOfNone
    <2>3. FlagHolds(f)
      BY <1>1, <2>1, <2>2 DEF FlagHolds
    <2>4. QED
      BY <2>3 DEF Holds
  <1>5. QED
    BY <1>2, <1>3, <1>4 DEF NewFilters

LEMMA ListChanges ==
  ASSUME NEW f, ListHolds(f), NEW op \in Ops[f.kind], ops' = Append(ops, op)
  PROVE ListHolds(Changed(f, op))'
  <1>1. op \in ListOp /\ f \in ListFilter /\ ops \in Seq(ListOp)
    BY OpsTyped DEF ListHolds, ListFilter
  <1> DEFINE g == Changed(f, op)
             other == op.op \in {"remove", "remove_range"}
             hit == IF op.op \in {"add", "remove"} THEN {op.id}
                    ELSE {id \in Id : F!RangeContains(F!IdRange(op.id, op.to), id)}
  <1>2. g = [f EXCEPT ![F!List(op.extended)] = IF op \in Adding THEN @ \union hit ELSE @ \ hit]
    <2>1. op.op \in {"add", "remove", "add_range", "remove_range"}
      BY <1>1 DEF ListOp
    <2>2. F!Id = Id
      BY DEF F!Id, Id
    <2>3. CASE op.op = "add"
      BY <1>1, <2>3 DEF Changed, F!Add, Adding
    <2>4. CASE op.op = "remove"
      BY <1>1, <2>4 DEF Changed, F!Remove, Adding
    <2>5. CASE op.op = "add_range"
      BY <1>1, <2>2, <2>5 DEF Changed, F!AddRange, Adding
    <2>6. CASE op.op = "remove_range"
      BY <1>1, <2>2, <2>6 DEF Changed, F!RemoveRange, Adding
    <2>7. QED
      BY <2>1, <2>3, <2>4, <2>5, <2>6
  <1>3. hit \in SUBSET Id
    BY <1>1 DEF ListOp
  <1>4. ASSUME NEW msg \in Ids
        PROVE op \in Covering(msg) <=> op.extended = msg.extended /\ msg.id \in hit
    <2>1. /\ op.id \in Int /\ op.to \in Int /\ msg.id \in Int /\ msg.id \in Id
          /\ op.op \in {"add", "remove", "add_range", "remove_range"}
      <3>1. Id \subseteq Int
        BY DEF Id
      <3>2. QED
        BY <1>1, <3>1 DEF ListOp, Ids
    <2>2. F!RangeContains(F!IdRange(op.id, op.to), msg.id) <=>
            (msg.id \in op.id..op.to \/ msg.id \in op.to..op.id)
      BY <2>1 DEF F!RangeContains, F!IdRange
    <2>3. QED
      BY <1>1, <2>1, <2>2 DEF Covering, CoversId
  <1> HIDE DEF hit, g
  <1>5. /\ g \in ListFilter
        /\ \A extended \in BOOLEAN : g[F!List(extended)] =
             IF extended # op.extended THEN f[F!List(extended)]
             ELSE IF op \in Adding THEN f[F!List(extended)] \union hit
             ELSE f[F!List(extended)] \ hit
    BY <1>1, <1>2, <1>3 DEF ListFilter, F!List, ListOp
  <1>6. ops' \in Seq(ListOp)
    BY <1>1, AppendProperties
  <1>7. ASSUME NEW msg \in Ids
        PROVE msg.id \in g[F!List(msg.extended)] <=> LastIn(ops', Covering(msg), Adding)
    <2>1. msg.id \in f[F!List(msg.extended)] <=> LastIn(ops, Covering(msg), Adding)
      BY DEF ListHolds
    <2>2. LastIn(ops', Covering(msg), Adding) <=>
            IF op \in Covering(msg) THEN op \in Adding ELSE LastIn(ops, Covering(msg), Adding)
      BY <1>1, LastOfMore
    <2>3. msg.extended \in BOOLEAN
      BY DEF Ids
    <2>4. QED
      BY <1>4, <1>5, <2>1, <2>2, <2>3
  <1>8. ListHolds(g)'
    BY <1>5, <1>6, <1>7 DEF ListHolds
  <1>9. QED
    BY <1>8 DEF g
-----------------------------------------------------------------------------
LEMMA FlagChanges ==
  ASSUME NEW f, FlagHolds(f), NEW op \in Ops[f.kind], ops' = Append(ops, op)
  PROVE FlagHolds(Changed(f, op))'
  <1>1. op \in FlagOp /\ f \in FlagFilter /\ ops \in Seq(FlagOp)
    BY OpsTyped DEF FlagHolds, FlagFilter
  <1> DEFINE g == Changed(f, op)
  <1>2. g = [f EXCEPT !.flags = IF op \in Setting THEN @ \union {op.flag} ELSE @ \ {op.flag}]
    <2>1. op.op \in {"add_flag", "remove_flag"}
      BY <1>1 DEF FlagOp
    <2>2. CASE op.op = "add_flag"
      BY <1>1, <2>2 DEF Changed, F!AddFlag, Setting
    <2>3. CASE op.op = "remove_flag"
      BY <1>1, <2>3 DEF Changed, F!RemoveFlag, Setting
    <2>4. QED
      BY <2>1, <2>2, <2>3
  <1> HIDE DEF g
  <1>3. g \in FlagFilter
        /\ g.flags = IF op \in Setting THEN f.flags \union {op.flag} ELSE f.flags \ {op.flag}
    BY <1>1, <1>2 DEF FlagFilter, FlagOp
  <1>4. ops' \in Seq(FlagOp)
    BY <1>1, AppendProperties
  <1>5. ASSUME NEW flag \in {"std", "ext", "rtr"}
        PROVE flag \in g.flags <=> LastIn(ops', Changing(flag), Setting)
    <2>1. flag \in f.flags <=> LastIn(ops, Changing(flag), Setting)
      BY DEF FlagHolds
    <2>2. LastIn(ops', Changing(flag), Setting) <=>
            IF op \in Changing(flag) THEN op \in Setting ELSE LastIn(ops, Changing(flag), Setting)
      BY <1>1, LastOfMore
    <2>3. op \in Changing(flag) <=> op.flag = flag
      BY <1>1 DEF Changing
    <2>4. QED
      BY <1>3, <2>1, <2>2, <2>3
  <1>6. FlagHolds(g)'
    BY <1>3, <1>4, <1>5 DEF FlagHolds
  <1>7. QED
    BY <1>6 DEF g

LEMMA MaskChanges ==
  ASSUME NEW f, MaskHolds(f), NEW op \in Ops[f.kind], ops' = Append(ops, op)
  PROVE MaskHolds(Changed(f, op))'
  <1>1. op \in MaskOp /\ f \in MaskFilter /\ ops \in Seq(MaskOp)
    BY OpsTyped DEF MaskHolds, MaskFilter
  <1> DEFINE g == Changed(f, op)
             pair == <<op.id, op.to>>
             Removes(i) == op = [ops[i] EXCEPT !.op = "remove_mask"]
  <1>2. g = [f EXCEPT ![F!List(op.extended)] =
               IF op.op = "add_mask" THEN @ \union {pair} ELSE @ \ {pair}]
    <2>1. op.op \in {"add_mask", "remove_mask"}
      BY <1>1 DEF MaskOp
    <2>2. CASE op.op = "add_mask"
      BY <2>2 DEF Changed, F!AddMask
    <2>3. CASE op.op = "remove_mask"
      BY <2>3 DEF Changed, F!RemoveMask
    <2>4. QED
      BY <2>1, <2>2, <2>3
  <1>3. pair \in Id \X Id /\ op.extended \in BOOLEAN /\ op.op \in {"add_mask", "remove_mask"}
    BY <1>1 DEF MaskOp
  <1> PICK n \in Nat : n = Len(ops)
    BY <1>1, LenProperties
  <1>4. /\ DOMAIN ops = 1..n /\ DOMAIN ops' = 1..(n + 1)
        /\ ops'[n + 1] = op /\ \A i \in 1..n : ops'[i] = ops[i]
        /\ ops' \in Seq(MaskOp) /\ \A i \in 1..n : ops[i] \in MaskOp
    BY <1>1, LenProperties, AppendProperties, ElementOfSeq
  <1> HIDE DEF g
  <1>5. ASSUME NEW i \in 1..n, ops[i].op = "add_mask"
        PROVE Removes(i) <=> /\ op.op = "remove_mask" /\ ops[i].extended = op.extended
                             /\ <<ops[i].id, ops[i].to>> = pair
    BY <1>1, <1>4, <1>5 DEF MaskOp
  <1> HIDE DEF Removes
  <1>6. ASSUME NEW extended \in BOOLEAN, NEW p \in Id \X Id, NEW i \in 1..n
        PROVE Masking(extended, p, i)' <=> Masking(extended, p, i) /\ ~Removes(i)
    <2>1. ops'[i] = ops[i] /\ i \in 1..(n + 1) /\ n + 1 > i
      BY <1>4
    <2>2. (\A j \in 1..(n + 1) : j > i => ops'[j] # [ops'[i] EXCEPT !.op = "remove_mask"])
            <=> /\ \A j \in 1..n : j > i => ops[j] # [ops[i] EXCEPT !.op = "remove_mask"]
                /\ ops'[n + 1] # [ops[i] EXCEPT !.op = "remove_mask"]
      <3>1. \A j \in 1..(n + 1) : j \in 1..n \/ j = n + 1
        BY <1>4
      <3>2. \A j \in 1..n : j \in 1..(n + 1)
        BY <1>4
      <3>3. n + 1 \in 1..(n + 1)
        BY <1>4
      <3>4. QED
        BY <1>4, <2>1, <3>1, <3>2, <3>3
    <2>3. ops'[n + 1] # [ops[i] EXCEPT !.op = "remove_mask"] <=> ~Removes(i)
      BY <1>4 DEF Removes
    <2>4. QED
      BY <1>4, <2>1, <2>2, <2>3 DEF Masking
  <1>7. ASSUME NEW extended \in BOOLEAN, NEW p \in Id \X Id
        PROVE Masking(extended, p, n + 1)' <=>
                op.op = "add_mask" /\ op.extended = extended /\ pair = p
    <2>1. \A j \in 1..(n + 1) : ~(j > n + 1)
      BY <1>4
    <2>2. QED
      BY <1>4, <2>1 DEF Masking
  <1>8. ASSUME NEW extended \in BOOLEAN, NEW p \in Id \X Id
        PROVE p \in g[F!List(extended)] <=> Stopping(extended, p)'
    <2>1. p \in f[F!List(extended)] <=> \E i \in 1..n : Masking(extended, p, i)
      BY <1>4 DEF MaskHolds, Stopping
    <2>2. Stopping(extended, p)' <=> \/ \E i \in 1..n : Masking(extended, p, i) /\ ~Removes(i)
                                     \/ op.op = "add_mask" /\ op.extended = extended /\ pair = p
      <3>1. \A i \in 1..(n + 1) : i \in 1..n \/ i = n + 1
        BY <1>4
      <3>2. \A i \in 1..n : i \in 1..(n + 1)
        BY <1>4
      <3>3. n + 1 \in 1..(n + 1)
        BY <1>4
      <3>4. Stopping(extended, p)' <=> \E i \in 1..(n + 1) : Masking(extended, p, i)'
        BY <1>4 DEF Stopping
      <3>5. QED
        BY <1>6, <1>7, <3>1, <3>2, <3>3, <3>4
    <2>3. \A i \in 1..n : Masking(extended, p, i) =>
            (Removes(i) <=> op.op = "remove_mask" /\ extended = op.extended /\ p = pair)
      BY <1>5 DEF Masking
    <2>4. g[F!List(extended)] =
            IF extended # op.extended THEN f[F!List(extended)]
            ELSE IF op.op = "add_mask" THEN f[F!List(extended)] \union {pair}
            ELSE f[F!List(extended)] \ {pair}
      BY <1>1, <1>2, <1>3 DEF MaskFilter, F!List
    <2> HIDE DEF pair
    <2>5. CASE extended = op.extended /\ p = pair
      BY <1>3, <2>1, <2>2, <2>3, <2>4, <2>5
    <2>6. CASE ~(extended = op.extended /\ p = pair)
      BY <1>3, <2>1, <2>2, <2>3, <2>4, <2>6
    <2>7. QED
      BY <2>5, <2>6
  <1>9. g \in MaskFilter
    BY <1>1, <1>2, <1>3 DEF MaskFilter, F!List
  <1>10. MaskHolds(g)'
    BY <1>4, <1>8, <1>9 DEF MaskHolds
  <1>11. QED
    BY <1>10 DEF g

LEMMA ChangesHold ==
  ASSUME NEW f, Holds(f), NEW op \in Ops[f.kind], ops' = Append(ops, op)
  PROVE Holds(Changed(f, op))'
  BY ListChanges, MaskChanges, FlagChanges DEF Holds
-----------------------------------------------------------------------------
(* What a filter lets through is what its changes say. *)
LetThrough(f, msg) ==
  CASE f.kind = "white" -> Listed(msg)
    [] f.kind = "black" -> ~Listed(msg)
    [] f.kind = "mask"  -> ~StoppedByMask(msg)
    [] f.kind = "flags" -> \/ Flagged("std") /\ ~msg.extended
                           \/ Flagged("ext") /\ msg.extended
                           \/ Flagged("rtr") /\ msg.rtr

LEMMA SameCovering ==
  ASSUME NEW msg
  PROVE /\ ops \in Seq(ListOp) => (Listed(msg) <=> LastIn(ops, Covering(msg), Adding))
        /\ ops \in Seq(FlagOp) => \A flag : Flagged(flag) <=> LastIn(ops, Changing(flag), Setting)
  <1>1. ASSUME ops \in Seq(ListOp)
        PROVE Listed(msg) <=> LastIn(ops, Covering(msg), Adding)
    <2> DEFINE C == {i \in DOMAIN ops : CoversId(ops[i], msg)}
               D == {i \in DOMAIN ops : ops[i] \in Covering(msg)}
    <2>1. Len(ops) \in Nat /\ DOMAIN ops = 1..Len(ops)
          /\ \A i \in DOMAIN ops : ops[i] \in ListOp
      BY <1>1, LenProperties, ElementOfSeq
    <2>2. C = D
      BY <2>1 DEF Covering
    <2>3. C # {} => Max(C) \in DOMAIN ops
      <3>1. C \in SUBSET (1..Len(ops))
        BY <2>1
      <3> HIDE DEF C
      <3>2. QED
        BY <2>1, <3>1, MaxIsGreatest
    <2>4. C # {} => (ops[Max(C)].op \in {"add", "add_range"} <=> ops[Max(C)] \in Adding)
      BY <2>1, <2>3 DEF Adding
    <2>5. Listed(msg) <=> C # {} /\ ops[Max(C)].op \in {"add", "add_range"}
      BY Zenon DEF Listed
    <2>6. LastIn(ops, Covering(msg), Adding) <=> D # {} /\ ops[Max(D)] \in Adding
      BY Zenon DEF LastIn
    <2> HIDE DEF C, D
    <2>7. QED
      BY <2>2, <2>4, <2>5, <2>6
  <1>2. ASSUME ops \in Seq(FlagOp), NEW flag
        PROVE Flagged(flag) <=> LastIn(ops, Changing(flag), Setting)
    <2> DEFINE C == {i \in DOMAIN ops : ops[i].flag = flag}
               D == {i \in DOMAIN ops : ops[i] \in Changing(flag)}
    <2>1. Len(ops) \in Nat /\ DOMAIN ops = 1..Len(ops)
          /\ \A i \in DOMAIN ops : ops[i] \in FlagOp
      BY <1>2, LenProperties, ElementOfSeq
    <2>2. C = D
      BY <2>1 DEF Changing
    <2>3. C # {} => Max(C) \in DOMAIN ops
      <3>1. C \in SUBSET (1..Len(ops))
        BY <2>1
      <3> HIDE DEF C
      <3>2. QED
        BY <2>1, <3>1, MaxIsGreatest
    <2>4. C # {} => (ops[Max(C)].op = "add_flag" <=> ops[Max(C)] \in Setting)
      BY <2>1, <2>3 DEF Setting
    <2>5. Flagged(flag) <=> C # {} /\ ops[Max(C)].op = "add_flag"
      BY Zenon DEF Flagged
    <2>6. LastIn(ops, Changing(flag), Setting) <=> D # {} /\ ops[Max(D)] \in Setting
      BY Zenon DEF LastIn
    <2> HIDE DEF C, D
    <2>7. QED
      BY <2>2, <2>4, <2>5, <2>6
  <1>3. QED
    BY <1>1, <1>2

LEMMA MaskStops ==
  ASSUME NEW f, MaskHolds(f), NEW msg, msg.id \in Id, msg.extended \in BOOLEAN
  PROVE (\A p \in f[F!List(msg.extended)] : F!And(msg.id, p[2]) # p[1]) <=> ~StoppedByMask(msg)
  <1>1. /\ f[F!List(msg.extended)] \subseteq Id \X Id
        /\ \A p \in Id \X Id : p \in f[F!List(msg.extended)] <=> Stopping(msg.extended, p)
        /\ \A i \in DOMAIN ops : ops[i].id \in Id /\ ops[i].to \in Id
    <2>1. f[F!List(msg.extended)] \subseteq Id \X Id
      BY DEF MaskHolds, MaskFilter, F!List
    <2>2. \A i \in DOMAIN ops : ops[i] \in MaskOp
      BY LenProperties, ElementOfSeq DEF MaskHolds
    <2>3. QED
      BY <2>1, <2>2 DEF MaskHolds, MaskOp
  <1> DEFINE Same(i) == \A b \in 0..(IdBits - 1) :
                          F!Bit(ops[i].id, b) = F!Bit(msg.id, b) * F!Bit(ops[i].to, b)
  <1>2. \A i \in DOMAIN ops : Same(i) <=> F!And(msg.id, ops[i].to) = ops[i].id
    BY <1>1, AndIs
  <1>3. StoppedByMask(msg) <=>
          \E i \in DOMAIN ops : Masking(msg.extended, <<ops[i].id, ops[i].to>>, i) /\ Same(i)
    BY DEF StoppedByMask, Masking
  <1> HIDE DEF Same
  <1>4. ASSUME NEW p \in f[F!List(msg.extended)], F!And(msg.id, p[2]) = p[1]
        PROVE StoppedByMask(msg)
    <2>1. PICK i \in DOMAIN ops : Masking(msg.extended, p, i)
      BY <1>1 DEF Stopping
    <2>2. p = <<ops[i].id, ops[i].to>>
      BY <2>1 DEF Masking
    <2>3. QED
      BY <1>2, <1>3, <1>4, <2>1, <2>2
  <1>5. ASSUME StoppedByMask(msg)
        PROVE \E p \in f[F!List(msg.extended)] : F!And(msg.id, p[2]) = p[1]
    <2>1. PICK i \in DOMAIN ops :
             Masking(msg.extended, <<ops[i].id, ops[i].to>>, i) /\ Same(i)
      BY <1>3, <1>5
    <2>2. <<ops[i].id, ops[i].to>> \in f[F!List(msg.extended)]
      BY <1>1, <2>1 DEF Stopping
    <2>3. F!And(msg.id, ops[i].to) = ops[i].id
      BY <1>2, <2>1
    <2>4. QED
      BY <2>2, <2>3
  <1>6. QED
    BY <1>4, <1>5

LEMMA FilterLets ==
  ASSUME NEW f, Holds(f), f.kind = "flags" => Flagged("std"),
         NEW data \in Data, F!IsMsg(data)
  PROVE F!Forwards(f, data) <=> LetThrough(f, data.msg)
  <1> DEFINE msg == data.msg
  <1>1. msg.id \in Id /\ msg.extended \in BOOLEAN
    BY ToolsAssumption DEF F!IsMsg
  <1>2. CASE ListHolds(f)
    <2> DEFINE only == [id |-> msg.id, extended |-> msg.extended]
    <2>1. only \in Ids /\ Covering(only) = Covering(msg)
      BY <1>1 DEF Ids, Covering, CoversId
    <2>2. msg.id \in f[F!List(msg.extended)] <=> LastIn(ops, Covering(msg), Adding)
      BY <1>2, <2>1 DEF ListHolds
    <2>3. msg.id \in f[F!List(msg.extended)] <=> Listed(msg)
      BY <1>2, <2>2, SameCovering DEF ListHolds
    <2>4. f.kind \in {"white", "black"}
      BY <1>2 DEF ListHolds, ListFilter
    <2> HIDE DEF msg
    <2>5. F!ListForwards(f, msg) <=> LetThrough(f, msg)
      BY <2>3, <2>4 DEF F!ListForwards, LetThrough
    <2>6. QED
      BY <2>4, <2>5 DEF F!Forwards, msg
  <1>3. CASE MaskHolds(f)
    <2>1. f.kind = "mask"
      BY <1>3 DEF MaskHolds, MaskFilter
    <2>2. (\A p \in f[F!List(msg.extended)] : F!And(msg.id, p[2]) # p[1]) <=> ~StoppedByMask(msg)
      BY <1>1, <1>3, MaskStops
    <2> HIDE DEF msg
    <2>3. F!ListForwards(f, msg) <=> LetThrough(f, msg)
      BY <2>1, <2>2 DEF F!ListForwards, LetThrough
    <2>4. QED
      BY <2>1, <2>3 DEF F!Forwards, msg
  <1>4. CASE FlagHolds(f)
    <2>1. f.kind = "flags" /\ Flagged("std")
      BY <1>4 DEF FlagHolds, FlagFilter
    <2>2. \A flag \in {"std", "ext", "rtr"} : flag \in f.flags <=> Flagged(flag)
      BY <1>4, SameCovering DEF FlagHolds
    <2> HIDE DEF msg
    <2>3. F!FlagsForward(f.flags, msg) <=> LetThrough(f, msg)
      BY <2>1, <2>2 DEF F!FlagsForward, LetThrough
    <2>4. QED
      BY <2>1, <2>3 DEF F!Forwards, msg
  <1>5. QED
    BY <1>2, <1>3, <1>4 DEF Holds
-----------------------------------------------------------------------------
(* TrafficInv: the filter, and the lines of the log                        *)

Loggers == {"can_dump", "client"}
Late == {"running", "stop", "close", "delete"} \union Ended
DumpFilter == IF Given("white_list") THEN FilterOf(F!WhiteList, Values("white_list"))
              ELSE FilterOf(F!BlackList, Values("black_list"))
Sent == Those(received, {data \in Data : Forwarded(data)})
SentLines == [i \in DOMAIN Sent |-> LogLine(Sent[i])]

FilterInv ==
  /\ tool = "client" => \A f \in filter : Holds(f)
  /\ (tool = "can_dump" /\ (pc \in {"start", "running"} \/ received # <<>>)) =>
       parsing = "parsed" /\ filter = DumpFilter

LinesInv ==
  tool \in Loggers =>
    /\ received \in Seq(Data)
    /\ received # <<>> => pc \in Late
    /\ received = <<>> => output = <<>>
    /\ Logs => output = SentLines

TrafficInv == FilterInv /\ LinesInv

LEMMA SameFilter ==
  ASSUME ops' = ops, NEW f
  PROVE Holds(f)' <=> Holds(f)
  BY DEF Holds, ListHolds, MaskHolds, FlagHolds, Stopping, Masking

LEMMA NothingSent == received = <<>> => SentLines = <<>>
  <1> SUFFICES ASSUME received = <<>> PROVE SentLines = <<>>
    OBVIOUS
  <1>1. <<>> \in Seq({0}) /\ 0 \in {0}
    OBVIOUS
  <1>2. \A T : Those(<<>>, T) = <<>>
    BY <1>1, ThoseAppend
  <1>3. Sent = <<>>
    BY <1>2 DEF Sent
  <1>4. SentLines \in [1..0 -> {}]
    BY <1>3 DEF SentLines
  <1>5. SentLines \in Seq({})
    BY <1>4
  <1>6. Len(SentLines) = 0
    BY <1>4, <1>5, LenProperties
  <1>7. QED
    BY <1>5, <1>6, EmptySeq

LEMMA InitTraffic == ToolOK /\ ToolInit => TrafficInv
  <1> SUFFICES ASSUME ToolOK, ToolInit
               PROVE TrafficInv
    OBVIOUS
  <1>1. received = <<>> /\ output = <<>> /\ ops = <<>> /\ received \in Seq(Data)
    BY DEF ToolInit
  <1>2. tool = "client" => \A f \in filter : f \in NewFilters
    BY DEF ToolInit
  <1>3. tool = "client" => \A f \in filter : Holds(f)
    BY <1>1, <1>2, NewFilterHolds
  <1>4. tool = "can_dump" => pc = "arguments"
    BY DEF ToolInit
  <1>5. SentLines = <<>>
    BY <1>1, NothingSent
  <1>6. QED
    BY <1>1, <1>3, <1>4, <1>5 DEF TrafficInv, FilterInv, LinesInv

LEMMA LineAppend ==
  ASSUME NEW s \in Seq(Data), NEW e \in Data
  PROVE [i \in DOMAIN Append(s, e) |-> LogLine(Append(s, e)[i])]
          = Append([i \in DOMAIN s |-> LogLine(s[i])], LogLine(e))
  <1> DEFINE n == Len(s)
             t == Append(s, e)
             L == {LogLine(d) : d \in Data}
             a == [i \in 1..n |-> LogLine(s[i])]
             b == [i \in 1..(n + 1) |-> LogLine(t[i])]
  <1>1. /\ n \in Nat /\ DOMAIN s = 1..n /\ DOMAIN t = 1..(n + 1) /\ t[n + 1] = e
        /\ \A i \in 1..n : t[i] = s[i] /\ s[i] \in Data
    BY LenProperties, AppendProperties, ElementOfSeq
  <1> HIDE DEF n, t
  <1>2. \A i \in 1..(n + 1) : t[i] \in Data
    <2>1. \A i \in 1..(n + 1) : i \in 1..n \/ i = n + 1
      BY <1>1
    <2>2. QED
      BY <1>1, <2>1
  <1>3. a \in [1..n -> L] /\ b \in [1..(n + 1) -> L]
    BY <1>1, <1>2
  <1>4. a \in Seq(L) /\ b \in Seq(L) /\ LogLine(e) \in L
    BY <1>1, <1>3
  <1>5. Len(a) = n /\ Len(b) = n + 1
    BY <1>1, <1>3, <1>4, LenProperties
  <1> DEFINE c == Append(a, LogLine(e))
  <1>6. /\ c \in Seq(L) /\ Len(c) = n + 1 /\ c[n + 1] = LogLine(e)
        /\ \A i \in 1..n : c[i] = a[i]
    <2> HIDE DEF a
    <2>1. QED
      BY <1>4, <1>5, AppendProperties
  <1>7. \A i \in 1..(n + 1) : b[i] = c[i]
    <2>1. \A i \in 1..n : b[i] = c[i]
      BY <1>1, <1>6
    <2>2. b[n + 1] = c[n + 1]
      BY <1>1, <1>6
    <2>3. \A i \in 1..(n + 1) : i \in 1..n \/ i = n + 1
      BY <1>1
    <2> HIDE DEF b, c
    <2>4. QED
      BY <2>1, <2>2, <2>3
  <1>8. b = c
    <2> HIDE DEF b, c
    <2>1. QED
      BY <1>4, <1>5, <1>6, <1>7, SeqEqual
  <1>9. QED
    BY <1>1, <1>8 DEF n, t

LEMMA ThoseMore ==
  ASSUME NEW E, NEW s \in Seq(E), NEW e \in E
  PROVE \A T : /\ Those(s, T) \in Seq(E)
               /\ Those(Append(s, e), T) =
                    IF e \in T THEN Append(Those(s, T), e) ELSE Those(s, T)
  <1> TAKE T
  <1>1. Those(s, T) \in Seq(E)
    BY ThoseAppend
  <1>2. Those(Append(s, e), T) = IF e \in T THEN Append(Those(s, T), e) ELSE Those(s, T)
    BY ThoseAppend, SMT
  <1>3. QED
    BY <1>1, <1>2

LEMMA SameTraffic ==
  ASSUME UNCHANGED parser, UNCHANGED environment, UNCHANGED <<filter, ops, received, output>>
  PROVE /\ DumpFilter' = DumpFilter /\ SentLines' = SentLines /\ (Logs' <=> Logs)
        /\ \A f : Holds(f)' <=> Holds(f)
        /\ tool' = tool /\ parsing' = parsing
  <1>1. DumpFilter' = DumpFilter
    BY SameWords DEF DumpFilter
  <1>2. \A data : (Forwarded(data))' <=> Forwarded(data)
    BY DEF Forwarded
  <1>3. \A data : (LogLine(data))' = LogLine(data)
    BY DEF LogLine, environment
  <1>4. SentLines' = SentLines
    <2>1. Sent' = Sent
      BY <1>2 DEF Sent
    <2>2. QED
      BY <1>3, <2>1 DEF SentLines
  <1>5. Logs' <=> Logs
    BY SameWords DEF Logs, environment
  <1>6. QED
    BY <1>1, <1>4, <1>5, SameFilter, SameWords

LEMMA ReceiveTraffic ==
  ASSUME LineInv, SessionInv, TrafficInv, Receive
  PROVE TrafficInv'
  <1>1. /\ pc = "running" /\ UNCHANGED <<parser, environment>> /\ UNCHANGED <<filter, ops>>
        /\ pc' \in {"running", "aborted", "undefined"}
    BY DecodingEnds DEF Receive, At, Goto, session
  <1>2. tool \in Loggers /\ tool' = tool
    <2>1. "running" \in Places
      BY <1>1 DEF SessionInv, PlaceInv, Ended
    <2>2. QED
      BY <1>1, <2>1, PlacesDiffer DEF LineInv, Loggers, environment
  <1>3. PICK data \in Data :
          /\ received' = Append(received, data)
          /\ Logs => output' = IF Forwarded(data) THEN Append(output, LogLine(data)) ELSE output
    BY DEF Receive
  <1>4. received \in Seq(Data) /\ (Logs => output = SentLines)
    BY <1>2 DEF TrafficInv, LinesInv
  <1>5. received' \in Seq(Data) /\ received' # <<>>
    BY <1>3, <1>4, AppendProperties
  <1>6. DumpFilter' = DumpFilter /\ (Logs' <=> Logs)
    BY <1>1, SameWords DEF DumpFilter, Logs, environment
  <1>7. FilterInv'
    <2>1. parsing' = parsing
      BY <1>1 DEF parser
    <2>2. QED
      BY <1>1, <1>2, <1>5, <1>6, <2>1, SameFilter DEF TrafficInv, FilterInv
  <1>8. ASSUME Logs
        PROVE output' = SentLines'
    <2> DEFINE T == {d \in Data : Forwarded(d)}
    <2>1. T' = T
      BY <1>1 DEF Forwarded
    <2>2. /\ Sent \in Seq(Data)
          /\ Sent' = IF data \in T THEN Append(Sent, data) ELSE Sent
      <3>1. Sent = Those(received, T) /\ Sent' = Those(received', T)
        BY <2>1 DEF Sent
      <3> HIDE DEF T
      <3>2. /\ Those(received, T) \in Seq(Data)
            /\ Those(Append(received, data), T) =
                 IF data \in T THEN Append(Those(received, T), data) ELSE Those(received, T)
        <4>1. received \in Seq(Data)
          BY <1>4
        <4>2. \A U : /\ Those(received, U) \in Seq(Data)
                     /\ Those(Append(received, data), U) =
                          IF data \in U THEN Append(Those(received, U), data)
                          ELSE Those(received, U)
          BY <4>1, ThoseMore
        <4>3. QED
          BY <4>2
      <3>3. QED
        BY <1>3, <3>1, <3>2
    <2>3. \A d : LogLine(d)' = LogLine(d)
      BY <1>1 DEF LogLine, environment
    <2>4. SentLines' = [i \in DOMAIN Sent' |-> LogLine(Sent'[i])]
      BY <2>3 DEF SentLines
    <2>5. CASE Forwarded(data)
      <3>1. Sent' = Append(Sent, data)
        BY <2>2, <2>5
      <3>2. SentLines' = Append(SentLines, LogLine(data))
        BY <2>2, <2>4, <3>1, LineAppend DEF SentLines
      <3>3. QED
        BY <1>3, <1>4, <1>8, <2>5, <3>2
    <2>6. CASE ~Forwarded(data)
      <3>1. Sent' = Sent
        BY <2>2, <2>6
      <3>2. SentLines' = SentLines
        BY <2>4, <3>1 DEF SentLines
      <3>3. QED
        BY <1>3, <1>4, <1>8, <2>6, <3>2
    <2>7. QED
      BY <2>5, <2>6
  <1>9. LinesInv'
    BY <1>1, <1>2, <1>5, <1>6, <1>8 DEF LinesInv, Late, Ended
  <1>10. QED
    BY <1>7, <1>9 DEF TrafficInv

LEMMA NextTraffic == LineInv /\ SessionInv /\ TrafficInv /\ [Next]_vars => TrafficInv'
  <1> SUFFICES ASSUME LineInv, SessionInv, TrafficInv, [Next]_vars
               PROVE TrafficInv'
    OBVIOUS
  <1>1. ToolOK /\ FilterInv /\ LinesInv /\ PlaceInv
    BY DEF LineInv, SessionInv, TrafficInv
  <1>2. tool' = tool
    BY StepParses DEF environment
  <1>3. CASE tool \notin Loggers
    BY <1>2, <1>3 DEF TrafficInv, FilterInv, LinesInv, Loggers
  <1>4. CASE tool \in Loggers /\ Receive
    BY <1>4, ReceiveTraffic
  <1>5. CASE tool \in Loggers /\ ParseArguments
    <2>1. pc = "arguments" /\ pc' = pc /\ UNCHANGED <<filter, ops, received, output>>
      BY <1>5 DEF ParseArguments, session, history
    <2>2. received = <<>> /\ output = <<>>
      BY <1>1, <1>5, <2>1 DEF LinesInv, Late, Ended
    <2>3. SentLines' = <<>>
      <3>1. (received = <<>>)' => (SentLines = <<>>)'
        BY NothingSent, PTL
      <3>2. QED
        BY <2>1, <2>2, <3>1
    <2>4. tool = "can_dump"
      BY <1>1, <1>5, <2>1, PlacesDiffer DEF PlaceInv, Ended, Loggers
    <2>5. QED
      BY <1>1, <1>2, <2>1, <2>2, <2>3, <2>4 DEF TrafficInv, FilterInv, LinesInv
  <1>6. CASE tool \in Loggers /\ Configure
    <2>1. /\ pc = "configure" /\ pc' \in {"start", "close"} /\ UNCHANGED <<parser, environment>>
          /\ UNCHANGED <<ops, received, output>> /\ filter' = DumpFilter
      BY <1>6 DEF Configure, ControllerCall, At, Goto, history, DumpFilter
    <2>2. received = <<>> /\ output = <<>>
      BY <1>1, <1>6, <2>1 DEF LinesInv, Late, Ended
    <2>3. tool = "can_dump" /\ parsing = "parsed"
      BY <1>1, <1>6, <2>1, PlacesDiffer DEF PlaceInv, Ended, Loggers, AdapterTools, Driven
    <2>4. DumpFilter' = DumpFilter /\ parsing' = parsing
      BY <2>1, SameWords DEF DumpFilter
    <2>5. SentLines' = <<>>
      <3>1. (received = <<>>)' => (SentLines = <<>>)'
        BY NothingSent, PTL
      <3>2. QED
        BY <2>1, <2>2, <3>1
    <2>6. QED
      BY <1>1, <1>2, <2>1, <2>2, <2>3, <2>4, <2>5 DEF TrafficInv, FilterInv, LinesInv
  <1>7. CASE tool \in Loggers /\ ChangeFilter
    <2>1. pc = "filters" /\ UNCHANGED <<parser, environment, received, output>>
      BY <1>7 DEF ChangeFilter, At
    <2>2. tool = "client"
      BY <1>1, <2>1, PlacesDiffer DEF PlaceInv, Ended
    <2>3. received = <<>> /\ output = <<>>
      BY <1>1, <1>7, <2>1 DEF LinesInv, Late, Ended
    <2>4. \A f \in filter' : Holds(f)'
      <3>1. CASE UNCHANGED <<filter, ops>>
        BY <1>1, <2>2, <3>1, SameFilter DEF FilterInv
      <3>2. CASE ~UNCHANGED <<filter, ops>>
        <4>1. PICK f \in filter : \E op \in Ops[f.kind] :
                filter' = {Changed(f, op)} /\ ops' = Append(ops, op)
          BY <1>7, <3>2 DEF ChangeFilter
        <4>11. PICK op \in Ops[f.kind] : filter' = {Changed(f, op)} /\ ops' = Append(ops, op)
          BY <4>1
        <4>2. Holds(f)
          BY <1>1, <2>2 DEF FilterInv
        <4>3. Holds(Changed(f, op))'
          BY <4>11, <4>2, ChangesHold
        <4> DEFINE g == Changed(f, op)
        <4> HIDE DEF g
        <4>4. Holds(g)' /\ filter' = {g}
          BY <4>11, <4>3 DEF g
        <4>5. QED
          BY <4>4
      <3>3. QED
        BY <3>1, <3>2
    <2>5. SentLines' = <<>>
      <3>1. (received = <<>>)' => (SentLines = <<>>)'
        BY NothingSent, PTL
      <3>2. QED
        BY <2>1, <2>3, <3>1
    <2>6. QED
      BY <1>1, <1>2, <2>1, <2>2, <2>3, <2>4, <2>5 DEF TrafficInv, FilterInv, LinesInv
  <1>8. CASE /\ tool \in Loggers
             /\ [Next]_vars /\ ~Receive /\ ~ParseArguments /\ ~Configure /\ ~ChangeFilter
    <2>1. pc \notin {"send", "list"}
      BY <1>1, <1>8, PlacesDiffer DEF PlaceInv, Ended, Loggers
    <2>2. /\ UNCHANGED <<parser, environment>> /\ UNCHANGED <<filter, ops, received, output>>
          /\ pc \in Late => pc' \in Late
          /\ pc' = "start" => pc = "start"
          /\ pc' = "running" => pc \in {"start", "filters", "running"}
      <3>1. CASE UNCHANGED vars
        BY <3>1 DEF vars, session, history
      <3>2. CASE Initialized \/ LoadDatabase \/ LoadPlugin \/ CreateController
        BY <1>8, <3>2 DEF Initialized, LoadDatabase, LoadPlugin, CreateController, At, Goto,
          session, history, Late, Ended, Loggers
      <3>3. CASE Open \/ StartController \/ Stop \/ Close \/ Delete
        BY <3>3 DEF Open, StartController, Stop, Close, Delete, ControllerCall, At, Goto,
          history, Late, Ended
      <3>4. CASE PressEnter \/ Filtered \/ Send \/ Serve \/ ListAdapters
        BY <2>1, <3>4 DEF PressEnter, Filtered, Send, Serve, ListAdapters, At, Goto, session,
          history, Late, Ended
      <3>5. QED
        BY <1>8, <3>1, <3>2, <3>3, <3>4 DEF Next
    <2>3. /\ DumpFilter' = DumpFilter /\ SentLines' = SentLines /\ (Logs' <=> Logs)
          /\ \A f : Holds(f)' <=> Holds(f)
          /\ parsing' = parsing
      BY <2>2, SameTraffic
    <2>4. tool = "can_dump" => pc # "filters"
      BY <1>1, PlacesDiffer DEF PlaceInv, Ended
    <2>5. FilterInv'
      BY <1>1, <1>2, <2>2, <2>3, <2>4 DEF FilterInv
    <2>6. LinesInv'
      BY <1>1, <1>2, <2>2, <2>3 DEF LinesInv
    <2>7. QED
      BY <2>5, <2>6 DEF TrafficInv
  <1>9. QED
    BY <1>3, <1>4, <1>5, <1>6, <1>7, <1>8
-----------------------------------------------------------------------------
LEMMA ThoseTyped ==
  ASSUME NEW E, NEW s \in Seq(E)
  PROVE \A T : Those(s, T) \in Seq(E)
  <1> TAKE T
  <1>1. PICK r \in [0..Len(s) -> Seq(E)] : r[Len(s)] = Those(s, T)
    <2>1. ThoseRun(E, s, T) # {}
      BY ThoseRuns
    <2>2. QED
      BY <2>1 DEF ThoseRun
  <1>2. Len(s) \in 0..Len(s)
    BY LenProperties
  <1>3. QED
    BY <1>1, <1>2

(* The filter of can_dump lets through what its lists ask for. *)
LEMMA ListIsGiven ==
  ASSUME LineInv, parsing = "parsed", tool = "can_dump", NEW name \in {"white_list", "black_list"}
  PROVE /\ Values(name) \in Seq(Held)
        /\ Given(name) => Values(name) # <<>>
  <1>1. AreRows(AdapterRows \union DumpRows)
    BY ToolRows DEF LineInv
  <1>2. RowsTake(AdapterRows, name, {"uint32"}) /\ RowsTake(DumpRows, name, {"uint32"})
    BY AdapterRowsTake, OtherRowsTake DEF RowsTake
  <1>3. Takes(name, {"uint32"})
    BY <1>1, <1>2, BothTake
  <1>4. ASSUME Given(name)
        PROVE Values(name) \in Seq(Held) /\ Values(name) # <<>>
    <2>1. PICK last \in Options : Tells(name, last)
      BY <1>4, ValuesTell
    <2>2. Len(m_values[name]) \in Nat \ {0}
      BY <1>3, <2>1, LastTakes
    <2>3. m_values[name] \in Seq(Held)
      BY <1>4, ValuesTell
    <2>4. m_values[name] # <<>>
      BY <2>2, <2>3
    <2>5. QED
      BY <1>4, <2>3, <2>4 DEF Values
  <1>5. ~Given(name) => Values(name) = <<>>
    BY DEF Values
  <1>6. <<>> \in Seq(Held)
    OBVIOUS
  <1>7. QED
    BY <1>4, <1>5, <1>6

LEMMA ListLets ==
  ASSUME NEW ids \in Seq(Held), NEW data \in Data, F!IsMsg(data)
  PROVE /\ ids # <<>> =>
             ((\A f \in FilterOf(F!WhiteList, ids) : F!Forwards(f, data)) <=>
                \E i \in DOMAIN ids : ~data.msg.extended /\ ids[i] = data.msg.id)
        /\ (\A f \in FilterOf(F!BlackList, ids) : F!Forwards(f, data)) <=>
                ~\E i \in DOMAIN ids : ~data.msg.extended /\ ids[i] = data.msg.id
  <1> DEFINE msg == data.msg
             on == \E i \in DOMAIN ids : ~msg.extended /\ ids[i] = msg.id
  <1>1. msg.id \in Id /\ msg.extended \in BOOLEAN
    BY ToolsAssumption DEF F!IsMsg
  <1>2. \A kind \in {F!WhiteList, F!BlackList} :
          FilterOf(kind, ids) = IF ids = <<>> THEN {} ELSE {Filled(kind, ids)}
    BY DEF FilterOf, Filled
  <1>3. on <=> ~msg.extended /\ msg.id \in Range(ids)
    BY DEF Range
  <1>4. \A kind \in {F!WhiteList, F!BlackList} :
          Filled(kind, ids) = [kind |-> kind.kind, std |-> Range(ids), ext |-> {}]
    BY FilledHolds
  <1> DEFINE held == IF msg.extended THEN {} ELSE Range(ids)
  <1>5. \A kind \in {F!WhiteList, F!BlackList} :
          /\ Filled(kind, ids).kind = kind.kind
          /\ Filled(kind, ids)[F!List(msg.extended)] = held
    <2> TAKE kind \in {F!WhiteList, F!BlackList}
    <2> DEFINE ranges == Range(ids)
    <2>1. Filled(kind, ids) = [kind |-> kind.kind, std |-> ranges, ext |-> {}]
      BY <1>4
    <2>2. held = IF msg.extended THEN {} ELSE ranges
      OBVIOUS
    <2> HIDE DEF held, ranges
    <2>3. F!List(msg.extended) = IF msg.extended THEN "ext" ELSE "std"
      BY DEF F!List
    <2> DEFINE f == Filled(kind, ids)
    <2>4. f.kind = kind.kind /\ f["std"] = ranges /\ f["ext"] = {}
      BY <2>1
    <2> HIDE DEF f
    <2>5. f.kind = kind.kind /\ f[F!List(msg.extended)] = held
      BY <2>2, <2>3, <2>4
    <2>6. QED
      BY <2>5 DEF f
  <1>6. on <=> msg.id \in held
    BY <1>1, <1>3
  <1> HIDE DEF on, held, msg
  <1>7. F!Forwards(Filled(F!WhiteList, ids), data) <=> on
    <2>1. F!ListForwards(Filled(F!WhiteList, ids), msg) <=> on
      BY <1>5, <1>6 DEF F!ListForwards, F!WhiteList
    <2>2. QED
      BY <1>5, <2>1 DEF F!Forwards, F!WhiteList, msg
  <1>8. F!Forwards(Filled(F!BlackList, ids), data) <=> ~on
    <2>1. F!ListForwards(Filled(F!BlackList, ids), msg) <=> ~on
      BY <1>5, <1>6 DEF F!ListForwards, F!BlackList
    <2>2. QED
      BY <1>5, <2>1 DEF F!Forwards, F!BlackList, msg
  <1>9. ids = <<>> => ~on
    BY DEF on
  <1>10. QED
    BY <1>2, <1>7, <1>8, <1>9 DEF on, msg

LEMMA DumpLets ==
  ASSUME LineInv, parsing = "parsed", tool = "can_dump", filter = DumpFilter,
         NEW data \in Data, F!IsMsg(data),
         \A name \in {"white_list", "black_list"} :
           ~(data.msg.extended /\ OnList(data.msg, name))
  PROVE Forwarded(data) <=> Wanted(data.msg)
  <1>1. /\ Values("white_list") \in Seq(Held) /\ Values("black_list") \in Seq(Held)
        /\ Given("white_list") => Values("white_list") # <<>>
    BY ListIsGiven
  <1>2. CASE Given("white_list")
    <2>1. Forwarded(data) <=> OnList(data.msg, "white_list")
      BY <1>1, <1>2, ListLets DEF Forwarded, DumpFilter, OnList, Range
    <2>2. QED
      BY <1>2, <2>1 DEF Wanted
  <1>3. CASE ~Given("white_list")
    <2>1. Forwarded(data) <=> ~OnList(data.msg, "black_list")
      BY <1>1, <1>3, ListLets DEF Forwarded, DumpFilter, OnList, Range
    <2>2. QED
      BY <1>3, <2>1 DEF Wanted
  <1>4. QED
    BY <1>2, <1>3

LEMMA ClientLets ==
  ASSUME TrafficInv, Told, tool = "client", NEW data \in Data, F!IsMsg(data)
  PROVE Forwarded(data) <=> Wanted(data.msg)
  <1>1. \A f \in filter : Holds(f) /\ (f.kind = "flags" => Flagged("std"))
    BY DEF TrafficInv, FilterInv, Told
  <1>2. \A f \in filter : F!Forwards(f, data) <=> LetThrough(f, data.msg)
    BY <1>1, FilterLets
  <1>3. Wanted(data.msg) <=> \A f \in filter : LetThrough(f, data.msg)
    BY DEF Wanted, LetThrough
  <1>4. QED
    BY <1>2, <1>3 DEF Forwarded

(* Two sets that differ in nothing of a sequence keep the same of it. *)
LEMMA ThoseSame ==
  ASSUME NEW E, NEW s \in Seq(E), NEW T, NEW U, \A e \in Range(s) : e \in T <=> e \in U
  PROVE Those(s, T) = Those(s, U)
  <1> DEFINE n == Len(s)
  <1>1. n \in Nat /\ DOMAIN s = 1..n
    BY LenProperties
  <1>2. \A k \in 1..n : s[k] \in T <=> s[k] \in U
    BY <1>1 DEF Range
  <1>3. ThoseRun(E, s, T) # {} /\ ThoseRun(E, s, U) # {}
    BY ThoseRuns
  <1> HIDE DEF n
  <1>4. PICK r \in [0..n -> Seq(E)] :
          /\ r[0] = <<>> /\ r[n] = Those(s, T)
          /\ \A k \in 1..n : r[k] = IF s[k] \in T THEN Append(r[k - 1], s[k]) ELSE r[k - 1]
    BY <1>3 DEF ThoseRun, n
  <1>5. PICK q \in [0..n -> Seq(E)] :
          /\ q[0] = <<>> /\ q[n] = Those(s, U)
          /\ \A k \in 1..n : q[k] = IF s[k] \in U THEN Append(q[k - 1], s[k]) ELSE q[k - 1]
    BY <1>3 DEF ThoseRun, n
  <1> DEFINE S == {k \in 0..n : r[k] = q[k]}
  <1>6. 0 \in S
    BY <1>1, <1>4, <1>5
  <1>7. ASSUME NEW k \in 1..n, k - 1 \in S
        PROVE k \in S
    <2>1. k \in 0..n /\ r[k - 1] = q[k - 1]
      BY <1>1, <1>7
    <2>2. r[k] = q[k]
      BY <1>2, <1>4, <1>5, <2>1
    <2>3. QED
      BY <2>1, <2>2
  <1> HIDE DEF S
  <1>8. \A k \in 0..n : k \in S
    BY <1>1, <1>6, <1>7, Reaches
  <1>9. r[n] = q[n]
    BY <1>1, <1>8 DEF S
  <1>10. QED
    BY <1>4, <1>5, <1>9

LEMMA PassedIsSent ==
  ASSUME LineInv, TrafficInv, Told, NoExtendedOnList, Logs, tool \in Loggers
  PROVE Passed \in Seq(Data) /\ output = [i \in DOMAIN Passed |-> LogLine(Passed[i])]
  <1> DEFINE T == {data \in Data : Forwarded(data)}
             U == {data \in Data : (data.type \in {"rx", "tx"} => Wanted(data.msg))
                                     /\ (Logs \/ data.type = "rx")}
  <1>1. received \in Seq(Data) /\ output = SentLines
    BY DEF TrafficInv, LinesInv
  <1>2. Sent = Those(received, T) /\ Passed = Those(received, U)
    BY DEF Sent, Passed
  <1> HIDE DEF T, U
  <1>3. CASE received = <<>>
    <2>1. \A S : Those(<<>>, S) = <<>>
      <3>1. <<>> \in Seq({0}) /\ 0 \in {0}
        OBVIOUS
      <3>2. QED
        BY <3>1, ThoseAppend
    <2>2. Sent = <<>> /\ Passed = <<>> /\ <<>> \in Seq(Data)
      BY <1>2, <1>3, <2>1
    <2>3. QED
      BY <1>1, <2>2 DEF SentLines
  <1>4. CASE received # <<>>
    <2>1. \A data \in Range(received) : data \in Data
      BY <1>1, LenProperties, ElementOfSeq DEF Range
    <2>2. \A data \in Range(received) : F!IsMsg(data) => (Forwarded(data) <=> Wanted(data.msg))
      <3>1. CASE tool = "client"
        BY <2>1, <3>1, ClientLets
      <3>2. CASE tool = "can_dump"
        <4>1. parsing = "parsed" /\ filter = DumpFilter
          BY <1>4, <3>2 DEF TrafficInv, FilterInv
        <4>2. \A data \in Range(received) : F!IsMsg(data) =>
                \A name \in {"white_list", "black_list"} :
                  ~(data.msg.extended /\ OnList(data.msg, name))
          BY DEF NoExtendedOnList, F!IsMsg
        <4>3. QED
          BY <2>1, <3>2, <4>1, <4>2, DumpLets
      <3>3. QED
        BY <3>1, <3>2 DEF Loggers
    <2>3. \A data \in Data : ~F!IsMsg(data) => Forwarded(data)
      BY DEF Forwarded, F!Forwards
    <2>4. \A data \in Range(received) : data \in T <=> data \in U
      BY <2>1, <2>2, <2>3 DEF T, U, F!IsMsg
    <2>5. Those(received, T) = Those(received, U)
      BY <1>1, <2>4, ThoseSame
    <2>6. Those(received, T) \in Seq(Data)
      BY <1>1, ThoseTyped
    <2>7. QED
      BY <1>1, <1>2, <2>5, <2>6 DEF SentLines
  <1>5. QED
    BY <1>3, <1>4

(* A line of the log is the message. *)
LEMMA LineSays ==
  ASSUME NEW data \in Data
  PROVE LET line == LogLine(data)
            msg == data.msg
        IN /\ line.mode = mode
           /\ data.type = "event" => line.event = data.event
           /\ data.type \in {"rx", "tx"} =>
                /\ line.type = data.type /\ line.id = msg.id
                /\ line.extended = msg.extended /\ line.rtr = msg.rtr
                /\ Len(line.data) = msg.size
                /\ \A k \in 1..msg.size : line.data[k] = msg.data[k]
  <1>1. CASE data.type \in {"rx", "tx"}
    <2> DEFINE s == data.msg.data
               n == data.msg.size
               bytes == SubSeq(s, 1, n)
               line == LogLine(data)
    <2>1. line = [mode |-> mode, type |-> data.type, id |-> data.msg.id,
                  extended |-> data.msg.extended, rtr |-> data.msg.rtr, data |-> bytes]
      BY <1>1 DEF LogLine
    <2>2. s \in Seq(Nat) /\ n \in 0..Len(s)
      BY <1>1, ToolsAssumption
    <2>3. Len(bytes) = n /\ \A k \in 1..n : bytes[k] = s[k]
      <3> HIDE DEF s, n
      <3>1. QED
        BY <2>2
    <2> HIDE DEF bytes, line
    <2>4. /\ line.mode = mode /\ line.type = data.type /\ line.id = data.msg.id
          /\ line.extended = data.msg.extended /\ line.rtr = data.msg.rtr
          /\ line.data = bytes
      BY <2>1
    <2>5. Len(line.data) = n /\ \A k \in 1..n : line.data[k] = s[k]
      BY <2>3, <2>4
    <2>6. QED
      BY <1>1, <2>4, <2>5 DEF line
  <1>2. CASE data.type = "event"
    BY <1>2 DEF LogLine
  <1>3. CASE data.type \notin {"rx", "tx", "event"}
    BY <1>3 DEF LogLine
  <1>4. QED
    BY <1>1, <1>2, <1>3

LEMMA LinesMean == LineInv /\ TrafficInv => LinesAreTheTraffic
  <1> SUFFICES ASSUME LineInv, TrafficInv, tool \in {"can_dump", "client"}, Logs, Told,
                      NoExtendedOnList
               PROVE LinesAreTheTraffic
    BY DEF LinesAreTheTraffic
  <1> DEFINE n == Len(Passed)
  <1>1. Passed \in Seq(Data) /\ output = [i \in DOMAIN Passed |-> LogLine(Passed[i])]
    BY PassedIsSent DEF Loggers
  <1>2. n \in Nat /\ DOMAIN Passed = 1..n /\ \A i \in 1..n : Passed[i] \in Data
    BY <1>1, LenProperties, ElementOfSeq
  <1>3. DOMAIN output = 1..n /\ \A i \in 1..n : output[i] = LogLine(Passed[i])
    BY <1>1, <1>2
  <1>4. Len(output) = n
    <2> DEFINE L == {LogLine(Passed[i]) : i \in 1..n}
    <2>1. output \in [1..n -> L]
      BY <1>1, <1>2
    <2>2. output \in Seq(L)
      BY <1>2, <2>1
    <2>3. QED
      BY <1>2, <1>3, <2>2, LenProperties
  <1> HIDE DEF n
  <1>5. ASSUME NEW i \in DOMAIN output
        PROVE /\ output[i].mode = mode
              /\ Passed[i].type = "event" => output[i].event = Passed[i].event
              /\ Passed[i].type \in {"rx", "tx"} =>
                   LET msg == Passed[i].msg
                   IN /\ output[i].type = Passed[i].type
                      /\ output[i].id = msg.id
                      /\ output[i].extended = msg.extended
                      /\ output[i].rtr = msg.rtr
                      /\ Len(output[i].data) = msg.size
                      /\ \A k \in 1..msg.size : output[i].data[k] = msg.data[k]
    <2> DEFINE data == Passed[i]
    <2>1. data \in Data /\ output[i] = LogLine(data)
      BY <1>2, <1>3
    <2> HIDE DEF data
    <2>2. QED
      BY <2>1, LineSays DEF data
  <1>6. QED
    BY <1>4, <1>5, Zenon DEF LinesAreTheTraffic, n

(* What is logged is the traffic the lists, the masks and the flags ask    *)
(* for.                                                                    *)
THEOREM LoggedTrafficIsAsked == ToolSpec => []LinesAreTheTraffic
  <1>1. ToolOK /\ ToolInit => LineInv /\ SessionInv /\ TrafficInv
    BY InitLine, InitSession, InitTraffic
  <1>2. (LineInv /\ SessionInv /\ TrafficInv) /\ [Next]_vars
          => (LineInv /\ SessionInv /\ TrafficInv)'
    BY NextLine, NextSession, NextTraffic
  <1>3. QED
    BY <1>1, <1>2, LinesMean, PTL DEF ToolSpec
-----------------------------------------------------------------------------
(* 5. The types, for which loading must keep them whatever the file.       *)

(* What a database holds, whatever the file *)
Maps(S, V) == UNION {[T -> V] : T \in SUBSET S}
Texts == STRING \union {""}
ValueTypes == {"bool", "uint", "int", "float", "double"}
Outs == {"ok", "failed", "aborted", "undefined"}

InMessage ==
  {v \in [type : ValueTypes, byte : Int, bit : Int, size : 0..MsgBits, msg : Nat] :
     Start(v) + v.size <= MsgBits}
Trees == {ParseFunction(items).tree : items \in Seq(STRING)} \union {NoFunction}
Converter == [out : Outs, type : {"enum_converter", "function_converter"},
              enum : Maps(Int, Texts), tree : Trees]
Signal == [name : STRING, value : Nat, converter : Texts]
Desc == [id : Int, values : Seq(Nat), signals : Seq(Signal)]

Databases ==
  {d \in [out : Outs, descs : Seq(Desc), vals : Seq(InMessage), can_msgs : Maps(Int, Nat),
           can_msg_values : Maps(Texts, Nat), converters : Maps(STRING, Converter)] :
     \A id \in DOMAIN d.can_msgs : d.can_msgs[id] \in 1..Len(d.descs)}
DatabasesOf(n) == {d \in Databases : Len(d.descs) = n}

ValueElement == [id : STRING, type : STRING, byte : Attribute, bit : Attribute, size : Attribute]
MessageElement == [id : Attribute, extended : STRING, values : Seq(ValueElement)]
EnumElement == [id : Int, value : STRING]
ConverterElement ==
  {e \in [id : STRING, type : STRING, enums : Seq(EnumElement), f : SUBSET Seq(STRING)] :
     \A items \in e.f : ParseFunction(items).out \in {"ok", "failed", "undefined"}}
SignalElement == [id : STRING, value : STRING, converter : STRING]

LEMMA PutMaps ==
  ASSUME NEW S, NEW V, NEW map \in Maps(S, V), NEW name \in S, NEW value \in V
  PROVE /\ Put(map, name, value) \in Maps(S, V)
        /\ DOMAIN Put(map, name, value) = DOMAIN map \union {name}
        /\ \A n \in DOMAIN map \union {name} :
             Put(map, name, value)[n] = IF n = name THEN value ELSE map[n]
  <1>1. PICK T \in SUBSET S : map \in [T -> V]
    BY DEF Maps
  <1>2. Put(map, name, value) \in [T \union {name} -> V] /\ T \union {name} \in SUBSET S
    BY <1>1 DEF Put
  <1>3. QED
    BY <1>1, <1>2 DEF Maps, Put

LEMMA NoMaps ==
  ASSUME NEW S, NEW V, NEW x
  PROVE [id \in {} |-> x] \in Maps(S, V) /\ DOMAIN [id \in {} |-> x] = {}
  <1>1. [id \in {} |-> x] \in [{} -> V] /\ {} \in SUBSET S
    OBVIOUS
  <1>2. QED
    BY <1>1 DEF Maps

LEMMA MessageBits == MsgBits \in Nat \ {0} /\ 2^PositionBits \in Nat \ {0}
  BY ToolsAssumption DEF MsgBits

(* A value is moved only to where it fits. *)
LEMMA ValueFits ==
  ASSUME NEW type \in ValueTypes, NEW size \in Nat, NEW byte \in Nat, NEW bit \in Nat,
         NEW msg \in Nat
  PROVE SetBitPosition(SetBytePosition(NewValue(type, size, msg), Uint8(byte)), Uint8(bit))
          \in InMessage
  <1> DEFINE new == NewValue(type, size, msg)
             v == SetBytePosition(new, Uint8(byte))
  <1>1. \A k \in Nat : Uint8(k) \in Nat
    BY MessageBits DEF Uint8
  <1>2. new \in InMessage
    <2>1. Size(type, size) \in 0..MsgBits
      BY <1>1, MessageBits DEF Size
    <2>2. Position(0, 0) = 0
      <3>1. 0 * ByteBits + 0 = 0
        BY ToolsAssumption
      <3>2. QED
        BY <3>1, MessageBits DEF Position, Uint8
    <2>3. /\ new = [type |-> type, byte |-> 0, bit |-> 0, size |-> Size(type, size), msg |-> msg]
          /\ Start(new) = 0
      BY <2>2 DEF NewValue, Start
    <2> HIDE DEF new
    <2>4. QED
      BY <2>1, <2>3, MessageBits DEF InMessage
  <1> HIDE DEF new
  <1>3. v \in InMessage
    <2>1. CASE Fits(Position(Uint8(byte), new.bit), new.size)
      <3>1. v = [new EXCEPT !.byte = Uint8(byte)]
        BY <2>1 DEF SetBytePosition
      <3>2. /\ v \in [type : ValueTypes, byte : Int, bit : Int, size : 0..MsgBits, msg : Nat]
            /\ v.byte = Uint8(byte) /\ v.bit = new.bit /\ v.size = new.size
        BY <1>1, <1>2, <3>1 DEF InMessage
      <3> HIDE DEF v
      <3>3. QED
        BY <2>1, <3>2 DEF InMessage, Start, Fits
    <2>2. QED
      BY <1>2, <2>1 DEF SetBytePosition
  <1> HIDE DEF v
  <1> DEFINE w == SetBitPosition(v, Uint8(bit))
  <1>4. CASE Fits(Position(v.byte, Uint8(bit)), v.size)
    <2>1. w = [v EXCEPT !.bit = Uint8(bit)]
      BY <1>4 DEF SetBitPosition
    <2>2. /\ w \in [type : ValueTypes, byte : Int, bit : Int, size : 0..MsgBits, msg : Nat]
          /\ w.bit = Uint8(bit) /\ w.byte = v.byte /\ w.size = v.size
      BY <1>1, <1>3, <2>1 DEF InMessage
    <2> HIDE DEF w
    <2>3. w \in InMessage
      BY <1>4, <2>2 DEF InMessage, Start, Fits
    <2>4. QED
      BY <2>3 DEF w, v, new
  <1>5. CASE ~Fits(Position(v.byte, Uint8(bit)), v.size)
    <2>1. w = v
      BY <1>5 DEF SetBitPosition
    <2>2. QED
      BY <1>3, <2>1 DEF w, v, new
  <1>6. QED
    BY <1>4, <1>5

(* The steps of the loading *)
LEMMA OutStays ==
  ASSUME NEW n, NEW d \in DatabasesOf(n)
  PROVE \A out \in Outs : [d EXCEPT !.out = out] \in DatabasesOf(n)
  BY DEF DatabasesOf, Databases

LEMMA FailedStays ==
  ASSUME NEW n, NEW d \in DatabasesOf(n)
  PROVE /\ Failed(d) \in DatabasesOf(n) /\ Aborted(d) \in DatabasesOf(n)
        /\ Undefined(d) \in DatabasesOf(n)
  BY OutStays DEF Failed, Aborted, Undefined, Outs

LEMMA LoadValueStays ==
  ASSUME NEW n \in Nat \ {0}, NEW d \in DatabasesOf(n), NEW e \in ValueElement
  PROVE LoadValue(d, e) \in DatabasesOf(n)
  <1> DEFINE v == SetBitPosition(SetBytePosition(NewValue(e.type, Number(e.size), Len(d.descs)),
                                                 Uint8(Number(e.byte))), Uint8(Number(e.bit)))
             k == Len(d.vals) + 1
             more == [d EXCEPT !.vals = Append(@, v),
                               !.descs[n].values = Append(@, k),
                               !.can_msg_values = Put(@, Text(e.id), k)]
  <1>1. d \in Databases /\ Len(d.descs) = n
    BY DEF DatabasesOf
  <1>2. \/ LoadValue(d, e) \in {Aborted(d), Failed(d)}
        \/ /\ LoadValue(d, e) = more
           /\ Invalid \notin {e.byte, e.bit, e.size} /\ e.type \in ValueTypes
    BY <1>1 DEF LoadValue, AttributesRead, ValueTypes
  <1>3. ASSUME Invalid \notin {e.byte, e.bit, e.size}, e.type \in ValueTypes
        PROVE more \in DatabasesOf(n)
    <2>1. Number(e.size) \in Nat /\ Number(e.byte) \in Nat /\ Number(e.bit) \in Nat
      BY <1>3 DEF Number, ValueElement, Attribute, Absent, Invalid
    <2>2. v \in InMessage
      BY <1>1, <1>3, <2>1, ValueFits
    <2>3. k \in Nat /\ d.vals \in Seq(InMessage) /\ d.descs \in Seq(Desc)
      BY <1>1, LenProperties DEF Databases
    <2> HIDE DEF v, k
    <2>4. Append(d.vals, v) \in Seq(InMessage)
      BY <2>2, <2>3, AppendProperties
    <2>5. Put(d.can_msg_values, Text(e.id), k) \in Maps(Texts, Nat)
      <3>1. d.can_msg_values \in Maps(Texts, Nat) /\ Text(e.id) \in Texts
        BY <1>1 DEF Databases, Texts, Text, ValueElement
      <3>2. QED
        BY <2>3, <3>1, PutMaps
    <2> DEFINE descs == [d.descs EXCEPT ![n].values = Append(@, k)]
    <2>6. descs \in Seq(Desc) /\ Len(descs) = n
      <3>1. DOMAIN d.descs = 1..n /\ n \in 1..n /\ d.descs[n] \in Desc
        BY <1>1, <2>3, LenProperties, ElementOfSeq
      <3>2. Append(d.descs[n].values, k) \in Seq(Nat)
        BY <2>3, <3>1, AppendProperties DEF Desc
      <3>3. [d.descs[n] EXCEPT !.values = Append(@, k)] \in Desc
        BY <3>1, <3>2 DEF Desc
      <3>4. descs \in [1..n -> Desc]
        BY <2>3, <3>1, <3>3, ElementOfSeq
      <3> HIDE DEF descs
      <3>5. descs \in Seq(Desc)
        BY <3>4
      <3>6. QED
        BY <3>4, <3>5, LenProperties
    <2> DEFINE values == Put(d.can_msg_values, Text(e.id), k)
               vals == Append(d.vals, v)
    <2>7. d = [out |-> d.out, descs |-> d.descs, vals |-> d.vals, can_msgs |-> d.can_msgs,
               can_msg_values |-> d.can_msg_values, converters |-> d.converters]
      BY <1>1 DEF Databases
    <2>8. more = [d EXCEPT !.vals = vals, !.descs = descs, !.can_msg_values = values]
      BY <2>7
    <2> HIDE DEF more, descs, vals, values
    <2>9. more = [out |-> d.out, descs |-> descs, vals |-> vals, can_msgs |-> d.can_msgs,
                  can_msg_values |-> values, converters |-> d.converters]
      BY <2>7, <2>8
    <2> USE DEF vals, values
    <2>10. QED
      BY <1>1, <2>4, <2>5, <2>6, <2>9 DEF DatabasesOf, Databases
  <1> HIDE DEF more
  <1>4. QED
    BY <1>2, <1>3, FailedStays
-----------------------------------------------------------------------------
LEMMA FoldEnds ==
  ASSUME NEW n \in Nat, NEW V, NEW base \in V, NEW Step \in [(1..n) \X V -> V],
         NEW h, Unfolds(h, n, V, base, Step)
  PROVE h[1..n] \in V
  <1>1. RunsTo(n, V, base, Step, h[1..n])
    BY FoldRuns
  <1>2. PICK r \in [0..n -> V] : r[n] = h[1..n]
    BY <1>1 DEF RunsTo, Runs
  <1>3. QED
    BY <1>2

(* The values of a message, the messages, the converters and the signals *)
LEMMA LoadValueRuns ==
  ASSUME NEW m \in Nat \ {0}, NEW base \in DatabasesOf(m), NEW elements \in Seq(ValueElement)
  PROVE \E r \in [0..Len(elements) -> DatabasesOf(m)] :
          /\ r[0] = base /\ r[Len(elements)] = Each(LoadValue, base, elements)
          /\ \A k \in 1..Len(elements) :
               r[k] = IF r[k - 1].out = "ok" THEN LoadValue(r[k - 1], elements[k]) ELSE r[k - 1]
  <1> DEFINE n == Len(elements)
             Op(v, k) == IF v.out = "ok" THEN LoadValue(v, elements[k]) ELSE v
             Step == [p \in (1..n) \X DatabasesOf(m) |-> Op(p[2], p[1])]
             Fold(h) == h = [s \in SUBSET (1..n) |->
                               IF s = {} THEN base ELSE Op(h[s \ {Max(s)}], Max(s))]
             h == CHOOSE h : Fold(h)
  <1>1. n \in Nat /\ DOMAIN elements = 1..n
    BY LenProperties
  <1>2. ASSUME NEW v \in DatabasesOf(m), NEW k \in 1..n
        PROVE Op(v, k) \in DatabasesOf(m) /\ Step[<<k, v>>] = Op(v, k)
    <2>1. elements[k] \in ValueElement
      BY <1>1, ElementOfSeq
    <2>2. Op(v, k) \in DatabasesOf(m)
      BY <2>1, LoadValueStays
    <2>3. QED
      BY <2>2
  <1>3. Step \in [(1..n) \X DatabasesOf(m) -> DatabasesOf(m)]
    BY <1>2
  <1>4. Each(LoadValue, base, elements) = h[1..n]
    <2>1. DOMAIN elements = 1..n
      BY <1>1
    <2>2. QED
      BY <2>1, Zenon DEF Each, FoldLeft, MapThenFoldSet, Max
  <1> HIDE DEF Op, Step, n
  <1>5. \E g : Fold(g)
    <2>0. Folds(n, DatabasesOf(m), base, Step) # {}
      BY <1>1, <1>3, FoldExists
    <2>1. PICK g \in [SUBSET (1..n) -> DatabasesOf(m)] :
            \A s \in SUBSET (1..n) :
              g[s] = IF s = {} THEN base ELSE Step[<<Max(s), g[s \ {Max(s)}]>>]
      BY <2>0 DEF Folds
    <2>2. ASSUME NEW s \in (SUBSET (1..n)) \ {{}}
          PROVE g[s] = Op(g[s \ {Max(s)}], Max(s))
      <3>1. Max(s) \in 1..n /\ s \ {Max(s)} \in SUBSET (1..n)
        BY <1>1, MaxIsGreatest
      <3>2. QED
        BY <1>2, <2>1, <3>1
    <2>3. g = [s \in SUBSET (1..n) |-> IF s = {} THEN base ELSE Op(g[s \ {Max(s)}], Max(s))]
      BY <2>1, <2>2
    <2>4. QED
      BY <2>3
  <1>6. h = [s \in SUBSET (1..n) |-> IF s = {} THEN base ELSE Op(h[s \ {Max(s)}], Max(s))]
    BY <1>5, Zenon
  <1> HIDE DEF h
  <1>7. ASSUME NEW s \in (SUBSET (1..n)) \ {{}}, h[s \ {Max(s)}] \in DatabasesOf(m)
        PROVE h[s] = Step[<<Max(s), h[s \ {Max(s)}]>>]
    <2>1. Max(s) \in 1..n
      BY <1>1, MaxIsGreatest
    <2>2. h[s] = Op(h[s \ {Max(s)}], Max(s))
      BY <1>6
    <2>3. QED
      BY <1>2, <1>7, <2>1, <2>2
  <1>8. RunsTo(n, DatabasesOf(m), base, Step, h[1..n])
    <2>1. h[{}] = base
      BY <1>6
    <2>2. Unfolds(h, n, DatabasesOf(m), base, Step)
      BY <1>7, <2>1 DEF Unfolds
    <2>3. QED
      BY <1>1, <1>3, <2>2, FoldRuns
  <1>9. PICK r \in [0..n -> DatabasesOf(m)] :
          /\ r[0] = base /\ r[n] = h[1..n]
          /\ \A k \in 1..n : r[k] = Step[<<k, r[k - 1]>>]
    BY <1>8 DEF RunsTo, Runs
  <1>10. ASSUME NEW k \in 1..n
         PROVE r[k] = Op(r[k - 1], k)
    <2>1. k - 1 \in 0..n
      BY <1>1
    <2>2. r[k - 1] \in DatabasesOf(m)
      BY <1>9, <2>1
    <2>3. QED
      BY <1>2, <1>9, <2>2
  <1>11. QED
    BY <1>4, <1>9, <1>10 DEF n, Op

LEMMA EachValue ==
  ASSUME NEW m \in Nat \ {0}, NEW base \in DatabasesOf(m), NEW elements \in Seq(ValueElement)
  PROVE Each(LoadValue, base, elements) \in DatabasesOf(m)
  <1>1. Len(elements) \in 0..Len(elements)
    BY LenProperties
  <1>2. PICK r \in [0..Len(elements) -> DatabasesOf(m)] :
          /\ r[0] = base /\ r[Len(elements)] = Each(LoadValue, base, elements)
          /\ \A k \in 1..Len(elements) :
               r[k] = IF r[k - 1].out = "ok" THEN LoadValue(r[k - 1], elements[k]) ELSE r[k - 1]
    BY LoadValueRuns
  <1>3. QED
    BY <1>1, <1>2

LEMMA MessageIdIsInt ==
  ASSUME NEW e \in MessageElement, e.id \notin {Invalid, Absent}
  PROVE MessageId(e.id) \in Int /\ e.values \in Seq(ValueElement)
  <1>1. e.id \in Nat /\ e.values \in Seq(ValueElement)
    BY DEF MessageElement, Attribute
  <1>2. 2^IdBits \in Nat \ {0}
    BY Powers
  <1>3. QED
    BY <1>1, <1>2 DEF MessageId

LEMMA LoadMessageStays ==
  ASSUME NEW d \in Databases, NEW e \in MessageElement
  PROVE LoadMessage(d, e) \in Databases
  <1> DEFINE num == MessageId(e.id)
             desc == [id |-> num, values |-> <<>>, signals |-> <<>>]
             new == [d EXCEPT !.descs = Append(@, desc)]
             m == Len(d.descs) + 1
             loaded == Each(LoadValue, new, e.values)
             kept == [loaded EXCEPT !.can_msgs = Put(@, num, m)]
  <1>1. Failed(d) \in Databases /\ Aborted(d) \in Databases
    <2>1. d \in DatabasesOf(Len(d.descs))
      BY DEF DatabasesOf
    <2>2. QED
      BY <2>1, FailedStays DEF DatabasesOf
  <1>2. CASE e.id \in {Invalid, Absent} \/ e.extended = "maybe"
    BY <1>1, <1>2 DEF LoadMessage
  <1>3. CASE ~(e.id \in {Invalid, Absent} \/ e.extended = "maybe")
    <2>1. e.values \in Seq(ValueElement) /\ num \in Int
      BY <1>3, MessageIdIsInt
    <2> HIDE DEF num
    <2>2. d.descs \in Seq(Desc) /\ desc \in Desc
      BY <2>1 DEF Databases, Desc
    <2> HIDE DEF desc
    <2>3. /\ Append(d.descs, desc) \in Seq(Desc) /\ Len(Append(d.descs, desc)) = m
          /\ m \in Nat \ {0} /\ Len(d.descs) \in Nat
      BY <2>2, AppendProperties, LenProperties
    <2>4. new \in DatabasesOf(m)
      <3> DEFINE descs == Append(d.descs, desc)
      <3> HIDE DEF descs, m
      <3>1. descs \in Seq(Desc) /\ Len(descs) = m
        BY <2>3 DEF descs
      <3>2. \A id \in DOMAIN d.can_msgs : d.can_msgs[id] \in 1..m
        BY <2>3 DEF Databases, m
      <3>3. QED
        BY <3>1, <3>2 DEF DatabasesOf, Databases, descs
    <2>5. Len(new.descs) = m
      BY <2>4 DEF DatabasesOf
    <2> HIDE DEF new, m
    <2>6. loaded \in DatabasesOf(m)
      BY <2>1, <2>3, <2>4, EachValue
    <2>7. LoadMessage(d, e) = kept
      BY <1>3, <2>5 DEF LoadMessage, new, desc, num
    <2> HIDE DEF loaded
    <2>8. /\ Put(loaded.can_msgs, num, m) \in Maps(Int, Nat)
          /\ \A id \in DOMAIN Put(loaded.can_msgs, num, m) :
               Put(loaded.can_msgs, num, m)[id] \in 1..m
      <3> DEFINE map == loaded.can_msgs
                 more == Put(map, num, m)
      <3>1. map \in Maps(Int, Nat) /\ \A id \in DOMAIN map : map[id] \in 1..m
        BY <2>6 DEF DatabasesOf, Databases
      <3>2. num \in Int /\ m \in Nat /\ m \in 1..m
        BY <2>1, <2>3
      <3> HIDE DEF map
      <3>3. /\ more \in Maps(Int, Nat) /\ DOMAIN more = DOMAIN map \union {num}
            /\ \A id \in DOMAIN map \union {num} :
                 more[id] = IF id = num THEN m ELSE map[id]
        <4>1. map \in Maps(Int, Nat) /\ num \in Int /\ m \in Nat
          BY <3>1, <3>2
        <4>2. more \in Maps(Int, Nat)
          BY <4>1, PutMaps
        <4>3. DOMAIN more = DOMAIN map \union {num}
          BY DEF Put
        <4>4. \A id \in DOMAIN map \union {num} :
                more[id] = IF id = num THEN m ELSE map[id]
          BY DEF Put
        <4>5. QED
          BY <4>2, <4>3, <4>4
      <3> HIDE DEF more
      <3>4. more \in Maps(Int, Nat) /\ \A id \in DOMAIN more : more[id] \in 1..m
        BY <3>1, <3>2, <3>3
      <3>5. QED
        BY <3>4 DEF more, map
    <2> DEFINE msgs == Put(loaded.can_msgs, num, m)
    <2> HIDE DEF msgs
    <2>9. kept = [loaded EXCEPT !.can_msgs = msgs]
      BY DEF msgs
    <2>10. kept \in Databases
      BY <2>6, <2>8, <2>9 DEF DatabasesOf, Databases, msgs
    <2>11. QED
      BY <2>7, <2>10
  <1>4. QED
    BY <1>2, <1>3

LEMMA LoadMessageRuns ==
  ASSUME NEW base \in Databases, NEW elements \in Seq(MessageElement)
  PROVE \E r \in [0..Len(elements) -> Databases] :
          /\ r[0] = base /\ r[Len(elements)] = Each(LoadMessage, base, elements)
          /\ \A k \in 1..Len(elements) :
               r[k] = IF r[k - 1].out = "ok" THEN LoadMessage(r[k - 1], elements[k]) ELSE r[k - 1]
  <1> DEFINE n == Len(elements)
             Op(v, k) == IF v.out = "ok" THEN LoadMessage(v, elements[k]) ELSE v
             Step == [p \in (1..n) \X Databases |-> Op(p[2], p[1])]
             Fold(h) == h = [s \in SUBSET (1..n) |->
                               IF s = {} THEN base ELSE Op(h[s \ {Max(s)}], Max(s))]
             h == CHOOSE h : Fold(h)
  <1>1. n \in Nat /\ DOMAIN elements = 1..n
    BY LenProperties
  <1>2. ASSUME NEW v \in Databases, NEW k \in 1..n
        PROVE Op(v, k) \in Databases /\ Step[<<k, v>>] = Op(v, k)
    <2>1. elements[k] \in MessageElement
      BY <1>1, ElementOfSeq
    <2>2. Op(v, k) \in Databases
      BY <2>1, LoadMessageStays
    <2>3. QED
      BY <2>2
  <1>3. Step \in [(1..n) \X Databases -> Databases]
    BY <1>2
  <1>4. Each(LoadMessage, base, elements) = h[1..n]
    <2>1. DOMAIN elements = 1..n
      BY <1>1
    <2>2. QED
      BY <2>1, Zenon DEF Each, FoldLeft, MapThenFoldSet, Max
  <1> HIDE DEF Op, Step, n
  <1>5. \E g : Fold(g)
    <2>0. Folds(n, Databases, base, Step) # {}
      BY <1>1, <1>3, FoldExists
    <2>1. PICK g \in [SUBSET (1..n) -> Databases] :
            \A s \in SUBSET (1..n) :
              g[s] = IF s = {} THEN base ELSE Step[<<Max(s), g[s \ {Max(s)}]>>]
      BY <2>0 DEF Folds
    <2>2. ASSUME NEW s \in (SUBSET (1..n)) \ {{}}
          PROVE g[s] = Op(g[s \ {Max(s)}], Max(s))
      <3>1. Max(s) \in 1..n /\ s \ {Max(s)} \in SUBSET (1..n)
        BY <1>1, MaxIsGreatest
      <3>2. QED
        BY <1>2, <2>1, <3>1
    <2>3. g = [s \in SUBSET (1..n) |-> IF s = {} THEN base ELSE Op(g[s \ {Max(s)}], Max(s))]
      BY <2>1, <2>2
    <2>4. QED
      BY <2>3
  <1>6. h = [s \in SUBSET (1..n) |-> IF s = {} THEN base ELSE Op(h[s \ {Max(s)}], Max(s))]
    BY <1>5, Zenon
  <1> HIDE DEF h
  <1>7. ASSUME NEW s \in (SUBSET (1..n)) \ {{}}, h[s \ {Max(s)}] \in Databases
        PROVE h[s] = Step[<<Max(s), h[s \ {Max(s)}]>>]
    <2>1. Max(s) \in 1..n
      BY <1>1, MaxIsGreatest
    <2>2. h[s] = Op(h[s \ {Max(s)}], Max(s))
      BY <1>6
    <2>3. QED
      BY <1>2, <1>7, <2>1, <2>2
  <1>8. RunsTo(n, Databases, base, Step, h[1..n])
    <2>1. h[{}] = base
      BY <1>6
    <2>2. Unfolds(h, n, Databases, base, Step)
      BY <1>7, <2>1 DEF Unfolds
    <2>3. QED
      BY <1>1, <1>3, <2>2, FoldRuns
  <1>9. PICK r \in [0..n -> Databases] :
          /\ r[0] = base /\ r[n] = h[1..n]
          /\ \A k \in 1..n : r[k] = Step[<<k, r[k - 1]>>]
    BY <1>8 DEF RunsTo, Runs
  <1>10. ASSUME NEW k \in 1..n
         PROVE r[k] = Op(r[k - 1], k)
    <2>1. k - 1 \in 0..n
      BY <1>1
    <2>2. r[k - 1] \in Databases
      BY <1>9, <2>1
    <2>3. QED
      BY <1>2, <1>9, <2>2
  <1>11. QED
    BY <1>4, <1>9, <1>10 DEF n, Op
-----------------------------------------------------------------------------
Enumerations == [out : {"ok", "failed", "aborted"}, enum : Maps(Int, Texts)]

LEMMA EachMessage ==
  ASSUME NEW base \in Databases, NEW elements \in Seq(MessageElement)
  PROVE Each(LoadMessage, base, elements) \in Databases
  <1>1. Len(elements) \in 0..Len(elements)
    BY LenProperties
  <1>2. PICK r \in [0..Len(elements) -> Databases] :
          /\ r[0] = base /\ r[Len(elements)] = Each(LoadMessage, base, elements)
          /\ \A k \in 1..Len(elements) :
               r[k] = IF r[k - 1].out = "ok" THEN LoadMessage(r[k - 1], elements[k]) ELSE r[k - 1]
    BY LoadMessageRuns
  <1>3. QED
    BY <1>1, <1>2

LEMMA LoadEnumStays ==
  ASSUME NEW c \in Enumerations, NEW e \in EnumElement
  PROVE LoadEnum(c, e) \in Enumerations
  <1> DEFINE more == Put(c.enum, e.id, e.value)
  <1>1. more \in Maps(Int, Texts)
    <2>1. c.enum \in Maps(Int, Texts) /\ e.id \in Int /\ e.value \in Texts
      BY DEF Enumerations, EnumElement, Texts
    <2>2. QED
      BY <2>1, PutMaps
  <1> HIDE DEF more
  <1>2. [c EXCEPT !.enum = more] \in Enumerations
    BY <1>1 DEF Enumerations
  <1>3. Aborted(c) \in Enumerations /\ Failed(c) \in Enumerations
    BY DEF Enumerations, Aborted, Failed
  <1>4. LoadEnum(c, e) \in {Aborted(c), Failed(c), [c EXCEPT !.enum = more]}
    BY DEF LoadEnum, more
  <1>5. QED
    BY <1>2, <1>3, <1>4

LEMMA EachEnum ==
  ASSUME NEW base \in Enumerations, NEW elements \in Seq(EnumElement)
  PROVE Each(LoadEnum, base, elements) \in Enumerations
  <1> DEFINE n == Len(elements)
             Op(v, k) == IF v.out = "ok" THEN LoadEnum(v, elements[k]) ELSE v
             Step == [p \in (1..n) \X Enumerations |-> Op(p[2], p[1])]
             Fold(h) == h = [s \in SUBSET (1..n) |->
                               IF s = {} THEN base ELSE Op(h[s \ {Max(s)}], Max(s))]
             h == CHOOSE h : Fold(h)
  <1>1. n \in Nat /\ DOMAIN elements = 1..n
    BY LenProperties
  <1>2. ASSUME NEW v \in Enumerations, NEW k \in 1..n
        PROVE Op(v, k) \in Enumerations /\ Step[<<k, v>>] = Op(v, k)
    <2>1. elements[k] \in EnumElement
      BY <1>1, ElementOfSeq
    <2>2. Op(v, k) \in Enumerations
      BY <2>1, LoadEnumStays
    <2>3. QED
      BY <2>2
  <1>3. Step \in [(1..n) \X Enumerations -> Enumerations]
    BY <1>2
  <1>4. Each(LoadEnum, base, elements) = h[1..n]
    <2>1. DOMAIN elements = 1..n
      BY <1>1
    <2>2. QED
      BY <2>1, Zenon DEF Each, FoldLeft, MapThenFoldSet, Max
  <1> HIDE DEF Op, Step, n
  <1>5. \E g : Fold(g)
    <2>0. Folds(n, Enumerations, base, Step) # {}
      BY <1>1, <1>3, FoldExists
    <2>1. PICK g \in [SUBSET (1..n) -> Enumerations] :
            \A s \in SUBSET (1..n) :
              g[s] = IF s = {} THEN base ELSE Step[<<Max(s), g[s \ {Max(s)}]>>]
      BY <2>0 DEF Folds
    <2>2. ASSUME NEW s \in (SUBSET (1..n)) \ {{}}
          PROVE g[s] = Op(g[s \ {Max(s)}], Max(s))
      <3>1. Max(s) \in 1..n /\ s \ {Max(s)} \in SUBSET (1..n)
        BY <1>1, MaxIsGreatest
      <3>2. QED
        BY <1>2, <2>1, <3>1
    <2>3. g = [s \in SUBSET (1..n) |-> IF s = {} THEN base ELSE Op(g[s \ {Max(s)}], Max(s))]
      BY <2>1, <2>2
    <2>4. QED
      BY <2>3
  <1>6. h = [s \in SUBSET (1..n) |-> IF s = {} THEN base ELSE Op(h[s \ {Max(s)}], Max(s))]
    BY <1>5, Zenon
  <1> HIDE DEF h
  <1>7. ASSUME NEW s \in (SUBSET (1..n)) \ {{}}, h[s \ {Max(s)}] \in Enumerations
        PROVE h[s] = Step[<<Max(s), h[s \ {Max(s)}]>>]
    <2>1. Max(s) \in 1..n
      BY <1>1, MaxIsGreatest
    <2>2. h[s] = Op(h[s \ {Max(s)}], Max(s))
      BY <1>6
    <2>3. QED
      BY <1>2, <1>7, <2>1, <2>2
  <1>8. h[1..n] \in Enumerations
    <2>1. h[{}] = base
      BY <1>6
    <2>2. Unfolds(h, n, Enumerations, base, Step)
      BY <1>7, <2>1 DEF Unfolds
    <2>3. QED
      BY <1>1, <1>3, <2>2, FoldEnds
  <1>9. QED
    BY <1>4, <1>8

(* Converters and signals change no value. *)
SameValues(d) ==
  {c \in Databases : c.vals = d.vals /\ c.can_msg_values = d.can_msg_values}

LEMMA FailedIsSame ==
  ASSUME NEW d \in Databases
  PROVE Failed(d) \in SameValues(d) /\ Undefined(d) \in SameValues(d)
  <1>1. d \in DatabasesOf(Len(d.descs))
    BY DEF DatabasesOf
  <1>2. Failed(d) \in Databases /\ Undefined(d) \in Databases
    BY <1>1, FailedStays DEF DatabasesOf
  <1>3. /\ Failed(d).vals = d.vals /\ Failed(d).can_msg_values = d.can_msg_values
        /\ Undefined(d).vals = d.vals /\ Undefined(d).can_msg_values = d.can_msg_values
    BY DEF Failed, Undefined, Databases
  <1>4. QED
    BY <1>2, <1>3 DEF SameValues

LEMMA LoadConverterStays ==
  ASSUME NEW d \in Databases, NEW e \in ConverterElement
  PROVE LoadConverter(d, e) \in SameValues(d)
  <1> DEFINE c == IF e.type = "enum_converter" THEN EnumConverter(e) ELSE FunctionConverter(e)
             map == IF c.out = "ok" THEN Put(d.converters, e.id, c) ELSE d.converters
  <1>1. CASE e.id = None \/ e.type \notin {"enum_converter", "function_converter"}
    BY <1>1, FailedIsSame DEF LoadConverter
  <1>2. CASE ~(e.id = None \/ e.type \notin {"enum_converter", "function_converter"})
    <2>1. e.type \in {"enum_converter", "function_converter"} /\ e.id \in STRING
          /\ e.enums \in Seq(EnumElement)
      BY <1>2 DEF ConverterElement
    <2>2. NoFunction \in Trees
      BY DEF Trees
    <2>3. EnumConverter(e) \in Converter
      <3> DEFINE none == [id \in {} |-> ""]
                 base == [out |-> "ok", enum |-> none]
                 loaded == Each(LoadEnum, base, e.enums)
      <3>1. none \in Maps(Int, Texts)
        BY NoMaps
      <3> HIDE DEF none
      <3>2. base \in Enumerations
        BY <3>1 DEF Enumerations
      <3> HIDE DEF base
      <3>3. loaded \in Enumerations
        BY <2>1, <3>2, EachEnum
      <3>4. EnumConverter(e) = [out |-> loaded.out, type |-> e.type, enum |-> loaded.enum,
                                tree |-> NoFunction]
        BY DEF EnumConverter, base, none
      <3> HIDE DEF loaded
      <3>5. QED
        BY <2>1, <2>2, <3>3, <3>4 DEF Enumerations, Converter, Outs
    <2>4. FunctionConverter(e) \in Converter
      <3> DEFINE none == [id \in {} |-> ""]
                 f == IF e.f = {} THEN [out |-> "failed", tree |-> NoFunction]
                      ELSE ParseFunction(CHOOSE items \in e.f : TRUE)
      <3>1. none \in Maps(Int, Texts)
        BY NoMaps
      <3>2. f.out \in Outs /\ f.tree \in Trees
        <4>1. CASE e.f = {}
          BY <2>2, <4>1 DEF Outs
        <4>2. CASE e.f # {}
          <5> DEFINE items == CHOOSE items \in e.f : TRUE
          <5>1. items \in e.f
            BY <4>2
          <5>2. f = ParseFunction(items)
            BY <4>2
          <5> HIDE DEF items
          <5>3. items \in Seq(STRING) /\ ParseFunction(items).out \in Outs
            BY <5>1 DEF ConverterElement, Outs
          <5>4. ParseFunction(items).tree \in Trees
            BY <5>3 DEF Trees
          <5>5. QED
            BY <5>2, <5>3, <5>4
        <4>3. QED
          BY <4>1, <4>2
      <3>3. FunctionConverter(e) = [out |-> f.out, type |-> e.type, enum |-> none,
                                    tree |-> f.tree]
        BY DEF FunctionConverter
      <3> HIDE DEF none, f
      <3>4. QED
        BY <2>1, <3>1, <3>2, <3>3 DEF Converter
    <2>5. c \in Converter
      BY <2>3, <2>4
    <2>6. LoadConverter(d, e) = [d EXCEPT !.out = c.out, !.converters = map]
      BY <1>2 DEF LoadConverter
    <2> HIDE DEF c
    <2>7. map \in Maps(STRING, Converter)
      <3>1. d.converters \in Maps(STRING, Converter)
        BY DEF Databases
      <3>2. Put(d.converters, e.id, c) \in Maps(STRING, Converter)
        BY <2>1, <2>5, <3>1, PutMaps
      <3>3. QED
        BY <3>1, <3>2
    <2> HIDE DEF map
    <2>8. c.out \in Outs
      BY <2>5 DEF Converter
    <2>9. QED
      BY <2>6, <2>7, <2>8 DEF Databases, SameValues
  <1>3. QED
    BY <1>1, <1>2

LEMMA EachConverter ==
  ASSUME NEW base \in Databases, NEW elements \in Seq(ConverterElement)
  PROVE Each(LoadConverter, base, elements) \in SameValues(base)
  <1> DEFINE Same == SameValues(base)
             n == Len(elements)
             Op(v, k) == IF v.out = "ok" THEN LoadConverter(v, elements[k]) ELSE v
             Step == [p \in (1..n) \X Same |-> Op(p[2], p[1])]
             Fold(h) == h = [s \in SUBSET (1..n) |->
                               IF s = {} THEN base ELSE Op(h[s \ {Max(s)}], Max(s))]
             h == CHOOSE h : Fold(h)
  <1>1. n \in Nat /\ DOMAIN elements = 1..n
    BY LenProperties
  <1>2. ASSUME NEW v \in Same, NEW k \in 1..n
        PROVE Op(v, k) \in Same /\ Step[<<k, v>>] = Op(v, k)
    <2>1. elements[k] \in ConverterElement
      BY <1>1, ElementOfSeq
    <2>2. Op(v, k) \in Same
      BY <2>1, LoadConverterStays DEF SameValues
    <2>3. QED
      BY <2>2
  <1>3. Step \in [(1..n) \X Same -> Same]
    BY <1>2
  <1>4. Each(LoadConverter, base, elements) = h[1..n]
    <2>1. DOMAIN elements = 1..n
      BY <1>1
    <2>2. QED
      BY <2>1, Zenon DEF Each, FoldLeft, MapThenFoldSet, Max
  <1>0. base \in Same
    BY DEF SameValues
  <1> HIDE DEF Op, Step, n, Same
  <1>5. \E g : Fold(g)
    <2>0. Folds(n, Same, base, Step) # {}
      BY <1>0, <1>1, <1>3, FoldExists
    <2>1. PICK g \in [SUBSET (1..n) -> Same] :
            \A s \in SUBSET (1..n) :
              g[s] = IF s = {} THEN base ELSE Step[<<Max(s), g[s \ {Max(s)}]>>]
      BY <2>0 DEF Folds
    <2>2. ASSUME NEW s \in (SUBSET (1..n)) \ {{}}
          PROVE g[s] = Op(g[s \ {Max(s)}], Max(s))
      <3>1. Max(s) \in 1..n /\ s \ {Max(s)} \in SUBSET (1..n)
        BY <1>1, MaxIsGreatest
      <3>2. QED
        BY <1>2, <2>1, <3>1
    <2>3. g = [s \in SUBSET (1..n) |-> IF s = {} THEN base ELSE Op(g[s \ {Max(s)}], Max(s))]
      BY <2>1, <2>2
    <2>4. QED
      BY <2>3
  <1>6. h = [s \in SUBSET (1..n) |-> IF s = {} THEN base ELSE Op(h[s \ {Max(s)}], Max(s))]
    BY <1>5, Zenon
  <1> HIDE DEF h
  <1>7. ASSUME NEW s \in (SUBSET (1..n)) \ {{}}, h[s \ {Max(s)}] \in Same
        PROVE h[s] = Step[<<Max(s), h[s \ {Max(s)}]>>]
    <2>1. Max(s) \in 1..n
      BY <1>1, MaxIsGreatest
    <2>2. h[s] = Op(h[s \ {Max(s)}], Max(s))
      BY <1>6
    <2>3. QED
      BY <1>2, <1>7, <2>1, <2>2
  <1>8. h[1..n] \in Same
    <2>1. h[{}] = base
      BY <1>6
    <2>2. Unfolds(h, n, Same, base, Step)
      BY <1>7, <2>1 DEF Unfolds
    <2>3. QED
      BY <1>0, <1>1, <1>3, <2>2, FoldEnds
  <1>9. QED
    BY <1>4, <1>8 DEF Same

LEMMA LoadSignalStays ==
  ASSUME NEW d \in Databases, NEW e \in SignalElement, NEW zeroes
  PROVE LoadSignal(d, e, zeroes) \in SameValues(d)
  <1> DEFINE signal == [name |-> e.id, value |-> d.can_msg_values[e.value],
                        converter |-> Text(e.converter)]
             m == d.vals[signal.value].msg
             more == [d EXCEPT !.descs[m].signals = Append(@, signal)]
  <1>1. Failed(d) \in SameValues(d) /\ Undefined(d) \in SameValues(d)
    BY FailedIsSame
  <1>2. \/ LoadSignal(d, e, zeroes) \in {Failed(d), Undefined(d)}
        \/ e.value \in DOMAIN d.can_msg_values /\ LoadSignal(d, e, zeroes) = AddSignal(d, signal)
    BY Zenon DEF LoadSignal
  <1>3. ASSUME e.value \in DOMAIN d.can_msg_values, m \in Range(d.can_msgs)
        PROVE more \in SameValues(d)
    <2>1. signal \in Signal
      <3>1. d.can_msg_values[e.value] \in Nat
        <4>1. PICK S \in SUBSET Texts : d.can_msg_values \in [S -> Nat]
          BY DEF Databases, Maps
        <4>2. QED
          BY <1>3, <4>1
      <3>2. Text(e.converter) \in Texts /\ e.id \in STRING
        BY DEF SignalElement, Text, Texts
      <3>3. QED
        BY <3>1, <3>2 DEF Signal
    <2>2. m \in 1..Len(d.descs) /\ d.descs \in Seq(Desc)
      BY <1>3 DEF Databases, Range
    <2> HIDE DEF m, signal
    <2> DEFINE n == Len(d.descs)
               descs == [d.descs EXCEPT ![m].signals = Append(@, signal)]
    <2>3. descs \in Seq(Desc) /\ Len(descs) = n
      <3>1. n \in Nat /\ DOMAIN d.descs = 1..n /\ d.descs[m] \in Desc
        BY <2>2, LenProperties, ElementOfSeq
      <3>2. Append(d.descs[m].signals, signal) \in Seq(Signal)
        BY <2>1, <3>1, AppendProperties DEF Desc
      <3>3. [d.descs[m] EXCEPT !.signals = Append(@, signal)] \in Desc
        BY <3>1, <3>2 DEF Desc
      <3>4. descs \in [1..n -> Desc]
        BY <2>2, <3>1, <3>3, ElementOfSeq
      <3> HIDE DEF descs, n
      <3>5. descs \in Seq(Desc)
        BY <3>1, <3>4
      <3>6. QED
        BY <3>1, <3>4, <3>5, LenProperties
    <2>4. more = [d EXCEPT !.descs = descs]
      BY DEF Databases
    <2> HIDE DEF descs
    <2>5. QED
      BY <2>3, <2>4 DEF Databases, SameValues
  <1>4. AddSignal(d, signal) = IF m \notin Range(d.can_msgs) THEN Undefined(d) ELSE more
    BY Zenon DEF AddSignal
  <1> HIDE DEF more, m, signal
  <1>5. QED
    BY <1>1, <1>2, <1>3, <1>4

LoadSignals(base, elements, zeroes) == Each(LAMBDA d, e : LoadSignal(d, e, zeroes), base, elements)

LEMMA EachSignal ==
  ASSUME NEW zeroes, NEW base \in Databases, NEW elements \in Seq(SignalElement)
  PROVE LoadSignals(base, elements, zeroes) \in SameValues(base)
  <1> DEFINE Same == SameValues(base)
             n == Len(elements)
             Op(v, k) == IF v.out = "ok" THEN LoadSignal(v, elements[k], zeroes) ELSE v
             Step == [p \in (1..n) \X Same |-> Op(p[2], p[1])]
             Fold(h) == h = [s \in SUBSET (1..n) |->
                               IF s = {} THEN base ELSE Op(h[s \ {Max(s)}], Max(s))]
             h == CHOOSE h : Fold(h)
  <1>1. n \in Nat /\ DOMAIN elements = 1..n
    BY LenProperties
  <1>2. ASSUME NEW v \in Same, NEW k \in 1..n
        PROVE Op(v, k) \in Same /\ Step[<<k, v>>] = Op(v, k)
    <2>1. elements[k] \in SignalElement
      BY <1>1, ElementOfSeq
    <2>2. Op(v, k) \in Same
      BY <2>1, LoadSignalStays DEF SameValues
    <2>3. QED
      BY <2>2
  <1>3. Step \in [(1..n) \X Same -> Same]
    BY <1>2
  <1>4. LoadSignals(base, elements, zeroes) = h[1..n]
    <2>1. DOMAIN elements = 1..n
      BY <1>1
    <2>2. QED
      BY <2>1, Zenon DEF LoadSignals, Each, FoldLeft, MapThenFoldSet, Max
  <1>0. base \in Same
    BY DEF SameValues
  <1> HIDE DEF Op, Step, n, Same
  <1>5. \E g : Fold(g)
    <2>0. Folds(n, Same, base, Step) # {}
      BY <1>0, <1>1, <1>3, FoldExists
    <2>1. PICK g \in [SUBSET (1..n) -> Same] :
            \A s \in SUBSET (1..n) :
              g[s] = IF s = {} THEN base ELSE Step[<<Max(s), g[s \ {Max(s)}]>>]
      BY <2>0 DEF Folds
    <2>2. ASSUME NEW s \in (SUBSET (1..n)) \ {{}}
          PROVE g[s] = Op(g[s \ {Max(s)}], Max(s))
      <3>1. Max(s) \in 1..n /\ s \ {Max(s)} \in SUBSET (1..n)
        BY <1>1, MaxIsGreatest
      <3>2. QED
        BY <1>2, <2>1, <3>1
    <2>3. g = [s \in SUBSET (1..n) |-> IF s = {} THEN base ELSE Op(g[s \ {Max(s)}], Max(s))]
      BY <2>1, <2>2
    <2>4. QED
      BY <2>3
  <1>6. h = [s \in SUBSET (1..n) |-> IF s = {} THEN base ELSE Op(h[s \ {Max(s)}], Max(s))]
    BY <1>5, Zenon
  <1> HIDE DEF h
  <1>7. ASSUME NEW s \in (SUBSET (1..n)) \ {{}}, h[s \ {Max(s)}] \in Same
        PROVE h[s] = Step[<<Max(s), h[s \ {Max(s)}]>>]
    <2>1. Max(s) \in 1..n
      BY <1>1, MaxIsGreatest
    <2>2. h[s] = Op(h[s \ {Max(s)}], Max(s))
      BY <1>6
    <2>3. QED
      BY <1>2, <1>7, <2>1, <2>2
  <1>8. h[1..n] \in Same
    <2>1. h[{}] = base
      BY <1>6
    <2>2. Unfolds(h, n, Same, base, Step)
      BY <1>7, <2>1 DEF Unfolds
    <2>3. QED
      BY <1>0, <1>1, <1>3, <2>2, FoldEnds
  <1>9. QED
    BY <1>4, <1>8 DEF Same

LEMMA NoDatabaseIsOne == NoDatabase \in Databases
  <1> DEFINE none == [id \in {} |-> 0]
  <1>1. /\ none \in Maps(Int, Nat) /\ none \in Maps(Texts, Nat)
        /\ none \in Maps(STRING, Converter) /\ DOMAIN none = {}
    BY NoMaps
  <1> HIDE DEF none
  <1>2. <<>> \in Seq(Desc) /\ <<>> \in Seq(InMessage)
    OBVIOUS
  <1>3. NoDatabase = [out |-> "ok", descs |-> <<>>, vals |-> <<>>, can_msgs |-> none,
                      can_msg_values |-> none, converters |-> none]
    BY DEF NoDatabase, none
  <1>4. QED
    BY <1>1, <1>2, <1>3 DEF Databases, Outs

(* The elements of a file are typed. *)
LEMMA FileTyped ==
  ASSUME NEW file, FileOK(file)
  PROVE /\ file.messages \in Seq(MessageElement)
        /\ file.signals \in Seq(SignalElement) /\ file.converters \in Seq(ConverterElement)
  <1>1. file.messages \in Seq(MessageElement) /\ file.signals \in Seq(SignalElement)
    BY DEF FileOK, MessageElement, ValueElement, SignalElement
  <1>2. file.converters \in Seq(ConverterElement)
    <2> DEFINE s == file.converters
               A == [id : STRING, type : STRING, enums : Seq(EnumElement),
                     f : SUBSET Seq(STRING)]
    <2>1. s \in Seq(A) /\ \A e \in Range(s) : \A items \in e.f :
            ParseFunction(items).out \in {"ok", "failed", "undefined"}
      BY DEF FileOK, EnumElement
    <2> HIDE DEF s, A
    <2>2. \A i \in 1..Len(s) : s[i] \in A /\ s[i] \in Range(s)
      BY <2>1, ElementOfSeq, LenProperties DEF Range
    <2>3. \A i \in 1..Len(s) : s[i] \in ConverterElement
      BY <2>1, <2>2 DEF ConverterElement, A
    <2>4. s \in [1..Len(s) -> ConverterElement] /\ Len(s) \in Nat
      BY <2>1, <2>3, LenProperties
    <2>5. s \in Seq(ConverterElement)
      BY <2>4
    <2>6. QED
      BY <2>5 DEF s
  <1>3. QED
    BY <1>1, <1>2

(* Whatever the file, a value lies within its message. *)
LEMMA LoadStays ==
  ASSUME NEW file, FileOK(file), NEW zeroes
  PROVE Load(file, zeroes) \in Databases
  <1>1. NoDatabase \in Databases
    BY NoDatabaseIsOne
  <1>2. \A d \in Databases : Failed(d) \in Databases
    <2>1. \A d \in Databases : d \in DatabasesOf(Len(d.descs))
      BY DEF DatabasesOf
    <2>2. QED
      BY <2>1, FailedStays DEF DatabasesOf
  <1>3. /\ file.messages \in Seq(MessageElement) /\ file.signals \in Seq(SignalElement)
        /\ file.converters \in Seq(ConverterElement)
    BY FileTyped
  <1> DEFINE msgs == IF "messages" \in file.has
                         THEN Each(LoadMessage, NoDatabase, file.messages)
                         ELSE Failed(NoDatabase)
             convs == IF msgs.out # "ok" THEN msgs
                           ELSE IF "converters" \in file.has
                                THEN Each(LoadConverter, msgs, file.converters)
                                ELSE msgs
             sigs == IF convs.out # "ok" THEN convs
                        ELSE IF "signals" \in file.has
                             THEN LoadSignals(convs, file.signals, zeroes)
                             ELSE Failed(convs)
  <1>4. msgs \in Databases
    BY <1>1, <1>2, <1>3, EachMessage
  <1>5. NoDatabase.out = "ok"
    BY DEF NoDatabase
  <1>6. Load(file, zeroes) = sigs
    BY <1>5, Zenon DEF Load, LoadSignals
  <1> HIDE DEF msgs
  <1>7. convs \in Databases
    BY <1>3, <1>4, EachConverter DEF SameValues
  <1> HIDE DEF convs
  <1>8. sigs \in Databases
    BY <1>2, <1>3, <1>7, EachSignal DEF SameValues
  <1>9. QED
    BY <1>6, <1>8
-----------------------------------------------------------------------------
Shorts == 0..(2^Width.uint16 - 1)
Controllers ==
  {"none", "created", "opened", "configured", "started", "stopped", "closed", "deleted"}

(* What was kept for the options of a name that takes numbers is numbers. *)
KeptInv ==
  \A name \in DOMAIN m_values :
    Takes(name, {"uint16", "uint32"}) => m_values[name] \in Seq(Int)

TypesInv ==
  /\ m_args_presence \subseteq DOMAIN args /\ KeptInv
  /\ db \in Databases /\ controller \in Controllers /\ port \in Shorts

LEMMA ShortsAreTypes == 0 \in Shorts /\ \A n \in Int : n % 2^Width.uint16 \in Shorts
  <1>1. 2^Width["uint16"] \in Nat \ {0}
    BY PowersOfWidths, ArgParserAssumption
  <1>2. QED
    BY <1>1 DEF Shorts

LEMMA NumbersAreConverted ==
  ASSUME NEW type \in {"uint16", "uint32"}, NEW w \in CommandWord
  PROVE Convert(type, w) \subseteq Int
  <1>1. 2^Width["uint64"] \in Nat \ {0}
    BY PowersOfWidths, ArgParserAssumption
  <1>2. Stoull(w) \subseteq Int
    BY <1>1 DEF Stoull, CommandWord, NoNumber
  <1>3. Convert(type, w) = ConvertUint(type, w)
    BY ArgParserAssumption DEF Convert
  <1>4. QED
    BY <1>2, <1>3 DEF ConvertUint

LEMMA InitTypes == ToolOK /\ ToolInit => TypesInv
  BY NoDatabaseIsOne, ShortsAreTypes DEF ToolInit, Init, TypesInv, KeptInv, Controllers

LEMMA KeepsNumbers ==
  ASSUME IInv, KeptInv, m_args_presence \subseteq DOMAIN args, ParseWords
  PROVE KeptInv' /\ m_args_presence' \subseteq DOMAIN args'
  <1>1. args' = args /\ argv' = argv
    BY DEF ParseWords, UnknownOption, HelpOption, Option, Parameter, InvalidParameter,
           EndOfParameters, EndOfLine, Refuse
  <1>2. \A name, types : Takes(name, types)' <=> Takes(name, types)
    BY <1>1 DEF Takes
  <1>3. CASE UNCHANGED <<m_values, m_args_presence>>
    BY <1>1, <1>2, <1>3 DEF KeptInv
  <1>4. CASE Option
    <2>1. arg' \in DOMAIN args /\ m_args_presence' = m_args_presence \union {arg'}
      <3>1. Found(argv[count]) # {} /\ Found(argv[count]) \in SUBSET Nat
        BY <1>4, LineTypes DEF Option, AtOption, IInv, Found
      <3>2. FindArgument(argv[count]) \in Found(argv[count])
        BY <3>1, MinIsLeast DEF FindArgument
      <3>3. QED
        BY <1>4, <3>2 DEF Option, Found
    <2>2. CASE args[arg'].max = 0
      <3>1. Save(<<TRUE>>)
        BY <1>4, <1>1, <2>2 DEF Option
      <3>2. \A types : ~Takes(args[arg'].name, types)
        <4>1. args[arg'].min <= args[arg'].max /\ args[arg'].min \in Nat
          BY <2>1, LineTypes DEF IInv
        <4>2. ~(args[arg'].min > 0)
          BY <2>2, <4>1
        <4>3. QED
          BY <2>1, <4>2 DEF Takes
      <3>3. KeptInv'
        BY <1>2, <3>1, <3>2, SaveStores DEF KeptInv
      <3>4. QED
        BY <1>1, <2>1, <3>3
    <2>3. CASE args[arg'].max # 0
      <3>1. m_values' = m_values
        BY <1>4, <1>1, <2>3 DEF Option
      <3>2. QED
        BY <1>1, <1>2, <2>1, <3>1 DEF KeptInv
    <2>4. QED
      BY <2>2, <2>3
  <1>5. CASE EndOfParameters /\ ~Refuse
    <2>1. /\ Save(converters) /\ arg' = arg /\ m_args_presence' = m_args_presence
          /\ parsing = "parameters"
      BY <1>5 DEF EndOfParameters
    <2>2. LineOK /\ ParametersInv /\ converters \in Seq(Converted)
      BY <2>1 DEF IInv
    <2>3. Current \in Options /\ Of(Current) = args[arg]
      BY <2>2 DEF ParametersInv, Of
    <2>4. arg \in DOMAIN args
      BY <2>2, <2>3, OptionsAreFound DEF ParametersInv
    <2>5. ASSUME Takes(args[arg].name, {"uint16", "uint32"})
          PROVE converters \in Seq(Int)
      <3> DEFINE type == Of(Current).type
                 n == Len(converters)
      <3>1. type \in {"uint16", "uint32"}
        BY <2>3, <2>4, <2>5 DEF Takes
      <3>2. n \in Nat /\ DOMAIN converters = 1..n
        BY <2>2, LenProperties
      <3>3. \A k \in 1..n : argv[Current + k] \in CommandWord
        <4>1. count \in 1..(Len(argv) + 1) /\ Current \in Nat /\ Len(argv) \in Nat
              /\ Current \in 1..Len(argv)
          BY <2>2, <2>3, OptionsAreFound, LineTypes DEF IInv
        <4>2. \A k \in 1..n : Current + k \in 1..Len(argv)
          BY <3>2, <4>1 DEF Current
        <4>3. QED
          BY <2>2, <4>2, LineTypes
      <3> HIDE DEF type
      <3>4. \A k \in 1..n : converters[k] \in Convert(type, argv[Current + k])
        BY <2>2 DEF ParametersInv, type
      <3>5. \A k \in 1..n : converters[k] \in Int
        BY <3>1, <3>3, <3>4, NumbersAreConverted
      <3>6. converters \in [1..n -> Int]
        <4>1. converters \in [1..n -> Converted]
          BY <2>2, <3>2
        <4>2. QED
          BY <3>5, <4>1
      <3>7. QED
        BY <3>2, <3>6
    <2>6. KeptInv'
      BY <1>2, <2>1, <2>5, SaveStores DEF KeptInv
    <2>7. QED
      BY <1>1, <2>1, <2>6
  <1>6. QED
    BY <1>3, <1>4, <1>5 DEF ParseWords, UnknownOption, HelpOption, Parameter, InvalidParameter,
      EndOfParameters, EndOfLine, Refuse

LEMMA AskedIsTyped ==
  ASSUME NEW n \in AskedPort
  PROVE n % 2^Width.uint16 \in Shorts
  <1>1. \A text : Stoull(WordOf(text)) \subseteq Int
    <2> TAKE text
    <2>1. 2^Width["uint64"] \in Nat \ {0}
      BY PowersOfWidths, ArgParserAssumption
    <2>2. WordOf(text) \in Words \/ WordOf(text).number = NoNumber
      BY DEF WordOf
    <2>3. CASE WordOf(text) \in Words
      <3>1. WordOf(text) \in CommandWord
        BY <2>3, ToolsAssumption
      <3>2. QED
        BY <2>1, <3>1 DEF Stoull, CommandWord, NoNumber
    <2>4. CASE WordOf(text).number = NoNumber
      BY <2>4 DEF Stoull
    <2>5. QED
      BY <2>2, <2>3, <2>4
  <1>2. n \in Int
    BY <1>1 DEF AskedPort, NumberParam
  <1>3. QED
    BY <1>2, ShortsAreTypes

LEMMA ServerIsTyped ==
  ASSUME LineInv, KeptInv, parsing = "parsed", tool = "can_server"
  PROVE ServerPort \in Shorts
  <1>1. Takes("port", {"uint16", "uint32"})
    BY ToolRows, OtherRowsTake, TakesFromRows DEF LineInv
  <1>2. CASE Given("port")
    <2>1. PICK last \in Options : Tells("port", last)
      BY <1>2, ValuesTell
    <2>2. Len(m_values["port"]) \in Nat \ {0}
      BY <1>1, <2>1, LastTakes
    <2>3. m_values["port"] \in Seq(Int)
      BY <1>1, <1>2 DEF KeptInv, Given
    <2>4. m_values["port"][1] \in Int
      BY <2>2, <2>3, ElementOfSeq
    <2>5. ServerPort = m_values["port"][1] % 2^Width.uint16
      BY <1>2 DEF ServerPort, ValueAs
    <2>6. QED
      BY <2>4, <2>5, ShortsAreTypes
  <1>3. CASE ~Given("port")
    <2>1. WordOf(DefaultPort) \in Words
      BY ToolsAssumption DEF WordOf
    <2>2. WordOf(DefaultPort).number \in Int
      BY <2>1, ToolsAssumption DEF CommandWord, NoNumber
    <2>3. ServerPort = WordOf(DefaultPort).number % 2^Width.uint16
      BY <1>3 DEF ServerPort
    <2>4. QED
      BY <2>2, <2>3, ShortsAreTypes
  <1>4. QED
    BY <1>2, <1>3

LEMMA NextTypes == LineInv /\ SessionInv /\ TypesInv /\ [Next]_vars => TypesInv'
  <1> SUFFICES ASSUME LineInv, SessionInv, TypesInv, [Next]_vars
               PROVE TypesInv'
    OBVIOUS
  <1>1. ToolOK /\ IInv /\ PlaceInv
    BY DEF LineInv, SessionInv
  <1>2. KeptInv' /\ m_args_presence' \subseteq DOMAIN args'
    <2>1. [ParseWords]_parser
      BY StepParses
    <2>2. CASE UNCHANGED parser
      BY <2>2 DEF TypesInv, KeptInv, Takes, parser
    <2>3. CASE ParseWords
      BY <1>1, <2>3, KeepsNumbers DEF TypesInv
    <2>4. QED
      BY <2>1, <2>2, <2>3
  <1>3. db' \in Databases
    <2>1. db \in Databases /\ FileOK(xml)
      BY <1>1 DEF TypesInv, ToolOK
    <2>2. CASE LoadDatabase
      <3>1. Load(xml, clean) \in Databases
        BY <2>1, LoadStays
      <3>2. db' = Load(xml, clean) \/ db' = db
        BY <2>2 DEF LoadDatabase
      <3>3. QED
        BY <2>1, <3>1, <3>2
    <2>3. CASE [Next]_vars /\ ~LoadDatabase
      <3>1. db' = db
        BY <2>3 DEF Next, vars, session, At, ControllerCall, ParseArguments, Initialized,
          LoadPlugin, CreateController, Open, Configure, StartController, Receive, PressEnter,
          ChangeFilter, Filtered, Send, Stop, Close, Delete, Serve, ListAdapters
      <3>2. QED
        BY <2>1, <3>1
    <2>4. QED
      BY <2>2, <2>3
  <1>4. controller' \in Controllers
    <2>1. controller \in Controllers
      BY DEF TypesInv
    <2>2. QED
      BY <2>1 DEF Controllers, Next, vars, session, At, ControllerCall, ParseArguments,
        Initialized, LoadDatabase, LoadPlugin, CreateController, Open, Configure,
        StartController, Receive, PressEnter, ChangeFilter, Filtered, Send, Stop, Close,
        Delete, Serve, ListAdapters
  <1>5. port' \in Shorts
    <2>1. port \in Shorts
      BY DEF TypesInv
    <2>2. CASE CreateController
      <3>1. port' = port \/ \E n \in AskedPort : port' = n % 2^Width.uint16
        BY <2>2 DEF CreateController
      <3>2. QED
        BY <2>1, <3>1, AskedIsTyped
    <2>3. CASE Serve
      <3>1. pc = "server" /\ port' = ServerPort
        BY <2>3 DEF Serve, At, ServerPort
      <3>2. tool = "can_server" /\ parsing = "parsed"
        BY <1>1, <3>1, PlacesDiffer DEF PlaceInv, Ended
      <3>3. QED
        BY <3>1, <3>2, ServerIsTyped DEF TypesInv
    <2>4. CASE [Next]_vars /\ ~CreateController /\ ~Serve
      <3>1. port' = port
        BY <2>4 DEF Next, vars, session, At, ControllerCall, ParseArguments, Initialized,
          LoadDatabase, LoadPlugin, Open, Configure, StartController, Receive, PressEnter,
          ChangeFilter, Filtered, Send, Stop, Close, Delete, ListAdapters
      <3>2. QED
        BY <2>1, <3>1 DEF Shorts
    <2>5. QED
      BY <2>2, <2>3, <2>4
  <1>6. QED
    BY <1>2, <1>3, <1>4, <1>5 DEF TypesInv

LEMMA TypesMean == LineInv /\ SessionInv /\ TypesInv => TypeOK
  <1> SUFFICES ASSUME LineInv, SessionInv, TypesInv
               PROVE TypeOK
    OBVIOUS
  <1>1. ToolOK /\ IInv
    BY DEF LineInv
  <1>2. pc \in {"arguments", "database", "filters", "plugin", "create", "open", "configure",
                "start", "running", "send", "stop", "close", "delete", "server", "list"}
               \union Ended
    <2>1. pc \in Places \union Ended
      BY DEF SessionInv, PlaceInv
    <2>2. Places \subseteq
            {"arguments", "database", "filters", "plugin", "create", "open", "configure",
             "start", "running", "send", "stop", "close", "delete", "server", "list"}
      BY <1>1 DEF Places, Driven, ToolOK
    <2>3. QED
      BY <2>1, <2>2
  <1>3. /\ parsing \in {"option", "parameters", "parsed", "failed"}
        /\ count \in 1..(Len(argv) + 1) /\ m_args_presence \subseteq DOMAIN args
    BY <1>1 DEF IInv, TypesInv
  <1>4. db \in Databases
    BY DEF TypesInv
  <1>5. \A v \in Range(db.vals) : v.size \in 0..MsgBits /\ Start(v) + v.size <= MsgBits
    <2>1. db.vals \in Seq(InMessage)
      BY <1>4 DEF Databases
    <2>2. \A v \in Range(db.vals) : v \in InMessage
      BY <2>1, LenProperties, ElementOfSeq DEF Range
    <2>3. QED
      BY <2>2 DEF InMessage
  <1>6. \A id \in DOMAIN db.can_msgs : db.can_msgs[id] \in DOMAIN db.descs
    <2>1. db.descs \in Seq(Desc) /\ \A id \in DOMAIN db.can_msgs : db.can_msgs[id] \in 1..Len(db.descs)
      BY <1>4 DEF Databases
    <2>2. DOMAIN db.descs = 1..Len(db.descs)
      BY <2>1, LenProperties
    <2>3. QED
      BY <2>1, <2>2
  <1>7. db.out \in {"ok", "failed", "aborted", "undefined"}
    BY <1>4 DEF Databases, Outs
  <1>8. QED
    BY <1>1, <1>2, <1>3, <1>5, <1>6, <1>7 DEF TypeOK, TypesInv, Controllers, Shorts

(* The values of the variables, and of every value of a database that it   *)
(* lies within its message.                                                *)
THEOREM ToolsTypes == ToolSpec => []TypeOK
  <1>1. ToolOK /\ ToolInit => LineInv /\ SessionInv /\ TypesInv
    BY InitLine, InitSession, InitTypes
  <1>2. (LineInv /\ SessionInv /\ TypesInv) /\ [Next]_vars
          => (LineInv /\ SessionInv /\ TypesInv)'
    BY NextLine, NextSession, NextTypes
  <1>3. QED
    BY <1>1, <1>2, TypesMean, PTL DEF ToolSpec
-----------------------------------------------------------------------------
(* 6. The values that are read.  The word of a message is a run through    *)
(* its bytes.                                                              *)

(* The powers of two up to the width of a message *)
LEMMA BitPowers ==
  /\ MsgBits \in Nat \ {0} /\ ByteBits \in Nat \ {0} /\ MaxLen \in Nat \ {0} /\ 2^0 = 1
  /\ MsgBits = ByteBits * MaxLen /\ ByteBits <= MsgBits
  /\ \A i \in 0..MsgBits : 2^i \in Nat \ {0}
  /\ \A i \in 1..MsgBits : 2^i = 2 * 2^(i - 1)
  <1>1. /\ ByteBits \in Nat \ {0} /\ MaxLen \in Nat \ {0} /\ 2^0 = 1
        /\ \A i \in 0..MsgBits : 2^i \in Nat /\ 2^(i + 1) = 2 * 2^i
    BY ToolsAssumption
  <1>2. MsgBits \in Nat \ {0}
    BY MessageBits
  <1>3. MsgBits = ByteBits * MaxLen /\ ByteBits <= MsgBits
    BY <1>1 DEF MsgBits
  <1>4. QED
    BY <1>1, <1>2, <1>3, PowersUpTo

LEMMA PowerSum ==
  ASSUME NEW a \in 0..MsgBits, NEW b \in 0..(MsgBits - a)
  PROVE 2^(a + b) = 2^a * 2^b /\ a + b \in 0..MsgBits
  <1> DEFINE n == MsgBits - a
             S == {c \in 0..n : 2^(a + c) = 2^a * 2^c}
  <1>1. n \in Nat /\ a \in Nat /\ a + b \in 0..MsgBits /\ \A c \in 0..n : a + c \in 0..MsgBits /\ c \in 0..MsgBits
    BY BitPowers
  <1>2. 0 \in S
    BY <1>1, BitPowers
  <1>3. ASSUME NEW c \in 1..n, c - 1 \in S
        PROVE c \in S
    <2>1. /\ 2^(a + (c - 1)) = 2^a * 2^(c - 1)
          /\ a + c \in 1..MsgBits /\ c \in 1..MsgBits /\ a + (c - 1) = (a + c) - 1
      BY <1>1, <1>3
    <2>2. 2^(a + c) = 2 * 2^((a + c) - 1) /\ 2^c = 2 * 2^(c - 1)
      BY <2>1, BitPowers
    <2>3. 2^a \in Nat /\ 2^(c - 1) \in Nat /\ 2^((a + c) - 1) = 2^a * 2^(c - 1)
      BY <1>1, <2>1, BitPowers
    <2>4. QED
      BY <2>2, <2>3, <1>1
  <1> HIDE DEF S, n
  <1>4. \A c \in 0..n : c \in S
    BY <1>1, <1>2, <1>3, Reaches
  <1>5. QED
    BY <1>1, <1>4 DEF S, n

LEMMA QuotientIs ==
  ASSUME NEW n \in Nat, NEW p \in Nat \ {0}, NEW q \in Nat, NEW r \in 0..(p - 1), n = p * q + r
  PROVE n \div p = q /\ n % p = r
  <1>1. n % p = r
    BY RemainderIs
  <1>2. n \div p \in Nat /\ n = p * (n \div p) + (n % p)
    BY Divides
  <1> DEFINE d == n \div p
  <1> HIDE DEF d
  <1>3. d \in Nat /\ p * (d - q) = 0
    BY <1>1, <1>2 DEF d
  <1>4. d = q
    <2>1. d - q \in Int
      BY <1>3
    <2>2. d - q = 0
      BY <1>3, <2>1
    <2>3. QED
      BY <1>3, <2>2
  <1>5. QED
    BY <1>1, <1>4 DEF d

LEMMA DivideTwice ==
  ASSUME NEW n \in Nat, NEW p \in Nat \ {0}, NEW q \in Nat \ {0}
  PROVE (n \div p) \div q = n \div (p * q)
  <1> DEFINE x == n \div p
             r == n % p
             y == x \div q
             s == x % q
  <1>1. x \in Nat /\ r \in 0..(p - 1) /\ n = p * x + r
    BY Divides
  <1> HIDE DEF x, r
  <1>2. y \in Nat /\ s \in 0..(q - 1) /\ x = q * y + s
    BY <1>1, Divides
  <1> HIDE DEF y, s
  <1>3. n = (p * q) * y + (p * s + r)
    <2>1. p * (q * y + s) = (p * q) * y + p * s
      BY <1>2
    <2>2. p * x = (p * q) * y + p * s
      BY <1>2, <2>1
    <2>3. p * q \in Nat /\ (p * q) * y \in Nat /\ p * s \in Nat /\ p * x \in Nat
      BY <1>1, <1>2
    <2>4. QED
      BY <1>1, <2>2, <2>3
  <1>4. p * s + r \in 0..(p * q - 1) /\ p * q \in Nat \ {0}
    <2>1. p * s <= p * (q - 1) /\ p * s \in Nat
      BY <1>2
    <2>2. p * (q - 1) = p * q - p /\ p * q \in Nat \ {0}
      OBVIOUS
    <2>3. QED
      BY <1>1, <2>1, <2>2
  <1>5. n \div (p * q) = y
    BY <1>2, <1>3, <1>4, QuotientIs
  <1>6. QED
    BY <1>5 DEF x, y

LEMMA LowBit ==
  ASSUME NEW z \in Nat, NEW d \in Nat, NEW p \in Nat \ {0}, NEW n, n = p * (2 * z) + d
  PROVE (n \div p) % 2 = (d \div p) % 2
  <1> DEFINE y == d \div p
             r == d % p
  <1>1. y \in Nat /\ r \in 0..(p - 1) /\ d = p * y + r
    BY Divides
  <1> HIDE DEF y, r
  <1>2. n \in Nat /\ n = p * (2 * z + y) + r /\ 2 * z + y \in Nat
    <2>1. p * (2 * z + y) = p * (2 * z) + p * y
      BY <1>1
    <2>2. p * (2 * z) \in Nat /\ p * y \in Nat
      BY <1>1
    <2>3. QED
      BY <1>1, <2>1, <2>2
  <1>3. n \div p = 2 * z + y
    BY <1>1, <1>2, QuotientIs
  <1>4. (2 * z + y) % 2 = y % 2
    BY <1>1
  <1>5. QED
    BY <1>3, <1>4 DEF y

Bytes == {data \in Seq(0..(2^ByteBits - 1)) : Len(data) = MaxLen}

LEMMA BitOfByte ==
  ASSUME NEW data \in Bytes, NEW j \in 0..(MaxLen - 1), NEW k \in 0..(ByteBits - 1)
  PROVE BitOf(data, k + ByteBits * j) = (data[j + 1] \div 2^k) % 2
  <1>1. (k + ByteBits * j) \div ByteBits = j /\ (k + ByteBits * j) % ByteBits = k
    <2>1. ByteBits \in Nat \ {0} /\ j \in Nat /\ k \in 0..(ByteBits - 1) /\ ByteBits * j \in Nat
      BY BitPowers
    <2>2. k + ByteBits * j \in Nat /\ k + ByteBits * j = ByteBits * j + k
      BY <2>1
    <2>3. QED
      BY <2>1, <2>2, QuotientIs
  <1>2. QED
    BY <1>1 DEF BitOf

(* The word of a message is made of the bits of its bytes. *)
LEMMA WordBits ==
  ASSUME NEW data \in Bytes
  PROVE /\ Word(data) \in Nat
        /\ \A k \in 0..(MsgBits - 1) : (Word(data) \div 2^k) % 2 = BitOf(data, k)
  <1> DEFINE Byte(i) == data[MaxLen + 1 - i]
             Step == [p \in (1..MaxLen) \X Nat |-> 2^ByteBits * p[2] + Byte(p[1])]
             Horner(value) == value = [i \in 0..MaxLen |->
                                         IF i = 0 THEN 0
                                         ELSE 2^ByteBits * value[i - 1] + data[MaxLen + 1 - i]]
             value == CHOOSE value : Horner(value)
  <1>1. /\ MaxLen \in Nat \ {0} /\ ByteBits \in Nat \ {0} /\ 2^ByteBits \in Nat \ {0}
        /\ ByteBits <= MsgBits /\ MsgBits = ByteBits * MaxLen /\ MsgBits \in Nat \ {0}
    BY BitPowers
  <1>2. \A i \in 1..MaxLen : Byte(i) \in 0..(2^ByteBits - 1)
    <2>1. data \in Seq(0..(2^ByteBits - 1)) /\ Len(data) = MaxLen
      BY DEF Bytes
    <2>2. \A i \in 1..MaxLen : MaxLen + 1 - i \in 1..MaxLen
      BY <1>1
    <2>3. QED
      BY <2>1, <2>2, ElementOfSeq
  <1>3. Step \in [(1..MaxLen) \X Nat -> Nat]
    <2>1. ASSUME NEW i \in 1..MaxLen, NEW n \in Nat
          PROVE 2^ByteBits * n + Byte(i) \in Nat
      <3>1. Byte(i) \in Nat /\ 2^ByteBits \in Nat
        BY <1>1, <1>2
      <3> HIDE DEF Byte
      <3>2. QED
        BY <3>1
    <2> HIDE DEF Byte
    <2>2. QED
      BY <2>1
  <1> HIDE DEF Step
  <1>4. PICK r \in [0..MaxLen -> Nat] :
          r[0] = 0 /\ \A k \in 1..MaxLen : r[k] = Step[<<k, r[k - 1]>>]
    <2>1. MaxLen \in Nat /\ 0 \in Nat
      BY <1>1
    <2>2. Runs(MaxLen, Nat, 0, Step) # {}
      BY <1>3, <2>1, RunExists
    <2>3. QED
      BY <2>2 DEF Runs
  <1>5. \A i \in 1..MaxLen : r[i - 1] \in Nat /\ r[i] = 2^ByteBits * r[i - 1] + Byte(i)
    <2>1. ASSUME NEW i \in 1..MaxLen
          PROVE r[i - 1] \in Nat /\ r[i] = 2^ByteBits * r[i - 1] + Byte(i)
      <3>1. i - 1 \in 0..MaxLen
        BY <1>1
      <3>2. <<i, r[i - 1]>> \in (1..MaxLen) \X Nat /\ r[i - 1] \in Nat
        BY <1>4, <3>1
      <3>3. QED
        BY <1>4, <3>2 DEF Step
    <2>2. QED
      BY <2>1
  <1>6. \E g : Horner(g)
    <2>1. r = [i \in 0..MaxLen |->
                 IF i = 0 THEN 0 ELSE 2^ByteBits * r[i - 1] + data[MaxLen + 1 - i]]
      BY <1>1, <1>4, <1>5
    <2>2. QED
      BY <2>1
  <1>7. Horner(value)
    BY <1>6, Zenon
  <1>8. Word(data) = value[MaxLen]
    BY Zenon DEF Word
  <1> HIDE DEF value
  <1> DEFINE S == {k \in 0..MaxLen : r[k] = value[k]}
  <1>9. 0 \in S
    BY <1>1, <1>4, <1>7
  <1>10. ASSUME NEW k \in 1..MaxLen, k - 1 \in S
         PROVE k \in S
    <2>1. r[k - 1] = value[k - 1] /\ k \in 0..MaxLen /\ k # 0
      BY <1>10
    <2>2. value[k] = 2^ByteBits * value[k - 1] + Byte(k)
      BY <1>7, <2>1
    <2>3. QED
      BY <1>5, <2>1, <2>2
  <1> HIDE DEF S
  <1>11. \A k \in 0..MaxLen : k \in S
    BY <1>1, <1>9, <1>10, Reaches
  <1>12. Word(data) = r[MaxLen] /\ r[MaxLen] \in Nat
    BY <1>1, <1>4, <1>8, <1>11 DEF S
  <1> DEFINE Has(i) == \A k \in 0..(ByteBits * i - 1) :
                         (r[i] \div 2^k) % 2 = BitOf(data, k + ByteBits * (MaxLen - i))
             T == {i \in 0..MaxLen : Has(i)}
  <1>13. 0 \in T
    <2>1. 0..(ByteBits * 0 - 1) = {}
      BY <1>1
    <2>2. QED
      BY <1>1, <2>1
  <1>14. ASSUME NEW i \in 1..MaxLen, Has(i - 1)
         PROVE Has(i)
    <2> SUFFICES ASSUME NEW k \in 0..(ByteBits * i - 1)
                 PROVE (r[i] \div 2^k) % 2 = BitOf(data, k + ByteBits * (MaxLen - i))
      OBVIOUS
    <2> DEFINE x == r[i - 1]
               d == Byte(i)
    <2>1. x \in Nat /\ d \in Nat /\ d < 2^ByteBits /\ r[i] = 2^ByteBits * x + d
      <3>1. d \in 0..(2^ByteBits - 1)
        BY <1>2
      <3> HIDE DEF Byte
      <3>2. x \in Nat /\ r[i] = 2^ByteBits * x + d
        BY <1>5
      <3> HIDE DEF x, d
      <3>3. QED
        BY <1>1, <3>1, <3>2
    <2>2. ByteBits * i <= MsgBits /\ ByteBits * i \in Nat /\ k \in 0..(MsgBits - 1)
      <3>1. ByteBits * (MaxLen - i) \in Nat /\ MaxLen - i \in Nat
        BY <1>1
      <3>2. ByteBits * MaxLen = ByteBits * (MaxLen - i) + ByteBits * i
        BY <1>1
      <3>3. ByteBits * i \in Nat
        BY <1>1
      <3>4. QED
        BY <1>1, <3>1, <3>2, <3>3
    <2> HIDE DEF x, d
    <2>3. CASE k < ByteBits
      <3> DEFINE c == ByteBits - k
      <3>1. c \in 1..ByteBits /\ k + c = ByteBits /\ k \in 0..MsgBits /\ c \in 1..MsgBits
            /\ c \in 0..(MsgBits - k) /\ c - 1 \in 0..MsgBits
        BY <1>1, <2>2, <2>3
      <3>2. 2^ByteBits = 2^k * 2^c /\ 2^c = 2 * 2^(c - 1) /\ 2^k \in Nat \ {0}
            /\ 2^(c - 1) \in Nat
        BY <3>1, PowerSum, BitPowers
      <3> HIDE DEF c
      <3>3. r[i] = 2^k * (2 * 2^(c - 1)) * x + d
        BY <2>1, <3>2
      <3>4. (r[i] \div 2^k) % 2 = (d \div 2^k) % 2
        <4> DEFINE p == 2^k
                   z == 2^(c - 1) * x
        <4>1. p \in Nat \ {0} /\ z \in Nat
          BY <2>1, <3>2
        <4>2. r[i] = p * (2 * z) + d
          BY <2>1, <3>2, <3>3
        <4> HIDE DEF p, z
        <4>3. (r[i] \div p) % 2 = (d \div p) % 2
          BY <2>1, <4>1, <4>2, LowBit
        <4>4. QED
          BY <4>3 DEF p
      <3>5. BitOf(data, k + ByteBits * (MaxLen - i)) = (data[(MaxLen - i) + 1] \div 2^k) % 2
        <4>1. MaxLen - i \in 0..(MaxLen - 1) /\ k \in 0..(ByteBits - 1)
          BY <1>1, <2>3
        <4>2. QED
          BY <4>1, BitOfByte
      <3>6. (MaxLen - i) + 1 = MaxLen + 1 - i
        BY <1>1
      <3>7. QED
        BY <3>4, <3>5, <3>6 DEF d
    <2>4. CASE k >= ByteBits
      <3> DEFINE c == k - ByteBits
      <3>1. c \in 0..(ByteBits * (i - 1) - 1) /\ ByteBits + c = k
        <4>1. ByteBits * (i - 1) = ByteBits * i - ByteBits
          BY <1>1
        <4>2. QED
          BY <1>1, <2>2, <2>4, <4>1
      <3>2. c \in 0..(MsgBits - ByteBits) /\ ByteBits \in 0..MsgBits /\ c \in 0..MsgBits
        BY <1>1, <2>2, <2>4
      <3> HIDE DEF c
      <3>3. 2^k = 2^ByteBits * 2^c /\ 2^c \in Nat \ {0}
        BY <3>1, <3>2, PowerSum, BitPowers
      <3>4. r[i] \div 2^k = x \div 2^c
        <4>1. r[i] \in Nat /\ d \in 0..(2^ByteBits - 1)
          BY <1>1, <2>1
        <4>2. r[i] \div 2^ByteBits = x
          BY <1>1, <2>1, <4>1, QuotientIs
        <4>3. (r[i] \div 2^ByteBits) \div 2^c = r[i] \div (2^ByteBits * 2^c)
          BY <1>1, <3>3, <4>1, DivideTwice
        <4>4. QED
          BY <3>3, <4>2, <4>3
      <3>5. (x \div 2^c) % 2 = BitOf(data, c + ByteBits * (MaxLen - (i - 1)))
        BY <1>14, <3>1 DEF x
      <3>6. c + ByteBits * (MaxLen - (i - 1)) = k + ByteBits * (MaxLen - i)
        <4>1. ByteBits * (MaxLen - (i - 1)) = ByteBits * (MaxLen - i) + ByteBits
          BY <1>1
        <4>2. ByteBits * (MaxLen - i) \in Int /\ c \in Int /\ k \in Int
          BY <1>1, <3>2
        <4>3. QED
          BY <1>1, <3>1, <4>1, <4>2
      <3>7. QED
        BY <3>4, <3>5, <3>6
    <2>5. QED
      BY <1>1, <2>2, <2>3, <2>4
  <1> HIDE DEF Has
  <1>15. \A i \in 0..MaxLen : i \in T
    <2>1. ASSUME NEW i \in 1..MaxLen, i - 1 \in T
          PROVE i \in T
      BY <1>14, <2>1
    <2> HIDE DEF T
    <2>2. QED
      BY <1>1, <1>13, <2>1, Reaches
  <1>16. Has(MaxLen)
    BY <1>1, <1>15
  <1>17. ASSUME NEW k \in 0..(MsgBits - 1)
         PROVE (Word(data) \div 2^k) % 2 = BitOf(data, k)
    <2>1. k + ByteBits * (MaxLen - MaxLen) = k
      <3>1. MaxLen - MaxLen = 0 /\ ByteBits * 0 = 0
        BY <1>1
      <3>2. QED
        BY <3>1
    <2>2. (r[MaxLen] \div 2^k) % 2 = BitOf(data, k + ByteBits * (MaxLen - MaxLen))
      BY <1>1, <1>16 DEF Has
    <2>3. QED
      BY <1>12, <2>1, <2>2
  <1>18. QED
    BY <1>12, <1>17

(* The bits from a position on are those left by a shift and a mask. *)
LEMMA BitsOfWord ==
  ASSUME NEW data \in Bytes, NEW first \in 0..MsgBits, NEW n \in 0..(MsgBits - first)
  PROVE BitsOf(data, first, n) = (Word(data) \div 2^first) % 2^n
  <1> DEFINE x == Word(data) \div 2^first
             Part(i) == x % 2^i
             Sums(bits) == bits = [i \in 0..n |->
                                     IF i = 0 THEN 0
                                     ELSE bits[i - 1] + BitOf(data, first + i - 1) * 2^(i - 1)]
             bits == CHOOSE bits : Sums(bits)
  <1>1. /\ MsgBits \in Nat \ {0} /\ n \in Nat /\ first \in Nat /\ first + n <= MsgBits /\ 2^0 = 1
        /\ n <= MsgBits
    BY BitPowers
  <1>2. Word(data) \in Nat /\ x \in Nat
    BY <1>1, WordBits, BitPowers, Divides
  <1>3. ASSUME NEW i \in 1..n
        PROVE Part(i) = Part(i - 1) + BitOf(data, first + i - 1) * 2^(i - 1)
    <2>1. /\ i - 1 \in 0..MsgBits /\ first \in 0..MsgBits /\ i \in 1..MsgBits
          /\ i - 1 \in 0..(MsgBits - first)
          /\ first + i - 1 \in 0..(MsgBits - 1) /\ first + (i - 1) = first + i - 1
      BY <1>1
    <2> DEFINE p == 2^(i - 1)
    <2>2. p \in Nat \ {0} /\ 2^i = 2 * p /\ 2^first \in Nat \ {0}
      BY <2>1, BitPowers
    <2>3. 2^(first + i - 1) = 2^first * p
      BY <2>1, PowerSum
    <2>4. x \div p = Word(data) \div 2^(first + i - 1)
      <3> DEFINE w == Word(data)
                 q == 2^first
      <3>1. w \in Nat /\ q \in Nat \ {0}
        BY <1>2, <2>2
      <3> HIDE DEF w, q, p
      <3>2. (w \div q) \div p = w \div (q * p)
        BY <2>2, <3>1, DivideTwice
      <3>3. QED
        BY <2>3, <3>2 DEF w, q
    <2>5. (x \div p) % 2 = BitOf(data, first + i - 1)
      BY <2>1, <2>4, WordBits
    <2> HIDE DEF x, p
    <2>6. x % (2 * p) = (x % p) + ((x \div p) % 2) * p
      BY <1>2, <2>2, NextBit
    <2>7. QED
      BY <2>2, <2>5, <2>6 DEF p
  <1>4. Part(0) = 0
    <2> HIDE DEF x
    <2>1. x % 1 = 0
      BY <1>2
    <2>2. QED
      BY <1>1, <2>1
  <1> HIDE DEF Part
  <1> DEFINE r == [i \in 0..n |-> Part(i)]
  <1>5. \E g : Sums(g)
    <2>1. ASSUME NEW i \in 0..n
          PROVE r[i] = IF i = 0 THEN 0
                       ELSE r[i - 1] + BitOf(data, first + i - 1) * 2^(i - 1)
      <3>1. CASE i = 0
        BY <1>1, <1>4, <3>1
      <3>2. CASE i # 0
        <4>1. i \in 1..n /\ i - 1 \in 0..n
          BY <1>1, <3>2
        <4>2. r[i] = Part(i) /\ r[i - 1] = Part(i - 1)
          BY <4>1
        <4>3. QED
          BY <1>3, <3>2, <4>1, <4>2
      <3>3. QED
        BY <3>1, <3>2
    <2>2. r = [i \in 0..n |-> r[i]]
      OBVIOUS
    <2> HIDE DEF r
    <2>3. r = [i \in 0..n |->
                 IF i = 0 THEN 0 ELSE r[i - 1] + BitOf(data, first + i - 1) * 2^(i - 1)]
      BY <2>1, <2>2
    <2>4. QED
      BY <2>3
  <1>6. Sums(bits)
    BY <1>5, Zenon
  <1>7. BitsOf(data, first, n) = bits[n]
    BY Zenon DEF BitsOf
  <1> HIDE DEF bits
  <1> DEFINE S == {k \in 0..n : bits[k] = Part(k)}
  <1>8. 0 \in S
    BY <1>1, <1>4, <1>6
  <1>9. ASSUME NEW k \in 1..n, k - 1 \in S
        PROVE k \in S
    <2>1. bits[k - 1] = Part(k - 1) /\ k \in 0..n /\ k # 0
      BY <1>9
    <2>2. bits[k] = bits[k - 1] + BitOf(data, first + k - 1) * 2^(k - 1)
      BY <1>6, <2>1
    <2>3. QED
      BY <1>3, <2>1, <2>2
  <1> HIDE DEF S
  <1>10. \A k \in 0..n : k \in S
    BY <1>1, <1>8, <1>9, Reaches
  <1>11. QED
    BY <1>1, <1>7, <1>10 DEF S, Part

(* A value read through its mask is the bits from its start on; an int     *)
(* whose last bit is set stands for what its bits lack to a power of two.  *)
LEMMA RawBits ==
  ASSUME NEW v, NEW data \in Bytes, NEW wideMask,
         v.size \in 1..MsgBits, Start(v) \in Nat, Start(v) + v.size <= MsgBits,
         v.size = MsgBits => wideMask = 2^MsgBits - 1
  PROVE LET bits == BitsOf(data, Start(v), v.size)
        IN /\ v.type \notin {"int", "bool"} => RawValue(v, data, wideMask) = bits
           /\ (v.type = "int" /\ BitOf(data, Start(v) + v.size - 1) = 1) =>
                RawValue(v, data, wideMask) = bits - 2^v.size
  <1> DEFINE n == v.size
             s == Start(v)
             w == Word(data)
             x == w \div 2^s
             bits == BitsOf(data, s, n)
  <1>1. /\ n \in 1..MsgBits /\ s \in 0..MsgBits /\ n \in 0..(MsgBits - s) /\ MsgBits \in Nat \ {0}
        /\ n - 1 \in 0..MsgBits /\ n - 1 \in 0..(MsgBits - s) /\ s + n - 1 \in 0..(MsgBits - 1)
        /\ s + (n - 1) = s + n - 1 /\ MsgBits - 1 \in 0..MsgBits /\ MsgBits - n \in 0..MsgBits
    BY BitPowers
  <1> HIDE DEF n, s
  <1>2. /\ 2^n \in Nat \ {0} /\ 2^s \in Nat \ {0} /\ 2^(n - 1) \in Nat \ {0} /\ 2^n = 2 * 2^(n - 1)
        /\ 2^MsgBits \in Nat \ {0} /\ 2^(MsgBits - 1) \in Nat \ {0}
        /\ 2^MsgBits = 2 * 2^(MsgBits - 1)
    BY <1>1, BitPowers
  <1>3. bits = x % 2^n
    BY <1>1, BitsOfWord
  <1>4. w \in Nat /\ x \in Nat
    BY <1>2, WordBits, Divides
  <1>5. Mask(v, wideMask) = 2^n - 1
    BY <1>1 DEF Mask, n
  <1>6. Masked(v, data, wideMask) = bits
    <2>1. 2^n - 1 # 0 /\ (2^n - 1) + 1 = 2^n
      BY <1>2
    <2>2. QED
      BY <1>3, <1>5, <2>1 DEF Masked, s
  <1>7. bits \in 0..(2^n - 1)
    BY <1>2, <1>3, <1>4, Divides
  <1>8. v.type \notin {"int", "bool"} => RawValue(v, data, wideMask) = bits
    BY <1>6 DEF RawValue
  <1>9. ASSUME v.type = "int", BitOf(data, s + n - 1) = 1
        PROVE RawValue(v, data, wideMask) = bits - 2^n
    <2>1. bits >= 2^(n - 1)
      <3>1. x % 2^n = (x % 2^(n - 1)) + ((x \div 2^(n - 1)) % 2) * 2^(n - 1)
        <4> HIDE DEF x
        <4>1. QED
          BY <1>2, <1>4, NextBit
      <3>2. x \div 2^(n - 1) = w \div 2^(s + n - 1)
        <4>1. 2^(s + n - 1) = 2^s * 2^(n - 1)
          BY <1>1, PowerSum
        <4> HIDE DEF w
        <4>2. QED
          BY <1>2, <1>4, <4>1, DivideTwice
      <3>3. (w \div 2^(s + n - 1)) % 2 = 1
        BY <1>1, <1>9, WordBits
      <3>4. x % 2^(n - 1) \in Nat
        <4> DEFINE p == 2^(n - 1)
        <4>1. p \in Nat \ {0}
          BY <1>2
        <4> HIDE DEF x, p
        <4>2. x % p \in 0..(p - 1)
          BY <1>4, <4>1, Divides
        <4>3. QED
          BY <4>1, <4>2 DEF p
      <3> HIDE DEF x, w, bits
      <3>5. QED
        BY <1>2, <1>3, <3>1, <3>2, <3>3, <3>4
    <2>2. 2^n <= 2^MsgBits
      <3>1. 2^MsgBits = 2^n * 2^(MsgBits - n) /\ 2^(MsgBits - n) \in Nat \ {0}
        <4>1. n \in 0..MsgBits /\ MsgBits - n \in 0..(MsgBits - n) /\ n + (MsgBits - n) = MsgBits
          BY <1>1
        <4>2. 2^(n + (MsgBits - n)) = 2^n * 2^(MsgBits - n)
          BY <4>1, PowerSum
        <4>3. QED
          BY <1>1, <4>1, <4>2, BitPowers
      <3> DEFINE a == 2^n
                 b == 2^(MsgBits - n)
      <3>2. a \in Nat /\ b \in Nat \ {0}
        BY <1>2, <3>1
      <3> HIDE DEF a, b
      <3>3. a <= a * b
        BY <3>2
      <3>4. QED
        BY <3>1, <3>3 DEF a, b
    <2> DEFINE m == bits + (2^MsgBits - 1 - (2^n - 1))
    <2>3. RawValue(v, data, wideMask) = Signed(m)
      BY <1>5, <1>6, <1>9 DEF RawValue
    <2> HIDE DEF bits
    <2>4. m >= 2^(MsgBits - 1) /\ m - 2^MsgBits = bits - 2^n
      BY <1>2, <1>7, <2>1, <2>2
    <2>5. QED
      BY <2>3, <2>4 DEF Signed
  <1>10. QED
    BY <1>8, <1>9 DEF n, s
-----------------------------------------------------------------------------
(* A bool whose bit is one of its byte is this bit. *)
LEMMA RawBit ==
  ASSUME NEW v, NEW data \in Bytes, NEW wideMask, v.type = "bool",
         v.byte \in 0..(MaxLen - 1), v.bit \in 0..(ByteBits - 1)
  PROVE RawValue(v, data, wideMask) = BitsOf(data, v.byte * ByteBits + v.bit, 1)
  <1> DEFINE s == v.byte * ByteBits + v.bit
             w == Word(data)
  <1>1. /\ MaxLen \in Nat \ {0} /\ ByteBits \in Nat \ {0} /\ MsgBits \in Nat \ {0}
        /\ MsgBits = ByteBits * MaxLen /\ 2^0 = 1 /\ 2^1 = 2 * 2^(1 - 1)
    BY BitPowers
  <1>2. v.bit + ByteBits * v.byte = s /\ s \in 0..(MsgBits - 1)
    <2> DEFINE a == v.byte
               b == ByteBits
               m == MaxLen
    <2>1. /\ a \in 0..(m - 1) /\ v.bit \in 0..(b - 1) /\ b \in Nat \ {0} /\ m \in Nat \ {0}
          /\ MsgBits = b * m /\ s = a * b + v.bit
      BY <1>1
    <2> HIDE DEF a, b, m, s
    <2>2. m - 1 - a \in Nat /\ b * m = a * b + b * (m - 1 - a) + b
      BY <2>1
    <2>3. a * b \in Nat /\ b * (m - 1 - a) \in Nat
      BY <2>1, <2>2
    <2>4. s \in 0..(MsgBits - 1) /\ v.bit + b * a = s
      BY <2>1, <2>2, <2>3
    <2>5. QED
      BY <2>4 DEF a, b
  <1> HIDE DEF s
  <1>3. s \in 0..MsgBits /\ 1 \in 0..(MsgBits - s)
    BY <1>1, <1>2
  <1>4. BitsOf(data, s, 1) = (w \div 2^s) % 2
    <2>1. 2^1 = 2
      BY <1>1
    <2>2. BitsOf(data, s, 1) = (w \div 2^s) % 2^1
      BY <1>3, BitsOfWord
    <2> HIDE DEF w
    <2>3. QED
      BY <2>1, <2>2
  <1>5. (w \div 2^s) % 2 = BitOf(data, s)
    BY <1>2, WordBits
  <1>6. BitOf(data, s) = (data[v.byte + 1] \div 2^v.bit) % 2
    BY <1>2, BitOfByte
  <1>7. RawValue(v, data, wideMask) = (data[v.byte + 1] \div 2^v.bit) % 2
    BY <1>1 DEF RawValue
  <1>8. QED
    BY <1>4, <1>5, <1>6, <1>7 DEF s
-----------------------------------------------------------------------------
(* A value is where its attributes put it, when this is in its message. *)
Placed(v, e) ==
  /\ v.type = e.type
  /\ (SizeOf(e) > 0 /\ Low(e) + SizeOf(e) <= MsgBits) =>
       /\ v.size = SizeOf(e) /\ Start(v) = Low(e)
       /\ v.byte = Number(e.byte) /\ v.bit = Number(e.bit) /\ v.byte \in Nat /\ v.bit \in Nat

LoadedValue(e, msg) ==
  SetBitPosition(SetBytePosition(NewValue(e.type, Number(e.size), msg), Uint8(Number(e.byte))),
                 Uint8(Number(e.bit)))

LEMMA ValuePlaced ==
  ASSUME NEW e \in ValueElement, e.type \in ValueTypes, Invalid \notin {e.byte, e.bit, e.size},
         NEW msg \in Nat
  PROVE Placed(LoadedValue(e, msg), e) /\ SizeOf(e) \in Nat /\ Low(e) \in Nat
  <1> DEFINE byte == Number(e.byte)
             bit == Number(e.bit)
             size == Number(e.size)
             new == NewValue(e.type, size, msg)
             v == SetBytePosition(new, Uint8(byte))
             w == SetBitPosition(v, Uint8(bit))
  <1>1. byte \in Nat /\ bit \in Nat /\ size \in Nat
    BY DEF Number, ValueElement, Attribute, Absent, Invalid
  <1>2. /\ 2^PositionBits \in Nat \ {0} /\ MsgBits < 2^PositionBits /\ MsgBits \in Nat \ {0}
        /\ ByteBits \in Nat \ {0}
    BY ToolsAssumption, MessageBits
  <1>3. \A k \in 0..MsgBits : Uint8(k) = k
    BY <1>2, SmallStays DEF Uint8
  <1>4. LoadedValue(e, msg) = w
    BY DEF LoadedValue
  <1>5. SizeOf(e) \in Nat /\ Low(e) = byte * ByteBits + bit /\ Low(e) \in Nat
    <2>1. SizeOf(e) \in Nat
      BY <1>1, <1>2 DEF SizeOf
    <2>2. Low(e) = byte * ByteBits + bit
      BY DEF Low
    <2> HIDE DEF byte, bit
    <2>3. byte * ByteBits \in Nat
      BY <1>1, <1>2
    <2>4. QED
      BY <1>1, <2>1, <2>2, <2>3
  <1>6. /\ new = [type |-> e.type, byte |-> 0, bit |-> 0, size |-> Size(e.type, size), msg |-> msg]
    BY DEF NewValue
  <1> HIDE DEF byte, bit, size, new
  <1>7. /\ v = [new EXCEPT !.byte = Uint8(byte)] \/ v = new
        /\ w = [v EXCEPT !.bit = Uint8(bit)] \/ w = v
    BY DEF SetBytePosition, SetBitPosition
  <1>8. w.type = e.type /\ w.size = Size(e.type, size)
    BY <1>6, <1>7
  <1>9. ASSUME SizeOf(e) > 0, Low(e) + SizeOf(e) <= MsgBits
        PROVE w.size = SizeOf(e) /\ Start(w) = Low(e) /\ w.byte = byte /\ w.bit = bit
    <2>1. byte * ByteBits \in Nat /\ byte <= byte * ByteBits /\ byte * ByteBits <= MsgBits
          /\ bit <= MsgBits /\ byte <= MsgBits
      BY <1>1, <1>2, <1>5, <1>9
    <2> DEFINE a == byte * ByteBits
    <2>11. SizeOf(e) \in 1..MsgBits /\ a + SizeOf(e) <= MsgBits /\ a + bit + SizeOf(e) <= MsgBits
          /\ a + bit \in 0..MsgBits
      <3>1. a \in Nat /\ Low(e) = a + bit /\ bit \in Nat
        BY <1>1, <1>5, <2>1
      <3> HIDE DEF a
      <3>2. QED
        BY <1>2, <1>5, <1>9, <3>1
    <2>2. Uint8(byte) = byte /\ Uint8(bit) = bit
      BY <1>1, <1>3, <2>1
    <2>3. Size(e.type, size) = SizeOf(e)
      <3>1. CASE e.type \in {"bool", "float", "double"}
        BY <3>1 DEF Size, SizeOf
      <3>2. CASE e.type \notin {"bool", "float", "double"}
        <4>1. SizeOf(e) = size
          BY <3>2 DEF SizeOf, size
        <4>2. Uint8(size) = size /\ size <= MsgBits
          BY <1>3, <2>11, <4>1
        <4>3. Size(e.type, size) = size
          BY <3>2, <4>2 DEF Size
        <4>4. QED
          BY <4>1, <4>3
      <3>3. QED
        BY <3>1, <3>2
    <2> DEFINE n == SizeOf(e)
    <2>4. n \in Nat /\ byte * ByteBits + n <= MsgBits /\ byte * ByteBits + bit + n <= MsgBits
      BY <2>11
    <2>5. v = [type |-> e.type, byte |-> byte, bit |-> 0, size |-> n, msg |-> msg]
      <3>1. new.bit = 0 /\ new.size = n
        BY <1>6, <2>3
      <3>2. byte * ByteBits + 0 \in 0..MsgBits /\ byte * ByteBits + 0 = byte * ByteBits
        BY <2>1
      <3>3. Position(byte, 0) = byte * ByteBits
        BY <1>3, <3>2 DEF Position
      <3>4. Fits(Position(byte, new.bit), new.size)
        BY <2>4, <3>1, <3>3 DEF Fits
      <3>5. v = [new EXCEPT !.byte = byte]
        BY <2>2, <3>4 DEF SetBytePosition
      <3>6. QED
        BY <1>6, <2>3, <3>5
    <2>6. w = [type |-> e.type, byte |-> byte, bit |-> bit, size |-> n, msg |-> msg]
          /\ Position(byte, bit) = Low(e)
      <3>1. byte * ByteBits + bit \in 0..MsgBits
        BY <2>11
      <3>2. Position(byte, bit) = byte * ByteBits + bit
        BY <1>3, <3>1 DEF Position
      <3>3. Fits(Position(v.byte, bit), v.size)
        BY <2>4, <2>5, <3>2 DEF Fits
      <3>4. w = [v EXCEPT !.bit = bit]
        BY <2>2, <3>3 DEF SetBitPosition
      <3>5. QED
        BY <1>5, <2>5, <3>2, <3>4
    <2> HIDE DEF w, n
    <2>7. QED
      BY <2>6 DEF Start, n
  <1>10. QED
    BY <1>1, <1>4, <1>5, <1>8, <1>9 DEF Placed, byte, bit

(* What the values of a database are when the elements of S were loaded *)
HoldsValues(d, S) ==
  /\ \A e \in S : Text(e.id) \in DOMAIN d.can_msg_values
  /\ \A name \in DOMAIN d.can_msg_values :
       /\ d.can_msg_values[name] \in 1..Len(d.vals)
       /\ \E e \in S : /\ Text(e.id) = name /\ Placed(d.vals[d.can_msg_values[name]], e)
                       /\ SizeOf(e) \in Nat /\ Low(e) \in Nat

LEMMA SameHolds ==
  ASSUME NEW d, NEW S, HoldsValues(d, S), NEW c, c.vals = d.vals,
         c.can_msg_values = d.can_msg_values
  PROVE HoldsValues(c, S)
  BY DEF HoldsValues

LEMMA LoadValueHolds ==
  ASSUME NEW n \in Nat \ {0}, NEW d \in DatabasesOf(n), NEW e \in ValueElement, NEW S,
         HoldsValues(d, S), d.out = "ok", LoadValue(d, e).out = "ok"
  PROVE HoldsValues(LoadValue(d, e), S \union {e})
  <1> DEFINE v == LoadedValue(e, n)
             k == Len(d.vals) + 1
             map == Put(d.can_msg_values, Text(e.id), k)
             more == [d EXCEPT !.vals = Append(@, v),
                               !.descs[n].values = Append(@, k),
                               !.can_msg_values = map]
             c == LoadValue(d, e)
  <1>1. d \in Databases /\ Len(d.descs) = n
    BY DEF DatabasesOf
  <1>2. Failed(d).out # "ok" /\ Aborted(d).out # "ok"
    BY <1>1 DEF Failed, Aborted, Databases
  <1>3. c = more /\ Invalid \notin {e.byte, e.bit, e.size} /\ e.type \in ValueTypes
    BY <1>1, <1>2 DEF LoadValue, AttributesRead, ValueTypes, LoadedValue
  <1>4. c.vals = Append(d.vals, v) /\ c.can_msg_values = map
    <2> HIDE DEF v, k, map, c
    <2>1. QED
      BY <1>1, <1>3 DEF Databases
  <1>5. Placed(v, e) /\ SizeOf(e) \in Nat /\ Low(e) \in Nat
    BY <1>3, ValuePlaced
  <1>6. /\ DOMAIN map = DOMAIN d.can_msg_values \union {Text(e.id)}
        /\ \A name \in DOMAIN map :
             map[name] = IF name = Text(e.id) THEN k ELSE d.can_msg_values[name]
    BY DEF Put
  <1>7. /\ Len(d.vals) \in Nat /\ k \in 1..k /\ k \in Nat
        /\ Len(Append(d.vals, v)) = k /\ Append(d.vals, v)[k] = v
        /\ \A i \in 1..Len(d.vals) : Append(d.vals, v)[i] = d.vals[i] /\ i \in 1..k
    <2>1. d.vals \in Seq(InMessage)
      BY <1>1 DEF Databases
    <2>2. v \in InMessage
      <3>1. Number(e.size) \in Nat /\ Number(e.byte) \in Nat /\ Number(e.bit) \in Nat
        BY <1>3 DEF Number, ValueElement, Attribute, Absent, Invalid
      <3>2. QED
        BY <1>3, <3>1, ValueFits DEF LoadedValue
    <2> HIDE DEF v
    <2>3. Len(d.vals) \in Nat
      BY <2>1, LenProperties
    <2>4. QED
      BY <2>1, <2>2, <2>3, AppendProperties
  <1> HIDE DEF v, k, map, more, c
  <1>8. \A f \in S \union {e} : Text(f.id) \in DOMAIN map
    BY <1>6 DEF HoldsValues
  <1>9. ASSUME NEW name \in DOMAIN map
        PROVE /\ map[name] \in 1..k
              /\ \E f \in S \union {e} : /\ Text(f.id) = name
                                         /\ Placed(Append(d.vals, v)[map[name]], f)
                                         /\ SizeOf(f) \in Nat /\ Low(f) \in Nat
    <2>1. CASE name = Text(e.id)
      <3>1. map[name] = k
        BY <1>6, <2>1
      <3>2. QED
        BY <1>5, <1>7, <2>1, <3>1
    <2>2. CASE name # Text(e.id)
      <3>1. name \in DOMAIN d.can_msg_values /\ map[name] = d.can_msg_values[name]
        BY <1>6, <2>2
      <3>2. d.can_msg_values[name] \in 1..Len(d.vals)
        BY <3>1 DEF HoldsValues
      <3>3. PICK f \in S : /\ Text(f.id) = name /\ Placed(d.vals[d.can_msg_values[name]], f)
                           /\ SizeOf(f) \in Nat /\ Low(f) \in Nat
        BY <3>1 DEF HoldsValues
      <3>4. QED
        BY <1>7, <3>1, <3>2, <3>3
    <2>3. QED
      BY <2>1, <2>2
  <1>10. QED
    BY <1>4, <1>7, <1>8, <1>9 DEF HoldsValues, c

(* The values of a message, and those of the messages *)
ElementsOf(messages) == UNION {Range(m.values) : m \in messages}

LEMMA LoadMessageHolds ==
  ASSUME NEW d \in Databases, NEW e \in MessageElement, NEW S, HoldsValues(d, S), d.out = "ok",
         LoadMessage(d, e).out = "ok"
  PROVE HoldsValues(LoadMessage(d, e), S \union Range(e.values))
  <1> DEFINE num == MessageId(e.id)
             desc == [id |-> num, values |-> <<>>, signals |-> <<>>]
             new == [d EXCEPT !.descs = Append(@, desc)]
             m == Len(d.descs) + 1
             elements == e.values
             n == Len(elements)
             loaded == Each(LoadValue, new, elements)
             kept == [loaded EXCEPT !.can_msgs = Put(@, num, m)]
  <1>1. Failed(d).out # "ok" /\ Aborted(d).out # "ok"
    BY DEF Failed, Aborted, Databases
  <1>2. ~(e.id \in {Invalid, Absent} \/ e.extended = "maybe")
    BY <1>1 DEF LoadMessage
  <1>3. elements \in Seq(ValueElement) /\ num \in Int
    BY <1>2, MessageIdIsInt
  <1> HIDE DEF num
  <1>4. d.descs \in Seq(Desc) /\ desc \in Desc
    BY <1>3 DEF Databases, Desc
  <1> HIDE DEF desc
  <1>5. /\ Append(d.descs, desc) \in Seq(Desc) /\ Len(Append(d.descs, desc)) = m
        /\ m \in Nat \ {0} /\ Len(d.descs) \in Nat
    BY <1>4, AppendProperties, LenProperties
  <1>6. /\ new \in DatabasesOf(m) /\ Len(new.descs) = m
        /\ new.vals = d.vals /\ new.can_msg_values = d.can_msg_values
    <2> DEFINE descs == Append(d.descs, desc)
    <2> HIDE DEF descs, m
    <2>1. descs \in Seq(Desc) /\ Len(descs) = m
      BY <1>5 DEF descs
    <2>2. \A id \in DOMAIN d.can_msgs : d.can_msgs[id] \in 1..m
      BY <1>5 DEF Databases, m
    <2>3. new \in DatabasesOf(m)
      BY <2>1, <2>2 DEF DatabasesOf, Databases, descs
    <2>4. new.vals = d.vals /\ new.can_msg_values = d.can_msg_values
      BY DEF Databases
    <2>5. QED
      BY <2>3, <2>4 DEF DatabasesOf
  <1>7. LoadMessage(d, e) = kept
    <2> HIDE DEF new
    <2>1. LoadMessage(d, e) = [Each(LoadValue, new, e.values)
                                 EXCEPT !.can_msgs = Put(@, num, Len(new.descs))]
      BY <1>2 DEF LoadMessage, new, desc, num
    <2>2. QED
      BY <1>6, <2>1
  <1>8. HoldsValues(new, S)
    <2> HIDE DEF new
    <2>1. QED
      BY <1>6, SameHolds
  <1> HIDE DEF new, m
  <1>9. PICK r \in [0..n -> DatabasesOf(m)] :
          /\ r[0] = new /\ r[n] = loaded
          /\ \A k \in 1..n :
               r[k] = IF r[k - 1].out = "ok" THEN LoadValue(r[k - 1], elements[k]) ELSE r[k - 1]
    BY <1>3, <1>5, <1>6, LoadValueRuns
  <1>10. n \in Nat /\ DOMAIN elements = 1..n
    BY <1>3, LenProperties
  <1> HIDE DEF loaded, n
  <1> DEFINE Seen(k) == S \union {elements[j] : j \in 1..k}
             T == {k \in 0..n : r[k].out = "ok" => HoldsValues(r[k], Seen(k))}
  <1>11. 0 \in T
    <2>1. Seen(0) = S
      OBVIOUS
    <2> HIDE DEF Seen
    <2>2. HoldsValues(r[0], Seen(0))
      BY <1>8, <1>9, <2>1
    <2>3. QED
      BY <1>10, <2>2
  <1>12. ASSUME NEW k \in 1..n, k - 1 \in T
         PROVE k \in T
    <2>1. k \in 0..n /\ k - 1 \in 0..n /\ r[k - 1] \in DatabasesOf(m)
      BY <1>9, <1>10
    <2>2. CASE r[k - 1].out # "ok"
      BY <1>9, <2>1, <2>2
    <2>3. ASSUME r[k - 1].out = "ok", r[k].out = "ok"
          PROVE HoldsValues(r[k], Seen(k))
      <3>1. HoldsValues(r[k - 1], Seen(k - 1))
        BY <1>12, <2>3
      <3>2. r[k] = LoadValue(r[k - 1], elements[k]) /\ elements[k] \in ValueElement
        BY <1>3, <1>9, <1>10, <2>3, ElementOfSeq
      <3>3. Seen(k) = Seen(k - 1) \union {elements[k]}
        <4>1. 1..k = 1..(k - 1) \union {k}
          BY <1>10
        <4>2. QED
          BY <4>1
      <3> HIDE DEF Seen
      <3>4. HoldsValues(r[k], Seen(k - 1) \union {elements[k]})
        BY <1>5, <2>1, <2>3, <3>1, <3>2, LoadValueHolds
      <3>5. QED
        BY <3>3, <3>4
    <2>4. QED
      BY <2>1, <2>2, <2>3
  <1> HIDE DEF T
  <1>13. \A k \in 0..n : k \in T
    BY <1>10, <1>11, <1>12, Reaches
  <1>14. n \in T /\ Seen(n) = S \union Range(elements)
    BY <1>10, <1>13 DEF Range
  <1>15. loaded \in DatabasesOf(m) /\ loaded \in Databases
    <2>1. r[n] \in DatabasesOf(m)
      BY <1>9, <1>10
    <2>2. QED
      BY <1>9, <2>1 DEF DatabasesOf
  <1>16. kept.out = loaded.out /\ kept.vals = loaded.vals
         /\ kept.can_msg_values = loaded.can_msg_values
    BY <1>15 DEF Databases
  <1>17. HoldsValues(loaded, S \union Range(elements))
    BY <1>7, <1>9, <1>14, <1>16 DEF T
  <1> HIDE DEF kept
  <1>18. QED
    BY <1>7, <1>16, <1>17, SameHolds

LEMMA LoadMessagesHold ==
  ASSUME NEW elements \in Seq(MessageElement),
         Each(LoadMessage, NoDatabase, elements).out = "ok"
  PROVE HoldsValues(Each(LoadMessage, NoDatabase, elements), ElementsOf(Range(elements)))
  <1> DEFINE n == Len(elements)
             loaded == Each(LoadMessage, NoDatabase, elements)
             First(k) == {elements[j] : j \in 1..k}
  <1>1. NoDatabase \in Databases
    BY NoDatabaseIsOne
  <1>2. PICK r \in [0..n -> Databases] :
          /\ r[0] = NoDatabase /\ r[n] = loaded
          /\ \A k \in 1..n :
               r[k] = IF r[k - 1].out = "ok" THEN LoadMessage(r[k - 1], elements[k]) ELSE r[k - 1]
    BY <1>1, LoadMessageRuns
  <1>3. n \in Nat /\ DOMAIN elements = 1..n
    BY LenProperties
  <1> HIDE DEF loaded, n
  <1> DEFINE Holding(k) == r[k].out = "ok" => HoldsValues(r[k], ElementsOf(First(k)))
             T == {k \in 0..n : Holding(k)}
  <1>4. 0 \in T
    <2>1. HoldsValues(NoDatabase, {})
      BY DEF HoldsValues, NoDatabase
    <2>2. ElementsOf(First(0)) = {}
      BY DEF ElementsOf
    <2> HIDE DEF First
    <2>3. HoldsValues(r[0], ElementsOf(First(0)))
      BY <1>2, <2>1, <2>2
    <2>4. QED
      BY <1>3, <2>3
  <1>5. ASSUME NEW k \in 1..n, Holding(k - 1)
        PROVE Holding(k)
    <2>1. k \in 0..n /\ k - 1 \in 0..n /\ r[k - 1] \in Databases
      BY <1>2, <1>3
    <2>2. CASE r[k - 1].out # "ok"
      BY <1>2, <2>1, <2>2
    <2>3. ASSUME r[k - 1].out = "ok", r[k].out = "ok"
          PROVE HoldsValues(r[k], ElementsOf(First(k)))
      <3>1. HoldsValues(r[k - 1], ElementsOf(First(k - 1)))
        BY <1>5, <2>3
      <3>2. r[k] = LoadMessage(r[k - 1], elements[k]) /\ elements[k] \in MessageElement
        BY <1>2, <1>3, <2>3, ElementOfSeq
      <3>3. ElementsOf(First(k)) = ElementsOf(First(k - 1)) \union Range(elements[k].values)
        <4>1. 1..k = 1..(k - 1) \union {k}
          BY <1>3
        <4>2. First(k) = First(k - 1) \union {elements[k]}
          BY <4>1
        <4> HIDE DEF First
        <4>3. QED
          BY <4>2 DEF ElementsOf
      <3> HIDE DEF First
      <3>4. HoldsValues(r[k], ElementsOf(First(k - 1)) \union Range(elements[k].values))
        BY <2>1, <2>3, <3>1, <3>2, LoadMessageHolds
      <3>5. QED
        BY <3>3, <3>4
    <2>4. QED
      BY <2>2, <2>3
  <1> HIDE DEF Holding
  <1>6. \A k \in 0..n : k \in T
    <2>1. ASSUME NEW k \in 1..n, k - 1 \in T
          PROVE k \in T
      BY <1>3, <1>5, <2>1
    <2> HIDE DEF T
    <2>2. QED
      BY <1>3, <1>4, <2>1, Reaches
  <1>7. Holding(n) /\ First(n) = Range(elements)
    BY <1>3, <1>6 DEF Range
  <1> HIDE DEF First
  <1>8. QED
    BY <1>2, <1>7 DEF Holding, loaded

LEMMA LoadHolds ==
  ASSUME NEW file, FileOK(file), NEW zeroes, Load(file, zeroes).out = "ok"
  PROVE HoldsValues(Load(file, zeroes), ElementsOf(Range(file.messages)))
  <1>1. NoDatabase \in Databases /\ NoDatabase.out = "ok"
    BY NoDatabaseIsOne DEF NoDatabase
  <1>2. /\ file.messages \in Seq(MessageElement)
        /\ file.signals \in Seq(SignalElement) /\ file.converters \in Seq(ConverterElement)
    BY FileTyped
  <1> DEFINE msgs == IF "messages" \in file.has
                     THEN Each(LoadMessage, NoDatabase, file.messages)
                     ELSE Failed(NoDatabase)
             convs == IF msgs.out # "ok" THEN msgs
                      ELSE IF "converters" \in file.has
                           THEN Each(LoadConverter, msgs, file.converters)
                           ELSE msgs
             sigs == IF convs.out # "ok" THEN convs
                     ELSE IF "signals" \in file.has
                          THEN LoadSignals(convs, file.signals, zeroes)
                          ELSE Failed(convs)
             S == ElementsOf(Range(file.messages))
  <1>3. Load(file, zeroes) = sigs
    BY <1>1, Zenon DEF Load, LoadSignals
  <1>4. \A d \in Databases : d \in SameValues(d) /\ Failed(d) \in SameValues(d) /\ Failed(d).out # "ok"
    <2>1. \A d \in Databases : Failed(d).out # "ok" /\ d \in SameValues(d)
      BY DEF Failed, Databases, SameValues
    <2>2. QED
      BY <2>1, FailedIsSame
  <1>5. msgs \in Databases /\ (msgs.out = "ok" => HoldsValues(msgs, S))
    BY <1>1, <1>2, <1>4, EachMessage, LoadMessagesHold DEF SameValues
  <1> HIDE DEF msgs
  <1>6. convs \in SameValues(msgs) /\ convs \in Databases /\ (convs.out = "ok" => msgs.out = "ok")
    BY <1>2, <1>4, <1>5, EachConverter DEF SameValues
  <1> HIDE DEF convs
  <1>7. sigs \in SameValues(convs) /\ (sigs.out = "ok" => convs.out = "ok")
    BY <1>2, <1>4, <1>6, EachSignal DEF SameValues
  <1> HIDE DEF sigs, S
  <1>8. sigs.vals = msgs.vals /\ sigs.can_msg_values = msgs.can_msg_values
    BY <1>6, <1>7 DEF SameValues
  <1>9. HoldsValues(sigs, S)
    BY <1>3, <1>5, <1>6, <1>7, <1>8, SameHolds
  <1>10. QED
    BY <1>3, <1>9 DEF S
-----------------------------------------------------------------------------
(* The database is the one the file says, once it was loaded. *)
DatabaseInv == db = NoDatabase \/ db = Load(xml, clean)

LEMMA InitDatabase == ToolOK /\ ToolInit => DatabaseInv
  BY DEF ToolInit, DatabaseInv

LEMMA NextDatabase == DatabaseInv /\ [Next]_vars => DatabaseInv'
  <1> SUFFICES ASSUME DatabaseInv, [Next]_vars
               PROVE DatabaseInv'
    OBVIOUS
  <1>1. xml' = xml /\ clean' = clean
    BY DEF Next, vars, environment, At, ControllerCall, ParseArguments, Initialized,
      LoadDatabase, LoadPlugin, CreateController, Open, Configure, StartController, Receive,
      PressEnter, ChangeFilter, Filtered, Send, Stop, Close, Delete, Serve, ListAdapters
  <1>2. CASE LoadDatabase
    <2>1. db' = Load(xml, clean) \/ db' = db
      BY <1>2 DEF LoadDatabase
    <2>2. QED
      BY <1>1, <2>1 DEF DatabaseInv
  <1>3. CASE ~LoadDatabase
    <2>1. db' = db
      BY <1>3 DEF Next, vars, session, At, ControllerCall, ParseArguments, Initialized,
        LoadPlugin, CreateController, Open, Configure, StartController, Receive, PressEnter,
        ChangeFilter, Filtered, Send, Stop, Close, Delete, Serve, ListAdapters
    <2>2. QED
      BY <1>1, <2>1 DEF DatabaseInv
  <1>4. QED
    BY <1>2, <1>3

LEMMA DatabaseMeans == LineInv /\ DatabaseInv => ValuesAreRead
  <1> SUFFICES ASSUME LineInv, DatabaseInv, db # NoDatabase, db.out = "ok",
                      NEW m \in Range(xml.messages), NEW e \in Range(m.values), NoOther(e)
               PROVE /\ Text(e.id) \in DOMAIN db.can_msg_values
                     /\ LET v == db.vals[db.can_msg_values[Text(e.id)]]
                            last == Low(e) + SizeOf(e) - 1
                        IN /\ v.type = e.type
                           /\ (/\ SizeOf(e) > 0 /\ last < MsgBits
                               /\ e.type = "bool" => Number(e.bit) < ByteBits
                               /\ SizeOf(e) = MsgBits => wide = 2^MsgBits - 1) =>
                                \A data \in Data : data.type \in {"rx", "tx"} =>
                                  LET bytes == data.msg.data
                                      bits == BitsOf(bytes, Low(e), SizeOf(e))
                                  IN IF e.type # "int" THEN RawValue(v, bytes, wide) = bits
                                     ELSE BitOf(bytes, last) = 1 =>
                                            RawValue(v, bytes, wide) = bits - 2^SizeOf(e)
    BY DEF ValuesAreRead
  <1> DEFINE v == db.vals[db.can_msg_values[Text(e.id)]]
             n == SizeOf(e)
             s == Low(e)
  <1>1. HoldsValues(db, ElementsOf(Range(xml.messages)))
    BY LoadHolds DEF LineInv, ToolOK, DatabaseInv
  <1>2. e \in ElementsOf(Range(xml.messages)) /\ Text(e.id) \in DOMAIN db.can_msg_values
    BY <1>1 DEF HoldsValues, ElementsOf
  <1>3. PICK f \in ElementsOf(Range(xml.messages)) :
          Text(f.id) = Text(e.id) /\ Placed(v, f) /\ SizeOf(f) \in Nat /\ Low(f) \in Nat
    BY <1>1, <1>2 DEF HoldsValues
  <1>4. f = e
    BY <1>3 DEF NoOther, ElementsOf
  <1>5. Placed(v, e) /\ n \in Nat /\ s \in Nat
    BY <1>3, <1>4
  <1> HIDE DEF v
  <1>6. v.type = e.type
    BY <1>5 DEF Placed
  <1>7. ASSUME n > 0, s + n - 1 < MsgBits, n = MsgBits => wide = 2^MsgBits - 1,
               e.type = "bool" => Number(e.bit) < ByteBits,
               NEW data \in Data, data.type \in {"rx", "tx"}
        PROVE LET bytes == data.msg.data
                  bits == BitsOf(bytes, s, n)
              IN IF e.type # "int" THEN RawValue(v, bytes, wide) = bits
                 ELSE BitOf(bytes, s + n - 1) = 1 => RawValue(v, bytes, wide) = bits - 2^n
    <2>1. MsgBits \in Nat
      BY MessageBits
    <2>2. n \in 1..MsgBits /\ s + n <= MsgBits
      <3> HIDE DEF n, s
      <3>1. QED
        BY <1>5, <1>7, <2>1
    <2>3. v.size = n /\ Start(v) = s
      BY <1>5, <1>7, <2>2 DEF Placed
    <2>31. ASSUME v.type = "bool"
           PROVE /\ v.byte \in 0..(MaxLen - 1) /\ v.bit \in 0..(ByteBits - 1)
                 /\ s = v.byte * ByteBits + v.bit /\ n = 1
      <3>1. v.byte = Number(e.byte) /\ v.bit = Number(e.bit) /\ v.byte \in Nat /\ v.bit \in Nat
        BY <1>5, <1>7, <2>2 DEF Placed
      <3>2. e.type = "bool" /\ n = 1 /\ s = v.byte * ByteBits + v.bit
        BY <1>6, <2>31, <3>1 DEF SizeOf, Low
      <3>3. v.byte \in Nat /\ v.bit \in Nat
        BY <3>1
      <3>4. v.bit < ByteBits
        BY <1>7, <3>1, <3>2
      <3> DEFINE a == v.byte
                 b == ByteBits
                 c == v.bit
      <3>5. /\ b \in Nat \ {0} /\ MaxLen \in Nat \ {0} /\ MsgBits = b * MaxLen
            /\ a \in Nat /\ c \in 0..(b - 1) /\ a * b + c < MsgBits
        <4>1. s + n - 1 = s /\ s < MsgBits
          BY <1>5, <1>7, <3>2
        <4>2. QED
          BY <3>2, <3>3, <3>4, <4>1, BitPowers
      <3> HIDE DEF a, b, c
      <3>6. a \in 0..(MaxLen - 1)
        <4> SUFFICES ASSUME a >= MaxLen
                     PROVE FALSE
          BY <3>5
        <4>1. b * MaxLen <= b * a
          BY <3>5
        <4>2. b * a = a * b /\ a * b \in Nat
          BY <3>5
        <4>3. QED
          BY <3>5, <4>1, <4>2
      <3>7. QED
        BY <3>2, <3>5, <3>6 DEF a, b, c
    <2> DEFINE bytes == data.msg.data
    <2>4. bytes \in Bytes
      BY <1>7, ToolsAssumption DEF Bytes
    <2> HIDE DEF bytes, n, s
    <2>5. /\ v.type \notin {"int", "bool"} => RawValue(v, bytes, wide) = BitsOf(bytes, s, n)
          /\ (v.type = "int" /\ BitOf(bytes, s + n - 1) = 1) =>
               RawValue(v, bytes, wide) = BitsOf(bytes, s, n) - 2^n
      BY <1>5, <1>7, <2>2, <2>3, <2>4, RawBits
    <2>6. v.type = "bool" => RawValue(v, bytes, wide) = BitsOf(bytes, s, n)
      BY <2>31, <2>4, RawBit
    <2>7. QED
      BY <1>6, <2>5, <2>6 DEF bytes
  <1>8. QED
    BY <1>2, <1>6, <1>7 DEF v, n, s

(* Of whatever file, a value that was loaded is read from the bits it was  *)
(* declared to have.                                                       *)
THEOREM ValuesAreReadAsDeclared == ToolSpec => []ValuesAreRead
  <1>1. ToolOK /\ ToolInit => LineInv /\ DatabaseInv
    BY InitLine, InitDatabase
  <1>2. (LineInv /\ DatabaseInv) /\ [Next]_vars => (LineInv /\ DatabaseInv)'
    BY NextLine, NextDatabase
  <1>3. QED
    BY <1>1, <1>2, DatabaseMeans, PTL DEF ToolSpec
=============================================================================
