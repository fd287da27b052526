--------------------------- MODULE CanMsgDatabase ---------------------------
(***************************************************************************)
(* XmlFileCanMsgDatabase and what it is made of (libs/pipeline/decoder):   *)
(* messages with values at bit positions, converters, and signals, each a  *)
(* value and perhaps a converter.                                          *)
(*                                                                         *)
(* A file is [root, has, messages, converters, signals]: has names the     *)
(* sections that are there.  A number is Absent when its attribute is, and *)
(* Invalid when std::stoull() throws on it; None is an absent text.        *)
(*                                                                         *)
(* A database is [out, ...]: out is "ok", "failed", "aborted" by an        *)
(* exception nobody catches, or "undefined".                               *)
(***************************************************************************)
EXTENDS Integers, SequencesExt

CONSTANTS
  MaxLen,        \* bound: bytes of a message, CAN_MSG_MAX_LEN
  ByteBits,      \* bound: bits of a byte, 8 in the code
  PositionBits,  \* bound: bits of a position, 8 in the code
  IdBits,        \* bound: bits of a message id in memory, 32 in the code
  (* The expressions of the functions (libs/math), whatever they are:      *)
  (* [out, tree] of an expression, the integers a tree may evaluate to,    *)
  (* and whether it throws, with the values of its variables               *)
  ParseFunction(_), EvaluateFunction(_, _), FunctionThrows(_, _),
  NoFunction     \* no tree

Absent  == -1000
Invalid == -2000
None    == "none"

MsgBits == MaxLen * ByteBits
Uint8(n) == n % 2^PositionBits

Text(attribute) == IF attribute = None THEN "" ELSE attribute
Number(attribute) == IF attribute = Absent THEN 0 ELSE attribute

(* What a file may hold.  The parser of the expressions comes to an end. *)
Attribute == Nat \union {Absent, Invalid}
FileOK(xml) ==
  /\ xml.messages \in
       Seq([id : Attribute, extended : STRING,
            values : Seq([id : STRING, type : STRING,
                          byte : Attribute, bit : Attribute, size : Attribute])])
  /\ xml.converters \in
       Seq([id : STRING, type : STRING, enums : Seq([id : Int, value : STRING]),
            f : SUBSET Seq(STRING)])
  /\ xml.signals \in Seq([id : STRING, value : STRING, converter : STRING])
  /\ \A e \in Range(xml.converters) : \A items \in e.f :
       ParseFunction(items).out \in {"ok", "failed", "undefined"}

-----------------------------------------------------------------------------
(* CanMsgValueBase.  A position is computed on 8 bits, and its sum with    *)
(* the size on more.                                                       *)
Position(byte, bit) == Uint8(byte * ByteBits + bit)
Fits(position, size) == position + size <= MsgBits

Start(v) == Position(v.byte, v.bit)
(* Variant: the end is the first bit that is free. *)
EndFree(v) == Uint8(Start(v) + v.size)
End(v)   == Uint8(Start(v) + v.size - 1)

SetBytePosition(v, byte) ==
  IF Fits(Position(byte, v.bit), v.size) THEN [v EXCEPT !.byte = byte] ELSE v

SetBitPosition(v, bit) ==
  IF Fits(Position(v.byte, bit), v.size) THEN [v EXCEPT !.bit = bit] ELSE v

(* Variant: the size is not looked at. *)
SizeUnchecked(type, size) == IF type = "bool" THEN 1 ELSE Uint8(size)

(* A size that does not fit leaves the largest one, with nothing said.  A  *)
(* float is half of a message and a double the whole.                      *)
Size(type, size) ==
  CASE type = "bool"   -> 1
    [] type = "float"  -> MsgBits \div 2
    [] type = "double" -> MsgBits
    [] OTHER -> IF Uint8(size) <= MsgBits THEN Uint8(size) ELSE MsgBits

NewValue(type, size, msg) ==
  [type |-> type, byte |-> 0, bit |-> 0, size |-> Size(type, size), msg |-> msg]

(* CanMsgDesc::addValue(): what starts before a value and ends after it is *)
(* not found to overlap it.                                                *)
Overlaps(v, w) == \/ Start(v) >= Start(w) /\ Start(v) <= End(w)
                  \/ End(v) >= Start(w) /\ End(v) <= End(w)

-----------------------------------------------------------------------------
(* Loading.  An element is loaded unless one before it has failed. *)
Failed(db)    == [db EXCEPT !.out = "failed"]
Aborted(db)   == [db EXCEPT !.out = "aborted"]
Undefined(db) == [db EXCEPT !.out = "undefined"]

Each(Load(_, _), db, elements) ==
  FoldLeft(LAMBDA d, e : IF d.out = "ok" THEN Load(d, e) ELSE d, db, elements)

(* What comes later for a name takes the place of what was there. *)
Put(map, name, value) ==
  [n \in DOMAIN map \union {name} |-> IF n = name THEN value ELSE map[n]]

NoDatabase ==
  [out |-> "ok",
   descs |-> <<>>,            \* every CanMsgDesc created: [id, values, signals]
   vals |-> <<>>,             \* every value created
   can_msgs |-> [id \in {} |-> 0],
   can_msg_values |-> [id \in {} |-> 0],
   converters |-> [id \in {} |-> 0]]

(* What the attributes before have lost is forgotten when one after them   *)
(* can be read.                                                            *)
AttributesRead(e) ==
  /\ IF e.size # Absent THEN e.size # 0 ELSE e.bit # Absent
  /\ e.type \in {"bool", "uint", "int", "float", "double"}

(* The verdicts on the positions are overwritten as well: a value that     *)
(* does not fit stays where it was.                                        *)
LoadValue(db, e) ==
  LET msg == Len(db.descs)
      new == NewValue(e.type, Number(e.size), msg)
      v == SetBitPosition(SetBytePosition(new, Uint8(Number(e.byte))),
                          Uint8(Number(e.bit)))
      n == Len(db.vals) + 1
  IN IF Invalid \in {e.byte, e.bit, e.size} THEN Aborted(db)
     ELSE IF ~AttributesRead(e) THEN Failed(db)
     ELSE IF \E i \in Range(db.descs[msg].values) : Overlaps(v, db.vals[i]) THEN Failed(db)
     ELSE [db EXCEPT !.vals = Append(@, v),
                     !.descs[msg].values = Append(@, n),
                     !.can_msg_values = Put(@, Text(e.id), n)]

(* Messages are kept by their identifier alone, whether extended or not,   *)
(* also one whose values were refused.  Of an identifier the lowest bits   *)
(* are kept.                                                               *)
MessageId(n) == n % 2^IdBits

LoadMessage(db, e) ==
  LET id == MessageId(e.id)
      new == [db EXCEPT !.descs = Append(@, [id |-> id, values |-> <<>>, signals |-> <<>>])]
  IN IF e.id = Invalid THEN Aborted(db)
     ELSE IF e.id = Absent \/ e.extended = "maybe" THEN Failed(db)
     ELSE [Each(LoadValue, new, e.values)
             EXCEPT !.can_msgs = Put(@, id, Len(new.descs))]

(* An enumeration under construction: [out, enum] *)
LoadEnum(c, e) ==
  IF e.id = Invalid THEN Aborted(c)
  ELSE IF e.id = Absent \/ e.value = None THEN Failed(c)
  ELSE [c EXCEPT !.enum = Put(@, e.id, e.value)]

EnumConverter(e) ==
  LET c == Each(LoadEnum, [out |-> "ok", enum |-> [id \in {} |-> ""]], e.enums)
  IN [out |-> c.out, type |-> e.type, enum |-> c.enum, tree |-> NoFunction]

(* f is the expression, a set of one or, without the node or the           *)
(* attribute, of none.                                                     *)
FunctionConverter(e) ==
  LET f == IF e.f = {} THEN [out |-> "failed", tree |-> NoFunction]
           ELSE ParseFunction(CHOOSE items \in e.f : TRUE)
  IN [out |-> f.out, type |-> e.type, enum |-> [id \in {} |-> ""], tree |-> f.tree]

LoadConverter(db, e) ==
  LET c == IF e.type = "enum_converter" THEN EnumConverter(e) ELSE FunctionConverter(e)
  IN IF e.id = None \/ e.type \notin {"enum_converter", "function_converter"}
     THEN Failed(db)
     ELSE [db EXCEPT !.out = c.out,
                     !.converters = IF c.out = "ok" THEN Put(@, e.id, c) ELSE @]

(* setCanMsgValue() of the converters *)
Compatible(c, type) ==
  IF c.type = "enum_converter" THEN type \in {"int", "uint"} ELSE type # "bool"

(* CanMsgDesc::addSignal(): a value holds the address of its message, also *)
(* when another message of the same identifier has taken its place.        *)
AddSignal(db, signal) ==
  LET msg == db.vals[signal.value].msg
  IN IF msg \notin Range(db.can_msgs) THEN Undefined(db)
     ELSE [db EXCEPT !.descs[msg].signals = Append(@, signal)]

(* A clone copies its name from its own memory before anything is there:   *)
(* `clean` says that it was zeroes, and the name empty.                    *)
LoadSignal(db, e, clean) ==
  LET signal == [name |-> e.id, value |-> db.can_msg_values[e.value],
                 converter |-> Text(e.converter)]
      converted == signal.converter # ""
  IN IF \/ e.id = None
        \/ e.value \notin DOMAIN db.can_msg_values
        \/ Text(e.converter) \notin DOMAIN db.converters \union {""}
     THEN Failed(db)
     ELSE IF converted /\ ~clean THEN Undefined(db)
     ELSE IF converted
             /\ ~Compatible(db.converters[signal.converter], db.vals[signal.value].type)
     THEN Failed(db)
     ELSE AddSignal(db, signal)

(* load(): the messages, the converters if there are any, the signals *)
Load(xml, clean) ==
  LET Section(L(_, _), db, name, elements) ==
        IF db.out # "ok" THEN db
        ELSE IF name \in xml.has THEN Each(L, db, elements)
        ELSE IF name = "converters" THEN db ELSE Failed(db)
      messages == Section(LoadMessage, NoDatabase, "messages", xml.messages)
      converters == Section(LoadConverter, messages, "converters", xml.converters)
  IN Section(LAMBDA db, e : LoadSignal(db, e, clean), converters, "signals", xml.signals)

-----------------------------------------------------------------------------
(* Decoding.  A message carries MaxLen bytes, the lowest first: the loop   *)
(* of getMaskedValue() begins with the last, after one more that is        *)
(* shifted out.                                                            *)
Word(data) ==
  LET value[i \in 0..MaxLen] ==
        IF i = 0 THEN 0 ELSE 2^ByteBits * value[i - 1] + data[MaxLen + 1 - i]
  IN value[MaxLen]

(* The mask of the largest size is `wide`: the shift it comes from is one  *)
(* by all the bits.                                                        *)
Mask(v, wide) == IF v.size = MsgBits THEN wide ELSE 2^v.size - 1

Masked(v, data, wide) ==
  IF Mask(v, wide) = 0 THEN 0
  ELSE (Word(data) \div 2^Start(v)) % (Mask(v, wide) + 1)

(* The number a word of the code stands for when it is signed *)
Signed(n) == IF n >= 2^(MsgBits - 1) THEN n - 2^MsgBits ELSE n

(* IntegerCanMsgValue::updateValue() sets all the bits above a signed      *)
(* value, whatever its sign.  BooleanCanMsgValue::updateValue() looks at   *)
(* its byte, where there are no bits from the width of a byte on.          *)
RawValue(v, data, wide) ==
  CASE v.type = "int"  -> Signed(Masked(v, data, wide) + (2^MsgBits - 1 - Mask(v, wide)))
    [] v.type = "bool" -> IF v.bit < ByteBits THEN (data[v.byte + 1] \div 2^v.bit) % 2 ELSE 0
    [] OTHER -> Masked(v, data, wide)

(* A byte that is not there, or a shift by all the bits of an unsigned:    *)
(* the sum that was compared with the size of a message is one of 8 bits.  *)
UnsignedBits == 4 * ByteBits
OutOfBounds(v) == v.type = "bool" /\ (v.byte >= MaxLen \/ v.bit >= UnsignedBits)

(* What the converter makes of it: a text, or a number.  A floating-point  *)
(* value is not an integer the function could be followed on.              *)
Env(type, raw) ==
  [variable \in {"in_val"} |-> IF type \in {"int", "uint"} THEN {raw} ELSE {}]

ConvertValue(c, type, raw) ==
  IF c.type = "enum_converter"
  THEN [text |-> IF Signed(raw) \in DOMAIN c.enum THEN c.enum[Signed(raw)] ELSE ""]
  ELSE [number |-> EvaluateFunction(c.tree, Env(type, raw))]

(* What DecodedCanMsgStreamLogger prints of a signal; it has no words for  *)
(* a boolean.                                                              *)
PrintValue(type, n) ==
  CASE type = "bool" -> [text |-> "Unknown type (bool)"]
    [] type \in {"int", "uint"} -> [number |-> {n}]
    [] OTHER -> [bits |-> n]

Line(db, signal, data, wide) ==
  LET v == db.vals[signal.value]
      raw == RawValue(v, data, wide)
  IN [signal |-> signal.name, raw |-> PrintValue(v.type, raw),
      converted |-> IF signal.converter = "" THEN PrintValue(v.type, raw)
                    ELSE ConvertValue(db.converters[signal.converter], v.type, raw)]

(* CanMsgDecoder looks for the identifier without regard to its kind. *)
Signals(db, msg) ==
  IF msg.id \in DOMAIN db.can_msgs THEN db.descs[db.can_msgs[msg.id]].signals ELSE <<>>

(* A function without a tree, or with a variable other than in_val, ends   *)
(* the program when its signal is decoded.                                 *)
EndsTheProgram(db, signal) ==
  /\ signal.converter # ""
  /\ LET tree == db.converters[signal.converter].tree
     IN db.converters[signal.converter].type = "function_converter" /\
        (tree = NoFunction \/ FunctionThrows(tree, Env("int", 0)))

(* updateSignals() goes through the signals in their order, up to the      *)
(* first it cannot go on after.                                            *)
Decoding(db, msg) ==
  LET signals == Signals(db, msg)
      IsOut(i) == OutOfBounds(db.vals[signals[i].value])
      stops == {i \in DOMAIN signals : IsOut(i) \/ EndsTheProgram(db, signals[i])}
  IN IF stops = {} THEN "ok" ELSE IF IsOut(Min(stops)) THEN "undefined" ELSE "aborted"

Decode(db, msg, wide) ==
  LET signals == Signals(db, msg)
  IN [i \in DOMAIN signals |-> Line(db, signals[i], msg.data, wide)]
=============================================================================
