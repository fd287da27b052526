----------------------------- MODULE MCCanTools -----------------------------
(* An instance of CanTools for TLC: one scenario for each part of it. *)
EXTENDS CanToolsSignals

(* bool and string have no width. *)
MCWidth == [uint8 |-> 2, uint16 |-> 3, uint32 |-> 4, uint64 |-> 5]

W(text, number, minus, hex) == [text |-> text, number |-> number, minus |-> minus, hex |-> hex]
T(text) == W(text, NoNumber, FALSE, FALSE)
N(text, number) == W(text, number, FALSE, FALSE)

MCWords ==
  { N("0", 0), N("1", 1), N("2", 2), N("3", 3), N("4", 4), N("6789", 6), N("7", 7),
    N("8", 8), N("15", 15), N("16", 16), N("31", 31), N("32", 32), N("1x", 1),
    W("-0", 0, TRUE, FALSE), W("-1", 1, TRUE, FALSE), W("-2", 2, TRUE, FALSE),
    W("-3", 3, TRUE, FALSE), W("-31", 31, TRUE, FALSE), W("-32", 32, TRUE, FALSE),
    W("0x2", 2, FALSE, TRUE), T("x"), T("true"), T("False"), T("maybe") }

Typed(texts) == [i \in DOMAIN texts |-> WordOf(texts[i])]

SeqsUpTo(S, n) == UNION {[1..k -> S] : k \in 0..n}

MCSplit ==
  ("port=2" :> << <<"port", "2">> >>) @@ ("port=x" :> << <<"port", "x">> >>) @@
  ("ip=7;port=8" :> << <<"ip", "7">>, <<"port", "8">> >>) @@
  ("port=1;port=3;port" :> << <<"port", "1">>, <<"port", "3">>, <<"port">> >>) @@
  ("port=" :> << <<"port", "">> >>) @@ ("port=0x2" :> << <<"port", "0x2">> >>) @@
  ("timeout=x" :> << <<"timeout", "x">> >>) @@ ("line=x" :> << <<"line", "x">> >>)
MCCharacters == "hi" :> <<3, 2>>

-----------------------------------------------------------------------------
Lib(loads, type, name) == [loads |-> loads, type |-> type, name |-> name]
Udp == Lib(TRUE, "can_adapter", "udp_adapter")
Tcp == Lib(TRUE, "can_adapter", "tcp_adapter")
Ixxat == Lib(TRUE, "can_adapter", "ixxat_adapter")
Loopback == Lib(TRUE, "can_adapter", "loopback_adapter")
Broken == Lib(FALSE, "none", "none")
Other == Lib(TRUE, "none", "none")

Directories == { <<>>, <<Udp>>, <<Udp, Udp>>, <<Loopback, Other, Udp>>, <<Broken, Udp>>,
                 <<Udp, Broken>>, <<Tcp, Ixxat>> }

-----------------------------------------------------------------------------
(* The type of the value, its byte and its bit, and its size *)
Val(id, type, byte, bit, size) ==
  [id |-> id, type |-> type, byte |-> byte, bit |-> bit, size |-> size]
Msg(id, extended, values) == [id |-> id, extended |-> extended, values |-> values]
EnumConv(id, enums) == [id |-> id, type |-> "enum_converter", enums |-> enums, f |-> {}]
FuncConv(id, items) == [id |-> id, type |-> "function_converter", enums |-> <<>>, f |-> items]
Sig(id, value, converter) == [id |-> id, value |-> value, converter |-> converter]
File(messages, convs, signals) ==
  [has |-> {"messages", "converters", "signals"},
   messages |-> messages, converters |-> convs, signals |-> signals]

EmptyFile == File(<<>>, <<>>, <<>>)

Twice == FuncConv("f", {<<"2", "*", "(", "in_val", "-", "1", ")">>})
Names == EnumConv("e", << [id |-> 0, value |-> "zero"], [id |-> 2, value |-> "two"],
                          [id |-> -1, value |-> "minus one"] >>)

(* A file of two messages, with a value of every type *)
Sample ==
  File(<< Msg(1, "false", << Val("u", "uint", 0, Absent, 2), Val("i", "int", 1, 0, 2) >>),
          Msg(2, "true", << Val("f", "float", 1, Absent, 1), Val("b", "bool", Absent, 1, 1),
                            Val("j", "int", Absent, Absent, 1) >>) >>,
       << Twice, Names >>,
       << Sig("su", "u", "f"), Sig("si", "i", "e"), Sig("sf", "f", "f"), Sig("sb", "b", None),
          Sig("sj", "j", None), Sig("sv", "u", "e") >>)

(* The sample with one mistake or another *)
Mistaken ==
  { [Sample EXCEPT !.has = @ \ {section}] : section \in {"messages", "converters", "signals"} } \union
  { [Sample EXCEPT !.messages[1].id = id] : id \in {2, 17, 18, Absent, Invalid} } \union
  { [Sample EXCEPT !.messages[1].extended = "maybe"],
    [Sample EXCEPT !.messages[1].values = <<>>] } \union
  { [Sample EXCEPT !.converters = Tail(@)],
    [Sample EXCEPT !.converters[1].f = { <<"max", "(", "in_val", "*", "2", ",", "abs", "(", "1", "-",
                                           "min", "(", "in_val", ",", "2", ")", ")", ")">> }],
    [Sample EXCEPT !.converters[1].id = None],
    [Sample EXCEPT !.converters[1].type = "other"],
    [Sample EXCEPT !.converters[1].f = {}],
    [Sample EXCEPT !.converters[1].f = { <<"x">> }],
    [Sample EXCEPT !.converters[1].f = { <<>> }],
    [Sample EXCEPT !.converters[2].id = "f"],
    [Sample EXCEPT !.converters[2].enums[1].id = Absent],
    [Sample EXCEPT !.converters[2].enums[1].id = Invalid],
    [Sample EXCEPT !.converters[2].enums[1].value = None] } \union
  { [Sample EXCEPT !.signals[1].id = None],
    [Sample EXCEPT !.signals[1].value = "none"],
    [Sample EXCEPT !.signals[1].converter = "none"],
    [Sample EXCEPT !.signals[4].converter = "f"],
    [Sample EXCEPT !.signals[4].converter = "e"],
    [Sample EXCEPT !.signals[3].converter = "e"] }

(* One value of a message, anywhere; and two of them *)
OneValue(type, byte, bit, size) ==
  File(<< Msg(1, "false", <<Val("u", type, byte, bit, size)>>) >>, <<>>, << Sig("su", "u", None) >>)
OneValueFiles ==
  {OneValue(type, byte, bit, size) :
     type \in {"uint", "int"}, byte \in {Absent, 0, 1, 2, 8, Invalid},
     bit \in {Absent, 0, 1, 3, Invalid}, size \in {Absent, 0, 1, 2, 3, 4, 5, 17}} \union
  {OneValue(type, byte, bit, 1) : type \in {"float", "double", "text"},
     byte \in {0, 1}, bit \in {Absent, 1}} \union
  {OneValue("bool", byte, bit, 1) : byte \in {0, 1, 8}, bit \in {Absent, 1, 2, 3, 14}}

TwoValueFiles ==
  {File(<< Msg(1, "true", <<Val("u", "uint", Absent, b1, s1), Val("v", "uint", Absent, b2, s2)>>) >>,
        <<>>, << Sig("sv", "v", None), Sig("su", "u", None) >>) :
     b1 \in 0..3, s1 \in 1..4, b2 \in 0..3, s2 \in 1..4}

(* Files whose converter is any short expression, and some longer ones;    *)
(* they end there.                                                         *)
MCNumerals  == {"1", "2"}
MCMalformed == {"1.x.2"}
MCArity     == [min |-> 2, max |-> 2, abs |-> 1, cos |-> 1]
MCNumeral   == [n \in MCNumerals |-> IF n = "1" THEN 1 ELSE 2]

Runs == {"2", "in_val", "min", "1.x.2"}
Signs == {"+", "*", "-", "(", ")", ","}
Alternates(s) == \A i \in 1..(Len(s) - 1) : s[i] \in Signs \/ s[i + 1] \in Signs
Expressions ==
  {s \in SeqsUpTo(Runs \union Signs, 5) : Alternates(s)} \union
  { <<"min", "(", a, o, b, ",", c, ")", p, d>> :
       a \in {"2", "("}, o \in {"+", ")"}, b \in {"1", "in_val"}, c \in {"2", ")"},
       p \in {"*", ","}, d \in {"in_val", "("} } \union
  { <<a, o, b, p, c, q, d>> : o, p, q \in {"+", "-", "*", "/"},
       a \in {"1"}, b \in {"2"}, c \in {"in_val"}, d \in {"2", ")"} } \union
  { <<"2", o, "(", "1", p, "abs", "(", "in_val", ")", ")", q, "1">> : o, p, q \in {"+", "-", "*"} }

ExpressionFiles ==
  {[File(<< Msg(1, "false", <<>>) >>, <<FuncConv("f", {items})>>, <<>>)
      EXCEPT !.has = {"messages", "converters"}] : items \in Expressions}

-----------------------------------------------------------------------------
Datum(type, id, extended, rtr, size, data) ==
  [type |-> type, msg |-> [id |-> id, extended |-> extended, rtr |-> rtr, size |-> size, data |-> data]]

MCData ==
  {Datum("rx", 1, FALSE, FALSE, 2, data) : data \in {<<0, 0>>, <<2, 1>>, <<3, 2>>, <<1, 3>>}} \union
  { Datum("rx", 2, TRUE, FALSE, 1, <<3, 2>>), Datum("rx", 2, TRUE, TRUE, 0, <<1, 0>>),
    Datum("tx", 1, FALSE, TRUE, 1, <<1, 0>>), Datum("rx", 7, FALSE, FALSE, 0, <<0, 0>>),
    Datum("rx", 15, TRUE, FALSE, 0, <<0, 0>>),
    [type |-> "event", event |-> "bus_off"], [type |-> "unknown"] }

MCMaxReceived == [can_dump |-> 2, client |-> 2]

Op(op, id, to, extended) == [op |-> op, id |-> id, to |-> to, extended |-> extended]
ListOps ==
  { Op("add", 1, 1, FALSE), Op("add", 2, 2, TRUE), Op("remove", 1, 1, FALSE),
    Op("add_range", 2, 0, FALSE), Op("add_range", 2, 14, TRUE), Op("remove_range", 1, 2, FALSE),
    Op("remove_range", 2, 2, TRUE), Op("add_range", 7, 15, FALSE), Op("remove_range", 15, 0, TRUE) }
MaskOps ==
  { Op("add_mask", 1, 1, FALSE), Op("add_mask", 2, 6, TRUE), Op("remove_mask", 1, 1, FALSE),
    Op("add_mask", 0, 8, FALSE), Op("add_mask", 1, 0, FALSE), Op("remove_mask", 2, 2, TRUE) }
FlagOps == [op : {"add_flag", "remove_flag"}, flag : {"std", "ext", "rtr"}]
MCOps == [white |-> ListOps, black |-> ListOps, mask |-> MaskOps, flags |-> FlagOps]

-----------------------------------------------------------------------------
(* Scenarios: a program, its line, a directory, a file, a filter, an output *)
Defaults ==
  /\ filter = {} /\ clean = TRUE /\ wide = 2^MsgBits - 1 /\ mode = "text"

CommandLine(table, texts) == args = table /\ argv = Typed(texts)

OtherLines ==
  /\ tool = "other" /\ libraries = <<>> /\ xml = EmptyFile /\ Defaults
  /\ \/ \E texts \in SeqsUpTo({"-u", "-v", "-f", "-h", "1", "8", "x"}, 4) :
          CommandLine(<< Argument("-u", "u", "uint8", TRUE, 1, 2), OneArgument("-v", "u", "uint32", FALSE),
                  SingleArgument("-f", "f"), Help >>, texts)
     \/ \E type \in {"string", "bool", "uint8", "uint16", "uint32", "uint64", "int8", "int16",
                     "int32", "int64", "float", "double"} :
          \E words \in {<<>>} \union {<<w.text>> : w \in MCWords} :
            CommandLine(<< Argument("-t", "t", type, FALSE, 0, 1), Help >>, <<"-t">> \o words)

Adapter(name, options) ==
  <<"--adapter", name, "--bitrate", "1">>
    \o IF options = "" THEN <<>> ELSE <<"--options", options>>

Sessions ==
  /\ tool \in {"can_send", "can_dump", "can_sdo"} /\ xml = EmptyFile /\ Defaults
  /\ libraries \in Directories
  /\ \E name \in {"udp_adapter", "tcp_adapter", "ixxat_adapter", "loopback_adapter"} : \E options \in {""} \union DOMAIN MCSplit :
       CASE tool = "can_send" -> CommandLine(SendArguments, Adapter(name, options) \o <<"--msg_id", "7">>)
         [] tool = "can_dump" -> CommandLine(DumpArguments, Adapter(name, options))
         [] tool = "can_sdo"  -> CommandLine(SdoArguments, Adapter(name, options) \o
              <<"--client_sdo", "1", "--server_sdo", "2", "--obd_index", "7", "--obd_subindex", "3">>)

Dumps ==
  /\ tool = "can_dump" /\ libraries = <<Udp>> /\ filter = {} /\ mode = "text" /\ wide = 2^MsgBits - 1
  /\ \/ /\ xml = EmptyFile /\ clean = TRUE
        /\ \E white \in { <<>>, <<"--white_list", "1", "2">>, <<"--white_list", "7">> } :
           \E black \in { <<>>, <<"--black_list", "1">>, <<"--black_list", "7", "1">> } :
             CommandLine(DumpArguments, Adapter("udp_adapter", "") \o black \o white)
     \/ /\ xml \in {Sample, EmptyFile, [Sample EXCEPT !.messages[1].id = 2]} /\ clean \in BOOLEAN
        /\ \E black \in { <<>>, <<"--black_list", "1">> } :
             CommandLine(DumpArguments, Adapter("udp_adapter", "") \o <<"--database", "x">> \o black)

Sends ==
  /\ tool = "can_send" /\ libraries = <<Udp>> /\ xml = EmptyFile /\ Defaults
  /\ \E id \in {"0", "7", "8", "15", "16", "x", "-1", "-31"} :
     \E flags \in { <<>>, <<"--extended">>, <<"--rtr">>, <<"--rtr", "--extended">> } :
     \E data \in { <<>>, <<"--msg_data">>, <<"--msg_data", "3", "1">>, <<"--msg_data", "4">>,
                   <<"--msg_data", "1", "--msg_data", "2", "3">> } :
       CommandLine(SendArguments, Adapter("udp_adapter", "") \o flags \o data \o <<"--msg_id", id>>)

Transfers ==
  /\ tool = "can_sdo" /\ libraries = <<Udp>> /\ xml = EmptyFile /\ Defaults
  /\ \E data \in { <<>>, <<"--data_string", "hi">>, <<"--data_bytes", "1", "3">>,
                   <<"--data_string", "hi", "--data_bytes", "0">>, <<"--read", "--data_bytes", "1">> } :
     \E index \in {"7", "8", "1x"} :
       CommandLine(SdoArguments, Adapter("udp_adapter", "") \o data \o
         <<"--client_sdo", "1", "--server_sdo", "2", "--obd_index", index, "--obd_subindex", "3">>)

Others ==
  /\ xml = EmptyFile /\ Defaults
  /\ \/ /\ tool = "can_server" /\ libraries = <<>>
        /\ \E p \in { <<>>, <<"--port", "7">>, <<"--port", "8">> } :
           \E t \in { <<>>, <<"--timeout", "15">> } : CommandLine(ServerArguments, p \o t)
     \/ /\ tool = "can_bridge" /\ libraries = <<>>
        /\ \E lists \in SeqsUpTo({"--white_list1", "--black_list1", "--white_list2", "--adapter2",
                                 "1", "16"}, 3) :
             CommandLine(BridgeArguments,
               <<"--adapter1", "udp_adapter", "--bitrate", "1", "--adapter2",
                 "loopback_adapter">> \o lists)
     \/ /\ tool = "can_adapter" /\ libraries \in Directories
        /\ \E names \in { <<>>, <<"--list_adapters", "udp_adapter">>,
                          <<"--list_adapters", "x", "loopback_adapter">>,
                          <<"--enumerate", "--list_adapters", "udp_adapter", "loopback_adapter",
                            "--parameters">> } :
             CommandLine(AdapterToolArguments, names)

Client ==
  /\ tool = "client" /\ libraries = <<>> /\ CommandLine(<<>>, <<>>)
  /\ \/ /\ filter \in { {F!WhiteList}, {F!BlackList}, {F!IdMask}, {F!Flags({})} }
        /\ xml = EmptyFile /\ mode \in {"text", "csv", "binary"} /\ clean = TRUE /\ wide = 0
     \/ /\ xml \in {Sample} \union Mistaken \union OneValueFiles \union TwoValueFiles
        /\ filter = {} /\ mode = "decoded" /\ clean \in BOOLEAN /\ wide \in {0, 2^MsgBits - 1}
     \/ /\ xml \in ExpressionFiles
        /\ filter = {} /\ mode = "decoded" /\ clean = TRUE /\ wide = 0

MCInit ==
  /\ OtherLines \/ Sessions \/ Dumps \/ Sends \/ Transfers \/ Others \/ Client
  /\ ToolInit

MCSpec == MCInit /\ [][Next]_vars
=============================================================================
