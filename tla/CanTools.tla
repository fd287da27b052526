------------------------------ MODULE CanTools ------------------------------
(***************************************************************************)
(* The command line tools (apps) from their command line to their end:     *)
(* what they read, load, open, filter, decode, print and send.             *)
(*                                                                         *)
(* Two programs stand for the others that use the libraries: "client"      *)
(* loads a database, changes a filter and has what it receives logged, and *)
(* "other" parses a command line.                                          *)
(*                                                                         *)
(* The adapters are external: every call of a controller may fail.         *)
(***************************************************************************)
EXTENDS ArgParser, CanMsgDatabase

CONSTANTS
  Words,         \* words of the command lines; others are no numbers
  Split,         \* the texts of --options, split at ';' and '='
  Characters,    \* of a text
  Data,          \* what may be received
  Ops,           \* changes of a filter a client may make, by kind of filter
  MaxReceived,   \* bound, by tool
  MaxOps         \* bound

(* A message has MaxLen bytes and carries some of them.  Powers of two are *)
(* those of arithmetic.                                                    *)
Id == 0..(2^IdBits - 1)
DefaultPort == "6789"

ASSUME ToolsAssumption ==
  /\ IdBits \in Nat /\ 2^0 = 1
  /\ \A i \in 0..IdBits : 2^i \in Nat /\ 2^(i + 1) = 2 * 2^i
  /\ MaxLen \in Nat \ {0} /\ ByteBits \in Nat \ {0} /\ 2^PositionBits \in Nat \ {0}
  /\ MsgBits < 2^PositionBits
  /\ \A i \in 0..MsgBits : 2^i \in Nat /\ 2^(i + 1) = 2 * 2^i
  /\ Words \subseteq CommandWord
  /\ \E w \in Words : w.text = DefaultPort
  /\ \A w \in Words : w.text = DefaultPort => w.number \in 0..(2^Width.uint16 - 1) /\ ~w.hex
  /\ \A text \in DOMAIN Split : Split[text] \in Seq(Seq(STRING))
  /\ \A data \in Data : data.type \in {"rx", "tx"} =>
       /\ data.msg.id \in Id /\ data.msg.extended \in BOOLEAN
       /\ data.msg.data \in Seq(0..(2^ByteBits - 1)) /\ Len(data.msg.data) = MaxLen
       /\ data.msg.size \in 0..MaxLen
  /\ \A kind \in {"white", "black"} :
       Ops[kind] \subseteq [op : {"add", "remove", "add_range", "remove_range"},
                           id : Id, to : Id, extended : BOOLEAN]
  /\ Ops.mask \subseteq [op : {"add_mask", "remove_mask"}, id : Id, to : Id, extended : BOOLEAN]
  /\ Ops.flags \subseteq [op : {"add_flag", "remove_flag"}, flag : {"std", "ext", "rtr"}]

VARIABLES
  tool,
  libraries,    \* of the directory of the program
  xml,          \* the file of the database
  clean,        \* the memory allocated is zeroes
  wide,         \* the mask of all the bits of a message
  pc,           \* what main() does next; "aborted", "undefined" and "hangs"
                \* where the code does not go on
  plugin,       \* the set of the plugin loaded, if any
  controller,   \* "none", "created", "opened", "configured", "started",
                \* "stopped", "closed" or "deleted"
  port,         \* of a controller or a server
  db,
  filter,       \* a set of one filter, or none
  mode,         \* of the stream logger
  ops,          \* history: changes of the filter
  received,     \* history
  output        \* what was printed, or sent by can_send and can_sdo

environment == <<tool, libraries, xml, clean, wide, mode>>
session     == <<plugin, controller, port, db, filter>>
history     == <<ops, received, output>>
vars        == <<parser, environment, pc, session, history>>

Plugins == INSTANCE PluginLoader
F == INSTANCE CanMsgFilter

Ended == {"ended", "aborted", "undefined", "hangs"}

-----------------------------------------------------------------------------
(* The options of the tools.  Two of can_server have one name. *)
AdapterArguments ==
  << OneArgument("--adapter", "adapter", "string", TRUE),
     OneArgument("--options", "option_string", "string", FALSE),
     OneArgument("--bitrate", "bitrate", "uint16", TRUE) >>

DumpArguments == AdapterArguments \o
  << Argument("--white_list", "white_list", "uint32", FALSE, 1, 1000),
     Argument("--black_list", "black_list", "uint32", FALSE, 1, 1000),
     OneArgument("--database", "database", "string", FALSE), Help >>

SendArguments == AdapterArguments \o
  << OneArgument("--msg_id", "msg_id", "uint32", TRUE),
     Argument("--msg_data", "msg_data", "uint8", FALSE, 1, 8),
     SingleArgument("--extended", "extended"), SingleArgument("--rtr", "rtr"), Help >>

SdoArguments == AdapterArguments \o
  << OneArgument("--client_sdo", "client_sdo_id", "uint16", TRUE),
     OneArgument("--server_sdo", "server_sdo_id", "uint16", TRUE),
     OneArgument("--obd_index", "obd_index", "uint16", TRUE),
     OneArgument("--obd_subindex", "obd_subindex", "uint8", TRUE),
     OneArgument("--data_string", "data_string", "string", FALSE),
     Argument("--data_bytes", "data_bytes", "uint8", FALSE, 1, 4096),
     SingleArgument("--read", "read_mode"),
     SingleArgument("--string_output", "string_output"), Help >>

ServerArguments ==
  << OneArgument("--ip", "ip", "string", FALSE),
     OneArgument("--port", "port", "uint16", FALSE),
     OneArgument("--timeout", "port", "uint32", FALSE), Help >>

(* The white and black lists of an adapter of can_bridge *)
BridgeLists ==
  << Argument("--white_list1", "white_list1", "uint32", FALSE, 1, 1000),
     Argument("--black_list1", "black_list1", "uint32", FALSE, 1, 1000),
     Argument("--white_list2", "white_list2", "uint32", FALSE, 1, 1000),
     Argument("--black_list2", "black_list2", "uint32", FALSE, 1, 1000) >>

BridgeArguments ==
  << OneArgument("--adapter1", "adapter1", "string", TRUE),
     OneArgument("--options1", "option_string1", "string", FALSE),
     OneArgument("--adapter2", "adapter2", "string", TRUE),
     OneArgument("--options2", "option_string2", "string", FALSE),
     OneArgument("--bitrate", "bitrate", "uint16", TRUE) >> \o BridgeLists \o <<Help>>

AdapterToolArguments ==
  << Argument("--list_adapters", "list_adapters", "string", FALSE, 1, 100),
     SingleArgument("--parameters", "parameters"),
     SingleArgument("--enumerate", "enumerate"), Help >>

ToolArguments ==
  CASE tool = "can_dump"    -> DumpArguments
    [] tool = "can_send"    -> SendArguments
    [] tool = "can_sdo"     -> SdoArguments
    [] tool = "can_server"  -> ServerArguments
    [] tool = "can_bridge"  -> BridgeArguments
    [] tool = "can_adapter" -> AdapterToolArguments
    [] tool = "client"      -> <<>>
    [] OTHER -> args

(* What a tool is given: its options and any words, a directory where what *)
(* does not load is no plugin, and any file; of a client, also a new       *)
(* filter.                                                                 *)
ToolOK ==
  /\ tool \in {"can_dump", "can_send", "can_sdo", "can_server", "can_bridge", "can_adapter",
               "client", "other"}
  /\ args = ToolArguments /\ LineOK
  /\ libraries \in Seq([loads : BOOLEAN, type : STRING, name : STRING])
  /\ \A l \in Range(libraries) : l.type = "can_adapter" => l.loads
  /\ FileOK(xml)

NewFilters == {F!WhiteList, F!BlackList, F!IdMask, F!Flags({})}
-----------------------------------------------------------------------------
ToolInit ==
  /\ Init
  /\ filter \in IF tool = "client" THEN { {f} : f \in NewFilters} \union {{}} ELSE {{}}
  /\ pc = IF tool = "client" THEN "database" ELSE "arguments"
  /\ plugin = {} /\ controller = "none" /\ port = 0
  /\ db = NoDatabase
  /\ ops = <<>> /\ received = <<>> /\ output = <<>>

At(place) == pc = place /\ UNCHANGED <<parser, environment>>
Goto(place) == pc' = place

ParseArguments ==
  pc = "arguments" /\ ParseWords /\ UNCHANGED <<environment, pc, session, history>>

(* main() returns when the command line is refused, and when OSAL_Init()   *)
(* fails.  CanBridge says what can_bridge does next.                       *)
Initialized ==
  /\ At("arguments") /\ parsing \in {"parsed", "failed"}
  /\ \E initialized \in BOOLEAN :
       Goto(IF parsing = "failed" \/ ~initialized THEN "ended"
            ELSE CASE tool \in {"other", "can_bridge"} -> "ended"
                   [] tool = "can_dump"    -> "database"
                   [] tool = "can_server"  -> "server"
                   [] tool = "can_adapter" -> "list"
                   [] OTHER -> "plugin")
  /\ UNCHANGED <<session, history>>

LoadDatabase ==
  /\ At("database")
  /\ LET asked == tool = "client" \/ Given("database")
         loaded == IF asked THEN Load(xml, clean) ELSE db
     IN /\ db' = loaded
        /\ Goto(CASE loaded.out = "failed" -> "ended"
                  [] loaded.out \in Ended -> loaded.out
                  [] OTHER -> IF tool = "client" THEN "filters" ELSE "plugin")
  /\ UNCHANGED <<plugin, controller, port, filter, history>>

LoadPlugin ==
  /\ At("plugin")
  /\ plugin' = Plugins!LoadAdapter(libraries, Value("adapter"))
  /\ Goto(IF plugin' = {} THEN "ended" ELSE "create")
  /\ UNCHANGED <<controller, port, db, filter, history>>

(* createController(): a parameter that should be a number and is none     *)
(* ends the program, as std::stoull() throws.                              *)
WordOf(text) ==
  IF \E w \in Words : w.text = text THEN CHOOSE w \in Words : w.text = text
  ELSE [text |-> text, number |-> NoNumber, minus |-> FALSE, hex |-> FALSE]

(* A text that Split does not name is in one piece. *)
Pieces(text) == IF text \in DOMAIN Split THEN Split[text] ELSE << <<text>> >>

Parameters ==
  Plugins!ParameterString(
    IF Given("option_string") THEN Pieces(Value("option_string")) ELSE <<>>)

(* getParam() of a number, in base 10: of 0x it reads the 0. *)
NumberParam(text) == LET w == WordOf(text) IN IF w.hex THEN {0} ELSE Stoull(w)

AskedPort == NumberParam(Plugins!GetParam(Parameters, "port", DefaultPort))

HasPort == \E p \in plugin : p.name \in {"udp_adapter", "tcp_adapter"}

(* The parameters an adapter reads as numbers *)
NumberParams(p) ==
  CASE p.name = "udp_adapter"   -> {"port"}
    [] p.name = "tcp_adapter"   -> {"port", "timeout"}
    [] p.name = "ixxat_adapter" -> {"line"}
    [] OTHER -> {}

Unreadable == \E p \in plugin : \E name \in NumberParams(p) :
            name \in DOMAIN Parameters /\ NumberParam(Parameters[name]) = {}

CreateController ==
  /\ At("create")
  /\ \/ Unreadable /\ Goto("aborted") /\ UNCHANGED <<controller, port>>
     \/ /\ ~Unreadable
        /\ HasPort => \E n \in AskedPort : port' = n % 2^Width.uint16
        /\ ~HasPort => UNCHANGED port
        /\ controller' = "created" /\ Goto("open")
     \/ ~Unreadable /\ ~HasPort /\ Goto("ended") /\ UNCHANGED <<controller, port>>
  /\ UNCHANGED <<plugin, db, filter, history>>

(* A call of the controller from a place of main(), and where it goes on  *)
(* when the call succeeds and when it fails *)
ControllerCall(place, done, next, otherwise) ==
  /\ At(place)
  /\ \/ controller' = done /\ Goto(next)
     \/ UNCHANGED controller /\ Goto(otherwise)
  /\ UNCHANGED <<plugin, port, db, history>>

Open == ControllerCall("open", "opened", "configure", "delete") /\ UNCHANGED filter

(* can_dump puts in front of its listener the white list or, without one,  *)
(* the black list.  Both lists are of standard messages.                   *)
FilterOf(kind, ids) ==
  IF ids = <<>> THEN {}
  ELSE {FoldLeft(LAMBDA f, id : F!Add(f, id, FALSE), kind, ids)}

Configure ==
  /\ ControllerCall("configure", "configured", "start", "close")
  /\ filter' = IF Given("white_list") THEN FilterOf(F!WhiteList, Values("white_list"))
               ELSE FilterOf(F!BlackList, Values("black_list"))

StartController ==
  ControllerCall("start", "started", IF tool = "can_dump" THEN "running" ELSE "send", "close")
  /\ UNCHANGED filter

-----------------------------------------------------------------------------
(* What the stream logger prints of a datum *)
LogLine(data) ==
  CASE data.type \in {"rx", "tx"} ->
         [mode |-> mode, type |-> data.type, id |-> data.msg.id,
          extended |-> data.msg.extended, rtr |-> data.msg.rtr,
          data |-> SubSeq(data.msg.data, 1, data.msg.size)]
    [] data.type = "event" -> [mode |-> mode, event |-> data.event]
    [] OTHER -> [mode |-> mode]

Logs == mode # "decoded" /\ ~(tool = "can_dump" /\ Given("database"))

Forwarded(data) == \A f \in filter : F!Forwards(f, data)

(* The reception thread hands a datum to the filter, and this to the       *)
(* decoder, for the messages that were received, or to the logger.         *)
Receive ==
  /\ At("running") /\ Len(received) < MaxReceived[tool]
  /\ \E data \in Data :
       /\ received' = Append(received, data)
       /\ IF ~Forwarded(data) THEN UNCHANGED <<pc, output>>
          ELSE IF Logs THEN output' = Append(output, LogLine(data)) /\ UNCHANGED pc
          ELSE IF data.type # "rx" THEN UNCHANGED <<pc, output>>
          ELSE IF Decoding(db, data.msg) # "ok" THEN Goto(Decoding(db, data.msg)) /\ UNCHANGED output
          ELSE output' = output \o Decode(db, data.msg, wide) /\ UNCHANGED pc
  /\ UNCHANGED <<session, ops>>

PressEnter ==
  /\ At("running")
  /\ Goto(IF tool = "client" THEN "ended" ELSE "stop")
  /\ UNCHANGED <<session, history>>

(* A client changes its filter.  The loop over a range that goes up to the *)
(* largest identifier does not end.                                        *)
Changed(f, op) ==
  CASE op.op = "add" -> F!Add(f, op.id, op.extended)
    [] op.op = "remove" -> F!Remove(f, op.id, op.extended)
    [] op.op = "add_range" -> F!AddRange(f, F!IdRange(op.id, op.to), op.extended)
    [] op.op = "remove_range" -> F!RemoveRange(f, F!IdRange(op.id, op.to), op.extended)
    [] op.op = "add_mask" -> F!AddMask(f, op.id, op.to, op.extended)
    [] op.op = "remove_mask" -> F!RemoveMask(f, op.id, op.to, op.extended)
    [] op.op = "add_flag" -> F!AddFlag(f, op.flag)
    [] op.op = "remove_flag" -> F!RemoveFlag(f, op.flag)

ChangeFilter ==
  /\ At("filters") /\ Len(ops) < MaxOps
  /\ \E f \in filter : \E op \in Ops[f.kind] :
       IF op.op \in {"add_range", "remove_range"} /\ ~F!Ends(F!IdRange(op.id, op.to))
       THEN Goto("hangs") /\ UNCHANGED <<filter, ops>>
       ELSE filter' = {Changed(f, op)} /\ ops' = Append(ops, op) /\ UNCHANGED pc
  /\ UNCHANGED <<plugin, controller, port, db, received, output>>

Filtered == At("filters") /\ Goto("running") /\ UNCHANGED <<session, history>>

-----------------------------------------------------------------------------
(* can_send: the identifier is read as one of 16 bits. *)
Message ==
  [id |-> ValueAs("uint16", "msg_id"), extended |-> Given("extended"),
   rtr |-> Given("rtr"), data |-> Values("msg_data")]

(* can_sdo: the bytes count when both are given. *)
Transfer ==
  [client |-> Value("client_sdo_id"), server |-> Value("server_sdo_id"),
   index |-> Value("obd_index"), subindex |-> Value("obd_subindex"),
   read |-> Given("read_mode"),
   data |-> CASE Given("data_bytes") -> Values("data_bytes")
              [] ~Given("data_bytes") /\ Given("data_string") -> Characters[Value("data_string")]
              [] OTHER -> <<>>]

Send ==
  /\ At("send")
  /\ \/ output' = <<IF tool = "can_send" THEN Message ELSE Transfer>>
     \/ UNCHANGED output
  /\ Goto("stop")
  /\ UNCHANGED <<session, ops, received>>

Stop == ControllerCall("stop", "stopped", "close", "close") /\ UNCHANGED filter
Close == ControllerCall("close", "closed", "delete", "delete") /\ UNCHANGED filter

Delete ==
  /\ At("delete") /\ controller' = "deleted" /\ Goto("ended")
  /\ UNCHANGED <<plugin, port, db, filter, history>>

(* can_server listens until Enter is pressed; CanServer is a module of its *)
(* own.  --timeout goes by the name of --port.                             *)
Serve ==
  /\ At("server")
  /\ port' = IF Given("port") THEN ValueAs("uint16", "port")
             ELSE WordOf(DefaultPort).number % 2^Width.uint16
  /\ Goto("ended")
  /\ UNCHANGED <<plugin, controller, db, filter, history>>

(* can_adapter: the adapters it shows, which are none when the last        *)
(* library could not be loaded.  The enumerators are external.             *)
ListAdapters ==
  /\ At("list")
  /\ LET res == IF Given("list_adapters")
                THEN Plugins!LoadAdapters(libraries, Range(Values("list_adapters")))
                ELSE Plugins!LoadAll(libraries)
     IN output' = IF res.ret THEN [i \in DOMAIN res.plugins |-> res.plugins[i].name] ELSE <<>>
  /\ Goto("ended")
  /\ UNCHANGED <<session, ops, received>>

Next ==
  \/ ParseArguments \/ Initialized
  \/ LoadDatabase \/ LoadPlugin \/ CreateController
  \/ Open \/ Configure \/ StartController
  \/ Receive \/ PressEnter \/ ChangeFilter \/ Filtered
  \/ Send \/ Stop \/ Close \/ Delete
  \/ Serve \/ ListAdapters

ToolSpec == ToolOK /\ ToolInit /\ [][Next]_vars
=============================================================================
