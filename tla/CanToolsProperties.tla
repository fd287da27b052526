------------------------- MODULE CanToolsProperties -------------------------
(***************************************************************************)
(* What the command line tools promise, stated on what they were given:    *)
(* the words of the command line, the elements of the file, the changes of *)
(* the filter and the data received.                                       *)
(***************************************************************************)
EXTENDS CanTools

(***************************************************************************)
(* The values of the variables.  The bits a value of the database starts   *)
(* and ends at by its position of 8 bits are in the message, wherever its  *)
(* attributes put it (CanMsgValueBase).  The bytes that are read are       *)
(* others: getMaskedValue() begins with data[CAN_MSG_MAX_LEN], after the   *)
(* array, and shifts it out, and a bool reads the byte it was given, which *)
(* a position that wraps around leaves OutOfBounds().                      *)
(***************************************************************************)
TypeOK ==
  /\ ToolOK
  /\ pc \in {"arguments", "database", "filters", "plugin", "create", "open", "configure",
             "start", "running", "send", "stop", "close", "delete", "server", "list"} \union Ended
  /\ parsing \in {"option", "parameters", "parsed", "failed"}
  /\ count \in 1..(Len(argv) + 1)
  /\ m_args_presence \subseteq DOMAIN args
  /\ controller \in {"none", "created", "opened", "configured", "started", "stopped",
                     "closed", "deleted"}
  /\ port \in 0..(2^Width.uint16 - 1)
  /\ db.out \in {"ok", "failed", "aborted", "undefined"}
  /\ \A v \in Range(db.vals) :
       v.size \in 0..MsgBits /\ Start(v) + v.size <= MsgBits
  /\ \A id \in DOMAIN db.can_msgs : db.can_msgs[id] \in DOMAIN db.descs

(* Where a value of the file is declared to be, and the bits of a message  *)
(* from a position on, as a number                                         *)
Low(e) == Number(e.byte) * ByteBits + Number(e.bit)
SizeOf(e) == CASE e.type = "bool"   -> 1
               [] e.type = "float"  -> MsgBits \div 2
               [] e.type = "double" -> MsgBits
               [] OTHER -> Number(e.size)

BitOf(data, k) == (data[(k \div ByteBits) + 1] \div 2^(k % ByteBits)) % 2
BitsOf(data, first, n) ==
  LET bits[i \in 0..n] ==
        IF i = 0 THEN 0 ELSE bits[i - 1] + BitOf(data, first + i - 1) * 2^(i - 1)
  IN bits[n]

NoOther(e) ==
  \A m \in Range(xml.messages) : \A f \in Range(m.values) : Text(f.id) = Text(e.id) => f = e

(***************************************************************************)
(* Of a file that was loaded, a value whose name no other has is found by  *)
(* this name and, when it was declared inside its message, read from the   *)
(* bits it was declared to have, by the sign of an int that is negative;   *)
(* one of all the bits where the compiler makes a mask of them, and a bool *)
(* whose bit is declared to be one of its byte (CanMsgValueBase,           *)
(* IntegerCanMsgValue, BooleanCanMsgValue).                                *)
(***************************************************************************)
ValuesAreRead ==
  (db # NoDatabase /\ db.out = "ok") =>
    \A m \in Range(xml.messages) : \A e \in Range(m.values) :
      NoOther(e) =>
        /\ Text(e.id) \in DOMAIN db.can_msg_values
        /\ LET v == db.vals[db.can_msg_values[Text(e.id)]]
               last == Low(e) + SizeOf(e) - 1
           IN /\ v.type = e.type
              /\ (/\ SizeOf(e) > 0 /\ last < MsgBits
                  /\ e.type = "bool" => Number(e.bit) < ByteBits
                  /\ SizeOf(e) = MsgBits => wide = 2^MsgBits - 1) =>
                   \A data \in Data : data.type \in {"rx", "tx"} =>
                     LET bytes == data.msg.data
                         bits == BitsOf(bytes, Low(e), SizeOf(e))
                     IN IF e.type # "int" THEN RawValue(v, bytes, wide) = bits
                        ELSE BitOf(bytes, last) = 1 =>
                               RawValue(v, bytes, wide) = bits - 2^SizeOf(e)

(* The list of a filter after its changes holds an identifier when the     *)
(* last change that covers it added it.                                    *)
CoversId(op, msg) ==
  /\ op.extended = msg.extended
  /\ IF op.op \in {"add", "remove"} THEN op.id = msg.id
     ELSE msg.id \in op.id..op.to \/ msg.id \in op.to..op.id

Listed(msg) ==
  LET covering == {i \in DOMAIN ops : CoversId(ops[i], msg)}
  IN covering # {} /\ ops[Max(covering)].op \in {"add", "add_range"}

(* A mask stops the messages whose identifier under it is the one given. *)
StoppedByMask(msg) ==
  \E i \in DOMAIN ops :
    /\ ops[i].op = "add_mask" /\ ops[i].extended = msg.extended
    /\ \A j \in DOMAIN ops : j > i => ops[j] # [ops[i] EXCEPT !.op = "remove_mask"]
    /\ \A b \in 0..(IdBits - 1) :
         F!Bit(ops[i].id, b) = F!Bit(msg.id, b) * F!Bit(ops[i].to, b)

Flagged(flag) ==
  LET changes == {i \in DOMAIN ops : ops[i].flag = flag}
  IN changes # {} /\ ops[Max(changes)].op = "add_flag"

OnList(msg, name) == msg.id \in Range(Values(name))

Wanted(msg) ==
  IF tool = "can_dump"
  THEN IF Given("white_list") THEN OnList(msg, "white_list") ELSE ~OnList(msg, "black_list")
  ELSE \A f \in filter :
         CASE f.kind = "white" -> Listed(msg)
           [] f.kind = "black" -> ~Listed(msg)
           [] f.kind = "mask"  -> ~StoppedByMask(msg)
           [] f.kind = "flags" -> \/ Flagged("std") /\ ~msg.extended
                                  \/ Flagged("ext") /\ msg.extended
                                  \/ Flagged("rtr") /\ msg.rtr

(* Without its first flag the filter of flags stops nothing: what it then  *)
(* should do is not said here.                                             *)
Told == \A f \in filter : f.kind = "flags" => Flagged("std")

(* No extended message received has an identifier of the lists of can_dump *)
NoExtendedOnList ==
  \A data \in Range(received) : \A name \in {"white_list", "black_list"} :
    ~(data.type \in {"rx", "tx"} /\ data.msg.extended /\ OnList(data.msg, name))

(* The elements of a sequence that are in a set *)
Those(s, T) ==
  FoldLeft(LAMBDA those, e : IF e \in T THEN Append(those, e) ELSE those, <<>>, s)

Passed ==
  Those(received, {data \in Data :
    (data.type \in {"rx", "tx"} => Wanted(data.msg)) /\ (Logs \/ data.type = "rx")})

(***************************************************************************)
(* What can_dump prints without a database is the traffic its lists let    *)
(* through, in order: of a client of the filters, what its changes of the  *)
(* list, the masks or the flags leave.  The lists of can_dump are of       *)
(* standard messages, although its help says that they are of CAN ids: of  *)
(* a line on which they could tell the difference nothing is said.         *)
(***************************************************************************)
LinesAreTheTraffic ==
  (tool \in {"can_dump", "client"} /\ Logs /\ Told /\ NoExtendedOnList) =>
    /\ Len(output) = Len(Passed)
    /\ \A i \in DOMAIN output :
         /\ output[i].mode = mode
         /\ Passed[i].type = "event" => output[i].event = Passed[i].event
         /\ Passed[i].type \in {"rx", "tx"} =>
              LET msg == Passed[i].msg
              IN /\ output[i].type = Passed[i].type
                 /\ output[i].id = msg.id
                 /\ output[i].extended = msg.extended
                 /\ output[i].rtr = msg.rtr
                 /\ Len(output[i].data) = msg.size
                 /\ \A k \in 1..msg.size : output[i].data[k] = msg.data[k]

-----------------------------------------------------------------------------
(* The parameters of a name on the command line, as numbers *)
WordsOf(name) ==
  LET given == {i \in Options : Of(i).name = name}
  IN IF given = {} THEN <<>> ELSE ParametersOf(Max(given))
Numbers(name) == [i \in DOMAIN WordsOf(name) |-> WordsOf(name)[i].number]
Positive(name) == \A w \in Range(WordsOf(name)) : ~w.minus

(* The port of an options text: of its last pair of this name *)
PortOf(options) ==
  LET ports == {i \in DOMAIN options : /\ Len(options[i]) = 2 /\ options[i][1] = "port"
                                       /\ options[i][2] # ""}
  IN IF ports = {} THEN DefaultPort ELSE options[Max(ports)][2]

Adapters ==
  LET names == {w.text : w \in Range(WordsOf("list_adapters"))}
  IN Those(libraries, {l \in Range(libraries) :
       l.type = "can_adapter" /\ (names = {} \/ l.name \in names)})

(***************************************************************************)
(* A session is the one the command line asks for, its numbers written     *)
(* without a sign: the controller comes from the only adapter of that name *)
(* and, where it has a port, goes to the port of the options, unless that  *)
(* is written in hexadecimal, which is read as 0; can_send sends the       *)
(* message that was written, if its identifier is one of 16 bits, and      *)
(* can_sdo starts the transfer; can_server listens on its port, when       *)
(* --timeout does not replace it; can_adapter shows the adapters, when all *)
(* the libraries can be loaded.                                            *)
(***************************************************************************)
SessionIsTheLine ==
  /\ controller # "none" =>
       LET options == IF WordsOf("option_string") = <<>> THEN <<>>
                      ELSE Pieces(WordsOf("option_string")[1].text)
           asked == WordOf(PortOf(options))
           named == {i \in DOMAIN libraries :
                       /\ libraries[i].type = "can_adapter" /\ libraries[i].loads
                       /\ libraries[i].name = WordsOf("adapter")[1].text}
       IN /\ Cardinality(named) = 1
          /\ \A i \in named :
               /\ plugin = {libraries[i]}
               /\ (/\ libraries[i].name \in {"udp_adapter", "tcp_adapter"}
                   /\ ~asked.minus /\ ~asked.hex) =>
                    port = asked.number % 2^Width.uint16
  /\ (tool = "can_send" /\ output # <<>> /\ Positive("msg_id") /\ Positive("msg_data")
        /\ Numbers("msg_id")[1] < 2^Width.uint16) =>
       output = << [id |-> Numbers("msg_id")[1],
                    extended |-> \E i \in Options : argv[i].text = "--extended",
                    rtr |-> \E i \in Options : argv[i].text = "--rtr",
                    data |-> Numbers("msg_data")] >>
  /\ (tool = "can_sdo" /\ output # <<>>
        /\ \A name \in {"client_sdo_id", "server_sdo_id", "obd_index", "obd_subindex",
                       "data_bytes"} : Positive(name)) =>
       LET bytes == WordsOf("data_bytes")
           text == WordsOf("data_string")
       IN /\ output[1].read = \E i \in Options : argv[i].text = "--read"
          /\ <<output[1].client, output[1].server, output[1].index, output[1].subindex>> =
             <<Numbers("client_sdo_id")[1], Numbers("server_sdo_id")[1],
               Numbers("obd_index")[1], Numbers("obd_subindex")[1]>>
          /\ output[1].data = CASE bytes # <<>> -> Numbers("data_bytes")
                                [] bytes = <<>> /\ text # <<>> -> Characters[text[1].text]
                                [] OTHER -> <<>>
  /\ (tool = "can_server" /\ pc = "ended" /\ port # 0 /\ Positive("port")
        /\ \A i \in Options : argv[i].text # "--timeout") =>
       port = IF WordsOf("port") = <<>> THEN WordOf(DefaultPort).number ELSE Numbers("port")[1]
  /\ (tool = "can_adapter" /\ output # <<>>) =>
       output = [i \in DOMAIN Adapters |-> Adapters[i].name]
=============================================================================
