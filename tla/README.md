# cantools: formal models

Models in TLA+ of *cantools*, its library, its adapters and its command line
programs, checked with TLC, and proofs about its concurrent parts, its protocols and its
command line programs, checked with TLAPS. Paths are relative to `src/src/` unless
they say otherwise. `PROJECT.json` lists the runs, the source lines every
definition stands for, the mutants that show each property can fail, the
hazards and the theorems.

## 1. The system

cantools is a C++ library with a few command line programs. It gives one
interface to CAN adapters (`libs/adapter`), builds *pipelines* of stages that
filter, decode and log what a controller receives (`libs/pipeline`), and uses
them in programs (`apps/`). Adapters are plugins (`dynlibs/adapters`): a
loopback, a TCP client of `can_server`, UDP multicast, and IXXAT hardware.
There are no tests; what the code promises is in its `\brief` comments.

| component | state it keeps | operations | interacts with |
|---|---|---|---|
| `MailBox` (`libs/utils/MailBox.h`) | a list of messages, a list of pointers to the cancel flags of the threads waiting, a mutex, a condition variable | `clear`, `post`, `wait`, `wait` with a timeout | the threads that call it |
| `CanPipeline` | controllers, mailbox, reception thread | `start`, `stop`, `suspend`, `resume`, `send`, callbacks `canDataReceived`, `canMsgSent` | controllers call it back from their own threads; it calls the suspender |
| `CanPipelineSuspender` | a flag, a mutex, the data kept | `suspend`, `resume`, `clear`, `processCanData` | called by the reception thread and by the application's thread; calls its children from both |
| `CanPipelineStageBase` | the set of children, enabled or not | `addChild`, `removeChild`, `canDataReceived` | the next stages |
| `CanController` and the adapters | opened, started, a reception thread | `open`, `close`, `start`, `stop`, `send` | pipelines, sockets |
| CAN server (`apps/can_server`) | clients and disconnected clients with one mutex; per client a thread and "controller started" | accept, commands `START`, `STOP`, `MSG`, disconnection, cleanup every second | `TcpCanController` over TCP |
| `TcpCanSerializer`, `UdpCanSerializer` | a socket, for UDP a sender identifier | write and read of commands and messages | the network |
| SDO reader and writer (`apps/can_sdo`) | transfer state, toggle, buffer, a timeout counter shared by two threads | `read`, `write`, `processCanData` | an SDO server on the bus |
| loopback, UDP, IXXAT controllers (`dynlibs/adapters`) | opened, started, for UDP and IXXAT a reception thread, a sender identifier, the driver's handles | `open`, `close`, `configure`, `start`, `stop`, `send` | the multicast group, the driver; they call a pipeline back |
| `can_bridge` | two controllers, two pipelines crossed by two forwarders | start, wait for a key, stop | controllers, pipelines, filters |
| filters (`libs/pipeline/filter`) | sets of identifiers, lists of masks, flags | `add`, `remove`, also of ranges, `processCanData` | stages |
| decoder and XML database (`libs/pipeline/decoder`) | messages, values at bit positions, converters, signals | `load`, `addValue`, `addSignal`, setters, decoding | loggers, math expressions |
| math expressions (`libs/math`) | tokens, a tree | `parse`, `evaluate` | function converters |
| argument parser, plugin loader, parameter string | values by name, plugins | `parse`, `load`, `getParam` | the programs |
| stream loggers (`libs/pipeline/output`) | the output options | `processCanData` | pipelines, the decoder |
| `can_dump`, `can_send`, `can_sdo`, `can_adapter`, `can_server` | a session with a controller | one run from the command line to the end | everything above |
| memory monitor | a list of allocations | would replace `new` and `delete` | nothing: it is compiled out |

### What is hard

* **Interleavings.** A controller's thread, the reception thread of the
  pipeline and the application's thread meet in the mailbox and in the
  suspender; the suspender reads its flag without a lock and then with one, and
  `resume()` calls the children in a thread other than the reception thread.
* **Blocking.** `clear(true)` cancels only the threads that are inside `wait()`;
  `stop()` joins a thread; `clear()` of the suspender locks a mutex twice.
* **Partial failure.** `stop()` goes on when a controller cannot be stopped.
* **Protocols.** The TCP session has commands without a frame around them; the SDO
  reader and writer share a counter between two threads without a lock.
* **Unreliable networks.** UDP datagrams are lost, repeated and reordered, come back to
  their sender, and may be anybody's; a driver may refuse any call.
* **Boundaries.** Bit positions in 8 bits, identifier ranges up to 2^32 - 1,
  options of 8 to 64 bits, a transfer buffer of 4096 bytes.
* **Inputs.** Command lines, database files and expressions with every mistake: what is
  accepted must mean what it says.

### What makes each component correct

* *MailBox*: nobody sleeps while a message or a cancellation is there for it;
  each message is received once, in order, or dropped by `clear`; a cancelled
  thread takes nothing; cancelled and timed waits end.
* *CanPipeline with its suspender*: each child is called with everything
  taken from the mailbox, once, in order, by one thread at a time, whatever
  is suspended, resumed, stopped and started meanwhile; data does arrive;
  `stop()`, `resume()` and `clear()` return.
* *CAN server*: clients receive what the others send while they are started and
  nothing else; no thread waits for ever; no client object is used after its
  deletion.
* *SDO*: a transfer reported complete holds exactly the server's object, a failed
  write leaves the object alone, and every transfer ends.
* *`can_bridge`*: each direction is an ordered filtered channel; nothing goes back where it
  came from; a stopped controller is silent and a deleted one unused; the program ends.
* *Filters, decoder, expressions, argument parser, loader*: what comes out is what a reference
  definition says of what was put in: of the words of the command line, of the elements of
  the file, of the changes of a list.

## 2. Modules

| module | models |
|---|---|
| `MailBox` | `MailBox.h`, for any set of waiting threads, some of them in the `wait` with a timeout |
| `CanPipelineSuspender` | `CanPipelineSuspender.cpp` and the part of `CanPipelineStageBase.h` it runs |
| `CanPipeline` | `CanPipeline.cpp`; composes the two modules above by `INSTANCE` |
| `CanDataChannel` | the abstract specification: one sender, any number of receivers, each is given a subsequence of what was sent, in order, once |
| `CanServer` | `CanServer.cpp` and `CanClient.cpp` of `can_server`: the listening thread, a thread per client, the cleanup thread |
| `TcpCanController` | `TcpCanController.cpp`: application thread, sending thread, reception thread |
| `TcpLink` | the streams between them, with what `TcpCanSerializer` writes and reads |
| `TcpCanBus` | composes the three by `INSTANCE` |
| `CanBus` | the abstract specification of the server: a bus on which all nodes see the messages of the others in one order |
| `CanSdo` | `CanSdoReader.cpp`, `CanSdoWriter.cpp` |
| `SdoServer` | external: the device, after CiA 301 |
| `UdpCanController` | `UdpCanController.cpp`, `UdpCanSerializer.cpp`, `MulticastUdpSocket.cpp` |
| `LoopbackCanController` | `LoopbackCanAdapterController.c` |
| `IxxatCanController` | `IxxatCanController.cpp`, over an external driver |
| `CanMsgFilter` | the four filters and `CanMsgIdRange.h`: operators without state |
| `CanBridge` | `main()` of `can_bridge` and `CanMsgForwarder.cpp`; composes the four modules above by `INSTANCE` |
| `CanBridgeChannel` | the abstract specification of a direction of the bridge |
| `ArgParser` | `ArgParser.h`, `ArgParser.cpp`: actions of `parse()`, and what a command line means |
| `MathExpressionParser` | `MathExpressionLexer.cpp`, `MathExpressionParser.cpp` |
| `MathExpression` | `MathExpression.h`: evaluation of a tree |
| `MathGrammar` | what an expression means, by precedence and association: the reference definition |
| `CanMsgDatabase` | `XmlFileCanMsgDatabase.cpp`, the values, converters, signals and descriptions it makes, `CanMsgDecoder.cpp`, `DecodedCanMsgStreamLogger.cpp` |
| `PluginLoader` | `PluginLoader.cpp`, `CanAdapterPluginFactory.cpp`, `ParameterString.cpp` |
| `CanTools` | the `main()` of the command line tools and `CanMsgStreamLogger.cpp`; extends or instantiates the modules above |
| `CanToolsProperties` | what the tools promise, stated on their inputs |
| `CanToolsSignals` | what the decoder promises, stated on the elements of the file and its expressions |
| `MCMailBox`, `MCCanPipeline`, `MCSuspenderClear`, `MCTcpCanBus`, `MCCanSdo`, `MCCanBridge`, `MCCanTools` | constants for TLC, and the scenarios of the tools |
| `MailBoxProofs`, `CanPipelineSuspenderProofs`, `CanPipelineProofs`, `TcpCanBusProofs`, `CanSdoProofs`, `CanBridgeProofs`, `CanToolsProofs` | theorems and proofs about the module named; the last one also about `ArgParser` |
| `SequenceFacts` | lemmas about sequences used by the proofs |

### MailBox

An action is a stretch of code run with `m_mutex` held, so the mutex itself is
not a variable. `wait()` is cut where it gives the mutex up, in
`m_cond_var.wait`: `WaitTake` finds a message at once, `WaitBlock` goes to sleep,
`WakeTake`, `WakeAgain`, `WakeCancelled` and `WakeTimeout` are what a thread does
when it has the mutex again. `waiter[t]` says where the thread is,
`cancel[t]` is the local flag of its call and `m_cancel_status` the list of pointers
to these flags. Sleeping threads are woken by `notify_all`, spuriously
(`SpuriousWakeup`) or by their deadline (`Expire`). `posted`, `got` and `dropped`
are histories: messages are numbered in the order they are posted.

### CanPipelineSuspender

An action is a stretch of code between two places where the other thread can come in:
the unlocked read of `m_is_suspended` (`Check`), the locked one (`LockedCheck`), each
call of a child (`Dispatch`, `ResumeDispatch`), each turn of the loop of `resume()`.
`m_is_suspended` is a plain `bool` written without the mutex by `suspend()`; a read sees
the value before or after the write, which is what an aligned byte gives in the builds
of this repository, and both orders are behaviours of the model. `m_mutex` is a variable
because `resume()` holds it over the calls of the children. Children are called in an
arbitrary order (`unordered_set`).

### CanPipeline

The variables of the two components are variables of the composition, under the same
names. `Rx` is the only thread that waits for the mailbox. `start()` is `StartClear`,
`StartController`, `StartThread` and `stop()` is `StopController`, `StopClear`, `StopJoin`:
the controller may call back between any two of them. The controller may refuse
to start or to stop. `send()` and the controller's reception end in `MB!PostBounded`,
the first in the application's thread. `rxThread()` is `RxTake` (the wait of the mailbox
returns a datum and the suspender receives it), `RxStage` (a step inside the stage),
`RxWait`, `RxSpuriousWakeup` and `RxCancelled`.

The model has one controller and one application thread per pipeline: no program of the
repository starts, stops or resumes a pipeline from two threads. Stages are not connected or
disconnected while it runs, for the same reason. Calls that only record
an error text change nothing and are stuttering steps.

### CAN server and TCP controllers

`TcpLink` has two FIFO streams per connection. A token is what one side
writes while the other may look on: a command of two bytes, or the *body* of a message
(identifier, flags, size, payload: 6 to 14 bytes), since `CMD_MSG` and the body are read and written with
other threads in between. Nothing in a stream tells one token from another, and a reader that gives up in the
middle of one goes on at the byte where it is. So a token has the number of its bytes that are left,
and commands are read two bytes at a time (`HasWord`, `AfterWord`): bytes of a message can be any
command (`WordsAt`), a byte of a command and a byte of something else are none, since the four codes of
`TcpCanSerializer.h` have different low and different high bytes. `ReadTimeout`, `CutCommand` and
their counterparts in the controller let a read end after any part of what it wanted, and what it took is lost
(histories `late` and `adrift`). A reader that is out of step executes what it finds:
after an odd number of bytes it stays one byte out of phase, takes bytes of a payload for a `START`, a `STOP` or a
`MSG`, and in the last case takes what follows for a message (`ReadMisplaced`, `ReadGarbled`:
`need` bytes are collected from whatever tokens come), which is dispatched as `Garbled`. A single byte that
nothing follows is dropped when the read of the next command times out, so that a quiet stream
gets back in phase. The byte taken for the size of a message is not compared with the 8 of `data[]`
(`TcpCanSerializer.cpp:156`); there `ReadMisplaced` gives the server up and `RxMisplaced` the client.

The server writes without a timeout, so it blocks on a full stream; the client has
`SO_SNDTIMEO`, so a write may end with any part of its bytes written (`ClientWriteIsCut`, history `cut`).
Writing to a client that has gone may end the server by `SIGPIPE` (`serving`). `CMD_ERR_FRAME`, which no server
sends, counts as an unknown command: the event it raises in the controller is no message.

`comm[c]` is where `commThread()` of a client is. The mutex of the server is a variable,
because it is held while a message is written to every client and while a thread is
joined; `Obey` is what a command does in each state. The mutex of a client is the predicate `Busy`. `onCanMsgReceived()` is
`DispatchBegin`, then per client of the list `DispatchSkip` or `DispatchCommand` and
`DispatchBody`, then `DispatchEnd`. The position of a message in the history `bus` is what
a body carries to the receivers. Three pieces of code are one step although they
are not atomic: creating a client's thread and assigning `m_thread`; the test of
`m_controller_started` and the write of `CMD_MSG` that follows; a command of two bytes. The
first is listed as a hazard.

`start()` of a controller takes the next two bytes for its answer; when they are something else it fails, and is out
of step from there on, as the stream may then begin inside a message. `TcpCanController` is one connection, from `open()` to `close()`; `SendThread` are the
controllers on which a thread other than the application's sends, as
`can_bridge` does.

### SDO

The main thread is in `read()` or `write()`: `Initiate`, `Reset` (only `read()` sets
`m_timeout`), then the loop, cut at the read and the write of `m_timeout += 100` (`Test`,
`Load`, `Store`), then `Decide`. The reception thread is in `processCanData()`:
`RxReset` sets `m_timeout` to 0, `RxHandle` does the rest in one step: the main thread reads
no more than two flags of what it changes before the transfer is over. A tick is 100 ms. A counter in the writer starts with any
value of `Uninitialized`, as the class does not set it; `Timeout + 1` stands for all values
that never meet 1000. `send()` may fail wherever it is called.

The device answers one request at a time, may refuse any, and may never
answer. It answers data of at most four bytes in an expedited response, with or without
their size, or in segments. The reader copies segments into `m_data[4096]` (`BufferSize`) and never tests whether they fit: the first
that does not takes `rx` to `"undefined"`, where the model of the process ends (`RxOverrun`).
Responses left over from a transfer of another process do not occur.

### Controllers and `can_bridge`

`UdpCanController` has a receive buffer per socket (`socket`) and the thread's place
(`m_rx_thread`) between reading a datagram, testing `m_stop_rx_thread` and calling the
listener. `Write` puts an own datagram back into the sender's socket, as multicast does;
`Network` puts any datagram of the group into it, so that loss, repetition, delay and order
need no action of their own. An identifier is a pair of words, because `ReadUid` is not the
inverse of `WriteUid`: a fourth byte with its top bit set is read as a negative number, which
takes one from the high word. `Flush` and `Start` are the loop of `start()`, which ends at the
first read that fails. `LoopbackCanController` has no thread: `send()` calls the listener.
In `IxxatCanController` the driver's queue (`channel`) holds messages and the information
that the controller has started or stopped, on which its thread begins to notify and ends.

In `CanBridge`, `main` is where the main thread is: `InitAdapter`, `Configure`, per pipeline
`PipelineStart`, `StartController`, (`StartHandle`), `CreateThread`, then `EnterKey`, per
pipeline `StopController`, `StopControllerJoin`, `CancelWaiters`, `JoinThread`, and
`DeleteController`. Every call that can fail does so in some behaviour and `main` goes where the
code does. `pipe[s]` is where the thread of pipeline `s` is; the mailbox is a sequence of
positions in `given[s]`, what controller `s` has given so far, and `out[s]` has the positions of
what was sent on side `s`. Pipelines have no suspender and one child here, so that
the stretch from `Take` to `Echo` is `rxThread()` with the filter, the forwarder, `send()` of
the other controller and its echo. Both pipelines run while `main` stops the first.

### Command line tools, decoder, expressions

`CanTools` runs one tool at a time from its command line to its end: `pc` is where its `main()` is.
`tool = "client"` stands for a program that uses the database, a logger
or the filters without a command line (their setters are public and no tool calls all of them),
`tool = "other"` for one that declares options of every type. `ParseArguments` is a step of
`ArgParser`; the rest of a `main()` is an action per call of the library.
A word of a command line is a record of what the conversions look at: its text, the
number it begins with, a minus sign, a `0x`. Integers have the widths of `Width`. A file is its
elements with their attributes, each of which may be absent or invalid; `CanMsgDatabase`
loads them in the order of the file, and `out` says how that ended: `"ok"`, `"failed"`,
`"aborted"` where an exception leaves `main()`, `"undefined"` where the code reads or frees what
it should not. An identifier is kept in 32 bits (`MessageId`, `IdBits`). A `bool` is not read like the other values:
`RawValue` takes the bit from its byte, and `OutOfBounds` is the byte or the shift that does not exist; `Decoding` says how a message ends
that has such a signal, or one whose function throws. `CanMsgDatabase` does not know what an expression is: `ParseFunction`,
`EvaluateFunction` and `FunctionThrows` are constant operators, for which the run takes those of `MathExpressionParser`
and `MathExpression`. The options text of an adapter is read by `GetParam`; `NumberParam` is `std::stoull()` in base 10, which of `0x1A85` reads the 0,
while `ArgParser` reads the same words in base 16. What no number begins is an exception that leaves `main()`, for the
parameters each adapter has (`NumberParams`). `clean` and `wide` are the outcomes of two undefined reads that the build
decides: what a cloned converter finds in memory that is not initialised, and what `1 << 64` is.

`Tokens`, `CheckSyntax`, `ParseExpression` and `FactorizeExpression` are the functions of the same
names; an expression is a sequence of separators and of runs of other characters. A token that
gives no expression (an empty parenthesis, a call with a wrong number of parameters) makes `exprs`
shorter than `toks`, as in the code, and `Pass` then reads the wrong operands or past the end.
A double is the set of one integer, or the empty set where it cannot be followed. `MathGrammar` is
independent of the parser: it splits an expression at the last operator of the lowest precedence
outside parentheses.

## 3. Runs

| run | instance | result |
|---|---|---|
| `mailbox` | two threads waiting, one with a timeout, three messages | 6 properties hold |
| `pipeline` | two children, four data | 7 properties hold, among them the refinement of `CanDataChannel` |
| `pipeline_stop` | one child, one datum | `StopReturns` is **violated**: a finding |
| `suspender_clear` | one child | `ClearReturns` is **violated**: a finding |
| `can_server` | three clients, two messages, cuts on one connection | 5 properties hold, among them the refinement of `CanBus` |
| `can_server_live` | two clients that stop and go, one message, cuts on the connection of the sender | 4 properties hold, 3 of them under fairness |
| `can_server_stopped` | the same without cuts | `StoppedGetsNothing` is **violated**: a finding |
| `can_sdo` | a read or a write of 0 to 15 bytes, a buffer of 14 | 5 properties hold |
| `can_sdo_success` | the same | `SuccessIsComplete` is **violated**: a finding |
| `can_sdo_hang` | a counter that never meets 1000 | `TransferEnds` is **violated**: a finding |
| `can_bridge` | two multicast groups, a group and a loopback, a group and an IXXAT device, an IXXAT device and a loopback | 6 properties hold, among them the refinement of `CanBridgeChannel` and, under fairness, `MainEnds` |
| `can_tools` | 71 793 initial states: command lines, directories, files, expressions, filters | 7 properties hold |

**Bounds of the pipeline.** `MaxPosts` is the only one: it limits what is posted in a
behaviour. Clearing, suspending, starting and waiting are not limited.
Two waiting threads are enough for one to be woken by a
message the other takes; with three messages one is being taken while others are
queued and posted. In the pipeline, two children let a step of the other thread
fall between two calls of a dispatch, and four data put one with the suspender,
one in the hand of the reception thread and two in the mailbox. The theorems
below hold for all values of the constants.

**Bounds of the server.** `MaxSends` limits the messages per client, `Capacity` the tokens in
a stream, `Steady` names clients that neither stop nor close and `Restart` those that are started again. A capacity of one token is the
hardest case: a writer blocks in the middle of every message, and one message blocks
the server on a client that does not read. In `can_server` two clients send and two
receive the message of another, which is what a disagreement about the order takes, and
the third stops and closes at any point. In `can_server_live` both clients stop and
go; a connection is opened once. Reads and writes are cut on the connections of `Slow`, of which each run has one, in the middle of
the tokens of the kinds of `Torn`, commands `MSG` and bodies, at every byte, and between a command and its body;
the reads of `START` and `STOP` are not cut in the runs. `BodySize` has the lengths of a body: 8 bytes in
one run and 7 in the other, since an odd length is what leaves a reader one byte out of phase. Out of step, a reader
executes every command the bytes could be. The theorems hold for any lengths and any cuts.

**Bounds of the SDO transfer.** Objects of 0, 1, 4, 5, 7, 8, 14 and 15 bytes: empty, expedited or just not,
less than a segment, exactly one, one and a bit, exactly two, three segments; the buffer of 14 bytes holds all of them but the last. The timeout is
three ticks instead of ten. Sizes are computed in 16 bits as in the code, but no object is so long.

**Bounds of the bridge.** `MaxArrivals` limits the messages of the two buses to two and `MaxSent` what is
sent on a side to two, after which sends fail; the life of the program is not limited. Two messages
are what an exchange of order, a repetition or a message sent back takes; a receive buffer of two datagrams fills.
A word of an identifier has two values, of which one is read back wrong; messages have one
identifier, on the lists or not. One adapter has lists, and only between two multicast groups; the second
adapter is udp, loopback or ixxat, and the first is ixxat when the second is a loopback, which calls it
back from `send()`. Both sides may have one identifier. The peers send sound datagrams and others.

**Bounds of the tools.** What depends on a width has a small one: types of 2 to 5
bits, message identifiers of 4, messages of two bytes of two bits, positions of 4 bits, so that every limit (a
value that just fits, just does not, wraps; a range up to the largest identifier) is
reached; the identifiers of a file go beyond the 4 bits, and a `bool` has bytes inside the message, just and far outside
of it, and bits of its byte, just and far outside of it. Options texts have ports in base 10 and 16, with a sign and without digits, and the
parameters `timeout` and `line`. Command lines: every one of up to four words over an option with one or two parameters, two of
one name, a flag, help, and three values; every word for every type; and for each tool
the lines that take its branches. Files: one with all types of values, both converters and
six signals; it with every single mistake; every placement of one value and of two values.
Expressions: all sequences of up to five items of four operands and six separators, and
families of seven to twelve items that mix the precedences, calls and parentheses. At most two
data are received and a filter is changed at most three times. The tools do not wait for one
another, so there is no fairness here, and no deadlock to look for: a program ends.

**Fairness.** A thread that can run does run: weak fairness of the waiting threads of the
mailbox, of the application's thread inside an operation, of the reception thread.
The reception thread gets a mutex that is released again and again: strong fairness
of `RxStage`, an assumption about the scheduler, since `std::mutex` promises no
order; without it the application could resume for ever ahead of it. Nobody has to
call an operation and the controller does not have to receive: no property relies on a
message being posted. No property relies on a spurious wakeup or, except
the end of a timed wait, on a deadline. In the server and its controllers, weak fairness of every thread; that nobody
opens, sends, stops or closes is always possible. In the SDO transfer, weak fairness of the
two threads and none of the device. In the bridge, weak fairness of `main()`, of the reception
threads and of the pipelines' threads; nobody has to press the key, no message has to arrive and no
driver has to fail. `MainEnds` starts from the key; it names the join that misses its cancellation
(`MissedCancel`), which is the first finding again.

### Findings

* `stop()` may hang. `clear(true)` cancels the threads inside `wait()`; a reception
  thread that is dispatching a datum at that moment is not among them. It then
  enters `wait()`, nobody cancels it, and `join()` does not return.
* `CanPipelineSuspender::clear()`, called when not suspended, locks `m_mutex` and calls
  `resume()`, which locks it again in the same thread. Nothing in the repository calls it.
* `CanClient` acknowledges `CMD_STOP` and never resets `m_controller_started`. A client whose
  `stop()` has returned is still written to. It has no reception thread, so its stream fills, and
  the server then blocks with its mutex held: `MutexIsReleased`, `GoneIsDeleted` and
  `StopReturns` hold only up to that case (`Stalled`, `Stuck`). A later `start()` is not
  answered.
* `read()` and `write()` leave their loop when `m_timeout` is 1000 and then test it
  again. A response in between resets it, and an incomplete transfer is reported as a success.
* `CanSdoWriter` never initialises `m_timeout`: `write()` may time out at once, or never.

The model also shows, without a property that forbids it, that a suspension outlives
`stop()`: the next session starts suspended and `resume()` then replays data of
the session before; that a message and a `CMD_STOP` written by two threads of a client mix in the
stream (`BusCarriesWhatWasSent` excludes `SendThread`); that a reset of `m_timeout` between the
read and the write of `+= 100` is lost, and a live transfer times out early; and that a device
which answers with data of unspecified size is asked for a segment it does not have
(`RequestsAreExpected` names this case).

### What the properties of the bridge and the tools exclude

These are behaviours of the code that the models have, and that a property names instead of
forbidding. A document of the repository contradicts two of them, which are marked.

* *TCP.* After a read or a write that its timeout has cut, commands are read out of the bytes of messages: a controller may be
  stopped or given messages nobody sent, the server may put such messages on the bus, and `stop()` may not return. The
  properties say that this takes a cut, or two threads sending on one controller, and `ControllersReadInStep`, `ImplementsBus` and
  `BusCarriesWhatWasSent` say what holds in spite of it: real messages stay in order.
* *SDO.* An object longer than 4096 bytes is written past the end of the reader's buffer. `CompleteIsExact` says that only
  such an object is; what happens then is not defined, and nothing is claimed of it.
* *Bridge.* A controller whose identifier has the top bit of its fourth byte set takes its own datagrams
  for those of another, and a bridge to a loopback receives what it sends: both send messages
  back. Two controllers created in the same second have one identifier and ignore each other. When
  pipeline 2 does not start, controller 2 is deleted while pipeline 1 may be sending to it. When
  the IXXAT driver refuses to stop, the thread goes on calling a controller that is deleted. Controller 1
  is not deleted when there is a controller 2. `start()` of a UDP controller stops flushing at an own
  datagram, and never under continuous traffic.
* *Database.* An `int` value is always negative, since all bits above it are set. *Contradicted* by
  `src/doc/database/message_db_sample.xml`: its signal `state` is an `int` of 5 bits with an enumeration of 0 to 5, of
  which the code prints none. A `bool` is printed as unknown; one with a `bit_position` of 8 or more is always
  false, one of 32 or more shifts by more than an `unsigned` has, and one at byte 32, 64, ... passes the test of its
  position, which wraps in 8 bits, and is read past the end of the message (`BooleanCanMsgValue.cpp:43`). An identifier is cut to 32 bits, so that two of a file that
  differ may become one (`XmlFileCanMsgDatabase.cpp:210`). A value that does not fit stays at the
  position it had, with nothing said; one that contains another is accepted; an attribute that is
  missing is forgotten when a later one can be read. Two messages with one identifier leave a dangling
  description. A clone of a converter takes its name from memory that is not initialised.
  A function of an unknown variable, or an empty one, ends the program at the first message.
* *Expressions.* `()` and calls with a wrong number of parameters vanish: `min(2)2` is 2.
  `1*2+` frees an object twice, `1+()` reads past the end of a container.
* *Filters.* A range up to the largest identifier does not end. A filter of flags without
  `CANMSG_FLAG_STD` stops nothing. The lists of `can_dump` are of standard identifiers: an extended message whose identifier
  is on the black list is printed, one whose identifier is on the white list is not. *Contradicted* by the help of
  `can_dump` (`apps/can_dump/main.cpp:44-45`: "only the selected CAN ids will be displayed", "the selected CAN ids will never be
  displayed"); `LinesAreTheTraffic` and `SignalsAreTheTraffic` are about traffic without such messages (`NoExtendedOnList`).
* *Options.* A negative number is accepted for an unsigned type of 64 bits; zero and negative
  floating point numbers are refused. `can_send` cuts an identifier to 16 bits.
  `--timeout` of `can_server` has the name of `--port`: it is taken for the port, and the
  timeout cannot be set. In the text of `--options` a `port` is read in base 10, so that
  one written `0x1A85` is 0 (`ParameterString.cpp:93`), and so are `timeout` of the TCP adapter and `line` of the IXXAT adapter; one of
  them that is not a number ends the program.
* *Plugins.* The verdict on a directory is that of its last library.

## 4. Proofs

The theorems are of the form `Spec => []P`, `Spec => [][A]_vars` or `Spec => Abstract!Spec`. They hold for
every value of the constants the named assumptions of the modules allow: any number of threads, children,
clients and messages, finite or not, any capacity of a stream, any object, any pair of adapters,
any options and words. Where a theorem needs more than that, it says so in an `ASSUME` of its own.

In every module an invariant `IInv` is inductive and implies the properties; most of the
properties are not inductive by themselves, and what has to be added is where the argument lies.
`IInv` was checked with TLC on the instances of the runs. Of the tools, `SessionInv` and `TrafficInv` were; `DatabaseInv` is only as long
as a state, and `LineInv` and `TypesInv` name sets TLC cannot go through, such as all the sequences of values: they were only proved.

**Mailbox.** `NoLostWakeup`, half of `EveryWaitIsReached`, is not inductive. Its strengthening ties the three places
a waiting thread appears in: it is asleep or awake exactly when its flag is registered, a
sleeper's flag is not set (`clear` sets flags and wakes everybody in one locked
stretch), and the queue is empty while anybody sleeps. `ExactlyOnePlace` and `InPostOrder`
need that what is queued is increasing and later than all that was received.

**Suspender.** The invariant says, for every place the two threads can be in, how far
each child has come: `received` is the concatenation of what the child was called with, what
is kept for it and what the reception thread has in hand. While `resume()` replays, the
kept data splits at `next`. That the flag is read a second time with the mutex is
what makes the case "kept while resuming" impossible; the mutant `LockedCheckOnce`
breaks it.

**Pipeline.** Both invariants are carried over to the composition through the instances.
What remains is that the mailbox and the suspender agree: what was received is increasing and what
is in the mailbox comes after it. From that, the refinement: pending data of a child is
what the suspender keeps for it, what is in hand and what is queued; receptions and internal
steps leave this sequence unchanged, `post` appends to it, `Dispatch` removes its head, and
`clear` cuts a suffix off.

**CAN server.** `ListsInv` says where a client is listed at every place its thread can be in, and `MutexInv`
that the mutex belongs to the thread that dispatches and that only listed clients are still to be served:
together they give `DeletedIsUnused`. `StartInv` follows what a controller can find before its first
start is answered, which is `AnswerComesFirst`; `StartedInv` says who can have one. `DownFramed` is what keeps a
controller in step that is not `adrift`, which one is when a read of it was cut or its `start()` took something else
for the answer: in the stream to it `CMD_MSG` is followed by its body, unless it is the last token and the dispatch is
at that client with `half` set; the answer to a command is not written then, because the mutex of the client is taken.
`UpFramed` is the same of the stream to the server, for controllers one thread uses, as long as neither a write of
theirs (`cut`) nor a read of the server's (`late`) was cut. The refinement of
`CanBus` takes `DownInOrder`: the bodies in a client's stream are positions of `bus`, increasing, later than what it
has seen, at most `Len(bus)` (at most `Len(bus) - 1` while it is still to be served) and sent by others; `CanBus` allows
strays only to a controller that is `adrift`, and `DownFramed` shows that no other sees one. `UpInOrder` is the
same with the numbers of what was sent, and gives the order in `BusCarriesWhatWasSent` whatever is cut; `AllMessages`
and `UpFramed` give that nothing else is on the bus while nothing was.

**SDO.** A transfer is a dialogue, so that at most one frame is under way (`OneInFlight`), and the invariant says what
that frame knows of both ends. Reading: what the reader has taken, what the answer holds and
what the device has left make up the object, and the toggle bits agree (`ReadAsked`, `ReadAnswered`); this
includes the transfer that went wrong because an expedited answer had no size. Writing: what the
device has got and what is in the request make up the first `m_data_index` bytes of the value. The
induction found a condition nobody wrote down: the size of the next segment is computed in
`uint16_t` (`CanSdoWriter.cpp:178`), and of a value of 65 536 bytes or more the last segment may be announced
while more follows. `OnlyExpectedRequests` and `ObjectIsReplacedWhole` therefore assume `AllShort`, that the values are shorter;
`TransferTypesAreKept` and `CompletionIsExact` do not need it. A value read may be longer than the reader's buffer: what
was taken and the segment in hand are a beginning of the object (`RxOverrunKeeps`), so that a copy past the end
of `m_data` takes an object that does not fit, and the model ends there.

**Bridge.** The invariant is said side by side: `UdpSide` and `IxxatSide` of the threads of the controllers,
`FlowSide` of a pipeline (the mailbox holds the last positions of `given`, in order; what is in hand
comes before them; what was sent on the other side was received, selected by the lists, and came earlier), `QuietSide` of a controller
after `stop()`, and `JoinInv`, that pipeline 1 has been joined before controller 2 is
stopped. `FlowSide` gives the refinement of `CanBridgeChannel` and, with what a socket and a driver can hold (`Heard`,
`Arriving`, `Coming`), `NeverSentBack`. `QuietSide` and `JoinInv` give the other two. For an
IXXAT device the induction found an event that a stopped controller can still give: when `start()` has kept the handle of a
thread that had already ended, `stop()` returns, and a `send()` of the other pipeline that the driver refuses raises
`TX_OVR`. `StoppedIsSilent` names it.

**Argument parser.** `ParserSpec` is `parse()` on its own, for any options of a program (`LineOK`: of an option at most
as many parameters as at least, and no mandatory one that an equal one hides) and any words. The invariant reads the prefix
of the line up to `Before`: every option there is read as `Legal` asks (`Good`), the last one of a name has its
parameters in `m_values`, the presence set is that of the words before `count`, and while parameters are read the words since the
option are no options and `converters` holds their values. The one exception is an option without parameters that is
followed by a word (`Unfinished`): `parse()` refuses at the next step. When the line is refused, it is illegal at that
moment, and stays so. The conversions are the lemmas `PlainConverts` and `LegalConverts`; of the
widths they need only that no integer is wider than what `std::stoull()` reads (`ArgParserAssumption`).

**Command line tools.** The theorems are about `ToolSpec`: any tool, any words, any sequence of libraries of which one that is an
adapter's loads, any file (`FileOK`), any traffic and changes of a filter (`ToolOK`, which `TypeOK` repeats, so that the
run shows its scenarios to be among them). `ToolsAssumption` says of the constants what a state needs to make sense,
and that `2^i` is a power of two, which the provers do not know. There are five invariants, built one on another.

* `LineInv` is the parser's, with the values it has kept (`ValuesInv`): no step of a `main()` changes them. It gives `ArgsAreTheLine`
  of every tool.
* `SessionInv` says for every place of a `main()` what it has made of the values it asked the parser for: the plugin is the one
  `LoadAdapter` found, the port is `AskedPort`, what was sent is `Message` or `Transfer`. `LineInv` then says what
  the values are in the words of the line, option by option, and lemmas about folds say what `LoadLibrary` and `AddParameter` come to
  after the last library and the last piece of an options text. Together they give `SessionIsTheLine`. The attempt found a
  condition the property had left out: it is about numbers written without a sign, as `std::stoull()` accepts `-1`
  and counts it from 2^64 down. All of its parts say so now. Of a port in the options it says nothing when that is written
  with `0x`: `GetParam` reads a 0 there, whatever follows.
* `TrafficInv` says what a filter holds after its changes: an identifier whose last change added it, a mask
  not taken out after it was added, a flag; in `can_dump`, the identifiers of the list. It also says that what was printed is the lines of what was let through. `id & mask` is a
  recursive function over the bits; that it is equal to an identifier exactly when every bit is that of the product is
  an induction over the number of bits. This gives `LinesAreTheTraffic` for identifiers of any width, and traffic without
  extended messages of an identifier on the list (`NoExtendedOnList`).
* `TypesInv` takes `Databases`, the databases whose values lie in their message and whose indices are those of
  messages and values that were created. `LoadStays` follows every element of any file, mistakes included, through the setters of the
  positions (of which each refuses what does not fit and leaves the value where it was) into such a database. It is about
  positions only, counted in 8 bits as the setters count them: the byte a `bool` at a `byte_position` of 32 is read from is beyond the
  message, and the loop of `getMaskedValue()` starts one byte past it.
* `DatabaseInv` says that the database is what `Load` makes of the file, or none. That `ValuesAreRead` follows has three parts.
  `ValuePlaced`: the setters put a value where its attributes say when this is in its message; nothing wraps there because a
  position has more values than a message has bits (`MsgBits < 2^PositionBits`, 64 and 256 in the code). `LoadHolds`: in a
  database that was loaded every name leads to the value of an element of this name, which the sections
  after the messages do not change. `BitsOfWord`: the word made of the bytes, shifted and masked, is the
  sum of the declared bits, an induction over the bytes for the word and over the bits for the sum. Of an int the bits
  above are set whatever its sign, so that only a negative one is right; and the mask of a value of all the bits is
  what the compiler makes of `1 << 64`, so that `wide` must be all ones. A `bool` is read from its byte, which is the bit that was declared
  when its bit is one of that byte. The property names all three.

`SequenceFacts` holds the lemmas about sequences several of these proofs use: concatenation and
subsequences, the elements of a list, removing one.

| theorem | property |
|---|---|
| `MailBoxTypeOK`, `MailBoxEveryWaitIsReached`, `MailBoxExactlyOnePlace`, `MailBoxInPostOrder`, `MailBoxCancelledTakesNothing` | the invariants and the action property of `mailbox` |
| `SuspenderKeepsOrder`, `SuspenderCallsFromOneThread` | of the suspender alone |
| `PipelineTypeOK`, `PipelineNoLostWakeup`, `PipelineKeepsOrder`, `PipelineCallsFromOneThread`, `PipelineMailboxIsOfThisSession` | the invariants of `pipeline`; `NoLostWakeup` of its mailbox, which TLC checks in `mailbox` as a part of `EveryWaitIsReached`, is proved for both |
| `PipelineImplementsChannel` | `Spec => ImplementsChannel` |
| `TypesAreKept`, `NobodyUsesTheDeleted`, `ControllersStayInStep`, `TheAnswerComesFirst`, `WhatIsSentIsCarried` | the invariants of `can_server` and `can_server_live`: `TypeOK`, `DeletedIsUnused`, `ControllersReadInStep`, `AnswerComesFirst`, `BusCarriesWhatWasSent` |
| `ServerIsABus` | `Spec => ImplementsBus` |
| `TransferTypesAreKept`, `CompletionIsExact`, `OnlyExpectedRequests`, `ObjectIsReplacedWhole` | of `can_sdo`: `TypeOK`, `CompleteIsExact`, `RequestsAreExpected` and the action property `ObjectIsWhole`, the last two for values of fewer than 65 536 bytes |
| `BridgeTypesAreKept`, `NothingIsSentBack`, `StoppedStaysSilent`, `NobodyUsesController2` | the invariants of `can_bridge`: `TypeOK`, `NeverSentBack`, `StoppedIsSilent`, `DeletedIsUnused` |
| `BridgeIsAChannel` | `Spec => ImplementsChannel` |
| `ParserReadsTheLine` | `ParserSpec => []ArgsAreTheLine` |
| `ToolsReadTheLine`, `ToolsDoAsAsked`, `LoggedTrafficIsAsked`, `ValuesAreReadAsDeclared`, `ToolsTypes` | of `can_tools`: `ArgsAreTheLine`, `SessionIsTheLine`, `LinesAreTheTraffic`, `ValuesAreRead` and `TypeOK`, as invariants of `ToolSpec` |

**Only model-checked:**

* The liveness properties (`WaitReturns`, `QueuedDataIsTaken`, `ResumeDelivers`, `MutexIsReleased`, `GoneIsDeleted`,
  `StopReturns` of the server, `ReadEnds`, `MainEnds`): they need fairness and `ENABLED`, which the provers do not do.
* `ExpressionMeansWhatItSays` and `SignalsAreTheTraffic` of `CanToolsSignals`: the parser of expressions, its grammar and the value of a
  tree are recursive operators, and the provers do not work in a module that reaches one. What they compute for all
  inputs would need an induction over trees besides. The rest of the tools reaches none of them.
* The findings, which are counterexamples.

## 5. Plan

1. Mailbox, suspender, pipeline, their channel and their proofs: done.
2. CAN server, TCP controllers, abstract bus: modelled and checked.
3. SDO reader and writer: modelled and checked.
4. Controllers' life cycles and `can_bridge`: modelled and checked.
5. Filters, decoder, database, expressions, argument parser, plugin loader and the command line
   tools: modelled and checked against reference definitions.
6. Proofs of every safety property of the mailbox, the suspender, the pipeline, the CAN server, the SDO
   transfer and the bridge, and of what the argument parser accepts and keeps: done.
7. The expressions as constant operators of the database, and proofs of what the tools read, load, log and
   send (`CanToolsProofs`), with the filters for every width of an identifier, and of the bits a value of
   a database is read from: done.
8. Left: that a database without mistakes is loaded and its signals printed in order, with enumerations
   as converters, for every file; a run that cuts the reads of `START` and `STOP` as well.

## 6. Not modelled

* The memory monitor is never compiled: its header defines `DISABLE_MEMORY_MONITOR`
  (`libs/utils/MemoryMonitor.h:23`).
* The sockets and the rest of `libs/osal` are thin wrappers of system calls. What they do to
  a caller (timeouts, a full or closed stream, multicast) is in the models of their callers.
* The Python bindings convert objects through the CPython API; what can go wrong there is the
  state of an interpreter that is not part of the repository. `test_python` is a program of theirs.
* The enumerators of devices are calls of a driver. Texts of errors, help and the layout of
  lines are left out wherever they appear.
* Third-party code: Python, tinyxml2, the IXXAT SDK. A file of the database is taken as the elements
  tinyxml2 finds in it.
* In the components that are modelled in part: connecting and disconnecting stages while
  data flows, stopping the CAN server, user functions of expressions, the parameters a plugin describes. No
  program of the repository does the first three.
