------------------------------- MODULE CanSdo -------------------------------
(***************************************************************************)
(* One SDO transfer of can_sdo: CanSdoReader::read() or                    *)
(* CanSdoWriter::write() in the main thread, processCanData() of the same  *)
(* object in the reception thread of the controller, and a device.         *)
(*                                                                         *)
(* The two threads share the state of the transfer and m_timeout without a *)
(* lock.  m_timeout += 100 is a read and a write; a tick is 100 ms.        *)
(***************************************************************************)
EXTENDS Naturals, Sequences

CONSTANTS
  SegmentSize, ExpeditedSize,
  BufferSize,     \* bytes the reader has room for: 4096
  Objects,        \* values the object of the device may have
  Values,         \* values written
  Timeout,        \* ticks until a transfer times out
  Uninitialized   \* what the writer may find in m_timeout

ASSUME CanSdoAssumption ==
  /\ SegmentSize \in Nat \ {0} /\ ExpeditedSize \in Nat \ {0}
  /\ BufferSize \in Nat /\ ExpeditedSize <= BufferSize
  /\ Objects \subseteq Seq(Nat) /\ Values \subseteq Seq(Nat)
  /\ Timeout \in Nat \ {0}
  /\ Uninitialized \subseteq 0..Timeout + 1

VARIABLES
  req, rsp, object, session, toggle, left, got, refused,
  op,                  \* "read" or "write"
  value,               \* what is written, or was read from the device
  main,                \* where read() or write() is
  ticks,               \* the m_timeout that += 100 has read
  ret,                 \* what it has returned: "none", "true" or "false"
  rx,                  \* processCanData(): "idle", "handle" a response, or
                       \* "undefined" after a write past the end of m_data
  m_started, m_segment_number, m_data_size, m_data, m_data_index,
  m_transfer_complete, m_transfer_error, m_timeout

D == INSTANCE SdoServer

device == <<object, session, toggle, left, got, refused>>
link == <<req, rsp>>
caller == <<op, value, main, ticks, ret>>
transfer == <<m_started, m_segment_number, m_data_size, m_data, m_data_index,
              m_transfer_complete, m_transfer_error>>
vars == <<device, link, caller, rx, transfer, m_timeout>>

(* A value past the timeout, or between two ticks: != 1000 stays true.     *)
Past == Timeout + 1

(* Mutant: the steps do not divide the timeout. *)
TickByTwo(t) == IF t >= Timeout THEN Past ELSE t + 2
Tick(t) == IF t = Past THEN Past ELSE t + 1

Init ==
  /\ D!Init(Objects)
  /\ op \in {"read", "write"}
  /\ value \in IF op = "read" THEN {object} ELSE Values
  /\ main = "send"
  /\ ticks = 0
  /\ ret = "none"
  /\ rx = "idle"
  /\ m_started = FALSE
  /\ m_segment_number = 0
  /\ m_data_size = IF op = "read" THEN 0 ELSE Len(value)
  /\ m_data = IF op = "read" THEN <<>> ELSE value
  /\ m_data_index = 0
  /\ m_transfer_complete = FALSE
  /\ m_transfer_error = FALSE
  /\ m_timeout \in Uninitialized

-----------------------------------------------------------------------------
(* read() and write(): send the first request, wait, and decide.           *)
Initiate ==
  /\ main = "send"
  /\ \/ /\ req' = Append(req, IF op = "read"
                                THEN D!Frame(2)
                                ELSE [D!Frame(1) EXCEPT !.s = TRUE,
                                                        !.size = m_data_size])
        /\ main' = IF op = "read" THEN "reset" ELSE "test"
        /\ UNCHANGED ret
     \/ /\ main' = "done"
        /\ ret' = "false"
        /\ UNCHANGED req
  /\ UNCHANGED <<device, rsp, op, value, ticks, rx, transfer, m_timeout>>

(* Only read() resets the counter. *)
Reset ==
  /\ main = "reset"
  /\ m_timeout' = 0
  /\ main' = "test"
  /\ UNCHANGED <<device, link, op, value, ticks, ret, rx, transfer>>

Running == ~m_transfer_complete /\ ~m_transfer_error /\ m_timeout # Timeout

Test ==
  /\ main = "test"
  /\ main' = IF Running THEN "load" ELSE "decide"
  /\ UNCHANGED <<device, link, op, value, ticks, ret, rx, transfer, m_timeout>>

Load ==
  /\ main = "load"
  /\ ticks' = m_timeout
  /\ main' = "store"
  /\ UNCHANGED <<device, link, op, value, ret, rx, transfer, m_timeout>>

Store ==
  /\ main = "store"
  /\ m_timeout' = Tick(ticks)
  /\ main' = "test"
  /\ UNCHANGED <<device, link, op, value, ticks, ret, rx, transfer>>

Decide ==
  /\ main = "decide"
  /\ ret' = IF m_timeout = Timeout \/ m_transfer_error THEN "false" ELSE "true"
  /\ m_data_size' = IF op = "read" /\ ret' = "true" /\ m_data_size = 0
                      THEN m_data_index ELSE m_data_size
  /\ main' = "done"
  /\ UNCHANGED <<device, link, op, value, ticks, rx, m_started,
                 m_segment_number, m_data, m_data_index, m_transfer_complete,
                 m_transfer_error, m_timeout>>

MainStep ==
  /\ rx # "undefined"
  /\ Initiate \/ Reset \/ Test \/ Load \/ Store \/ Decide

-----------------------------------------------------------------------------
(* processCanData(): a response resets the counter, then moves the         *)
(* transfer on.                                                            *)
RxReset ==
  /\ rx = "idle"
  /\ rsp # <<>>
  /\ m_timeout' = 0
  /\ rx' = "handle"
  /\ UNCHANGED <<device, link, caller, transfer>>

Parity(n) == n % 2

(* After a response the next request is sent, unless the transfer is over; *)
(* one that cannot be sent is an error.                                    *)
Ask(frame) ==
  IF m_transfer_error \/ m_transfer_complete'
    THEN UNCHANGED <<req, m_started, m_transfer_error>>
    ELSE /\ m_started' = TRUE
         /\ \/ req' = Append(req, frame) /\ UNCHANGED m_transfer_error
            \/ m_transfer_error' = TRUE /\ UNCHANGED req

Fail ==
  /\ m_transfer_error' = TRUE
  /\ UNCHANGED <<req, m_started, m_segment_number, m_data_size, m_data,
                 m_data_index, m_transfer_complete>>

SegmentRequest(number) == [D!Frame(3) EXCEPT !.t = Parity(number)]

(* The reader: data that come with their size are the object, and any      *)
(* other answer starts a segmented transfer.                               *)
ReadInitiated(f) ==
  \/ (f.cs # 2 \/ (~f.e /\ ~f.s)) /\ Fail
  \/ /\ f.cs = 2 /\ (f.e \/ f.s)
     /\ m_data_size' = IF f.e /\ f.s THEN Len(f.data) ELSE f.size
     /\ m_data' = IF f.e /\ f.s THEN f.data ELSE m_data
     /\ m_transfer_complete' = (m_transfer_complete \/ (f.e /\ f.s))
     /\ Ask(SegmentRequest(m_segment_number))
     /\ UNCHANGED <<m_segment_number, m_data_index>>

(* Mutant: the next request repeats the toggle bit. *)
ReadSegmentSameToggle(f) ==
  \/ (f.cs # 0 \/ f.t # Parity(m_segment_number)) /\ Fail
  \/ /\ f.cs = 0 /\ f.t = Parity(m_segment_number)
     /\ m_data' = SubSeq(m_data, 1, m_data_index) \o f.data
     /\ m_data_index' = m_data_index + Len(f.data)
     /\ m_transfer_complete' = f.c
     /\ m_segment_number' = m_segment_number + 1
     /\ Ask(SegmentRequest(m_segment_number))
     /\ UNCHANGED m_data_size

(* A segment the reader takes is copied to the end of m_data[4096], whose  *)
(* size is nowhere tested: what is done after it is past is undefined.     *)
Overruns(f) ==
  /\ op = "read" /\ m_started
  /\ f.cs = 0 /\ f.t = Parity(m_segment_number)
  /\ m_data_index + Len(f.data) > BufferSize

RxOverrun ==
  /\ rx = "handle"
  /\ Overruns(Head(rsp))
  /\ rx' = "undefined"
  /\ UNCHANGED <<device, link, caller, transfer, m_timeout>>

ReadSegment(f) ==
  \/ (f.cs # 0 \/ f.t # Parity(m_segment_number)) /\ Fail
  \/ /\ f.cs = 0 /\ f.t = Parity(m_segment_number)
     /\ m_data' = SubSeq(m_data, 1, m_data_index) \o f.data
     /\ m_data_index' = m_data_index + Len(f.data)
     /\ m_transfer_complete' = f.c
     /\ m_segment_number' = m_segment_number + 1
     /\ Ask(SegmentRequest(m_segment_number'))
     /\ UNCHANGED m_data_size

(* The writer: the next segment, its size computed in 16 bits, counts as   *)
(* sent before it is acknowledged.                                         *)
Segment(number, size, last) ==
  [D!Frame(0) EXCEPT !.t = Parity(number), !.c = last,
                     !.data = SubSeq(m_data, m_data_index + 1,
                                     m_data_index + size)]

(* Mutant: a segment is as long as what is left. *)
WriteNextUncut(number) ==
  LET rest == (m_data_size - m_data_index) % 65536
  IN  /\ Ask(Segment(number, rest, rest <= SegmentSize))
      /\ m_data_index' = IF m_transfer_error \/ m_transfer_complete'
                           THEN m_data_index ELSE m_data_index + SegmentSize

(* Mutants: the last segment is announced one byte too early, too late. *)
WriteNextEarlyEnd(number) ==
  LET rest == (m_data_size - m_data_index) % 65536
      size == IF rest > SegmentSize THEN SegmentSize ELSE rest
  IN  /\ Ask(Segment(number, size, rest <= SegmentSize + 1))
      /\ m_data_index' = IF m_transfer_error \/ m_transfer_complete'
                           THEN m_data_index ELSE m_data_index + size

WriteNextLateEnd(number) ==
  LET rest == (m_data_size - m_data_index) % 65536
      size == IF rest > SegmentSize THEN SegmentSize ELSE rest
  IN  /\ Ask(Segment(number, size, rest < SegmentSize))
      /\ m_data_index' = IF m_transfer_error \/ m_transfer_complete'
                           THEN m_data_index ELSE m_data_index + size

WriteNext(number) ==
  LET rest == (m_data_size - m_data_index) % 65536
      size == IF rest > SegmentSize THEN SegmentSize ELSE rest
  IN  /\ Ask(Segment(number, size, rest <= SegmentSize))
      /\ m_data_index' = IF m_transfer_error \/ m_transfer_complete'
                           THEN m_data_index ELSE m_data_index + size

WriteInitiated(f) ==
  \/ f.cs # 3 /\ Fail
  \/ /\ f.cs = 3
     /\ UNCHANGED <<m_segment_number, m_data_size, m_data,
                    m_transfer_complete>>
     /\ WriteNext(m_segment_number)

WriteSegment(f) ==
  \/ (f.cs # 1 \/ f.t # Parity(m_segment_number)) /\ Fail
  \/ /\ f.cs = 1 /\ f.t = Parity(m_segment_number)
     /\ m_transfer_complete' = (m_data_index = m_data_size)
     /\ m_segment_number' = m_segment_number + 1
     /\ WriteNext(m_segment_number')
     /\ UNCHANGED <<m_data_size, m_data>>

RxHandle ==
  /\ rx = "handle"
  /\ ~Overruns(Head(rsp))
  /\ LET f == Head(rsp) IN
       \/ op = "read" /\ ~m_started /\ ReadInitiated(f)
       \/ op = "read" /\ m_started /\ ReadSegment(f)
       \/ op = "write" /\ ~m_started /\ WriteInitiated(f)
       \/ op = "write" /\ m_started /\ WriteSegment(f)
  /\ rsp' = Tail(rsp)
  /\ rx' = "idle"
  /\ UNCHANGED <<device, caller, m_timeout>>

RxStep == RxReset \/ RxHandle \/ RxOverrun

DeviceStep ==
  /\ D!ServerStep
  /\ UNCHANGED <<caller, rx, transfer, m_timeout>>

Next == MainStep \/ RxStep \/ DeviceStep

(* Both threads run; the device need not answer. *)
Fairness == WF_vars(MainStep) /\ WF_vars(RxStep)

SafetySpec == Init /\ [][Next]_vars
Spec == SafetySpec /\ Fairness

-----------------------------------------------------------------------------
TypeOK ==
  /\ D!TypeOK
  /\ op \in {"read", "write"}
  /\ value \in Seq(Nat)
  /\ main \in {"send", "reset", "test", "load", "store", "decide", "done"}
  /\ ticks \in 0..Past
  /\ ret \in {"none", "true", "false"}
  /\ rx \in {"idle", "handle", "undefined"}
  /\ rx = "handle" => rsp # <<>>
  /\ m_started \in BOOLEAN
  /\ m_segment_number \in Nat
  /\ m_data_size \in Nat /\ m_data_index \in Nat
  /\ m_data \in Seq(Nat)
  /\ m_data_index <= Len(m_data)
  /\ op = "read" => m_data_index <= BufferSize
  /\ m_transfer_complete \in BOOLEAN /\ m_transfer_error \in BOOLEAN
  /\ m_timeout \in 0..Past

(* A transfer marked complete is one: what the reader holds, as many bytes *)
(* of it as it says, or what the device holds after a write, is the value; *)
(* and the reader leaves its buffer only for a value that does not fit.    *)
CompleteIsExact ==
  /\ m_transfer_complete =>
       IF op = "read"
         THEN value = SubSeq(m_data, 1, IF m_data_size = 0 THEN m_data_index
                                                           ELSE m_data_size)
         ELSE value = object
  /\ rx = "undefined" => op = "read" /\ Len(value) > BufferSize

(* A device that conforms never receives a request it does not wait for,   *)
(* unless it has itself answered with data of unspecified size, which the  *)
(* reader takes for the beginning of a segmented transfer.                 *)
RequestsAreExpected ==
  refused => op = "read" /\ m_data_size = 0 /\ Len(object) \in 1..ExpeditedSize

(* The device's object is replaced as a whole or not at all: after a write *)
(* that failed half-way it holds what it held.                             *)
ObjectIsWhole == [][object' = object \/ object' = value]_object

(* read() comes back, whatever the device does, unless it has written past *)
(* its buffer.                                                             *)
ReadEnds == op = "read" => <>(main = "done" \/ rx = "undefined")

(* "SDO transfer timeout": so does write().                                *)
TransferEnds == <>(main = "done")

(* "Indicate if the SDO transfer is complete": read() and write() return   *)
(* true only when it is.                                                   *)
SuccessIsComplete == ret = "true" => m_transfer_complete

=============================================================================
