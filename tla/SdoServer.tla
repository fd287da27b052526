----------------------------- MODULE SdoServer -----------------------------
(***************************************************************************)
(* The other end of an SDO transfer: a device on the CAN bus that follows  *)
(* CiA 301, as CanSdoReader and CanSdoWriter expect it to.  It holds one   *)
(* object, a sequence of bytes; a byte is named by a number.               *)
(*                                                                         *)
(* Frames carry the command specifier and the fields can_sdo reads or      *)
(* sets; the two directions are FIFO, as frames of one identifier are on   *)
(* a CAN bus.  The server may give up a transfer at any time, and does     *)
(* when a request is not the one it waits for.                             *)
(***************************************************************************)
EXTENDS Naturals, Sequences

CONSTANTS
  SegmentSize,    \* bytes in a segment: 7
  ExpeditedSize   \* bytes in an expedited response: 4

VARIABLES
  req, rsp,     \* frames to the server, frames from it
  object,       \* its value
  session,      \* "idle", "upload" or "download"
  toggle,       \* the toggle bit the next request must carry
  left,         \* upload: bytes still to be sent
  got,          \* download: bytes received
  refused       \* history: a request was not the one waited for

server == <<req, rsp, object, session, toggle, left, got, refused>>

Frame(cs) == [cs |-> cs, e |-> FALSE, s |-> FALSE, t |-> 0, c |-> FALSE,
              size |-> 0, data |-> <<>>]

Byte == Nat
FrameSet == [cs : 0..4, e : BOOLEAN, s : BOOLEAN, t : {0, 1}, c : BOOLEAN,
             size : Nat, data : Seq(Byte)]

Abort == Frame(4)

First(n, bytes) == SubSeq(bytes, 1, IF n < Len(bytes) THEN n ELSE Len(bytes))
Rest(n, bytes) == SubSeq(bytes, n + 1, Len(bytes))

Init(objects) ==
  /\ req = <<>> /\ rsp = <<>>
  /\ object \in objects
  /\ session = "idle"
  /\ toggle = 0
  /\ left = <<>> /\ got = <<>>
  /\ refused = FALSE

Answer(frame) ==
  /\ req' = Tail(req)
  /\ rsp' = Append(rsp, frame)

InitiateUpload ==
  /\ req # <<>> /\ Head(req).cs = 2
  /\ \/ /\ Len(object) \in 1..ExpeditedSize
        /\ \/ Answer([Frame(2) EXCEPT !.e = TRUE, !.s = TRUE, !.data = object])
           \/ Answer([Frame(2) EXCEPT !.e = TRUE, !.data = object])
        /\ session' = "idle"
        /\ UNCHANGED <<toggle, left>>
     \/ /\ Answer([Frame(2) EXCEPT !.s = TRUE, !.size = Len(object)])
        /\ session' = "upload"
        /\ toggle' = 0
        /\ left' = object
  /\ UNCHANGED <<object, got, refused>>

UploadSegment ==
  /\ req # <<>> /\ Head(req).cs = 3
  /\ session = "upload" /\ Head(req).t = toggle
  /\ LET last == Len(left) <= SegmentSize IN
       /\ Answer([Frame(0) EXCEPT !.t = toggle, !.c = last,
                                  !.data = First(SegmentSize, left)])
       /\ session' = IF last THEN "idle" ELSE "upload"
  /\ left' = Rest(SegmentSize, left)
  /\ toggle' = 1 - toggle
  /\ UNCHANGED <<object, got, refused>>

InitiateDownload ==
  /\ req # <<>> /\ Head(req).cs = 1
  /\ Answer(Frame(3))
  /\ session' = "download"
  /\ toggle' = 0
  /\ got' = <<>>
  /\ UNCHANGED <<object, left, refused>>

DownloadSegment ==
  /\ req # <<>> /\ Head(req).cs = 0
  /\ session = "download" /\ Head(req).t = toggle
  /\ Answer([Frame(1) EXCEPT !.t = toggle])
  /\ got' = got \o Head(req).data
  /\ IF Head(req).c THEN object' = got' /\ session' = "idle"
                    ELSE UNCHANGED <<object, session>>
  /\ toggle' = 1 - toggle
  /\ UNCHANGED <<left, refused>>

Expected(frame) ==
  \/ frame.cs \in {1, 2}
  \/ frame.cs = 3 /\ session = "upload" /\ frame.t = toggle
  \/ frame.cs = 0 /\ session = "download" /\ frame.t = toggle

GiveUp ==
  /\ req # <<>>
  /\ Answer(Abort)
  /\ session' = "idle"
  /\ refused' = (refused \/ ~Expected(Head(req)))
  /\ UNCHANGED <<object, toggle, left, got>>

ServerStep ==
  \/ InitiateUpload \/ UploadSegment \/ InitiateDownload \/ DownloadSegment
  \/ GiveUp

TypeOK ==
  /\ req \in Seq(FrameSet) /\ rsp \in Seq(FrameSet)
  /\ object \in Seq(Byte)
  /\ session \in {"idle", "upload", "download"}
  /\ toggle \in {0, 1}
  /\ left \in Seq(Byte) /\ got \in Seq(Byte)
  /\ refused \in BOOLEAN

=============================================================================
