---------------------------- MODULE CanSdoProofs ----------------------------
(***************************************************************************)
(* The safety properties of CanSdo hold of every transfer.                 *)
(*                                                                         *)
(* A transfer is a dialogue: at most one frame is under way.  IInv says    *)
(* what each frame under way knows of both ends, the reader's or writer's  *)
(* position, and the server's session, toggle bit and bytes.               *)
(***************************************************************************)
EXTENDS CanSdo, SequenceFacts

(* The bytes a reader has taken; an answer that leaves their number open;  *)
(* a value the writer's 16-bit segment size can count.                     *)
Taken == SubSeq(m_data, 1, m_data_index)
Unsized == Len(object) \in 1..ExpeditedSize
Short == Len(value) < 65536

OneInFlight ==
  /\ Len(req) + Len(rsp) <= 1
  /\ req # <<>> \/ rsp # <<>> =>
       main # "send" /\ ~m_transfer_complete /\ ~m_transfer_error
  /\ main = "send" => ~m_started /\ ~m_transfer_complete /\ ~m_transfer_error
  /\ ~m_started => m_segment_number = 0 /\ m_data_index = 0

ReadAsked(f) ==
  \/ ~m_started /\ f.cs = 2
  \/ /\ m_started /\ f.cs = 3 /\ f.t = Parity(m_segment_number)
     /\ session = "upload" /\ toggle = Parity(m_segment_number)
     /\ m_data_size = Len(value) /\ value = Taken \o left
  \/ /\ m_started /\ f.cs = 3
     /\ session = "idle" /\ m_data_size = 0 /\ Unsized

ReadAnswered(f) ==
  \/ f.cs = 4
  \/ /\ ~m_started /\ f.cs = 2 /\ f.e /\ Unsized /\ session = "idle"
     /\ IF f.s THEN f.data = value ELSE f.size = 0
  \/ /\ ~m_started /\ f.cs = 2 /\ ~f.e /\ f.s /\ f.size = Len(value)
     /\ session = "upload" /\ toggle = 0 /\ left = value
  \/ /\ m_started /\ f.cs = 0 /\ m_data_size = Len(value)
     /\ value = (Taken \o f.data) \o left
     /\ IF f.c THEN left = <<>>
               ELSE session = "upload" /\ toggle = Parity(m_segment_number + 1)

ReadInv ==
  op = "read" =>
    /\ object = value /\ session # "download"
    /\ m_data_size \in {0, Len(value)}
    /\ m_data_size = 0 => m_data_index = 0
    /\ refused => m_started /\ m_data_size = 0 /\ Unsized
    /\ req # <<>> => ReadAsked(Head(req))
    /\ rsp # <<>> => ReadAnswered(Head(rsp))

WriteAsked(f) ==
  \/ ~m_started /\ f.cs = 1
  \/ /\ m_started /\ f.cs = 0
     /\ m_data_index = Len(value) => f.c
     /\ session = "download" =>
          /\ f.t = toggle /\ toggle = Parity(m_segment_number)
          /\ got \o f.data = SubSeq(value, 1, m_data_index)
     /\ Short => session = "download" /\ (f.c => m_data_index = Len(value))

WriteAnswered(f) ==
  \/ f.cs = 4
  \/ ~m_started /\ f.cs = 3 /\ session = "download" /\ toggle = 0 /\ got = <<>>
  \/ /\ m_started /\ f.cs = 1
     /\ m_data_index = Len(value) => object = value
     /\ session = "download" => /\ toggle = Parity(m_segment_number + 1)
                                /\ got = SubSeq(value, 1, m_data_index)
     /\ Short /\ m_data_index # Len(value) => session = "download"

WriteInv ==
  op = "write" =>
    /\ value \in Values
    /\ m_data = value /\ m_data_size = Len(value)
    /\ m_data_index <= Len(value)
    /\ Short => ~refused
    /\ req # <<>> => WriteAsked(Head(req))
    /\ rsp # <<>> => WriteAnswered(Head(rsp))

IInv == TypeOK /\ OneInFlight /\ ReadInv /\ WriteInv /\ CompleteIsExact

-----------------------------------------------------------------------------
(* Bytes, toggle bits and frames.                                          *)
LEMMA ParityFacts ==
  /\ Parity(0) = 0
  /\ \A n \in Nat : /\ Parity(n) \in {0, 1}
                    /\ Parity(n + 1) = 1 - Parity(n)
  <1>1. \A n \in Nat : n % 2 \in {0, 1} /\ (n + 1) % 2 = 1 - (n % 2)
    OBVIOUS
  <1>2. 0 % 2 = 0
    OBVIOUS
  <1>3. QED
    BY <1>1, <1>2 DEF Parity

LEMMA FirstThenRest ==
  ASSUME NEW b \in Seq(Nat), NEW n \in Nat
  PROVE /\ D!First(n, b) \in Seq(Nat) /\ D!Rest(n, b) \in Seq(Nat)
        /\ D!First(n, b) \o D!Rest(n, b) = b
        /\ Len(b) <= n => D!Rest(n, b) = <<>>
  <1>1. Len(b) \in Nat /\ \A i \in 1..Len(b) : b[i] \in Nat
    BY LenProperties, ElementOfSeq
  <1>2. CASE n < Len(b)
    <2>1. D!First(n, b) = SubSeq(b, 1, n) /\ D!Rest(n, b) = SubSeq(b, n + 1, Len(b))
      BY <1>2 DEF D!First, D!Rest
    <2>2. SubSeq(b, 1, n) \o SubSeq(b, n + 1, Len(b)) = SubSeq(b, 1, Len(b))
      <3>1. 1 \in 1 .. Len(b) + 1 /\ n \in 1 - 1 .. Len(b) /\ Len(b) \in n .. Len(b)
        BY <1>1, <1>2
      <3>2. QED
        BY <3>1, ConcatAdjacentSubSeq
    <2>3. SubSeq(b, 1, Len(b)) = b
      BY SubSeqFull
    <2>4. SubSeq(b, 1, n) \in Seq(Nat)
      BY <1>1, <1>2, SubSeqProperties
    <2>5. SubSeq(b, n + 1, Len(b)) \in Seq(Nat)
      BY <1>1, <1>2, SubSeqProperties
    <2>6. ~(Len(b) <= n)
      BY <1>1, <1>2
    <2>7. QED
      BY <2>1, <2>2, <2>3, <2>4, <2>5, <2>6, Zenon
  <1>3. CASE ~(n < Len(b))
    <2>1. D!First(n, b) = b
      BY <1>3, SubSeqFull DEF D!First
    <2>2. D!Rest(n, b) = <<>>
      BY <1>1, <1>3, SubSeqEmpty DEF D!Rest
    <2>3. b \o <<>> = b /\ <<>> \in Seq(Nat)
      BY ConcatEmptySeq
    <2>4. QED
      BY <2>1, <2>2, <2>3
  <1>4. QED
    BY <1>2, <1>3

(* The first n + m bytes. *)
LEMMA TakeMore ==
  ASSUME NEW b \in Seq(Nat), NEW n \in Nat, NEW m \in Nat, n + m <= Len(b)
  PROVE /\ SubSeq(b, n + 1, n + m) \in Seq(Nat)
        /\ SubSeq(b, 1, n) \o SubSeq(b, n + 1, n + m) = SubSeq(b, 1, n + m)
  <1>1. Len(b) \in Nat /\ \A i \in 1..Len(b) : b[i] \in Nat
    BY LenProperties, ElementOfSeq
  <1>2. SubSeq(b, n + 1, n + m) \in Seq(Nat)
    <2>1. \A i \in n + 1 .. n + m : b[i] \in Nat
      BY <1>1
    <2>2. QED
      BY <2>1, SubSeqProperties
  <1>3. SubSeq(b, 1, n) \o SubSeq(b, n + 1, n + m) = SubSeq(b, 1, n + m)
    BY <1>1, ConcatAdjacentSubSeq
  <1>4. QED
    BY <1>2, <1>3

(* A queue that holds at most one element. *)
LEMMA OneElement ==
  ASSUME NEW S
  PROVE /\ <<>> \in Seq(S) /\ Len(<<>>) = 0
        /\ \A s \in Seq(S) : /\ Len(s) \in Nat /\ (s = <<>> <=> Len(s) = 0)
                             /\ s # <<>> => Head(s) \in S
                             /\ s # <<>> /\ Len(s) <= 1 => Tail(s) = <<>>
        /\ \A x \in S : /\ Append(<<>>, x) \in Seq(S)
                        /\ Append(<<>>, x) # <<>>
                        /\ Len(Append(<<>>, x)) = 1
                        /\ Head(Append(<<>>, x)) = x
  <1>1. <<>> \in Seq(S) /\ Len(<<>>) = 0
    BY EmptySeq
  <1>2. ASSUME NEW s \in Seq(S)
        PROVE /\ Len(s) \in Nat /\ (s = <<>> <=> Len(s) = 0)
              /\ s # <<>> => Head(s) \in S
              /\ s # <<>> /\ Len(s) <= 1 => Tail(s) = <<>>
    <2>1. Len(s) \in Nat /\ (s = <<>> <=> Len(s) = 0)
      BY LenProperties, EmptySeq
    <2>2. ASSUME s # <<>> PROVE Head(s) \in S
      BY <2>2, HeadTailProperties
    <2>3. ASSUME s # <<>>, Len(s) <= 1 PROVE Tail(s) = <<>>
      <3>1. Len(s) # 0
        BY <2>3, EmptySeq
      <3>2. Len(s) = 1
        <4>1. Len(s) \in Nat /\ Len(s) <= 1
          BY <2>3, LenProperties
        <4>2. QED
          BY <3>1, <4>1
      <3>3. Tail(s) \in Seq(S) /\ Len(Tail(s)) = Len(s) - 1
        BY <2>3, HeadTailProperties
      <3>4. Len(Tail(s)) = 0
        BY <3>2, <3>3
      <3>5. QED
        BY <3>3, <3>4, EmptySeq
    <2>4. QED
      BY <2>1, <2>2, <2>3
  <1>3. ASSUME NEW x \in S
        PROVE /\ Append(<<>>, x) \in Seq(S) /\ Append(<<>>, x) # <<>>
              /\ Len(Append(<<>>, x)) = 1 /\ Head(Append(<<>>, x)) = x
    <2>1. /\ Append(<<>>, x) \in Seq(S) /\ Append(<<>>, x) # <<>>
          /\ Len(Append(<<>>, x)) = 1 /\ Append(<<>>, x)[1] = x
      BY <1>1, AppendProperties
    <2>2. Head(Append(<<>>, x)) = Append(<<>>, x)[1]
      BY <2>1, HeadTailProperties
    <2>3. QED
      BY <2>1, <2>2
  <1>4. QED
    BY <1>1, <1>2, <1>3

LEMMA SdoTyped ==
  TypeOK =>
    /\ req \in Seq(D!FrameSet) /\ rsp \in Seq(D!FrameSet)
    /\ object \in Seq(Nat) /\ value \in Seq(Nat) /\ m_data \in Seq(Nat)
    /\ left \in Seq(Nat) /\ got \in Seq(Nat)
    /\ Len(m_data) \in Nat /\ Len(value) \in Nat /\ Len(object) \in Nat
    /\ m_data_index \in Nat /\ m_data_size \in Nat /\ m_segment_number \in Nat
    /\ m_data_index <= Len(m_data)
    /\ session \in {"idle", "upload", "download"} /\ toggle \in {0, 1}
    /\ refused \in BOOLEAN /\ m_started \in BOOLEAN
    /\ m_transfer_complete \in BOOLEAN /\ m_transfer_error \in BOOLEAN
    /\ op \in {"read", "write"}
    /\ op = "read" => m_data_index <= BufferSize
    /\ SegmentSize \in Nat \ {0} /\ ExpeditedSize \in Nat \ {0}
    /\ BufferSize \in Nat
  <1>1. \A s \in Seq(Nat) : Len(s) \in Nat
    BY LenProperties
  <1>2. QED
    BY <1>1, CanSdoAssumption DEF TypeOK, D!TypeOK, D!Byte

(* Frames have these fields, and setting one leaves the others.            *)
HasFields(f, cs, e, s, t, c, size, data) ==
  /\ f \in D!FrameSet
  /\ f.cs = cs /\ f.e = e /\ f.s = s /\ f.t = t /\ f.c = c
  /\ f.size = size /\ f.data = data

LEMMA FrameHas ==
  ASSUME NEW cs \in 0..4
  PROVE HasFields(D!Frame(cs), cs, FALSE, FALSE, 0, FALSE, 0, <<>>)
  BY EmptySeq DEF HasFields, D!Frame, D!FrameSet, D!Byte

LEMMA FieldsTyped ==
  ASSUME NEW f \in D!FrameSet
  PROVE /\ f.cs \in 0..4 /\ f.e \in BOOLEAN /\ f.s \in BOOLEAN
        /\ f.t \in {0, 1} /\ f.c \in BOOLEAN
        /\ f.size \in Nat /\ f.data \in Seq(Nat)
  BY DEF D!FrameSet, D!Byte

LEMMA SetE ==
  ASSUME NEW f \in D!FrameSet, NEW x \in BOOLEAN
  PROVE HasFields([f EXCEPT !.e = x], f.cs, x, f.s, f.t, f.c, f.size, f.data)
  BY DEF HasFields, D!FrameSet, D!Byte

LEMMA SetS ==
  ASSUME NEW f \in D!FrameSet, NEW x \in BOOLEAN
  PROVE HasFields([f EXCEPT !.s = x], f.cs, f.e, x, f.t, f.c, f.size, f.data)
  BY DEF HasFields, D!FrameSet, D!Byte

LEMMA SetT ==
  ASSUME NEW f \in D!FrameSet, NEW x \in {0, 1}
  PROVE HasFields([f EXCEPT !.t = x], f.cs, f.e, f.s, x, f.c, f.size, f.data)
  BY DEF HasFields, D!FrameSet, D!Byte

LEMMA SetC ==
  ASSUME NEW f \in D!FrameSet, NEW x \in BOOLEAN
  PROVE HasFields([f EXCEPT !.c = x], f.cs, f.e, f.s, f.t, x, f.size, f.data)
  BY DEF HasFields, D!FrameSet, D!Byte

LEMMA SetSize ==
  ASSUME NEW f \in D!FrameSet, NEW x \in Nat
  PROVE HasFields([f EXCEPT !.size = x], f.cs, f.e, f.s, f.t, f.c, x, f.data)
  BY DEF HasFields, D!FrameSet, D!Byte

LEMMA SetData ==
  ASSUME NEW f \in D!FrameSet, NEW x \in Seq(Nat)
  PROVE HasFields([f EXCEPT !.data = x], f.cs, f.e, f.s, f.t, f.c, f.size, x)
  BY DEF HasFields, D!FrameSet, D!Byte

LEMMA DownloadFrame ==
  ASSUME NEW n \in Nat
  PROVE HasFields([D!Frame(1) EXCEPT !.s = TRUE, !.size = n],
                  1, FALSE, TRUE, 0, FALSE, n, <<>>)
  <1> DEFINE f0 == D!Frame(1)
  <1>1. HasFields(f0, 1, FALSE, FALSE, 0, FALSE, 0, <<>>)
    BY EmptySeq DEF HasFields, D!Frame, D!FrameSet, D!Byte
  <1> HIDE DEF f0
  <1> DEFINE f1 == [f0 EXCEPT !.s = TRUE]
  <1>2. HasFields(f1, 1, FALSE, TRUE, 0, FALSE, 0, <<>>)
    BY <1>1, SetS DEF HasFields
  <1> HIDE DEF f1
  <1> DEFINE f2 == [f1 EXCEPT !.size = n]
  <1>3. HasFields(f2, 1, FALSE, TRUE, 0, FALSE, n, <<>>)
    BY <1>2, SetSize DEF HasFields
  <1> HIDE DEF f2
  <1>4. f2 = [f0 EXCEPT !.s = TRUE, !.size = n]
    BY DEF f1, f2
  <1>5. QED
    BY <1>3, <1>4 DEF f0

LEMMA ExpeditedFrame ==
  ASSUME NEW d \in Seq(Nat)
  PROVE HasFields([D!Frame(2) EXCEPT !.e = TRUE, !.s = TRUE, !.data = d],
                  2, TRUE, TRUE, 0, FALSE, 0, d)
  <1> DEFINE f0 == D!Frame(2)
  <1>1. HasFields(f0, 2, FALSE, FALSE, 0, FALSE, 0, <<>>)
    BY EmptySeq DEF HasFields, D!Frame, D!FrameSet, D!Byte
  <1> HIDE DEF f0
  <1> DEFINE f1 == [f0 EXCEPT !.e = TRUE]
  <1>2. HasFields(f1, 2, TRUE, FALSE, 0, FALSE, 0, <<>>)
    BY <1>1, SetE DEF HasFields
  <1> HIDE DEF f1
  <1> DEFINE f2 == [f1 EXCEPT !.s = TRUE]
  <1>3. HasFields(f2, 2, TRUE, TRUE, 0, FALSE, 0, <<>>)
    BY <1>2, SetS DEF HasFields
  <1> HIDE DEF f2
  <1> DEFINE f3 == [f2 EXCEPT !.data = d]
  <1>4. HasFields(f3, 2, TRUE, TRUE, 0, FALSE, 0, d)
    BY <1>3, SetData DEF HasFields
  <1> HIDE DEF f3
  <1>5. f3 = [f0 EXCEPT !.e = TRUE, !.s = TRUE, !.data = d]
    BY DEF f1, f2, f3
  <1>6. QED
    BY <1>4, <1>5 DEF f0

LEMMA UnsizedFrame ==
  ASSUME NEW d \in Seq(Nat)
  PROVE HasFields([D!Frame(2) EXCEPT !.e = TRUE, !.data = d],
                  2, TRUE, FALSE, 0, FALSE, 0, d)
  <1> DEFINE f0 == D!Frame(2)
  <1>1. HasFields(f0, 2, FALSE, FALSE, 0, FALSE, 0, <<>>)
    BY EmptySeq DEF HasFields, D!Frame, D!FrameSet, D!Byte
  <1> HIDE DEF f0
  <1> DEFINE f1 == [f0 EXCEPT !.e = TRUE]
  <1>2. HasFields(f1, 2, TRUE, FALSE, 0, FALSE, 0, <<>>)
    BY <1>1, SetE DEF HasFields
  <1> HIDE DEF f1
  <1> DEFINE f2 == [f1 EXCEPT !.data = d]
  <1>3. HasFields(f2, 2, TRUE, FALSE, 0, FALSE, 0, d)
    BY <1>2, SetData DEF HasFields
  <1> HIDE DEF f2
  <1>4. f2 = [f0 EXCEPT !.e = TRUE, !.data = d]
    BY DEF f1, f2
  <1>5. QED
    BY <1>3, <1>4 DEF f0

LEMMA UploadFrame ==
  ASSUME NEW n \in Nat
  PROVE HasFields([D!Frame(2) EXCEPT !.s = TRUE, !.size = n],
                  2, FALSE, TRUE, 0, FALSE, n, <<>>)
  <1> DEFINE f0 == D!Frame(2)
  <1>1. HasFields(f0, 2, FALSE, FALSE, 0, FALSE, 0, <<>>)
    BY EmptySeq DEF HasFields, D!Frame, D!FrameSet, D!Byte
  <1> HIDE DEF f0
  <1> DEFINE f1 == [f0 EXCEPT !.s = TRUE]
  <1>2. HasFields(f1, 2, FALSE, TRUE, 0, FALSE, 0, <<>>)
    BY <1>1, SetS DEF HasFields
  <1> HIDE DEF f1
  <1> DEFINE f2 == [f1 EXCEPT !.size = n]
  <1>3. HasFields(f2, 2, FALSE, TRUE, 0, FALSE, n, <<>>)
    BY <1>2, SetSize DEF HasFields
  <1> HIDE DEF f2
  <1>4. f2 = [f0 EXCEPT !.s = TRUE, !.size = n]
    BY DEF f1, f2
  <1>5. QED
    BY <1>3, <1>4 DEF f0

LEMMA SegmentFrame ==
  ASSUME NEW t \in {0, 1}, NEW c \in BOOLEAN, NEW d \in Seq(Nat)
  PROVE HasFields([D!Frame(0) EXCEPT !.t = t, !.c = c, !.data = d],
                  0, FALSE, FALSE, t, c, 0, d)
  <1> DEFINE f0 == D!Frame(0)
  <1>1. HasFields(f0, 0, FALSE, FALSE, 0, FALSE, 0, <<>>)
    BY EmptySeq DEF HasFields, D!Frame, D!FrameSet, D!Byte
  <1> HIDE DEF f0
  <1> DEFINE f1 == [f0 EXCEPT !.t = t]
  <1>2. HasFields(f1, 0, FALSE, FALSE, t, FALSE, 0, <<>>)
    BY <1>1, SetT DEF HasFields
  <1> HIDE DEF f1
  <1> DEFINE f2 == [f1 EXCEPT !.c = c]
  <1>3. HasFields(f2, 0, FALSE, FALSE, t, c, 0, <<>>)
    BY <1>2, SetC DEF HasFields
  <1> HIDE DEF f2
  <1> DEFINE f3 == [f2 EXCEPT !.data = d]
  <1>4. HasFields(f3, 0, FALSE, FALSE, t, c, 0, d)
    BY <1>3, SetData DEF HasFields
  <1> HIDE DEF f3
  <1>5. f3 = [f0 EXCEPT !.t = t, !.c = c, !.data = d]
    BY DEF f1, f2, f3
  <1>6. QED
    BY <1>4, <1>5 DEF f0

LEMMA ToggleFrame ==
  ASSUME NEW t \in {0, 1}, NEW cs \in 0..4
  PROVE HasFields([D!Frame(cs) EXCEPT !.t = t], cs, FALSE, FALSE, t, FALSE, 0, <<>>)
  BY FrameHas, SetT DEF HasFields

(* What is under way is one request or one response. *)
LEMMA Underway ==
  ASSUME TypeOK, OneInFlight
  PROVE /\ req # <<>> => /\ rsp = <<>> /\ Tail(req) = <<>>
                         /\ Head(req) \in D!FrameSet
        /\ rsp # <<>> => /\ req = <<>> /\ Tail(rsp) = <<>>
                         /\ Head(rsp) \in D!FrameSet
        /\ main = "send" => req = <<>> /\ rsp = <<>>
  <1>1. req \in Seq(D!FrameSet) /\ rsp \in Seq(D!FrameSet)
    BY SdoTyped
  <1>2. /\ Len(req) \in Nat /\ Len(rsp) \in Nat
        /\ req = <<>> <=> Len(req) = 0
        /\ rsp = <<>> <=> Len(rsp) = 0
        /\ req # <<>> => Head(req) \in D!FrameSet
        /\ rsp # <<>> => Head(rsp) \in D!FrameSet
        /\ req # <<>> /\ Len(req) <= 1 => Tail(req) = <<>>
        /\ rsp # <<>> /\ Len(rsp) <= 1 => Tail(rsp) = <<>>
    BY <1>1, OneElement
  <1>3. Len(req) + Len(rsp) <= 1
    BY DEF OneInFlight
  <1>4. main = "send" => req = <<>> /\ rsp = <<>>
    BY DEF OneInFlight
  <1>5. QED
    BY <1>2, <1>3, <1>4

-----------------------------------------------------------------------------
(* The first states, and the steps of the calling thread.                  *)
LEMMA InitIInv == Init => IInv
  <1> SUFFICES ASSUME Init PROVE IInv
    OBVIOUS
  <1> USE CanSdoAssumption
  <1>1. /\ req = <<>> /\ rsp = <<>> /\ left = <<>> /\ got = <<>>
        /\ object \in Objects /\ session = "idle" /\ toggle = 0 /\ refused = FALSE
    BY DEF Init, D!Init
  <1>2. /\ <<>> \in Seq(D!FrameSet) /\ <<>> \in Seq(Nat) /\ Len(<<>>) = 0
        /\ \A s \in Seq(Nat) : Len(s) \in Nat
    BY OneElement
  <1>3. object \in Seq(Nat)
    BY <1>1
  <1>4. D!TypeOK
    BY <1>1, <1>2, <1>3 DEF D!TypeOK, D!Byte
  <1>5. /\ op \in {"read", "write"}
        /\ op = "read" => value = object /\ m_data_size = 0 /\ m_data = <<>>
        /\ op = "write" => value \in Values /\ m_data_size = Len(value) /\ m_data = value
        /\ main = "send" /\ ticks = 0 /\ ret = "none" /\ rx = "idle"
        /\ m_started = FALSE /\ m_segment_number = 0 /\ m_data_index = 0
        /\ m_transfer_complete = FALSE /\ m_transfer_error = FALSE
        /\ m_timeout \in 0..Past
    BY DEF Init, Past
  <1>6. value \in Seq(Nat) /\ m_data \in Seq(Nat)
    BY <1>2, <1>3, <1>5
  <1>7. Len(value) \in Nat /\ Len(m_data) \in Nat
    BY <1>2, <1>6
  <1>8. TypeOK
    <2>1. /\ m_data_size \in Nat /\ m_data_index <= Len(m_data) /\ 0 \in 0..Past
          /\ m_data_index <= BufferSize
      BY <1>5, <1>7 DEF Past
    <2>2. QED
      BY <1>4, <1>5, <1>6, <2>1 DEF TypeOK
  <1>9. OneInFlight
    BY <1>1, <1>2, <1>5 DEF OneInFlight
  <1>10. ReadInv
    BY <1>1, <1>5, <1>7 DEF ReadInv
  <1>11. WriteInv
    BY <1>1, <1>5, <1>7 DEF WriteInv
  <1>12. CompleteIsExact
    BY <1>5 DEF CompleteIsExact
  <1>13. QED
    BY <1>8, <1>9, <1>10, <1>11, <1>12 DEF IInv

LEMMA WriteUntouched ==
  ASSUME WriteInv, UNCHANGED <<device, link, op, value, transfer>>
  PROVE WriteInv'
  <1>1. /\ req' = req /\ rsp' = rsp /\ object' = object /\ session' = session
        /\ toggle' = toggle /\ got' = got /\ refused' = refused
        /\ op' = op /\ value' = value /\ m_started' = m_started
        /\ m_segment_number' = m_segment_number /\ m_data_size' = m_data_size
        /\ m_data' = m_data /\ m_data_index' = m_data_index
    BY DEF device, link, transfer
  <1>2. WriteAsked(Head(req))' <=> WriteAsked(Head(req))
    BY <1>1 DEF WriteAsked, Short
  <1>3. WriteAnswered(Head(rsp))' <=> WriteAnswered(Head(rsp))
    BY <1>1 DEF WriteAnswered, Short
  <1>4. QED
    BY <1>1, <1>2, <1>3 DEF WriteInv, Short

(* Where the caller waits and what the counter is are nobody else's        *)
(* concern: a step that moves only them.                                   *)
LEMMA WaitingKeeps ==
  ASSUME IInv, Reset \/ Test \/ Load \/ Store \/ RxReset
  PROVE IInv'
  <1> USE CanSdoAssumption
  <1>1. TypeOK /\ OneInFlight /\ ReadInv /\ WriteInv /\ CompleteIsExact
    BY DEF IInv
  <1>2. /\ UNCHANGED <<device, link, op, value, transfer>>
        /\ main' = "send" => main = "send"
        /\ main' \in {"send", "reset", "test", "load", "store", "decide", "done"}
    BY <1>1 DEF Reset, Test, Load, Store, RxReset, caller, TypeOK
  <1>3. /\ ticks' \in 0..Past /\ ret' \in {"none", "true", "false"}
        /\ rx' \in {"idle", "handle", "undefined"} /\ (rx' = "handle" => rsp' # <<>>)
        /\ rx' = "undefined" => rx = "undefined"
        /\ m_timeout' \in 0..Past
    BY <1>1 DEF Reset, Test, Load, Store, RxReset, caller, TypeOK, Tick, Past, link
  <1>4. TypeOK'
    BY <1>1, <1>2, <1>3 DEF TypeOK, D!TypeOK, device, link, transfer
  <1>5. OneInFlight' /\ CompleteIsExact'
    BY <1>1, <1>2, <1>3 DEF OneInFlight, CompleteIsExact, device, link, transfer
  <1>6. ReadInv'
    BY <1>1, <1>2 DEF ReadInv, ReadAsked, ReadAnswered, Taken, Unsized,
                      device, link, transfer
  <1>7. WriteInv'
    BY <1>1, <1>2, WriteUntouched
  <1>8. QED
    BY <1>4, <1>5, <1>6, <1>7 DEF IInv

(* read() takes the bytes received for the size when it got none, which is *)
(* zero then.                                                              *)
LEMMA DecideKeeps ==
  ASSUME IInv, Decide
  PROVE IInv'
  <1>1. TypeOK /\ OneInFlight /\ ReadInv /\ WriteInv /\ CompleteIsExact
    BY DEF IInv
  <1>2. /\ UNCHANGED <<device, link, op, value, rx, ticks, m_started,
                       m_segment_number, m_data, m_data_index,
                       m_transfer_complete, m_transfer_error, m_timeout>>
        /\ main = "decide" /\ main' = "done" /\ ret' \in {"true", "false"}
    BY DEF Decide
  <1>3. m_data_size' = m_data_size
    BY <1>1 DEF Decide, ReadInv
  <1>4. TypeOK'
    BY <1>1, <1>2, <1>3 DEF TypeOK, D!TypeOK, device, link
  <1>5. OneInFlight' /\ CompleteIsExact'
    BY <1>1, <1>2, <1>3 DEF OneInFlight, CompleteIsExact, device, link
  <1>6. ReadInv'
    BY <1>1, <1>2, <1>3 DEF ReadInv, ReadAsked, ReadAnswered, Taken, Unsized,
                            device, link
  <1>7. WriteInv'
    BY <1>1, <1>2, <1>3, WriteUntouched DEF transfer
  <1>8. QED
    BY <1>4, <1>5, <1>6, <1>7 DEF IInv

LEMMA InitiateKeeps ==
  ASSUME IInv, Initiate
  PROVE IInv'
  <1>1. TypeOK /\ OneInFlight /\ ReadInv /\ WriteInv /\ CompleteIsExact
    BY DEF IInv
  <1>2. /\ UNCHANGED <<device, rsp, op, value, ticks, rx, transfer, m_timeout>>
        /\ main = "send" /\ main' \in {"reset", "test", "done"}
        /\ ret' \in {"none", "true", "false"}
    BY <1>1 DEF Initiate, TypeOK
  <1>3. /\ req = <<>> /\ rsp = <<>> /\ ~m_started
        /\ ~m_transfer_complete /\ ~m_transfer_error
    BY <1>1, <1>2, Underway DEF OneInFlight
  <1> DEFINE first == IF op = "read"
                        THEN D!Frame(2)
                        ELSE [D!Frame(1) EXCEPT !.s = TRUE, !.size = m_data_size]
  <1>4. first \in D!FrameSet /\ first.cs = IF op = "read" THEN 2 ELSE 1
    <2>1. m_data_size \in Nat /\ <<>> \in Seq(Nat)
      BY <1>1, SdoTyped, EmptySeq
    <2> DEFINE f == [D!Frame(1) EXCEPT !.s = TRUE, !.size = m_data_size]
    <2>2. HasFields(f, 1, FALSE, TRUE, 0, FALSE, m_data_size, <<>>)
      BY <2>1, DownloadFrame
    <2>3. HasFields(D!Frame(2), 2, FALSE, FALSE, 0, FALSE, 0, <<>>)
      BY EmptySeq DEF HasFields, D!Frame, D!FrameSet, D!Byte
    <2>4. first = IF op = "read" THEN D!Frame(2) ELSE f
      OBVIOUS
    <2> HIDE DEF f, first
    <2>5. QED
      BY <2>2, <2>3, <2>4 DEF HasFields
  <1>5. req' = <<>> \/ req' = Append(<<>>, first)
    BY <1>3 DEF Initiate
  <1> HIDE DEF first
  <1>6. /\ req' \in Seq(D!FrameSet) /\ Len(req') <= 1 /\ Len(req') \in Nat
        /\ req' # <<>> => Head(req') = first
        /\ Len(rsp) = 0
    <2>1. /\ <<>> \in Seq(D!FrameSet) /\ Len(<<>>) = 0
          /\ Append(<<>>, first) \in Seq(D!FrameSet)
          /\ Len(Append(<<>>, first)) = 1 /\ Head(Append(<<>>, first)) = first
      BY <1>4, OneElement
    <2>2. CASE req' = <<>>
      BY <1>3, <2>1, <2>2
    <2>3. CASE req' = Append(<<>>, first)
      BY <1>3, <2>1, <2>3
    <2>4. QED
      BY <1>5, <2>2, <2>3
  <1>7. TypeOK'
    BY <1>1, <1>2, <1>6 DEF TypeOK, D!TypeOK, device, transfer
  <1>8. OneInFlight' /\ CompleteIsExact'
    BY <1>1, <1>2, <1>3, <1>6 DEF OneInFlight, CompleteIsExact, device, transfer
  <1>9. ReadInv'
    <2>1. ASSUME op = "read", req' # <<>> PROVE ReadAsked(Head(req))'
      BY <1>2, <1>3, <1>4, <1>6, <2>1 DEF ReadAsked, transfer
    <2>2. QED
      BY <1>1, <1>2, <1>3, <2>1 DEF ReadInv, Unsized, device, transfer
  <1>10. WriteInv'
    <2>1. ASSUME op = "write", req' # <<>> PROVE WriteAsked(Head(req))'
      BY <1>2, <1>3, <1>4, <1>6, <2>1 DEF WriteAsked, transfer
    <2>2. QED
      BY <1>1, <1>2, <1>3, <2>1 DEF WriteInv, Short, device, transfer
  <1>11. QED
    BY <1>7, <1>8, <1>9, <1>10 DEF IInv

-----------------------------------------------------------------------------
(* The steps of the device.  Each takes the request and answers it.        *)
Elsewhere == <<caller, rx, transfer, m_timeout>>

LEMMA Answered ==
  ASSUME IInv, req # <<>>, NEW frame \in D!FrameSet, D!Answer(frame),
         UNCHANGED Elsewhere
  PROVE /\ req' = <<>> /\ rsp' # <<>> /\ Head(rsp') = frame
        /\ OneInFlight' /\ CompleteIsExact'
        /\ ( /\ object' \in Seq(Nat) /\ left' \in Seq(Nat) /\ got' \in Seq(Nat)
             /\ session' \in {"idle", "upload", "download"}
             /\ toggle' \in {0, 1} /\ refused' \in BOOLEAN )
           => TypeOK'
  <1>1. TypeOK /\ OneInFlight
    BY DEF IInv
  <1>2. rsp = <<>> /\ Tail(req) = <<>>
    BY <1>1, Underway
  <1>3. req' = <<>> /\ rsp' = Append(<<>>, frame)
    BY <1>2 DEF D!Answer
  <1>4. /\ rsp' \in Seq(D!FrameSet) /\ rsp' # <<>> /\ Len(rsp') = 1
        /\ Head(rsp') = frame
    BY <1>3, OneElement
  <1>5. req' \in Seq(D!FrameSet) /\ Len(req') = 0
    BY <1>3, OneElement
  <1>6. ~m_transfer_complete /\ ~m_transfer_error /\ main # "send"
    BY <1>1 DEF OneInFlight
  <1>7. /\ op' = op /\ value' = value /\ main' = main /\ ticks' = ticks
        /\ ret' = ret /\ rx' = rx /\ m_started' = m_started
        /\ m_segment_number' = m_segment_number /\ m_data_size' = m_data_size
        /\ m_data' = m_data /\ m_data_index' = m_data_index
        /\ m_transfer_complete' = m_transfer_complete
        /\ m_transfer_error' = m_transfer_error /\ m_timeout' = m_timeout
    BY DEF Elsewhere, caller, transfer
  <1>8. OneInFlight' /\ CompleteIsExact'
    <2>1. OneInFlight'
      BY <1>1, <1>4, <1>5, <1>6, <1>7 DEF OneInFlight
    <2>2. ~m_transfer_complete'
      BY <1>6, <1>7
    <2>3. rx = "undefined" => op = "read" /\ Len(value) > BufferSize
      BY DEF IInv, CompleteIsExact
    <2>4. QED
      BY <1>7, <2>1, <2>2, <2>3 DEF CompleteIsExact
  <1>9. ASSUME object' \in Seq(Nat), left' \in Seq(Nat), got' \in Seq(Nat),
               session' \in {"idle", "upload", "download"},
               toggle' \in {0, 1}, refused' \in BOOLEAN
        PROVE TypeOK'
    <2>1. D!TypeOK'
      BY <1>4, <1>5, <1>9 DEF D!TypeOK, D!Byte
    <2>2. QED
      BY <1>1, <1>4, <1>7, <2>1 DEF TypeOK
  <1>10. QED
    BY <1>3, <1>4, <1>8, <1>9

LEMMA TakenTyped ==
  ASSUME TypeOK
  PROVE Taken \in Seq(Nat) /\ Len(Taken) = m_data_index
  <1>1. /\ m_data \in Seq(Nat) /\ m_data_index \in Nat /\ Len(m_data) \in Nat
        /\ m_data_index <= Len(m_data)
    BY SdoTyped
  <1>2. \A i \in 1..m_data_index : m_data[i] \in Nat
    <2>1. \A i \in 1..Len(m_data) : m_data[i] \in Nat
      BY <1>1, ElementOfSeq
    <2>2. QED
      BY <1>1, <2>1
  <1>3. /\ Taken \in Seq(Nat)
        /\ Len(Taken) = IF 1 <= m_data_index THEN m_data_index - 1 + 1 ELSE 0
    BY <1>1, <1>2, SubSeqProperties DEF Taken
  <1>4. QED
    BY <1>1, <1>3

LEMMA InitiateUploadKeeps ==
  ASSUME IInv, D!InitiateUpload, UNCHANGED Elsewhere
  PROVE IInv'
  <1>1. TypeOK /\ OneInFlight /\ ReadInv /\ WriteInv /\ req # <<>> /\ Head(req).cs = 2
    BY DEF IInv, D!InitiateUpload
  <1>2. op = "read" /\ ~m_started /\ object = value
    <2>1. op # "write"
      BY <1>1 DEF WriteInv, WriteAsked
    <2>2. op = "read"
      BY <1>1, <2>1, SdoTyped
    <2>3. QED
      BY <1>1, <2>2 DEF ReadInv, ReadAsked
  <1>3. /\ op' = op /\ value' = value /\ m_started' = m_started
        /\ m_segment_number' = m_segment_number /\ m_data_size' = m_data_size
        /\ m_data' = m_data /\ m_data_index' = m_data_index
        /\ object' = object /\ got' = got /\ refused' = refused
    BY DEF Elsewhere, caller, transfer, D!InitiateUpload
  <1>4. /\ object \in Seq(Nat) /\ left \in Seq(Nat) /\ got \in Seq(Nat)
        /\ refused \in BOOLEAN /\ toggle \in {0, 1} /\ Len(object) \in Nat
    BY <1>1, SdoTyped
  <1> DEFINE Sized == [D!Frame(2) EXCEPT !.e = TRUE, !.s = TRUE, !.data = object]
  <1> DEFINE NotSized == [D!Frame(2) EXCEPT !.e = TRUE, !.data = object]
  <1> DEFINE Segmented == [D!Frame(2) EXCEPT !.s = TRUE, !.size = Len(object)]
  <1>5. /\ HasFields(Sized, 2, TRUE, TRUE, 0, FALSE, 0, object)
        /\ HasFields(NotSized, 2, TRUE, FALSE, 0, FALSE, 0, object)
        /\ HasFields(Segmented, 2, FALSE, TRUE, 0, FALSE, Len(object), <<>>)
    BY <1>4, ExpeditedFrame, UnsizedFrame, UploadFrame
  <1>6. \/ /\ Unsized /\ session' = "idle" /\ toggle' = toggle /\ left' = left
           /\ D!Answer(Sized) \/ D!Answer(NotSized)
        \/ /\ session' = "upload" /\ toggle' = 0 /\ left' = object
           /\ D!Answer(Segmented)
    BY DEF D!InitiateUpload, Unsized
  <1> HIDE DEF Sized, NotSized, Segmented
  <1>7. PICK f \in D!FrameSet : /\ D!Answer(f)
                                /\ f \in {Sized, NotSized, Segmented}
    BY <1>5, <1>6 DEF HasFields
  <1>8. /\ req' = <<>> /\ rsp' # <<>> /\ Head(rsp') = f
        /\ OneInFlight' /\ CompleteIsExact' /\ TypeOK'
    BY <1>1, <1>3, <1>4, <1>6, <1>7, Answered
  <1>9. ReadAnswered(Head(rsp))'
    <2>1. CASE /\ Unsized /\ session' = "idle"
               /\ D!Answer(Sized) \/ D!Answer(NotSized)
      <3>1. Head(rsp') = Sized \/ Head(rsp') = NotSized
        BY <1>1, <1>5, <2>1, Answered DEF HasFields
      <3>2. QED
        BY <1>2, <1>3, <1>5, <2>1, <3>1 DEF HasFields, ReadAnswered, Unsized
    <2>2. CASE session' = "upload" /\ toggle' = 0 /\ left' = object /\ D!Answer(Segmented)
      <3>1. Head(rsp') = Segmented
        BY <1>1, <1>5, <2>2, Answered DEF HasFields
      <3>2. QED
        BY <1>2, <1>3, <1>5, <2>2, <3>1 DEF HasFields, ReadAnswered
    <2>3. QED
      BY <1>6, <2>1, <2>2
  <1>10. ReadInv' /\ WriteInv'
    BY <1>1, <1>2, <1>3, <1>6, <1>8, <1>9 DEF ReadInv, WriteInv, Unsized
  <1>11. QED
    BY <1>8, <1>10 DEF IInv

LEMMA UploadSegmentKeeps ==
  ASSUME IInv, D!UploadSegment, UNCHANGED Elsewhere
  PROVE IInv'
  <1>1. /\ TypeOK /\ OneInFlight /\ ReadInv /\ WriteInv
        /\ req # <<>> /\ Head(req).cs = 3 /\ session = "upload"
    BY DEF IInv, D!UploadSegment
  <1>2. op = "read" /\ op # "write"
    <2>1. op # "write"
      BY <1>1 DEF WriteInv, WriteAsked
    <2>2. QED
      BY <1>1, <2>1, SdoTyped
  <1>3. /\ m_started /\ toggle = Parity(m_segment_number)
        /\ m_data_size = Len(value) /\ value = Taken \o left
    BY <1>1, <1>2 DEF ReadInv, ReadAsked
  <1>4. /\ op' = op /\ value' = value /\ m_started' = m_started
        /\ m_segment_number' = m_segment_number /\ m_data_size' = m_data_size
        /\ m_data' = m_data /\ m_data_index' = m_data_index
        /\ object' = object /\ got' = got /\ refused' = refused
    BY DEF Elsewhere, caller, transfer, D!UploadSegment
  <1>5. /\ object \in Seq(Nat) /\ left \in Seq(Nat) /\ got \in Seq(Nat)
        /\ refused \in BOOLEAN /\ toggle \in {0, 1} /\ SegmentSize \in Nat
        /\ m_segment_number \in Nat /\ Len(left) \in Nat
    BY <1>1, SdoTyped, LenProperties
  <1> DEFINE last == Len(left) <= SegmentSize
  <1> DEFINE first == D!First(SegmentSize, left)
  <1> DEFINE f == [D!Frame(0) EXCEPT !.t = toggle, !.c = last, !.data = first]
  <1>6. /\ first \in Seq(Nat) /\ left' \in Seq(Nat) /\ first \o left' = left
        /\ last => left' = <<>>
    BY <1>5, FirstThenRest DEF D!UploadSegment
  <1>7. /\ D!Answer(f) /\ toggle' = 1 - toggle /\ last \in BOOLEAN
        /\ session' = IF last THEN "idle" ELSE "upload"
    BY DEF D!UploadSegment
  <1> HIDE DEF last, first
  <1>8. HasFields(f, 0, FALSE, FALSE, toggle, last, 0, first)
    BY <1>5, <1>6, <1>7, SegmentFrame
  <1> HIDE DEF f
  <1>9. f \in D!FrameSet /\ f.cs = 0 /\ f.c = last /\ f.data = first
    BY <1>8 DEF HasFields
  <1>10. toggle' \in {0, 1} /\ session' \in {"idle", "upload", "download"}
    BY <1>5, <1>7
  <1>11. /\ req' = <<>> /\ rsp' # <<>> /\ Head(rsp') = f
         /\ OneInFlight' /\ CompleteIsExact' /\ TypeOK'
    BY <1>1, <1>4, <1>5, <1>6, <1>7, <1>9, <1>10, Answered
  <1>12. value = (Taken \o first) \o left'
    <2>1. Taken \in Seq(Nat)
      BY <1>1, TakenTyped
    <2>2. \A a, b, c \in Seq(Nat) : (a \o b) \o c = a \o (b \o c)
      BY ConcatAssociative
    <2>3. (Taken \o first) \o left' = Taken \o (first \o left')
      BY <1>6, <2>1, <2>2
    <2>4. QED
      BY <1>3, <1>6, <2>3
  <1>13. toggle' = Parity(m_segment_number + 1)
    BY <1>3, <1>5, <1>7, ParityFacts
  <1>14. Taken' = Taken
    BY <1>4 DEF Taken
  <1>15. ReadAnswered(Head(rsp))'
    <2>1. Head(rsp').cs = 0 /\ Head(rsp').c = last /\ Head(rsp').data = first
      BY <1>9, <1>11
    <2>2. /\ m_started' /\ m_data_size' = Len(value')
          /\ value' = (Taken' \o first) \o left'
      BY <1>3, <1>4, <1>12, <1>14
    <2>3. IF last THEN left' = <<>>
                  ELSE session' = "upload" /\ toggle' = Parity(m_segment_number' + 1)
      BY <1>4, <1>6, <1>7, <1>13
    <2>4. QED
      BY <2>1, <2>2, <2>3 DEF ReadAnswered
  <1>16. ReadInv' /\ WriteInv'
    <2>1. object' = value' /\ session' # "download"
      BY <1>1, <1>2, <1>4, <1>7 DEF ReadInv
    <2>2. QED
      BY <1>1, <1>2, <1>4, <1>11, <1>15, <2>1 DEF ReadInv, WriteInv, Unsized
  <1>17. QED
    BY <1>11, <1>16 DEF IInv

LEMMA InitiateDownloadKeeps ==
  ASSUME IInv, D!InitiateDownload, UNCHANGED Elsewhere
  PROVE IInv'
  <1>1. /\ TypeOK /\ OneInFlight /\ ReadInv /\ WriteInv
        /\ req # <<>> /\ Head(req).cs = 1
    BY DEF IInv, D!InitiateDownload
  <1>2. op = "write" /\ op # "read" /\ ~m_started
    <2>1. op # "read"
      BY <1>1 DEF ReadInv, ReadAsked
    <2>2. op = "write"
      BY <1>1, <2>1, SdoTyped
    <2>3. QED
      BY <1>1, <2>1, <2>2 DEF WriteInv, WriteAsked
  <1>3. /\ op' = op /\ value' = value /\ m_started' = m_started
        /\ m_segment_number' = m_segment_number /\ m_data_size' = m_data_size
        /\ m_data' = m_data /\ m_data_index' = m_data_index
        /\ object' = object /\ left' = left /\ refused' = refused
        /\ session' = "download" /\ toggle' = 0 /\ got' = <<>>
        /\ D!Answer(D!Frame(3))
    BY DEF Elsewhere, caller, transfer, D!InitiateDownload
  <1>4. /\ object \in Seq(Nat) /\ left \in Seq(Nat) /\ <<>> \in Seq(Nat)
        /\ refused \in BOOLEAN
    BY <1>1, SdoTyped, EmptySeq
  <1>5. D!Frame(3) \in D!FrameSet /\ D!Frame(3).cs = 3
    BY <1>4 DEF D!Frame, D!FrameSet, D!Byte
  <1>6. /\ req' = <<>> /\ rsp' # <<>> /\ Head(rsp') = D!Frame(3)
        /\ OneInFlight' /\ CompleteIsExact' /\ TypeOK'
    BY <1>1, <1>3, <1>4, <1>5, Answered
  <1>7. WriteAnswered(Head(rsp))'
    BY <1>2, <1>3, <1>5, <1>6 DEF WriteAnswered
  <1>8. ReadInv' /\ WriteInv'
    BY <1>1, <1>2, <1>3, <1>6, <1>7 DEF ReadInv, WriteInv, Short
  <1>9. QED
    BY <1>6, <1>8 DEF IInv

(* The device has received what the writer counts as sent; with the last   *)
(* segment that is the value.                                              *)
LEMMA DownloadSegmentKeeps ==
  ASSUME IInv, D!DownloadSegment, UNCHANGED Elsewhere
  PROVE /\ IInv'
        /\ op = "write"
        /\ object' = object \/ (Short => object' = value)
  <1> DEFINE r == Head(req)
  <1>1. /\ TypeOK /\ OneInFlight /\ ReadInv /\ WriteInv
        /\ req # <<>> /\ r.cs = 0 /\ session = "download"
    BY DEF IInv, D!DownloadSegment
  <1>2. op = "write" /\ op # "read"
    <2>1. op # "read"
      BY <1>1 DEF ReadInv
    <2>2. QED
      BY <1>1, <2>1, SdoTyped
  <1>3. r \in D!FrameSet
    BY <1>1, Underway
  <1>4. /\ m_started /\ toggle = Parity(m_segment_number)
        /\ m_data_index = Len(value) => r.c
        /\ got \o r.data = SubSeq(value, 1, m_data_index)
        /\ Short /\ r.c => m_data_index = Len(value)
    <2>1. WriteAsked(r)
      BY <1>1, <1>2 DEF WriteInv
    <2> HIDE DEF r
    <2>2. r.cs # 1
      BY <1>1
    <2>3. QED
      BY <1>1, <2>1, <2>2, Zenon DEF WriteAsked
  <1>5. /\ op' = op /\ value' = value /\ m_started' = m_started
        /\ m_segment_number' = m_segment_number /\ m_data_size' = m_data_size
        /\ m_data' = m_data /\ m_data_index' = m_data_index
        /\ left' = left /\ refused' = refused
        /\ got' = got \o r.data /\ toggle' = 1 - toggle
        /\ D!Answer([D!Frame(1) EXCEPT !.t = toggle])
        /\ IF r.c THEN object' = got' /\ session' = "idle"
                  ELSE object' = object /\ session' = session
    BY DEF Elsewhere, caller, transfer, D!DownloadSegment
  <1>6. /\ object \in Seq(Nat) /\ left \in Seq(Nat) /\ got \in Seq(Nat)
        /\ value \in Seq(Nat) /\ refused \in BOOLEAN /\ toggle \in {0, 1}
        /\ m_segment_number \in Nat /\ m_data_index \in Nat /\ Len(value) \in Nat
    BY <1>1, SdoTyped
  <1>7. got' \in Seq(Nat) /\ r.data \in Seq(Nat) /\ r.c \in BOOLEAN
    <2>1. r.data \in Seq(Nat) /\ r.c \in BOOLEAN
      BY <1>3, FieldsTyped
    <2>2. QED
      BY <1>5, <1>6, <2>1, ConcatProperties
  <1>8. got' = SubSeq(value', 1, m_data_index') /\ SubSeq(value, 1, Len(value)) = value
    BY <1>4, <1>5, <1>6, SubSeqFull
  <1> DEFINE f == [D!Frame(1) EXCEPT !.t = toggle]
  <1>9. HasFields(f, 1, FALSE, FALSE, toggle, FALSE, 0, <<>>)
    <2>1. 1 \in 0..4
      OBVIOUS
    <2>2. QED
      BY <1>6, <2>1, ToggleFrame
  <1>10. f \in D!FrameSet /\ f.cs = 1 /\ D!Answer(f)
    BY <1>5, <1>9 DEF HasFields
  <1> HIDE DEF f, r
  <1>11. /\ object' \in Seq(Nat) /\ toggle' \in {0, 1}
         /\ session' \in {"idle", "upload", "download"}
    <2>1. object' \in {object, got'} /\ session' \in {"idle", "download"}
      BY <1>1, <1>5
    <2>2. toggle' = 1 - toggle
      BY <1>5
    <2>3. QED
      BY <1>6, <1>7, <2>1, <2>2
  <1>12. /\ req' = <<>> /\ rsp' # <<>> /\ Head(rsp') = f
         /\ OneInFlight' /\ CompleteIsExact' /\ TypeOK'
    BY <1>1, <1>5, <1>6, <1>7, <1>10, <1>11, Answered
  <1>13. toggle' = Parity(m_segment_number' + 1)
    BY <1>4, <1>5, <1>6, ParityFacts
  <1>14. m_data_index = Len(value) => object' = value'
    BY <1>4, <1>5, <1>8
  <1>15. Short /\ r.c => object' = value
    BY <1>4, <1>5, <1>8
  <1>16. WriteAnswered(Head(rsp))'
    <2>1. Head(rsp').cs = 1 /\ m_started'
      BY <1>4, <1>5, <1>10, <1>12
    <2>2. Short /\ m_data_index # Len(value) => session' = "download"
      BY <1>1, <1>4, <1>5, <1>7
    <2>3. Short' <=> Short
      BY <1>5 DEF Short
    <2>4. QED
      BY <1>5, <1>8, <1>13, <1>14, <2>1, <2>2, <2>3 DEF WriteAnswered
  <1>17. ReadInv' /\ WriteInv'
    BY <1>1, <1>2, <1>5, <1>12, <1>16 DEF ReadInv, WriteInv, Short
  <1>18. QED
    BY <1>2, <1>5, <1>7, <1>12, <1>15, <1>17 DEF IInv

(* A request that a short value's writer sends is the one waited for.      *)
LEMMA GiveUpKeeps ==
  ASSUME IInv, D!GiveUp, UNCHANGED Elsewhere
  PROVE IInv'
  <1> DEFINE r == Head(req)
  <1>1. TypeOK /\ OneInFlight /\ ReadInv /\ WriteInv /\ req # <<>>
    BY DEF IInv, D!GiveUp
  <1>2. /\ op' = op /\ value' = value /\ m_started' = m_started
        /\ m_segment_number' = m_segment_number /\ m_data_size' = m_data_size
        /\ m_data' = m_data /\ m_data_index' = m_data_index
        /\ object' = object /\ toggle' = toggle /\ left' = left /\ got' = got
        /\ session' = "idle" /\ D!Answer(D!Abort)
        /\ refused' = (refused \/ ~D!Expected(r))
    BY DEF Elsewhere, caller, transfer, D!GiveUp
  <1>3. /\ object \in Seq(Nat) /\ left \in Seq(Nat) /\ got \in Seq(Nat)
        /\ <<>> \in Seq(Nat) /\ refused \in BOOLEAN /\ toggle \in {0, 1}
        /\ op \in {"read", "write"}
    BY <1>1, SdoTyped, EmptySeq
  <1>4. D!Abort \in D!FrameSet /\ D!Abort.cs = 4
    BY <1>3 DEF D!Abort, D!Frame, D!FrameSet, D!Byte
  <1>5. refused' \in BOOLEAN
    BY <1>2
  <1>6. /\ req' = <<>> /\ rsp' # <<>> /\ Head(rsp') = D!Abort
        /\ OneInFlight' /\ CompleteIsExact' /\ TypeOK'
    BY <1>1, <1>2, <1>3, <1>4, <1>5, Answered
  <1>7. Head(rsp').cs = 4
    BY <1>4, <1>6
  <1>8. ReadInv'
    <2>1. ASSUME op = "read", ~D!Expected(r)
          PROVE m_started /\ m_data_size = 0 /\ Unsized
      BY <1>1, <2>1 DEF ReadInv, ReadAsked, D!Expected
    <2>2. ReadAnswered(Head(rsp))'
      BY <1>7 DEF ReadAnswered
    <2> HIDE DEF r
    <2>3. QED
      BY <1>1, <1>2, <1>6, <2>1, <2>2 DEF ReadInv, Unsized
  <1>9. WriteInv'
    <2>1. ASSUME op = "write", Short PROVE D!Expected(r)
      BY <1>1, <2>1 DEF WriteInv, WriteAsked, D!Expected
    <2>2. WriteAnswered(Head(rsp))'
      BY <1>7 DEF WriteAnswered
    <2> HIDE DEF r
    <2>3. Short' <=> Short
      BY <1>2 DEF Short
    <2>4. op = "write" /\ Short => refused' = refused
      BY <1>2, <1>3, <2>1
    <2>5. QED
      BY <1>1, <1>2, <1>6, <2>2, <2>3, <2>4 DEF WriteInv
  <1>10. QED
    BY <1>6, <1>8, <1>9 DEF IInv

-----------------------------------------------------------------------------
(* The steps of the reception thread.  Each takes the response, and sends  *)
(* a request or none.                                                      *)
Taking ==
  /\ rx = "handle"
  /\ ~Overruns(Head(rsp))
  /\ rsp' = Tail(rsp)
  /\ rx' = "idle"
  /\ UNCHANGED <<device, caller, m_timeout>>

LEMMA TakingFacts ==
  ASSUME IInv, Taking
  PROVE /\ rsp # <<>> /\ rsp' = <<>> /\ req = <<>> /\ Head(rsp) \in D!FrameSet
        /\ main # "send" /\ m_transfer_complete = FALSE /\ m_transfer_error = FALSE
        /\ object' = object /\ session' = session /\ toggle' = toggle
        /\ left' = left /\ got' = got /\ refused' = refused
        /\ op' = op /\ value' = value /\ main' = main /\ rx' # "undefined"
  <1>1. TypeOK /\ OneInFlight /\ rsp # <<>>
    BY DEF IInv, TypeOK, Taking
  <1>2. rsp' = <<>> /\ req = <<>> /\ Head(rsp) \in D!FrameSet
    BY <1>1, Underway DEF Taking
  <1>3. main # "send" /\ ~m_transfer_complete /\ ~m_transfer_error
    BY <1>1 DEF OneInFlight
  <1>4. m_transfer_complete \in BOOLEAN /\ m_transfer_error \in BOOLEAN
    BY <1>1, SdoTyped
  <1>5. QED
    BY <1>1, <1>2, <1>3, <1>4 DEF Taking, device, caller

LEMMA Handled ==
  ASSUME IInv, Taking, NEW frame \in D!FrameSet,
         \/ req' = req
         \/ /\ req' = Append(req, frame) /\ m_started'
            /\ ~m_transfer_complete' /\ ~m_transfer_error',
         m_data' \in Seq(Nat), m_data_index' \in Nat, m_data_size' \in Nat,
         m_segment_number' \in Nat, m_data_index' <= Len(m_data'),
         op = "read" => m_data_index' <= BufferSize,
         m_started' \in BOOLEAN, m_transfer_complete' \in BOOLEAN,
         m_transfer_error' \in BOOLEAN,
         ~m_started' => m_segment_number' = 0 /\ m_data_index' = 0
  PROVE /\ TypeOK' /\ OneInFlight'
        /\ req' # <<>> => Head(req') = frame /\ m_started'
  <1>1. TypeOK /\ OneInFlight
    BY DEF IInv
  <1>2. /\ rsp' = <<>> /\ req = <<>> /\ main' # "send"
        /\ object' = object /\ session' = session /\ toggle' = toggle
        /\ left' = left /\ got' = got /\ refused' = refused
        /\ op' = op /\ value' = value /\ main' = main
    BY TakingFacts
  <1>3. /\ <<>> \in Seq(D!FrameSet) /\ Len(<<>>) = 0
        /\ Append(<<>>, frame) \in Seq(D!FrameSet)
        /\ Len(Append(<<>>, frame)) = 1 /\ Head(Append(<<>>, frame)) = frame
    BY OneElement
  <1>4. /\ req' \in Seq(D!FrameSet) /\ Len(req') + Len(rsp') <= 1
        /\ rsp' \in Seq(D!FrameSet)
        /\ req' # <<>> => Head(req') = frame /\ m_started'
        /\ req' # <<>> => ~m_transfer_complete' /\ ~m_transfer_error'
    <2>1. CASE req' = <<>>
      BY <1>2, <1>3, <2>1
    <2>2. CASE /\ req' = Append(<<>>, frame) /\ m_started'
               /\ ~m_transfer_complete' /\ ~m_transfer_error'
      BY <1>2, <1>3, <2>2
    <2>3. QED
      BY <1>2, <2>1, <2>2
  <1>5. D!TypeOK'
    BY <1>1, <1>2, <1>4 DEF TypeOK, D!TypeOK
  <1>6. ticks' = ticks /\ ret' = ret /\ m_timeout' = m_timeout /\ rx' = "idle"
    BY DEF Taking, caller
  <1>7. TypeOK'
    BY <1>1, <1>2, <1>5, <1>6 DEF TypeOK
  <1>8. OneInFlight'
    BY <1>2, <1>4 DEF OneInFlight
  <1>9. QED
    BY <1>4, <1>7, <1>8

LEMMA AskOutcomes ==
  ASSUME IInv, Taking, NEW frame, Ask(frame), m_transfer_complete' \in BOOLEAN
  PROVE /\ m_started' \in BOOLEAN /\ m_transfer_error' \in BOOLEAN
        /\ \/ req' = req
           \/ /\ req' = Append(req, frame) /\ m_started'
              /\ ~m_transfer_complete' /\ ~m_transfer_error'
        /\ m_transfer_complete' => m_started' = m_started /\ req' = req
        /\ ~m_transfer_complete' => m_started'
  <1>1. m_transfer_error = FALSE /\ m_started \in BOOLEAN
    BY TakingFacts, SdoTyped DEF IInv
  <1>2. CASE m_transfer_complete'
    BY <1>1, <1>2 DEF Ask
  <1>3. CASE ~m_transfer_complete'
    BY <1>1, <1>3 DEF Ask
  <1>4. QED
    BY <1>2, <1>3

LEMMA FailKeeps ==
  ASSUME IInv, Taking, Fail
  PROVE IInv'
  <1>1. TypeOK /\ OneInFlight /\ ReadInv /\ WriteInv
    BY DEF IInv
  <1>2. /\ rsp' = <<>> /\ req = <<>> /\ m_transfer_complete = FALSE
        /\ object' = object /\ session' = session
        /\ refused' = refused /\ op' = op /\ value' = value
        /\ rx' # "undefined"
    BY TakingFacts
  <1>3. /\ req' = req /\ m_started' = m_started
        /\ m_segment_number' = m_segment_number /\ m_data_size' = m_data_size
        /\ m_data' = m_data /\ m_data_index' = m_data_index
        /\ m_transfer_complete' = m_transfer_complete /\ m_transfer_error' = TRUE
    BY DEF Fail
  <1>4. /\ m_data \in Seq(Nat) /\ m_data_index \in Nat /\ m_data_size \in Nat
        /\ m_segment_number \in Nat /\ m_data_index <= Len(m_data)
        /\ m_started \in BOOLEAN /\ (op = "read" => m_data_index <= BufferSize)
        /\ ~m_started => m_segment_number = 0 /\ m_data_index = 0
    BY <1>1, SdoTyped DEF OneInFlight
  <1>5. PICK frame \in D!FrameSet : TRUE
    BY TakingFacts
  <1>6. TypeOK' /\ OneInFlight'
    BY <1>2, <1>3, <1>4, Handled
  <1>7. ReadInv' /\ WriteInv' /\ CompleteIsExact'
    BY <1>1, <1>2, <1>3 DEF ReadInv, WriteInv, Unsized, Short, CompleteIsExact
  <1>8. QED
    BY <1>6, <1>7 DEF IInv

LEMMA SegmentRequestIs ==
  ASSUME NEW n \in Nat
  PROVE /\ SegmentRequest(n) \in D!FrameSet
        /\ SegmentRequest(n).cs = 3 /\ SegmentRequest(n).t = Parity(n)
  <1>1. Parity(n) \in {0, 1} /\ 3 \in 0..4
    BY ParityFacts
  <1>2. HasFields(SegmentRequest(n), 3, FALSE, FALSE, Parity(n), FALSE, 0, <<>>)
    BY <1>1, ToggleFrame DEF SegmentRequest
  <1>3. QED
    BY <1>2 DEF HasFields

(* Data that come with their size are the object; otherwise the session of *)
(* the device says which request it waits for.                             *)
LEMMA ReadInitiatedKeeps ==
  ASSUME IInv, Taking, op = "read", ~m_started, ReadInitiated(Head(rsp))
  PROVE IInv'
  <1> DEFINE f == Head(rsp)
  <1> DEFINE frame == SegmentRequest(m_segment_number)
  <1>1. CASE Fail
    BY <1>1, FailKeeps
  <1>2. CASE ~Fail
    <2>1. /\ f.cs = 2 /\ (f.e \/ f.s)
          /\ m_data_size' = IF f.e /\ f.s THEN Len(f.data) ELSE f.size
          /\ m_data' = IF f.e /\ f.s THEN f.data ELSE m_data
          /\ m_transfer_complete' = (m_transfer_complete \/ (f.e /\ f.s))
          /\ Ask(frame)
          /\ m_segment_number' = m_segment_number /\ m_data_index' = m_data_index
      BY <1>2 DEF ReadInitiated
    <2> HIDE DEF frame
    <2>2. TypeOK /\ OneInFlight /\ ReadInv
      BY DEF IInv
    <2>3. /\ rsp # <<>> /\ rsp' = <<>> /\ f \in D!FrameSet
          /\ m_transfer_complete = FALSE
          /\ object' = object /\ session' = session /\ toggle' = toggle
          /\ left' = left /\ refused' = refused /\ op' = op /\ value' = value
      BY TakingFacts
    <2>4. /\ object = value /\ session # "download" /\ ~refused
          /\ m_segment_number = 0 /\ m_data_index = 0 /\ ReadAnswered(f)
      BY <2>2, <2>3 DEF ReadInv, OneInFlight
    <2> HIDE DEF f
    <2>5. /\ value \in Seq(Nat) /\ m_data \in Seq(Nat) /\ left \in Seq(Nat)
          /\ Len(value) \in Nat /\ Len(m_data) \in Nat
          /\ f.e \in BOOLEAN /\ f.s \in BOOLEAN /\ f.size \in Nat
      BY <2>2, <2>3, SdoTyped, FieldsTyped
    <2>6. \/ /\ f.e /\ f.s /\ Unsized /\ f.data = value
          \/ /\ f.e /\ ~f.s /\ Unsized /\ session = "idle" /\ f.size = 0
          \/ /\ ~f.e /\ f.s /\ f.size = Len(value)
             /\ session = "upload" /\ toggle = 0 /\ left = value
      <3>1. f.cs # 4 /\ f.cs # 0
        BY <2>1
      <3>2. QED
        BY <2>4, <3>1, Zenon DEF ReadAnswered
    <2>7. /\ m_data' \in Seq(Nat) /\ Len(m_data') \in Nat
          /\ m_data_size' \in {0, Len(value)} /\ m_data_size' \in Nat
          /\ m_transfer_complete' = (f.e /\ f.s)
      BY <2>1, <2>3, <2>5, <2>6
    <2>8. /\ frame \in D!FrameSet /\ frame.cs = 3
          /\ frame.t = Parity(m_segment_number)
      BY <2>4, SegmentRequestIs DEF frame
    <2>9. /\ m_started' \in BOOLEAN /\ m_transfer_error' \in BOOLEAN
          /\ \/ req' = req
             \/ /\ req' = Append(req, frame) /\ m_started'
                /\ ~m_transfer_complete' /\ ~m_transfer_error'
          /\ m_transfer_complete' => req' = req
      BY <2>1, <2>7, AskOutcomes
    <2>10. /\ m_data_index' \in Nat /\ m_segment_number' \in Nat
           /\ m_data_index' = 0 /\ m_segment_number' = 0
           /\ m_data_index' <= Len(m_data') /\ m_transfer_complete' \in BOOLEAN
           /\ m_data_index' <= BufferSize
      BY <2>1, <2>2, <2>4, <2>7, SdoTyped
    <2>11. /\ TypeOK' /\ OneInFlight'
           /\ req' # <<>> => Head(req') = frame /\ m_started'
      BY <2>7, <2>8, <2>9, <2>10, Handled
    <2>12. SubSeq(value, 1, Len(value)) = value /\ SubSeq(m_data, 1, 0) = <<>>
           /\ <<>> \o value = value
      BY <2>5, SubSeqFull, SubSeqEmpty, ConcatEmptySeq
    <2>13. ASSUME req' # <<>> PROVE ReadAsked(Head(req))'
      <3>1. Head(req') = frame /\ m_started' /\ ~m_transfer_complete'
        BY <2>3, <2>9, <2>11, <2>13, TakingFacts
      <3>2. CASE f.e /\ ~f.s /\ Unsized /\ session = "idle" /\ f.size = 0
        BY <2>1, <2>3, <2>8, <3>1, <3>2 DEF ReadAsked, Unsized
      <3>3. CASE /\ ~f.e /\ f.s /\ f.size = Len(value)
                 /\ session = "upload" /\ toggle = 0 /\ left = value
        <4>1. Taken' = <<>>
          BY <2>1, <2>4, <2>12, <3>3 DEF Taken
        <4>2. m_data_size' = Len(value') /\ value' = Taken' \o left'
          BY <2>1, <2>3, <2>12, <3>3, <4>1
        <4>3. toggle' = Parity(m_segment_number')
          BY <2>3, <2>10, <3>3, ParityFacts
        <4>4. QED
          BY <2>1, <2>3, <2>8, <3>1, <3>3, <4>2, <4>3 DEF ReadAsked
      <3>4. QED
        BY <2>6, <2>7, <3>1, <3>2, <3>3
    <2>14. ReadInv'
      BY <2>3, <2>4, <2>7, <2>10, <2>13 DEF ReadInv
    <2>15. WriteInv'
      BY <2>3 DEF WriteInv
    <2>16. CompleteIsExact'
      <3>1. ASSUME m_transfer_complete'
            PROVE value' = SubSeq(m_data', 1, IF m_data_size' = 0 THEN m_data_index'
                                                                  ELSE m_data_size')
        <4>1. f.e /\ f.s /\ Unsized /\ f.data = value
          BY <2>6, <2>7, <3>1
        <4>2. m_data' = value /\ m_data_size' = Len(value)
          BY <2>1, <4>1
        <4>3. Len(value) # 0
          BY <2>4, <2>5, <4>1 DEF Unsized
        <4>4. QED
          BY <2>3, <2>12, <4>2, <4>3
      <3>2. QED
        BY <2>3, <3>1, TakingFacts DEF CompleteIsExact
    <2>17. QED
      BY <2>11, <2>14, <2>15, <2>16 DEF IInv
  <1>3. QED
    BY <1>1, <1>2

LEMMA ReadSegmentKeeps ==
  ASSUME IInv, Taking, op = "read", m_started, ReadSegment(Head(rsp))
  PROVE IInv'
  <1> DEFINE f == Head(rsp)
  <1> DEFINE n == m_segment_number + 1
  <1> DEFINE frame == SegmentRequest(n)
  <1>1. CASE Fail
    BY <1>1, FailKeeps
  <1>2. CASE ~Fail
    <2>1. /\ f.cs = 0
          /\ m_data' = Taken \o f.data
          /\ m_data_index' = m_data_index + Len(f.data)
          /\ m_transfer_complete' = f.c
          /\ m_segment_number' = n
          /\ m_data_size' = m_data_size
      BY <1>2 DEF ReadSegment, Taken
    <2>22. ~(m_data_index + Len(f.data) > BufferSize)
      <3>1. f.t = Parity(m_segment_number)
        BY <1>2 DEF ReadSegment
      <3>2. QED
        BY <2>1, <3>1 DEF Taking, Overruns
    <2>2. Ask(frame)
      <3>1. Ask(SegmentRequest(m_segment_number'))
        BY <1>2 DEF ReadSegment
      <3>2. QED
        BY <2>1, <3>1 DEF Ask, SegmentRequest
    <2> HIDE DEF frame
    <2>3. TypeOK /\ OneInFlight /\ ReadInv
      BY DEF IInv
    <2>4. /\ rsp # <<>> /\ rsp' = <<>> /\ f \in D!FrameSet
          /\ object' = object /\ session' = session /\ toggle' = toggle
          /\ left' = left /\ refused' = refused /\ op' = op /\ value' = value
      BY TakingFacts
    <2>5. /\ object = value /\ session # "download"
          /\ m_data_size \in {0, Len(value)}
          /\ m_data_size = 0 => m_data_index = 0
          /\ refused => m_data_size = 0 /\ Unsized
          /\ ReadAnswered(f)
      BY <2>3, <2>4 DEF ReadInv
    <2> HIDE DEF f
    <2>6. /\ value \in Seq(Nat) /\ left \in Seq(Nat) /\ Len(value) \in Nat
          /\ m_data_index \in Nat /\ m_data_size \in Nat /\ m_segment_number \in Nat
          /\ f.c \in BOOLEAN /\ f.data \in Seq(Nat) /\ Len(f.data) \in Nat
      BY <2>3, <2>4, SdoTyped, FieldsTyped, LenProperties
    <2>7. /\ m_data_size = Len(value)
          /\ value = (Taken \o f.data) \o left
          /\ IF f.c THEN left = <<>>
                    ELSE session = "upload" /\ toggle = Parity(m_segment_number + 1)
      <3>1. f.cs # 4 /\ f.cs # 2
        BY <2>1
      <3>2. QED
        BY <2>5, <3>1, Zenon DEF ReadAnswered
    <2>8. /\ m_data' \in Seq(Nat) /\ Len(m_data') = m_data_index'
          /\ Taken' = m_data' /\ m_data_index' \in Nat
      <3>1. Taken \in Seq(Nat) /\ Len(Taken) = m_data_index
        BY <2>3, TakenTyped
      <3>2. /\ Taken \o f.data \in Seq(Nat)
            /\ Len(Taken \o f.data) = Len(Taken) + Len(f.data)
        BY <2>6, <3>1, ConcatProperties
      <3>3. /\ m_data' \in Seq(Nat) /\ Len(m_data') = m_data_index'
            /\ m_data_index' \in Nat
        BY <2>1, <2>6, <3>1, <3>2
      <3>4. Taken' = m_data'
        BY <3>3, SubSeqFull DEF Taken
      <3>5. QED
        BY <3>3, <3>4
    <2>9. n \in Nat /\ n # 0
      BY <2>6
    <2> HIDE DEF n
    <2>10. frame \in D!FrameSet /\ frame.cs = 3 /\ frame.t = Parity(n)
      BY <2>9, SegmentRequestIs DEF frame
    <2>11. /\ m_started' \in BOOLEAN /\ m_transfer_error' \in BOOLEAN
           /\ \/ req' = req
              \/ /\ req' = Append(req, frame) /\ m_started'
                 /\ ~m_transfer_complete' /\ ~m_transfer_error'
           /\ m_started'
           /\ m_transfer_complete' => req' = req
      BY <2>1, <2>2, <2>6, AskOutcomes
    <2>12. /\ m_data_size' \in Nat /\ m_segment_number' \in Nat
           /\ m_transfer_complete' \in BOOLEAN /\ m_data_index' <= Len(m_data')
      BY <2>1, <2>6, <2>8, <2>9
    <2>21. m_data_index' <= BufferSize
      <3>1. ~(m_data_index + Len(f.data) > BufferSize)
        BY <2>22
      <3>2. QED
        BY <2>1, <2>6, <3>1, SdoTyped, <2>3
    <2>13. /\ TypeOK' /\ OneInFlight'
           /\ req' # <<>> => Head(req') = frame /\ m_started'
      BY <2>8, <2>10, <2>11, <2>12, <2>21, Handled
    <2>14. value = Taken' \o left
      BY <2>1, <2>7, <2>8
    <2>15. m_data_size' = 0 => m_data_index' = 0
      <3>1. Len(m_data' \o left) = Len(m_data') + Len(left) /\ Len(left) \in Nat
        BY <2>6, <2>8, ConcatProperties, LenProperties
      <3>2. QED
        BY <2>1, <2>7, <2>8, <2>14, <3>1
    <2>16. ASSUME req' # <<>> PROVE ReadAsked(Head(req))'
      <3>1. ~f.c
        BY <2>1, <2>4, <2>11, <2>16, TakingFacts
      <3>2. session = "upload" /\ toggle = Parity(n)
        BY <2>7, <3>1 DEF n
      <3>3. QED
        BY <2>1, <2>4, <2>7, <2>10, <2>13, <2>14, <2>16, <3>2 DEF ReadAsked
    <2>17. ReadInv'
      BY <2>1, <2>4, <2>5, <2>11, <2>15, <2>16 DEF ReadInv, Unsized
    <2>18. WriteInv'
      BY <2>4 DEF WriteInv
    <2>19. CompleteIsExact'
      <3>1. ASSUME m_transfer_complete'
            PROVE value' = SubSeq(m_data', 1, IF m_data_size' = 0 THEN m_data_index'
                                                                  ELSE m_data_size')
        <4>1. left = <<>>
          BY <2>1, <2>7, <3>1
        <4>2. value' = m_data'
          BY <2>4, <2>8, <2>14, <4>1, ConcatEmptySeq
        <4>3. m_data_size' = Len(m_data') /\ m_data_index' = Len(m_data')
          BY <2>1, <2>4, <2>7, <2>8, <4>2
        <4>4. SubSeq(m_data', 1, Len(m_data')) = m_data'
          BY <2>8, SubSeqFull
        <4>5. QED
          BY <4>2, <4>3, <4>4
      <3>2. QED
        BY <2>4, <3>1, TakingFacts DEF CompleteIsExact
    <2>20. QED
      BY <2>13, <2>17, <2>18, <2>19 DEF IInv
  <1>3. QED
    BY <1>1, <1>2

(* The next segment: what comes after the bytes that count as sent, and    *)
(* the last one if nothing is left.  The size is counted in 16 bits, so    *)
(* that "nothing is left" is only told truly of a short value.             *)
LEMMA NextSegment ==
  ASSUME IInv, Taking, op = "write", NEW n \in Nat, WriteNext(n),
         m_transfer_complete' \in BOOLEAN
  PROVE \E frame \in D!FrameSet :
          /\ frame.cs = 0 /\ frame.t = Parity(n)
          /\ m_started' \in BOOLEAN /\ m_transfer_error' \in BOOLEAN
          /\ \/ req' = req
             \/ /\ req' = Append(req, frame) /\ m_started'
                /\ ~m_transfer_complete' /\ ~m_transfer_error'
          /\ m_transfer_complete' =>
               m_started' = m_started /\ req' = req /\ m_data_index' = m_data_index
          /\ ~m_transfer_complete' =>
               /\ m_started' /\ m_data_index' \in Nat /\ m_data_index' <= Len(value)
               /\ SubSeq(value, 1, m_data_index) \o frame.data
                    = SubSeq(value, 1, m_data_index')
               /\ m_data_index' = Len(value) => frame.c
               /\ Short /\ frame.c => m_data_index' = Len(value)
  <1> DEFINE rest == (m_data_size - m_data_index) % 65536
  <1> DEFINE size == IF rest > SegmentSize THEN SegmentSize ELSE rest
  <1> DEFINE last == rest <= SegmentSize
  <1> DEFINE data == SubSeq(m_data, m_data_index + 1, m_data_index + size)
  <1> DEFINE frame == Segment(n, size, last)
  <1>1. /\ Ask(frame)
        /\ m_data_index' = IF m_transfer_error \/ m_transfer_complete'
                             THEN m_data_index ELSE m_data_index + size
    BY DEF WriteNext
  <1>2. TypeOK /\ WriteInv
    BY DEF IInv
  <1>3. /\ m_data = value /\ m_data_size = Len(value) /\ m_data_index <= Len(value)
        /\ value \in Seq(Nat) /\ Len(value) \in Nat /\ m_data_index \in Nat
        /\ SegmentSize \in Nat /\ m_transfer_error = FALSE
    BY <1>2, SdoTyped, TakingFacts DEF WriteInv
  <1>4. /\ rest \in Nat /\ rest <= Len(value) - m_data_index
        /\ Short => rest = Len(value) - m_data_index
    <2>1. m_data_size - m_data_index \in Nat
      BY <1>3
    <2>2. \A k \in Nat : k % 65536 \in Nat /\ k % 65536 <= k
                         /\ (k < 65536 => k % 65536 = k)
      OBVIOUS
    <2>3. Short => m_data_size - m_data_index < 65536
      BY <1>3 DEF Short
    <2>4. QED
      BY <1>3, <2>1, <2>2, <2>3
  <1> HIDE DEF rest
  <1>5. /\ size \in Nat /\ m_data_index + size <= Len(value)
        /\ m_data_index + size = Len(value) => last
        /\ Short /\ last => m_data_index + size = Len(value)
    BY <1>3, <1>4
  <1> HIDE DEF size
  <1>6. /\ data \in Seq(Nat)
        /\ SubSeq(value, 1, m_data_index) \o data
             = SubSeq(value, 1, m_data_index + size)
    BY <1>3, <1>5, TakeMore
  <1>7. Parity(n) \in {0, 1} /\ last \in BOOLEAN
    BY ParityFacts
  <1>8. HasFields([D!Frame(0) EXCEPT !.t = Parity(n), !.c = last, !.data = data],
                  0, FALSE, FALSE, Parity(n), last, 0, data)
    <2> HIDE DEF data, last
    <2>1. QED
      BY <1>6, <1>7, SegmentFrame
  <1>9. /\ frame \in D!FrameSet /\ frame.cs = 0 /\ frame.t = Parity(n)
        /\ frame.c = last /\ frame.data = data
    BY <1>8 DEF HasFields, Segment
  <1> HIDE DEF frame, last, data
  <1>10. /\ m_started' \in BOOLEAN /\ m_transfer_error' \in BOOLEAN
         /\ \/ req' = req
            \/ /\ req' = Append(req, frame) /\ m_started'
               /\ ~m_transfer_complete' /\ ~m_transfer_error'
         /\ m_transfer_complete' => m_started' = m_started /\ req' = req
         /\ ~m_transfer_complete' => m_started'
    BY <1>1, AskOutcomes
  <1>11. m_transfer_complete' => m_data_index' = m_data_index
    BY <1>1
  <1>12. ~m_transfer_complete' => m_data_index' = m_data_index + size
    BY <1>1, <1>3
  <1>13. ASSUME ~m_transfer_complete'
         PROVE /\ m_started' /\ m_data_index' \in Nat /\ m_data_index' <= Len(value)
               /\ SubSeq(value, 1, m_data_index) \o frame.data
                    = SubSeq(value, 1, m_data_index')
               /\ m_data_index' = Len(value) => frame.c
               /\ Short /\ frame.c => m_data_index' = Len(value)
    BY <1>3, <1>5, <1>6, <1>9, <1>10, <1>12, <1>13
  <1>14. QED
    BY <1>9, <1>10, <1>11, <1>13

LEMMA WriteInitiatedKeeps ==
  ASSUME IInv, Taking, op = "write", ~m_started, WriteInitiated(Head(rsp))
  PROVE IInv'
  <1> DEFINE f == Head(rsp)
  <1>1. CASE Fail
    BY <1>1, FailKeeps
  <1>2. CASE ~Fail
    <2>1. /\ f.cs = 3 /\ WriteNext(m_segment_number)
          /\ m_segment_number' = m_segment_number /\ m_data_size' = m_data_size
          /\ m_data' = m_data /\ m_transfer_complete' = m_transfer_complete
      BY <1>2 DEF WriteInitiated
    <2>2. TypeOK /\ OneInFlight /\ WriteInv
      BY DEF IInv
    <2>3. /\ rsp # <<>> /\ rsp' = <<>> /\ req = <<>> /\ m_transfer_complete = FALSE
          /\ object' = object /\ session' = session /\ toggle' = toggle
          /\ got' = got /\ refused' = refused /\ op' = op /\ value' = value
      BY TakingFacts
    <2>4. /\ value \in Values /\ m_data = value /\ m_data_size = Len(value)
          /\ Short => ~refused
          /\ m_segment_number = 0 /\ m_data_index = 0 /\ WriteAnswered(f)
      BY <2>2, <2>3 DEF WriteInv, OneInFlight
    <2>5. session = "download" /\ toggle = 0 /\ got = <<>>
      <3>1. f.cs # 4 /\ f.cs # 1
        BY <2>1
      <3>2. QED
        BY <2>4, <3>1, Zenon DEF WriteAnswered
    <2> HIDE DEF f
    <2>6. /\ value \in Seq(Nat) /\ Len(value) \in Nat /\ m_segment_number \in Nat
          /\ m_transfer_complete' \in BOOLEAN /\ ~m_transfer_complete'
      BY <2>1, <2>2, <2>3, SdoTyped
    <2>7. PICK frame \in D!FrameSet :
          /\ frame.cs = 0 /\ frame.t = Parity(m_segment_number)
          /\ m_started' \in BOOLEAN /\ m_transfer_error' \in BOOLEAN
          /\ \/ req' = req
             \/ /\ req' = Append(req, frame) /\ m_started'
                /\ ~m_transfer_complete' /\ ~m_transfer_error'
          /\ m_started' /\ m_data_index' \in Nat /\ m_data_index' <= Len(value)
          /\ SubSeq(value, 1, m_data_index) \o frame.data
               = SubSeq(value, 1, m_data_index')
          /\ m_data_index' = Len(value) => frame.c
          /\ Short /\ frame.c => m_data_index' = Len(value)
      BY <2>1, <2>6, NextSegment
    <2>8. /\ TypeOK' /\ OneInFlight'
          /\ req' # <<>> => Head(req') = frame /\ m_started'
      <3>1. /\ m_data' \in Seq(Nat) /\ m_data_index' \in Nat /\ m_data_size' \in Nat
            /\ m_segment_number' \in Nat /\ m_data_index' <= Len(m_data')
        BY <2>1, <2>4, <2>6, <2>7
      <3>2. QED
        BY <2>6, <2>7, <3>1, Handled
    <2>9. got = SubSeq(value, 1, m_data_index) /\ toggle = Parity(m_segment_number)
      BY <2>4, <2>5, <2>6, SubSeqEmpty, ParityFacts
    <2>10. ASSUME req' # <<>> PROVE WriteAsked(Head(req))'
      <3>1. Head(req') = frame /\ m_started'
        BY <2>8, <2>10
      <3>2. /\ frame.t = toggle' /\ toggle' = Parity(m_segment_number')
            /\ got' \o frame.data = SubSeq(value', 1, m_data_index')
        BY <2>1, <2>3, <2>7, <2>9
      <3>3. Short' <=> Short
        BY <2>3 DEF Short
      <3>4. QED
        BY <2>3, <2>5, <2>7, <3>1, <3>2, <3>3 DEF WriteAsked
    <2>11. WriteInv'
      <3>1. Short' <=> Short
        BY <2>3 DEF Short
      <3>2. QED
        BY <2>1, <2>3, <2>4, <2>7, <2>10, <3>1 DEF WriteInv
    <2>12. ReadInv' /\ CompleteIsExact'
      BY <2>3, <2>6, TakingFacts DEF ReadInv, CompleteIsExact
    <2>13. QED
      BY <2>8, <2>11, <2>12 DEF IInv
  <1>3. QED
    BY <1>1, <1>2

LEMMA WriteSegmentKeeps ==
  ASSUME IInv, Taking, op = "write", m_started, WriteSegment(Head(rsp))
  PROVE IInv'
  <1> DEFINE f == Head(rsp)
  <1> DEFINE n == m_segment_number + 1
  <1>1. CASE Fail
    BY <1>1, FailKeeps
  <1>2. CASE ~Fail
    <2>1. /\ f.cs = 1 /\ WriteNext(m_segment_number')
          /\ m_transfer_complete' = (m_data_index = m_data_size)
          /\ m_segment_number' = n /\ m_data_size' = m_data_size
          /\ m_data' = m_data
      BY <1>2 DEF WriteSegment
    <2>2. TypeOK /\ OneInFlight /\ WriteInv
      BY DEF IInv
    <2>3. /\ rsp # <<>> /\ rsp' = <<>> /\ req = <<>>
          /\ object' = object /\ session' = session /\ toggle' = toggle
          /\ got' = got /\ refused' = refused /\ op' = op /\ value' = value
      BY TakingFacts
    <2>4. /\ value \in Values /\ m_data = value /\ m_data_size = Len(value)
          /\ m_data_index <= Len(value)
          /\ Short => ~refused
          /\ WriteAnswered(f)
      BY <2>2, <2>3 DEF WriteInv
    <2>5. /\ m_data_index = Len(value) => object = value
          /\ session = "download" => /\ toggle = Parity(m_segment_number + 1)
                                     /\ got = SubSeq(value, 1, m_data_index)
          /\ Short /\ m_data_index # Len(value) => session = "download"
      <3>1. f.cs # 4 /\ f.cs # 3
        BY <2>1
      <3>2. QED
        BY <2>4, <3>1, Zenon DEF WriteAnswered
    <2> HIDE DEF f
    <2>6. /\ value \in Seq(Nat) /\ Len(value) \in Nat /\ m_data_index \in Nat
          /\ m_segment_number \in Nat
          /\ m_transfer_complete' \in BOOLEAN /\ n \in Nat
      BY <2>1, <2>2, SdoTyped
    <2>7. WriteNext(n)
      BY <2>1 DEF WriteNext, Segment
    <2> HIDE DEF n
    <2>8. PICK frame \in D!FrameSet :
          /\ frame.cs = 0 /\ frame.t = Parity(n)
          /\ m_started' \in BOOLEAN /\ m_transfer_error' \in BOOLEAN
          /\ \/ req' = req
             \/ /\ req' = Append(req, frame) /\ m_started'
                /\ ~m_transfer_complete' /\ ~m_transfer_error'
          /\ m_transfer_complete' =>
               m_started' = m_started /\ req' = req /\ m_data_index' = m_data_index
          /\ ~m_transfer_complete' =>
               /\ m_started' /\ m_data_index' \in Nat /\ m_data_index' <= Len(value)
               /\ SubSeq(value, 1, m_data_index) \o frame.data
                    = SubSeq(value, 1, m_data_index')
               /\ m_data_index' = Len(value) => frame.c
               /\ Short /\ frame.c => m_data_index' = Len(value)
      BY <2>6, <2>7, NextSegment
    <2>9. m_started' /\ m_data_index' \in Nat /\ m_data_index' <= Len(value)
      BY <2>4, <2>6, <2>8
    <2>10. /\ TypeOK' /\ OneInFlight'
           /\ req' # <<>> => Head(req') = frame /\ m_started'
      <3>1. /\ m_data' \in Seq(Nat) /\ m_data_index' \in Nat /\ m_data_size' \in Nat
            /\ m_segment_number' \in Nat /\ m_data_index' <= Len(m_data')
        BY <2>1, <2>4, <2>6, <2>9
      <3>2. QED
        BY <2>6, <2>8, <2>9, <3>1, Handled
    <2>11. Short' <=> Short
      BY <2>3 DEF Short
    <2>12. ASSUME req' # <<>> PROVE WriteAsked(Head(req))'
      <3>1. Head(req') = frame /\ m_started' /\ ~m_transfer_complete'
        BY <2>3, <2>8, <2>10, <2>12
      <3>2. m_data_index # Len(value)
        BY <2>1, <2>4, <3>1
      <3>3. ASSUME session' = "download"
            PROVE /\ frame.t = toggle' /\ toggle' = Parity(m_segment_number')
                  /\ got' \o frame.data = SubSeq(value', 1, m_data_index')
        <4>1. toggle = Parity(n) /\ got = SubSeq(value, 1, m_data_index)
          BY <2>3, <2>5, <3>3 DEF n
        <4>2. QED
          BY <2>1, <2>3, <2>8, <3>1, <4>1
      <3>4. Short => session' = "download"
        BY <2>3, <2>5, <3>2
      <3>5. /\ m_data_index' = Len(value') => frame.c
            /\ Short /\ frame.c => m_data_index' = Len(value')
        BY <2>3, <2>8, <3>1
      <3>6. QED
        BY <2>8, <2>11, <3>1, <3>3, <3>4, <3>5 DEF WriteAsked
    <2>13. WriteInv'
      BY <2>1, <2>3, <2>4, <2>9, <2>11, <2>12 DEF WriteInv
    <2>14. CompleteIsExact'
      <3>1. m_transfer_complete' => object = value
        BY <2>1, <2>4, <2>5
      <3>2. op' # "read"
        BY <2>3
      <3>3. QED
        BY <2>3, <3>1, <3>2, TakingFacts DEF CompleteIsExact
    <2>15. ReadInv'
      BY <2>3 DEF ReadInv
    <2>16. QED
      BY <2>10, <2>13, <2>14, <2>15 DEF IInv
  <1>3. QED
    BY <1>1, <1>2

-----------------------------------------------------------------------------
LEMMA RxHandleKeeps ==
  ASSUME IInv, RxHandle
  PROVE IInv'
  <1>1. Taking
    BY DEF RxHandle, Taking
  <1>2. \/ op = "read" /\ ~m_started /\ ReadInitiated(Head(rsp))
        \/ op = "read" /\ m_started /\ ReadSegment(Head(rsp))
        \/ op = "write" /\ ~m_started /\ WriteInitiated(Head(rsp))
        \/ op = "write" /\ m_started /\ WriteSegment(Head(rsp))
    BY DEF RxHandle
  <1>3. CASE op = "read" /\ ~m_started /\ ReadInitiated(Head(rsp))
    BY <1>1, <1>3, ReadInitiatedKeeps
  <1>4. CASE op = "read" /\ m_started /\ ReadSegment(Head(rsp))
    BY <1>1, <1>4, ReadSegmentKeeps
  <1>5. CASE op = "write" /\ ~m_started /\ WriteInitiated(Head(rsp))
    BY <1>1, <1>5, WriteInitiatedKeeps
  <1>6. CASE op = "write" /\ m_started /\ WriteSegment(Head(rsp))
    BY <1>1, <1>6, WriteSegmentKeeps
  <1>7. QED
    BY <1>2, <1>3, <1>4, <1>5, <1>6

(* A segment past the end of the buffer: the bytes taken and those of the  *)
(* segment are the beginning of the value, which therefore does not fit.   *)
LEMMA RxOverrunKeeps ==
  ASSUME IInv, RxOverrun
  PROVE IInv'
  <1> DEFINE f == Head(rsp)
  <1>1. TypeOK /\ OneInFlight /\ ReadInv /\ WriteInv /\ CompleteIsExact
    BY DEF IInv
  <1>2. /\ UNCHANGED <<device, link, op, value, transfer>>
        /\ UNCHANGED <<main, ticks, ret, m_timeout>>
        /\ rx = "handle" /\ rx' = "undefined"
    BY DEF RxOverrun, caller
  <1>3. /\ op = "read" /\ f.cs = 0 /\ m_data_index + Len(f.data) > BufferSize
        /\ rsp # <<>>
    BY <1>1 DEF RxOverrun, Overruns, TypeOK
  <1>4. f \in D!FrameSet
    BY <1>1, <1>3, Underway
  <1>5. value = (Taken \o f.data) \o left
    <2>1. ReadAnswered(f) /\ f.cs # 4 /\ f.cs # 2
      BY <1>1, <1>3 DEF ReadInv
    <2>2. QED
      BY <2>1, Zenon DEF ReadAnswered
  <1> HIDE DEF f
  <1>6. Len(value) > BufferSize
    <2>1. /\ left \in Seq(Nat) /\ f.data \in Seq(Nat) /\ Taken \in Seq(Nat)
          /\ Len(Taken) = m_data_index /\ m_data_index \in Nat
          /\ BufferSize \in Nat
      BY <1>1, <1>4, SdoTyped, FieldsTyped, TakenTyped
    <2>2. /\ Taken \o f.data \in Seq(Nat)
          /\ Len(Taken \o f.data) = Len(Taken) + Len(f.data)
      BY <2>1, ConcatProperties
    <2>3. Len((Taken \o f.data) \o left) = Len(Taken \o f.data) + Len(left)
      BY <2>1, <2>2, ConcatProperties
    <2>4. Len(f.data) \in Nat /\ Len(left) \in Nat
      BY <2>1, LenProperties
    <2>5. QED
      BY <1>3, <1>5, <2>1, <2>2, <2>3, <2>4
  <1>7. TypeOK'
    BY <1>1, <1>2 DEF TypeOK, D!TypeOK, device, link, transfer
  <1>8. OneInFlight' /\ CompleteIsExact'
    BY <1>1, <1>2, <1>3, <1>6 DEF OneInFlight, CompleteIsExact, device, link, transfer
  <1>9. ReadInv'
    BY <1>1, <1>2 DEF ReadInv, ReadAsked, ReadAnswered, Taken, Unsized,
                      device, link, transfer
  <1>10. WriteInv'
    BY <1>1, <1>2, WriteUntouched
  <1>11. QED
    BY <1>7, <1>8, <1>9, <1>10 DEF IInv

LEMMA NextKeeps == IInv /\ [Next]_vars => IInv'
  <1> SUFFICES ASSUME IInv, [Next]_vars PROVE IInv'
    OBVIOUS
  <1>1. CASE Initiate
    BY <1>1, InitiateKeeps
  <1>2. CASE Reset \/ Test \/ Load \/ Store \/ RxReset
    BY <1>2, WaitingKeeps
  <1>3. CASE Decide
    BY <1>3, DecideKeeps
  <1>4. CASE RxHandle
    BY <1>4, RxHandleKeeps
  <1>8. CASE RxOverrun
    BY <1>8, RxOverrunKeeps
  <1>5. CASE DeviceStep
    <2>1. UNCHANGED Elsewhere
      BY <1>5 DEF DeviceStep, Elsewhere
    <2>2. \/ D!InitiateUpload \/ D!UploadSegment \/ D!InitiateDownload
          \/ D!DownloadSegment \/ D!GiveUp
      BY <1>5 DEF DeviceStep, D!ServerStep
    <2>3. QED
      BY <2>1, <2>2, InitiateUploadKeeps, UploadSegmentKeeps,
         InitiateDownloadKeeps, DownloadSegmentKeeps, GiveUpKeeps
  <1>6. CASE UNCHANGED vars
    <2>1. /\ UNCHANGED <<device, link, op, value, transfer>>
          /\ UNCHANGED <<main, ticks, ret, rx, m_timeout>>
      BY <1>6 DEF vars, caller
    <2>2. TypeOK /\ OneInFlight /\ ReadInv /\ WriteInv /\ CompleteIsExact
      BY DEF IInv
    <2>3. TypeOK'
      BY <2>1, <2>2 DEF TypeOK, D!TypeOK, device, link, transfer
    <2>4. OneInFlight' /\ CompleteIsExact'
      BY <2>1, <2>2 DEF OneInFlight, CompleteIsExact, device, link, transfer
    <2>5. ReadInv'
      BY <2>1, <2>2 DEF ReadInv, ReadAsked, ReadAnswered, Taken, Unsized,
                        device, link, transfer
    <2>6. WriteInv'
      BY <2>1, <2>2, WriteUntouched
    <2>7. QED
      BY <2>3, <2>4, <2>5, <2>6 DEF IInv
  <1>7. QED
    BY <1>1, <1>2, <1>3, <1>4, <1>5, <1>6, <1>8 DEF Next, MainStep, RxStep

LEMMA SpecIInv == SafetySpec => []IInv
  <1>1. QED
    BY InitIInv, NextKeeps, PTL DEF SafetySpec

(* Every variable of a transfer keeps its type, and a reader never counts  *)
(* more bytes than it holds, nor than m_data has room for: a segment that  *)
(* does not fit ends what the code defines (CanSdoReader.cpp:177).         *)
THEOREM TransferTypesAreKept == SafetySpec => []TypeOK
  <1>1. IInv => TypeOK
    BY DEF IInv
  <1>2. QED
    BY <1>1, SpecIInv, PTL

(* A transfer marked complete is one, for any value and any device that    *)
(* follows the protocol, whenever it gives up and whichever request cannot *)
(* be sent: CanSdoReader and CanSdoWriter::processCanData().  The value of *)
(* a read may have any length, but one that does not fit m_data may make   *)
(* the reader write past it, which it does for no other.                   *)
THEOREM CompletionIsExact == SafetySpec => []CompleteIsExact
  <1>1. IInv => CompleteIsExact
    BY DEF IInv
  <1>2. QED
    BY <1>1, SpecIInv, PTL

(* The writer counts what is left in 16 bits: the two theorems below are   *)
(* about values of at most 65535 bytes, and false of longer ones.          *)
AllShort == \A v \in Values : Len(v) < 65536

(* What is sent is what the device waits for, but for the reader's answer  *)
(* to data of unspecified size.                                            *)
THEOREM OnlyExpectedRequests ==
  ASSUME AllShort
  PROVE SafetySpec => []RequestsAreExpected
  <1>1. IInv => RequestsAreExpected
    <2> SUFFICES ASSUME IInv, refused
                 PROVE op = "read" /\ m_data_size = 0 /\ Unsized
      BY DEF RequestsAreExpected, Unsized
    <2>1. op \in {"read", "write"}
      BY SdoTyped DEF IInv
    <2>2. op # "write"
      BY DEF IInv, WriteInv, Short, AllShort
    <2>3. QED
      BY <2>1, <2>2 DEF IInv, ReadInv
  <1>2. QED
    BY <1>1, SpecIInv, PTL

(* A step that changes the object of the device replaces it by the whole   *)
(* value: what a write that fails half-way leaves is the old object.       *)
THEOREM ObjectIsReplacedWhole ==
  ASSUME AllShort
  PROVE SafetySpec => ObjectIsWhole
  <1>1. IInv /\ [Next]_vars => [object' = object \/ object' = value]_object
    <2> SUFFICES ASSUME IInv, [Next]_vars
                 PROVE object' = object \/ object' = value
      OBVIOUS
    <2>1. CASE DeviceStep
      <3>1. UNCHANGED Elsewhere
        BY <2>1 DEF DeviceStep, Elsewhere
      <3>2. CASE D!DownloadSegment
        <4>1. op = "write" /\ (object' = object \/ (Short => object' = value))
          BY <3>1, <3>2, DownloadSegmentKeeps
        <4>2. Short
          BY <4>1 DEF IInv, WriteInv, Short, AllShort
        <4>3. QED
          BY <4>1, <4>2
      <3>3. CASE ~D!DownloadSegment
        BY <2>1, <3>3 DEF DeviceStep, D!ServerStep, D!InitiateUpload,
                          D!UploadSegment, D!InitiateDownload, D!GiveUp
      <3>4. QED
        BY <3>2, <3>3
    <2>2. CASE ~DeviceStep
      BY <2>2 DEF Next, MainStep, RxStep, Initiate, Reset, Test, Load, Store,
                  Decide, RxReset, RxHandle, RxOverrun, vars, device
    <2>3. QED
      BY <2>1, <2>2
  <1>2. QED
    BY <1>1, SpecIInv, PTL DEF SafetySpec, ObjectIsWhole

=============================================================================
