-------------------------- MODULE TcpCanBusProofs --------------------------
(***************************************************************************)
(* Proofs about TcpCanBus, for every set of clients, every size of the     *)
(* streams and every number of messages: can_server is a CAN bus, a        *)
(* deleted client is used by nobody, and both ends of a connection stay in *)
(* step.                                                                   *)
(***************************************************************************)
EXTENDS TcpCanBus, SequenceFacts

(* Where the threads of the server are, and what the lists say of it: a    *)
(* client is listed from its acceptance until its thread has reported the  *)
(* end of the connection, then among the disconnected ones until it is     *)
(* deleted.                                                                *)
Active == S!Comm \ {"none", "leaving", "ended"}

ListsInv ==
  /\ newcomer # NoThread => comm[newcomer] = "none"
  /\ \A c \in Client :
       /\ c \in Elems(m_clients) <=> newcomer = c \/ comm[c] \in Active
       /\ c \in Elems(m_disconnected_clients) <=>
            comm[c] \in {"leaving", "ended"} /\ c \notin deleted
       /\ c \in deleted => comm[c] = "ended"
  /\ Distinct(m_clients) /\ Distinct(m_disconnected_clients)

(* The mutex is held by the thread that dispatches, and only listed        *)
(* clients are still to be served.                                         *)
MutexInv ==
  /\ \A c \in Client : comm[c] = "send" <=> m_mutex = c
  /\ todo # <<>> => m_mutex \in Client
  /\ Elems(todo) \subseteq Elems(m_clients)
  /\ Distinct(todo)

(* The message that is dispatched is the last on the bus, and is never     *)
(* being written to its sender.                                            *)
DispatchInv ==
  /\ m_mutex \in Client => bus # <<>> /\ bus[Len(bus)].from = m_mutex
  /\ half => Head(todo) # m_mutex

(* What has reached a controller: nothing before it was opened or after it *)
(* was closed, and nothing but the answer to its start before it is        *)
(* started.                                                                *)
StartOf(c) ==
  /\ connected[c] = "never" <=> app[c] = "closed"
  /\ connected[c] = "closed" <=> app[c] = "gone"
  /\ connected[c] = "never" => comm[c] = "none" /\ newcomer # c
  /\ connected[c] # "open" => down[c] = <<>>
  /\ rx[c] # "none" => app[c] \in {"started", "stopping"} /\ answered[c]
  /\ comm[c] \in {"none", "start"} => ~m_controller_started[c]
  /\ connected[c] # "closed" =>
       /\ comm[c] = "stop" => m_controller_started[c]
       /\ S!Busy(c) => m_controller_started[c]
       /\ ~answered[c] /\ ~adrift[c] =>
            IF down[c] = <<>> THEN ~m_controller_started[c]
                              ELSE Head(down[c]).cmd = "START"

StartInv == \A c \in Client : StartOf(c)

(* The server knows of the start of every controller that has heard of it, *)
(* so it takes the messages that controller sends for messages.            *)
StartedOf(c) ==
  /\ connected[c] = "never" => ~answered[c] /\ ~adrift[c]
  /\ app[c] \in {"started", "stopping"} => answered[c]
  /\ connected[c] = "open" /\ (down[c] # <<>> \/ answered[c] \/ adrift[c]) =>
       m_controller_started[c]
  /\ comm[c] \notin {"lost", "leaving", "ended"} =>
       \A i \in DOMAIN up[c] : up[c][i].cmd = "MSG" => m_controller_started[c]

StartedInv == \A c \in Client : StartedOf(c)

-----------------------------------------------------------------------------
(* Streams that both sides are in step on: whole commands and messages, a  *)
(* message where one follows CMD_MSG and nowhere else.  body says that the *)
(* reader has taken a CMD_MSG and wants what follows it.                   *)
FollowsMsg(s, i, body) == IF i = 1 THEN body ELSE s[i - 1].cmd = "MSG"

Framed(s, body) ==
  \A i \in DOMAIN s :
    /\ s[i].cmd \in L!Command \cup {"BODY"}
    /\ s[i].cmd = "BODY" <=> FollowsMsg(s, i, body)

EndsInMsg(s, body) == IF s = <<>> THEN body ELSE s[Len(s)].cmd = "MSG"

(* The numbers of the messages in a stream increase, from more than lo to  *)
(* at most hi.                                                             *)
Increasing(s, lo, hi) ==
  /\ \A i \in DOMAIN s : s[i].cmd = "BODY" => lo < s[i].body /\ s[i].body <= hi
  /\ \A i, j \in DOMAIN s :
       i < j /\ s[i].cmd = "BODY" /\ s[j].cmd = "BODY" => s[i].body < s[j].body

(* All messages of t, and the commands that announce them, are, in this    *)
(* order, those of s.                                                      *)
Carried == {"MSG", "BODY"}

Suffix(s, t) ==
  \E k \in Nat : \A i \in DOMAIN t :
    t[i].cmd \in Carried => i + k \in DOMAIN s /\ t[i] = s[i + k]

(* The stream to a controller none of whose reads was cut.                 *)
DownFramedOf(c) ==
  ~adrift[c] =>
    /\ rx[c] # "garbled"
    /\ Framed(down[c], rx[c] = "body")
    /\ EndsInMsg(down[c], rx[c] = "body") => S!Busy(c)
    /\ serving /\ S!Busy(c) /\ connected[c] = "open" =>
         EndsInMsg(down[c], rx[c] = "body")

DownFramed == \A c \in Client : DownFramedOf(c)

(* The messages in the stream to a controller are on the bus, in order,    *)
(* later than what it has seen and sent by others.                         *)
OnTheWay(c) == IF c \in Elems(todo) THEN Len(bus) - 1 ELSE Len(bus)

Foreign(s, c) == \A i \in DOMAIN s : s[i].cmd = "BODY" => bus[s[i].body].from # c

Unseen(s, c) ==
  \A i \in DOMAIN s, j \in DOMAIN seen[c] :
    s[i].cmd = "BODY" => seen[c][j] < s[i].body

DownInOrderOf(c) ==
  /\ \A j \in DOMAIN seen[c] : seen[c][j] <= OnTheWay(c)
  /\ Increasing(down[c], 0, OnTheWay(c))
  /\ Foreign(down[c], c)
  /\ Unseen(down[c], c)

DownInOrder == \A c \in Client : DownInOrderOf(c)

(* The stream from a controller that one thread uses, as long as none of   *)
(* its writes and none of the server's reads was cut.                      *)
Whole(c) == c \notin SendThread /\ ~cut[c] /\ ~late[c]

UpOpen(c) == tx[c] = "body" \/ connected[c] = "closed"

UpFramedOf(c) ==
  /\ tx[c] = "body" => connected[c] = "open"
  /\ Whole(c) /\ serving =>
       /\ Framed(up[c], comm[c] = "body")
       /\ EndsInMsg(up[c], comm[c] = "body") => UpOpen(c)
       /\ tx[c] = "body" => EndsInMsg(up[c], comm[c] = "body")

UpFramed == \A c \in Client : UpFramedOf(c)

(* All that is read from it is a message.                                  *)
AllMessagesOf(c) ==
  Whole(c) =>
    /\ comm[c] # "garbled"
    /\ comm[c] = "dispatch" => msg[c] # L!Garbled
    /\ \A i \in DOMAIN bus : bus[i].from = c => bus[i].msg # L!Garbled

AllMessages == \A c \in Client : AllMessagesOf(c)

(* The messages that a controller has written are those handed to its      *)
(* send(), in that order, whatever is between them.                        *)
Written(c) == IF tx[c] = "body" THEN sent[c] - 1 ELSE sent[c]

Reached(c, n) == n <= Written(c) /\ Increasing(up[c], n, Written(c))

UpInOrderOf(c) ==
  /\ tx[c] = "body" => sent[c] > 0
  /\ Reached(c, 0)
  /\ comm[c] = "dispatch" => Reached(c, msg[c])
  /\ \A i \in DOMAIN bus : bus[i].from = c /\ bus[i].msg # L!Garbled =>
       /\ Reached(c, bus[i].msg)
       /\ comm[c] = "dispatch" /\ msg[c] # L!Garbled => bus[i].msg < msg[c]
       /\ \A j \in DOMAIN bus :
            bus[j].from = c /\ bus[j].msg # L!Garbled /\ i < j =>
              bus[i].msg < bus[j].msg

UpInOrder == \A c \in Client : UpInOrderOf(c)

IInv ==
  /\ TypeOK
  /\ ListsInv /\ MutexInv /\ DispatchInv /\ StartInv /\ StartedInv
  /\ DownFramed /\ DownInOrder
  /\ UpFramed /\ AllMessages /\ UpInOrder

-----------------------------------------------------------------------------
(* What reading from a stream and writing to it does to these.             *)
LEMMA FramedTail ==
  ASSUME NEW T, NEW s \in Seq(T), s # <<>>, NEW body \in BOOLEAN, Framed(s, body)
  PROVE /\ Framed(Tail(s), Head(s).cmd = "MSG")
        /\ EndsInMsg(Tail(s), Head(s).cmd = "MSG") <=> EndsInMsg(s, body)
        /\ Head(s).cmd \in L!Command \cup {"BODY"}
        /\ Head(s).cmd = "BODY" <=> body
  <1> DEFINE t == Tail(s)
  <1> DEFINE n == Len(s)
  <1>1. n \in Nat \ {0} /\ DOMAIN s = 1..n
    BY EmptySeq, LenProperties
  <1>2. /\ Head(s) = s[1] /\ t \in Seq(T) /\ Len(t) = n - 1 /\ DOMAIN t = 1..n - 1
        /\ \A i \in 1..n - 1 : t[i] = s[i + 1]
    BY HeadTailProperties, LenProperties
  <1>3. t = <<>> <=> n = 1
    <2> HIDE DEF t, n
    <2>1. t = <<>> <=> Len(t) = 0
      BY <1>2, EmptySeq
    <2>2. QED
      BY <1>1, <1>2, <2>1
  <1> HIDE DEF t, n
  <1>4. /\ s[1].cmd \in L!Command \cup {"BODY"}
        /\ s[1].cmd = "BODY" <=> body
    <2>1. 1 \in DOMAIN s
      BY <1>1
    <2>2. QED
      BY <2>1 DEF Framed, FollowsMsg
  <1>5. ASSUME NEW i \in 1..n - 1
        PROVE /\ t[i].cmd \in L!Command \cup {"BODY"}
              /\ t[i].cmd = "BODY" <=> FollowsMsg(t, i, s[1].cmd = "MSG")
    <2>1. i + 1 \in DOMAIN s /\ i + 1 # 1 /\ (i + 1) - 1 = i /\ t[i] = s[i + 1]
      BY <1>1, <1>2
    <2>2. /\ s[i + 1].cmd \in L!Command \cup {"BODY"}
          /\ s[i + 1].cmd = "BODY" <=> s[i].cmd = "MSG"
      BY <2>1 DEF Framed, FollowsMsg
    <2>3. i # 1 => i - 1 \in 1..n - 1 /\ (i - 1) + 1 = i
      BY <1>1
    <2>4. i # 1 => t[i - 1] = s[i]
      BY <1>2, <2>3
    <2>5. QED
      BY <2>1, <2>2, <2>4 DEF FollowsMsg
  <1>6. Framed(t, s[1].cmd = "MSG")
    BY <1>2, <1>5 DEF Framed
  <1>7. EndsInMsg(t, s[1].cmd = "MSG") <=> EndsInMsg(s, body)
    <2>1. CASE n = 1
      BY <1>3, <2>1 DEF EndsInMsg, n
    <2>2. CASE n # 1
      <3>1. n - 1 \in 1..n - 1 /\ (n - 1) + 1 = n
        BY <1>1, <2>2
      <3>2. t[n - 1] = s[n]
        BY <1>2, <3>1
      <3>3. QED
        BY <1>2, <1>3, <2>2, <3>2 DEF EndsInMsg, n
    <2>3. QED
      BY <2>1, <2>2
  <1>8. QED
    BY <1>2, <1>4, <1>6, <1>7 DEF t

LEMMA FramedAppend ==
  ASSUME NEW T, NEW s \in Seq(T), NEW e \in T, NEW body \in BOOLEAN,
         Framed(s, body), e.cmd \in L!Command \cup {"BODY"},
         e.cmd = "BODY" <=> EndsInMsg(s, body)
  PROVE /\ Framed(Append(s, e), body)
        /\ EndsInMsg(Append(s, e), body) <=> e.cmd = "MSG"
  <1> DEFINE t == Append(s, e)
  <1> DEFINE n == Len(s)
  <1>1. n \in Nat /\ DOMAIN s = 1..n /\ (s = <<>> <=> n = 0)
    BY LenProperties, EmptySeq
  <1>2. /\ t \in Seq(T) /\ t # <<>> /\ Len(t) = n + 1 /\ DOMAIN t = 1..n + 1
        /\ \A i \in 1..n : t[i] = s[i]
        /\ t[n + 1] = e
    BY AppendProperties, LenProperties
  <1>3. EndsInMsg(s, body) <=> FollowsMsg(t, n + 1, body)
    <2> HIDE DEF t
    <2>1. CASE n = 0
      BY <1>1, <2>1 DEF EndsInMsg, FollowsMsg
    <2>2. CASE n # 0
      <3>1. n \in 1..n /\ n + 1 # 1 /\ (n + 1) - 1 = n
        BY <1>1, <2>2
      <3>2. t[n] = s[n]
        BY <1>2, <3>1
      <3>3. QED
        BY <1>1, <2>2, <3>1, <3>2 DEF EndsInMsg, FollowsMsg
    <2>3. QED
      BY <2>1, <2>2
  <1> HIDE DEF t, n
  <1>4. ASSUME NEW i \in 1..n
        PROVE /\ t[i].cmd \in L!Command \cup {"BODY"}
              /\ t[i].cmd = "BODY" <=> FollowsMsg(t, i, body)
    <2>1. t[i] = s[i] /\ (i # 1 => i - 1 \in 1..n)
      BY <1>1, <1>2
    <2>2. i # 1 => t[i - 1] = s[i - 1]
      BY <1>2, <2>1
    <2>3. QED
      BY <1>1, <2>1, <2>2 DEF Framed, FollowsMsg
  <1>5. \A i \in 1..n + 1 : i = n + 1 \/ i \in 1..n
    BY <1>1
  <1>6. Framed(t, body)
    BY <1>2, <1>3, <1>4, <1>5 DEF Framed
  <1>7. EndsInMsg(t, body) <=> e.cmd = "MSG"
    BY <1>2 DEF EndsInMsg
  <1>8. QED
    BY <1>6, <1>7 DEF t

LEMMA FramedAtHead ==
  ASSUME NEW T, NEW s \in Seq(T), s # <<>>, NEW body \in BOOLEAN, Framed(s, body)
  PROVE /\ Head(s).cmd = "BODY" <=> body
        /\ ~body => Head(s).cmd \in L!Command
  BY FramedTail DEF L!Command

LEMMA IncreasingAppend ==
  ASSUME NEW s \in Seq(L!Token), NEW e \in L!Token, NEW lo \in Nat, NEW hi \in Nat,
         NEW top \in Nat, Increasing(s, lo, hi), lo <= hi, hi <= top,
         e.cmd = "BODY" => hi < e.body /\ e.body <= top
  PROVE /\ Increasing(Append(s, e), lo, top)
        /\ \A i \in DOMAIN Append(s, e) :
             \/ i \in DOMAIN s /\ Append(s, e)[i] = s[i]
             \/ Append(s, e)[i] = e
  <1> DEFINE t == Append(s, e)
  <1>1. /\ Len(s) \in Nat /\ DOMAIN s = 1..Len(s)
        /\ DOMAIN t = 1..Len(s) + 1
        /\ \A i \in 1..Len(s) : t[i] = s[i]
        /\ t[Len(s) + 1] = e
        /\ \A i \in 1..Len(s) : s[i].body \in Nat
    <2>1. \A i \in 1..Len(s) : s[i] \in L!Token
      BY ElementOfSeq
    <2>2. QED
      BY <2>1, LenProperties, AppendProperties DEF L!Token, L!Garbled
  <1> HIDE DEF t
  <1>2. \A i \in DOMAIN t : (i \in DOMAIN s /\ t[i] = s[i]) \/ (i = Len(s) + 1 /\ t[i] = e)
    BY <1>1
  <1>3. e.body \in Nat
    BY DEF L!Token, L!Garbled
  <1>4. ASSUME NEW i \in DOMAIN t, t[i].cmd = "BODY"
        PROVE lo < t[i].body /\ t[i].body <= top
    BY <1>1, <1>2, <1>3, <1>4 DEF Increasing
  <1>5. ASSUME NEW i \in DOMAIN t, NEW j \in DOMAIN t, i < j,
               t[i].cmd = "BODY", t[j].cmd = "BODY"
        PROVE t[i].body < t[j].body
    <2>1. i \in DOMAIN s /\ t[i] = s[i]
      BY <1>1, <1>2, <1>5
    <2>2. CASE j \in DOMAIN s /\ t[j] = s[j]
      BY <1>5, <2>1, <2>2 DEF Increasing
    <2>3. CASE t[j] = e
      <3>1. s[i].body <= hi /\ s[i].body \in Nat
        BY <1>1, <1>5, <2>1 DEF Increasing
      <3>2. QED
        BY <1>3, <1>5, <2>1, <2>3, <3>1
    <2>4. QED
      BY <1>2, <2>2, <2>3
  <1>6. QED
    BY <1>2, <1>4, <1>5 DEF t, Increasing

LEMMA IncreasingWeaker ==
  ASSUME NEW s \in Seq(L!Token), NEW lo \in Nat, NEW hi \in Nat, NEW top \in Nat,
         Increasing(s, lo, hi), hi <= top
  PROVE Increasing(s, lo, top)
  <1>1. \A i \in DOMAIN s : s[i].body \in Nat
    <2>1. \A i \in 1..Len(s) : s[i] \in L!Token
      BY ElementOfSeq
    <2>2. QED
      BY <2>1, LenProperties DEF L!Token, L!Garbled
  <1>2. QED
    BY <1>1 DEF Increasing

LEMMA SuffixTail ==
  ASSUME NEW s \in Seq(L!Token), s # <<>>
  PROVE Suffix(s, Tail(s)) /\ Tail(s) \in Seq(L!Token)
  <1> DEFINE t == Tail(s)
  <1>1. /\ Len(s) \in Nat \ {0} /\ DOMAIN s = 1..Len(s)
        /\ t \in Seq(L!Token) /\ DOMAIN t = 1..Len(s) - 1
        /\ \A i \in 1..Len(s) - 1 : t[i] = s[i + 1]
    BY EmptySeq, LenProperties, HeadTailProperties
  <1> HIDE DEF t
  <1>2. \A i \in DOMAIN t : i + 1 \in DOMAIN s /\ t[i] = s[i + 1]
    BY <1>1
  <1>3. 1 \in Nat
    OBVIOUS
  <1>4. Suffix(s, t)
    BY <1>2, <1>3 DEF Suffix
  <1>5. QED
    BY <1>1, <1>4 DEF t

(* What is left of the first token is no message any more.                 *)
LEMMA SuffixPiece ==
  ASSUME NEW s \in Seq(L!Token), s # <<>>, NEW x \in L!Token, x.cmd \notin Carried
  PROVE Suffix(s, <<x>> \o Tail(s)) /\ <<x>> \o Tail(s) \in Seq(L!Token)
  <1> DEFINE t == Tail(s)
  <1> DEFINE w == <<x>>
  <1> DEFINE u == w \o t
  <1>1. /\ Len(s) \in Nat \ {0} /\ DOMAIN s = 1..Len(s)
        /\ t \in Seq(L!Token) /\ Len(t) = Len(s) - 1
        /\ \A i \in 1..Len(s) - 1 : t[i] = s[i + 1]
    BY EmptySeq, LenProperties, HeadTailProperties
  <1>2. w \in Seq(L!Token) /\ Len(w) = 1 /\ w[1] = x
    OBVIOUS
  <1> HIDE DEF t, w
  <1>3. /\ u \in Seq(L!Token) /\ Len(u) = 1 + Len(t)
        /\ \A i \in 1..1 + Len(t) : u[i] = IF i <= 1 THEN w[i] ELSE t[i - 1]
    <2>1. /\ u \in Seq(L!Token) /\ Len(u) = Len(w) + Len(t)
          /\ \A i \in 1..Len(w) + Len(t) :
               u[i] = IF i <= Len(w) THEN w[i] ELSE t[i - Len(w)]
      BY <1>1, <1>2, ConcatProperties
    <2> HIDE DEF u
    <2>2. QED
      BY <1>2, <2>1
  <1> HIDE DEF u
  <1>4. DOMAIN u = 1..Len(s)
    BY <1>1, <1>3, LenProperties
  <1>5. ASSUME NEW i \in 1..Len(s), u[i].cmd \in Carried PROVE u[i] = s[i]
    <2>1. i # 1
      BY <1>1, <1>2, <1>3, <1>5
    <2>2. i - 1 \in 1..Len(s) - 1 /\ (i - 1) + 1 = i /\ i \in 1..1 + Len(t) /\ ~(i <= 1)
      BY <1>1, <2>1
    <2>3. u[i] = t[i - 1] /\ t[i - 1] = s[i]
      BY <1>1, <1>3, <2>2
    <2>4. QED
      BY <2>3
  <1>6. \A i \in DOMAIN u : u[i].cmd \in Carried => i + 0 \in DOMAIN s /\ u[i] = s[i + 0]
    BY <1>1, <1>4, <1>5
  <1>7. 0 \in Nat
    OBVIOUS
  <1>8. Suffix(s, u)
    BY <1>6, <1>7 DEF Suffix
  <1>9. QED
    BY <1>3, <1>8 DEF u, t, w

LEMMA SuffixSelf ==
  ASSUME NEW s \in Seq(L!Token)
  PROVE Suffix(s, s)
  <1>1. DOMAIN s \subseteq Nat
    BY LenProperties
  <1>2. 0 \in Nat /\ \A i \in DOMAIN s : i + 0 = i
    BY <1>1
  <1>3. QED
    BY <1>2 DEF Suffix

LEMMA SuffixSuffix ==
  ASSUME NEW s \in Seq(L!Token), NEW t \in Seq(L!Token), NEW u \in Seq(L!Token),
         Suffix(s, t), Suffix(t, u)
  PROVE Suffix(s, u)
  <1>1. PICK k \in Nat : \A i \in DOMAIN t :
          t[i].cmd \in Carried => i + k \in DOMAIN s /\ t[i] = s[i + k]
    BY DEF Suffix
  <1>2. PICK m \in Nat : \A i \in DOMAIN u :
          u[i].cmd \in Carried => i + m \in DOMAIN t /\ u[i] = t[i + m]
    BY DEF Suffix
  <1>3. DOMAIN u \subseteq Nat
    BY LenProperties
  <1>4. ASSUME NEW i \in DOMAIN u, u[i].cmd \in Carried
        PROVE i + (m + k) \in DOMAIN s /\ u[i] = s[i + (m + k)]
    <2>1. i + m \in DOMAIN t /\ u[i] = t[i + m]
      BY <1>2, <1>4
    <2>2. (i + m) + k \in DOMAIN s /\ t[i + m] = s[(i + m) + k]
      BY <1>1, <1>4, <2>1
    <2>3. (i + m) + k = i + (m + k)
      BY <1>3
    <2>4. QED
      BY <2>1, <2>2, <2>3
  <1>5. m + k \in Nat
    OBVIOUS
  <1>6. QED
    BY <1>4, <1>5 DEF Suffix

LEMMA SuffixKeeps ==
  ASSUME NEW s \in Seq(L!Token), NEW t \in Seq(L!Token), Suffix(s, t)
  PROVE /\ \A lo, hi \in Nat : Increasing(s, lo, hi) => Increasing(t, lo, hi)
        /\ \A c \in Client : Foreign(s, c) => Foreign(t, c)
        /\ \A c \in Client : Unseen(s, c) => Unseen(t, c)
        /\ \A i \in DOMAIN t : t[i].cmd = "MSG" =>
             \E j \in DOMAIN s : s[j].cmd = "MSG"
  <1> USE DEF Carried
  <1>1. PICK k \in Nat : \A i \in DOMAIN t :
          t[i].cmd \in Carried => i + k \in DOMAIN s /\ t[i] = s[i + k]
    BY DEF Suffix
  <1>2. DOMAIN t \subseteq Nat
    BY LenProperties
  <1>3. ASSUME NEW lo \in Nat, NEW hi \in Nat, Increasing(s, lo, hi)
        PROVE Increasing(t, lo, hi)
    <2>1. ASSUME NEW i \in DOMAIN t, NEW j \in DOMAIN t, i < j,
                 t[i].cmd = "BODY", t[j].cmd = "BODY"
          PROVE t[i].body < t[j].body
      <3>1. i + k < j + k
        BY <1>2, <2>1
      <3>2. QED
        BY <1>1, <1>3, <2>1, <3>1 DEF Increasing
    <2>2. QED
      BY <1>1, <1>3, <2>1 DEF Increasing
  <1>4. QED
    BY <1>1, <1>3 DEF Foreign, Unseen

(* The message at the head of a stream, and what is behind it. *)
LEMMA IncreasingHead ==
  ASSUME NEW s \in Seq(L!Token), s # <<>>, NEW lo \in Nat, NEW hi \in Nat,
         Increasing(s, lo, hi), Head(s).cmd = "BODY"
  PROVE /\ Head(s) \in L!Token /\ Head(s).body \in Nat
        /\ lo < Head(s).body /\ Head(s).body <= hi
        /\ Increasing(Tail(s), Head(s).body, hi)
        /\ 1 \in DOMAIN s /\ s[1] = Head(s)
  <1> DEFINE t == Tail(s)
  <1>1. /\ Len(s) \in Nat \ {0} /\ DOMAIN s = 1..Len(s) /\ Head(s) = s[1]
        /\ DOMAIN t = 1..Len(s) - 1
        /\ \A i \in 1..Len(s) - 1 : t[i] = s[i + 1]
        /\ Head(s) \in L!Token
    BY EmptySeq, LenProperties, HeadTailProperties
  <1> HIDE DEF t
  <1>2. \A i \in DOMAIN t : i + 1 \in DOMAIN s /\ t[i] = s[i + 1] /\ 1 < i + 1
    BY <1>1
  <1>3. 1 \in DOMAIN s
    BY <1>1
  <1>4. ASSUME NEW i \in DOMAIN t, NEW j \in DOMAIN t, i < j,
               t[i].cmd = "BODY", t[j].cmd = "BODY"
        PROVE t[i].body < t[j].body
    <2>1. i + 1 < j + 1 /\ i + 1 \in DOMAIN s /\ j + 1 \in DOMAIN s
      BY <1>1, <1>4
    <2>2. QED
      BY <1>2, <1>4, <2>1 DEF Increasing
  <1>5. ASSUME NEW i \in DOMAIN t, t[i].cmd = "BODY"
        PROVE s[1].body < t[i].body /\ t[i].body <= hi
    BY <1>1, <1>2, <1>3, <1>5 DEF Increasing
  <1>6. Increasing(t, s[1].body, hi)
    BY <1>4, <1>5 DEF Increasing
  <1>7. s[1].body \in Nat
    BY <1>1 DEF L!Token, L!Garbled
  <1>8. QED
    BY <1>1, <1>3, <1>6, <1>7 DEF t, Increasing

-----------------------------------------------------------------------------
(* Tokens, and what writing and reading them does to a connection.         *)
LEMMA Tokens ==
  /\ \A cmd \in {"START", "STOP", "MSG"} :
       /\ S!L!Cmd(cmd) \in L!Token /\ S!L!Cmd(cmd).cmd = cmd
       /\ K!L!Cmd(cmd) \in L!Token /\ K!L!Cmd(cmd).cmd = cmd
       /\ K!L!Cmd(cmd).size = 2 /\ cmd \in L!Command
  /\ \A n \in Nat, size \in BodySize :
       /\ S!L!Body(n, size) \in L!Token
       /\ S!L!Body(n, size).cmd = "BODY" /\ S!L!Body(n, size).body = n
       /\ K!L!Body(n, size) \in L!Token /\ K!L!Body(n, size).size = size
       /\ K!L!Body(n, size).cmd = "BODY" /\ K!L!Body(n, size).body = n
  /\ \A size \in Nat \ {0} :
       /\ L!Rest(size) \in L!Token /\ L!Rest(size).cmd = "REST"
       /\ K!L!Rest(size) = L!Rest(size)
  /\ L!Half \in L!Token /\ L!Half.cmd = "HALF"
  /\ \A size \in BodySize : size \in Nat /\ size > 1
  BY TcpCanBusAssumption
  DEF L!Token, L!Command, S!L!Cmd, K!L!Cmd, S!L!Body, K!L!Body, S!L!Garbled,
      K!L!Garbled, L!Garbled, L!Rest, K!L!Rest, L!Half

LEMMA TakeIsTyped ==
  ASSUME NEW s \in Seq(L!Token), s # <<>>, NEW k \in 1..Head(s).size
  PROVE L!Take(s, k) \in Seq(L!Token) /\ Suffix(s, L!Take(s, k))
  <1>1. Head(s) \in L!Token
    BY HeadTailProperties
  <1>2. CASE k = Head(s).size
    BY <1>2, SuffixTail DEF L!Take
  <1>3. CASE k # Head(s).size
    <2>1. L!Left(Head(s), k) \in L!Token /\ L!Left(Head(s), k).cmd \notin Carried
      <3>1. CASE Head(s).cmd \in L!Command
        BY <3>1, Tokens DEF L!Left, Carried
      <3>2. CASE Head(s).cmd \notin L!Command
        <4>1. Head(s).size \in Nat \ {0}
          BY <1>1 DEF L!Token
        <4>2. Head(s).size - k \in Nat \ {0}
          BY <1>3, <4>1
        <4>3. QED
          BY <3>2, <4>2, Tokens DEF L!Left, Carried
      <3>3. QED
        BY <3>1, <3>2
    <2>2. L!Take(s, k) = <<L!Left(Head(s), k)>> \o Tail(s)
      BY <1>3 DEF L!Take
    <2>3. QED
      BY <2>1, <2>2, SuffixPiece
  <1>4. QED
    BY <1>2, <1>3

LEMMA SizeIsTyped ==
  ASSUME NEW s \in Seq(L!Token), s # <<>>
  PROVE /\ Head(s) \in L!Token /\ Head(s).size \in Nat \ {0}
        /\ Head(s).cmd \in L!Command => Head(s).size = 2
  <1>1. Head(s) \in L!Token
    BY HeadTailProperties
  <1>2. QED
    BY <1>1 DEF L!Token, L!Command

LEMMA AfterWordIsTyped ==
  ASSUME NEW s \in Seq(L!Token), L!HasWord(s)
  PROVE /\ L!AfterWord(s) \in Seq(L!Token) /\ Suffix(s, L!AfterWord(s))
        /\ Head(s).cmd \in L!Command => L!AfterWord(s) = Tail(s)
        /\ Head(s).cmd \in L!Command => L!WordsAt(s) = {Head(s).cmd}
        /\ L!WordsAt(s) \subseteq L!AnyWord
  <1>1. s # <<>> /\ ~L!LoneByte(s)
    BY DEF L!HasWord
  <1>2. Head(s).size \in Nat \ {0}
    BY <1>1, SizeIsTyped
  <1>3. L!AfterWord(s) \in Seq(L!Token) /\ Suffix(s, L!AfterWord(s))
    <2>1. CASE Head(s).size > 1
      <3>1. 2 \in 1..Head(s).size
        BY <1>2, <2>1
      <3>2. QED
        BY <1>1, <2>1, <3>1, TakeIsTyped DEF L!AfterWord
    <2>2. CASE ~(Head(s).size > 1)
      <3> DEFINE t == Tail(s)
      <3>1. t \in Seq(L!Token) /\ Suffix(s, t)
        BY <1>1, SuffixTail
      <3>2. Len(s) # 1
        BY <1>1, <1>2, <2>2 DEF L!LoneByte
      <3>3. t # <<>>
        <4>1. Len(s) \in Nat \ {0} /\ Len(t) = Len(s) - 1
          BY <1>1, EmptySeq, LenProperties, HeadTailProperties
        <4> HIDE DEF t
        <4>2. QED
          BY <3>1, <3>2, <4>1, EmptySeq
      <3>4. L!AfterWord(s) = L!Take(t, 1)
        BY <2>2 DEF L!AfterWord
      <3> HIDE DEF t
      <3>5. 1 \in 1..Head(t).size
        BY <3>1, <3>3, SizeIsTyped
      <3>6. L!Take(t, 1) \in Seq(L!Token) /\ Suffix(t, L!Take(t, 1))
        BY <3>1, <3>3, <3>5, TakeIsTyped
      <3>7. QED
        BY <3>1, <3>4, <3>6, SuffixSuffix
    <2>3. QED
      BY <2>1, <2>2
  <1>4. Head(s).cmd \in L!Command => L!AfterWord(s) = Tail(s)
    BY <1>1, SizeIsTyped DEF L!AfterWord, L!Take
  <1>5. L!WordsAt(s) \subseteq L!AnyWord
    BY DEF L!WordsAt, L!AnyWord
  <1>6. QED
    BY <1>3, <1>4, <1>5 DEF L!WordsAt

LEMMA CutIsTyped ==
  ASSUME NEW s \in Seq(L!Token), NEW c \in Client, L!WordIsCut(c, s)
  PROVE L!Take(s, 1) \in Seq(L!Token) /\ Suffix(s, L!Take(s, 1))
  <1>1. s # <<>>
    BY EmptySeq DEF L!WordIsCut, L!LoneByte
  <1>2. 1 \in 1..Head(s).size
    BY <1>1, SizeIsTyped
  <1>3. QED
    BY <1>1, <1>2, TakeIsTyped

LEMMA MessageCutIsTyped ==
  ASSUME NEW s \in Seq(L!Token), NEW t \in L!MessageCuts(s)
  PROVE t \in Seq(L!Token) /\ Suffix(s, t)
  <1>1. CASE t = s
    BY <1>1, SuffixSelf
  <1>2. CASE t # s
    <2>1. PICK k \in 1..(Head(s).size - 1) : s # <<>> /\ t = L!Take(s, k)
      BY <1>2 DEF L!MessageCuts
    <2>2. k \in 1..Head(s).size
      BY <2>1, SizeIsTyped
    <2>3. QED
      BY <2>1, <2>2, TakeIsTyped
  <1>3. QED
    BY <1>1, <1>2

LEMMA PieceIsTyped ==
  ASSUME NEW s \in Seq(L!Token), NEW n \in Nat, NEW k \in L!Pieces(s, n)
  PROVE /\ L!Take(s, k) \in Seq(L!Token) /\ Suffix(s, L!Take(s, k))
        /\ k \in Nat /\ n - k \in Nat
  <1>1. s # <<>> /\ k \in 1..n /\ k <= Head(s).size
    BY DEF L!Pieces
  <1>2. k \in 1..Head(s).size
    BY <1>1, SizeIsTyped
  <1>3. QED
    BY <1>1, <1>2, TakeIsTyped

(* Server and controllers look at the same connections. *)
LEMMA SameLink ==
  /\ \A s, k : S!L!Take(s, k) = L!Take(s, k) /\ K!L!Take(s, k) = L!Take(s, k)
  /\ \A s : S!L!HasWord(s) = L!HasWord(s) /\ K!L!HasWord(s) = L!HasWord(s)
  /\ \A s : S!L!AfterWord(s) = L!AfterWord(s) /\ K!L!AfterWord(s) = L!AfterWord(s)
  /\ \A s : S!L!WordsAt(s) = L!WordsAt(s) /\ K!L!WordsAt(s) = L!WordsAt(s)
  /\ \A c, s : /\ S!L!WordIsCut(c, s) = L!WordIsCut(c, s)
               /\ K!L!WordIsCut(c, s) = L!WordIsCut(c, s)
  /\ \A s : /\ S!L!MessageCuts(s) = L!MessageCuts(s)
            /\ K!L!MessageCuts(s) = L!MessageCuts(s)
  /\ \A s, n : S!L!Pieces(s, n) = L!Pieces(s, n) /\ K!L!Pieces(s, n) = L!Pieces(s, n)
  /\ \A s : S!L!IsMessage(s) = L!IsMessage(s) /\ K!L!IsMessage(s) = L!IsMessage(s)
  <1>1. \A s, k : S!L!Take(s, k) = L!Take(s, k) /\ K!L!Take(s, k) = L!Take(s, k)
    BY DEF S!L!Take, K!L!Take, L!Take, S!L!Left, K!L!Left, L!Left, S!L!Rest, K!L!Rest,
        L!Rest, S!L!Half, K!L!Half, L!Half, S!L!Command, K!L!Command, L!Command,
        S!L!Garbled, K!L!Garbled, L!Garbled
  <1>2. \A s : S!L!HasWord(s) = L!HasWord(s) /\ K!L!HasWord(s) = L!HasWord(s)
    BY DEF S!L!HasWord, K!L!HasWord, L!HasWord, S!L!LoneByte, K!L!LoneByte, L!LoneByte
  <1>3. \A s : S!L!AfterWord(s) = L!AfterWord(s) /\ K!L!AfterWord(s) = L!AfterWord(s)
    BY <1>1 DEF S!L!AfterWord, K!L!AfterWord, L!AfterWord
  <1>4. \A s : S!L!WordsAt(s) = L!WordsAt(s) /\ K!L!WordsAt(s) = L!WordsAt(s)
    BY DEF S!L!WordsAt, K!L!WordsAt, L!WordsAt, S!L!AnyWord, K!L!AnyWord, L!AnyWord,
        S!L!Command, K!L!Command, L!Command
  <1>5. \A c, s : /\ S!L!WordIsCut(c, s) = L!WordIsCut(c, s)
                 /\ K!L!WordIsCut(c, s) = L!WordIsCut(c, s)
    BY DEF S!L!WordIsCut, K!L!WordIsCut, L!WordIsCut, S!L!LoneByte, K!L!LoneByte,
        L!LoneByte
  <1>6. \A s : /\ S!L!MessageCuts(s) = L!MessageCuts(s)
              /\ K!L!MessageCuts(s) = L!MessageCuts(s)
    BY <1>1 DEF S!L!MessageCuts, K!L!MessageCuts, L!MessageCuts
  <1>7. /\ \A s, n : S!L!Pieces(s, n) = L!Pieces(s, n) /\ K!L!Pieces(s, n) = L!Pieces(s, n)
        /\ \A s : S!L!IsMessage(s) = L!IsMessage(s) /\ K!L!IsMessage(s) = L!IsMessage(s)
    BY DEF S!L!Pieces, K!L!Pieces, L!Pieces, S!L!IsMessage, K!L!IsMessage, L!IsMessage
  <1>8. QED
    BY <1>1, <1>2, <1>3, <1>4, <1>5, <1>6, <1>7

LEMMA ServerWritesTo ==
  ASSUME L!TypeOK, NEW c \in Client, NEW t \in L!Token, S!L!ServerWrites(c, t)
  PROVE /\ down' \in [Client -> Seq(L!Token)] /\ serving' \in BOOLEAN
        /\ \A d \in Client \ {c} : down'[d] = down[d]
        /\ \/ connected[c] = "open" /\ down'[c] = Append(down[c], t) /\ serving' = serving
           \/ connected[c] = "closed" /\ down'[c] = down[c]
  <1>1. Append(down[c], t) \in Seq(L!Token)
    BY AppendProperties DEF L!TypeOK
  <1>2. QED
    BY <1>1 DEF L!TypeOK, S!L!ServerWrites

LEMMA ServerReadsFrom ==
  ASSUME L!TypeOK, NEW c \in Client, NEW s \in Seq(L!Token), S!L!ServerReads(c, s)
  PROVE /\ up' \in [Client -> Seq(L!Token)] /\ up'[c] = s
        /\ \A d \in Client \ {c} : up'[d] = up[d]
  BY DEF L!TypeOK, S!L!ServerReads

LEMMA ClientWritesTo ==
  ASSUME L!TypeOK, NEW c \in Client, NEW t \in L!Token, K!L!ClientWrites(c, t)
  PROVE /\ up' \in [Client -> Seq(L!Token)]
        /\ up'[c] = IF serving THEN Append(up[c], t) ELSE up[c]
        /\ \A d \in Client \ {c} : up'[d] = up[d]
  <1>1. Append(up[c], t) \in Seq(L!Token)
    BY AppendProperties DEF L!TypeOK
  <1>2. QED
    BY <1>1 DEF L!TypeOK, K!L!ClientWrites

LEMMA ClientCutsTo ==
  ASSUME L!TypeOK, NEW c \in Client, NEW t, t.size \in Nat,
         K!L!ClientWriteIsCut(c, t)
  PROVE /\ up' \in [Client -> Seq(L!Token)]
        /\ \/ up'[c] = up[c]
           \/ \E x \in L!Token : x.cmd = "REST" /\ up'[c] = Append(up[c], x)
        /\ \A d \in Client \ {c} : up'[d] = up[d]
  <1>1. CASE up' = up
    BY <1>1 DEF L!TypeOK
  <1>2. CASE up' # up
    <2>1. PICK k \in 1..(t.size - 1) : up' = [up EXCEPT ![c] = Append(@, K!L!Rest(k))]
      BY <1>2 DEF K!L!ClientWriteIsCut
    <2>2. k \in Nat \ {0}
      BY <2>1
    <2>3. K!L!Rest(k) \in L!Token /\ K!L!Rest(k).cmd = "REST"
      BY <2>2, Tokens
    <2>4. Append(up[c], K!L!Rest(k)) \in Seq(L!Token)
      BY <2>3, AppendProperties DEF L!TypeOK
    <2>5. QED
      BY <2>1, <2>3, <2>4 DEF L!TypeOK
  <1>3. QED
    BY <1>1, <1>2

LEMMA ClientReadsFrom ==
  ASSUME L!TypeOK, NEW c \in Client, NEW s \in Seq(L!Token), K!L!ClientReads(c, s)
  PROVE /\ down' \in [Client -> Seq(L!Token)] /\ down'[c] = s
        /\ \A d \in Client \ {c} : down'[d] = down[d]
  BY DEF L!TypeOK, K!L!ClientReads

(* list::remove() takes the client out and leaves the others.              *)
LEMMA WithoutClient ==
  ASSUME NEW s \in Seq(Client), Distinct(s), NEW c \in Client
  PROVE /\ S!Without(s, c) \in Seq(Client)
        /\ Elems(S!Without(s, c)) = Elems(s) \ {c}
        /\ Distinct(S!Without(s, c))
  <1>1. CASE c \in Elems(s)
    <2> DEFINE k == CHOOSE i \in DOMAIN s : s[i] = c
    <2>1. k \in 1..Len(s) /\ s[k] = c
      BY <1>1, LenProperties DEF Elems
    <2>2. S!Without(s, c) = SubSeq(s, 1, k - 1) \o SubSeq(s, k + 1, Len(s))
      BY <1>1 DEF S!Without, S!RemoveAt, S!Members, Elems
    <2> HIDE DEF k
    <2>3. QED
      BY <2>1, <2>2, ElemsRemoveAt
  <1>2. CASE c \notin Elems(s)
    <2>1. S!Without(s, c) = s
      BY <1>2 DEF S!Without, S!Members, Elems
    <2>2. QED
      BY <1>2, <2>1
  <1>3. QED
    BY <1>1, <1>2

-----------------------------------------------------------------------------

(* Type correctness: what each thread leaves well typed.                   *)
AppState == {"closed", "open", "starting", "started", "stopping", "failed",
             "stopped", "gone"}
RxState == {"none", "command", "body", "garbled", "ended"}
Sent == {n \in [Client -> Nat] : \A c \in Client : n[c] <= MaxSends[c]}

ControllersTyped ==
  /\ up \in [Client -> Seq(L!Token)] /\ down \in [Client -> Seq(L!Token)]
  /\ connected \in [Client -> {"never", "open", "closed"}]
  /\ serving \in BOOLEAN
  /\ app \in [Client -> AppState] /\ rx \in [Client -> RxState]
  /\ tx \in [Client -> {"idle", "body"}] /\ sent \in Sent
  /\ rxNeed \in [Client -> Nat] /\ adrift \in [Client -> BOOLEAN]
  /\ seen \in [Client -> Seq(Nat)]
  /\ answered \in [Client -> BOOLEAN] /\ cut \in [Client -> BOOLEAN]

LEMMA ControllersAreTyped == TypeOK => ControllersTyped
  BY DEF TypeOK, L!TypeOK, K!TypeOK, ControllersTyped, AppState, RxState, Sent

LEMMA ControllersTypedKept ==
  ASSUME TypeOK, UNCHANGED server, ControllersTyped'
  PROVE TypeOK'
  <1>1. S!TypeOK'
    BY DEF TypeOK, S!TypeOK, S!Comm, server
  <1>2. QED
    BY <1>1
    DEF TypeOK, L!TypeOK, L!Token, L!Command, L!Garbled, K!TypeOK, ControllersTyped,
        AppState, RxState, Sent

(* A step of a controller changes nothing of the others.                   *)
Private(d) ==
  <<up[d], down[d], connected[d], app[d], rx[d], tx[d], sent[d], rxNeed[d],
    adrift[d], seen[d], answered[d], cut[d]>>

LEMMA SendsTyped ==
  ASSUME ControllersTyped, NEW c \in Client
  PROVE sent[c] \in Nat
  BY DEF ControllersTyped, Sent

LEMMA ClientEnds ==
  ASSUME L!TypeOK, NEW c \in Client, NEW t \in L!Token, t.size \in Nat,
         K!L!ClientWrites(c, t) \/ K!L!ClientWriteIsCut(c, t)
  PROVE /\ up' \in [Client -> Seq(L!Token)]
        /\ \A d \in Client \ {c} : up'[d] = up[d]
  BY ClientWritesTo, ClientCutsTo

(* What a step of a controller does to the streams.                        *)
LEMMA ControllerStreams ==
  ASSUME TypeOK, NEW c \in Client,
         Request(c) \/ AppStep(c) \/ SendBody(c) \/ RxStep(c)
  PROVE /\ up' \in [Client -> Seq(L!Token)] /\ down' \in [Client -> Seq(L!Token)]
        /\ \A d \in Client \ {c} : up'[d] = up[d] /\ down'[d] = down[d]
        /\ UNCHANGED <<server, serving>>
        /\ \/ Suffix(down[c], down'[c]) /\ up' = up
           \/ down' = down
  <1>1. L!TypeOK /\ ControllersTyped
    BY ControllersAreTyped DEF TypeOK
  <1> DEFINE s == down[c]
  <1>2. /\ up \in [Client -> Seq(L!Token)] /\ down \in [Client -> Seq(L!Token)]
        /\ s \in Seq(L!Token) /\ sent[c] \in Nat /\ rxNeed[c] \in Nat
    BY <1>1, SendsTyped DEF ControllersTyped
  <1>3. ASSUME NEW t \in Seq(L!Token), K!L!ClientReads(c, t), Suffix(s, t), up' = up
        PROVE /\ up' \in [Client -> Seq(L!Token)] /\ down' \in [Client -> Seq(L!Token)]
              /\ \A d \in Client \ {c} : up'[d] = up[d] /\ down'[d] = down[d]
              /\ Suffix(down[c], down'[c])
    BY <1>1, <1>2, <1>3, ClientReadsFrom
  <1>4. UNCHANGED server
    BY DEF Request, AppStep, SendBody, RxStep
  <1>5. UNCHANGED serving
    BY DEF Request, AppStep, SendBody, RxStep, K!Request, K!AppStep, K!RxStep,
        K!Open, K!Close, K!Vanish, K!StartRequest, K!StartAnswer, K!StartTimeout,
        K!StopRequest, K!StopJoin, K!SendCommand, K!SendBody, K!RxCommand,
        K!RxCutCommand, K!RxBody, K!RxMisplaced, K!RxGarbled, K!RxTimeout,
        K!RxDisconnected, K!link
  <1>6. CASE UNCHANGED <<up, down>>
    BY <1>2, <1>4, <1>5, <1>6
  <1>7. CASE K!Vanish(c)
    <2>1. <<>> \in Seq(L!Token) /\ Suffix(s, <<>>)
      BY EmptySeq DEF Suffix
    <2>2. up' = up /\ down' = [down EXCEPT ![c] = <<>>]
      BY <1>7 DEF K!Vanish
    <2>3. QED
      BY <1>2, <1>4, <1>5, <2>1, <2>2
  <1>8. CASE K!StartAnswer(c) \/ K!RxCommand(c)
    <2>1. up' = up /\ L!HasWord(s) /\ K!L!ClientReads(c, L!AfterWord(s))
      BY <1>8, SameLink DEF K!StartAnswer, K!RxCommand
    <2>2. QED
      BY <1>2, <1>3, <1>4, <1>5, <2>1, AfterWordIsTyped
  <1>9. CASE K!StartTimeout(c) \/ K!RxCutCommand(c)
    <2>1. \/ UNCHANGED <<up, down>>
          \/ up' = up /\ L!WordIsCut(c, s) /\ K!L!ClientReads(c, L!Take(s, 1))
      BY <1>9, SameLink DEF K!StartTimeout, K!RxCutCommand
    <2>2. QED
      BY <1>2, <1>3, <1>4, <1>5, <1>6, <2>1, CutIsTyped
  <1>10. CASE K!RxBody(c)
    <2>1. up' = up /\ s # <<>> /\ K!L!ClientReads(c, Tail(s))
      BY <1>10, SameLink DEF K!RxBody, L!IsMessage
    <2>2. QED
      BY <1>2, <1>3, <1>4, <1>5, <2>1, SuffixTail
  <1>11. CASE K!RxGarbled(c)
    <2>1. up' = up /\ \E k \in L!Pieces(s, rxNeed[c]) : K!L!ClientReads(c, L!Take(s, k))
      BY <1>11, SameLink DEF K!RxGarbled
    <2>2. QED
      BY <1>2, <1>3, <1>4, <1>5, <2>1, PieceIsTyped
  <1>12. CASE K!RxTimeout(c)
    <2>1. \/ UNCHANGED <<up, down>>
          \/ up' = up /\ \E t \in L!MessageCuts(s) : K!L!ClientReads(c, t)
      BY <1>12, SameLink DEF K!RxTimeout
    <2>2. QED
      BY <1>2, <1>3, <1>4, <1>5, <1>6, <2>1, MessageCutIsTyped
  <1>13. CASE down' = down /\ \E t \in L!Token :
               t.size \in Nat /\ (K!L!ClientWrites(c, t) \/ K!L!ClientWriteIsCut(c, t))
    BY <1>1, <1>2, <1>4, <1>5, <1>13, ClientEnds
  <1>14. CASE K!StartRequest(c) \/ K!StopRequest(c) \/ K!SendCommand(c)
    <2>1. \A cmd \in {"START", "STOP", "MSG"} :
            K!L!Cmd(cmd) \in L!Token /\ K!L!Cmd(cmd).size \in Nat
      BY Tokens
    <2>2. \/ UNCHANGED <<up, down>>
          \/ down' = down /\ \E cmd \in {"START", "STOP", "MSG"} :
               K!L!ClientWrites(c, K!L!Cmd(cmd)) \/ K!L!ClientWriteIsCut(c, K!L!Cmd(cmd))
      BY <1>14 DEF K!StartRequest, K!StopRequest, K!SendCommand
    <2>3. QED
      BY <1>6, <1>13, <2>1, <2>2
  <1>15. CASE K!SendBody(c)
    <2>1. PICK n \in BodySize :
            \/ K!L!ClientWrites(c, K!L!Body(sent[c], n))
            \/ K!L!ClientWriteIsCut(c, K!L!Body(sent[c], n))
      BY <1>15 DEF K!SendBody
    <2>2. K!L!Body(sent[c], n) \in L!Token /\ K!L!Body(sent[c], n).size \in Nat
      BY <1>2, Tokens
    <2>3. down' = down
      BY <1>15 DEF K!SendBody
    <2>4. QED
      BY <1>13, <2>1, <2>2, <2>3
  <1>16. QED
    BY <1>6, <1>7, <1>8, <1>9, <1>10, <1>11, <1>12, <1>14, <1>15
    DEF Request, AppStep, SendBody, RxStep, K!Request, K!AppStep, K!RxStep,
        K!Open, K!Close, K!RxMisplaced, K!StopJoin, K!RxDisconnected, K!link

LEMMA ControllerFrame ==
  ASSUME TypeOK, NEW c \in Client,
         Request(c) \/ AppStep(c) \/ SendBody(c) \/ RxStep(c),
         NEW d \in Client \ {c}
  PROVE Private(d)' = Private(d)
  <1>1. ControllersTyped
    BY ControllersAreTyped
  <1>2. up'[d] = up[d] /\ down'[d] = down[d]
    BY ControllerStreams
  <1>3. CASE K!Vanish(c)
    BY <1>1, <1>2, <1>3
    DEF K!Vanish, K!Goto, K!RxGoto, K!TxGoto, K!reading, ControllersTyped, Private
  <1>4. CASE K!Open(c) \/ K!StartRequest(c) \/ K!StopRequest(c) \/ K!SendCommand(c)
             \/ K!SendBody(c)
    BY <1>1, <1>2, <1>4
    DEF K!Open, K!StartRequest, K!StopRequest, K!SendCommand, K!SendBody, K!Cut, K!Goto,
        K!TxGoto, K!reading, ControllersTyped, Sent, Private
  <1>5. CASE K!StartAnswer(c) \/ K!StartTimeout(c) \/ K!StopJoin(c)
    BY <1>1, <1>2, <1>5
    DEF K!StartAnswer, K!StartTimeout, K!StopJoin, K!Goto, K!RxGoto, K!reading, K!link,
        ControllersTyped, Private
  <1>6. CASE K!RxCommand(c) \/ K!RxCutCommand(c) \/ K!RxBody(c) \/ K!RxGarbled(c)
             \/ K!RxTimeout(c) \/ K!RxDisconnected(c)
    BY <1>1, <1>2, <1>6
    DEF K!RxCommand, K!RxCutCommand, K!RxBody, K!RxGarbled, K!RxTimeout,
        K!RxDisconnected, K!RxGoto, K!reading, K!link, ControllersTyped, Private
  <1>7. CASE K!RxMisplaced(c) /\ ~K!Vanish(c)
    BY <1>1, <1>2, <1>7
    DEF K!RxMisplaced, K!RxGoto, K!reading, K!link, ControllersTyped, Private
  <1>8. QED
    BY <1>3, <1>4, <1>5, <1>6, <1>7
    DEF Request, AppStep, SendBody, RxStep, K!Request, K!AppStep, K!RxStep, K!Close

LEMMA ControllerTypes ==
  ASSUME TypeOK, NEW c \in Client,
         Request(c) \/ AppStep(c) \/ SendBody(c) \/ RxStep(c)
  PROVE TypeOK'
  <1>1. ControllersTyped /\ L!TypeOK
    BY ControllersAreTyped DEF TypeOK
  <1>2. /\ UNCHANGED server
        /\ up' \in [Client -> Seq(L!Token)] /\ down' \in [Client -> Seq(L!Token)]
        /\ serving' \in BOOLEAN
    BY <1>1, ControllerStreams DEF ControllersTyped
  <1>3. SUFFICES
          /\ connected' \in [Client -> {"never", "open", "closed"}]
          /\ app' \in [Client -> AppState] /\ rx' \in [Client -> RxState]
          /\ tx' \in [Client -> {"idle", "body"}] /\ sent' \in Sent
          /\ rxNeed' \in [Client -> Nat] /\ adrift' \in [Client -> BOOLEAN]
          /\ seen' \in [Client -> Seq(Nat)]
          /\ answered' \in [Client -> BOOLEAN] /\ cut' \in [Client -> BOOLEAN]
    <2>1. ControllersTyped'
      BY <1>2, <1>3
      DEF ControllersTyped, L!Token, L!Command, L!Garbled, AppState, RxState, Sent
    <2>2. QED
      BY <1>2, <2>1, ControllersTypedKept
  <1> USE <1>1 DEF ControllersTyped
  <1>5. \A a \in AppState : [app EXCEPT ![c] = a] \in [Client -> AppState]
    OBVIOUS
  <1>6. \A r \in RxState : [rx EXCEPT ![c] = r] \in [Client -> RxState]
    OBVIOUS
  <1>7. {"open", "starting", "started", "stopping", "failed", "stopped", "gone"}
          \subseteq AppState
    BY DEF AppState
  <1>8. {"none", "command", "body", "garbled", "ended"} \subseteq RxState
    BY DEF RxState
  <1>9. CASE K!Vanish(c)
    BY <1>5, <1>6, <1>7, <1>8, <1>9 DEF K!Vanish, K!Goto, K!RxGoto, K!TxGoto, K!reading
  <1>10. CASE K!Open(c) \/ K!StartRequest(c) \/ K!StopRequest(c)
    BY <1>5, <1>7, <1>10
    DEF K!Open, K!StartRequest, K!StopRequest, K!Cut, K!Goto, K!reading
  <1>11. CASE K!SendCommand(c)
    <2>1. sent[c] \in Nat /\ MaxSends[c] \in Nat /\ sent[c] < MaxSends[c]
      BY <1>11, TcpCanBusAssumption DEF K!SendCommand, Sent
    <2>2. sent[c] + 1 \in Nat /\ sent[c] + 1 <= MaxSends[c]
      BY <2>1
    <2>3. [sent EXCEPT ![c] = sent[c] + 1] \in Sent
      BY <2>2 DEF Sent
    <2>4. QED
      BY <1>11, <2>3 DEF K!SendCommand, K!TxGoto, K!Cut, K!reading
  <1>12. CASE K!SendBody(c)
    BY <1>12 DEF K!SendBody, K!TxGoto, K!Cut, K!reading
  <1>13. CASE K!StartAnswer(c) \/ K!StartTimeout(c) \/ K!StopJoin(c)
    <2>1. app' \in [Client -> AppState]
      BY <1>5, <1>7, <1>13 DEF K!StartAnswer, K!StartTimeout, K!StopJoin, K!Goto
    <2>2. rx' \in [Client -> RxState]
      BY <1>6, <1>8, <1>13 DEF K!StartAnswer, K!StartTimeout, K!StopJoin, K!RxGoto
    <2>3. QED
      BY <1>13, <2>1, <2>2
      DEF K!StartAnswer, K!StartTimeout, K!StopJoin, K!reading, K!link
  <1>14. CASE K!RxCommand(c) \/ K!RxCutCommand(c) \/ K!RxTimeout(c) \/ K!RxDisconnected(c)
    <2>1. rx' \in [Client -> RxState]
      BY <1>6, <1>8, <1>14
      DEF K!RxCommand, K!RxCutCommand, K!RxTimeout, K!RxDisconnected, K!RxGoto
    <2>2. rxNeed' \in [Client -> Nat] /\ adrift' \in [Client -> BOOLEAN]
      <3>1. \/ UNCHANGED rxNeed
            \/ rxNeed' = [rxNeed EXCEPT ![c] = 0]
        BY <1>14
        DEF K!RxCommand, K!RxCutCommand, K!RxTimeout, K!RxDisconnected, K!reading
      <3>2. \/ UNCHANGED adrift
            \/ adrift' = [adrift EXCEPT ![c] = TRUE]
        BY <1>14
        DEF K!RxCommand, K!RxCutCommand, K!RxTimeout, K!RxDisconnected, K!reading
      <3>3. rxNeed' \in [Client -> Nat]
        <4>1. [rxNeed EXCEPT ![c] = 0] \in [Client -> Nat]
          OBVIOUS
        <4>2. QED
          BY <3>1, <4>1
      <3>4. adrift' \in [Client -> BOOLEAN]
        BY <3>2
      <3>5. QED
        BY <3>3, <3>4
    <2>3. UNCHANGED <<connected, app, tx, sent, seen, answered, cut>>
      BY <1>14
      DEF K!RxCommand, K!RxCutCommand, K!RxTimeout, K!RxDisconnected, K!reading, K!link
    <2>4. QED
      BY <2>1, <2>2, <2>3
  <1>15. CASE K!RxBody(c)
    <2>1. down[c] \in Seq(L!Token) /\ down[c] # <<>>
      BY <1>15, SameLink DEF K!RxBody, L!IsMessage
    <2>2. Head(down[c]).body \in Nat
      BY <2>1, SizeIsTyped DEF L!Token, L!Garbled
    <2>3. Append(seen[c], Head(down[c]).body) \in Seq(Nat)
      BY <2>2, AppendProperties
    <2>4. QED
      BY <1>6, <1>8, <1>15, <2>3 DEF K!RxBody, K!RxGoto
  <1>16. CASE K!RxGarbled(c)
    <2>1. Append(seen[c], K!L!Garbled) \in Seq(Nat)
      BY AppendProperties DEF K!L!Garbled
    <2>2. PICK k \in L!Pieces(down[c], rxNeed[c]) :
            /\ rxNeed' = [rxNeed EXCEPT ![c] = @ - k]
            /\ IF k = rxNeed[c]
                 THEN /\ seen' = [seen EXCEPT ![c] = Append(@, K!L!Garbled)]
                      /\ K!RxGoto(c, "command")
                 ELSE UNCHANGED <<seen, rx>>
      BY <1>16, SameLink DEF K!RxGarbled
    <2>3. rxNeed[c] - k \in Nat
      BY PieceIsTyped
    <2>4. rxNeed' \in [Client -> Nat]
      BY <2>2, <2>3
    <2>5. rx' \in [Client -> RxState]
      BY <1>6, <1>8, <2>2 DEF K!RxGoto
    <2>6. seen' \in [Client -> Seq(Nat)]
      BY <2>1, <2>2
    <2>7. UNCHANGED <<connected, app, tx, sent, adrift, answered, cut>>
      BY <1>16 DEF K!RxGarbled
    <2>8. QED
      BY <2>4, <2>5, <2>6, <2>7
  <1>17. CASE K!RxMisplaced(c) /\ ~K!Vanish(c)
    <2>1. \A n \in BodySize : [rxNeed EXCEPT ![c] = n] \in [Client -> Nat]
      BY Tokens
    <2>2. rxNeed' \in [Client -> Nat]
      BY <1>17, <2>1 DEF K!RxMisplaced
    <2>3. rx' \in [Client -> RxState]
      BY <1>6, <1>8, <1>17 DEF K!RxMisplaced, K!RxGoto
    <2>4. QED
      BY <1>17, <2>2, <2>3 DEF K!RxMisplaced, K!link
  <1>18. QED
    BY <1>9, <1>10, <1>11, <1>12, <1>13, <1>14, <1>15, <1>16, <1>17
    DEF Request, AppStep, SendBody, RxStep, K!Request, K!AppStep, K!RxStep, K!Close

Message == [from : Client, msg : Nat]

ServerVariablesTyped ==
  /\ m_clients \in Seq(Client) /\ m_disconnected_clients \in Seq(Client)
  /\ m_mutex \in Client \cup {NoThread, Cleanup}
  /\ newcomer \in Client \cup {NoThread}
  /\ comm \in [Client -> S!Comm]
  /\ m_controller_started \in [Client -> BOOLEAN]
  /\ msg \in [Client -> Nat] /\ need \in [Client -> Nat]
  /\ late \in [Client -> BOOLEAN]
  /\ todo \in Seq(Client) /\ half \in BOOLEAN
  /\ deleted \in SUBSET Client
  /\ bus \in Seq(Message)
  /\ half => todo # <<>>

LEMMA ServerVariablesAreTyped == TypeOK => ServerVariablesTyped
  BY DEF TypeOK, S!TypeOK, ServerVariablesTyped, Message

(* What a command leads to. *)
LEMMA ObeyGoes ==
  ASSUME NEW c, NEW word, S!Obey(c, word)
  PROVE \E s \in {"command", "start", "stop", "body"} :
          /\ S!Goto(c, s)
          /\ s = "start" => ~m_controller_started[c]
          /\ s = "stop" => m_controller_started[c]
          /\ s = "body" => word = "MSG"
  BY DEF S!Obey

(* What the thread of a client does to the streams.                        *)
LEMMA CommStreams ==
  ASSUME TypeOK, NEW c \in Client, CommStep(c)
  PROVE /\ up' \in [Client -> Seq(L!Token)] /\ down' \in [Client -> Seq(L!Token)]
        /\ \A d \in Client \ {c} : up'[d] = up[d]
        /\ Suffix(up[c], up'[c])
        /\ serving /\ serving' \in BOOLEAN
        /\ UNCHANGED <<controllers, connected>>
  <1>1. L!TypeOK /\ ServerVariablesTyped
    BY ServerVariablesAreTyped DEF TypeOK
  <1> DEFINE s == up[c]
  <1>2. /\ up \in [Client -> Seq(L!Token)] /\ down \in [Client -> Seq(L!Token)]
        /\ s \in Seq(L!Token) /\ need[c] \in Nat /\ Len(bus) \in Nat
        /\ serving \in BOOLEAN /\ Suffix(s, s)
    BY <1>1, SuffixSelf, LenProperties DEF L!TypeOK, ServerVariablesTyped
  <1>3. serving /\ UNCHANGED <<controllers, connected>>
    <2>1. UNCHANGED controllers
      BY DEF CommStep
    <2>2. serving
      BY DEF CommStep, S!CommStep, S!ReadCommand, S!CutCommand, S!AnswerStart, S!AnswerStop,
        S!ReadBody, S!ReadMisplaced, S!ReadGarbled, S!ReadTimeout, S!Disconnected,
        S!DispatchBegin, S!DispatchSkip, S!DispatchCommand, S!DispatchBody,
        S!DispatchEnd, S!LoseClient, S!ThreadEnd
    <2>3. UNCHANGED connected
      BY DEF CommStep, S!CommStep, S!ReadCommand, S!CutCommand, S!AnswerStart, S!AnswerStop,
        S!ReadBody, S!ReadMisplaced, S!ReadGarbled, S!ReadTimeout, S!Disconnected,
        S!DispatchBegin, S!DispatchSkip, S!DispatchCommand, S!DispatchBody,
        S!DispatchEnd, S!LoseClient, S!ThreadEnd, S!link
    <2>4. QED
      BY <2>1, <2>2, <2>3
  <1>4. ASSUME NEW t \in Seq(L!Token), S!L!ServerReads(c, t), Suffix(s, t),
               UNCHANGED <<down, serving>>
        PROVE /\ up' \in [Client -> Seq(L!Token)] /\ down' \in [Client -> Seq(L!Token)]
              /\ \A d \in Client \ {c} : up'[d] = up[d]
              /\ Suffix(up[c], up'[c])
              /\ serving' \in BOOLEAN
    BY <1>1, <1>2, <1>4, ServerReadsFrom
  <1>5. CASE UNCHANGED <<up, down>> /\ serving' \in BOOLEAN
    BY <1>2, <1>3, <1>5
  <1>6. CASE UNCHANGED link
    BY <1>2, <1>5, <1>6 DEF link
  <1>7. CASE S!ReadCommand(c)
    <2>1. /\ UNCHANGED <<down, serving>> /\ L!HasWord(s)
          /\ S!L!ServerReads(c, L!AfterWord(s))
      BY <1>7, SameLink DEF S!ReadCommand
    <2>2. QED
      BY <1>2, <1>3, <1>4, <2>1, AfterWordIsTyped
  <1>8. CASE S!CutCommand(c)
    <2>1. /\ UNCHANGED <<down, serving>> /\ L!WordIsCut(c, s)
          /\ S!L!ServerReads(c, L!Take(s, 1))
      BY <1>8, SameLink DEF S!CutCommand
    <2>2. QED
      BY <1>2, <1>3, <1>4, <2>1, CutIsTyped
  <1>9. CASE S!ReadBody(c)
    <2>1. /\ UNCHANGED <<down, serving>> /\ s # <<>> /\ S!L!ServerReads(c, Tail(s))
      BY <1>9, SameLink DEF S!ReadBody, L!IsMessage
    <2>2. QED
      BY <1>2, <1>3, <1>4, <2>1, SuffixTail
  <1>10. CASE S!ReadMisplaced(c)
    <2>1. UNCHANGED <<up, down>> /\ serving' \in BOOLEAN
      BY <1>2, <1>10 DEF S!ReadMisplaced
    <2>2. QED
      BY <1>5, <2>1
  <1>11. CASE S!ReadGarbled(c)
    <2>1. /\ UNCHANGED <<down, serving>>
          /\ \E k \in L!Pieces(s, need[c]) : S!L!ServerReads(c, L!Take(s, k))
      BY <1>11, SameLink DEF S!ReadGarbled
    <2>2. QED
      BY <1>2, <1>3, <1>4, <2>1, PieceIsTyped
  <1>12. CASE S!ReadTimeout(c)
    <2>1. /\ UNCHANGED <<down, serving>>
          /\ \/ up' = up
             \/ \E t \in L!MessageCuts(s) : S!L!ServerReads(c, t)
      BY <1>12, SameLink DEF S!ReadTimeout
    <2>2. QED
      BY <1>2, <1>3, <1>4, <1>5, <2>1, MessageCutIsTyped
  <1>13. ASSUME NEW d \in Client, NEW t \in L!Token, S!L!ServerWrites(d, t), up' = up
         PROVE /\ down' \in [Client -> Seq(L!Token)] /\ serving' \in BOOLEAN
               /\ up' \in [Client -> Seq(L!Token)]
               /\ \A e \in Client \ {c} : up'[e] = up[e]
               /\ Suffix(up[c], up'[c])
    BY <1>1, <1>2, <1>13, ServerWritesTo
  <1>14. CASE S!AnswerStart(c) \/ S!AnswerStop(c)
    BY <1>3, <1>13, <1>14, Tokens DEF S!AnswerStart, S!AnswerStop
  <1>15. todo # <<>> => Head(todo) \in Client
    BY <1>1, HeadTailProperties DEF ServerVariablesTyped
  <1>16. CASE S!DispatchCommand(c)
    BY <1>3, <1>13, <1>15, <1>16, Tokens DEF S!DispatchCommand
  <1>17. CASE S!DispatchBody(c)
    <2>1. Head(todo) \in Client
      BY <1>1, <1>15, <1>17 DEF S!DispatchBody, ServerVariablesTyped
    <2>2. up' = up /\ \E n \in BodySize : S!L!ServerWrites(Head(todo), S!L!Body(Len(bus), n))
      BY <1>17 DEF S!DispatchBody
    <2>3. QED
      BY <1>2, <1>3, <1>13, <2>1, <2>2, Tokens
  <1>18. QED
    BY <1>6, <1>7, <1>8, <1>9, <1>10, <1>11, <1>12, <1>14, <1>16, <1>17
    DEF CommStep, S!CommStep, S!Disconnected, S!DispatchBegin, S!DispatchSkip,
        S!DispatchEnd, S!LoseClient, S!ThreadEnd, S!link, link

(* It changes nothing of the other clients but what is written to them.    *)
Served(d) == <<comm[d], m_controller_started[d], msg[d], need[d], late[d]>>

LEMMA CommFrame ==
  ASSUME TypeOK, NEW c \in Client, CommStep(c)
  PROVE /\ comm' \in [Client -> S!Comm]
        /\ m_controller_started' \in [Client -> BOOLEAN]
        /\ msg' \in [Client -> Nat] /\ need' \in [Client -> Nat]
        /\ late' \in [Client -> BOOLEAN]
        /\ \A d \in Client \ {c} : Served(d)' = Served(d)
        /\ newcomer' = newcomer /\ deleted' = deleted
        /\ late[c] => late'[c]
  <1>1. ServerVariablesTyped
    BY ServerVariablesAreTyped
  <1>2. /\ comm \in [Client -> S!Comm]
        /\ m_controller_started \in [Client -> BOOLEAN]
        /\ msg \in [Client -> Nat] /\ need \in [Client -> Nat]
        /\ late \in [Client -> BOOLEAN]
    BY <1>1 DEF ServerVariablesTyped
  <1>3. {"command", "start", "stop", "body", "garbled", "dispatch", "send", "lost",
         "leaving", "ended"} \subseteq S!Comm
    BY DEF S!Comm
  <1>4. ASSUME NEW s \in S!Comm, S!Goto(c, s)
        PROVE /\ comm' \in [Client -> S!Comm]
              /\ \A d \in Client \ {c} : comm'[d] = comm[d]
    BY <1>2, <1>4 DEF S!Goto
  <1>5. /\ comm' \in [Client -> S!Comm]
        /\ \A d \in Client \ {c} : comm'[d] = comm[d]
    <2>1. CASE comm' = comm
      BY <1>2, <2>1
    <2>2. CASE S!ReadCommand(c)
      BY <1>3, <1>4, <2>2, ObeyGoes DEF S!ReadCommand
    <2>3. CASE S!AnswerStart(c) \/ S!AnswerStop(c) \/ S!ReadBody(c) \/ S!ReadTimeout(c)
               \/ S!Disconnected(c) \/ S!DispatchBegin(c) \/ S!DispatchEnd(c)
               \/ S!LoseClient(c) \/ S!ThreadEnd(c)
      BY <1>3, <1>4, <2>3
      DEF S!AnswerStart, S!AnswerStop, S!ReadBody, S!ReadTimeout, S!Disconnected,
          S!DispatchBegin, S!DispatchEnd, S!LoseClient, S!ThreadEnd
    <2>4. CASE S!ReadMisplaced(c) \/ S!ReadGarbled(c)
      BY <1>3, <1>4, <2>1, <2>4 DEF S!ReadMisplaced, S!ReadGarbled
    <2>5. QED
      BY <2>1, <2>2, <2>3, <2>4
      DEF CommStep, S!CommStep, S!CutCommand, S!DispatchSkip, S!DispatchCommand,
          S!DispatchBody
  <1>6. /\ m_controller_started' \in [Client -> BOOLEAN]
        /\ \A d \in Client \ {c} : m_controller_started'[d] = m_controller_started[d]
    <2>1. \/ m_controller_started' = m_controller_started
          \/ m_controller_started' = [m_controller_started EXCEPT ![c] = TRUE]
          \/ m_controller_started' = [m_controller_started EXCEPT ![c] = FALSE]
      BY DEF CommStep, S!CommStep, S!ReadCommand, S!CutCommand, S!AnswerStart, S!AnswerStop,
        S!ReadBody, S!ReadMisplaced, S!ReadGarbled, S!ReadTimeout, S!Disconnected,
        S!DispatchBegin, S!DispatchSkip, S!DispatchCommand, S!DispatchBody,
        S!DispatchEnd, S!LoseClient, S!ThreadEnd
    <2>2. QED
      BY <1>2, <2>1
  <1>7. /\ msg' \in [Client -> Nat]
        /\ \A d \in Client \ {c} : msg'[d] = msg[d]
    <2>1. CASE msg' = msg
      BY <1>2, <2>1
    <2>2. CASE S!ReadBody(c)
      <3>1. up[c] \in Seq(L!Token) /\ up[c] # <<>>
        BY <2>2, SameLink DEF S!ReadBody, L!IsMessage, TypeOK, L!TypeOK
      <3>2. Head(up[c]).body \in Nat
        BY <3>1, SizeIsTyped DEF L!Token, L!Garbled
      <3>3. msg' = [msg EXCEPT ![c] = Head(up[c]).body]
        BY <2>2 DEF S!ReadBody
      <3>4. QED
        BY <1>2, <3>2, <3>3
    <2>3. CASE S!ReadGarbled(c)
      <3>1. msg' = msg \/ msg' = [msg EXCEPT ![c] = S!L!Garbled]
        BY <2>3 DEF S!ReadGarbled
      <3>2. S!L!Garbled \in Nat
        BY DEF S!L!Garbled
      <3>3. QED
        BY <1>2, <3>1, <3>2
    <2>4. QED
      BY <2>1, <2>2, <2>3
      DEF CommStep, S!CommStep, S!ReadCommand, S!CutCommand, S!AnswerStart, S!AnswerStop,
        S!ReadBody, S!ReadMisplaced, S!ReadGarbled, S!ReadTimeout, S!Disconnected,
        S!DispatchBegin, S!DispatchSkip, S!DispatchCommand, S!DispatchBody,
        S!DispatchEnd, S!LoseClient, S!ThreadEnd,
          S!reading
  <1>8. /\ need' \in [Client -> Nat]
        /\ \A d \in Client \ {c} : need'[d] = need[d]
    <2>1. CASE need' = need
      BY <1>2, <2>1
    <2>2. CASE S!ReadMisplaced(c) /\ need' # need
      <3>1. PICK n \in BodySize : need' = [need EXCEPT ![c] = n]
        BY <2>2 DEF S!ReadMisplaced
      <3>2. n \in Nat
        BY Tokens
      <3>3. QED
        BY <1>2, <3>1, <3>2
    <2>3. CASE S!ReadGarbled(c)
      <3>1. PICK k \in L!Pieces(up[c], need[c]) : need' = [need EXCEPT ![c] = @ - k]
        BY <2>3, SameLink DEF S!ReadGarbled
      <3>2. need[c] - k \in Nat
        BY <1>2, PieceIsTyped DEF TypeOK, L!TypeOK
      <3>3. QED
        BY <1>2, <3>1, <3>2
    <2>4. CASE S!ReadTimeout(c)
      <3>1. need' = [need EXCEPT ![c] = 0]
        BY <2>4 DEF S!ReadTimeout
      <3>2. QED
        BY <1>2, <3>1
    <2>5. QED
      BY <2>1, <2>2, <2>3, <2>4
      DEF CommStep, S!CommStep, S!ReadCommand, S!CutCommand, S!AnswerStart, S!AnswerStop,
        S!ReadBody, S!ReadMisplaced, S!ReadGarbled, S!ReadTimeout, S!Disconnected,
        S!DispatchBegin, S!DispatchSkip, S!DispatchCommand, S!DispatchBody,
        S!DispatchEnd, S!LoseClient, S!ThreadEnd,
          S!reading
  <1>9. /\ late' \in [Client -> BOOLEAN]
        /\ \A d \in Client \ {c} : late'[d] = late[d]
        /\ late[c] => late'[c]
    <2>1. late' = late \/ late' = [late EXCEPT ![c] = TRUE]
      BY DEF CommStep, S!CommStep, S!ReadCommand, S!CutCommand, S!AnswerStart, S!AnswerStop,
        S!ReadBody, S!ReadMisplaced, S!ReadGarbled, S!ReadTimeout, S!Disconnected,
        S!DispatchBegin, S!DispatchSkip, S!DispatchCommand, S!DispatchBody,
        S!DispatchEnd, S!LoseClient, S!ThreadEnd,
          S!reading
    <2>2. QED
      BY <1>2, <2>1
  <1>10. newcomer' = newcomer /\ deleted' = deleted
    BY DEF CommStep, S!CommStep, S!ReadCommand, S!CutCommand, S!AnswerStart, S!AnswerStop,
        S!ReadBody, S!ReadMisplaced, S!ReadGarbled, S!ReadTimeout, S!Disconnected,
        S!DispatchBegin, S!DispatchSkip, S!DispatchCommand, S!DispatchBody,
        S!DispatchEnd, S!LoseClient, S!ThreadEnd,
        S!lists
  <1>11. QED
    BY <1>5, <1>6, <1>7, <1>8, <1>9, <1>10 DEF Served

LEMMA ServerTypesKept ==
  ASSUME TypeOK, UNCHANGED controllers, ServerVariablesTyped', connected' = connected,
         up' \in [Client -> Seq(L!Token)], down' \in [Client -> Seq(L!Token)],
         serving' \in BOOLEAN
  PROVE TypeOK'
  <1>1. K!TypeOK'
    BY DEF TypeOK, K!TypeOK, controllers
  <1>2. S!TypeOK'
    BY DEF ServerVariablesTyped, S!TypeOK, S!Comm, Message
  <1>3. L!TypeOK'
    BY DEF TypeOK, L!TypeOK, L!Token, L!Command, L!Garbled
  <1>4. QED
    BY <1>1, <1>2, <1>3 DEF TypeOK

LEMMA ServerTypes ==
  ASSUME TypeOK, Distinct(m_clients), MutexInv,
         (\E c \in Client : CommStep(c)) \/ ListenStep \/ CleanupStep
  PROVE TypeOK'
  <1>1. ServerVariablesTyped /\ L!TypeOK
    BY ServerVariablesAreTyped DEF TypeOK
  <1> USE <1>1 DEF ServerVariablesTyped
  <1>2. ASSUME todo # <<>> PROVE Tail(todo) \in Seq(Client) /\ Head(todo) \in Client
    BY <1>2, HeadTailProperties
  <1>3. CASE \E c \in Client : CommStep(c)
    <2>1. PICK c \in Client : CommStep(c)
      BY <1>3
    <2>2. m_mutex' \in Client \cup {NoThread, Cleanup}
      BY <2>1 DEF CommStep, S!CommStep, S!ReadCommand, S!CutCommand, S!AnswerStart, S!AnswerStop,
        S!ReadBody, S!ReadMisplaced, S!ReadGarbled, S!ReadTimeout, S!Disconnected,
        S!DispatchBegin, S!DispatchSkip, S!DispatchCommand, S!DispatchBody,
        S!DispatchEnd, S!LoseClient, S!ThreadEnd
    <2>3. m_clients' \in Seq(Client) /\ m_disconnected_clients' \in Seq(Client)
      <3>1. CASE S!LoseClient(c)
        <4>1. Append(m_disconnected_clients, c) \in Seq(Client)
          BY AppendProperties
        <4>2. QED
          BY <3>1, <4>1, WithoutClient DEF S!LoseClient
      <3>2. CASE UNCHANGED S!lists
        BY <3>2 DEF S!lists
      <3>3. QED
        BY <2>1, <3>1, <3>2
        DEF CommStep, S!CommStep, S!ReadCommand, S!CutCommand, S!AnswerStart, S!AnswerStop,
        S!ReadBody, S!ReadMisplaced, S!ReadGarbled, S!ReadTimeout, S!Disconnected,
        S!DispatchBegin, S!DispatchSkip, S!DispatchCommand, S!DispatchBody,
        S!DispatchEnd, S!LoseClient, S!ThreadEnd
    <2>4. /\ bus' \in Seq(Message)
          /\ todo' \in Seq(Client) /\ half' \in BOOLEAN /\ (half' => todo' # <<>>)
      <3>1. CASE S!DispatchBegin(c)
        <4>1. [from |-> c, msg |-> msg[c]] \in Message
          BY DEF Message
        <4>2. Append(bus, [from |-> c, msg |-> msg[c]]) \in Seq(Message)
          BY <4>1, AppendProperties
        <4>3. ~half
          BY <3>1, TcpCanBusAssumption DEF S!DispatchBegin, MutexInv
        <4>4. QED
          BY <3>1, <4>2, <4>3 DEF S!DispatchBegin
      <3>2. CASE S!DispatchSkip(c) \/ S!DispatchCommand(c) \/ S!DispatchBody(c)
        BY <1>2, <3>2 DEF S!DispatchSkip, S!DispatchCommand, S!DispatchBody, S!Served
      <3>3. CASE UNCHANGED S!dispatching
        BY <3>3 DEF S!dispatching
      <3>4. QED
        BY <2>1, <3>1, <3>2, <3>3
        DEF CommStep, S!CommStep, S!ReadCommand, S!CutCommand, S!AnswerStart, S!AnswerStop,
        S!ReadBody, S!ReadMisplaced, S!ReadGarbled, S!ReadTimeout, S!Disconnected,
        S!DispatchBegin, S!DispatchSkip, S!DispatchCommand, S!DispatchBody,
        S!DispatchEnd, S!LoseClient, S!ThreadEnd
    <2>5. ServerVariablesTyped'
      BY <2>1, <2>2, <2>3, <2>4, CommFrame DEF S!Comm, Message
    <2>6. QED
      BY <2>1, <2>5, CommStreams, ServerTypesKept
  <1>4. ASSUME UNCHANGED link PROVE
          /\ up' \in [Client -> Seq(L!Token)] /\ down' \in [Client -> Seq(L!Token)]
          /\ serving' \in BOOLEAN /\ connected' = connected
    BY <1>4 DEF link, L!TypeOK
  <1>5. CASE ListenStep
    <2>1. PICK c \in Client : S!Accept(c) \/ S!StartClient(c)
      BY <1>5 DEF ListenStep, S!ListenStep
    <2>2. Append(m_clients, c) \in Seq(Client)
      BY AppendProperties
    <2>3. UNCHANGED <<link, controllers>>
      BY <1>5 DEF ListenStep, S!ListenStep, S!Accept, S!StartClient, S!link, link
    <2>4. CASE S!Accept(c)
      <3>1. ServerVariablesTyped'
        BY <2>2, <2>4 DEF S!Accept, S!reading, S!dispatching, S!Comm, Message
      <3>2. QED
        BY <1>4, <2>3, <3>1, ServerTypesKept
    <2>5. CASE S!StartClient(c)
      <3>1. comm' \in [Client -> S!Comm]
        BY <2>5 DEF S!StartClient, S!Goto, S!Comm
      <3>2. ServerVariablesTyped'
        BY <2>5, <3>1 DEF S!StartClient, S!reading, S!dispatching, S!Comm, Message
      <3>3. QED
        BY <1>4, <2>3, <3>2, ServerTypesKept
    <2>6. QED
      BY <2>1, <2>4, <2>5
  <1>6. CASE CleanupStep
    <2>1. UNCHANGED <<link, controllers>>
      BY <1>6
      DEF CleanupStep, S!CleanupStep, S!CleanupBegin, S!CleanupDelete, S!CleanupEnd,
          S!link, link
    <2>2. /\ m_disconnected_clients' \in Seq(Client) /\ deleted' \in SUBSET Client
          /\ m_mutex' \in Client \cup {NoThread, Cleanup}
          /\ UNCHANGED <<m_clients, newcomer, comm, m_controller_started, msg, need,
                         late, todo, half, bus>>
      <3>1. CASE S!CleanupDelete
        BY <3>1, HeadTailProperties DEF S!CleanupDelete, S!reading, S!dispatching
      <3>2. CASE S!CleanupBegin \/ S!CleanupEnd
        BY <3>2 DEF S!CleanupBegin, S!CleanupEnd, S!lists, S!reading, S!dispatching
      <3>3. QED
        BY <1>6, <3>1, <3>2 DEF CleanupStep, S!CleanupStep
    <2>3. ServerVariablesTyped'
      BY <2>2 DEF S!Comm, Message
    <2>4. QED
      BY <1>4, <2>1, <2>3, ServerTypesKept
  <1>7. QED
    BY <1>3, <1>5, <1>6

-----------------------------------------------------------------------------
(* The lists. *)
ListsTypes ==
  /\ m_clients \in Seq(Client) /\ m_disconnected_clients \in Seq(Client)
  /\ newcomer \in Client \cup {NoThread} /\ comm \in [Client -> S!Comm]
  /\ deleted \in SUBSET Client /\ NoThread \notin Client

LEMMA ListsTyped == TypeOK => ListsTypes
  BY TcpCanBusAssumption DEF TypeOK, S!TypeOK, ListsTypes

(* A thread of a listed client stays one. *)
LEMMA ListsKept ==
  ASSUME TypeOK, ListsInv, UNCHANGED S!lists, NEW c \in Client, NEW s \in Active,
         comm[c] \in Active, comm' = [comm EXCEPT ![c] = s]
  PROVE ListsInv'
  <1>1. \A d \in Client : comm'[d] = IF d = c THEN s ELSE comm[d]
    BY ListsTyped DEF ListsTypes
  <1>2. "none" \notin Active /\ "leaving" \notin Active /\ "ended" \notin Active
    BY DEF Active
  <1>3. c \notin deleted
    BY <1>2 DEF ListsInv
  <1>4. newcomer # c
    BY <1>2, ListsTyped DEF ListsInv, ListsTypes
  <1>5. newcomer' # NoThread => comm'[newcomer'] = "none"
    BY <1>1, <1>4, ListsTyped DEF ListsInv, S!lists, ListsTypes
  <1>6. ASSUME NEW d \in Client
        PROVE /\ d \in Elems(m_clients') <=> newcomer' = d \/ comm'[d] \in Active
              /\ d \in Elems(m_disconnected_clients') <=>
                   comm'[d] \in {"leaving", "ended"} /\ d \notin deleted'
              /\ d \in deleted' => comm'[d] = "ended"
    BY <1>1, <1>2, <1>3, <1>4 DEF ListsInv, S!lists
  <1>7. QED
    BY <1>5, <1>6 DEF ListsInv, S!lists, Active, S!Comm

LEMMA ListsStep ==
  ASSUME TypeOK, ListsInv, Next
  PROVE ListsInv'
  <1>1. CASE UNCHANGED <<S!lists, comm>>
    BY <1>1 DEF ListsInv, S!lists, Active, S!Comm
  <1>2. {"command", "start", "stop", "body", "garbled", "dispatch", "send", "lost"}
          \subseteq Active
    BY DEF Active, S!Comm
  <1>3. ASSUME NEW c \in Client, CommStep(c) PROVE ListsInv'
    <2>1. CASE S!LoseClient(c)
      <3> DEFINE s == Append(m_disconnected_clients, c)
      <3> DEFINE t == S!Without(m_clients, c)
      <3>1. /\ Elems(s) = Elems(m_disconnected_clients) \cup {c}
            /\ c \notin Elems(m_disconnected_clients) => Distinct(s)
            /\ Elems(t) = Elems(m_clients) \ {c} /\ Distinct(t)
        BY ListsTyped, ElemsAppend, WithoutClient DEF ListsInv, ListsTypes
      <3>2. /\ m_clients' = t /\ m_disconnected_clients' = s
            /\ newcomer' = newcomer /\ deleted' = deleted
            /\ \A d \in Client : comm'[d] = IF d = c THEN "leaving" ELSE comm[d]
            /\ comm[c] = "lost"
        BY <2>1, ListsTyped DEF S!LoseClient, S!Goto, ListsTypes
      <3> HIDE DEF s, t
      <3>3. "leaving" \notin Active /\ "lost" \in Active
        BY DEF Active, S!Comm
      <3>4. newcomer # c /\ c \notin deleted /\ c \notin Elems(m_disconnected_clients)
        BY <3>2, ListsTyped DEF ListsInv, ListsTypes
      <3>5. ASSUME NEW d \in Client
            PROVE /\ d \in Elems(m_clients') <=> newcomer' = d \/ comm'[d] \in Active
                  /\ d \in Elems(m_disconnected_clients') <=>
                       comm'[d] \in {"leaving", "ended"} /\ d \notin deleted'
                  /\ d \in deleted' => comm'[d] = "ended"
        BY <3>1, <3>2, <3>3, <3>4 DEF ListsInv
      <3>6. newcomer' # NoThread => comm'[newcomer'] = "none"
        BY <3>2, <3>4, ListsTyped DEF ListsInv, ListsTypes
      <3>7. QED
        BY <3>1, <3>2, <3>4, <3>5, <3>6 DEF ListsInv, Active, S!Comm
    <2>2. CASE S!ThreadEnd(c)
      <3>1. /\ UNCHANGED S!lists /\ comm[c] = "leaving"
            /\ \A d \in Client : comm'[d] = IF d = c THEN "ended" ELSE comm[d]
        BY <2>2, ListsTyped DEF S!ThreadEnd, S!Goto, ListsTypes
      <3>2. "leaving" \notin Active /\ "ended" \notin Active
        BY DEF Active
      <3>3. ASSUME NEW d \in Client
            PROVE /\ d \in Elems(m_clients') <=> newcomer' = d \/ comm'[d] \in Active
                  /\ d \in Elems(m_disconnected_clients') <=>
                       comm'[d] \in {"leaving", "ended"} /\ d \notin deleted'
                  /\ d \in deleted' => comm'[d] = "ended"
        BY <3>1, <3>2 DEF ListsInv, S!lists
      <3>4. newcomer' # NoThread => comm'[newcomer'] = "none"
        BY <3>1, ListsTyped DEF ListsInv, ListsTypes, S!lists
      <3>5. QED
        BY <3>1, <3>3, <3>4 DEF ListsInv, S!lists, Active, S!Comm
    <2>3. CASE S!ReadCommand(c)
      <3>1. \E s \in {"command", "start", "stop", "body"} : comm' = [comm EXCEPT ![c] = s]
        BY <2>3, ObeyGoes DEF S!ReadCommand, S!Goto
      <3>2. QED
        BY <1>2, <2>3, <3>1, ListsKept DEF S!ReadCommand
    <2>4. CASE S!AnswerStart(c) \/ S!AnswerStop(c)
      BY <1>2, <2>4, ListsKept DEF S!AnswerStart, S!AnswerStop, S!Goto
    <2>5. CASE S!ReadBody(c) \/ S!ReadTimeout(c) \/ S!Disconnected(c)
      BY <1>2, <2>5, ListsKept DEF S!ReadBody, S!ReadTimeout, S!Disconnected, S!Goto
    <2>6. CASE S!DispatchBegin(c) \/ S!DispatchEnd(c)
      BY <1>2, <2>6, ListsKept DEF S!DispatchBegin, S!DispatchEnd, S!Goto
    <2>7. CASE UNCHANGED <<S!lists, comm>>
      BY <1>1, <2>7
    <2>8. CASE S!ReadMisplaced(c) \/ S!ReadGarbled(c)
      BY <1>2, <2>7, <2>8, ListsKept DEF S!ReadMisplaced, S!ReadGarbled, S!Goto
    <2>9. QED
      BY <1>3, <2>1, <2>2, <2>3, <2>4, <2>5, <2>6, <2>7, <2>8
      DEF CommStep, S!CommStep, S!CutCommand, S!DispatchSkip, S!DispatchCommand,
          S!DispatchBody
  <1>4. CASE ListenStep
    <2>1. PICK c \in Client : S!Accept(c) \/ S!StartClient(c)
      BY <1>4 DEF ListenStep, S!ListenStep
    <2>2. CASE S!Accept(c)
      <3>1. Elems(Append(m_clients, c)) = Elems(m_clients) \cup {c}
            /\ (c \notin Elems(m_clients) => Distinct(Append(m_clients, c)))
        BY ListsTyped, ElemsAppend DEF ListsInv, ListsTypes
      <3>2. c \notin Elems(m_clients)
        BY <2>2, ListsTyped DEF S!Accept, ListsInv, ListsTypes, Active
      <3>3. QED
        BY <2>2, <3>1, <3>2, ListsTyped
        DEF S!Accept, ListsInv, ListsTypes, Active, S!Comm
    <2>3. CASE S!StartClient(c)
      <3>1. \A d \in Client : comm'[d] = IF d = c THEN "command" ELSE comm[d]
        BY <2>3, ListsTyped DEF S!StartClient, S!Goto, ListsTypes
      <3>2. comm[c] = "none" /\ newcomer = c /\ newcomer' = NoThread
        BY <2>3, ListsTyped DEF S!StartClient, ListsInv, ListsTypes
      <3>3. "none" \notin Active /\ "command" \in Active
        BY DEF Active, S!Comm
      <3>4. ASSUME NEW d \in Client
            PROVE /\ d \in Elems(m_clients') <=> newcomer' = d \/ comm'[d] \in Active
                  /\ d \in Elems(m_disconnected_clients') <=>
                       comm'[d] \in {"leaving", "ended"} /\ d \notin deleted'
                  /\ d \in deleted' => comm'[d] = "ended"
        BY <2>3, <3>1, <3>2, <3>3, ListsTyped DEF ListsInv, ListsTypes, S!StartClient
      <3>5. QED
        BY <2>3, <3>2, <3>4 DEF S!StartClient, ListsInv, Active, S!Comm
    <2>4. QED
      BY <2>1, <2>2, <2>3
  <1>5. CASE CleanupStep
    <2>1. CASE S!CleanupDelete
      <3> DEFINE c == Head(m_disconnected_clients)
      <3> DEFINE t == Tail(m_disconnected_clients)
      <3>1. /\ c \in Client /\ c \in Elems(m_disconnected_clients)
            /\ Elems(m_disconnected_clients) = Elems(t) \cup {c}
            /\ Distinct(t) /\ c \notin Elems(t)
        BY <2>1, ListsTyped, ElemsTail, HeadTailProperties
        DEF S!CleanupDelete, ListsInv, ListsTypes
      <3>2. /\ comm[c] = "ended" /\ deleted' = deleted \cup {c}
            /\ m_disconnected_clients' = t /\ comm' = comm
            /\ m_clients' = m_clients /\ newcomer' = newcomer
        BY <2>1 DEF S!CleanupDelete
      <3> HIDE DEF c, t
      <3>3. QED
        BY <3>1, <3>2 DEF ListsInv, Active, S!Comm
    <2>2. CASE UNCHANGED <<S!lists, comm>>
      BY <1>1, <2>2
    <2>3. QED
      BY <1>5, <2>1, <2>2
      DEF CleanupStep, S!CleanupStep, S!CleanupBegin, S!CleanupEnd
  <1>6. CASE UNCHANGED server
    BY <1>1, <1>6 DEF server, S!lists
  <1>7. QED
    BY <1>3, <1>4, <1>5, <1>6 DEF Next, Request, AppStep, SendBody, RxStep

-----------------------------------------------------------------------------
(* The mutex and the dispatch. *)
ServerTyped ==
  /\ ListsTypes
  /\ m_mutex \in Client \cup {NoThread, Cleanup}
  /\ NoThread \notin Client /\ Cleanup \notin Client
  /\ m_controller_started \in [Client -> BOOLEAN]
  /\ msg \in [Client -> Nat] /\ bus \in Seq(Message)
  /\ todo \in Seq(Client) /\ half \in BOOLEAN /\ (half => todo # <<>>)

LEMMA ServerIsTyped == TypeOK => ServerTyped
  BY ListsTyped, TcpCanBusAssumption DEF TypeOK, S!TypeOK, ServerTyped, Message

(* A thread that does not dispatch steps, and no list of clients shrinks.  *)
LEMMA MutexKept ==
  ASSUME TypeOK, MutexInv, NEW c \in Client, NEW s \in S!Comm \ {"send"},
         comm[c] # "send", comm' = [comm EXCEPT ![c] = s],
         m_mutex' = m_mutex, todo' = todo, m_clients' = m_clients
  PROVE MutexInv'
  BY ServerIsTyped DEF MutexInv, ServerTyped, ListsTypes

LEMMA MutexStep ==
  ASSUME TypeOK, ListsInv, MutexInv, Next
  PROVE MutexInv'
  <1>1. CASE UNCHANGED <<comm, m_mutex, todo, m_clients>>
    BY <1>1 DEF MutexInv
  <1>2. {"command", "start", "stop", "body", "garbled", "dispatch", "lost", "ended"}
          \subseteq S!Comm \ {"send"}
    BY DEF S!Comm
  <1>3. Elems(<<>>) = {} /\ Distinct(<<>>)
    BY DEF Elems, Distinct
  <1>4. m_mutex \notin Client => todo = <<>>
    BY DEF MutexInv
  <1>5. ASSUME NEW c \in Client, CommStep(c) PROVE MutexInv'
    <2>1. CASE S!ReadCommand(c)
      <3>1. \E s \in {"command", "start", "stop", "body"} : comm' = [comm EXCEPT ![c] = s]
        BY <2>1, ObeyGoes DEF S!ReadCommand, S!Goto
      <3>2. QED
        BY <1>2, <2>1, <3>1, MutexKept DEF S!ReadCommand, S!lists, S!dispatching
    <2>2. CASE S!AnswerStart(c) \/ S!AnswerStop(c)
      BY <1>2, <2>2, MutexKept
      DEF S!AnswerStart, S!AnswerStop, S!Goto, S!lists, S!dispatching
    <2>3. CASE S!ReadBody(c) \/ S!ReadTimeout(c) \/ S!Disconnected(c)
      BY <1>2, <2>3, MutexKept
      DEF S!ReadBody, S!ReadTimeout, S!Disconnected, S!Goto, S!lists, S!dispatching
    <2>4. CASE S!ThreadEnd(c)
      BY <1>2, <2>4, MutexKept DEF S!ThreadEnd, S!Goto, S!lists, S!dispatching
    <2>5. CASE S!DispatchBegin(c)
      <3>1. \A d \in Client : comm'[d] = IF d = c THEN "send" ELSE comm[d]
        BY <2>5, ServerIsTyped DEF S!DispatchBegin, S!Goto, ServerTyped, ListsTypes
      <3>2. QED
        BY <2>5, <3>1, ServerIsTyped
        DEF S!DispatchBegin, S!lists, MutexInv, ListsInv, ServerTyped
    <2>6. CASE S!DispatchSkip(c) \/ S!DispatchCommand(c) \/ S!DispatchBody(c)
      <3>1. CASE todo' = todo
        BY <1>1, <2>6, <3>1
        DEF S!DispatchSkip, S!DispatchCommand, S!DispatchBody, S!lists
      <3>2. CASE todo' = Tail(todo)
        <4>1. todo # <<>> /\ todo \in Seq(Client)
          BY <2>6, ServerIsTyped
          DEF S!DispatchSkip, S!DispatchCommand, S!DispatchBody, ServerTyped
        <4>2. Elems(Tail(todo)) \subseteq Elems(todo) /\ Distinct(Tail(todo))
          BY <4>1, ElemsTail DEF MutexInv
        <4>3. m_mutex \in Client
          BY <4>1 DEF MutexInv
        <4>4. QED
          BY <2>6, <3>2, <4>2, <4>3
          DEF MutexInv, S!DispatchSkip, S!DispatchCommand, S!DispatchBody, S!lists
      <3>3. QED
        BY <2>6, <3>1, <3>2
        DEF S!DispatchSkip, S!DispatchCommand, S!DispatchBody, S!Served
    <2>7. CASE S!DispatchEnd(c)
      <3>1. \A d \in Client : comm'[d] = IF d = c THEN "command" ELSE comm[d]
        BY <2>7, ServerIsTyped DEF S!DispatchEnd, S!Goto, ServerTyped, ListsTypes
      <3>2. m_mutex = c /\ m_mutex' = NoThread /\ todo' = <<>>
        BY <2>7 DEF S!DispatchEnd, S!dispatching, MutexInv
      <3>3. QED
        BY <1>3, <3>1, <3>2, ServerIsTyped DEF MutexInv, ServerTyped
    <2>8. CASE S!LoseClient(c)
      <3>1. \A d \in Client : comm'[d] = IF d = c THEN "leaving" ELSE comm[d]
        BY <2>8, ServerIsTyped DEF S!LoseClient, S!Goto, ServerTyped, ListsTypes
      <3>2. comm[c] = "lost" /\ m_mutex = NoThread /\ m_mutex' = m_mutex /\ todo' = todo
        BY <2>8 DEF S!LoseClient, S!dispatching
      <3>3. todo = <<>>
        BY <1>4, <3>2, ServerIsTyped DEF ServerTyped
      <3>4. QED
        BY <1>3, <3>1, <3>2, <3>3, ServerIsTyped DEF MutexInv, ServerTyped
    <2>9. CASE S!CutCommand(c)
      BY <1>1, <2>9 DEF S!CutCommand, S!lists, S!dispatching
    <2>10. CASE S!ReadMisplaced(c) \/ S!ReadGarbled(c)
      <3>1. /\ m_mutex' = m_mutex /\ todo' = todo /\ m_clients' = m_clients
            /\ comm[c] # "send"
            /\ \/ comm' = comm
               \/ \E s \in {"garbled", "dispatch"} : comm' = [comm EXCEPT ![c] = s]
        BY <2>10 DEF S!ReadMisplaced, S!ReadGarbled, S!Goto, S!lists, S!dispatching
      <3>2. QED
        BY <1>1, <1>2, <3>1, MutexKept
    <2>11. QED
      BY <1>5, <2>1, <2>2, <2>3, <2>4, <2>5, <2>6, <2>7, <2>8, <2>9, <2>10
      DEF CommStep, S!CommStep
  <1>6. CASE ListenStep
    <2>1. PICK c \in Client : S!Accept(c) \/ S!StartClient(c)
      BY <1>6 DEF ListenStep, S!ListenStep
    <2>2. CASE S!Accept(c)
      <3>1. /\ comm' = comm /\ m_mutex' = m_mutex /\ todo' = todo
            /\ Elems(m_clients) \subseteq Elems(m_clients')
        BY <2>2, ListsTyped, ElemsAppend DEF S!Accept, ListsTypes, S!dispatching
      <3>2. QED
        BY <3>1 DEF MutexInv
    <2>3. CASE S!StartClient(c)
      <3>1. comm[c] = "none"
        BY <2>3, ListsTyped DEF S!StartClient, ListsInv, ListsTypes
      <3>2. QED
        BY <1>2, <2>3, <3>1, MutexKept DEF S!StartClient, S!Goto, S!dispatching
    <2>4. QED
      BY <2>1, <2>2, <2>3
  <1>7. CASE CleanupStep
    <2>1. CASE S!CleanupDelete
      BY <1>1, <2>1 DEF S!CleanupDelete, S!dispatching
    <2>2. CASE S!CleanupBegin \/ S!CleanupEnd
      <3>1. /\ m_mutex \notin Client /\ m_mutex' \notin Client
            /\ UNCHANGED <<comm, todo, m_clients>>
        BY <2>2, ServerIsTyped
        DEF S!CleanupBegin, S!CleanupEnd, S!lists, S!dispatching, ServerTyped
      <3>2. QED
        BY <3>1 DEF MutexInv
    <2>3. QED
      BY <1>7, <2>1, <2>2 DEF CleanupStep, S!CleanupStep
  <1>8. CASE UNCHANGED server
    BY <1>1, <1>8 DEF server
  <1>9. QED
    BY <1>5, <1>6, <1>7, <1>8 DEF Next, Request, AppStep, SendBody, RxStep

LEMMA DispatchStep ==
  ASSUME TypeOK, MutexInv, DispatchInv, Next
  PROVE DispatchInv'
  <1>1. CASE UNCHANGED <<m_mutex, bus, half, todo>>
    BY <1>1 DEF DispatchInv
  <1>2. m_mutex \notin Client => todo = <<>> /\ ~half
    BY ServerIsTyped DEF MutexInv, ServerTyped
  <1>3. ASSUME NEW c \in Client, CommStep(c) PROVE DispatchInv'
    <2>1. CASE S!DispatchBegin(c)
      <3> DEFINE e == [from |-> c, msg |-> msg[c]]
      <3>1. e \in Message /\ e.from = c
        BY ServerIsTyped DEF Message, ServerTyped
      <3>2. /\ bus' = Append(bus, e) /\ m_mutex' = c /\ ~half'
        BY <1>2, <2>1, ServerIsTyped DEF S!DispatchBegin, ServerTyped
      <3> HIDE DEF e
      <3>3. bus' # <<>> /\ bus'[Len(bus')] = e
        BY <3>1, <3>2, ServerIsTyped, AppendProperties, LenProperties DEF ServerTyped
      <3>4. QED
        BY <3>1, <3>2, <3>3 DEF DispatchInv
    <2>2. CASE S!DispatchSkip(c) \/ S!DispatchBody(c)
      BY <2>2 DEF S!DispatchSkip, S!DispatchBody, S!Served, DispatchInv
    <2>3. CASE S!DispatchCommand(c)
      <3>1. m_mutex = c
        BY <2>3 DEF S!DispatchCommand, MutexInv
      <3>2. QED
        BY <2>3, <3>1 DEF S!DispatchCommand, S!Served, DispatchInv
    <2>4. CASE S!DispatchEnd(c)
      BY <2>4, ServerIsTyped
      DEF S!DispatchEnd, S!dispatching, DispatchInv, ServerTyped
    <2>5. CASE UNCHANGED <<m_mutex, bus, half, todo>>
      BY <1>1, <2>5
    <2>6. QED
      BY <1>3, <2>1, <2>2, <2>3, <2>4, <2>5
      DEF CommStep, S!CommStep, S!ReadCommand, S!CutCommand, S!AnswerStart, S!AnswerStop,
          S!ReadBody, S!ReadMisplaced, S!ReadGarbled, S!ReadTimeout, S!Disconnected,
          S!LoseClient, S!ThreadEnd, S!dispatching
  <1>4. CASE ListenStep
    BY <1>1, <1>4 DEF ListenStep, S!ListenStep, S!Accept, S!StartClient, S!dispatching
  <1>5. CASE CleanupStep
    <2>1. CASE S!CleanupDelete
      BY <1>1, <2>1 DEF S!CleanupDelete, S!dispatching
    <2>2. CASE S!CleanupBegin \/ S!CleanupEnd
      <3>1. m_mutex \notin Client /\ m_mutex' \notin Client /\ half' = half
        BY <2>2, ServerIsTyped
        DEF S!CleanupBegin, S!CleanupEnd, S!lists, S!dispatching, ServerTyped
      <3>2. QED
        BY <1>2, <3>1 DEF DispatchInv
    <2>3. QED
      BY <1>5, <2>1, <2>2 DEF CleanupStep, S!CleanupStep
  <1>6. CASE UNCHANGED server
    BY <1>1, <1>6 DEF server
  <1>7. QED
    BY <1>3, <1>4, <1>5, <1>6 DEF Next, Request, AppStep, SendBody, RxStep

-----------------------------------------------------------------------------
(* The start of a controller. *)
AppTyped ==
  /\ app \in [Client -> AppState] /\ rx \in [Client -> RxState]
  /\ answered \in [Client -> BOOLEAN] /\ adrift \in [Client -> BOOLEAN]
  /\ connected \in [Client -> {"never", "open", "closed"}]
  /\ down \in [Client -> Seq(L!Token)]
  /\ comm \in [Client -> S!Comm] /\ newcomer \in Client \cup {NoThread}
  /\ m_controller_started \in [Client -> BOOLEAN]
  /\ NoThread \notin Client

LEMMA AppIsTyped == TypeOK => AppTyped
  BY TcpCanBusAssumption DEF TypeOK, L!TypeOK, K!TypeOK, S!TypeOK, AppTyped, AppState, RxState

(* Between messages the mutex of no client is held, and when one is, it is *)
(* that of the next client to serve.                                       *)
LEMMA NobodyBusy ==
  ASSUME NEW d \in Client
  PROVE /\ ~half => ~S!Busy(d)
        /\ (~half => ~S!Busy(d))'
        /\ UNCHANGED <<half, todo>> => S!Busy(d)' = S!Busy(d)
  BY DEF S!Busy

LEMMA HeadOfAppend ==
  ASSUME NEW T, NEW s \in Seq(T), NEW t \in T
  PROVE Append(s, t) # <<>> /\ Head(Append(s, t)) = IF s = <<>> THEN t ELSE Head(s)
  BY HeadTailAppend, AppendProperties

LEMMA StartKept ==
  ASSUME NEW d \in Client, StartOf(d), S!Busy(d)' => S!Busy(d),
         connected'[d] = connected[d], app'[d] = app[d], comm'[d] = comm[d],
         newcomer' # d \/ newcomer' = newcomer, down'[d] = down[d], rx'[d] = rx[d],
         answered'[d] = answered[d], adrift'[d] = adrift[d],
         m_controller_started'[d] = m_controller_started[d]
  PROVE StartOf(d)'
  BY DEF StartOf

LEMMA StartControllerStep ==
  ASSUME TypeOK, StartInv, NEW c \in Client,
         Request(c) \/ AppStep(c) \/ SendBody(c) \/ RxStep(c),
         NEW d \in Client
  PROVE StartOf(d)'
  <1>1. StartOf(d) /\ StartOf(c)
    BY DEF StartInv
  <1>2. /\ S!Busy(d)' = S!Busy(d) /\ comm' = comm /\ newcomer' = newcomer
        /\ m_controller_started' = m_controller_started
    BY NobodyBusy DEF Request, AppStep, SendBody, RxStep, server
  <1>3. CASE d # c
    <2>1. /\ connected'[d] = connected[d] /\ app'[d] = app[d] /\ rx'[d] = rx[d]
          /\ answered'[d] = answered[d] /\ adrift'[d] = adrift[d] /\ down'[d] = down[d]
      BY <1>3, ControllerFrame DEF Private
    <2>2. QED
      BY <1>1, <1>2, <2>1, StartKept
  <1>4. CASE d = c
    <2> USE <1>1, <1>2, <1>4
    <2>1. CASE K!Open(c)
      <3>1. app[c] = "closed" /\ rx[c] = "none" /\ (~S!Busy(c) \/ m_controller_started[c])
        BY <2>1 DEF K!Open, StartOf
      <3>2. QED
        BY <2>1, AppIsTyped DEF K!Open, K!Goto, K!reading, StartOf, AppTyped
    <2>2. CASE K!Vanish(c) /\ (connected[c] = "open" \/ rx[c] # "none")
      BY <2>2, AppIsTyped DEF K!Vanish, K!Goto, K!RxGoto, StartOf, AppTyped
    <2>3. CASE K!StartRequest(c)
      BY <2>3, AppIsTyped DEF K!StartRequest, K!Goto, K!reading, StartOf, AppTyped
    <2>4. CASE K!StartAnswer(c)
      <3>1. connected[c] = "open" /\ connected' = connected
        BY <2>4, AppIsTyped DEF K!StartAnswer, StartOf, AppTyped
      <3>2. rx[c] = "none"
        BY <2>4 DEF K!StartAnswer, StartOf
      <3>3. CASE app' = [app EXCEPT ![c] = "started"]
        <4>1. app'[c] = "started" /\ answered'[c] = TRUE
          BY <2>4, <3>3, AppIsTyped DEF K!StartAnswer, K!Goto, AppTyped
        <4>2. QED
          BY <3>1, <3>2, <4>1 DEF StartOf
      <3>4. CASE app' = [app EXCEPT ![c] = "failed"]
        <4>1. app'[c] = "failed" /\ rx'[c] = "none" /\ adrift'[c] = TRUE
          BY <2>4, <3>2, <3>4, AppIsTyped DEF K!StartAnswer, K!Goto, AppTyped
        <4>2. QED
          BY <3>1, <4>1 DEF StartOf
      <3>5. QED
        BY <2>4, <3>3, <3>4 DEF K!StartAnswer, K!Goto
    <2>5. CASE K!StartTimeout(c)
      <3>1. /\ connected[c] = "open" /\ connected' = connected /\ rx[c] = "none"
            /\ rx' = rx /\ answered' = answered /\ app'[c] = "failed"
        BY <2>5, AppIsTyped DEF K!StartTimeout, K!Goto, StartOf, AppTyped
      <3>2. adrift'[c] = TRUE \/ UNCHANGED <<down, adrift>>
        BY <2>5, AppIsTyped DEF K!StartTimeout, AppTyped
      <3>3. QED
        BY <3>1, <3>2 DEF StartOf
    <2>6. CASE K!StopRequest(c)
      BY <2>6, AppIsTyped DEF K!StopRequest, K!Goto, K!reading, StartOf, AppTyped
    <2>7. CASE K!StopJoin(c)
      BY <2>7, AppIsTyped
      DEF K!StopJoin, K!Goto, K!RxGoto, K!link, K!reading, StartOf, AppTyped
    <2>8. CASE K!SendCommand(c) \/ K!SendBody(c)
      BY <2>8, StartKept DEF K!SendCommand, K!SendBody, K!reading
    <2>9. CASE K!RxStep(c) /\ ~K!Vanish(c)
      <3>1. rx[c] # "none" /\ app' = app /\ answered' = answered /\ connected' = connected
        BY <2>9
        DEF K!RxStep, K!RxCommand, K!RxCutCommand, K!RxBody, K!RxMisplaced, K!RxGarbled,
            K!RxTimeout, K!RxDisconnected, K!link
      <3>2. app[c] \in {"started", "stopping"} /\ answered[c] /\ connected[c] = "open"
        BY <3>1, AppIsTyped DEF StartOf, AppTyped
      <3>3. QED
        BY <3>1, <3>2 DEF StartOf
    <2>10. K!RxStep(c) => rx[c] # "none"
      BY DEF K!RxStep, K!RxCommand, K!RxCutCommand, K!RxBody, K!RxMisplaced, K!RxGarbled,
        K!RxTimeout, K!RxDisconnected
    <2>11. QED
      BY <2>1, <2>2, <2>3, <2>4, <2>5, <2>6, <2>7, <2>8, <2>9, <2>10
      DEF Request, AppStep, SendBody, RxStep, K!Request, K!AppStep, K!Close
  <1>5. QED
    BY <1>3, <1>4

LEMMA StartCommStep ==
  ASSUME TypeOK, ListsInv, MutexInv, StartInv, NEW c \in Client, CommStep(c),
         NEW d \in Client
  PROVE StartOf(d)'
  <1>1. StartOf(d) /\ StartOf(c)
    BY DEF StartInv
  <1>2. /\ connected' = connected /\ app' = app /\ rx' = rx
        /\ answered' = answered /\ adrift' = adrift
    BY CommStreams DEF controllers
  <1>3. newcomer' = newcomer
    BY CommFrame
  <1> USE <1>1, <1>2, <1>3
  <1>4. CASE S!DispatchCommand(c)
    <2> DEFINE x == Head(todo)
    <2>1. x \in Client /\ ~half /\ m_controller_started[x] /\ comm' = comm
          /\ m_controller_started' = m_controller_started
      BY <1>4, ServerIsTyped, HeadTailProperties DEF S!DispatchCommand, ServerTyped
    <2>2. /\ down' \in [Client -> Seq(L!Token)]
          /\ \A e \in Client \ {x} : down'[e] = down[e]
          /\ \/ /\ connected[x] = "open" /\ half' /\ todo' = todo
                /\ down'[x] = Append(down[x], S!L!Cmd("MSG"))
             \/ connected[x] = "closed" /\ down'[x] = down[x] /\ ~half'
      BY <1>4, <2>1, Tokens, ServerWritesTo DEF S!DispatchCommand, S!Served, TypeOK
    <2> HIDE DEF x
    <2>3. CASE d # x
      <3>1. ~S!Busy(d)'
        BY <2>2, <2>3 DEF S!Busy, x
      <3>2. QED
        BY <2>1, <2>2, <2>3, <3>1, StartKept
    <2>4. CASE d = x /\ connected[x] = "closed"
      <3>1. ~S!Busy(d)' /\ down'[d] = down[d]
        BY <2>2, <2>4, NobodyBusy
      <3>2. QED
        BY <2>1, <2>4, <3>1, StartKept
    <2>5. CASE d = x /\ connected[x] = "open"
      <3>1. ~answered[x] /\ ~adrift[x] => down[x] # <<>> /\ Head(down[x]).cmd = "START"
        BY <2>1, <2>5 DEF StartOf
      <3>2. ASSUME NEW t \in L!Token
            PROVE Append(down[x], t) # <<>>
                  /\ Head(Append(down[x], t)) = IF down[x] = <<>> THEN t ELSE Head(down[x])
        BY <2>1, AppIsTyped, HeadOfAppend DEF AppTyped
      <3>3. ~answered[x] /\ ~adrift[x] => down'[x] # <<>> /\ Head(down'[x]).cmd = "START"
        BY <2>2, <2>5, <3>1, <3>2, Tokens
      <3>4. QED
        BY <2>1, <2>5, <3>3 DEF StartOf
    <2>6. QED
      BY <2>2, <2>3, <2>4, <2>5
  <1>5. CASE S!DispatchBody(c)
    <2> DEFINE x == Head(todo)
    <2>1. x \in Client /\ half /\ comm' = comm
          /\ m_controller_started' = m_controller_started /\ ~half'
      BY <1>5, ServerIsTyped, HeadTailProperties
      DEF S!DispatchBody, S!Served, ServerTyped
    <2>2. /\ \A e \in Client \ {x} : down'[e] = down[e]
          /\ \/ /\ connected[x] = "open"
                /\ \E t \in L!Token : down'[x] = Append(down[x], t)
             \/ connected[x] = "closed" /\ down'[x] = down[x]
      <3>1. Len(bus) \in Nat
        BY ServerIsTyped, LenProperties DEF ServerTyped
      <3>2. \E t \in L!Token : S!L!ServerWrites(x, t)
        BY <1>5, <3>1, Tokens DEF S!DispatchBody
      <3>3. QED
        BY <2>1, <3>2, ServerWritesTo DEF TypeOK
    <2>3. S!Busy(x)
      BY <2>1 DEF S!Busy
    <2> HIDE DEF x
    <2>4. ~S!Busy(d)'
      BY <2>1, NobodyBusy
    <2>5. CASE down'[d] = down[d]
      BY <2>1, <2>4, <2>5, StartKept
    <2>6. CASE d = x /\ connected[x] = "open" /\ \E t \in L!Token : down'[x] = Append(down[x], t)
      <3>1. ~answered[x] /\ ~adrift[x] => down[x] # <<>> /\ Head(down[x]).cmd = "START"
        BY <2>1, <2>3, <2>6 DEF StartOf
      <3>2. PICK t \in L!Token : down'[x] = Append(down[x], t)
        BY <2>6
      <3>3. Append(down[x], t) # <<>>
            /\ Head(Append(down[x], t)) = IF down[x] = <<>> THEN t ELSE Head(down[x])
        BY <2>1, AppIsTyped, HeadOfAppend DEF AppTyped
      <3>4. ~answered[x] /\ ~adrift[x] => down'[x] # <<>> /\ Head(down'[x]).cmd = "START"
        BY <2>6, <3>1, <3>2, <3>3
      <3>5. QED
        BY <2>1, <2>4, <2>6, <3>4 DEF StartOf
    <2>7. QED
      BY <2>2, <2>5, <2>6
  <1>6. CASE S!AnswerStart(c) \/ S!AnswerStop(c)
    <2>1. /\ UNCHANGED <<half, todo>>
          /\ \A e \in Client \ {c} : comm'[e] = comm[e]
               /\ m_controller_started'[e] = m_controller_started[e]
          /\ comm'[c] = "command"
          /\ connected[c] # "closed" => m_controller_started'[c] = TRUE
      BY <1>6, AppIsTyped
      DEF S!AnswerStart, S!AnswerStop, S!Goto, S!dispatching, AppTyped, StartOf
    <2>2. /\ \A e \in Client \ {c} : down'[e] = down[e]
          /\ \/ connected[c] = "closed" /\ down'[c] = down[c]
             \/ /\ connected[c] = "open"
                /\ \E t \in L!Token :
                     /\ down'[c] = Append(down[c], t)
                     /\ comm[c] = "start" => t.cmd = "START"
      <3>1. \E t \in L!Token : S!L!ServerWrites(c, t) /\ (comm[c] = "start" => t.cmd = "START")
        BY <1>6, Tokens DEF S!AnswerStart, S!AnswerStop
      <3>2. QED
        BY <3>1, ServerWritesTo DEF TypeOK
    <2>3. CASE d # c
      BY <2>1, <2>2, <2>3, NobodyBusy, StartKept
    <2>4. CASE d = c /\ connected[c] = "closed"
      BY <2>1, <2>2, <2>4 DEF StartOf
    <2>5. CASE d = c /\ connected[c] = "open"
      <3>1. PICK t \in L!Token : /\ down'[c] = Append(down[c], t)
                                 /\ comm[c] = "start" => t.cmd = "START"
        BY <2>2, <2>5
      <3>2. Append(down[c], t) # <<>>
            /\ Head(Append(down[c], t)) = IF down[c] = <<>> THEN t ELSE Head(down[c])
        BY AppIsTyped, HeadOfAppend DEF AppTyped
      <3>3. comm[c] \in {"start", "stop"}
        BY <1>6 DEF S!AnswerStart, S!AnswerStop
      <3>4. ~answered[c] /\ ~adrift[c] => down'[c] # <<>> /\ Head(down'[c]).cmd = "START"
        BY <2>5, <3>1, <3>2, <3>3 DEF StartOf
      <3>5. QED
        BY <2>1, <2>5, <3>4 DEF StartOf
    <2>6. QED
      BY <2>2, <2>3, <2>4, <2>5
  <1>7. ASSUME S!Busy(d)' => S!Busy(d), down' = down,
               \A e \in Client \ {c} : comm'[e] = comm[e],
               m_controller_started' = m_controller_started,
               comm[c] # "none", comm'[c] # "none",
               comm'[c] = "start" => ~m_controller_started[c],
               comm'[c] = "stop" => m_controller_started[c]
        PROVE StartOf(d)'
    <2>1. CASE d # c
      BY <1>7, <2>1, StartKept
    <2>2. CASE d = c
      BY <1>7, <2>2 DEF StartOf
    <2>3. QED
      BY <2>1, <2>2
  <1>8. \A s \in S!Comm : S!Goto(c, s) =>
          comm'[c] = s /\ \A e \in Client \ {c} : comm'[e] = comm[e]
    BY AppIsTyped DEF S!Goto, AppTyped
  <1>9. {"command", "start", "stop", "body", "garbled", "dispatch", "send", "lost",
         "leaving", "ended"} \subseteq S!Comm
    BY DEF S!Comm
  <1>10. CASE S!ReadCommand(c)
    <2>1. \E s \in {"command", "start", "stop", "body"} :
            /\ S!Goto(c, s)
            /\ s = "start" => ~m_controller_started[c]
            /\ s = "stop" => m_controller_started[c]
      BY <1>10, ObeyGoes DEF S!ReadCommand
    <2>2. QED
      BY <1>7, <1>8, <1>9, <1>10, <2>1, NobodyBusy DEF S!ReadCommand, S!dispatching
  <1>11. CASE S!ReadBody(c) \/ S!ReadTimeout(c) \/ S!LoseClient(c) \/ S!ThreadEnd(c)
    BY <1>7, <1>8, <1>9, <1>11, NobodyBusy
    DEF S!ReadBody, S!ReadTimeout, S!LoseClient, S!ThreadEnd, S!link, S!dispatching
  <1>12. CASE S!DispatchBegin(c)
    <2>1. ~half'
      BY <1>12, ServerIsTyped DEF S!DispatchBegin, MutexInv, ServerTyped
    <2>2. QED
      BY <1>7, <1>8, <1>9, <1>12, <2>1, NobodyBusy DEF S!DispatchBegin, S!link
  <1>13. CASE S!DispatchSkip(c)
    BY <1>13, NobodyBusy, StartKept DEF S!DispatchSkip, S!Served, S!link
  <1>14. CASE S!DispatchEnd(c)
    BY <1>7, <1>8, <1>9, <1>14, NobodyBusy DEF S!DispatchEnd, S!link, S!dispatching
  <1>15. CASE S!Disconnected(c)
    <2>1. connected[c] = "closed" /\ comm'[c] = "lost" /\ ~m_controller_started'[c]
          /\ UNCHANGED <<down, half, todo>>
          /\ \A e \in Client \ {c} : comm'[e] = comm[e]
               /\ m_controller_started'[e] = m_controller_started[e]
      BY <1>8, <1>9, <1>15, AppIsTyped
      DEF S!Disconnected, S!L!ServerFindsClosed, S!link, S!dispatching, AppTyped
    <2>2. CASE d # c
      BY <2>1, <2>2, NobodyBusy, StartKept
    <2>3. CASE d = c
      BY <2>1, <2>3 DEF StartOf
    <2>4. QED
      BY <2>2, <2>3
  <1>16. CASE S!CutCommand(c)
    BY <1>16, NobodyBusy, StartKept DEF S!CutCommand, S!dispatching
  <1>17. CASE S!ReadMisplaced(c) \/ S!ReadGarbled(c)
    <2>1. /\ UNCHANGED <<down, half, todo, m_controller_started>> /\ comm[c] # "none"
          /\ comm' = comm \/ S!Goto(c, "garbled") \/ S!Goto(c, "dispatch")
      BY <1>17 DEF S!ReadMisplaced, S!ReadGarbled, S!dispatching
    <2>2. CASE comm' = comm
      BY <2>1, <2>2, NobodyBusy, StartKept
    <2>3. QED
      BY <1>7, <1>8, <1>9, <2>1, <2>2, NobodyBusy
  <1>18. QED
    BY <1>4, <1>5, <1>6, <1>10, <1>11, <1>12, <1>13, <1>14, <1>15, <1>16, <1>17
    DEF CommStep, S!CommStep

LEMMA StartStep ==
  ASSUME TypeOK, ListsInv, MutexInv, StartInv, Next
  PROVE StartInv'
  <1>1. SUFFICES ASSUME NEW d \in Client PROVE StartOf(d)'
    BY DEF StartInv
  <1>2. StartOf(d)
    BY DEF StartInv
  <1>3. CASE ListenStep
    <2>1. PICK c \in Client : S!Accept(c) \/ S!StartClient(c)
      BY <1>3 DEF ListenStep, S!ListenStep
    <2>2. UNCHANGED <<down, connected, app, rx, answered, adrift, m_controller_started,
                     half, todo>>
      BY <1>3 DEF ListenStep, S!ListenStep, S!Accept, S!StartClient, S!link,
          S!dispatching, controllers
    <2>3. S!Busy(d)' = S!Busy(d)
      BY <2>2, NobodyBusy
    <2>4. CASE S!Accept(c)
      BY <1>2, <2>2, <2>3, <2>4 DEF S!Accept, StartOf
    <2>5. CASE S!StartClient(c)
      <3>1. newcomer = c /\ comm[c] = "none" /\ newcomer' # d
        BY <2>5, ListsTyped DEF S!StartClient, ListsInv, ListsTypes
      <3>2. comm'[d] = IF d = c THEN "command" ELSE comm[d]
        BY <2>5, ListsTyped DEF S!StartClient, S!Goto, ListsTypes
      <3>3. QED
        BY <1>2, <2>2, <2>3, <3>1, <3>2 DEF StartOf
    <2>6. QED
      BY <2>1, <2>4, <2>5
  <1>4. CASE CleanupStep
    BY <1>2, <1>4, NobodyBusy, StartKept
    DEF CleanupStep, S!CleanupStep, S!CleanupBegin, S!CleanupDelete, S!CleanupEnd,
        S!link, S!lists, S!dispatching, controllers
  <1>5. QED
    BY <1>3, <1>4, StartControllerStep, StartCommStep DEF Next

(* The server knows of every start that a controller has heard of. *)
Over == {"lost", "leaving", "ended"}

LEMMA StartedKept ==
  ASSUME NEW d \in Client, StartedOf(d),
         connected'[d] = connected[d], app'[d] = app[d], answered'[d] = answered[d],
         adrift'[d] = adrift[d],
         \/ m_controller_started[d] => m_controller_started'[d]
         \/ connected[d] = "closed" /\ comm'[d] \in Over,
         down'[d] # down[d] => m_controller_started'[d],
         \A i \in DOMAIN up'[d] : up'[d][i].cmd = "MSG" =>
           \E j \in DOMAIN up[d] : up[d][j].cmd = "MSG",
         comm[d] \in Over => comm'[d] \in Over
  PROVE StartedOf(d)'
  BY DEF StartedOf, Over

LEMMA StartedControllerStep ==
  ASSUME TypeOK, StartInv, StartedInv, NEW c \in Client,
         Request(c) \/ AppStep(c) \/ SendBody(c) \/ RxStep(c),
         NEW d \in Client
  PROVE StartedOf(d)'
  <1>1. StartOf(c) /\ StartedOf(c) /\ StartedOf(d)
    BY DEF StartInv, StartedInv
  <1>2. /\ comm' = comm /\ m_controller_started' = m_controller_started
        /\ \A e \in Client \ {c} : Private(e)' = Private(e)
    BY ControllerFrame, ControllerStreams DEF server
  <1>3. CASE d # c
    BY <1>1, <1>2, <1>3 DEF Private, StartedOf
  <1>4. CASE d = c
    <2> USE <1>1, <1>2, <1>4
    <2>1. CASE K!Open(c)
      <3>1. /\ down'[c] = <<>> /\ up' = up /\ ~answered'[c] /\ ~adrift'[c]
            /\ app'[c] = "open" /\ connected'[c] = "open"
        BY <2>1, AppIsTyped DEF K!Open, K!Goto, K!reading, StartOf, StartedOf, AppTyped
      <3>2. QED
        BY <3>1 DEF StartedOf
    <2>2. CASE K!Vanish(c) /\ (connected[c] = "open" \/ rx[c] # "none")
      <3>1. app'[c] = "gone" /\ connected'[c] = "closed" /\ up' = up
        BY <2>2, AppIsTyped DEF K!Vanish, K!Goto, AppTyped
      <3>2. QED
        BY <3>1 DEF StartedOf
    <2>3. CASE /\ K!StartRequest(c) \/ K!StopRequest(c) \/ K!SendBody(c) \/ K!SendCommand(c)
      <3>1. /\ down' = down /\ connected' = connected /\ answered' = answered
            /\ adrift' = adrift
            /\ app'[c] \in {"started", "stopping"} => app[c] \in {"started", "stopping"}
        BY <2>3, AppIsTyped
        DEF K!StartRequest, K!StopRequest, K!SendBody, K!SendCommand, K!Goto, K!reading,
            AppTyped
      <3>2. connected[c] = "open" /\ answered[c] => m_controller_started[c]
        BY DEF StartedOf
      <3>3. \A i \in DOMAIN up'[c] : up'[c][i].cmd = "MSG" =>
              \/ \E j \in DOMAIN up[c] : up[c][j].cmd = "MSG"
              \/ m_controller_started[c]
        <4>1. up[c] \in Seq(L!Token) /\ sent[c] \in Nat
          BY ControllersAreTyped, SendsTyped DEF ControllersTyped
        <4>2. ASSUME NEW t \in L!Token, up'[c] = Append(up[c], t),
                     t.cmd = "MSG" => m_controller_started[c]
              PROVE \A i \in DOMAIN up'[c] : up'[c][i].cmd = "MSG" =>
                      \/ \E j \in DOMAIN up[c] : up[c][j].cmd = "MSG"
                      \/ m_controller_started[c]
          BY <4>1, <4>2, AppendProperties, LenProperties
        <4>3. CASE up'[c] = up[c]
          BY <4>3
        <4>4. \A cmd \in {"START", "STOP", "MSG"} :
                K!L!Cmd(cmd) \in L!Token /\ K!L!Cmd(cmd).size \in Nat
                  /\ K!L!Cmd(cmd).cmd = cmd
          BY Tokens
        <4>5. \A n \in BodySize : /\ K!L!Body(sent[c], n) \in L!Token
                                  /\ K!L!Body(sent[c], n).size \in Nat
                                  /\ K!L!Body(sent[c], n).cmd = "BODY"
          BY <4>1, Tokens
        <4>6. ASSUME NEW t \in L!Token, t.size \in Nat,
                     K!L!ClientWrites(c, t) \/ K!L!ClientWriteIsCut(c, t)
              PROVE \/ up'[c] = up[c]
                    \/ up'[c] = Append(up[c], t)
                    \/ \E u \in L!Token : u.cmd # "MSG" /\ up'[c] = Append(up[c], u)
          BY <4>6, ClientWritesTo, ClientCutsTo DEF TypeOK
        <4>7. K!SendCommand(c) => m_controller_started[c]
          <5>1. K!SendCommand(c) => app[c] \in {"started", "stopping"}
            BY DEF K!SendCommand
          <5>2. app[c] \in {"started", "stopping"} => connected[c] = "open" /\ answered[c]
            BY AppIsTyped DEF StartOf, StartedOf, AppTyped
          <5>3. QED
            BY <3>2, <5>1, <5>2
        <4>8. \E t \in L!Token :
                /\ t.size \in Nat
                /\ t.cmd = "MSG" => m_controller_started[c]
                /\ up'[c] = up[c] \/ K!L!ClientWrites(c, t) \/ K!L!ClientWriteIsCut(c, t)
          <5>1. CASE K!SendBody(c)
            BY <4>5, <5>1 DEF K!SendBody
          <5>2. CASE K!SendCommand(c)
            BY <4>4, <4>7, <5>2 DEF K!SendCommand
          <5>3. CASE K!StartRequest(c)
            BY <4>4, <5>3 DEF K!StartRequest
          <5>4. CASE K!StopRequest(c)
            BY <4>4, <5>4 DEF K!StopRequest
          <5>5. QED
            BY <2>3, <5>1, <5>2, <5>3, <5>4
        <4>9. QED
          BY <4>2, <4>3, <4>6, <4>8
      <3>4. QED
        BY <3>1, <3>2, <3>3 DEF StartedOf
    <2>4. CASE K!StartAnswer(c) \/ K!StartTimeout(c)
      <3>1. /\ connected' = connected /\ up' = up /\ connected[c] = "open"
            /\ app'[c] \in {"started", "failed"}
        BY <2>4, AppIsTyped DEF K!StartAnswer, K!StartTimeout, K!Goto, StartOf, AppTyped
      <3>2. down[c] # <<>> \/ UNCHANGED <<down, adrift, answered>>
        <4>1. down[c] \in Seq(L!Token)
          BY AppIsTyped DEF AppTyped
        <4>2. L!HasWord(down[c]) \/ L!WordIsCut(c, down[c]) => down[c] # <<>>
          BY <4>1, CutIsTyped, LenProperties, EmptySeq
          DEF L!HasWord, L!WordIsCut, L!LoneByte
        <4>3. QED
          BY <2>4, <4>2, SameLink DEF K!StartAnswer, K!StartTimeout
      <3>3. app'[c] = "started" => answered'[c]
        BY <2>4, AppIsTyped DEF K!StartAnswer, K!StartTimeout, K!Goto, AppTyped
      <3>4. QED
        BY <3>1, <3>2, <3>3 DEF StartedOf
    <2>5. CASE K!StopJoin(c)
      <3>1. UNCHANGED <<up, down, connected, answered, adrift>> /\ app'[c] = "stopped"
        BY <2>5, AppIsTyped DEF K!StopJoin, K!Goto, K!link, K!reading, AppTyped
      <3>2. QED
        BY <3>1 DEF StartedOf
    <2>6. CASE K!RxStep(c) /\ ~K!Vanish(c)
      <3>1. /\ rx[c] # "none" /\ app' = app /\ answered' = answered
            /\ connected' = connected /\ up' = up
        BY <2>6
        DEF K!RxStep, K!RxCommand, K!RxCutCommand, K!RxBody, K!RxMisplaced, K!RxGarbled,
            K!RxTimeout, K!RxDisconnected, K!link
      <3>2. answered[c]
        BY <3>1 DEF StartOf
      <3>3. QED
        BY <3>1, <3>2 DEF StartOf, StartedOf
    <2>7. K!RxStep(c) => rx[c] # "none"
      BY DEF K!RxStep, K!RxCommand, K!RxCutCommand, K!RxBody, K!RxMisplaced, K!RxGarbled,
        K!RxTimeout, K!RxDisconnected
    <2>8. QED
      BY <2>1, <2>2, <2>3, <2>4, <2>5, <2>6, <2>7
      DEF Request, AppStep, SendBody, RxStep, K!Request, K!AppStep, K!Close
  <1>5. QED
    BY <1>3, <1>4

LEMMA StartedCommStep ==
  ASSUME TypeOK, MutexInv, StartInv, StartedInv, NEW c \in Client, CommStep(c),
         NEW d \in Client
  PROVE StartedOf(d)'
  <1>1. StartOf(d) /\ StartedOf(d)
    BY DEF StartInv, StartedInv
  <1>2. /\ UNCHANGED <<connected, controllers>>
        /\ up[d] \in Seq(L!Token) /\ up'[d] \in Seq(L!Token) /\ Suffix(up[d], up'[d])
    BY CommStreams, SuffixSelf DEF TypeOK, L!TypeOK
  <1>3. \A i \in DOMAIN up'[d] : up'[d][i].cmd = "MSG" =>
          \E j \in DOMAIN up[d] : up[d][j].cmd = "MSG"
    BY <1>2, SuffixKeeps
  <1>4. d # c => comm'[d] = comm[d] /\ m_controller_started'[d] = m_controller_started[d]
    BY CommFrame DEF Served
  <1>5. comm[d] \in Over => comm'[d] \in Over
    <2>1. CASE d # c
      BY <1>4, <2>1
    <2>2. CASE d = c /\ comm[d] \in Over
      BY <2>2, AppIsTyped
      DEF CommStep, S!CommStep, S!ReadCommand, S!CutCommand, S!AnswerStart, S!AnswerStop,
        S!ReadBody, S!ReadMisplaced, S!ReadGarbled, S!ReadTimeout, S!Disconnected,
        S!DispatchBegin, S!DispatchSkip, S!DispatchCommand, S!DispatchBody,
        S!DispatchEnd, S!LoseClient, S!ThreadEnd, S!Goto, Over, AppTyped
    <2>3. QED
      BY <2>1, <2>2
  <1>6. \/ m_controller_started[d] => m_controller_started'[d]
        \/ connected[d] = "closed" /\ comm'[d] \in Over
    <2>1. CASE S!Disconnected(c) /\ d = c
      BY <2>1, AppIsTyped
      DEF S!Disconnected, S!L!ServerFindsClosed, S!Goto, Over, AppTyped, S!Comm
    <2>2. CASE S!AnswerStart(c) /\ d = c
      BY <2>2, AppIsTyped DEF S!AnswerStart, AppTyped
    <2>3. ~S!Disconnected(c) /\ ~S!AnswerStart(c) =>
             m_controller_started' = m_controller_started
      BY DEF CommStep, S!CommStep, S!ReadCommand, S!CutCommand, S!AnswerStop,
        S!ReadBody, S!ReadMisplaced, S!ReadGarbled, S!ReadTimeout,
        S!DispatchBegin, S!DispatchSkip, S!DispatchCommand, S!DispatchBody,
        S!DispatchEnd, S!LoseClient, S!ThreadEnd
    <2>4. QED
      BY <1>4, <2>1, <2>2, <2>3
  <1>7. down'[d] # down[d] => m_controller_started'[d]
    <2>1. CASE S!AnswerStart(c) \/ S!AnswerStop(c)
      <3>1. \A e \in Client \ {c} : down'[e] = down[e]
        BY <2>1, Tokens, ServerWritesTo DEF S!AnswerStart, S!AnswerStop, TypeOK
      <3>2. connected[c] = "closed" => down' = down
        BY <2>1 DEF S!AnswerStart, S!AnswerStop, S!L!ServerWrites
      <3>3. d = c /\ connected[c] # "closed" => m_controller_started'[c]
        BY <1>1, <2>1, AppIsTyped DEF S!AnswerStart, S!AnswerStop, StartOf, AppTyped
      <3>4. QED
        BY <3>1, <3>2, <3>3
    <2>2. CASE S!DispatchCommand(c) \/ S!DispatchBody(c)
      <3> DEFINE x == Head(todo)
      <3>1. x \in Client /\ m_controller_started' = m_controller_started
        BY <2>2, ServerIsTyped, HeadTailProperties
        DEF S!DispatchCommand, S!DispatchBody, ServerTyped
      <3>2. connected[x] # "closed" => m_controller_started[x]
        <4>1. S!DispatchBody(c) => S!Busy(x)
          BY DEF S!DispatchBody, S!Busy
        <4>2. StartOf(x)
          BY <3>1 DEF StartInv
        <4>3. QED
          BY <2>2, <4>1, <4>2 DEF S!DispatchCommand, StartOf
      <3>3. \E t \in L!Token : S!L!ServerWrites(x, t)
        <4>1. Len(bus) \in Nat
          BY ServerIsTyped, LenProperties DEF ServerTyped
        <4>2. QED
          BY <2>2, <4>1, Tokens DEF S!DispatchCommand, S!DispatchBody
      <3>4. /\ \A e \in Client \ {x} : down'[e] = down[e]
            /\ connected[x] = "closed" => down'[x] = down[x]
        BY <3>1, <3>3, ServerWritesTo DEF TypeOK
      <3>5. QED
        BY <3>1, <3>2, <3>4
    <2>3. QED
      BY <2>1, <2>2
      DEF CommStep, S!CommStep, S!ReadCommand, S!CutCommand,
        S!ReadBody, S!ReadMisplaced, S!ReadGarbled, S!ReadTimeout, S!Disconnected,
        S!DispatchBegin, S!DispatchSkip,
        S!DispatchEnd, S!LoseClient, S!ThreadEnd, S!link
  <1>8. QED
    BY <1>1, <1>2, <1>3, <1>5, <1>6, <1>7, StartedKept DEF controllers

LEMMA StartedStep ==
  ASSUME TypeOK, ListsInv, MutexInv, StartInv, StartedInv, Next
  PROVE StartedInv'
  <1>1. SUFFICES ASSUME NEW d \in Client PROVE StartedOf(d)'
    BY DEF StartedInv
  <1>2. StartedOf(d)
    BY DEF StartedInv
  <1>3. CASE ListenStep
    <2>1. /\ UNCHANGED <<up, down, connected, controllers, m_controller_started>>
          /\ comm[d] \in Over => comm'[d] \in Over
      <3>1. PICK c \in Client : S!Accept(c) \/ S!StartClient(c)
        BY <1>3 DEF ListenStep, S!ListenStep
      <3>2. UNCHANGED <<up, down, connected, controllers, m_controller_started>>
        BY <1>3, <3>1 DEF ListenStep, S!Accept, S!StartClient, S!link
      <3>3. comm'[d] = comm[d] \/ (d = c /\ comm[c] = "none")
        BY <3>1, ListsTyped
        DEF S!Accept, S!StartClient, S!Goto, ListsInv, ListsTypes
      <3>4. QED
        BY <3>2, <3>3 DEF Over
    <2>2. QED
      BY <1>2, <2>1, StartedKept DEF controllers
  <1>4. CASE CleanupStep
    BY <1>2, <1>4, StartedKept
    DEF CleanupStep, S!CleanupStep, S!CleanupBegin, S!CleanupDelete, S!CleanupEnd,
        S!link, S!lists, controllers
  <1>5. QED
    BY <1>3, <1>4, StartedControllerStep, StartedCommStep DEF Next

-----------------------------------------------------------------------------
(* The streams to the controllers. *)
LEMMA DownFramedKept ==
  ASSUME NEW d \in Client, DownFramedOf(d), S!Busy(d)' = S!Busy(d),
         down'[d] = down[d], rx'[d] = rx[d], adrift'[d] = adrift[d],
         connected'[d] = connected[d], serving' => serving
  PROVE DownFramedOf(d)'
  BY DEF DownFramedOf, Framed, FollowsMsg, EndsInMsg, L!Command

LEMMA NothingIsFramed ==
  ASSUME NEW d \in Client, down'[d] = <<>>, rx'[d] \notin {"body", "garbled"},
         serving' => connected'[d] # "open"
  PROVE DownFramedOf(d)'
  BY DEF DownFramedOf, Framed, EndsInMsg

(* What a controller in step finds, and what is left of it.                *)
LEMMA DownFramedHead ==
  ASSUME TypeOK, NEW c \in Client, DownFramedOf(c), ~adrift[c], down[c] # <<>>
  PROVE /\ Head(down[c]).cmd = "BODY" <=> rx[c] = "body"
        /\ rx[c] # "body" =>
             /\ L!WordsAt(down[c]) = {Head(down[c]).cmd}
             /\ L!HasWord(down[c]) => L!AfterWord(down[c]) = Tail(down[c])
  <1>1. down[c] \in Seq(L!Token)
    BY AppIsTyped DEF AppTyped
  <1>2. Framed(down[c], rx[c] = "body") /\ (rx[c] = "body") \in BOOLEAN
    BY DEF DownFramedOf
  <1>3. /\ Head(down[c]).cmd = "BODY" <=> rx[c] = "body"
        /\ rx[c] # "body" => Head(down[c]).cmd \in L!Command
    BY <1>1, <1>2, FramedAtHead
  <1>4. QED
    BY <1>1, <1>3, AfterWordIsTyped DEF L!WordsAt

LEMMA DownFramedTaken ==
  ASSUME TypeOK, NEW c \in Client, DownFramedOf(c), S!Busy(c)' = S!Busy(c),
         down[c] # <<>>, ~adrift[c], down'[c] = Tail(down[c]),
         rx'[c] # "garbled", rx'[c] = "body" <=> Head(down[c]).cmd = "MSG",
         connected'[c] = connected[c], serving' = serving
  PROVE DownFramedOf(c)'
  <1> DEFINE s == down[c]
  <1> DEFINE body == rx[c] = "body"
  <1>1. s \in Seq(L!Token) /\ s # <<>> /\ Framed(s, body) /\ body \in BOOLEAN
    BY AppIsTyped DEF AppTyped, DownFramedOf
  <1>2. /\ EndsInMsg(s, body) => S!Busy(c)
        /\ serving /\ S!Busy(c) /\ connected[c] = "open" => EndsInMsg(s, body)
    BY DEF DownFramedOf
  <1> HIDE DEF s, body
  <1>3. /\ Framed(Tail(s), Head(s).cmd = "MSG")
        /\ EndsInMsg(Tail(s), Head(s).cmd = "MSG") <=> EndsInMsg(s, body)
    BY <1>1, FramedTail
  <1>4. (rx'[c] = "body") = (Head(s).cmd = "MSG") /\ down'[c] = Tail(s)
    BY DEF s
  <1>5. /\ Framed(down'[c], rx'[c] = "body")
        /\ EndsInMsg(down'[c], rx'[c] = "body") <=> EndsInMsg(s, body)
    BY <1>3, <1>4
  <1>6. QED
    BY <1>2, <1>5 DEF DownFramedOf, Framed, FollowsMsg, EndsInMsg, L!Command

LEMMA DownFramedControllerStep ==
  ASSUME TypeOK, StartInv, DownFramed, NEW c \in Client,
         Request(c) \/ AppStep(c) \/ SendBody(c) \/ RxStep(c),
         NEW d \in Client
  PROVE DownFramedOf(d)'
  <1>1. DownFramedOf(d) /\ DownFramedOf(c) /\ StartOf(c)
    BY DEF DownFramed, StartInv
  <1>2. S!Busy(d)' = S!Busy(d) /\ serving' = serving
    <2>1. UNCHANGED <<half, todo>>
      BY DEF Request, AppStep, SendBody, RxStep, server
    <2>2. QED
      BY <2>1, NobodyBusy, ControllerStreams
  <1>3. CASE d # c
    BY <1>1, <1>2, <1>3, ControllerFrame, DownFramedKept DEF Private
  <1>4. CASE d = c
    <2> USE <1>1, <1>2, <1>4
    <2>1. CASE K!Vanish(c)
      <3>1. down'[c] = <<>> /\ rx'[c] = "none" /\ connected'[c] = "closed"
        BY <2>1, AppIsTyped DEF K!Vanish, K!RxGoto, AppTyped
      <3>2. QED
        BY <3>1, NothingIsFramed
    <2>2. CASE K!Open(c)
      <3>1. down[c] = <<>> /\ rx[c] = "none" /\ ~S!Busy(c)
        BY <2>2 DEF K!Open, StartOf
      <3>2. down'[c] = <<>> /\ rx'[c] = "none" /\ ~S!Busy(c)'
        BY <2>2, <3>1 DEF K!Open
      <3>3. QED
        BY <3>2 DEF DownFramedOf, Framed, EndsInMsg
    <2>3. CASE K!StartRequest(c) \/ K!StopRequest(c) \/ K!SendCommand(c) \/ K!SendBody(c)
      BY <2>3, DownFramedKept
      DEF K!StartRequest, K!StopRequest, K!SendCommand, K!SendBody, K!reading
    <2>4. CASE adrift'[c]
      BY <2>4 DEF DownFramedOf
    <2>5. CASE K!StartAnswer(c) /\ ~adrift'[c]
      <3>1. PICK word \in L!WordsAt(down[c]) :
              /\ word = "START" \/ adrift' = [adrift EXCEPT ![c] = TRUE]
              /\ word = "START" => K!RxGoto(c, "command") /\ UNCHANGED adrift
        BY <2>5, SameLink DEF K!StartAnswer
      <3>2. word = "START" /\ K!RxGoto(c, "command") /\ UNCHANGED adrift
        BY <2>5, <3>1, AppIsTyped DEF AppTyped
      <3>3. rx[c] = "none" /\ connected' = connected /\ L!HasWord(down[c])
            /\ K!L!ClientReads(c, L!AfterWord(down[c]))
        BY <2>5, SameLink DEF K!StartAnswer, StartOf
      <3>4. ~adrift[c] /\ down[c] # <<>> /\ rx'[c] = "command"
        BY <2>5, <3>2, <3>3, AppIsTyped DEF K!RxGoto, AppTyped, L!HasWord
      <3>5. Head(down[c]).cmd = "START" /\ L!AfterWord(down[c]) = Tail(down[c])
        BY <3>1, <3>2, <3>3, <3>4, DownFramedHead
      <3>6. down'[c] = Tail(down[c])
        BY <3>3, <3>5, AppIsTyped DEF K!L!ClientReads, AppTyped
      <3>7. QED
        BY <3>3, <3>4, <3>5, <3>6, DownFramedTaken
    <2>6. CASE K!StartTimeout(c) /\ ~adrift'[c]
      <3>1. UNCHANGED <<down, adrift>>
        BY <2>6, AppIsTyped DEF K!StartTimeout, AppTyped
      <3>2. QED
        BY <2>6, <3>1, DownFramedKept DEF K!StartTimeout
    <2>7. CASE K!StopJoin(c)
      <3>1. rx[c] = "ended" /\ rx'[c] = "none" /\ UNCHANGED <<down, connected, adrift>>
        BY <2>7, AppIsTyped DEF K!StopJoin, K!RxGoto, K!link, K!reading, AppTyped
      <3>2. QED
        BY <3>1 DEF DownFramedOf, Framed, FollowsMsg, EndsInMsg, L!Command
    <2>8. CASE K!RxCommand(c) /\ ~adrift'[c]
      <3>1. PICK word \in L!WordsAt(down[c]) :
              K!RxGoto(c, CASE word = "STOP" -> "ended"
                            [] word = "MSG" -> "body"
                            [] OTHER -> "command")
        BY <2>8, SameLink DEF K!RxCommand
      <3>2. /\ rx[c] = "command" /\ L!HasWord(down[c]) /\ UNCHANGED <<connected, adrift>>
            /\ K!L!ClientReads(c, L!AfterWord(down[c]))
        BY <2>8, SameLink DEF K!RxCommand, K!reading
      <3>3. ~adrift[c] /\ down[c] # <<>>
        BY <2>8, <3>2 DEF L!HasWord
      <3>4. Head(down[c]).cmd = word /\ L!AfterWord(down[c]) = Tail(down[c])
        BY <3>1, <3>2, <3>3, DownFramedHead
      <3>5. down'[c] = Tail(down[c])
        BY <3>2, <3>4, AppIsTyped DEF K!L!ClientReads, AppTyped
      <3>6. rx'[c] # "garbled" /\ (rx'[c] = "body" <=> word = "MSG")
        BY <3>1, AppIsTyped DEF K!RxGoto, AppTyped
      <3>7. QED
        BY <3>2, <3>3, <3>4, <3>5, <3>6, DownFramedTaken
    <2>9. CASE K!RxBody(c) /\ ~adrift'[c]
      <3>1. /\ down[c] # <<>> /\ Head(down[c]).cmd = "BODY" /\ rx'[c] = "command"
            /\ down'[c] = Tail(down[c]) /\ UNCHANGED <<connected, adrift>>
        BY <2>9, AppIsTyped, SameLink
        DEF K!RxBody, K!RxGoto, K!L!ClientReads, L!IsMessage, AppTyped
      <3>2. QED
        BY <2>9, <3>1, DownFramedTaken
    <2>10. CASE K!RxMisplaced(c) /\ ~K!Vanish(c) /\ ~adrift'[c]
      <3>1. ~adrift[c] /\ rx[c] = "body" /\ down[c] # <<>> /\ Head(down[c]).cmd # "BODY"
        BY <2>10, SameLink DEF K!RxMisplaced, L!IsMessage
      <3>2. QED
        BY <3>1, DownFramedHead
    <2>11. CASE K!RxGarbled(c) /\ ~adrift'[c]
      BY <2>11 DEF K!RxGarbled, DownFramedOf
    <2>12. CASE K!RxDisconnected(c)
      <3>1. down'[c] = <<>> /\ rx'[c] = "ended" /\ ~serving'
        BY <2>12, AppIsTyped
        DEF K!RxDisconnected, K!L!ClientIsConnected, K!RxGoto, K!link, AppTyped
      <3>2. QED
        BY <3>1, NothingIsFramed
    <2>13. K!RxCutCommand(c) \/ K!RxTimeout(c) => adrift'[c]
      BY AppIsTyped DEF K!RxCutCommand, K!RxTimeout, AppTyped
    <2>14. QED
      BY <2>1, <2>2, <2>3, <2>4, <2>5, <2>6, <2>7, <2>8, <2>9, <2>10, <2>11, <2>12, <2>13
      DEF Request, AppStep, SendBody, RxStep, K!Request, K!AppStep, K!RxStep, K!Close
  <1>5. QED
    BY <1>3, <1>4

(* The server writes a whole command or message to a controller in step.   *)
LEMMA DownFramedWritten ==
  ASSUME TypeOK, NEW d \in Client, DownFramedOf(d), NEW t \in L!Token,
         t.cmd \in L!Command \cup {"BODY"},
         ~adrift[d] => (t.cmd = "BODY" <=> EndsInMsg(down[d], rx[d] = "body")),
         down'[d] = Append(down[d], t), rx'[d] = rx[d], adrift'[d] = adrift[d],
         S!Busy(d)' <=> t.cmd = "MSG"
  PROVE DownFramedOf(d)'
  <1> DEFINE s == down[d]
  <1> DEFINE body == rx[d] = "body"
  <1> SUFFICES ASSUME ~adrift[d] PROVE DownFramedOf(d)'
    BY DEF DownFramedOf
  <1>1. s \in Seq(L!Token) /\ Framed(s, body) /\ body \in BOOLEAN /\ rx[d] # "garbled"
    BY AppIsTyped DEF AppTyped, DownFramedOf
  <1> HIDE DEF s, body
  <1>2. /\ Framed(Append(s, t), body)
        /\ EndsInMsg(Append(s, t), body) <=> t.cmd = "MSG"
    BY <1>1, FramedAppend DEF s, body
  <1>3. down'[d] = Append(s, t) /\ (rx'[d] = "body") = body
    BY DEF s, body
  <1>4. /\ Framed(down'[d], rx'[d] = "body")
        /\ EndsInMsg(down'[d], rx'[d] = "body") <=> t.cmd = "MSG"
    BY <1>2, <1>3
  <1>5. QED
    BY <1>1, <1>4 DEF DownFramedOf, Framed, FollowsMsg, EndsInMsg, L!Command

LEMMA DownFramedServerStep ==
  ASSUME TypeOK, MutexInv, StartInv, DownFramed,
         (\E c \in Client : CommStep(c)) \/ ListenStep \/ CleanupStep,
         NEW d \in Client
  PROVE DownFramedOf(d)'
  <1>1. DownFramedOf(d) /\ StartOf(d)
    BY DEF DownFramed, StartInv
  <1>2. /\ rx' = rx /\ adrift' = adrift /\ connected' = connected
        /\ serving /\ S!Busy(d) \in BOOLEAN
    <2>1. serving /\ connected' = connected
      BY CommStreams
      DEF ListenStep, S!ListenStep, S!Accept, S!StartClient, CleanupStep, S!CleanupStep,
          S!CleanupBegin, S!CleanupDelete, S!CleanupEnd, S!link
    <2>2. QED
      BY <2>1, ServerIsTyped
      DEF CommStep, ListenStep, CleanupStep, controllers, S!Busy, ServerTyped
  <1>3. CASE down'[d] = down[d] /\ S!Busy(d)' = S!Busy(d)
    BY <1>1, <1>2, <1>3, DownFramedKept
  <1>4. CASE down' = down /\ ~half /\ ~half'
    BY <1>3, <1>4, NobodyBusy DEF S!Busy
  <1>5. CASE UNCHANGED <<down, half, todo>>
    BY <1>3, <1>5, NobodyBusy
  <1>6. {"START", "STOP", "MSG"} = L!Command
    BY DEF L!Command
  <1>7. ASSUME NEW c \in Client, CommStep(c) PROVE DownFramedOf(d)'
    <2>1. CASE S!AnswerStart(c) \/ S!AnswerStop(c)
      <3>1. PICK t \in L!Token : /\ S!L!ServerWrites(c, t)
                                 /\ t.cmd \in {"START", "STOP"}
        BY <2>1, Tokens DEF S!AnswerStart, S!AnswerStop
      <3>2. /\ \A e \in Client \ {c} : down'[e] = down[e]
            /\ down'[c] = down[c] \/ down'[c] = Append(down[c], t)
        BY <3>1, ServerWritesTo DEF TypeOK
      <3>3. S!Busy(d)' = S!Busy(d) /\ ~S!Busy(c)
        BY <2>1, NobodyBusy DEF S!AnswerStart, S!AnswerStop, S!dispatching
      <3>4. CASE down'[d] = down[d]
        BY <1>3, <3>3, <3>4
      <3>5. CASE d = c /\ down'[c] = Append(down[c], t)
        <4>1. ~adrift[d] => ~EndsInMsg(down[d], rx[d] = "body")
          BY <1>1, <3>3, <3>5 DEF DownFramedOf
        <4>2. t.cmd # "BODY" /\ t.cmd # "MSG" /\ t.cmd \in L!Command \cup {"BODY"}
          BY <1>6, <3>1
        <4>3. ~S!Busy(d)'
          BY <3>3, <3>5
        <4>4. QED
          BY <1>1, <1>2, <3>5, <4>1, <4>2, <4>3, DownFramedWritten
      <3>6. QED
        BY <3>2, <3>4, <3>5
    <2>2. CASE S!DispatchCommand(c)
      <3> DEFINE x == Head(todo)
      <3>1. x \in Client /\ ~half
        BY <2>2, ServerIsTyped, HeadTailProperties DEF S!DispatchCommand, ServerTyped
      <3>2. /\ \A e \in Client \ {x} : down'[e] = down[e]
            /\ \/ /\ half' /\ todo' = todo
                  /\ down'[x] = Append(down[x], S!L!Cmd("MSG"))
               \/ down'[x] = down[x] /\ ~half'
        BY <2>2, <3>1, Tokens, ServerWritesTo DEF S!DispatchCommand, S!Served, TypeOK
      <3>3. ~S!Busy(d) /\ (d # x => ~S!Busy(d)') /\ (half' /\ todo' = todo /\ d = x => S!Busy(d)')
        BY <3>1, <3>2 DEF S!Busy
      <3>4. CASE d # x \/ ~half'
        <4>1. down'[d] = down[d] /\ ~S!Busy(d)'
          BY <3>2, <3>3, <3>4, NobodyBusy
        <4>2. QED
          BY <1>3, <3>3, <4>1 DEF S!Busy
      <3>5. CASE d = x /\ half'
        <4> DEFINE t == S!L!Cmd("MSG")
        <4>1. t \in L!Token /\ t.cmd = "MSG" /\ down'[d] = Append(down[d], t) /\ S!Busy(d)'
          BY <3>2, <3>3, <3>5, Tokens
        <4> HIDE DEF t
        <4>2. ~adrift[d] => ~EndsInMsg(down[d], rx[d] = "body")
          BY <1>1, <3>3 DEF DownFramedOf
        <4>3. QED
          BY <1>1, <1>2, <1>6, <4>1, <4>2, DownFramedWritten
      <3>6. QED
        BY <3>4, <3>5
    <2>3. CASE S!DispatchBody(c)
      <3> DEFINE x == Head(todo)
      <3>1. x \in Client /\ half /\ ~half' /\ Len(bus) \in Nat
        BY <2>3, ServerIsTyped, HeadTailProperties, LenProperties
        DEF S!DispatchBody, S!Served, ServerTyped
      <3>2. PICK t \in L!Token : S!L!ServerWrites(x, t) /\ t.cmd = "BODY"
        BY <2>3, <3>1, Tokens DEF S!DispatchBody
      <3>3. /\ \A e \in Client \ {x} : down'[e] = down[e]
            /\ \/ connected[x] = "open" /\ down'[x] = Append(down[x], t)
               \/ connected[x] = "closed" /\ down'[x] = down[x]
        BY <3>1, <3>2, ServerWritesTo DEF TypeOK
      <3>4. ~S!Busy(d)' /\ (d # x => ~S!Busy(d)) /\ (d = x => S!Busy(d))
        BY <3>1, NobodyBusy DEF S!Busy
      <3> HIDE DEF x
      <3>5. CASE d # x
        BY <1>3, <3>3, <3>4, <3>5 DEF S!Busy
      <3>6. CASE d = x /\ connected[x] = "closed" /\ down'[x] = down[x]
        <4>1. down'[d] = <<>> /\ rx'[d] = "none" /\ connected'[d] = "closed"
          BY <1>1, <1>2, <3>6 DEF StartOf
        <4>2. QED
          BY <4>1, NothingIsFramed
      <3>7. CASE d = x /\ connected[x] = "open" /\ down'[x] = Append(down[x], t)
        <4>1. ~adrift[d] => EndsInMsg(down[d], rx[d] = "body")
          BY <1>1, <1>2, <3>4, <3>7 DEF DownFramedOf
        <4>2. QED
          BY <1>1, <1>2, <3>2, <3>4, <3>7, <4>1, DownFramedWritten
      <3>8. QED
        BY <3>3, <3>5, <3>6, <3>7
    <2>4. CASE S!DispatchBegin(c)
      BY <1>4, <2>4, ServerIsTyped DEF S!DispatchBegin, S!link, MutexInv, ServerTyped
    <2>5. CASE S!DispatchSkip(c)
      BY <1>4, <2>5 DEF S!DispatchSkip, S!Served, S!link
    <2>6. CASE UNCHANGED <<down, half, todo>>
      BY <1>5, <2>6
    <2>7. QED
      BY <1>7, <2>1, <2>2, <2>3, <2>4, <2>5, <2>6
      DEF CommStep, S!CommStep, S!ReadCommand, S!CutCommand, S!ReadBody, S!ReadMisplaced,
          S!ReadGarbled, S!ReadTimeout, S!Disconnected, S!DispatchEnd, S!LoseClient,
          S!ThreadEnd, S!link, S!dispatching
  <1>8. CASE ListenStep \/ CleanupStep
    BY <1>5, <1>8
    DEF ListenStep, S!ListenStep, S!Accept, S!StartClient, CleanupStep, S!CleanupStep,
        S!CleanupBegin, S!CleanupDelete, S!CleanupEnd, S!link, S!dispatching
  <1>9. QED
    BY <1>7, <1>8

LEMMA DownFramedStep ==
  ASSUME TypeOK, MutexInv, StartInv, DownFramed, Next
  PROVE DownFramed'
  BY DownFramedControllerStep, DownFramedServerStep DEF DownFramed, Next

-----------------------------------------------------------------------------
(* The order in which the controllers see the messages. *)
LEMMA OrderTyped ==
  ASSUME TypeOK, MutexInv, DispatchInv, NEW d \in Client
  PROVE /\ seen[d] \in Seq(Nat) /\ bus \in Seq(Message) /\ down[d] \in Seq(L!Token)
        /\ Len(bus) \in Nat
        /\ OnTheWay(d) \in Nat /\ OnTheWay(d) <= Len(bus)
  <1>1. seen[d] \in Seq(Nat) /\ bus \in Seq(Message) /\ down[d] \in Seq(L!Token)
        /\ Len(bus) \in Nat
    BY LenProperties DEF TypeOK, K!TypeOK, S!TypeOK, L!TypeOK, Message
  <1>2. d \in Elems(todo) => Len(bus) # 0
    <2>1. d \in Elems(todo) => todo # <<>>
      BY DEF Elems
    <2>2. QED
      BY <1>1, <2>1, EmptySeq DEF MutexInv, DispatchInv
  <1>3. QED
    BY <1>1, <1>2 DEF OnTheWay

OrderOK == \A d \in Client : OnTheWay(d) \in Nat /\ OnTheWay(d) <= Len(bus)

LEMMA OrderIsOK == TypeOK /\ MutexInv /\ DispatchInv => OrderOK
  BY OrderTyped DEF OrderOK

(* What is on the bus stays, and what is on the way to a controller only   *)
(* grows.                                                                  *)
LEMMA DownInOrderKept ==
  ASSUME TypeOK, MutexInv, DispatchInv, NEW d \in Client, DownInOrderOf(d),
         seen'[d] = seen[d], down'[d] = down[d],
         OnTheWay(d)' \in Nat, OnTheWay(d) <= OnTheWay(d)',
         \A i \in 1..Len(bus) : bus'[i] = bus[i]
  PROVE DownInOrderOf(d)'
  <1>1. ASSUME NEW j \in DOMAIN seen[d] PROVE seen[d][j] <= OnTheWay(d)'
    <2>1. seen[d][j] \in Nat
      <3>1. j \in 1..Len(seen[d])
        BY OrderTyped, LenProperties
      <3>2. QED
        BY <3>1, OrderTyped, ElementOfSeq
    <2>2. seen[d][j] <= OnTheWay(d) /\ OnTheWay(d) \in Nat
      BY OrderTyped DEF DownInOrderOf
    <2>3. QED
      BY <2>1, <2>2
  <1>2. Increasing(down[d], 0, OnTheWay(d)')
    BY OrderTyped, IncreasingWeaker DEF DownInOrderOf
  <1>3. ASSUME NEW i \in DOMAIN down[d], down[d][i].cmd = "BODY"
        PROVE bus'[down[d][i].body].from # d
    <2>1. down[d][i].body \in Nat
      <3>1. down[d] \in Seq(L!Token)
        BY OrderTyped
      <3>2. i \in 1..Len(down[d])
        BY <3>1, LenProperties
      <3>3. down[d][i] \in L!Token
        BY <3>1, <3>2, ElementOfSeq
      <3>4. QED
        BY <3>3 DEF L!Token, L!Garbled
    <2>2. 0 < down[d][i].body /\ down[d][i].body <= OnTheWay(d)
      BY <1>3 DEF DownInOrderOf, Increasing
    <2>3. down[d][i].body \in 1..Len(bus)
      BY <2>1, <2>2, OrderTyped
    <2>4. QED
      BY <1>3, <2>3 DEF DownInOrderOf, Foreign
  <1>4. QED
    BY <1>1, <1>2, <1>3 DEF DownInOrderOf, Foreign, Increasing, Unseen

(* A controller reads some of what is in its stream, and sees something    *)
(* earlier than what is left.                                              *)
LEMMA DownInOrderRead ==
  ASSUME TypeOK, MutexInv, DispatchInv, NEW d \in Client, DownInOrderOf(d),
         down'[d] \in Seq(L!Token), Suffix(down[d], down'[d]),
         OnTheWay(d)' = OnTheWay(d), bus' = bus,
         \/ seen'[d] = seen[d]
         \/ \E b \in Nat : /\ seen'[d] = Append(seen[d], b) /\ b <= OnTheWay(d)
                           /\ Increasing(down'[d], b, OnTheWay(d))
  PROVE DownInOrderOf(d)'
  <1> DEFINE t == down'[d]
  <1> DEFINE hi == OnTheWay(d)
  <1>1. /\ t \in Seq(L!Token) /\ down[d] \in Seq(L!Token) /\ Suffix(down[d], t)
        /\ hi \in Nat /\ seen[d] \in Seq(Nat)
    BY OrderTyped
  <1>2. /\ Increasing(down[d], 0, hi) /\ Foreign(down[d], d) /\ Unseen(down[d], d)
        /\ \A j \in DOMAIN seen[d] : seen[d][j] <= hi
    BY DEF DownInOrderOf
  <1> HIDE DEF t, hi
  <1>3. Increasing(t, 0, hi) /\ Foreign(t, d) /\ Unseen(t, d)
    BY <1>1, <1>2, SuffixKeeps
  <1>4. CASE seen'[d] = seen[d]
    BY <1>2, <1>3, <1>4 DEF t, hi, DownInOrderOf, Increasing, Foreign, Unseen
  <1>5. ASSUME NEW b \in Nat, seen'[d] = Append(seen[d], b), b <= hi, Increasing(t, b, hi)
        PROVE DownInOrderOf(d)'
    <2> DEFINE u == Append(seen[d], b)
    <2>1. DOMAIN u = 1..Len(seen[d]) + 1 /\ DOMAIN seen[d] = 1..Len(seen[d])
          /\ (\A j \in 1..Len(seen[d]) : u[j] = seen[d][j]) /\ u[Len(seen[d]) + 1] = b
          /\ Len(seen[d]) \in Nat
      BY <1>1, AppendProperties, LenProperties
    <2> HIDE DEF u
    <2>2. \A j \in DOMAIN u : u[j] = b \/ (j \in DOMAIN seen[d] /\ u[j] = seen[d][j])
      BY <2>1
    <2>3. \A j \in DOMAIN u : u[j] <= hi
      BY <1>2, <1>5, <2>2
    <2>4. \A i \in DOMAIN t, j \in DOMAIN u : t[i].cmd = "BODY" => u[j] < t[i].body
      BY <1>3, <1>5, <2>2 DEF Unseen, Increasing
    <2>5. seen'[d] = u
      BY <1>5 DEF u
    <2>6. QED
      BY <1>3, <2>3, <2>4, <2>5 DEF t, hi, DownInOrderOf, Increasing, Foreign, Unseen
  <1>6. QED
    BY <1>4, <1>5 DEF t, hi

LEMMA DownInOrderControllerStep ==
  ASSUME TypeOK, MutexInv, DispatchInv, DownInOrder, NEW c \in Client,
         Request(c) \/ AppStep(c) \/ SendBody(c) \/ RxStep(c),
         NEW d \in Client
  PROVE DownInOrderOf(d)'
  <1>1. DownInOrderOf(d)
    BY DEF DownInOrder
  <1>2. OnTheWay(d)' = OnTheWay(d) /\ bus' = bus
    BY DEF Request, AppStep, SendBody, RxStep, server, OnTheWay, Elems
  <1>3. CASE d # c
    BY <1>1, <1>2, <1>3, ControllerFrame, DownInOrderKept, OrderTyped DEF Private
  <1>4. CASE d = c
    <2>1. down'[d] \in Seq(L!Token) /\ Suffix(down[d], down'[d])
      BY <1>4, ControllerStreams, OrderTyped, SuffixSelf
    <2>2. CASE seen' = seen
      BY <1>1, <1>2, <2>1, <2>2, DownInOrderRead
    <2>3. CASE K!RxBody(c)
      <3> DEFINE s == down[d]
      <3> DEFINE b == Head(s).body
      <3>1. /\ s \in Seq(L!Token) /\ s # <<>> /\ OnTheWay(d) \in Nat
            /\ Head(s).cmd = "BODY" /\ Increasing(s, 0, OnTheWay(d))
        BY <1>1, <1>4, <2>3, OrderTyped, SameLink DEF K!RxBody, L!IsMessage, DownInOrderOf
      <3>2. /\ seen'[d] = Append(seen[d], b) /\ down'[d] = Tail(s)
        BY <1>4, <2>3 DEF K!RxBody, K!L!ClientReads, TypeOK, K!TypeOK, L!TypeOK
      <3> HIDE DEF s
      <3>3. b \in Nat /\ b <= OnTheWay(d) /\ Increasing(Tail(s), b, OnTheWay(d))
        BY <3>1, IncreasingHead
      <3>4. QED
        BY <1>1, <1>2, <2>1, <3>2, <3>3, DownInOrderRead
    <2>4. CASE K!RxGarbled(c) /\ seen' # seen
      <3>1. seen'[d] = Append(seen[d], 0)
        BY <1>4, <2>4 DEF K!RxGarbled, K!L!Garbled, TypeOK, K!TypeOK
      <3>2. Increasing(down[d], 0, OnTheWay(d)) /\ OnTheWay(d) \in Nat
            /\ down[d] \in Seq(L!Token)
        BY <1>1, OrderTyped DEF DownInOrderOf
      <3>3. Increasing(down'[d], 0, OnTheWay(d)) /\ 0 <= OnTheWay(d)
        <4> DEFINE t == down'[d]
        <4> DEFINE hi == OnTheWay(d)
        <4>1. t \in Seq(L!Token) /\ Suffix(down[d], t)
          BY <2>1
        <4>2. hi \in Nat /\ Increasing(down[d], 0, hi) /\ down[d] \in Seq(L!Token)
          BY <3>2
        <4> HIDE DEF t, hi
        <4>3. Increasing(t, 0, hi) /\ 0 <= hi
          BY <4>1, <4>2, SuffixKeeps
        <4>4. QED
          BY <4>3 DEF t, hi
      <3>4. QED
        BY <1>1, <1>2, <2>1, <3>1, <3>3, DownInOrderRead
    <2>5. QED
      BY <2>2, <2>3, <2>4
      DEF Request, AppStep, SendBody, RxStep, K!Request, K!AppStep, K!RxStep, K!Open,
        K!Close, K!Vanish, K!StartRequest, K!StartAnswer, K!StartTimeout, K!StopRequest,
        K!StopJoin, K!SendCommand, K!SendBody, K!RxCommand, K!RxCutCommand,
        K!RxMisplaced, K!RxTimeout, K!RxDisconnected, K!reading
  <1>5. QED
    BY <1>3, <1>4

LEMMA DownInOrderServerStep ==
  ASSUME TypeOK, TypeOK', MutexInv, MutexInv', DispatchInv, DispatchInv', StartInv,
         DownInOrder,
         (\E c \in Client : CommStep(c)) \/ ListenStep \/ CleanupStep,
         NEW d \in Client
  PROVE DownInOrderOf(d)'
  <1>1. DownInOrderOf(d) /\ StartOf(d)
    BY DEF DownInOrder, StartInv
  <1>2. seen' = seen
    BY DEF CommStep, ListenStep, CleanupStep, controllers
  <1>3. /\ OnTheWay(d) \in Nat /\ OnTheWay(d) <= Len(bus) /\ Len(bus) \in Nat
        /\ Increasing(down[d], 0, OnTheWay(d)) /\ Foreign(down[d], d)
        /\ Unseen(down[d], d) /\ \A j \in DOMAIN seen[d] : seen[d][j] <= OnTheWay(d)
        /\ down[d] \in Seq(L!Token) /\ bus \in Seq(Message) /\ seen[d] \in Seq(Nat)
    BY <1>1, OrderTyped DEF DownInOrderOf
  <1>4. OnTheWay(d)' \in Nat /\ OnTheWay(d)' <= Len(bus')
    <2>1. OrderOK'
      BY OrderIsOK, PTL
    <2>2. QED
      BY <2>1 DEF OrderOK
  <1>5. CASE down'[d] = down[d] /\ bus' = bus /\ (d \in Elems(todo') => d \in Elems(todo))
    <2>1. OnTheWay(d) <= OnTheWay(d)'
      BY <1>3, <1>4, <1>5 DEF OnTheWay, Elems
    <2>2. QED
      BY <1>1, <1>2, <1>4, <1>5, <2>1, DownInOrderKept
  <1>6. CASE UNCHANGED <<down, bus, todo>>
    BY <1>5, <1>6
  <1>7. ASSUME NEW t \in L!Token, down'[d] = Append(down[d], t), bus' = bus,
               t.cmd # "BODY" => todo' = todo,
               t.cmd = "BODY" =>
                 /\ OnTheWay(d) < t.body /\ t.body <= OnTheWay(d)'
                 /\ bus[t.body].from # d
        PROVE DownInOrderOf(d)'
    <2> DEFINE s == Append(down[d], t)
    <2> DEFINE lo == OnTheWay(d)
    <2> DEFINE hi == OnTheWay(d)'
    <2>1. lo \in Nat /\ hi \in Nat /\ lo <= hi
      <3>1. t.cmd # "BODY" => hi = lo
        BY <1>7 DEF OnTheWay, Elems
      <3>2. t.body \in Nat
        BY DEF L!Token, L!Garbled
      <3>3. QED
        BY <1>3, <1>4, <1>7, <3>1, <3>2
    <2> HIDE DEF lo, hi
    <2>2. /\ Increasing(s, 0, hi)
          /\ \A i \in DOMAIN s :
               \/ i \in DOMAIN down[d] /\ s[i] = down[d][i]
               \/ s[i] = t
      BY <1>3, <1>7, <2>1, IncreasingAppend DEF lo, hi
    <2> HIDE DEF s
    <2>3. \A i \in DOMAIN s : s[i].cmd = "BODY" => bus[s[i].body].from # d
      BY <1>3, <1>7, <2>2 DEF Foreign
    <2>4. ASSUME NEW j \in DOMAIN seen[d]
          PROVE /\ seen[d][j] <= hi
                /\ t.cmd = "BODY" => seen[d][j] < t.body
      <3>1. seen[d][j] \in Nat
        <4>1. j \in 1..Len(seen[d])
          BY <1>3, LenProperties
        <4>2. QED
          BY <1>3, <4>1, ElementOfSeq
      <3>2. seen[d][j] <= lo /\ t.body \in Nat
        BY <1>3 DEF lo, L!Token, L!Garbled
      <3>3. QED
        BY <1>7, <2>1, <3>1, <3>2 DEF lo
    <2>5. \A i \in DOMAIN s, j \in DOMAIN seen[d] : s[i].cmd = "BODY" => seen[d][j] < s[i].body
      BY <1>3, <2>2, <2>4 DEF Unseen
    <2>6. down'[d] = s
      BY <1>7 DEF s
    <2>7. QED
      BY <1>2, <1>7, <2>2, <2>3, <2>4, <2>5, <2>6
      DEF hi, DownInOrderOf, Increasing, Foreign, Unseen
  <1>8. ASSUME NEW c \in Client, CommStep(c) PROVE DownInOrderOf(d)'
    <2>1. CASE S!AnswerStart(c) \/ S!AnswerStop(c)
      <3>1. PICK t \in L!Token : S!L!ServerWrites(c, t) /\ t.cmd # "BODY"
        BY <2>1, Tokens DEF S!AnswerStart, S!AnswerStop
      <3>2. /\ \A e \in Client \ {c} : down'[e] = down[e]
            /\ down'[c] = down[c] \/ down'[c] = Append(down[c], t)
        BY <3>1, ServerWritesTo DEF TypeOK
      <3>3. bus' = bus /\ todo' = todo
        BY <2>1 DEF S!AnswerStart, S!AnswerStop, S!dispatching
      <3>4. CASE down'[d] = down[d]
        BY <1>5, <3>3, <3>4
      <3>5. CASE down'[d] = Append(down[d], t)
        BY <1>7, <3>1, <3>3, <3>5
      <3>6. QED
        BY <3>2, <3>4, <3>5
    <2>2. CASE S!DispatchCommand(c)
      <3> DEFINE x == Head(todo)
      <3> DEFINE t == S!L!Cmd("MSG")
      <3>1. /\ x \in Client /\ todo # <<>> /\ todo \in Seq(Client) /\ bus' = bus
            /\ t \in L!Token /\ t.cmd # "BODY"
        BY <2>2, ServerIsTyped, HeadTailProperties, Tokens
        DEF S!DispatchCommand, ServerTyped
      <3>2. /\ \A e \in Client \ {x} : down'[e] = down[e]
            /\ \/ todo' = todo /\ down'[x] = Append(down[x], t)
               \/ todo' = Tail(todo) /\ down'[x] = down[x]
        BY <2>2, <3>1, ServerWritesTo DEF S!DispatchCommand, S!Served, TypeOK
      <3>3. Elems(Tail(todo)) \subseteq Elems(todo)
        BY <3>1, ElemsTail
      <3> HIDE DEF x, t
      <3>4. CASE down'[d] = down[d]
        BY <1>5, <3>1, <3>2, <3>3, <3>4
      <3>5. CASE todo' = todo /\ down'[d] = Append(down[d], t)
        BY <1>7, <3>1, <3>5
      <3>6. QED
        BY <3>2, <3>4, <3>5
    <2>3. CASE S!DispatchBody(c)
      <3> DEFINE x == Head(todo)
      <3>1. /\ x \in Client /\ todo # <<>> /\ todo \in Seq(Client) /\ bus' = bus
            /\ todo' = Tail(todo) /\ half
        BY <2>3, ServerIsTyped, HeadTailProperties DEF S!DispatchBody, S!Served, ServerTyped
      <3>2. PICK t \in L!Token : /\ S!L!ServerWrites(x, t)
                                 /\ t.cmd = "BODY" /\ t.body = Len(bus)
        BY <1>3, <2>3, Tokens DEF S!DispatchBody
      <3>3. /\ \A e \in Client \ {x} : down'[e] = down[e]
            /\ down'[x] = down[x] \/ down'[x] = Append(down[x], t)
        BY <3>1, <3>2, ServerWritesTo DEF TypeOK
      <3>4. /\ Elems(Tail(todo)) \subseteq Elems(todo) /\ x \in Elems(todo)
            /\ x \notin Elems(Tail(todo))
        BY <3>1, ElemsTail DEF MutexInv
      <3>5. bus[Len(bus)].from = m_mutex /\ x # m_mutex
        BY <3>1 DEF DispatchInv, MutexInv
      <3> HIDE DEF x
      <3>6. CASE down'[d] = down[d]
        BY <1>5, <3>1, <3>4, <3>6
      <3>7. CASE d = x /\ down'[d] = Append(down[d], t)
        <4>1. OnTheWay(d) = Len(bus) - 1 /\ OnTheWay(d)' = Len(bus)
          <5>1. d \in Elems(todo) /\ d \notin Elems(todo')
            BY <3>1, <3>4, <3>7
          <5>2. QED
            BY <3>1, <5>1 DEF OnTheWay, Elems
        <4>2. OnTheWay(d) < t.body /\ t.body <= OnTheWay(d)'
          BY <1>3, <3>2, <4>1
        <4>3. QED
          BY <1>7, <3>1, <3>2, <3>5, <3>7, <4>2
      <3>8. QED
        BY <3>3, <3>6, <3>7
    <2>4. CASE S!DispatchBegin(c)
      <3>1. /\ down' = down /\ todo = <<>>
            /\ bus' = Append(bus, [from |-> c, msg |-> msg[c]])
            /\ [from |-> c, msg |-> msg[c]] \in Message
        BY <2>4, ServerIsTyped
        DEF S!DispatchBegin, S!link, MutexInv, ServerTyped, Message
      <3>2. Len(bus') = Len(bus) + 1 /\ \A i \in 1..Len(bus) : bus'[i] = bus[i]
        BY <1>3, <3>1, AppendProperties
      <3>3. OnTheWay(d) = Len(bus)
        BY <3>1 DEF OnTheWay, Elems
      <3>4. OnTheWay(d) <= OnTheWay(d)'
        BY <1>3, <3>2, <3>3 DEF OnTheWay
      <3>5. QED
        BY <1>1, <1>2, <1>4, <3>1, <3>2, <3>4, DownInOrderKept
    <2>5. CASE S!DispatchSkip(c)
      <3>1. todo # <<>> /\ todo \in Seq(Client) /\ todo' = Tail(todo) /\ UNCHANGED <<down, bus>>
        BY <2>5, ServerIsTyped DEF S!DispatchSkip, S!Served, S!link, ServerTyped
      <3>2. Elems(Tail(todo)) \subseteq Elems(todo)
        BY <3>1, ElemsTail
      <3>3. QED
        BY <1>5, <3>1, <3>2
    <2>6. CASE UNCHANGED <<down, bus, todo>>
      BY <1>6, <2>6
    <2>7. QED
      BY <1>8, <2>1, <2>2, <2>3, <2>4, <2>5, <2>6
      DEF CommStep, S!CommStep, S!ReadCommand, S!CutCommand, S!ReadBody,
          S!ReadMisplaced, S!ReadGarbled, S!ReadTimeout, S!Disconnected, S!DispatchEnd, S!LoseClient, S!ThreadEnd, S!link,
          S!dispatching
  <1>9. CASE ListenStep \/ CleanupStep
    BY <1>6, <1>9
    DEF ListenStep, S!ListenStep, S!Accept, S!StartClient, CleanupStep, S!CleanupStep,
        S!CleanupBegin, S!CleanupDelete, S!CleanupEnd, S!link, S!dispatching
  <1>10. QED
    BY <1>8, <1>9

LEMMA DownInOrderStep ==
  ASSUME TypeOK, TypeOK', MutexInv, MutexInv', DispatchInv, DispatchInv', StartInv,
         DownInOrder, Next
  PROVE DownInOrder'
  BY DownInOrderControllerStep, DownInOrderServerStep DEF DownInOrder, Next


-----------------------------------------------------------------------------
(* The streams from the controllers. *)
UpTyped ==
  /\ up \in [Client -> Seq(L!Token)] /\ serving \in BOOLEAN
  /\ connected \in [Client -> {"never", "open", "closed"}]
  /\ app \in [Client -> AppState] /\ tx \in [Client -> {"idle", "body"}]
  /\ sent \in [Client -> Nat] /\ cut \in [Client -> BOOLEAN]
  /\ comm \in [Client -> S!Comm] /\ msg \in [Client -> Nat]
  /\ need \in [Client -> Nat] /\ late \in [Client -> BOOLEAN]
  /\ bus \in Seq(Message)

LEMMA UpIsTyped == TypeOK => UpTyped
  BY DEF TypeOK, L!TypeOK, K!TypeOK, S!TypeOK, UpTyped, AppState, Message

(* Once a write or a read was cut, or another thread sends, nothing is     *)
(* said of what is in the stream.                                          *)
LEMMA WholeStaysWhole ==
  ASSUME TypeOK, Next, NEW d \in Client, Whole(d)'
  PROVE Whole(d)
  <1>1. UpTyped
    BY UpIsTyped
  <1>2. \/ cut' = cut
        \/ \E c \in Client : cut' = [cut EXCEPT ![c] = TRUE]
    <2>1. ASSUME NEW c \in Client, Request(c) \/ AppStep(c) \/ SendBody(c) \/ RxStep(c)
          PROVE cut' = cut \/ cut' = [cut EXCEPT ![c] = TRUE]
      BY <2>1
      DEF Request, AppStep, SendBody, RxStep, K!Request, K!AppStep, K!RxStep, K!Open,
        K!Close, K!Vanish, K!StartRequest, K!StartAnswer, K!StartTimeout, K!StopRequest,
        K!StopJoin, K!SendCommand, K!SendBody, K!RxCommand, K!RxCutCommand, K!RxBody,
        K!RxMisplaced, K!RxGarbled, K!RxTimeout, K!RxDisconnected, K!Cut
    <2>2. QED
      BY <2>1 DEF Next, CommStep, ListenStep, CleanupStep, controllers
  <1>3. \/ late' = late
        \/ \E c \in Client : late' = [late EXCEPT ![c] = TRUE]
    <2>1. ASSUME NEW c \in Client, CommStep(c)
          PROVE late' = late \/ late' = [late EXCEPT ![c] = TRUE]
      BY <2>1
      DEF CommStep, S!CommStep, S!ReadCommand, S!CutCommand, S!AnswerStart, S!AnswerStop,
        S!ReadBody, S!ReadMisplaced, S!ReadGarbled, S!ReadTimeout, S!Disconnected,
        S!DispatchBegin, S!DispatchSkip, S!DispatchCommand, S!DispatchBody,
        S!DispatchEnd, S!LoseClient, S!ThreadEnd, S!reading
    <2>2. CASE ListenStep \/ CleanupStep
      BY <2>2
      DEF ListenStep, CleanupStep, S!ListenStep, S!CleanupStep, S!Accept, S!StartClient,
        S!CleanupBegin, S!CleanupDelete, S!CleanupEnd, S!reading
    <2>3. QED
      BY <2>1, <2>2 DEF Next, Request, AppStep, SendBody, RxStep, server
  <1>4. QED
    BY <1>1, <1>2, <1>3 DEF Whole, UpTyped

LEMMA UpFramedKept ==
  ASSUME NEW d \in Client, UpFramedOf(d), serving' => serving,
         Whole(d)' => Whole(d), up'[d] = up[d], tx'[d] = tx[d],
         connected'[d] = connected[d], comm'[d] = "body" <=> comm[d] = "body"
  PROVE UpFramedOf(d)'
  BY DEF UpFramedOf, UpOpen, Framed, FollowsMsg, EndsInMsg, L!Command

(* A controller writes a command when no body is missing, or the body.     *)
LEMMA UpFramedWritten ==
  ASSUME TypeOK, NEW d \in Client, UpFramedOf(d), NEW t \in L!Token,
         t.cmd \in L!Command \cup {"BODY"},
         serving' = serving, Whole(d)' => Whole(d), comm' = comm,
         up'[d] = IF serving THEN Append(up[d], t) ELSE up[d],
         Whole(d) /\ serving => (t.cmd = "BODY" <=> EndsInMsg(up[d], comm[d] = "body")),
         connected'[d] = "open",
         Whole(d) => (tx'[d] = "body" <=> t.cmd = "MSG")
  PROVE UpFramedOf(d)'
  <1>1. SUFFICES ASSUME Whole(d)', serving'
                 PROVE /\ Framed(up'[d], comm'[d] = "body")
                       /\ EndsInMsg(up'[d], comm'[d] = "body") => UpOpen(d)'
                       /\ tx'[d] = "body" => EndsInMsg(up'[d], comm'[d] = "body")
    BY DEF UpFramedOf, Framed, FollowsMsg, EndsInMsg, L!Command, UpOpen
  <1> DEFINE s == up[d]
  <1> DEFINE b == comm[d] = "body"
  <1>2. /\ Framed(s, b) /\ s \in Seq(L!Token) /\ b \in BOOLEAN
        /\ t.cmd = "BODY" <=> EndsInMsg(s, b)
    BY <1>1, UpIsTyped DEF UpFramedOf, UpTyped
  <1>3. up'[d] = Append(s, t) /\ comm'[d] = comm[d]
    BY <1>1
  <1> HIDE DEF s, b
  <1>4. /\ Framed(Append(s, t), b)
        /\ EndsInMsg(Append(s, t), b) <=> t.cmd = "MSG"
    BY <1>2, FramedAppend
  <1>5. tx'[d] = "body" <=> t.cmd = "MSG"
    BY <1>1
  <1>6. /\ Framed(up'[d], comm'[d] = "body")
        /\ EndsInMsg(up'[d], comm'[d] = "body") <=> t.cmd = "MSG"
    <2> DEFINE u == Append(s, t)
    <2> HIDE DEF u
    <2>1. Framed(u, comm[d] = "body") /\ (EndsInMsg(u, comm[d] = "body") <=> t.cmd = "MSG")
      BY <1>4 DEF u, b
    <2>2. up'[d] = u
      BY <1>3 DEF u
    <2>3. QED
      BY <1>3, <2>1, <2>2 DEF Framed, FollowsMsg, EndsInMsg, L!Command
  <1>7. QED
    BY <1>5, <1>6 DEF UpOpen

LEMMA UpFramedControllerStep ==
  ASSUME TypeOK, StartInv, UpFramed, NEW c \in Client,
         Request(c) \/ AppStep(c) \/ SendBody(c) \/ RxStep(c),
         NEW d \in Client
  PROVE UpFramedOf(d)'
  <1>1. UpFramedOf(d) /\ StartOf(d) /\ UpTyped
    BY UpIsTyped DEF UpFramed, StartInv
  <1>2. comm' = comm /\ serving' = serving
    BY ControllerStreams DEF server
  <1>3. Whole(d)' => Whole(d)
    BY WholeStaysWhole DEF Next
  <1>4. CASE UNCHANGED <<up, tx, connected>> \/ d # c
    <2>1. up'[d] = up[d] /\ tx'[d] = tx[d] /\ connected'[d] = connected[d]
      BY <1>4, ControllerFrame DEF Private
    <2>2. QED
      BY <1>1, <1>2, <1>3, <2>1, UpFramedKept
  <1>5. CASE d = c /\ K!Open(c)
    <2>1. /\ up' = up /\ tx' = tx /\ connected[d] = "never" /\ connected'[d] = "open"
      BY <1>1, <1>5 DEF K!Open, StartOf, UpTyped
    <2>2. QED
      BY <1>1, <1>2, <1>3, <2>1
      DEF UpFramedOf, UpOpen, Framed, FollowsMsg, EndsInMsg, L!Command
  <1>6. CASE d = c /\ K!Vanish(c)
    <2>1. up' = up /\ tx'[d] = "idle" /\ connected'[d] = "closed"
      BY <1>1, <1>6 DEF K!Vanish, K!TxGoto, UpTyped
    <2>2. QED
      BY <1>1, <1>2, <1>3, <2>1
      DEF UpFramedOf, UpOpen, Framed, FollowsMsg, EndsInMsg, L!Command
  (* What the controller writes at the end of its stream. *)
  <1>7. ASSUME d = c, NEW t \in L!Token, t.size \in Nat, connected' = connected,
               t.cmd \in L!Command \cup {"BODY"}, connected[d] = "open",
               Whole(d) /\ serving =>
                 (t.cmd = "BODY" <=> EndsInMsg(up[d], comm[d] = "body")),
               Whole(d) => (tx'[d] = "body" <=> t.cmd = "MSG"),
               \/ K!L!ClientWrites(c, t)
               \/ cut' = [cut EXCEPT ![c] = TRUE]
        PROVE UpFramedOf(d)'
    <2>1. CASE cut' = [cut EXCEPT ![c] = TRUE]
      BY <1>1, <1>7, <2>1 DEF Whole, UpFramedOf, UpTyped
    <2>2. CASE K!L!ClientWrites(c, t)
      <3>1. up'[d] = IF serving THEN Append(up[d], t) ELSE up[d]
        BY <1>7, <2>2, ClientWritesTo DEF TypeOK
      <3>2. QED
        BY <1>1, <1>2, <1>3, <1>7, <3>1, UpFramedWritten
    <2>3. QED
      BY <1>7, <2>1, <2>2
  <1>8. \A cmd \in {"START", "STOP", "MSG"} :
          /\ K!L!Cmd(cmd) \in L!Token /\ K!L!Cmd(cmd).size \in Nat
          /\ K!L!Cmd(cmd).cmd = cmd /\ cmd \in L!Command \cup {"BODY"}
    BY Tokens
  <1>9. ASSUME d = c, K!StartRequest(c) \/ K!StopRequest(c), up' # up
        PROVE UpFramedOf(d)'
    <2>1. /\ tx' = tx /\ connected' = connected /\ K!TxMayInterleave(c)
          /\ app[c] \in {"open", "failed", "stopped", "started"}
          /\ \E cmd \in {"START", "STOP"} :
               \/ K!L!ClientWrites(c, K!L!Cmd(cmd))
               \/ cut' = [cut EXCEPT ![c] = TRUE]
      BY <1>9 DEF K!StartRequest, K!StopRequest, K!Cut
    <2>2. connected[d] = "open"
      BY <1>1, <1>9, <2>1 DEF StartOf, UpTyped
    <2>3. Whole(d) => tx[d] = "idle"
      BY <1>9, <2>1 DEF Whole, K!TxMayInterleave
    <2>4. Whole(d) /\ serving => ~EndsInMsg(up[d], comm[d] = "body")
      BY <1>1, <2>2, <2>3 DEF UpFramedOf, UpOpen
    <2>5. Whole(d) => tx'[d] = "idle"
      BY <2>1, <2>3
    <2>6. PICK cmd \in {"START", "STOP"} :
               \/ K!L!ClientWrites(c, K!L!Cmd(cmd))
               \/ cut' = [cut EXCEPT ![c] = TRUE]
      BY <2>1
    <2>7. K!L!Cmd(cmd).cmd # "BODY" /\ K!L!Cmd(cmd).cmd # "MSG"
      BY <1>8
    <2>8. QED
      BY <1>7, <1>8, <1>9, <2>1, <2>2, <2>4, <2>5, <2>6, <2>7
  <1>10. ASSUME d = c, K!SendCommand(c)
         PROVE UpFramedOf(d)'
    <2>1. /\ connected' = connected /\ tx[c] = "idle"
          /\ app[c] \in {"started", "stopping"}
          /\ \/ K!L!ClientWrites(c, K!L!Cmd("MSG")) /\ tx' = [tx EXCEPT ![c] = "body"]
             \/ cut' = [cut EXCEPT ![c] = TRUE] /\ tx' = tx
      BY <1>10 DEF K!SendCommand, K!Cut, K!TxGoto
    <2>2. connected[d] = "open"
      BY <1>1, <1>10, <2>1 DEF StartOf, UpTyped
    <2>3. Whole(d) /\ serving => ~EndsInMsg(up[d], comm[d] = "body")
      BY <1>1, <1>10, <2>1, <2>2 DEF UpFramedOf, UpOpen
    <2>4. CASE cut' = [cut EXCEPT ![c] = TRUE] /\ tx' = tx
      BY <1>1, <1>10, <2>1, <2>4 DEF Whole, UpFramedOf, UpTyped
    <2>5. CASE K!L!ClientWrites(c, K!L!Cmd("MSG")) /\ tx' = [tx EXCEPT ![c] = "body"]
      <3>1. tx'[d] = "body"
        BY <1>1, <1>10, <2>5 DEF UpTyped
      <3>2. QED
        BY <1>7, <1>8, <1>10, <2>1, <2>2, <2>3, <2>5, <3>1
    <2>6. QED
      BY <2>1, <2>4, <2>5
  <1>11. ASSUME d = c, K!SendBody(c)
         PROVE UpFramedOf(d)'
    <2>1. /\ connected' = connected /\ tx[c] = "body" /\ tx' = [tx EXCEPT ![c] = "idle"]
          /\ \E n \in BodySize :
               \/ K!L!ClientWrites(c, K!L!Body(sent[c], n))
               \/ cut' = [cut EXCEPT ![c] = TRUE]
      BY <1>11 DEF K!SendBody, K!Cut, K!TxGoto
    <2>2. PICK n \in BodySize : \/ K!L!ClientWrites(c, K!L!Body(sent[c], n))
                                \/ cut' = [cut EXCEPT ![c] = TRUE]
      BY <2>1
    <2>3. /\ K!L!Body(sent[c], n) \in L!Token /\ K!L!Body(sent[c], n).size \in Nat
          /\ K!L!Body(sent[c], n).cmd = "BODY"
      BY <1>1, Tokens DEF UpTyped
    <2>4. tx'[d] = "idle" /\ connected[d] = "open"
      BY <1>1, <1>11, <2>1 DEF UpFramedOf, UpTyped
    <2>5. Whole(d) /\ serving => EndsInMsg(up[d], comm[d] = "body")
      BY <1>1, <1>11, <2>1 DEF UpFramedOf
    <2>6. QED
      BY <1>7, <1>11, <2>1, <2>2, <2>3, <2>4, <2>5
  <1>12. QED
    BY <1>4, <1>5, <1>6, <1>9, <1>10, <1>11
    DEF Request, AppStep, SendBody, RxStep, K!Request, K!AppStep, K!RxStep, K!Close,
        K!StartRequest, K!StopRequest, K!StartAnswer, K!StartTimeout, K!StopJoin,
        K!RxCommand, K!RxCutCommand, K!RxBody, K!RxMisplaced, K!RxGarbled, K!RxTimeout,
        K!RxDisconnected, K!link

(* The server reads commands for commands and messages for messages.       *)
LEMMA UpFramedCommStep ==
  ASSUME TypeOK, StartedInv, UpFramed, AllMessages, NEW c \in Client, CommStep(c),
         NEW d \in Client
  PROVE UpFramedOf(d)'
  <1>1. UpFramedOf(d) /\ StartedOf(d) /\ AllMessagesOf(d) /\ UpTyped
    BY UpIsTyped DEF UpFramed, StartedInv, AllMessages
  <1>2. /\ UNCHANGED <<tx, cut, connected>> /\ serving
        /\ \A e \in Client \ {c} : up'[e] = up[e] /\ comm'[e] = comm[e]
    BY CommStreams, CommFrame DEF controllers, Served
  <1>3. Whole(d)' => Whole(d)
    BY WholeStaysWhole DEF Next
  <1>4. CASE up'[d] = up[d] /\ (comm'[d] = "body" <=> comm[d] = "body")
    BY <1>1, <1>2, <1>3, <1>4, UpFramedKept
  <1>5. CASE d # c
    BY <1>2, <1>4, <1>5
  <1>6. CASE ~Whole(d)' \/ ~serving'
    BY <1>1, <1>2, <1>6 DEF UpFramedOf
  <1>7. ASSUME d = c, Whole(d), up[c] # <<>>, up'[c] = Tail(up[c]),
               comm'[c] = "body" <=> Head(up[c]).cmd = "MSG"
        PROVE UpFramedOf(d)'
    <2> DEFINE s == up[d]
    <2> DEFINE b == comm[d] = "body"
    <2>1. /\ Framed(s, b) /\ s \in Seq(L!Token) /\ s # <<>> /\ b \in BOOLEAN
          /\ EndsInMsg(s, b) => UpOpen(d)
          /\ tx[d] = "body" => EndsInMsg(s, b)
      BY <1>1, <1>2, <1>7 DEF UpFramedOf, UpTyped
    <2> HIDE DEF s, b
    <2>2. /\ Framed(Tail(s), Head(s).cmd = "MSG")
          /\ EndsInMsg(Tail(s), Head(s).cmd = "MSG") <=> EndsInMsg(s, b)
      BY <2>1, FramedTail
    <2>3. up'[d] = Tail(s) /\ (comm'[d] = "body") = (Head(s).cmd = "MSG")
      BY <1>7 DEF s
    <2>4. /\ Framed(up'[d], comm'[d] = "body")
          /\ EndsInMsg(up'[d], comm'[d] = "body") <=> EndsInMsg(s, b)
      BY <2>2, <2>3 DEF Framed, FollowsMsg, EndsInMsg, L!Command
    <2>5. UpOpen(d)' = UpOpen(d) /\ tx'[d] = tx[d] /\ connected'[d] = connected[d]
      BY <1>2 DEF UpOpen
    <2>6. QED
      BY <1>1, <2>1, <2>4, <2>5 DEF UpFramedOf
  <1>8. Whole(d) /\ up[d] # <<>> =>
          /\ Head(up[d]).cmd = "BODY" <=> comm[d] = "body"
          /\ comm[d] # "body" => Head(up[d]).cmd \in L!Command
    BY <1>1, <1>2, FramedAtHead DEF UpFramedOf, UpTyped
  <1>9. ASSUME d = c, Whole(d), S!ReadCommand(c)
        PROVE UpFramedOf(d)'
    <2>1. /\ comm[c] = "command" /\ L!HasWord(up[c]) /\ up[c] \in Seq(L!Token)
          /\ up' = [up EXCEPT ![c] = L!AfterWord(up[c])]
          /\ \E word \in L!WordsAt(up[c]) : S!Obey(c, word)
      BY <1>1, <1>9, SameLink DEF S!ReadCommand, S!L!ServerReads, UpTyped
    <2>2. up[c] # <<>> /\ Head(up[c]).cmd \in L!Command
      BY <1>8, <1>9, <2>1 DEF L!HasWord
    <2>3. Head(up[c]).size = 2
      BY <2>1, <2>2, SizeIsTyped DEF L!Token, L!Command
    <2>4. up'[c] = Tail(up[c])
      BY <1>1, <2>1, <2>3 DEF L!AfterWord, L!Take, UpTyped
    <2>5. S!Obey(c, Head(up[c]).cmd)
      BY <2>1, <2>2 DEF L!WordsAt
    <2>6. Head(up[c]).cmd = "MSG" => m_controller_started[c]
      <3>1. 1 \in DOMAIN up[c] /\ up[c][1] = Head(up[c])
        BY <2>1, <2>2, HeadTailProperties, EmptySeq, LenProperties
      <3>2. QED
        BY <1>1, <1>9, <2>1, <3>1 DEF StartedOf
    <2>7. comm'[c] = "body" <=> Head(up[c]).cmd = "MSG"
      <3>1. CASE Head(up[c]).cmd = "MSG"
        BY <1>1, <2>5, <2>6, <3>1 DEF S!Obey, S!Goto, UpTyped
      <3>2. CASE Head(up[c]).cmd # "MSG"
        <4>1. \E s \in {"command", "start", "stop", "body"} :
                comm' = [comm EXCEPT ![c] = s] /\ (s = "body" => Head(up[c]).cmd = "MSG")
          BY <2>5, ObeyGoes DEF S!Goto
        <4>2. QED
          BY <1>1, <3>2, <4>1 DEF UpTyped
      <3>3. QED
        BY <3>1, <3>2
    <2>8. QED
      BY <1>7, <1>9, <2>2, <2>4, <2>7
  <1>10. ASSUME d = c, Whole(d), S!ReadBody(c)
         PROVE UpFramedOf(d)'
    <2>1. /\ up[c] # <<>> /\ Head(up[c]).cmd = "BODY" /\ up'[c] = Tail(up[c])
          /\ comm'[c] = "dispatch"
      BY <1>1, <1>10, SameLink
      DEF S!ReadBody, L!IsMessage, S!L!ServerReads, S!Goto, UpTyped
    <2>2. QED
      BY <1>7, <1>10, <2>1
  <1>11. ASSUME d = c, Whole(d), S!ReadMisplaced(c)
         PROVE ~serving'
    <2>1. comm[c] = "body" /\ up[c] # <<>> /\ Head(up[c]).cmd # "BODY"
      BY <1>11, SameLink DEF S!ReadMisplaced, L!IsMessage
    <2>2. QED
      BY <1>8, <1>11, <2>1
  <1>12. ASSUME d = c, S!ReadGarbled(c)
         PROVE ~Whole(d)
    BY <1>1, <1>12 DEF S!ReadGarbled, AllMessagesOf
  <1>13. ASSUME d = c, S!CutCommand(c) \/ S!ReadTimeout(c)
         PROVE ~Whole(d)'
    BY <1>1, <1>13 DEF S!CutCommand, S!ReadTimeout, Whole, UpTyped
  <1>14. ASSUME d = c, S!Disconnected(c)
         PROVE UpFramedOf(d)'
    <2>1. /\ up[c] = <<>> /\ connected[c] = "closed" /\ up' = up /\ comm'[c] = "lost"
      BY <1>1, <1>14
      DEF S!Disconnected, S!L!ServerFindsClosed, S!link, S!Goto, UpTyped
    <2>2. QED
      BY <1>1, <1>2, <1>14, <2>1
      DEF UpFramedOf, UpOpen, Framed, FollowsMsg, EndsInMsg, L!Command
  <1>15. ASSUME NEW s \in S!Comm \ {"body"}, comm[c] # "body", S!Goto(c, s), up' = up
         PROVE UpFramedOf(d)'
    BY <1>1, <1>4, <1>15 DEF S!Goto, UpTyped
  <1>16. {"command", "send", "leaving", "ended"} \subseteq S!Comm \ {"body"}
    BY DEF S!Comm
  <1>17. CASE S!AnswerStart(c) \/ S!AnswerStop(c) \/ S!DispatchBegin(c)
              \/ S!DispatchEnd(c) \/ S!LoseClient(c) \/ S!ThreadEnd(c)
    BY <1>15, <1>16, <1>17
    DEF S!AnswerStart, S!AnswerStop, S!DispatchBegin, S!DispatchEnd, S!LoseClient,
        S!ThreadEnd, S!link
  <1>18. CASE S!DispatchSkip(c) \/ S!DispatchCommand(c) \/ S!DispatchBody(c)
    BY <1>4, <1>18
    DEF S!DispatchSkip, S!DispatchCommand, S!DispatchBody, S!link
  <1>19. QED
    BY <1>3, <1>5, <1>6, <1>9, <1>10, <1>11, <1>12, <1>13, <1>14, <1>17, <1>18
    DEF CommStep, S!CommStep

LEMMA UpFramedStep ==
  ASSUME TypeOK, ListsInv, StartInv, StartedInv, UpFramed, AllMessages, Next
  PROVE UpFramed'
  <1>1. SUFFICES ASSUME NEW d \in Client PROVE UpFramedOf(d)'
    BY DEF UpFramed
  <1>2. UpFramedOf(d) /\ UpTyped
    BY UpIsTyped DEF UpFramed
  <1>3. CASE ListenStep \/ CleanupStep
    <2>1. UNCHANGED <<up, tx, connected, serving>>
      BY <1>3
      DEF ListenStep, CleanupStep, S!ListenStep, S!CleanupStep, S!Accept, S!StartClient,
        S!CleanupBegin, S!CleanupDelete, S!CleanupEnd, S!link, controllers
    <2>2. \/ comm' = comm
          \/ \E c \in Client : comm[c] = "none" /\ comm' = [comm EXCEPT ![c] = "command"]
      BY <1>3, ListsTyped
      DEF ListenStep, CleanupStep, S!ListenStep, S!CleanupStep, S!Accept, S!StartClient,
        S!CleanupBegin, S!CleanupDelete, S!CleanupEnd, S!Goto, ListsInv, ListsTypes
    <2>3. comm'[d] = "body" <=> comm[d] = "body"
      BY <1>2, <2>2 DEF UpTyped
    <2>4. QED
      BY <1>2, <2>1, <2>3, WholeStaysWhole, UpFramedKept
  <1>4. QED
    BY <1>3, UpFramedControllerStep, UpFramedCommStep DEF Next


-----------------------------------------------------------------------------
(* The order in which the messages of a controller come to the bus. *)
LEMMA BusTyped ==
  ASSUME TypeOK, NEW i \in DOMAIN bus
  PROVE bus[i].msg \in Nat /\ bus[i].from \in Client
  <1>1. bus \in Seq(Message)
    BY UpIsTyped DEF UpTyped
  <1>2. i \in 1..Len(bus)
    BY <1>1, LenProperties
  <1>3. bus[i] \in Message
    BY <1>1, <1>2, ElementOfSeq
  <1>4. QED
    BY <1>3 DEF Message

(* The bus grows by the message of the dispatch that begins. *)
LEMMA BusGrows ==
  ASSUME TypeOK, NEW c \in Client, S!DispatchBegin(c)
  PROVE \E n \in Nat :
          /\ DOMAIN bus = 1..n /\ DOMAIN bus' = 1..n + 1
          /\ bus'[n + 1].from = c /\ bus'[n + 1].msg = msg[c]
          /\ \A i \in 1..n : bus'[i] = bus[i]
          /\ \A i \in DOMAIN bus' : i = n + 1 \/ i \in DOMAIN bus
  <1> DEFINE e == [from |-> c, msg |-> msg[c]]
  <1> DEFINE n == Len(bus)
  <1>1. e \in Message /\ bus \in Seq(Message) /\ bus' = Append(bus, e)
    BY UpIsTyped DEF S!DispatchBegin, UpTyped, Message
  <1>2. e.from = c /\ e.msg = msg[c]
    OBVIOUS
  <1> HIDE DEF e
  <1>3. /\ n \in Nat /\ DOMAIN bus = 1..n /\ DOMAIN bus' = 1..n + 1
        /\ bus'[n + 1] = e /\ \A i \in 1..n : bus'[i] = bus[i]
    BY <1>1, LenProperties, AppendProperties
  <1> HIDE DEF n
  <1>4. \A i \in 1..n + 1 : i = n + 1 \/ i \in 1..n
    BY <1>3
  <1>5. QED
    BY <1>2, <1>3, <1>4

LEMMA AllMessagesStep ==
  ASSUME TypeOK, UpFramed, AllMessages, UpInOrder, Next
  PROVE AllMessages'
  <1>1. SUFFICES ASSUME NEW d \in Client, Whole(d)'
                 PROVE /\ comm'[d] # "garbled"
                       /\ comm'[d] = "dispatch" => msg'[d] # 0
                       /\ \A i \in DOMAIN bus' : bus'[i].from = d => bus'[i].msg # 0
    BY DEF AllMessages, AllMessagesOf, L!Garbled
  <1>2. Whole(d) /\ UpTyped /\ UpFramedOf(d) /\ UpInOrderOf(d)
    BY <1>1, WholeStaysWhole, UpIsTyped DEF UpFramed, UpInOrder
  <1>3. /\ comm[d] # "garbled"
        /\ comm[d] = "dispatch" => msg[d] # 0
        /\ \A i \in DOMAIN bus : bus[i].from = d => bus[i].msg # 0
    BY <1>2 DEF AllMessages, AllMessagesOf, L!Garbled
  <1>4. ASSUME NEW c \in Client, Request(c) \/ AppStep(c) \/ SendBody(c) \/ RxStep(c)
        PROVE UNCHANGED <<comm, msg, bus>>
    BY <1>4 DEF Request, AppStep, SendBody, RxStep, server
  <1>5. CASE ListenStep \/ CleanupStep
    <2>1. UNCHANGED <<msg, bus>>
      BY <1>5
      DEF ListenStep, CleanupStep, S!ListenStep, S!CleanupStep, S!Accept, S!StartClient,
        S!CleanupBegin, S!CleanupDelete, S!CleanupEnd, S!reading, S!dispatching
    <2>2. \/ comm' = comm
          \/ \E c \in Client : comm' = [comm EXCEPT ![c] = "command"]
      BY <1>5
      DEF ListenStep, CleanupStep, S!ListenStep, S!CleanupStep, S!Accept, S!StartClient,
        S!CleanupBegin, S!CleanupDelete, S!CleanupEnd, S!Goto
    <2>3. QED
      BY <1>2, <1>3, <2>1, <2>2 DEF UpTyped
  <1>6. ASSUME NEW c \in Client, CommStep(c)
        PROVE /\ comm'[d] # "garbled"
              /\ comm'[d] = "dispatch" => msg'[d] # 0
              /\ \A i \in DOMAIN bus' : bus'[i].from = d => bus'[i].msg # 0
    <2>1. d # c => comm'[d] = comm[d] /\ msg'[d] = msg[d]
      BY <1>6, CommFrame DEF Served
    <2>2. CASE S!DispatchBegin(c)
      <3>1. msg' = msg /\ comm' = [comm EXCEPT ![c] = "send"] /\ comm[c] = "dispatch"
        BY <2>2 DEF S!DispatchBegin, S!Goto, S!reading
      <3>2. ASSUME NEW i \in DOMAIN bus', bus'[i].from = d
            PROVE bus'[i].msg # 0
        <4>1. \/ i \in DOMAIN bus /\ bus'[i] = bus[i]
              \/ bus'[i].from = c /\ bus'[i].msg = msg[c]
          BY <2>2, BusGrows
        <4>2. QED
          BY <1>3, <3>1, <3>2, <4>1
      <3>3. QED
        BY <1>2, <1>3, <3>1, <3>2 DEF UpTyped
    <2>3. serving /\ comm' \in [Client -> S!Comm]
      BY <1>6, CommStreams, CommFrame
    <2>4. Whole(d) /\ up[d] # <<>> =>
            (Head(up[d]).cmd = "BODY" <=> comm[d] = "body")
      BY <1>2, <2>3, FramedAtHead DEF UpFramedOf, UpTyped
    <2>5. CASE ~S!DispatchBegin(c) /\ d = c
      <3>1. bus' = bus
        BY <1>6, <2>5
        DEF CommStep, S!CommStep, S!ReadCommand, S!CutCommand, S!AnswerStart, S!AnswerStop,
          S!ReadBody, S!ReadMisplaced, S!ReadGarbled, S!ReadTimeout, S!Disconnected,
          S!DispatchSkip, S!DispatchCommand, S!DispatchBody,
          S!DispatchEnd, S!LoseClient, S!ThreadEnd, S!dispatching
      <3>2. CASE S!ReadBody(c)
        <4>1. /\ up[d] # <<>> /\ up[d] \in Seq(L!Token) /\ Head(up[d]).cmd = "BODY"
              /\ msg'[d] = Head(up[d]).body /\ comm'[d] = "dispatch"
          BY <1>2, <2>5, <3>2, SameLink
          DEF S!ReadBody, L!IsMessage, S!Goto, UpTyped
        <4>2. Increasing(up[d], 0, Written(d)) /\ Written(d) \in Nat
          BY <1>2 DEF UpInOrderOf, Reached, Written, UpTyped
        <4>3. Head(up[d]).body \in Nat /\ 0 < Head(up[d]).body
          BY <4>1, <4>2, IncreasingHead
        <4>4. QED
          BY <1>3, <3>1, <4>1, <4>3
      <3>3. CASE S!ReadMisplaced(c)
        <4>1. comm[c] = "body" /\ msg' = msg /\ up[c] # <<>> /\ Head(up[c]).cmd # "BODY"
          BY <3>3, SameLink DEF S!ReadMisplaced, L!IsMessage
        <4>2. QED
          BY <1>2, <2>4, <2>5, <4>1
      <3>4. CASE S!ReadCommand(c)
        <4>1. msg' = msg /\ \E s \in {"command", "start", "stop", "body"} : S!Goto(c, s)
          BY <3>4, ObeyGoes DEF S!ReadCommand, S!reading
        <4>2. QED
          BY <1>2, <1>3, <2>5, <3>1, <4>1 DEF S!Goto, UpTyped
      <3>5. CASE S!ReadGarbled(c)
        BY <1>3, <2>5, <3>5 DEF S!ReadGarbled
      <3>6. CASE S!CutCommand(c) \/ S!DispatchSkip(c) \/ S!DispatchCommand(c)
                 \/ S!DispatchBody(c)
        <4>1. UNCHANGED <<comm, msg>>
          BY <3>6
          DEF S!CutCommand, S!DispatchSkip, S!DispatchCommand, S!DispatchBody, S!reading
        <4>2. QED
          BY <1>3, <3>1, <4>1
      <3>7. CASE S!AnswerStart(c) \/ S!AnswerStop(c) \/ S!ReadTimeout(c) \/ S!Disconnected(c)
                 \/ S!DispatchEnd(c) \/ S!LoseClient(c) \/ S!ThreadEnd(c)
        <4>1. \E s \in {"command", "lost", "leaving", "ended"} : S!Goto(c, s)
          BY <3>7
          DEF S!AnswerStart, S!AnswerStop, S!ReadTimeout, S!Disconnected, S!DispatchEnd,
              S!LoseClient, S!ThreadEnd
        <4>2. QED
          BY <1>2, <1>3, <2>5, <3>1, <4>1 DEF S!Goto, UpTyped
      <3>8. QED
        BY <1>6, <2>5, <3>2, <3>3, <3>4, <3>5, <3>6, <3>7 DEF CommStep, S!CommStep
    <2>6. CASE ~S!DispatchBegin(c) /\ d # c
      <3>1. bus' = bus
        BY <1>6, <2>6
        DEF CommStep, S!CommStep, S!ReadCommand, S!CutCommand, S!AnswerStart, S!AnswerStop,
          S!ReadBody, S!ReadMisplaced, S!ReadGarbled, S!ReadTimeout, S!Disconnected,
          S!DispatchSkip, S!DispatchCommand, S!DispatchBody,
          S!DispatchEnd, S!LoseClient, S!ThreadEnd, S!dispatching
      <3>2. QED
        BY <1>3, <2>1, <2>6, <3>1
    <2>7. QED
      BY <2>2, <2>5, <2>6
  <1>7. QED
    BY <1>3, <1>4, <1>5, <1>6 DEF Next

LEMMA WrittenTyped ==
  ASSUME TypeOK, NEW d \in Client, UpInOrderOf(d)
  PROVE Written(d) \in Nat
  BY UpIsTyped DEF UpTyped, UpInOrderOf, Written

(* What was read from the stream is not in it, what is written comes last. *)
LEMMA ReachedKept ==
  ASSUME TypeOK, NEW d \in Client, NEW n \in Nat, Reached(d, n),
         Written(d) \in Nat, Written(d)' \in Nat, Written(d) <= Written(d)',
         \/ up'[d] \in Seq(L!Token) /\ Suffix(up[d], up'[d])
         \/ \E t \in L!Token :
              /\ up'[d] = Append(up[d], t)
              /\ t.cmd = "BODY" => Written(d) < t.body /\ t.body <= Written(d)'
  PROVE n <= Written(d)' /\ Increasing(up'[d], n, Written(d)')
  <1> DEFINE w == Written(d)
  <1> DEFINE v == Written(d)'
  <1> DEFINE s == up[d]
  <1> DEFINE u == up'[d]
  <1>1. /\ n <= w /\ Increasing(s, n, w) /\ s \in Seq(L!Token)
        /\ w \in Nat /\ v \in Nat /\ w <= v
        /\ \/ u \in Seq(L!Token) /\ Suffix(s, u)
           \/ \E t \in L!Token :
                u = Append(s, t) /\ (t.cmd = "BODY" => w < t.body /\ t.body <= v)
    BY UpIsTyped DEF Reached, UpTyped
  <1> HIDE DEF w, v, s, u
  <1>2. CASE u \in Seq(L!Token) /\ Suffix(s, u)
    <2>1. Increasing(u, n, w)
      BY <1>1, <1>2, SuffixKeeps
    <2>2. QED
      BY <1>1, <1>2, <2>1, IncreasingWeaker DEF u, v
  <1>3. CASE \E t \in L!Token :
               u = Append(s, t) /\ (t.cmd = "BODY" => w < t.body /\ t.body <= v)
    <2>1. PICK t \in L!Token :
            u = Append(s, t) /\ (t.cmd = "BODY" => w < t.body /\ t.body <= v)
      BY <1>3
    <2>2. Increasing(Append(s, t), n, v)
      BY <1>1, <2>1, IncreasingAppend
    <2>3. QED
      BY <1>1, <2>1, <2>2 DEF u, v
  <1>4. QED
    BY <1>1, <1>2, <1>3

LEMMA UpInOrderKept ==
  ASSUME NEW d \in Client, UpInOrderOf(d),
         tx'[d] = "body" => sent'[d] > 0,
         \A n \in Nat : Reached(d, n) => Reached(d, n)',
         comm'[d] = "dispatch" => comm[d] = "dispatch", msg'[d] = msg[d], bus' = bus,
         msg[d] \in Nat, \A i \in DOMAIN bus : bus[i].msg \in Nat
  PROVE UpInOrderOf(d)'
  BY DEF UpInOrderOf, L!Garbled

LEMMA UpInOrderControllerStep ==
  ASSUME TypeOK, UpInOrder, NEW c \in Client,
         Request(c) \/ AppStep(c) \/ SendBody(c) \/ RxStep(c),
         NEW d \in Client
  PROVE UpInOrderOf(d)'
  <1>1. UpInOrderOf(d) /\ UpTyped
    BY UpIsTyped DEF UpInOrder
  <1>2. UNCHANGED <<comm, msg, bus>> /\ msg[d] \in Nat
    BY <1>1 DEF Request, AppStep, SendBody, RxStep, server, UpTyped
  <1>3. Written(d) \in Nat /\ up[d] \in Seq(L!Token) /\ Suffix(up[d], up[d])
    BY <1>1, WrittenTyped, SuffixSelf DEF UpTyped
  <1>4. ASSUME tx'[d] = "body" => sent'[d] > 0,
               Written(d)' \in Nat, Written(d) <= Written(d)',
               \/ up'[d] = up[d]
               \/ \E t \in L!Token :
                    /\ up'[d] = Append(up[d], t)
                    /\ t.cmd = "BODY" => Written(d) < t.body /\ t.body <= Written(d)'
        PROVE UpInOrderOf(d)'
    <2>1. ASSUME NEW n \in Nat, Reached(d, n) PROVE Reached(d, n)'
      <3>1. n <= Written(d)' /\ Increasing(up'[d], n, Written(d)')
        BY <1>3, <1>4, <2>1, ReachedKept
      <3>2. QED
        BY <3>1 DEF Reached, Increasing
    <2>2. QED
      BY <1>1, <1>2, <1>4, <2>1, BusTyped, UpInOrderKept
  <1>5. CASE up'[d] = up[d] /\ tx'[d] = tx[d] /\ sent'[d] = sent[d]
    <2>1. Written(d)' = Written(d)
      BY <1>5 DEF Written
    <2>2. QED
      BY <1>1, <1>3, <1>4, <1>5, <2>1 DEF UpInOrderOf
  <1>6. CASE d # c
    BY <1>5, <1>6, ControllerFrame DEF Private
  <1>7. CASE d = c /\ K!Vanish(c)
    <2>1. tx'[d] = "idle" /\ up' = up /\ sent' = sent
      BY <1>1, <1>7 DEF K!Vanish, K!TxGoto, UpTyped
    <2>2. Written(d)' = sent[d] /\ sent[d] \in Nat /\ Written(d) <= sent[d]
      BY <1>1, <2>1 DEF Written, UpTyped
    <2>3. QED
      BY <1>4, <2>1, <2>2
  <1>8. \A t : t.size \in Nat =>
          (K!L!ClientWriteIsCut(c, t) =>
             \/ up'[c] = up[c]
             \/ \E x \in L!Token : x.cmd = "REST" /\ up'[c] = Append(up[c], x))
    BY ClientCutsTo DEF TypeOK
  <1>9. \A cmd \in {"START", "STOP", "MSG"} :
          /\ K!L!Cmd(cmd) \in L!Token /\ K!L!Cmd(cmd).size \in Nat
          /\ K!L!Cmd(cmd).cmd = cmd
    BY Tokens
  <1>10. \A cmd \in {"START", "STOP", "MSG"} :
           K!L!ClientWrites(c, K!L!Cmd(cmd)) \/ K!L!ClientWriteIsCut(c, K!L!Cmd(cmd)) =>
             \/ up'[c] = up[c]
             \/ \E x \in L!Token : x.cmd # "BODY" /\ up'[c] = Append(up[c], x)
    <2>1. ASSUME NEW cmd \in {"START", "STOP", "MSG"}, K!L!ClientWrites(c, K!L!Cmd(cmd))
          PROVE up'[c] = up[c] \/ up'[c] = Append(up[c], K!L!Cmd(cmd))
      BY <1>9, <2>1, ClientWritesTo DEF TypeOK
    <2>2. QED
      BY <1>8, <1>9, <2>1
  <1>11. CASE d = c /\ (K!StartRequest(c) \/ K!StopRequest(c))
    <2>1. /\ UNCHANGED <<tx, sent>>
          /\ \/ up'[c] = up[c]
             \/ \E cmd \in {"START", "STOP", "MSG"} :
                  K!L!ClientWrites(c, K!L!Cmd(cmd)) \/ K!L!ClientWriteIsCut(c, K!L!Cmd(cmd))
      BY <1>11 DEF K!StartRequest, K!StopRequest
    <2>2. Written(d)' = Written(d)
      BY <2>1 DEF Written
    <2>3. QED
      BY <1>1, <1>3, <1>4, <1>10, <1>11, <2>1, <2>2 DEF UpInOrderOf
  <1>12. CASE d = c /\ K!SendCommand(c)
    <2>1. /\ tx' = [tx EXCEPT ![c] = "body"] \/ tx' = tx
          /\ tx[c] = "idle"
          /\ sent' = [sent EXCEPT ![c] = sent[c] + 1]
          /\ \/ K!L!ClientWrites(c, K!L!Cmd("MSG"))
             \/ K!L!ClientWriteIsCut(c, K!L!Cmd("MSG"))
      BY <1>12 DEF K!SendCommand, K!TxGoto
    <2>2. sent[d] \in Nat /\ sent'[d] = sent[d] + 1 /\ tx[d] = "idle"
      BY <1>1, <1>12, <2>1 DEF UpTyped, K!SendCommand
    <2>3. /\ Written(d)' \in {sent[d], sent[d] + 1} /\ Written(d) = sent[d]
      BY <2>2 DEF Written
    <2>4. \/ up'[c] = up[c]
          \/ \E x \in L!Token : x.cmd # "BODY" /\ up'[c] = Append(up[c], x)
      BY <1>10, <2>1
    <2>5. QED
      BY <1>4, <1>12, <2>2, <2>3, <2>4
  <1>13. CASE d = c /\ K!SendBody(c)
    <2>1. /\ tx[c] = "body" /\ tx' = [tx EXCEPT ![c] = "idle"] /\ sent' = sent
          /\ \E n \in BodySize : \/ K!L!ClientWrites(c, K!L!Body(sent[c], n))
                                 \/ K!L!ClientWriteIsCut(c, K!L!Body(sent[c], n))
      BY <1>13 DEF K!SendBody, K!TxGoto
    <2>2. PICK n \in BodySize : \/ K!L!ClientWrites(c, K!L!Body(sent[c], n))
                                \/ K!L!ClientWriteIsCut(c, K!L!Body(sent[c], n))
      BY <2>1
    <2>3. /\ sent[d] \in Nat /\ tx'[d] = "idle" /\ tx[d] = "body"
          /\ Written(d)' = sent[d] /\ Written(d) = sent[d] - 1
      BY <1>1, <1>13, <2>1 DEF UpTyped, Written
    <2>4. /\ K!L!Body(sent[c], n) \in L!Token /\ K!L!Body(sent[c], n).size \in Nat
          /\ K!L!Body(sent[c], n).body = sent[c]
      BY <1>13, <2>3, Tokens
    <2>5. \/ up'[d] = up[d]
          \/ \E t \in L!Token :
               up'[d] = Append(up[d], t) /\ (t.cmd = "BODY" => t.body = sent[d])
      <3>1. CASE K!L!ClientWrites(c, K!L!Body(sent[c], n))
        <4>1. up'[c] = up[c] \/ up'[c] = Append(up[c], K!L!Body(sent[c], n))
          BY <2>4, <3>1, ClientWritesTo DEF TypeOK
        <4>2. QED
          BY <1>13, <2>4, <4>1
      <3>2. CASE K!L!ClientWriteIsCut(c, K!L!Body(sent[c], n))
        BY <1>8, <1>13, <2>4, <3>2
      <3>3. QED
        BY <2>2, <3>1, <3>2
    <2>6. Written(d)' \in Nat /\ Written(d) <= Written(d)' /\ Written(d) < sent[d]
          /\ sent[d] <= Written(d)'
      BY <2>3
    <2>7. QED
      BY <1>4, <2>3, <2>5, <2>6
  <1>14. QED
    BY <1>5, <1>6, <1>7, <1>11, <1>12, <1>13
    DEF Request, AppStep, SendBody, RxStep, K!Request, K!AppStep, K!RxStep, K!Open,
        K!Close, K!StartAnswer, K!StartTimeout, K!StopJoin, K!RxCommand, K!RxCutCommand,
        K!RxBody, K!RxMisplaced, K!RxGarbled, K!RxTimeout, K!RxDisconnected, K!link

LEMMA UpInOrderCommStep ==
  ASSUME TypeOK, UpInOrder, NEW c \in Client, CommStep(c), NEW d \in Client
  PROVE UpInOrderOf(d)'
  <1>1. UpInOrderOf(d) /\ UpTyped
    BY UpIsTyped DEF UpInOrder
  <1>2. UNCHANGED <<tx, sent>> /\ Written(d)' = Written(d)
    BY CommStreams DEF controllers, Written
  <1>3. Written(d) \in Nat /\ up[d] \in Seq(L!Token) /\ msg[d] \in Nat
    BY <1>1, WrittenTyped DEF UpTyped
  <1>4. up'[d] \in Seq(L!Token) /\ Suffix(up[d], up'[d])
    BY <1>3, CommStreams, SuffixSelf
  <1> DEFINE Still(n) == n <= Written(d)' /\ Increasing(up'[d], n, Written(d)')
  <1>5. ASSUME NEW n \in Nat, Reached(d, n) PROVE Still(n)
    BY <1>2, <1>3, <1>4, <1>5, ReachedKept
  <1>6. tx'[d] = "body" => sent'[d] > 0
    BY <1>1, <1>2 DEF UpInOrderOf
  <1>7. CASE /\ bus' = bus /\ msg'[d] = msg[d]
             /\ comm'[d] = "dispatch" => comm[d] = "dispatch"
    <2>1. ASSUME NEW n \in Nat, Reached(d, n) PROVE Reached(d, n)'
      BY <1>5, <2>1 DEF Reached, Increasing
    <2>2. QED
      BY <1>1, <1>3, <1>6, <1>7, <2>1, BusTyped, UpInOrderKept
  <1>8. d # c => comm'[d] = comm[d] /\ msg'[d] = msg[d]
    BY CommFrame DEF Served
  (* A message is read: it is later than what came from d before.          *)
  <1>9. ASSUME d = c, bus' = bus, msg'[d] \in Nat, Still(msg'[d]),
               msg'[d] # 0 => \A n \in Nat : Reached(d, n) => n < msg'[d]
        PROVE UpInOrderOf(d)'
    <2>1. Still(0)
      BY <1>1, <1>5 DEF UpInOrderOf
    <2>2. ASSUME NEW i \in DOMAIN bus, bus[i].from = d, bus[i].msg # 0
          PROVE /\ Still(bus[i].msg)
                /\ msg'[d] # 0 => bus[i].msg < msg'[d]
                /\ \A j \in DOMAIN bus : bus[j].from = d /\ bus[j].msg # 0 /\ i < j =>
                     bus[i].msg < bus[j].msg
      <3>1. /\ Reached(d, bus[i].msg) /\ bus[i].msg \in Nat
            /\ \A j \in DOMAIN bus : bus[j].from = d /\ bus[j].msg # 0 /\ i < j =>
                 bus[i].msg < bus[j].msg
        BY <1>1, <2>2, BusTyped DEF UpInOrderOf, L!Garbled
      <3>2. Still(bus[i].msg)
        BY <1>5, <3>1
      <3>3. QED
        BY <1>9, <3>1, <3>2
    <2>3. QED
      BY <1>6, <1>9, <2>1, <2>2 DEF UpInOrderOf, Reached, Increasing, L!Garbled
  <1>10. ASSUME d = c, S!ReadBody(c)
         PROVE UpInOrderOf(d)'
    <2> DEFINE s == up[d]
    <2>1. /\ s # <<>> /\ Head(s).cmd = "BODY" /\ up'[d] = Tail(s)
          /\ msg'[d] = Head(s).body /\ bus' = bus
      BY <1>1, <1>10, SameLink
      DEF S!ReadBody, L!IsMessage, S!L!ServerReads, S!dispatching, UpTyped
    <2>2. s \in Seq(L!Token)
      BY <1>3
    <2> DEFINE w == Written(d)
    <2>3. w \in Nat /\ Increasing(s, 0, w)
      BY <1>1, <1>3 DEF UpInOrderOf, Reached
    <2> HIDE DEF s, w
    <2>4. /\ Head(s).body \in Nat /\ Head(s).body <= w
          /\ Increasing(Tail(s), Head(s).body, w)
      BY <2>1, <2>2, <2>3, IncreasingHead
    <2>5. Still(msg'[d])
      BY <1>2, <2>1, <2>4 DEF w
    <2>6. ASSUME NEW n \in Nat, Reached(d, n) PROVE n < Head(s).body
      <3>1. Increasing(s, n, w)
        BY <2>6 DEF Reached, s, w
      <3>2. QED
        BY <2>1, <2>2, <2>3, <3>1, IncreasingHead
    <2>7. QED
      BY <1>9, <1>10, <2>1, <2>4, <2>5, <2>6
  <1>11. ASSUME d = c, S!ReadGarbled(c)
         PROVE UpInOrderOf(d)'
    <2>1. /\ bus' = bus
          /\ \/ UNCHANGED <<msg, comm>>
             \/ msg' = [msg EXCEPT ![c] = 0]
      BY <1>11 DEF S!ReadGarbled, S!dispatching, S!L!Garbled
    <2>2. Still(0)
      BY <1>1, <1>5 DEF UpInOrderOf
    <2>3. CASE UNCHANGED <<msg, comm>>
      BY <1>7, <2>1, <2>3
    <2>4. CASE msg' = [msg EXCEPT ![c] = 0]
      <3>1. msg'[d] = 0
        BY <1>1, <1>11, <2>4 DEF UpTyped
      <3>2. QED
        BY <1>9, <1>11, <2>1, <2>2, <3>1
    <2>5. QED
      BY <2>1, <2>3, <2>4
  (* A message is dispatched: it is the last on the bus.                   *)
  <1>12. CASE S!DispatchBegin(c)
    <2>1. PICK n \in Nat :
             /\ DOMAIN bus = 1..n /\ DOMAIN bus' = 1..n + 1
             /\ bus'[n + 1].from = c /\ bus'[n + 1].msg = msg[c]
             /\ \A i \in 1..n : bus'[i] = bus[i]
      BY <1>12, BusGrows
    <2>2. /\ msg' = msg /\ comm[c] = "dispatch" /\ comm'[c] = "send"
          /\ \A x \in Client \ {c} : comm'[x] = comm[x]
      BY <1>1, <1>12 DEF S!DispatchBegin, S!Goto, S!reading, UpTyped
    <2>3. Still(0)
      BY <1>1, <1>5 DEF UpInOrderOf
    <2>4. comm'[d] = "dispatch" => d # c /\ comm[d] = "dispatch"
      BY <2>2
    <2>5. comm[d] = "dispatch" => Still(msg[d])
      BY <1>1, <1>3, <1>5 DEF UpInOrderOf
    <2>6. ASSUME NEW i \in 1..n, bus[i].from = d, bus[i].msg # 0
          PROVE /\ Still(bus[i].msg)
                /\ comm[d] = "dispatch" /\ msg[d] # 0 => bus[i].msg < msg[d]
                /\ \A j \in 1..n : bus[j].from = d /\ bus[j].msg # 0 /\ i < j =>
                     bus[i].msg < bus[j].msg
      <3>1. /\ Reached(d, bus[i].msg) /\ bus[i].msg \in Nat
            /\ comm[d] = "dispatch" /\ msg[d] # 0 => bus[i].msg < msg[d]
            /\ \A j \in 1..n : bus[j].from = d /\ bus[j].msg # 0 /\ i < j =>
                 bus[i].msg < bus[j].msg
        BY <1>1, <2>1, <2>6, BusTyped DEF UpInOrderOf, L!Garbled
      <3>2. QED
        BY <1>5, <3>1
    <2> HIDE DEF Still
    <2>7. ASSUME NEW i \in 1..n + 1, bus'[i].from = d, bus'[i].msg # 0
          PROVE /\ Still(bus'[i].msg)
                /\ comm'[d] = "dispatch" /\ msg'[d] # 0 => bus'[i].msg < msg'[d]
                /\ \A j \in 1..n + 1 : bus'[j].from = d /\ bus'[j].msg # 0 /\ i < j =>
                     bus'[i].msg < bus'[j].msg
      <3>1. CASE i = n + 1
        <4>1. c = d /\ bus'[i].msg = msg[d] /\ \A j \in 1..n + 1 : ~(i < j)
          BY <2>1, <2>7, <3>1
        <4>2. QED
          BY <2>2, <2>4, <2>5, <4>1
      <3>2. CASE i # n + 1
        <4>1. i \in 1..n /\ bus'[i] = bus[i]
          BY <2>1, <3>2
        <4>2. /\ Still(bus[i].msg)
              /\ comm[d] = "dispatch" /\ msg[d] # 0 => bus[i].msg < msg[d]
              /\ \A j \in 1..n : bus[j].from = d /\ bus[j].msg # 0 /\ i < j =>
                   bus[i].msg < bus[j].msg
          BY <2>6, <2>7, <4>1
        <4>3. ASSUME NEW j \in 1..n + 1, bus'[j].from = d, bus'[j].msg # 0, i < j
              PROVE bus'[i].msg < bus'[j].msg
          <5>1. CASE j = n + 1
            <6>1. c = d /\ bus'[j].msg = msg[d]
              BY <2>1, <4>3, <5>1
            <6>2. QED
              BY <2>2, <4>1, <4>2, <4>3, <6>1
          <5>2. CASE j # n + 1
            <6>1. j \in 1..n /\ bus'[j] = bus[j]
              BY <2>1, <5>2
            <6>2. QED
              BY <4>1, <4>2, <4>3, <6>1
          <5>3. QED
            BY <5>1, <5>2
        <4>4. QED
          BY <2>2, <2>4, <4>1, <4>2, <4>3
      <3>3. QED
        BY <3>1, <3>2
    <2>8. comm'[d] = "dispatch" => Still(msg'[d])
      BY <2>2, <2>4, <2>5
    <2>9. QED
      BY <1>6, <2>1, <2>3, <2>7, <2>8
      DEF UpInOrderOf, Reached, Still, Increasing, L!Garbled
  <1>13. CASE bus' = bus /\ msg' = msg /\ UNCHANGED comm
    BY <1>7, <1>13
  <1>14. ASSUME bus' = bus, msg' = msg, NEW s \in S!Comm \ {"dispatch"}, S!Goto(c, s)
         PROVE UpInOrderOf(d)'
    BY <1>1, <1>7, <1>14 DEF S!Goto, UpTyped
  <1>15. {"command", "start", "stop", "body", "garbled", "lost", "leaving", "ended"}
            \subseteq S!Comm \ {"dispatch"}
    BY DEF S!Comm
  <1>16. CASE S!ReadCommand(c)
    <2>1. /\ bus' = bus /\ msg' = msg
          /\ \E s \in {"command", "start", "stop", "body"} : S!Goto(c, s)
      BY <1>16, ObeyGoes DEF S!ReadCommand, S!reading, S!dispatching
    <2>2. QED
      BY <1>14, <1>15, <2>1
  <1>17. CASE S!AnswerStart(c) \/ S!AnswerStop(c) \/ S!ReadTimeout(c) \/ S!Disconnected(c)
              \/ S!DispatchEnd(c) \/ S!LoseClient(c) \/ S!ThreadEnd(c)
    <2>1. /\ bus' = bus /\ msg' = msg
          /\ \E s \in {"command", "lost", "leaving", "ended"} : S!Goto(c, s)
      BY <1>17
      DEF S!AnswerStart, S!AnswerStop, S!ReadTimeout, S!Disconnected, S!DispatchEnd,
          S!LoseClient, S!ThreadEnd, S!reading, S!dispatching
    <2>2. QED
      BY <1>14, <1>15, <2>1
  <1>18. CASE S!ReadMisplaced(c)
    <2>1. bus' = bus /\ msg' = msg /\ (comm' = comm \/ S!Goto(c, "garbled"))
      BY <1>18 DEF S!ReadMisplaced, S!dispatching
    <2>2. QED
      BY <1>13, <1>14, <1>15, <2>1
  <1>19. CASE S!CutCommand(c) \/ S!DispatchSkip(c) \/ S!DispatchCommand(c)
              \/ S!DispatchBody(c)
    BY <1>13, <1>19
    DEF S!CutCommand, S!DispatchSkip, S!DispatchCommand, S!DispatchBody, S!reading,
        S!dispatching
  <1>20. CASE d # c /\ (S!ReadBody(c) \/ S!ReadGarbled(c))
    <2>1. bus' = bus
      BY <1>20 DEF S!ReadBody, S!ReadGarbled, S!dispatching
    <2>2. QED
      BY <1>7, <1>8, <1>20, <2>1
  <1>21. QED
    BY <1>10, <1>11, <1>12, <1>16, <1>17, <1>18, <1>19, <1>20 DEF CommStep, S!CommStep

LEMMA UpInOrderStep ==
  ASSUME TypeOK, UpInOrder, Next
  PROVE UpInOrder'
  <1>1. SUFFICES ASSUME NEW d \in Client PROVE UpInOrderOf(d)'
    BY DEF UpInOrder
  <1>2. UpInOrderOf(d) /\ UpTyped
    BY UpIsTyped DEF UpInOrder
  <1>3. CASE ListenStep \/ CleanupStep
    <2>1. UNCHANGED <<up, tx, sent, msg, bus>>
      BY <1>3
      DEF ListenStep, CleanupStep, S!ListenStep, S!CleanupStep, S!Accept, S!StartClient,
        S!CleanupBegin, S!CleanupDelete, S!CleanupEnd, S!link, S!reading, S!dispatching,
        controllers
    <2>2. \/ comm' = comm
          \/ \E c \in Client : comm' = [comm EXCEPT ![c] = "command"]
      BY <1>3
      DEF ListenStep, CleanupStep, S!ListenStep, S!CleanupStep, S!Accept, S!StartClient,
        S!CleanupBegin, S!CleanupDelete, S!CleanupEnd, S!Goto
    <2>3. comm'[d] = "dispatch" => comm[d] = "dispatch"
      BY <1>2, <2>2 DEF UpTyped
    <2>4. \A n \in Nat : Reached(d, n) => Reached(d, n)'
      BY <2>1 DEF Reached, Increasing, Written
    <2>5. tx'[d] = "body" => sent'[d] > 0
      BY <1>2, <2>1 DEF UpInOrderOf
    <2>6. QED
      BY <1>2, <2>1, <2>3, <2>4, <2>5, BusTyped, UpInOrderKept DEF UpTyped
  <1>4. QED
    BY <1>3, UpInOrderControllerStep, UpInOrderCommStep DEF Next


-----------------------------------------------------------------------------
(* The invariant is inductive. *)
LEMMA InitIInv == Init => IInv
  <1> SUFFICES ASSUME Init PROVE IInv
    OBVIOUS
  <1> USE DEF Init, L!Init, K!Init, S!Init
  <1>1. TypeOK
    <2>1. L!TypeOK
      BY DEF L!TypeOK
    <2>2. K!TypeOK
      BY TcpCanBusAssumption DEF K!TypeOK
    <2>3. S!TypeOK
      <3>1. <<>> \in Seq(Client) /\ <<>> \in Seq([from : Client, msg : Nat])
        BY EmptySeq
      <3>2. S!L!Garbled \in Nat /\ "none" \in S!Comm
        BY DEF S!L!Garbled, S!Comm
      <3>3. QED
        BY <3>1, <3>2 DEF S!TypeOK
    <2>4. QED
      BY <2>1, <2>2, <2>3 DEF TypeOK
  <1>2. Elems(<<>>) = {} /\ Distinct(<<>>)
    BY DEF Elems, Distinct
  <1>3. ListsInv /\ MutexInv /\ DispatchInv
    BY <1>2, TcpCanBusAssumption DEF ListsInv, MutexInv, DispatchInv, Active
  <1>4. StartInv /\ StartedInv
    BY TcpCanBusAssumption DEF StartInv, StartOf, StartedInv, StartedOf, S!Busy
  <1>5. DownFramed
    BY DEF DownFramed, DownFramedOf, Framed, FollowsMsg, EndsInMsg, S!Busy
  <1>6. DownInOrder
    BY DEF DownInOrder, DownInOrderOf, Increasing, Foreign, Unseen, OnTheWay, Elems
  <1>7. UpFramed /\ AllMessages
    BY DEF UpFramed, UpFramedOf, Framed, FollowsMsg, EndsInMsg, AllMessages, AllMessagesOf
  <1>8. UpInOrder
    BY DEF UpInOrder, UpInOrderOf, Reached, Increasing, Written
  <1>9. QED
    BY <1>1, <1>3, <1>4, <1>5, <1>6, <1>7, <1>8 DEF IInv

LEMMA UnchangedIInv == IInv /\ UNCHANGED vars => IInv'
  <1> SUFFICES ASSUME IInv, UNCHANGED vars PROVE IInv'
    OBVIOUS
  <1> USE DEF vars, link, controllers, server
  <1>1. TypeOK'
    BY DEF IInv, TypeOK, L!TypeOK, L!Token, K!TypeOK, S!TypeOK, S!Comm
  <1>2. ListsInv' /\ MutexInv' /\ DispatchInv'
    BY DEF IInv, ListsInv, MutexInv, DispatchInv, Active, S!Comm
  <1>3. \A d \in Client : S!Busy(d)' = S!Busy(d)
    BY NobodyBusy
  <1>4. StartInv' /\ StartedInv'
    BY <1>3, StartKept DEF IInv, StartInv, StartedInv, StartedOf
  <1>5. DownFramed'
    BY <1>3, DownFramedKept DEF IInv, DownFramed
  <1>6. DownInOrder'
    BY DEF IInv, DownInOrder, DownInOrderOf, OnTheWay, Increasing, Foreign, Unseen, Elems
  <1>7. UpFramed' /\ AllMessages'
    BY UpFramedKept DEF IInv, UpFramed, Whole, AllMessages, AllMessagesOf
  <1>8. UpInOrder'
    BY DEF IInv, UpInOrder, UpInOrderOf, Reached, Written, Increasing
  <1>9. QED
    BY <1>1, <1>2, <1>4, <1>5, <1>6, <1>7, <1>8 DEF IInv

LEMMA NextIInv == IInv /\ Next => IInv'
  <1> SUFFICES ASSUME IInv, Next PROVE IInv'
    OBVIOUS
  <1>1. TypeOK'
    BY ControllerTypes, ServerTypes DEF Next, IInv, ListsInv
  <1>2. ListsInv' /\ MutexInv' /\ DispatchInv' /\ StartInv' /\ StartedInv'
    BY ListsStep, MutexStep, DispatchStep, StartStep, StartedStep DEF IInv
  <1>3. DownFramed' /\ DownInOrder'
    BY <1>1, <1>2, DownFramedStep, DownInOrderStep DEF IInv
  <1>4. UpFramed' /\ AllMessages' /\ UpInOrder'
    BY UpFramedStep, AllMessagesStep, UpInOrderStep DEF IInv
  <1>5. QED
    BY <1>1, <1>2, <1>3, <1>4 DEF IInv

LEMMA SpecIInv == SafetySpec => []IInv
  <1>1. IInv /\ [Next]_vars => IInv'
    BY NextIInv, UnchangedIInv
  <1>2. QED
    BY InitIInv, <1>1, PTL DEF SafetySpec

-----------------------------------------------------------------------------
(* The variables of the server and of its controllers keep their types:    *)
(* in particular no controller sends more than it was asked to, and half   *)
(* of a message is written only while somebody is left to be served.       *)
THEOREM TypesAreKept == Spec => []TypeOK
  BY SpecIInv, PTL DEF Spec, IInv

(* A client is deleted when its thread has ended and nobody holds it: it   *)
(* is neither listed nor among those a dispatch has still to serve.        *)
THEOREM NobodyUsesTheDeleted == Spec => []DeletedIsUnused
  <1>1. IInv => DeletedIsUnused
    <2> SUFFICES ASSUME IInv, NEW c \in deleted
                 PROVE /\ comm[c] = "ended"
                       /\ c \notin Elems(m_clients) /\ c \notin Elems(m_disconnected_clients)
                       /\ c \notin Elems(todo)
      BY DEF DeletedIsUnused, S!DeletedIsUnused, S!Members, Elems
    <2>1. c \in Client
      BY DEF IInv, TypeOK, S!TypeOK
    <2>2. comm[c] = "ended" /\ c \notin Elems(m_disconnected_clients)
      BY <2>1 DEF IInv, ListsInv
    <2>3. newcomer # c
      BY <2>1, <2>2, TcpCanBusAssumption DEF IInv, ListsInv
    <2>4. c \notin Elems(m_clients)
      BY <2>1, <2>2, <2>3 DEF IInv, ListsInv, Active
    <2>5. QED
      BY <2>2, <2>4 DEF IInv, MutexInv
  <1>2. QED
    BY SpecIInv, <1>1, PTL DEF Spec

(* A controller none of whose reads was cut by its timeout, and whose      *)
(* start() took nothing else for its answer, finds a command where it      *)
(* expects one and a message where it expects one.                         *)
THEOREM ControllersStayInStep == Spec => []ControllersReadInStep
  <1>1. IInv => ControllersReadInStep
    <2> SUFFICES ASSUME IInv, NEW c \in Client, ~adrift[c]
                 PROVE /\ rx[c] # "garbled"
                       /\ (rx[c] = "command" /\ down[c] # <<>>) =>
                            Head(down[c]).cmd \in L!Command
                       /\ (rx[c] = "body" /\ down[c] # <<>>) => Head(down[c]).cmd = "BODY"
      BY DEF ControllersReadInStep
    <2>1. /\ rx[c] # "garbled" /\ Framed(down[c], rx[c] = "body")
          /\ down[c] \in Seq(L!Token)
      BY DEF IInv, DownFramed, DownFramedOf, TypeOK, L!TypeOK
    <2>2. QED
      BY <2>1, FramedAtHead
  <1>2. QED
    BY SpecIInv, <1>1, PTL DEF Spec

(* Until a controller has once been started, the first thing it finds in   *)
(* the stream is the answer to its CMD_START, unless a start() before      *)
(* gave up with a byte of it read.                                         *)
THEOREM TheAnswerComesFirst == Spec => []AnswerComesFirst
  <1>1. IInv => AnswerComesFirst
    <2> SUFFICES ASSUME IInv, NEW c \in Client, ~answered[c], ~adrift[c], down[c] # <<>>
                 PROVE Head(down[c]).cmd = "START"
      BY DEF AnswerComesFirst
    <2>1. StartOf(c)
      BY DEF IInv, StartInv
    <2>2. QED
      BY <2>1 DEF StartOf
  <1>2. QED
    BY SpecIInv, <1>1, PTL DEF Spec

(* The messages of a controller on the bus are those handed to its send(), *)
(* in that order and at most once, whatever is cut, times out or runs at   *)
(* the same time; and as long as one thread uses the controller and no     *)
(* write of it and no read of the server's was cut, nothing else is there. *)
THEOREM WhatIsSentIsCarried == Spec => []BusCarriesWhatWasSent
  <1>1. IInv => BusCarriesWhatWasSent
    <2> SUFFICES ASSUME IInv, NEW c \in Client
                 PROVE /\ Whole(c) => \A k \in DOMAIN bus :
                             bus[k].from = c => bus[k].msg # L!Garbled
                       /\ \A i, j \in DOMAIN bus :
                            bus[i].from = c /\ bus[i].msg # L!Garbled /\
                            bus[j].from = c /\ bus[j].msg # L!Garbled =>
                              /\ bus[i].msg \in 1..sent[c]
                              /\ i < j => bus[i].msg < bus[j].msg
      BY DEF BusCarriesWhatWasSent, Whole
    <2>1. UpInOrderOf(c) /\ AllMessagesOf(c) /\ TypeOK
      BY DEF IInv, UpInOrder, AllMessages
    <2>2. sent[c] \in Nat
      BY <2>1, UpIsTyped DEF UpTyped
    <2>3. ASSUME NEW i \in DOMAIN bus, NEW j \in DOMAIN bus,
                 bus[i].from = c, bus[i].msg # L!Garbled,
                 bus[j].from = c, bus[j].msg # L!Garbled
          PROVE /\ bus[i].msg \in 1..sent[c]
                /\ i < j => bus[i].msg < bus[j].msg
      <3>1. bus[i].msg \in Nat /\ bus[i].msg # 0
        BY <2>1, <2>3, BusTyped DEF L!Garbled
      <3>2. bus[i].msg <= Written(c) /\ (i < j => bus[i].msg < bus[j].msg)
        BY <2>1, <2>3 DEF UpInOrderOf, Reached
      <3>3. bus[i].msg <= sent[c]
        BY <2>2, <3>1, <3>2 DEF Written
      <3>4. QED
        BY <2>2, <3>1, <3>2, <3>3
    <2>4. Whole(c) => \A k \in DOMAIN bus : bus[k].from = c => bus[k].msg # L!Garbled
      BY <2>1 DEF AllMessagesOf
    <2>5. \A i, j \in DOMAIN bus :
            bus[i].from = c /\ bus[i].msg # L!Garbled /\
            bus[j].from = c /\ bus[j].msg # L!Garbled =>
              /\ bus[i].msg \in 1..sent[c]
              /\ i < j => bus[i].msg < bus[j].msg
      BY <2>3
    <2>6. QED
      BY <2>4, <2>5
  <1>2. QED
    BY SpecIInv, <1>1, PTL DEF Spec

-----------------------------------------------------------------------------
(* can_server is a CAN bus: a dispatch transmits, a controller that reads  *)
(* the body of a message sees it, and nothing else is visible but that a   *)
(* controller gets out of step, and then takes for messages what is none.  *)
LEMMA BusStep == IInv /\ [Next]_vars => [Bus!Next]_Bus!vars
  <1> SUFFICES ASSUME IInv, [Next]_vars PROVE [Bus!Next]_Bus!vars
    OBVIOUS
  <1> USE DEF L!Garbled
  <1>1. CASE UNCHANGED <<bus, seen, adrift>>
    BY <1>1 DEF Bus!vars
  <1>2. ASSUME NEW c \in Client, Request(c) \/ AppStep(c) \/ SendBody(c) \/ RxStep(c)
        PROVE [Bus!Next]_Bus!vars
    <2>1. bus' = bus
      BY <1>2 DEF Request, AppStep, SendBody, RxStep, server
    <2>2. CASE K!RxBody(c)
      <3> DEFINE s == down[c]
      <3> DEFINE n == Head(s).body
      <3> DEFINE w == OnTheWay(c)
      <3>1. /\ s # <<>> /\ Head(s).cmd = "BODY"
            /\ seen' = [seen EXCEPT ![c] = Append(@, n)] /\ adrift' = adrift
        BY <2>2, SameLink DEF K!RxBody, L!IsMessage
      <3>2. /\ Len(bus) \in Nat /\ w <= Len(bus)
            /\ w \in Nat /\ s \in Seq(L!Token) /\ seen[c] \in Seq(Nat)
        BY OrderTyped DEF IInv
      <3>3. /\ Increasing(s, 0, w) /\ Foreign(s, c) /\ Unseen(s, c)
        BY DEF IInv, DownInOrder, DownInOrderOf
      <3> HIDE DEF s, w
      <3>4. n \in Nat /\ 0 < n /\ n <= w /\ 1 \in DOMAIN s /\ s[1] = Head(s)
        BY <3>1, <3>2, <3>3, IncreasingHead
      <3>5. bus[n].from # c /\ Bus!Later(c, n)
        BY <3>1, <3>3, <3>4 DEF Foreign, Unseen, Bus!Later
      <3>6. n \in 1..Len(bus)
        BY <3>2, <3>4
      <3> HIDE DEF n
      <3>7. Bus!See(c)
        BY <2>1, <3>1, <3>5, <3>6 DEF Bus!See
      <3>8. QED
        BY <3>7 DEF Bus!Next
    <2>3. CASE K!RxGarbled(c)
      <3>1. adrift' = adrift /\ rx[c] = "garbled"
            /\ (seen' = seen \/ seen' = [seen EXCEPT ![c] = Append(@, 0)])
        BY <2>3 DEF K!RxGarbled, K!L!Garbled
      <3>2. adrift[c]
        BY <3>1 DEF IInv, DownFramed, DownFramedOf
      <3>3. CASE seen' = seen
        BY <1>1, <2>1, <3>1, <3>3
      <3>4. CASE seen' = [seen EXCEPT ![c] = Append(@, 0)]
        <4>1. Bus!SeeStray(c)
          BY <2>1, <3>1, <3>2, <3>4 DEF Bus!SeeStray, Bus!Nowhere
        <4>2. QED
          BY <4>1 DEF Bus!Next
      <3>5. QED
        BY <3>1, <3>3, <3>4
    <2>4. CASE seen' = seen /\ adrift' = [adrift EXCEPT ![c] = TRUE]
      <3>1. Bus!Drift(c)
        BY <2>1, <2>4 DEF Bus!Drift
      <3>2. QED
        BY <3>1 DEF Bus!Next
    <2>5. CASE seen' = seen /\ adrift' = adrift
      BY <1>1, <2>1, <2>5
    <2>6. QED
      BY <1>2, <2>2, <2>3, <2>4, <2>5
      DEF Request, AppStep, SendBody, RxStep, K!Request, K!AppStep, K!RxStep,
          K!Open, K!Close, K!Vanish, K!StartRequest, K!StartAnswer, K!StartTimeout,
          K!StopRequest, K!StopJoin, K!SendCommand, K!SendBody, K!RxCommand,
          K!RxCutCommand, K!RxMisplaced, K!RxTimeout, K!RxDisconnected, K!reading
  <1>3. ASSUME NEW c \in Client, CommStep(c) PROVE [Bus!Next]_Bus!vars
    <2>1. seen' = seen /\ adrift' = adrift
      BY <1>3 DEF CommStep, controllers
    <2>2. CASE S!DispatchBegin(c)
      <3> DEFINE e == [from |-> c, msg |-> msg[c]]
      <3>1. bus' = Append(bus, e) /\ e \in Message /\ bus \in Seq(Message) /\ msg[c] \in Nat
        BY <2>2, UpIsTyped DEF S!DispatchBegin, IInv, UpTyped, Message
      <3>2. Len(bus') = Len(bus) + 1 /\ bus'[Len(bus')] = e
        BY <3>1, AppendProperties, LenProperties
      <3>3. Bus!Transmit(c)
        BY <2>1, <3>1, <3>2 DEF Bus!Transmit
      <3>4. QED
        BY <3>3 DEF Bus!Next
    <2>3. CASE bus' = bus
      BY <1>1, <2>1, <2>3
    <2>4. QED
      BY <1>3, <2>2, <2>3
      DEF CommStep, S!CommStep, S!ReadCommand, S!CutCommand, S!AnswerStart, S!AnswerStop,
          S!ReadBody, S!ReadMisplaced, S!ReadGarbled, S!ReadTimeout, S!Disconnected,
          S!DispatchSkip, S!DispatchCommand, S!DispatchBody, S!DispatchEnd,
          S!LoseClient, S!ThreadEnd, S!dispatching
  <1>4. CASE ListenStep \/ CleanupStep
    BY <1>1, <1>4
    DEF ListenStep, S!ListenStep, S!Accept, S!StartClient, CleanupStep, S!CleanupStep,
        S!CleanupBegin, S!CleanupDelete, S!CleanupEnd, S!dispatching, controllers
  <1>5. CASE UNCHANGED vars
    BY <1>1, <1>5 DEF vars, controllers, server
  <1>6. QED
    BY <1>2, <1>3, <1>4, <1>5 DEF Next

(* Whatever connects, stops, times out or vanishes, all controllers see    *)
(* the messages in the order in which the server dispatched them, at most  *)
(* once and never their own; what is no message is seen only by one that   *)
(* is out of step.                                                         *)
THEOREM ServerIsABus == Spec => ImplementsBus
  <1>1. Init => Bus!Init
    BY DEF Init, K!Init, S!Init, Bus!Init
  <1>2. QED
    BY <1>1, BusStep, SpecIInv, PTL DEF Spec, SafetySpec, ImplementsBus, Bus!Spec

=============================================================================
