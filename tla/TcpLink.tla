------------------------------ MODULE TcpLink ------------------------------
(***************************************************************************)
(* The TCP connections between can_server and its clients, as              *)
(* TcpCanSerializer uses them: in both directions a stream, reliable and   *)
(* in order, holding at most Capacity tokens (bound) that were written and *)
(* not read.                                                               *)
(*                                                                         *)
(* A token is what one side writes with the other looking on: a command,   *)
(* or everything that follows CMD_MSG (identifier, flags, size, payload).  *)
(* Nothing in the stream tells the two apart, and a reader that gives up   *)
(* in the middle of a token, or expects the other kind, is out of step: it *)
(* goes on from the byte where it is.  So a token has the number of its    *)
(* bytes that are left, and words are read two bytes at a time.            *)
(***************************************************************************)
EXTENDS Naturals, Sequences

CONSTANTS
  Client,
  Capacity,
  BodySize,   \* bound: the lengths in bytes of what follows a CMD_MSG
  Slow,       \* bound: the clients on whose connection values are cut
  Torn        \* bound: the kinds of tokens that are cut in their middle

VARIABLES
  up,         \* per client: the stream to the server
  down,       \* per client: the stream from the server
  connected,  \* per client: its socket is "never" open yet, "open", "closed"
  serving     \* the server process is alive

Command == {"START", "STOP", "MSG"}
AnyWord == Command \cup {"OTHER"}

Garbled == 0
Cmd(c) == [cmd |-> c, body |-> Garbled, size |-> 2]
Body(n, size) == [cmd |-> "BODY", body |-> n, size |-> size]

(* A part of a token: the second byte of a command, or bytes of a message, *)
(* which can have any value.                                               *)
Rest(size) == [cmd |-> "REST", body |-> Garbled, size |-> size]
Half == [cmd |-> "HALF", body |-> Garbled, size |-> 1]
Left(token, k) ==
  IF token.cmd \in Command THEN Half ELSE Rest(token.size - k)

Token ==
  [cmd : Command, body : {Garbled}, size : {2}]
    \cup [cmd : {"BODY"}, body : Nat, size : Nat \ {0}]
    \cup [cmd : {"REST"}, body : {Garbled}, size : Nat \ {0}]
    \cup [cmd : {"HALF"}, body : {Garbled}, size : {1}]

TypeOK ==
  /\ up \in [Client -> Seq(Token)]
  /\ down \in [Client -> Seq(Token)]
  /\ connected \in [Client -> {"never", "open", "closed"}]
  /\ serving \in BOOLEAN

Init ==
  /\ up = [c \in Client |-> <<>>]
  /\ down = [c \in Client |-> <<>>]
  /\ connected = [c \in Client |-> "never"]
  /\ serving = TRUE

-----------------------------------------------------------------------------
(* recv() of k bytes, of the token at the head of a stream.                *)
Take(s, k) ==
  IF k = Head(s).size THEN Tail(s) ELSE <<Left(Head(s), k)>> \o Tail(s)

(* The reader holds the last byte of what it found, and needs another one. *)
LoneByte(s) == Len(s) = 1 /\ Head(s).size = 1

(* read(uint16_t): two bytes, of one token or of two.  A byte of a command *)
(* and one of something else, or of another command, make no command: the  *)
(* low and the high bytes of B007, DEAD, F00D and BAAD all differ.  Of the *)
(* bytes of a message nothing is known.                                    *)
HasWord(s) == s # <<>> /\ ~LoneByte(s)
AfterWord(s) == IF Head(s).size > 1 THEN Take(s, 2) ELSE Take(Tail(s), 1)

WordsAt(s) ==
  IF Head(s).cmd \in Command
    THEN {Head(s).cmd}
    ELSE IF Head(s).size > 1 \/ (Head(s).cmd = "REST" /\ s[2].cmd \notin Command)
           THEN AnyWord
           ELSE {"OTHER"}

(* A read that times out has taken some of the bytes it waits for, and     *)
(* they are lost: one of the two of a word, any of those of a message.     *)
WordIsCut(c, s) == LoneByte(s) \/ (c \in Slow /\ s # <<>> /\ Head(s).cmd \in Torn)

MessageCuts(s) ==
  {s} \cup IF s # <<>> /\ Head(s).cmd \in Torn
            THEN {Take(s, k) : k \in 1..(Head(s).size - 1)}
            ELSE {}

(* What is not a whole message is read in its place, piece by piece.       *)
IsMessage(s) == s # <<>> /\ Head(s).cmd = "BODY"
Pieces(s, n) == {k \in 1..n : s # <<>> /\ k <= Head(s).size}

(* A write waits for room in the stream; a byte its reader already has     *)
(* takes none.                                                             *)
Room(s) == Len(s) < Capacity \/ LoneByte(s)

-----------------------------------------------------------------------------
(* The server's sockets have no send timeout.  Writing to a client that    *)
(* has gone fails, or raises SIGPIPE, whose default action nobody changes: *)
(* it ends the process.                                                    *)
ServerWrites(c, token) ==
  \/ /\ connected[c] = "open"
     /\ Room(down[c])
     /\ down' = [down EXCEPT ![c] = Append(@, token)]
     /\ UNCHANGED serving
  \/ /\ connected[c] = "closed"
     /\ serving' \in BOOLEAN
     /\ UNCHANGED down

ServerReads(c, s) == up' = [up EXCEPT ![c] = s]

ServerFindsClosed(c) == up[c] = <<>> /\ connected[c] = "closed"

ClientWrites(c, token) ==
  IF serving
    THEN /\ Room(up[c])
         /\ up' = [up EXCEPT ![c] = Append(@, token)]
    ELSE UNCHANGED up

(* connect() gives the client's socket a send timeout: a write ends with a *)
(* part of its bytes written, or none.                                     *)
ClientWriteIsCut(c, token) ==
  /\ serving
  /\ c \in Slow
  /\ IF Room(up[c])
       THEN /\ token.cmd \in Torn
            /\ \E k \in 1..(token.size - 1) :
                 up' = [up EXCEPT ![c] = Append(@, Rest(k))]
       ELSE UNCHANGED up

ClientReads(c, s) == down' = [down EXCEPT ![c] = s]

(* isConnected() of the client: select() and a read of one byte with       *)
(* MSG_PEEK.                                                               *)
ClientIsConnected(c) == serving \/ down[c] # <<>>

=============================================================================
