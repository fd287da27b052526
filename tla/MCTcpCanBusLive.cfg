\* Two clients that stop and go at any time.  The first sends, and one message
\* is enough to block the server on the second when it does not read, since a
\* stream holds half of it.  Reads and writes on the connection of the first
\* may be cut anywhere in a command MSG or a body; the 7 bytes of a body leave
\* whoever takes them for commands one byte out of phase.
CONSTANTS
  c1 = c1
  c2 = c2
  c3 = c3
  Client = {c1, c2}
  SendThread = {}
  Steady = {}
  Restart = {c2}
  Cleanup = Cleanup
  NoThread = NoThread
  Capacity = 1
  BodySize = {7}
  Slow = {c1}
  Torn = {"MSG", "BODY"}
  MaxSends <- OnlyFirst
SPECIFICATION Spec
INVARIANT BusCarriesWhatWasSent
PROPERTY MutexIsReleased
PROPERTY GoneIsDeleted
PROPERTY StopReturns
\* With every stream full and its reader gone, nobody has a next step.
CHECK_DEADLOCK FALSE
