\* Three clients, of which the third comes, stops and goes while the other
\* two stay; the first and the third send, the second sees what both sent.
\* The third sends from a thread of its own.  A stream holds half of a
\* message, so that other threads come in between.  Reads and writes on the
\* connection of the second may be cut anywhere in a command MSG or a body,
\* which has an even number of bytes.
CONSTANTS
  c1 = c1
  c2 = c2
  c3 = c3
  Client = {c1, c2, c3}
  SendThread = {c3}
  Steady = {c1, c2}
  Restart = {}
  Cleanup = Cleanup
  NoThread = NoThread
  Capacity = 1
  BodySize = {8}
  Slow = {c2}
  Torn = {"MSG", "BODY"}
  MaxSends <- FirstAndThird
SPECIFICATION SafetySpec
INVARIANT TypeOK
INVARIANT ControllersReadInStep
INVARIANT AnswerComesFirst
INVARIANT DeletedIsUnused
PROPERTY ImplementsBus
\* With every stream full and its reader gone, nobody has a next step.
CHECK_DEADLOCK FALSE
