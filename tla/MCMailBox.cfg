\* Two threads wait for the same mailbox, one of them with a timeout; three
\* messages are enough for both to compete for one that is already queued
\* while another is posted.  Nobody is obliged to post again once MaxPosts
\* messages have been posted, but clear() can always be called.
CONSTANTS
  w1 = w1
  w2 = w2
  Waiter = {w1, w2}
  TimedWaiter = {w2}
  MaxPosts = 3
SPECIFICATION Spec
INVARIANT TypeOK
INVARIANT EveryWaitIsReached
INVARIANT ExactlyOnePlace
INVARIANT InPostOrder
PROPERTY CancelledTakesNothing
PROPERTY WaitReturns
