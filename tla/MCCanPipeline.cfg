\* Two children, so that one can be called before and one after any step of
\* the other thread; four data, so that one can be kept by the suspender,
\* one be in the hand of the reception thread and two in the mailbox.
CONSTANTS
  Rx = Rx
  App = App
  NoThread = NoThread
  c1 = c1
  c2 = c2
  Child = {c1, c2}
  MaxPosts = 4
SPECIFICATION Spec
INVARIANT TypeOK
INVARIANT DispatchKeepsOrder
INVARIANT ChildrenCalledByOneThread
INVARIANT MailboxIsOfThisSession
PROPERTY ImplementsChannel
PROPERTY QueuedDataIsTaken
PROPERTY ResumeDelivers
