\* The smallest pipeline in which stop() can miss its reception thread: one
\* child, and one datum for the thread to be busy with.
CONSTANTS
  Rx = Rx
  App = App
  NoThread = NoThread
  c1 = c1
  c2 = c2
  Child = {c1}
  MaxPosts = 1
SPECIFICATION Spec
PROPERTY StopReturns
