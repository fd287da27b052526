CONSTANTS
  Rx = Rx
  App = App
  NoThread = NoThread
  c1 = c1
  Child = {c1}
SPECIFICATION SpecWithClear
PROPERTY ClearReturns
\* clear() stops the thread that calls it, and then the one that feeds the
\* stage: with everybody blocked there is no next step.
CHECK_DEADLOCK FALSE
