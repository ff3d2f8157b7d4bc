\* Enough changes to have some delivered, some under way and some not sent.
SPECIFICATION FairSpec
CONSTANTS
  MaxChanges = 3
  Window = 2
  Waiters = {w1, w2}
  Pollers = {p1, p2}
INVARIANTS
  EventsFaithful
  ExitBeforeWait
  PolledOnce
PROPERTIES
  ImplementsStream
  StopEnds
CHECK_DEADLOCK FALSE
