\* The same, with less of everything: expected to be violated.
SPECIFICATION Spec
CONSTANTS
  MaxChanges = 2
  Window = 2
  Waiters = {w1}
  Pollers = {p1}
INVARIANT WatchesUntilAsked
CHECK_DEADLOCK FALSE
