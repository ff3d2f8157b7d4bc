\* A terminal printing more than the channel and the connection hold.
SPECIFICATION DrainedSpec
CONSTANTS
  Capacity = 2
  Window = 3
  MaxChunks = 4
  Waiters = {w1, w2}
  Pid = 7
INVARIANTS
  OutputFaithful
  ExitTruthful
PROPERTIES
  ImplementsStream
  WaitReturns
CHECK_DEADLOCK FALSE
