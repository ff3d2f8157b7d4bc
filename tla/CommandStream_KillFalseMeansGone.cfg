\* Expected to fail: a Kill that answers false for a process that is running.
SPECIFICATION Spec
CONSTANTS
  Handles   = {h1}
  Procs     = {p1}
  Calls     = {c1}
  Cancellable = {h1}
  Listeners = {h1}
  NoPid     = NoPid
  NoHandle  = NoHandle
  MaxWrites = 1
INVARIANT
  KillFalseMeansGone
CHECK_DEADLOCK FALSE
