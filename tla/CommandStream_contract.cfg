\* Two handles on one process, one with callbacks: one starts it, the other
\* connects to it.
SPECIFICATION Spec
CONSTANTS
  Handles   = {h1, h2}
  Procs     = {p1}
  Calls     = {}
  Cancellable = {}
  Listeners = {h1}
  NoPid     = NoPid
  NoHandle  = NoHandle
  MaxWrites = 2
INVARIANTS
  ResultTruthful
  CallbacksFaithful
PROPERTIES
  ImplementsContract
CHECK_DEADLOCK FALSE
