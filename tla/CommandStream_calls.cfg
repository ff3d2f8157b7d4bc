\* One command with callbacks that may hang, a context its owner may end, and a
\* call on it. (Calls meet only in the process and in the context: one shows
\* what each does, and the theorems are about any number.)
SPECIFICATION FairSpec
CONSTANTS
  Handles   = {h1}
  Procs     = {p1}
  Calls     = {c1}
  Cancellable = {h1}
  Listeners = {h1}
  NoPid     = NoPid
  NoHandle  = NoHandle
  MaxWrites = 2
INVARIANTS
  ReportAgrees
  KillHonest
PROPERTIES
  SettledForGood
  WaitReturns
  ReaderNeverBlocked
CHECK_DEADLOCK FALSE
