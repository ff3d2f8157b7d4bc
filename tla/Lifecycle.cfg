\* Two clients that meet over the same sandboxes, and a walk of several pages.
SPECIFICATION Spec
CONSTANTS
  Clients = {c1, c2}
  MaxSandboxes = 2
  MaxCalls = 3
  Limit = 1
SYMMETRY ClientSymmetry
INVARIANTS
  AnswersTruthful
  KilledOnce
  NoSilentLeak
  WalkFaithful
CHECK_DEADLOCK FALSE
