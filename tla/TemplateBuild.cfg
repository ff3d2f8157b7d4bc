SPECIFICATION Spec
CONSTANTS
  Sources <- MCSources
  Dests <- MCDests
  Contents = {one, two}
  Missing = Missing
  Run = Run
  Programs <- MCPrograms
  Builds = 2
  Edits = 2
INVARIANTS
  StartedWithItsBundles
  BuiltFromTheFiles
  TruthfulReturn
CHECK_DEADLOCK FALSE
