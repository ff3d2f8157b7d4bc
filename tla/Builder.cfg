\* Chains of three calls; a chain is over when it has its calls.
SPECIFICATION Spec
CONSTANTS
  BaseImage = "base_cn"
  BaseOption = "i0"
  Broken <- MCBroken
  Chains <- MCChains
  MaxCalls = 3
INVARIANTS
  ForcedAsAsked
  BaseAsAsked
  DockerfileRead
  DockerfileWritten
CHECK_DEADLOCK FALSE
