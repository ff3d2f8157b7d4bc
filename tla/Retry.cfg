SPECIFICATION Spec
CONSTANTS
  Retries = 3
  Second = 3
  Word = 16
  MaxAfter = 4
  Seconds <- Int64
  Absent = Absent
INVARIANTS
  WholeBodies
  ResponsesAccounted
  HonoursRetryAfter
CHECK_DEADLOCK FALSE
