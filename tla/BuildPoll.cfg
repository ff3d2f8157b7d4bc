\* A log of up to five entries, two to a reply, and intervals up to six and a
\* half times the initial one.
SPECIFICATION FairSpec
CONSTANTS
  Limit = 2
  MaxLogs = 5
  Initial = 2
  Longest = 13
INVARIANTS
  NoticedPromptly
PROPERTIES
  ImplementsWait
  BuildEndsWait
CHECK_DEADLOCK FALSE
