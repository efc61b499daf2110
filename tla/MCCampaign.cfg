SPECIFICATION Spec
CONSTANTS
  Final = 2
  Size <- MCSize
  Failing <- MCFailing
  Reducing = {2}
  Streamed = {1}
  Reduced = {2}
  AttemptsMax = 2
  TroublesMax = 2
INVARIANTS
  AllDelivered
  OneOrNoneThere
PROPERTIES
  GoesOn
  FollowerEnds
CHECK_DEADLOCK FALSE
