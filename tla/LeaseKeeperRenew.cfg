SPECIFICATION FairSpec
CONSTANTS
  TTL = 6
  Stall = 0
PROPERTY RenewalIsBounded
CHECK_DEADLOCK FALSE
