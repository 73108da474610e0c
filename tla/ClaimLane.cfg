SPECIFICATION FairSpec
CONSTANTS
  Null = Null
  MaxItems = 2
  Sessions = {s1}
  Slots = {turn, child}
  SessionOf <- MCSessionOf
  KindOf <- MCKindOf
  Claimants = {b1, b2}
  Serves <- MCServes
  Proofs = {p1, p2, p3, p4}
  TTL = 1
  RetryDelay = 1
INVARIANTS OneLivePerSlot NoProofOutlivesItsClaim
PROPERTIES WorkIsTakenUp Ownership
CHECK_DEADLOCK FALSE
