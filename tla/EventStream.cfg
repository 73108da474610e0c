SPECIFICATION FairSpec
CONSTANTS
  Streams = {s1}
  Threads = {p, c}
  Primary = p
  Turns = {}
  Surface <- OneSurface
  OptIn <- BothPreviews
  Wide = TRUE
  Rows <- SomeRows
  FrameCap = 1
  WakeBatch = 1
  MaxRows = 2
  MaxPreviews = 0
  MaxDeltas = 0
  MaxBreaks = 1
INVARIANTS ExactTail NoLostWake
PROPERTIES StreamsCatchUp
CHECK_DEADLOCK FALSE
