SPECIFICATION Spec
CONSTANTS
  Streams = {s1}
  Threads = {p}
  Primary = p
  Turns = {p}
  Surface <- OneSurface
  OptIn <- BothPreviews
  Wide = FALSE
  Rows = {}
  FrameCap = 1
  WakeBatch = 1
  MaxRows = 1
  MaxPreviews = 2
  MaxDeltas = 2
  MaxBreaks = 0
INVARIANTS NeverHoled
CHECK_DEADLOCK FALSE
