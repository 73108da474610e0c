SPECIFICATION EitherSpec
CONSTANTS
  Streams = {s1}
  Threads = {p}
  Primary = p
  Turns = {p}
  Surface <- OneSurface
  OptIn <- BothPreviews
  Wide = FALSE
  Rows = {}
  FrameCap = 1
  WakeBatch = 1
  MaxRows = 1
  MaxPreviews = 2
  MaxDeltas = 2
  MaxBreaks = 0
  Null = Null
  Workers = {w1, w2}
  Calls = {k1}
  WireRows = 2
  Reclaim = 1
  StartupTTL = 1
  WireTTL = 1
  WindDown = 1
SYMMETRY Symm
INVARIANTS CleanPrefix
PROPERTIES WireServesCalls
CHECK_DEADLOCK FALSE
