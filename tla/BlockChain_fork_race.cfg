SPECIFICATION Spec
CONSTANTS
  g = g
  a2 = a2
  a3 = a3
  a4 = a4
  b2 = b2
  b3 = b3
  b4 = b4
  c3 = c3
  c4 = c4
  x = x
  NoBlock = NoBlock
  Genesis = g
  ParentHash <- MCParent
  Height <- MCHeight
  Timestamp <- MCTimestamp
  Executable <- MCExecutable
  Block = {g, b2, b3, b4}
  DynastySize = 2
  Worker = {w1, w2}
  TailCacheSize = 4
  MayCrash = FALSE
  StorageMayFail = FALSE
INVARIANTS ForkVerdictSound
CHECK_DEADLOCK FALSE
