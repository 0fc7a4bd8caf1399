SPECIFICATION Spec
CONSTANTS
  g = g
  a2 = a2
  a3 = a3
  a4 = a4
  b2 = b2
  b3 = b3
  b4 = b4
  c3 = c3
  c4 = c4
  x = x
  NoBlock = NoBlock
  Genesis = g
  ParentHash <- CrashParent
  Height <- CrashHeight
  Timestamp <- CrashTimestamp
  Executable <- MCExecutable
  Block = {g, a2, a3, a4, b2, b3, c3, c4}
  DynastySize = 2
  Worker = {w1}
  TailCacheSize = 2
  MayCrash = TRUE
  StorageMayFail = TRUE
INVARIANTS TypeOK LIBOnMainChain CanonicalIndex IrreversibleIndex RevertsExactly SetupRecovers
PROPERTIES LIBIrreversible ImplementsIrreversibleChain
