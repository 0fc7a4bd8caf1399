SPECIFICATION Spec
CONSTANTS
  g = g
  b2 = b2
  b3 = b3
  x3 = x3
  NoBlock = NoBlock
  Genesis = g
  Block = {g, b2, x3}
  ParentHash <- MCParent
  Height <- MCHeight
  Timestamp <- MCTimestamp
  Executable <- MCValid
  Valid <- MCValid
  DynastySize = 3
  Loop = loop
  Pusher = {loop, sync}
  PoolSize = 1
  newBlockChannelSize = 1
  finishWorkChannelSize = 1
  MayStop = TRUE
INVARIANTS WorkIsTracked
CHECK_DEADLOCK FALSE
