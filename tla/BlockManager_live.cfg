SPECIFICATION FairSpec
CONSTANTS
  g = g
  b2 = b2
  b3 = b3
  x3 = x3
  NoBlock = NoBlock
  Genesis = g
  Block = {g, b2, b3}
  ParentHash <- MCParent
  Height <- MCHeight
  Timestamp <- MCTimestamp
  Executable <- MCValid
  Valid <- MCValid
  DynastySize = 3
  Loop = loop
  Pusher = {loop}
  PoolSize = 3
  newBlockChannelSize = 3
  finishWorkChannelSize = 1
  MayStop = TRUE
PROPERTIES  StopTerminates
CHECK_DEADLOCK FALSE
