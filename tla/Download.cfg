SPECIFICATION FairSpec
CONSTANTS
  g = g  a2 = a2  a3 = a3  a4 = a4  b3 = b3
  NoBlock = NoBlock
  Block <- MCBlock
  Genesis = g
  ParentHash <- MCParentHash
  Height <- MCHeight
  Timestamp <- MCTimestamp
  Executable <- MCBlock
  DynastySize = 3
  Peers = {p}
  Tails <- MCTails
  Starts <- MCStarts
  Broadcast <- MCBroadcast
  Retries = 2
  Limit = 2
  Depth = 1
INVARIANTS
  TypeOK
  SearchSound
  StepUpCanEnd
  NoLostWakeup
  FinishedOnTarget
PROPERTY DownloadEnds
CHECK_DEADLOCK FALSE
