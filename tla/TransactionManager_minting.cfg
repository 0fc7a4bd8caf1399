SPECIFICATION FairSpec
CONSTANTS
  alice = alice
  bob = bob
  a1 = a1
  a2 = a2
  r1 = r1
  a3 = a3
  b1 = b1
  b5 = b5
  b6 = b6
  NoTx = NoTx
  CM = CM
  Account = {alice, bob}
  Tx = {a1, a2, b1}
  Client = {c1}
  From <- MCFrom
  PayerOrFrom <- MCPayer
  Nonce <- MCNonce
  Bandwidth <- MCBandwidth
  PointChange <- MCPointChange
  MaxPendingByAccount = 2
  size = 0
  InvalidRune = {5, 6}
  Points = {4}
  IsMiner = TRUE
  MayRevert = FALSE
  MaxBlocks = 2
  MaxBlockTxs = 1
INVARIANTS NextExhaustive
PROPERTIES NoStarvation
