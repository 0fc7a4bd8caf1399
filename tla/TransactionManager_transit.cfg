SPECIFICATION Spec
CONSTANTS
  alice = alice
  bob = bob
  a1 = a1
  a2 = a2
  r1 = r1
  a3 = a3
  b1 = b1
  b5 = b5
  b6 = b6
  NoTx = NoTx
  CM = CM
  Account = {alice, bob}
  Tx = {a1, a2}
  Client = {c1}
  From <- MCFrom
  PayerOrFrom <- MCPayer
  Nonce <- MCNonce
  Bandwidth <- MCBandwidth
  PointChange <- MCPointChange
  MaxPendingByAccount = 2
  size = 2
  InvalidRune = {5, 6}
  Points = {0, 2}
  IsMiner = FALSE
  MayRevert = FALSE
  MaxBlocks = 0
  MaxBlockTxs = 1
INVARIANTS TransitComplete
