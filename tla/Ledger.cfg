SPECIFICATION Spec
CONSTANTS
  alice = alice
  bob = bob
  None = None
  Accounts <- MCAccounts
  Sponsors <- MCSponsors
  TotalTokens = 9
  Genesis <- MCGenesis
  GenesisAlias <- MCGenesisAlias
  GenesisStake = 2
  n1 = n1
  Names = {n1}
  Hashes = {h1}
  Expirations = {2}
  Coinbases <- MCSponsors
  Amounts = {1, 2}
  Usage = 1
  MinCollateral = 1
  VoteMaximum = 1
  RegenDuration = 2
  WaitDuration = 2
  InflationDiv = 4
  InflationRoundDown = 1
  BlockLimit = 2
  MaxTime = 3
  SelfPay = FALSE
INVARIANTS
  TypeOK
  Conservation
  
  PointsWithinStake
  UnstakingDated
  CandidateIndex
  AliasIndex
  CertCopiesAgree
CHECK_DEADLOCK FALSE
