SPECIFICATION Spec
CHECK_DEADLOCK FALSE
CONSTANTS
  alice = alice
  bob = bob
  m1 = m1
  m2 = m2
  m3 = m3
  m4 = m4
  f1 = f1
  f2 = f2
  b1 = b1
  b2 = b2
  Users <- OneUser
  Miners <- TwoMiners
  MinerOrder <- TwoInOrder
  Files <- OneFile
  Buckets <- OneBucket
  InitialFillers <- EqualFillers
  InitialSpace <- EqualSpace
  OneDay = 2
  LeaseDays = 20
  FrozenDays = 1
  GiB = 1
  FragmentCount = 1
  MaxTries = 15
  MaxAttempts = 2
  RetryStep = 1
  FragmentSize = 1
  TransferRate = 16
  CalculateRate = 16
  RestoralLife = 2
  TiB = 100
  ClearLimit = 300
  ClearListLimit = 5000
  MaxFillers = 0
  MaxBlock = 6
  Fill = 3
  Bought = 4
  SegmentCounts = {1}
  GibCounts = {}
  RenewDays = {}
  MaxTotal = 0
  Leavers = {m1}
  Calls = {"miner_exit_prep", "miner_withdraw", "miner_withdraw_active", "regnstk"}
SYMMETRY Symmetric
PROPERTIES
  WithdrawnHasLeft
