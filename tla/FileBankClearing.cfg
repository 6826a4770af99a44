SPECIFICATION Spec
CHECK_DEADLOCK FALSE
CONSTANTS
  alice = alice
  bob = bob
  m1 = m1
  m2 = m2
  m3 = m3
  m4 = m4
  f1 = f1
  f2 = f2
  b1 = b1
  b2 = b2
  Users <- TwoUsers
  Miners <- ThreeMiners
  MinerOrder <- ThreeInOrder
  Files <- TwoFiles
  Buckets <- OneBucket
  InitialFillers <- UnevenFillers
  InitialSpace <- EqualSpace
  OneDay = 2
  LeaseDays = 1
  FrozenDays = 1
  GiB = 1
  FragmentCount = 2
  MaxTries = 15
  MaxAttempts = 1
  RetryStep = 3
  FragmentSize = 1
  TransferRate = 16
  CalculateRate = 16
  RestoralLife = 2
  TiB = 100
  ClearLimit = 300
  ClearListLimit = 5000
  MaxFillers = 0
  MaxBlock = 8
  Fill = 3
  Bought = 3
  SegmentCounts = {1}
  GibCounts = {1, 3}
  RenewDays = {}
  MaxTotal = 4
  Leavers = {}
  Calls = {"upload_declaration", "transfer_report", "buy_space", "expansion_space", "delete_file"}
SYMMETRY SymmetricHolders
INVARIANTS
  PurchasedIsSumOfLeases
  ListedIsOwned
  ServiceIsBacked
PROPERTIES
  ClearingIsThorough
