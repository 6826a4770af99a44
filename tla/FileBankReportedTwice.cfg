SPECIFICATION Spec
CHECK_DEADLOCK FALSE
CONSTANTS
  alice = alice
  bob = bob
  m1 = m1
  m2 = m2
  m3 = m3
  m4 = m4
  f1 = f1
  f2 = f2
  b1 = b1
  b2 = b2
  Users <- OneUser
  Miners <- OneMiners
  MinerOrder <- OneInOrder
  Files <- TwoFiles
  Buckets <- OneBucket
  InitialFillers <- EqualFillers
  InitialSpace <- EqualSpace
  OneDay = 100
  LeaseDays = 1
  FrozenDays = 1
  GiB = 1
  FragmentCount = 1
  MaxTries = 15
  MaxAttempts = 1
  RetryStep = 1
  FragmentSize = 1
  TransferRate = 16
  CalculateRate = 16
  RestoralLife = 2
  TiB = 100
  ClearLimit = 300
  ClearListLimit = 5000
  MaxFillers = 0
  MaxBlock = 4
  Fill = 5
  Bought = 4
  SegmentCounts = {1}
  GibCounts = {}
  RenewDays = {}
  MaxTotal = 0
  Leavers = {}
  Calls = {"upload_declaration", "transfer_report", "transfer_report_again"}
SYMMETRY Symmetric
INVARIANTS
  UploadedOnce
