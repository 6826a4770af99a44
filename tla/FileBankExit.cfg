SPECIFICATION Spec
CHECK_DEADLOCK FALSE
CONSTANTS
  alice = alice
  bob = bob
  m1 = m1
  m2 = m2
  m3 = m3
  m4 = m4
  f1 = f1
  f2 = f2
  b1 = b1
  b2 = b2
  Users <- OneUser
  Miners <- ThreeMiners
  MinerOrder <- ThreeInOrder
  Files <- OneFile
  Buckets <- OneBucket
  InitialFillers <- EqualFillers
  InitialSpace <- EqualSpace
  OneDay = 5
  LeaseDays = 10
  FrozenDays = 1
  GiB = 1
  FragmentCount = 2
  MaxTries = 15
  MaxAttempts = 1
  RetryStep = 1
  FragmentSize = 1
  TransferRate = 16
  CalculateRate = 16
  RestoralLife = 2
  TiB = 100
  ClearLimit = 300
  ClearListLimit = 5000
  MaxFillers = 1
  MaxBlock = 11
  Fill = 7
  Bought = 3
  SegmentCounts = {1}
  GibCounts = {}
  RenewDays = {}
  MaxTotal = 0
  Leavers = {m1}
  Calls = {"upload_declaration", "transfer_report", "delete_file", "miner_exit_prep", "miner_withdraw", "miner_withdraw_active", "regnstk", "claim_restoral_noexist_order", "restoral_order_complete"}
SYMMETRY Symmetric
INVARIANTS
  ServiceIsStored
  
  LeaversHaveNoTasks

  
