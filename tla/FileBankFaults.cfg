SPECIFICATION Spec
CHECK_DEADLOCK FALSE
CONSTANTS
  alice = alice
  bob = bob
  m1 = m1
  m2 = m2
  m3 = m3
  m4 = m4
  f1 = f1
  f2 = f2
  b1 = b1
  b2 = b2
  Users <- OneUser
  Miners <- TwoMiners
  MinerOrder <- TwoInOrder
  Files <- OneFile
  Buckets <- OneBucket
  InitialFillers <- EqualFillers
  InitialSpace <- EqualSpace
  OneDay = 1
  LeaseDays = 1
  FrozenDays = 1
  GiB = 1
  FragmentCount = 1
  MaxTries = 15
  MaxAttempts = 1
  RetryStep = 1
  FragmentSize = 1
  TransferRate = 16
  CalculateRate = 16
  RestoralLife = 2
  TiB = 100
  ClearLimit = 300
  ClearListLimit = 5000
  MaxFillers = 0
  MaxBlock = 5
  Fill = 3
  Bought = 3
  SegmentCounts = {1}
  GibCounts = {3}
  RenewDays = {1}
  MaxTotal = 0
  Leavers = {m1}
  Calls = {"upload_declaration", "transfer_report", "delete_file", "delete_bucket", "buy_space", "renewal_space", "declare_over_stuck", "delete_bucket_calculating", "transfer_report_again", "claim_restoral_noexist_order", "restoral_order_complete", "miner_exit_prep", "force_miner_exit", "miner_withdraw", "miner_withdraw_active", "regnstk"}
SYMMETRY Symmetric
INVARIANTS
  LostHasOrder
  AgendaMatchesDeals
  CalculatingHasDeal
  StageIsReported
