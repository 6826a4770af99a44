SPECIFICATION Spec
CONSTANTS
  alice = alice
  Users <- OneUser
  OneDay = 2
  LeaseDays = 2
  FrozenDays = 2
  GiB = 2
  GibCounts = {1}
  RenewDays = {0, 1, 2}
  Sizes = {1}
  MaxTotal = 4
  MaxHeld = 4
  GenesisPrice = 5
  DefaultPrice = 2
  ExistentialDeposit = 1
  InitialFree = 11
  MaxBlock = 11
INVARIANTS
  TypeOK
  LeaseNeverShort
  PunishedOnlyWhenOverdue
  OverdueIsFrozenWithinADay
  ClearListIsDead
PROPERTIES
  DeadIsFinal
  AddedTimeIsCharged
