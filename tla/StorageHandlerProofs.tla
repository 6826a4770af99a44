------------------------ MODULE StorageHandlerProofs ------------------------
(***************************************************************************)
(* What holds of the leases of pallet storage-handler for every set of     *)
(* users, every calendar, every price and every size.                      *)
(***************************************************************************)
EXTENDS StorageHandler, TLAPS

\* The helpers of UserSpace keep a lease a lease when their checks pass.
LEMMA HelpersKeepType ==
  ASSUME NEW s \in Lease, NEW n \in Nat, NEW t \in Nat
  PROVE  /\ AddUserPurchasedSpace(t, n) \in Lease
         /\ ExpensionPuchasedPackage(s, n) \in Lease
         /\ UpdatePuchasedPackage(t, s, n) \in Lease
         /\ CanUseSpace(s, n) => UseSpace(s, n) \in Lease
         /\ CanReleaseSpace(s, n) => ReleaseSpace(s, n) \in Lease
         /\ CanLockUserSpace(s, n) => LockUserSpace(s, n) \in Lease
         /\ CanUnlockUserSpace(s, n) => UnlockUserSpace(s, n) \in Lease
         /\ CanUnlockUserSpace(s, n) => UnlockAndUsedUserSpace(s, n) \in Lease
         /\ FrozenTask(t, s) \in Lease
<1>1. OneDay * LeaseDays \in Nat /\ OneDay * n \in Nat
  BY UserSpaceAssumption
<1>2. /\ {s.total, s.used, s.locked, s.remaining, s.deadline} \subseteq Nat
      /\ s.state \in LeaseState
  BY DEF Lease
<1>3. AddUserPurchasedSpace(t, n) \in Lease
  BY <1>1 DEF AddUserPurchasedSpace, Lease, LeaseState
<1>4. UpdatePuchasedPackage(t, s, n) \in Lease
  <2>1. RenewedDeadline(t, s, n) \in Nat
    BY <1>1, <1>2 DEF RenewedDeadline
  <2> QED
    BY <2>1, Zenon DEF UpdatePuchasedPackage, Lease, LeaseState
<1>5. ExpensionPuchasedPackage(s, n) \in Lease
  <2>1. s.remaining + n \in Nat /\ s.total + n \in Nat
    BY <1>2
  <2> QED
    BY <2>1, Zenon DEF ExpensionPuchasedPackage, Lease
<1>6. FrozenTask(t, s) \in Lease
  BY DEF FrozenTask, Lease, LeaseState
<1>7. ASSUME CanUseSpace(s, n) PROVE UseSpace(s, n) \in Lease
  <2>1. s.used + n \in Nat /\ s.remaining - n \in Nat
    BY <1>2, <1>7 DEF CanUseSpace
  <2> QED
    BY <2>1, Zenon DEF UseSpace, Lease
<1>8. ASSUME CanReleaseSpace(s, n) PROVE ReleaseSpace(s, n) \in Lease
  <2>1. s.used - n \in Nat /\ s.total - (s.used - n) \in Nat
    BY <1>2, <1>8 DEF CanReleaseSpace
  <2> QED
    BY <2>1, Zenon DEF ReleaseSpace, Lease
<1>9. ASSUME CanLockUserSpace(s, n) PROVE LockUserSpace(s, n) \in Lease
  <2>1. s.locked + n \in Nat /\ s.remaining - n \in Nat
    BY <1>2, <1>9 DEF CanLockUserSpace
  <2> QED
    BY <2>1, Zenon DEF LockUserSpace, Lease
<1>10. ASSUME CanUnlockUserSpace(s, n)
       PROVE  UnlockUserSpace(s, n) \in Lease /\ UnlockAndUsedUserSpace(s, n) \in Lease
  <2>1. s.locked - n \in Nat /\ s.remaining + n \in Nat /\ s.used + n \in Nat
    BY <1>2, <1>10 DEF CanUnlockUserSpace
  <2> QED
    BY <2>1, Zenon DEF UnlockUserSpace, UnlockAndUsedUserSpace, Lease
<1> QED
  BY <1>3, <1>4, <1>5, <1>6, <1>7, <1>8, <1>9, <1>10

-----------------------------------------------------------------------------
Short(s) == s.total > s.remaining + s.used + s.locked

\* No helper turns a lease that covers its total into one that does not, and
\* the helpers file-bank calls leave the deadline and the state alone.
LEMMA HelpersKeepCover ==
  ASSUME NEW s \in Lease, NEW n \in Nat, NEW t \in Nat, ~ Short(s)
  PROVE  /\ ~ Short(AddUserPurchasedSpace(t, n))
         /\ ~ Short(ExpensionPuchasedPackage(s, n))
         /\ ~ Short(UpdatePuchasedPackage(t, s, n))
         /\ ~ Short(FrozenTask(t, s))
         /\ CanUseSpace(s, n) => ~ Short(UseSpace(s, n))
         /\ CanReleaseSpace(s, n) => ~ Short(ReleaseSpace(s, n))
         /\ CanLockUserSpace(s, n) => ~ Short(LockUserSpace(s, n))
         /\ CanUnlockUserSpace(s, n) => ~ Short(UnlockUserSpace(s, n))
         /\ CanUnlockUserSpace(s, n) => ~ Short(UnlockAndUsedUserSpace(s, n))
<1>1. {s.total, s.used, s.locked, s.remaining} \subseteq Nat
  BY DEF Lease
<1>2. /\ ~ Short(AddUserPurchasedSpace(t, n))
      /\ ~ Short(ExpensionPuchasedPackage(s, n))
  BY <1>1 DEF Short, AddUserPurchasedSpace, ExpensionPuchasedPackage, Lease
<1>3. ~ Short(UpdatePuchasedPackage(t, s, n)) /\ ~ Short(FrozenTask(t, s))
  BY <1>1 DEF Short, UpdatePuchasedPackage, FrozenTask, Lease
<1>4. /\ CanUseSpace(s, n) => ~ Short(UseSpace(s, n))
      /\ CanReleaseSpace(s, n) => ~ Short(ReleaseSpace(s, n))
  BY <1>1 DEF Short, CanUseSpace, UseSpace, CanReleaseSpace, ReleaseSpace, Lease
<1>5. CanLockUserSpace(s, n) => ~ Short(LockUserSpace(s, n))
  BY <1>1 DEF Short, CanLockUserSpace, LockUserSpace, Lease
<1>6. /\ CanUnlockUserSpace(s, n) => ~ Short(UnlockUserSpace(s, n))
      /\ CanUnlockUserSpace(s, n) => ~ Short(UnlockAndUsedUserSpace(s, n))
  BY <1>1 DEF Short, CanUnlockUserSpace, UnlockUserSpace, UnlockAndUsedUserSpace, Lease
<1> QED
  BY <1>2, <1>3, <1>4, <1>5, <1>6

\* The helpers that move space within a lease, and its expansion, leave its
\* start, deadline and state alone.
LEMMA HelpersKeepTerm ==
  ASSUME NEW s \in Lease, NEW n \in Nat
  PROVE  \A r \in {UseSpace(s, n), ReleaseSpace(s, n), LockUserSpace(s, n),
                    UnlockUserSpace(s, n), UnlockAndUsedUserSpace(s, n),
                    ExpensionPuchasedPackage(s, n)} :
           r.state = s.state /\ r.deadline = s.deadline
  BY Zenon DEF UseSpace, ReleaseSpace, LockUserSpace, UnlockUserSpace,
         UnlockAndUsedUserSpace, ExpensionPuchasedPackage, Lease

-----------------------------------------------------------------------------
\* A quotient of naturals is a natural.
LEMMA QuotientNat ==
  ASSUME NEW a \in Nat, NEW b \in Nat \ {0}
  PROVE  a \div b \in Nat
  OBVIOUS

\* A product of naturals is a natural.
LEMMA ProductNat ==
  ASSUME NEW a \in Nat, NEW b \in Nat
  PROVE  a * b \in Nat
  OBVIOUS

\* The inductive invariant.
IInv == TypeOK /\ LeaseNeverShort /\ PunishedOnlyWhenOverdue /\ ClearListIsDead

\* Every amount charged is a natural number.
LEMMA PricesAreNat ==
  ASSUME TypeOK, NEW u \in DOMAIN UserOwnedSpace, NEW n \in Nat
  PROVE  /\ UnitPrice * n \in Nat
         /\ DayUnitPrice * (UserOwnedSpace[u].total \div GiB) * n \in Nat
         /\ now < UserOwnedSpace[u].deadline =>
              DayUnitPrice * n * RemainDay(UserOwnedSpace[u].deadline - now) \in Nat
<1>1. UserOwnedSpace[u].total \in Nat /\ UserOwnedSpace[u].deadline \in Nat
  BY DEF TypeOK, IsMap, Lease
<1>2. DayUnitPrice \in Nat
  BY QuotientNat, UserSpaceAssumption DEF DayUnitPrice, TypeOK
<1>3. UserOwnedSpace[u].total \div GiB \in Nat
  BY <1>1, QuotientNat, UserSpaceAssumption
<1>4. ASSUME now < UserOwnedSpace[u].deadline
      PROVE  RemainDay(UserOwnedSpace[u].deadline - now) \in Nat
  <2>1. UserOwnedSpace[u].deadline - now \in Nat
    BY <1>1, <1>4 DEF TypeOK
  <2>2. (UserOwnedSpace[u].deadline - now) \div OneDay \in Nat
    BY <2>1, QuotientNat, UserSpaceAssumption
  <2> QED
    BY <2>2 DEF RemainDay
<1>5. UnitPrice * n \in Nat /\ DayUnitPrice * n \in Nat
  BY <1>2, ProductNat DEF TypeOK
<1>6. DayUnitPrice * (UserOwnedSpace[u].total \div GiB) \in Nat
  BY <1>2, <1>3, ProductNat
<1>7. DayUnitPrice * (UserOwnedSpace[u].total \div GiB) * n \in Nat
  BY <1>6, ProductNat
<1>8. ASSUME now < UserOwnedSpace[u].deadline
      PROVE  DayUnitPrice * n * RemainDay(UserOwnedSpace[u].deadline - now) \in Nat
  BY <1>4, <1>5, <1>8, ProductNat
<1> QED
  BY <1>5, <1>7, <1>8

\* A payment of a natural amount leaves the balances well typed.
LEMMA PayKeepsType ==
  ASSUME TypeOK, NEW u \in Users, NEW price \in Nat, Pay(u, price)
  PROVE  Free' \in [Users -> Nat] /\ UnitPrice' \in Nat
<1>1. price <= Free[u]
  BY StorageHandlerAssumption DEF Pay, TypeOK
<1> QED
  BY <1>1 DEF Pay, TypeOK

\* The step of a call that rewrites one lease and keeps its term.
LEMMA OneLeaseStep ==
  ASSUME IInv, NEW u \in DOMAIN UserOwnedSpace, NEW lease \in Lease,
         ~ Short(lease),
         lease.state = UserOwnedSpace[u].state,
         lease.deadline = UserOwnedSpace[u].deadline,
         UserOwnedSpace' = [UserOwnedSpace EXCEPT ![u] = lease],
         now' = now, totals' = totals, ClearList' = ClearList,
         PurchasedSpace' \in Nat, UnitPrice' \in Nat, Free' \in [Users -> Nat]
  PROVE  IInv'
<1>1. TypeOK'
  BY DEF IInv, TypeOK, IsMap, totals
<1>2. LeaseNeverShort'
  <2>1. lease.total <= lease.remaining + lease.used + lease.locked
    BY DEF Short, Lease
  <2> QED
    BY <2>1 DEF IInv, LeaseNeverShort, TypeOK, IsMap
<1>3. PunishedOnlyWhenOverdue'
  BY DEF IInv, PunishedOnlyWhenOverdue, TypeOK, IsMap
<1>4. ClearListIsDead'
  BY DEF IInv, ClearListIsDead, TypeOK, IsMap
<1> QED
  BY <1>1, <1>2, <1>3, <1>4 DEF IInv

-----------------------------------------------------------------------------
\* The inductive invariant holds at the start.
LEMMA InitIInv == Init => IInv
  BY StorageHandlerAssumption
  DEF Init, IInv, TypeOK, IsMap, EmptyMap, LeaseNeverShort,
      PunishedOnlyWhenOverdue, ClearListIsDead

\* The calls of file-bank that rewrite one lease.
LEMMA FileBankCallStep ==
  ASSUME IInv, NEW u \in Users, FileBankCall(u)
  PROVE  IInv'
<1>1. ASSUME NEW size \in Sizes, u \in DOMAIN UserOwnedSpace, NEW lease,
             SetLease(u, lease), lease \in Lease, ~ Short(lease),
             lease.state = UserOwnedSpace[u].state,
             lease.deadline = UserOwnedSpace[u].deadline
      PROVE  IInv'
  <2>1. /\ UserOwnedSpace' = [UserOwnedSpace EXCEPT ![u] = lease]
        /\ now' = now /\ totals' = totals /\ ClearList' = ClearList
        /\ PurchasedSpace' \in Nat /\ UnitPrice' \in Nat /\ Free' \in [Users -> Nat]
    BY <1>1 DEF SetLease, money, totals, IInv, TypeOK
  <2> QED
    BY <1>1, <2>1, OneLeaseStep, Zenon
<1>2. ASSUME NEW size \in Sizes, u \in DOMAIN UserOwnedSpace
      PROVE  /\ size \in Nat /\ UserOwnedSpace[u] \in Lease
             /\ ~ Short(UserOwnedSpace[u])
  BY <1>2, StorageHandlerAssumption
  DEF IInv, TypeOK, IsMap, LeaseNeverShort, Short, Lease
<1>3. ASSUME NEW size \in Sizes, Use(u, size) PROVE IInv'
  BY <1>1, <1>2, <1>3, HelpersKeepType, HelpersKeepCover, HelpersKeepTerm, Zenon DEF Use
<1>4. ASSUME NEW size \in Sizes, Release(u, size) PROVE IInv'
  BY <1>1, <1>2, <1>4, HelpersKeepType, HelpersKeepCover, HelpersKeepTerm, Zenon DEF Release
<1>5. ASSUME NEW size \in Sizes, Lock(u, size) PROVE IInv'
  BY <1>1, <1>2, <1>5, HelpersKeepType, HelpersKeepCover, HelpersKeepTerm, Zenon DEF Lock
<1>6. ASSUME NEW size \in Sizes, Unlock(u, size) PROVE IInv'
  BY <1>1, <1>2, <1>6, HelpersKeepType, HelpersKeepCover, HelpersKeepTerm, Zenon DEF Unlock
<1>7. ASSUME NEW size \in Sizes, UnlockAndUse(u, size) PROVE IInv'
  BY <1>1, <1>2, <1>7, HelpersKeepType, HelpersKeepCover, HelpersKeepTerm, Zenon
  DEF UnlockAndUse
<1>8. ASSUME DeleteUserSpaceStorage(u) PROVE IInv'
  <2>1. UserOwnedSpace[u].total \in Nat
    BY <1>8 DEF DeleteUserSpaceStorage, IInv, TypeOK, IsMap, Lease
  <2>2. TypeOK'
    BY <1>8, <2>1
    DEF DeleteUserSpaceStorage, RemoveKey, totals, money, IInv, TypeOK, IsMap
  <2>3. LeaseNeverShort' /\ PunishedOnlyWhenOverdue' /\ ClearListIsDead'
    BY <1>8 DEF DeleteUserSpaceStorage, RemoveKey, IInv, LeaseNeverShort,
                PunishedOnlyWhenOverdue, ClearListIsDead
  <2> QED
    BY <2>2, <2>3 DEF IInv
<1> QED
  BY <1>3, <1>4, <1>5, <1>6, <1>7, <1>8 DEF FileBankCall

\* The extrinsics of the pallet.
LEMMA UserCallStep ==
  ASSUME IInv, NEW u \in Users, UserCall(u)
  PROVE  IInv'
<1>1. ASSUME NEW gib \in GibCounts, BuySpace(u, gib) PROVE IInv'
  <2> DEFINE lease == AddUserPurchasedSpace(now, GiB * gib)
  <2>1. GiB * gib \in Nat /\ gib \in Nat /\ UnitPrice * gib \in Nat /\ now \in Nat
    BY StorageHandlerAssumption, UserSpaceAssumption, ProductNat DEF IInv, TypeOK
  <2>2. lease \in Lease /\ lease.total = lease.remaining + lease.used + lease.locked
        /\ lease.state = "normal"
    <3>1. OneDay * LeaseDays \in Nat
      BY UserSpaceAssumption
    <3> QED
      BY <2>1, <3>1 DEF AddUserPurchasedSpace, Lease, LeaseState
  <2>3. Free' \in [Users -> Nat] /\ UnitPrice' \in Nat
    BY <1>1, <2>1, PayKeepsType DEF BuySpace, IInv
  <2>4. /\ UserOwnedSpace' = InsertKey(UserOwnedSpace, u, lease)
        /\ u \notin DOMAIN UserOwnedSpace
        /\ PurchasedSpace' \in Nat /\ now' = now /\ totals' = totals
        /\ ClearList' = ClearList
    BY <1>1, <2>1 DEF BuySpace, AddPurchasedSpace, totals, IInv, TypeOK
  <2> HIDE DEF lease
  <2>5. TypeOK'
    BY <2>2, <2>3, <2>4 DEF InsertKey, IInv, TypeOK, IsMap, totals
  <2>6. LeaseNeverShort'
    BY <2>2, <2>4 DEF InsertKey, IInv, TypeOK, IsMap, Lease, LeaseNeverShort
  <2>7. PunishedOnlyWhenOverdue' /\ ClearListIsDead'
    BY <2>2, <2>4 DEF InsertKey, IInv, PunishedOnlyWhenOverdue, ClearListIsDead
  <2> QED
    BY <2>5, <2>6, <2>7 DEF IInv
<1>2. ASSUME NEW gib \in GibCounts, ExpansionSpace(u, gib) PROVE IInv'
  <2> DEFINE s == UserOwnedSpace[u]
             lease == ExpensionPuchasedPackage(s, GiB * gib)
             price == DayUnitPrice * gib * RemainDay(s.deadline - now)
  <2>1. GiB * gib \in Nat /\ gib \in Nat
    BY StorageHandlerAssumption, UserSpaceAssumption, ProductNat
  <2>2. u \in DOMAIN UserOwnedSpace /\ s \in Lease /\ ~ Short(s) /\ now < s.deadline
    BY <1>2 DEF ExpansionSpace, IInv, TypeOK, IsMap, LeaseNeverShort, Short, Lease
  <2>3. /\ lease \in Lease /\ ~ Short(lease)
        /\ lease.state = s.state /\ lease.deadline = s.deadline
    BY <2>1, <2>2, HelpersKeepType, HelpersKeepCover, HelpersKeepTerm, Zenon DEF IInv, TypeOK
  <2>4. price \in Nat
    BY <2>1, <2>2, PricesAreNat DEF IInv
  <2>5. Pay(u, price)
    BY <1>2 DEF ExpansionSpace
  <2>6. Free' \in [Users -> Nat] /\ UnitPrice' \in Nat
    BY <2>4, <2>5, PayKeepsType DEF IInv
  <2>7. /\ UserOwnedSpace' = [UserOwnedSpace EXCEPT ![u] = lease]
        /\ PurchasedSpace' \in Nat /\ now' = now /\ totals' = totals
        /\ ClearList' = ClearList
    BY <1>2, <2>1 DEF ExpansionSpace, AddPurchasedSpace, totals, IInv, TypeOK
  <2> QED
    BY <2>2, <2>3, <2>6, <2>7, OneLeaseStep, Zenon
<1>3. ASSUME NEW days \in RenewDays, RenewalSpace(u, days) PROVE IInv'
  <2> DEFINE s == UserOwnedSpace[u]
             lease == UpdatePuchasedPackage(now, s, days)
             price == DayUnitPrice * (s.total \div GiB) * days
  <2>1. days \in Nat /\ now \in Nat
    BY StorageHandlerAssumption DEF IInv, TypeOK
  <2>2. /\ u \in DOMAIN UserOwnedSpace /\ s \in Lease /\ ~ Short(s)
        /\ s.state # "dead"
    <3>1. u \in DOMAIN UserOwnedSpace /\ s.state # "dead"
      BY <1>3, Zenon DEF RenewalSpace
    <3>2. s \in Lease
      BY <3>1, Zenon DEF IInv, TypeOK, IsMap
    <3>3. s.total <= s.remaining + s.used + s.locked
      BY <3>1, Zenon DEF IInv, LeaseNeverShort
    <3> HIDE DEF s
    <3>4. ~ Short(s)
      BY <3>2, <3>3 DEF Short, Lease
    <3> QED
      BY <3>1, <3>2, <3>4
  <2>3. lease \in Lease /\ ~ Short(lease)
    BY <2>1, <2>2, HelpersKeepType, HelpersKeepCover
  <2>4. lease.state \in {"normal", s.state} /\ (lease.state # "normal" => now >= lease.deadline)
    <3>1. RenewedDeadline(now, s, days) \in Nat
      BY <2>1, <2>2, UserSpaceAssumption, ProductNat DEF RenewedDeadline, Lease
    <3> QED
      BY <2>1, <2>2, <3>1 DEF UpdatePuchasedPackage, Lease
  <2>5. price \in Nat /\ Pay(u, price)
    BY <1>3, <2>1, <2>2, PricesAreNat DEF RenewalSpace, IInv
  <2>6. Free' \in [Users -> Nat] /\ UnitPrice' \in Nat
    BY <2>5, PayKeepsType DEF IInv
  <2>7. /\ UserOwnedSpace' = [UserOwnedSpace EXCEPT ![u] = lease]
        /\ PurchasedSpace' = PurchasedSpace /\ now' = now /\ totals' = totals
        /\ ClearList' = ClearList
    BY <1>3 DEF RenewalSpace, totals
  <2> HIDE DEF lease
  <2>8. TypeOK'
    BY <2>2, <2>3, <2>6, <2>7 DEF IInv, TypeOK, IsMap, totals
  <2>9. LeaseNeverShort'
    BY <2>2, <2>3, <2>7 DEF IInv, TypeOK, IsMap, Lease, LeaseNeverShort, Short
  <2>10. PunishedOnlyWhenOverdue' /\ ClearListIsDead'
    BY <2>2, <2>3, <2>4, <2>7
    DEF IInv, TypeOK, IsMap, PunishedOnlyWhenOverdue, ClearListIsDead
  <2> QED
    BY <2>8, <2>9, <2>10 DEF IInv
<1> QED
  BY <1>1, <1>2, <1>3 DEF UserCall

\* A new block, with or without the daily frozen_task.
LEMMA NextBlockStep ==
  ASSUME IInv, NextBlock
  PROVE  IInv'
<1>1. now' = now + 1 /\ now' \in Nat /\ UNCHANGED <<totals, PurchasedSpace, money>>
  BY DEF NextBlock, IInv, TypeOK
<1>2. CASE now' % OneDay = 0
  <2>1. /\ UserOwnedSpace' = [u \in DOMAIN UserOwnedSpace |->
                                FrozenTask(now', UserOwnedSpace[u])]
        /\ ClearList' = {u \in DOMAIN UserOwnedSpace :
                            DueForClearing(now', UserOwnedSpace[u])}
    BY <1>2 DEF NextBlock
  <2>2. ASSUME NEW u \in DOMAIN UserOwnedSpace
        PROVE  /\ UserOwnedSpace[u] \in Lease /\ ~ Short(UserOwnedSpace[u])
               /\ FrozenTask(now', UserOwnedSpace[u]) \in Lease
               /\ ~ Short(FrozenTask(now', UserOwnedSpace[u]))
    <3>1. UserOwnedSpace[u] \in Lease /\ ~ Short(UserOwnedSpace[u])
      BY DEF IInv, TypeOK, IsMap, LeaseNeverShort, Short, Lease
    <3> QED
      BY <1>1, <3>1, HelpersKeepType, HelpersKeepCover
  <2>3. TypeOK'
    BY <1>1, <2>1, <2>2 DEF IInv, TypeOK, IsMap, totals, money
  <2>4. LeaseNeverShort'
    BY <2>1, <2>2 DEF LeaseNeverShort, Short, Lease
  <2>5. ASSUME NEW u \in DOMAIN UserOwnedSpace
        PROVE  LET s == FrozenTask(now', UserOwnedSpace[u])
               IN  /\ s.state = "frozen" => now' >= s.deadline
                   /\ s.state = "dead" => now' > s.deadline + FrozenDays
                   /\ DueForClearing(now', UserOwnedSpace[u]) => s.state = "dead"
    <3>1. /\ UserOwnedSpace[u].state = "frozen" => now >= UserOwnedSpace[u].deadline
          /\ UserOwnedSpace[u].state = "dead" =>
               now > UserOwnedSpace[u].deadline + FrozenDays
      BY DEF IInv, PunishedOnlyWhenOverdue
    <3>2. UserOwnedSpace[u] \in Lease /\ UserOwnedSpace[u].deadline \in Nat /\ now \in Nat
      BY <2>2 DEF Lease, IInv, TypeOK
    <3> QED
      BY <1>1, <3>1, <3>2, UserSpaceAssumption DEF FrozenTask, DueForClearing, Lease
  <2>6. PunishedOnlyWhenOverdue' /\ ClearListIsDead'
    BY <2>1, <2>5 DEF PunishedOnlyWhenOverdue, ClearListIsDead
  <2> QED
    BY <2>3, <2>4, <2>6 DEF IInv
<1>3. CASE now' % OneDay # 0
  <2>1. UserOwnedSpace' = UserOwnedSpace /\ ClearList' = ClearList
    BY <1>3 DEF NextBlock
  <2>2. TypeOK' /\ LeaseNeverShort' /\ ClearListIsDead'
    BY <1>1, <2>1
    DEF IInv, TypeOK, IsMap, totals, money, LeaseNeverShort, ClearListIsDead
  <2>3. PunishedOnlyWhenOverdue'
    BY <1>1, <2>1, UserSpaceAssumption
    DEF IInv, TypeOK, IsMap, Lease, PunishedOnlyWhenOverdue
  <2> QED
    BY <2>2, <2>3 DEF IInv
<1> QED
  BY <1>2, <1>3

\* Every step of the pallet keeps the inductive invariant.
LEMMA NextIInv == IInv /\ [Next]_vars => IInv'
<1> SUFFICES ASSUME IInv, [Next]_vars PROVE IInv'
  OBVIOUS
<1>1. ASSUME NEW u \in Users, UserCall(u) PROVE IInv'
  BY <1>1, UserCallStep
<1>2. ASSUME NEW u \in Users, FileBankCall(u) PROVE IInv'
  BY <1>2, FileBankCallStep
<1>3. CASE TotalsCall
  <2>1. TypeOK' /\ UNCHANGED <<now, UserOwnedSpace, ClearList>>
    BY <1>3, StorageHandlerAssumption
    DEF TotalsCall, AddIdle, SubIdle, IdleToService, SubService, money, IInv, TypeOK
  <2> QED
    BY <2>1 DEF IInv, LeaseNeverShort, PunishedOnlyWhenOverdue, ClearListIsDead
<1>4. CASE UpdatePrice
  <2>1. TypeOK' /\ UNCHANGED <<now, UserOwnedSpace, ClearList>>
    BY <1>4, StorageHandlerAssumption DEF UpdatePrice, totals, IInv, TypeOK
  <2> QED
    BY <2>1 DEF IInv, LeaseNeverShort, PunishedOnlyWhenOverdue, ClearListIsDead
<1>5. CASE NextBlock
  BY <1>5, NextBlockStep
<1>6. CASE UNCHANGED vars
  BY <1>6 DEF vars, IInv, TypeOK, LeaseNeverShort, PunishedOnlyWhenOverdue,
              ClearListIsDead
<1> QED
  BY <1>1, <1>2, <1>3, <1>4, <1>5, <1>6 DEF Next

\* The inductive invariant holds always.
LEMMA Invariance == Spec => []IInv
  BY InitIInv, NextIInv, PTL DEF Spec

\* The state of pallet storage-handler keeps its types: no subtraction of its
\* helpers goes below zero where the code would have reported an Overflow.
THEOREM TypeCorrect == Spec => []TypeOK
  BY Invariance, PTL DEF IInv

\* No sequence of calls makes a user lose space that was paid for.
THEOREM LeasesAreCovered == Spec => []LeaseNeverShort
  BY Invariance, PTL DEF IInv

\* frozen_task and renewal_space never leave a lease punished that is not
\* overdue, and only dead leases are handed to file-bank for clearing.
THEOREM PunishmentIsDue == Spec => [](PunishedOnlyWhenOverdue /\ ClearListIsDead)
  BY Invariance, PTL DEF IInv

-----------------------------------------------------------------------------
\* What a step may do to a dead lease.
DeadStays(u) ==
  UserOwnedSpace[u].state = "dead" =>
    IF u \in DOMAIN UserOwnedSpace'
    THEN /\ UserOwnedSpace'[u].state = "dead"
         /\ UserOwnedSpace'[u].deadline = UserOwnedSpace[u].deadline
    ELSE u \in ClearList

\* A call that rewrites u's lease and keeps its term leaves every dead lease alone.
LEMMA SetLeaseKeepsDead ==
  ASSUME IInv, NEW u \in DOMAIN UserOwnedSpace, NEW lease \in Lease,
         lease.state = UserOwnedSpace[u].state,
         lease.deadline = UserOwnedSpace[u].deadline,
         UserOwnedSpace' = [UserOwnedSpace EXCEPT ![u] = lease],
         NEW v \in DOMAIN UserOwnedSpace
  PROVE  DeadStays(v)
  BY DEF IInv, TypeOK, IsMap, DeadStays

\* No step takes a lease out of the state dead, other than by removing it.
LEMMA NextKeepsDead ==
  ASSUME IInv, Next, NEW v \in DOMAIN UserOwnedSpace
  PROVE  DeadStays(v)
<1>1. \A u \in DOMAIN UserOwnedSpace : UserOwnedSpace[u] \in Lease
  BY DEF IInv, TypeOK, IsMap
<1>2. ASSUME NEW u \in Users, NEW gib \in GibCounts, BuySpace(u, gib) PROVE DeadStays(v)
  BY <1>2 DEF BuySpace, InsertKey, DeadStays
<1>3. ASSUME NEW u \in Users, NEW gib \in GibCounts, ExpansionSpace(u, gib) PROVE DeadStays(v)
  <2>1. GiB * gib \in Nat /\ u \in DOMAIN UserOwnedSpace
    BY <1>3, StorageHandlerAssumption, UserSpaceAssumption, ProductNat DEF ExpansionSpace
  <2> QED
    BY <1>1, <1>3, <2>1, SetLeaseKeepsDead, HelpersKeepType, HelpersKeepTerm, Zenon
    DEF ExpansionSpace, IInv, TypeOK
<1>4. ASSUME NEW u \in Users, NEW days \in RenewDays, RenewalSpace(u, days) PROVE DeadStays(v)
  BY <1>4 DEF RenewalSpace, DeadStays, IInv, TypeOK, IsMap
<1>5. ASSUME NEW u \in Users, NEW size \in Sizes,
             Use(u, size) \/ Release(u, size) \/ Lock(u, size) \/ Unlock(u, size)
               \/ UnlockAndUse(u, size)
      PROVE  DeadStays(v)
  <2>1. u \in DOMAIN UserOwnedSpace /\ UserOwnedSpace[u] \in Lease /\ size \in Nat /\ now \in Nat
    BY <1>1, <1>5, StorageHandlerAssumption
    DEF Use, Release, Lock, Unlock, UnlockAndUse, IInv, TypeOK
  <2>2. ASSUME NEW lease \in Lease, SetLease(u, lease),
               lease.state = UserOwnedSpace[u].state,
               lease.deadline = UserOwnedSpace[u].deadline
        PROVE  DeadStays(v)
    BY <2>1, <2>2, SetLeaseKeepsDead, Zenon DEF SetLease
  <2>3. CASE Use(u, size)
    BY <2>1, <2>2, <2>3, HelpersKeepType, HelpersKeepTerm DEF Use
  <2>4. CASE Release(u, size)
    BY <2>1, <2>2, <2>4, HelpersKeepType, HelpersKeepTerm DEF Release
  <2>5. CASE Lock(u, size)
    BY <2>1, <2>2, <2>5, HelpersKeepType, HelpersKeepTerm DEF Lock
  <2>6. CASE Unlock(u, size)
    BY <2>1, <2>2, <2>6, HelpersKeepType, HelpersKeepTerm DEF Unlock
  <2>7. CASE UnlockAndUse(u, size)
    BY <2>1, <2>2, <2>7, HelpersKeepType, HelpersKeepTerm DEF UnlockAndUse
  <2> QED
    BY <1>5, <2>3, <2>4, <2>5, <2>6, <2>7
<1>6. ASSUME NEW u \in Users, DeleteUserSpaceStorage(u) PROVE DeadStays(v)
  BY <1>6 DEF DeleteUserSpaceStorage, RemoveKey, DeadStays
<1>7. ASSUME TotalsCall \/ UpdatePrice PROVE DeadStays(v)
  BY <1>7 DEF TotalsCall, AddIdle, SubIdle, IdleToService, SubService, UpdatePrice, DeadStays
<1>8. ASSUME NextBlock PROVE DeadStays(v)
  <2>1. UserOwnedSpace[v].state = "dead" => DueForClearing(now', UserOwnedSpace[v])
    BY <1>1, <1>8, UserSpaceAssumption
    DEF NextBlock, DueForClearing, IInv, TypeOK, PunishedOnlyWhenOverdue, Lease
  <2>2. UserOwnedSpace[v].state = "dead" =>
          /\ FrozenTask(now', UserOwnedSpace[v]).state = "dead"
          /\ FrozenTask(now', UserOwnedSpace[v]).deadline = UserOwnedSpace[v].deadline
    BY <1>1, <2>1 DEF FrozenTask, Lease
  <2> QED
    BY <1>8, <2>2 DEF NextBlock, DeadStays
<1> QED
  BY <1>2, <1>3, <1>4, <1>5, <1>6, <1>7, <1>8 DEF Next, UserCall, FileBankCall

\* A dead lease stays dead until frozen_task has listed its user and file-bank
\* deletes it: no purchase, renewal or call of file-bank brings it back.
THEOREM DeadStaysDead == Spec => DeadIsFinal
<1>1. IInv /\ [Next]_vars =>
        [\A u \in DOMAIN UserOwnedSpace :
           UserOwnedSpace[u].state = "dead" =>
             IF u \in DOMAIN UserOwnedSpace'
             THEN /\ UserOwnedSpace'[u].state = "dead"
                  /\ UserOwnedSpace'[u].deadline = UserOwnedSpace[u].deadline
             ELSE u \in ClearList]_vars
  BY NextKeepsDead DEF DeadStays
<1> QED
  BY <1>1, Invariance, PTL DEF Spec, DeadIsFinal

-----------------------------------------------------------------------------
\* Two multiples of d less than d apart are the same.
LEMMA SameMultiple ==
  ASSUME NEW p \in Int, NEW q \in Int, NEW d \in Nat \ {0},
         d * q < d * p + d, d * p < d * q + d
  PROVE  p = q
<1>1. ASSUME NEW i \in Int, NEW j \in Int, i < j PROVE d * i + d <= d * j
  <2>1. d * (i + 1) <= d * j
    BY <1>1
  <2>2. d * (i + 1) = d * i + d
    OBVIOUS
  <2> QED
    BY <2>1, <2>2
<1>2. ~ (p < q)
  BY <1>1
<1>3. ~ (q < p)
  BY <1>1
<1> QED
  BY <1>2, <1>3

\* Within a day the block number and its place in the day move together.
LEMMA SameDay ==
  ASSUME NEW n \in Nat, NEW d \in Nat \ {0}, (n + 1) % d # 0
  PROVE  (n + 1) - ((n + 1) % d) = n - (n % d)
<1> DEFINE p == n \div d
           q == (n + 1) \div d
<1>1. n = d * p + (n % d) /\ n % d \in 0..(d - 1) /\ p \in Nat
  OBVIOUS
<1>2. n + 1 = d * q + ((n + 1) % d) /\ (n + 1) % d \in 1..(d - 1) /\ q \in Nat
  OBVIOUS
<1> HIDE DEF p, q
<1>3. d * p \in Nat /\ d * q \in Nat
  BY <1>1, <1>2, ProductNat
<1>4. p = q
  BY <1>1, <1>2, <1>3, SameMultiple
<1> QED
  BY <1>1, <1>2, <1>3, <1>4

\* A call in the block leaves a lease alone, ends its term no earlier, or sells
\* time from now on.
LEMMA NoGapStep ==
  ASSUME IInv, OverdueIsFrozenWithinADay, UNCHANGED now,
         \A u \in DOMAIN UserOwnedSpace' :
           LET s == UserOwnedSpace'[u]
           IN  s.state = "normal" =>
                 \/ s.deadline \in Nat /\ s.deadline >= now
                 \/ /\ u \in DOMAIN UserOwnedSpace
                    /\ UserOwnedSpace[u].state = "normal"
                    /\ UserOwnedSpace[u].deadline = s.deadline
  PROVE  OverdueIsFrozenWithinADay'
<1>1. now \in Nat /\ now % OneDay \in Nat
  BY UserSpaceAssumption DEF IInv, TypeOK
<1> QED
  BY <1>1 DEF OverdueIsFrozenWithinADay

\* No step leaves a lease overdue for a day and still not frozen.
LEMMA NextNoGap ==
  ASSUME IInv, OverdueIsFrozenWithinADay, [Next]_vars
  PROVE  OverdueIsFrozenWithinADay'
<1>1. now \in Nat /\ \A u \in DOMAIN UserOwnedSpace : UserOwnedSpace[u] \in Lease
  BY DEF IInv, TypeOK, IsMap
<1>2. ASSUME NEW u \in Users, NEW gib \in GibCounts, BuySpace(u, gib)
      PROVE  OverdueIsFrozenWithinADay'
  <2> DEFINE lease == AddUserPurchasedSpace(now, GiB * gib)
  <2>1. lease.deadline \in Nat /\ lease.deadline >= now
    <3>1. OneDay * LeaseDays \in Nat
      BY UserSpaceAssumption, ProductNat
    <3> QED
      BY <1>1, <3>1 DEF AddUserPurchasedSpace
  <2>2. UNCHANGED now /\ UserOwnedSpace' = InsertKey(UserOwnedSpace, u, lease)
    BY <1>2 DEF BuySpace
  <2> HIDE DEF lease
  <2> QED
    BY <2>1, <2>2, NoGapStep DEF InsertKey
<1>3. ASSUME NEW u \in DOMAIN UserOwnedSpace, NEW lease \in Lease, UNCHANGED now,
             lease.state = UserOwnedSpace[u].state,
             lease.deadline = UserOwnedSpace[u].deadline,
             UserOwnedSpace' = [UserOwnedSpace EXCEPT ![u] = lease]
      PROVE  OverdueIsFrozenWithinADay'
  BY <1>3, NoGapStep
<1>4. ASSUME NEW u \in Users, NEW gib \in GibCounts, ExpansionSpace(u, gib)
      PROVE  OverdueIsFrozenWithinADay'
  <2>1. GiB * gib \in Nat /\ u \in DOMAIN UserOwnedSpace
    BY <1>4, StorageHandlerAssumption, UserSpaceAssumption, ProductNat DEF ExpansionSpace
  <2> QED
    BY <1>1, <1>3, <1>4, <2>1, HelpersKeepType, HelpersKeepTerm, Zenon DEF ExpansionSpace
<1>5. ASSUME NEW u \in Users, NEW days \in RenewDays, RenewalSpace(u, days)
      PROVE  OverdueIsFrozenWithinADay'
  <2> DEFINE lease == UpdatePuchasedPackage(now, UserOwnedSpace[u], days)
  <2>1. UNCHANGED now /\ UserOwnedSpace' = [UserOwnedSpace EXCEPT ![u] = lease]
    BY <1>5 DEF RenewalSpace
  <2>2. lease.deadline \in Nat /\ lease.deadline >= now
    <3>1. OneDay * days \in Nat
      BY StorageHandlerAssumption, UserSpaceAssumption, ProductNat
    <3>2. UserOwnedSpace[u] \in Lease
      BY <1>1, <1>5 DEF RenewalSpace
    <3> QED
      BY <1>1, <3>1, <3>2 DEF UpdatePuchasedPackage, RenewedDeadline, Lease
  <2> HIDE DEF lease
  <2> QED
    BY <2>1, <2>2, NoGapStep
<1>6. ASSUME NEW u \in Users, NEW size \in Sizes,
             Use(u, size) \/ Release(u, size) \/ Lock(u, size) \/ Unlock(u, size)
               \/ UnlockAndUse(u, size)
      PROVE  OverdueIsFrozenWithinADay'
  <2>1. u \in DOMAIN UserOwnedSpace /\ UserOwnedSpace[u] \in Lease /\ size \in Nat
    BY <1>1, <1>6, StorageHandlerAssumption DEF Use, Release, Lock, Unlock, UnlockAndUse
  <2>2. ASSUME NEW lease \in Lease, SetLease(u, lease),
               lease.state = UserOwnedSpace[u].state,
               lease.deadline = UserOwnedSpace[u].deadline
        PROVE  OverdueIsFrozenWithinADay'
    BY <1>3, <2>1, <2>2, Zenon DEF SetLease
  <2>3. CASE Use(u, size)
    BY <1>1, <2>1, <2>2, <2>3, HelpersKeepType, HelpersKeepTerm DEF Use
  <2>4. CASE Release(u, size)
    BY <1>1, <2>1, <2>2, <2>4, HelpersKeepType, HelpersKeepTerm, Zenon DEF Release
  <2>5. CASE Lock(u, size)
    BY <1>1, <2>1, <2>2, <2>5, HelpersKeepType, HelpersKeepTerm DEF Lock
  <2>6. CASE Unlock(u, size)
    BY <1>1, <2>1, <2>2, <2>6, HelpersKeepType, HelpersKeepTerm DEF Unlock
  <2>7. CASE UnlockAndUse(u, size)
    BY <1>1, <2>1, <2>2, <2>7, HelpersKeepType, HelpersKeepTerm DEF UnlockAndUse
  <2> QED
    BY <1>6, <2>3, <2>4, <2>5, <2>6, <2>7
<1>7. ASSUME NEW u \in Users, DeleteUserSpaceStorage(u) PROVE OverdueIsFrozenWithinADay'
  BY <1>7, NoGapStep DEF DeleteUserSpaceStorage, RemoveKey
<1>8. ASSUME TotalsCall \/ UpdatePrice \/ UNCHANGED vars PROVE OverdueIsFrozenWithinADay'
  BY <1>8 DEF TotalsCall, AddIdle, SubIdle, IdleToService, SubService, UpdatePrice, vars,
              OverdueIsFrozenWithinADay
<1>9. ASSUME NextBlock PROVE OverdueIsFrozenWithinADay'
  <2>1. now' = now + 1
    BY <1>9 DEF NextBlock
  <2>2. ASSUME now' % OneDay = 0 PROVE OverdueIsFrozenWithinADay'
    <3>1. UserOwnedSpace' = [u \in DOMAIN UserOwnedSpace |-> FrozenTask(now', UserOwnedSpace[u])]
      BY <1>9, <2>2 DEF NextBlock
    <3>2. \A u \in DOMAIN UserOwnedSpace :
            FrozenTask(now', UserOwnedSpace[u]).state = "normal" =>
              FrozenTask(now', UserOwnedSpace[u]).deadline >= now'
      BY <1>1, <2>1 DEF FrozenTask, Lease
    <3> QED
      BY <1>1, <2>1, <2>2, <3>1, <3>2 DEF OverdueIsFrozenWithinADay
  <2>3. ASSUME now' % OneDay # 0 PROVE OverdueIsFrozenWithinADay'
    <3>1. UNCHANGED UserOwnedSpace
      BY <1>9, <2>3 DEF NextBlock
    <3>2. now' - (now' % OneDay) = now - (now % OneDay)
      BY <1>1, <2>1, <2>3, SameDay, UserSpaceAssumption, Zenon
    <3> QED
      BY <3>1, <3>2 DEF OverdueIsFrozenWithinADay
  <2> QED
    BY <2>2, <2>3
<1> QED
  BY <1>2, <1>4, <1>5, <1>6, <1>7, <1>8, <1>9 DEF Next, UserCall, FileBankCall

\* No lease outlives its deadline by more than the rest of a day: every normal
\* lease's deadline is no earlier than the last run of frozen_task.
THEOREM NoGapBeforeFreezing == Spec => []OverdueIsFrozenWithinADay
<1>1. Init => OverdueIsFrozenWithinADay
  BY DEF Init, EmptyMap, OverdueIsFrozenWithinADay
<1>2. IInv /\ OverdueIsFrozenWithinADay /\ [Next]_vars => OverdueIsFrozenWithinADay'
  BY NextNoGap
<1> QED
  BY <1>1, <1>2, Invariance, PTL DEF Spec
=============================================================================
