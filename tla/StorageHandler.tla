--------------------------- MODULE StorageHandler ---------------------------
(***************************************************************************)
(* Pallet storage-handler: the leases users buy, and the network totals    *)
(* the sale is limited by.  The StorageHandle functions are called by      *)
(* pallet file-bank; here file-bank is the environment, which may call     *)
(* them with any size whose checks pass.  FileBank.tla composes the same   *)
(* helpers with the real caller.                                           *)
(*                                                                         *)
(* The currency is pallet_balances (external): a transfer with KeepAlive   *)
(* leaves at least the existential deposit with the sender, or fails and   *)
(* undoes the extrinsic.                                                   *)
(***************************************************************************)
EXTENDS UserSpace, StorageMap, FiniteSetsExt

CONSTANTS Users,
          GibCounts,   \* the gib_count arguments of buy and expansion
          RenewDays,   \* the days arguments of renewal_space
          Sizes,       \* sizes file-bank charges, locks and releases
          MaxTotal,    \* bound on the network totals
          MaxHeld,     \* bound on remaining + used + locked of one lease
          GenesisPrice,       \* price of one gib for LeaseDays at genesis
          DefaultPrice,       \* the price update_price sets
          ExistentialDeposit,
          InitialFree,        \* balance of every user at the start
          MaxBlock     \* bound on the block number

ASSUME StorageHandlerAssumption ==
  /\ GibCounts \subseteq Nat /\ RenewDays \subseteq Nat /\ Sizes \subseteq Nat
  /\ {MaxTotal, MaxHeld, MaxBlock} \subseteq Nat
  /\ {DefaultPrice, GenesisPrice, ExistentialDeposit, InitialFree} \subseteq Nat
  /\ DefaultPrice <= GenesisPrice

VARIABLES now,               \* frame_system block number
          UserOwnedSpace,    \* user -> lease
          TotalIdleSpace,
          TotalServiceSpace,
          PurchasedSpace,
          UnitPrice,
          Free,              \* user -> free balance
          ClearList          \* the users the last frozen_task returned

vars == <<now, UserOwnedSpace, TotalIdleSpace, TotalServiceSpace,
          PurchasedSpace, UnitPrice, Free, ClearList>>

money == <<UnitPrice, Free>>

totals == <<TotalIdleSpace, TotalServiceSpace>>

TypeOK ==
  /\ now \in Nat
  /\ IsMap(UserOwnedSpace, Users, Lease)
  /\ TotalIdleSpace \in Nat
  /\ TotalServiceSpace \in Nat
  /\ PurchasedSpace \in Nat
  /\ UnitPrice \in Nat
  /\ Free \in [Users -> Nat]
  /\ ClearList \subseteq Users

Init ==
  /\ now = 1
  /\ UserOwnedSpace = EmptyMap
  /\ TotalIdleSpace = 0
  /\ TotalServiceSpace = 0
  /\ PurchasedSpace = 0
  /\ UnitPrice = GenesisPrice
  /\ Free = [u \in Users |-> InitialFree]
  /\ ClearList = {}

-----------------------------------------------------------------------------
(* Extrinsics *)

\* add_purchased_space
AddPurchasedSpace(size) ==
  /\ PurchasedSpace + size <= TotalIdleSpace + TotalServiceSpace
  /\ PurchasedSpace' = PurchasedSpace + size

\* ensure!(can_slash), then transfer to the pallet's pot.
Pay(u, price) ==
  /\ price = 0 \/ price + ExistentialDeposit <= Free[u]
  /\ Free' = [Free EXCEPT ![u] = @ - price]
  /\ UNCHANGED UnitPrice

\* The recorded price is for a month; the rest of the integer division is lost.
DayUnitPrice == UnitPrice \div LeaseDays

\* Mutant: a day that has begun is not charged.
MutantWholeDaysOnly(blocks) == blocks \div OneDay

RemainDay(blocks) ==
  (blocks \div OneDay) + (IF blocks % OneDay # 0 THEN 1 ELSE 0)

BuySpace(u, gib) ==
  /\ u \notin DOMAIN UserOwnedSpace
  /\ UserOwnedSpace' =
       InsertKey(UserOwnedSpace, u, AddUserPurchasedSpace(now, GiB * gib))
  /\ AddPurchasedSpace(GiB * gib)
  /\ Pay(u, UnitPrice * gib)
  /\ UNCHANGED <<now, totals, ClearList>>

ExpansionSpace(u, gib) ==
  /\ u \in DOMAIN UserOwnedSpace
  /\ now < UserOwnedSpace[u].deadline
  /\ UserOwnedSpace[u].state # "frozen"
  /\ AddPurchasedSpace(GiB * gib)
  /\ UserOwnedSpace' =
       [UserOwnedSpace EXCEPT ![u] = ExpensionPuchasedPackage(@, GiB * gib)]
  /\ Pay(u, DayUnitPrice * gib * RemainDay(UserOwnedSpace[u].deadline - now))
  /\ UNCHANGED <<now, totals, ClearList>>

\* Mutant: a dead lease may be renewed.
MutantRenewDead(u, days) ==
  /\ u \in DOMAIN UserOwnedSpace
  /\ UserOwnedSpace' =
       [UserOwnedSpace EXCEPT ![u] = UpdatePuchasedPackage(now, @, days)]
  /\ Pay(u, DayUnitPrice * (UserOwnedSpace[u].total \div GiB) * days)
  /\ UNCHANGED <<now, totals, PurchasedSpace, ClearList>>

RenewalSpace(u, days) ==
  /\ u \in DOMAIN UserOwnedSpace
  /\ UserOwnedSpace[u].state # "dead"
  /\ UserOwnedSpace' =
       [UserOwnedSpace EXCEPT ![u] = UpdatePuchasedPackage(now, @, days)]
  /\ Pay(u, DayUnitPrice * (UserOwnedSpace[u].total \div GiB) * days)
  /\ UNCHANGED <<now, totals, PurchasedSpace, ClearList>>

UpdatePrice ==
  /\ UnitPrice' = DefaultPrice
  /\ UNCHANGED <<now, UserOwnedSpace, totals, PurchasedSpace, Free, ClearList>>

-----------------------------------------------------------------------------
(* StorageHandle: what file-bank calls *)

SetLease(u, lease) ==
  /\ UserOwnedSpace' = [UserOwnedSpace EXCEPT ![u] = lease]
  /\ UNCHANGED <<now, totals, PurchasedSpace, money, ClearList>>

Use(u, size) ==
  /\ u \in DOMAIN UserOwnedSpace
  /\ CanUseSpace(UserOwnedSpace[u], size)
  /\ SetLease(u, UseSpace(UserOwnedSpace[u], size))

Release(u, size) ==
  /\ u \in DOMAIN UserOwnedSpace
  /\ CanReleaseSpace(UserOwnedSpace[u], size)
  /\ UserOwnedSpace[u].total + UserOwnedSpace[u].locked <= MaxHeld
  /\ SetLease(u, ReleaseSpace(UserOwnedSpace[u], size))

Lock(u, size) ==
  /\ u \in DOMAIN UserOwnedSpace
  /\ CanLockUserSpace(UserOwnedSpace[u], size)
  /\ SetLease(u, LockUserSpace(UserOwnedSpace[u], size))

Unlock(u, size) ==
  /\ u \in DOMAIN UserOwnedSpace
  /\ CanUnlockUserSpace(UserOwnedSpace[u], size)
  /\ SetLease(u, UnlockUserSpace(UserOwnedSpace[u], size))

UnlockAndUse(u, size) ==
  /\ u \in DOMAIN UserOwnedSpace
  /\ CanUnlockUserSpace(UserOwnedSpace[u], size)
  /\ SetLease(u, UnlockAndUsedUserSpace(UserOwnedSpace[u], size))

\* delete_user_space_storage, for a user file-bank is clearing.
DeleteUserSpaceStorage(u) ==
  /\ u \in ClearList
  /\ u \in DOMAIN UserOwnedSpace
  /\ UserOwnedSpace[u].total <= PurchasedSpace
  /\ PurchasedSpace' = PurchasedSpace - UserOwnedSpace[u].total
  /\ UserOwnedSpace' = RemoveKey(UserOwnedSpace, u)
  /\ ClearList' = ClearList \ {u}
  /\ UNCHANGED <<now, totals, money>>

\* add_total_idle_space, and sub_total_idle_space followed by
\* add_total_service_space when a file replaces fillers, and the subtractions.
AddIdle(size) ==
  /\ TotalIdleSpace + TotalServiceSpace + size <= MaxTotal
  /\ TotalIdleSpace' = TotalIdleSpace + size
  /\ UNCHANGED <<now, UserOwnedSpace, TotalServiceSpace, PurchasedSpace, money, ClearList>>

SubIdle(size) ==
  /\ size <= TotalIdleSpace
  /\ TotalIdleSpace' = TotalIdleSpace - size
  /\ UNCHANGED <<now, UserOwnedSpace, TotalServiceSpace, PurchasedSpace, money, ClearList>>

IdleToService(size) ==
  /\ size <= TotalIdleSpace
  /\ TotalIdleSpace' = TotalIdleSpace - size
  /\ TotalServiceSpace' = TotalServiceSpace + size
  /\ UNCHANGED <<now, UserOwnedSpace, PurchasedSpace, money, ClearList>>

SubService(size) ==
  /\ size <= TotalServiceSpace
  /\ TotalServiceSpace' = TotalServiceSpace - size
  /\ UNCHANGED <<now, UserOwnedSpace, TotalIdleSpace, PurchasedSpace, money, ClearList>>

-----------------------------------------------------------------------------
\* A new block; on a day boundary file-bank's on_initialize runs frozen_task.
NextBlock ==
  /\ now < MaxBlock
  /\ now' = now + 1
  /\ IF now' % OneDay = 0
     THEN /\ UserOwnedSpace' = [u \in DOMAIN UserOwnedSpace |->
                                  FrozenTask(now', UserOwnedSpace[u])]
          /\ ClearList' = {u \in DOMAIN UserOwnedSpace :
                             DueForClearing(now', UserOwnedSpace[u])}
     ELSE UNCHANGED <<UserOwnedSpace, ClearList>>
  /\ UNCHANGED <<totals, PurchasedSpace, money>>

UserCall(u) ==
  \/ \E gib \in GibCounts : BuySpace(u, gib) \/ ExpansionSpace(u, gib)
  \/ \E days \in RenewDays : RenewalSpace(u, days)

FileBankCall(u) ==
  \/ \E size \in Sizes :
       \/ Use(u, size) \/ Release(u, size)
       \/ Lock(u, size) \/ Unlock(u, size) \/ UnlockAndUse(u, size)
  \/ DeleteUserSpaceStorage(u)

TotalsCall ==
  \E size \in Sizes : AddIdle(size) \/ SubIdle(size) \/ IdleToService(size) \/ SubService(size)

Next ==
  \/ \E u \in Users : UserCall(u) \/ FileBankCall(u)
  \/ TotalsCall
  \/ UpdatePrice
  \/ NextBlock

Spec == Init /\ [][Next]_vars

-----------------------------------------------------------------------------
(* Properties *)

\* A user never loses space that was paid for: whatever sequence of charges,
\* locks, unlocks, releases, expansions and renewals a lease goes through, what
\* remains, is used and is locked add up to at least the total
\* (update_user_space, lock_user_space, unlock_user_space,
\* unlock_and_used_user_space, expension_puchased_package).
LeaseNeverShort ==
  \A u \in DOMAIN UserOwnedSpace :
    LET s == UserOwnedSpace[u] IN s.total <= s.remaining + s.used + s.locked

\* frozen_task never punishes a lease early, and no later call leaves a paid-up
\* lease punished: a frozen lease has reached its deadline, and a dead one is
\* past its deadline and the whole frozen period, for as long as it is dead.
PunishedOnlyWhenOverdue ==
  \A u \in DOMAIN UserOwnedSpace :
    LET s == UserOwnedSpace[u]
    IN  /\ s.state = "frozen" => now >= s.deadline
        /\ s.state = "dead" => now > s.deadline + FrozenDays

\* The daily frozen_task leaves no gap: a lease that is still normal has not
\* passed its deadline before the last day boundary, however it was renewed.
OverdueIsFrozenWithinADay ==
  \A u \in DOMAIN UserOwnedSpace :
    UserOwnedSpace[u].state = "normal" =>
      UserOwnedSpace[u].deadline >= now - (now % OneDay)

\* No storage time is given away: whatever a step adds to the gib-blocks a lease
\* has ahead of it is charged to its owner in that step, at the daily price and
\* for at least that many blocks.  The rounding of the month's price and of
\* begun days, a renewal before or after expiry and an expansion of a part-used
\* lease never come out below the time they add (buy_space, expansion_space,
\* renewal_space, update_puchased_package).
GibBlocksAhead(u) ==
  IF u \in DOMAIN UserOwnedSpace /\ UserOwnedSpace[u].deadline > now
  THEN (UserOwnedSpace[u].total \div GiB) * (UserOwnedSpace[u].deadline - now)
  ELSE 0

AddedTimeIsCharged ==
  [][\A u \in Users :
       DayUnitPrice * (GibBlocksAhead(u)' - GibBlocksAhead(u))
         <= OneDay * (Free[u] - Free'[u])]_vars

\* A dead lease never comes back: no extrinsic, file-bank call or later
\* frozen_task moves it to another state or to a later deadline; it can only be
\* deleted, which happens only to a user frozen_task listed.
DeadIsFinal ==
  [][\A u \in DOMAIN UserOwnedSpace :
       UserOwnedSpace[u].state = "dead" =>
         IF u \in DOMAIN UserOwnedSpace'
         THEN /\ UserOwnedSpace'[u].state = "dead"
              /\ UserOwnedSpace'[u].deadline = UserOwnedSpace[u].deadline
         ELSE u \in ClearList]_vars

\* Only dead leases are cleared: every user frozen_task has listed and file-bank
\* has not finished with still owns a lease, and that lease is dead, whatever
\* the user bought, renewed or deleted in between.
ClearListIsDead ==
  \A u \in ClearList :
    u \in DOMAIN UserOwnedSpace /\ UserOwnedSpace[u].state = "dead"
=============================================================================
