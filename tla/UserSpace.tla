----------------------------- MODULE UserSpace ------------------------------
(***************************************************************************)
(* The helper functions of pallet storage-handler on one user's lease      *)
(* (OwnedSpaceDetails).  Sizes are counted in fragments of FRAGMENT_SIZE   *)
(* (8 MiB), the unit every amount of the pallets is a multiple of.         *)
(*                                                                         *)
(* A helper that can fail comes as two operators: Can<Helper>, the         *)
(* conjunction of its checks, and <Helper>, the lease it leaves behind.    *)
(* The extrinsics are #[transactional], so a failed check undoes the call. *)
(***************************************************************************)
EXTENDS Integers

CONSTANTS OneDay,      \* blocks per day (T::OneDay)
          LeaseDays,   \* days bought with a new lease (30 in the code)
          FrozenDays,  \* blocks between expiry and death (T::FrozenDays)
          GiB          \* one gib in fragments (G_BYTE / FRAGMENT_SIZE)

ASSUME UserSpaceAssumption ==
  /\ OneDay \in Nat \ {0}
  /\ LeaseDays \in Nat \ {0}
  /\ FrozenDays \in Nat
  /\ GiB \in Nat \ {0}

LeaseState == {"normal", "frozen", "dead"}

\* The field "start" is written and never read: it is left out.
Lease == [total: Nat, used: Nat, locked: Nat, remaining: Nat,
          deadline: Nat, state: LeaseState]

\* add_user_purchased_space: the lease of a first purchase.
AddUserPurchasedSpace(now, space) ==
  [total |-> space, used |-> 0, locked |-> 0, remaining |-> space,
   deadline |-> now + OneDay * LeaseDays, state |-> "normal"]

\* expension_puchased_package
ExpensionPuchasedPackage(s, space) ==
  [s EXCEPT !.remaining = @ + space, !.total = @ + space]

\* Mutant: always extends from the old deadline, and calls the lease normal.
MutantRenewFromOldDeadline(now, s, days) ==
  [s EXCEPT !.deadline = @ + OneDay * days, !.state = "normal"]

\* update_puchased_package: a lease already past its deadline restarts now.
RenewedDeadline(now, s, days) ==
  (IF now > s.deadline THEN now ELSE s.deadline) + OneDay * days

UpdatePuchasedPackage(now, s, days) ==
  [s EXCEPT !.deadline = RenewedDeadline(now, s, days),
            !.state = IF RenewedDeadline(now, s, days) > now THEN "normal" ELSE @]

\* update_user_space with operation 1: charge a file to the lease.
CanUseSpace(s, size) == s.state # "frozen" /\ size <= s.remaining

UseSpace(s, size) == [s EXCEPT !.used = @ + size, !.remaining = @ - size]

\* update_user_space with operation 2: release a file.  What remains is
\* recomputed from total and used; locked space is not taken into account.
CanReleaseSpace(s, size) == size <= s.used /\ s.used - size <= s.total

\* Mutant: forgets to give the released space back.
MutantReleaseKeepsRemaining(s, size) == [s EXCEPT !.used = @ - size]

ReleaseSpace(s, size) ==
  [s EXCEPT !.used = @ - size, !.remaining = s.total - (s.used - size)]

\* Mutant: locks without looking at what remains.
MutantLockUnchecked(s, needed) == s.state # "frozen"

CanLockUserSpace(s, needed) == s.state # "frozen" /\ needed <= s.remaining

LockUserSpace(s, needed) ==
  [s EXCEPT !.locked = @ + needed, !.remaining = @ - needed]

CanUnlockUserSpace(s, needed) == needed <= s.locked

UnlockUserSpace(s, needed) ==
  [s EXCEPT !.locked = @ - needed, !.remaining = @ + needed]

\* unlock_and_used_user_space has the same check as unlock_user_space.
UnlockAndUsedUserSpace(s, needed) ==
  [s EXCEPT !.locked = @ - needed, !.used = @ + needed]

\* Mutant: the frozen period is skipped.
MutantDueAtDeadline(now, s) == now > s.deadline

\* Mutant: the test for an expired lease comes before the test for a dead one.
MutantFrozenFirst(now, s) ==
  [s EXCEPT !.state = IF now > s.deadline /\ @ # "frozen" THEN "frozen"
                      ELSE IF now > s.deadline + FrozenDays THEN "dead" ELSE @]

\* frozen_task on one lease at block now, and whether it lists the user for
\* clearing.
DueForClearing(now, s) == now > s.deadline + FrozenDays

FrozenTask(now, s) ==
  [s EXCEPT !.state = IF DueForClearing(now, s) THEN "dead"
                      ELSE IF now > s.deadline THEN "frozen" ELSE @]
=============================================================================
